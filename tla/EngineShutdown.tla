--------------------------- MODULE EngineShutdown ---------------------------
(***************************************************************************)
(* The stop of the capture process: the loop of Engine.start on the main   *)
(* thread, its `finally: self.stop()`, and the handler of SIGINT and       *)
(* SIGTERM (cmd_start), which runs on the same thread between two byte     *)
(* codes, calls engine.stop() and then sys.exit(0). stop() stops the audio *)
(* stream first, then closes the store, whose flush enters _do_flush       *)
(* again: the lock is an RLock, so a flush the signal interrupted does not *)
(* hold it back.                                                           *)
(*                                                                         *)
(* `flush` of EventStore is the _do_flush call on top of the stack of the  *)
(* main thread, `suspended` those a signal interrupted.                    *)
(***************************************************************************)
EXTENDS EventStore

CONSTANT MaxSignals   (* bound of the signals received *)

ASSUME SignalAssumption == MaxSignals \in Nat

VARIABLES
  main,      \* where the main thread is, see Phases
  stopping,  \* Engine.stop on top of the stack is in capture.stop()
  suspended, \* interrupted _do_flush calls, the outermost first
  signals,
  seen       \* history: which of Incidents have happened

engineVars == <<vars, main, stopping, suspended, signals, seen>>

(* "after_commit": a signal between the commit and the end of a flush;     *)
(* "final_flush": a signal during a flush of the finally clause;           *)
(* "refused": a flush failed although no interrupted call held the lock.   *)
Incidents == {"after_commit", "final_flush", "refused"}

(* "running": the loop of Engine.start; "handler": engine.stop() of the    *)
(* signal handler; "finally": engine.stop() of the finally clause;         *)
(* "final_handler": a handler that interrupted the finally clause.         *)
Phases == {"running", "handler", "finally", "final_handler", "exited"}

EngineInit ==
  /\ Init
  /\ main = "running"
  /\ stopping = FALSE
  /\ suspended = <<>>
  /\ signals = 0
  /\ seen = {}

(* An interrupted call that has inserted rows keeps the write lock. *)
LockedBelow == \E i \in 1..Len(suspended) : suspended[i].pc = "locked"

(* Store actions of the loop: events and spectrum rows, maybe_flush. *)
LoopStep ==
  /\ main = "running"
  /\ (\E k \in Kinds : Add(k)) \/ MaybeFlush
  /\ UNCHANGED <<main, stopping, suspended, signals, seen>>

(* Mutant: with a plain Lock the flush of the handler waits for the one it *)
(* has interrupted.                                                        *)
TopMayRunPlainLock == suspended = <<>>

(* The RLock lets the flush on top of the stack run. *)
TopMayRun == TRUE

(* The flush on top of the stack goes on. Its INSERT waits for the lock of *)
(* an interrupted transaction and can only fail. An exception of the flush *)
(* is caught inside it, whatever phase it runs in.                         *)
TopFlushStep ==
  /\ main # "exited"
  /\ TopMayRun
  /\ \/ /\ \/ Insert /\ ~LockedBelow
           \/ Commit
           \/ ClearEvents
           \/ ClearSpectrum
        /\ UNCHANGED seen
     \/ /\ FlushFails
        /\ seen' = IF LockedBelow THEN seen ELSE seen \cup {"refused"}
  /\ UNCHANGED <<main, stopping, suspended, signals>>

HandlerPhase == IF main \in {"finally", "final_handler"}
                THEN "final_handler" ELSE "handler"

Struck ==
  (IF flush.pc \in {"clear_events", "clear_spectrum"}
   THEN {"after_commit"} ELSE {})
  \cup (IF flush.pc # "idle" /\ HandlerPhase = "final_handler"
        THEN {"final_flush"} ELSE {})

(* handle_signal: engine.stop(). *)
Signal ==
  /\ main # "exited"
  /\ signals < MaxSignals
  /\ signals' = signals + 1
  /\ main' = HandlerPhase
  /\ stopping' = TRUE
  /\ suspended' = IF flush.pc = "idle" THEN suspended
                  ELSE Append(suspended, flush)
  /\ flush' = Idle
  /\ seen' = seen \cup Struck
  /\ UNCHANGED <<issued, buffer, since, db, lost, failed, crashes>>

(* The stream is stopped, whatever exception that raises: store.close()    *)
(* flushes.                                                                *)
CaptureStops ==
  /\ stopping
  /\ stopping' = FALSE
  /\ EnterFlush(buffer)
  /\ UNCHANGED <<issued, buffer, db, lost, failed, crashes, main, suspended,
                 signals, seen>>

(* Mutant: after the handler the finally clause does not stop again. *)
FinallyReturns == stopping' = FALSE

(* `finally: self.stop()` *)
FinallyStops == stopping' = TRUE

(* sys.exit(0) at the end of the handler: SystemExit unwinds every         *)
(* interrupted call, closing its connection and so rolling back what it    *)
(* had not committed, up to the finally clause of Engine.start.            *)
HandlerExits ==
  /\ main = "handler"
  /\ ~stopping /\ flush.pc = "idle"
  /\ main' = "finally"
  /\ suspended' = <<>>
  /\ FinallyStops
  /\ UNCHANGED <<vars, signals, seen>>

(* An exception leaves the loop (capture error): finally clause.           *)
LoopRaises ==
  /\ main = "running"
  /\ flush.pc = "idle"
  /\ main' = "finally"
  /\ FinallyStops
  /\ UNCHANGED <<vars, suspended, signals, seen>>

(* The process ends when the flush of the finally clause is over, or when  *)
(* the SystemExit of a handler that interrupted it unwinds it. What is     *)
(* still buffered is gone.                                                 *)
Exit ==
  /\ main \in {"finally", "final_handler"}
  /\ ~stopping /\ flush.pc = "idle"
  /\ main' = "exited"
  /\ lost' = [k \in Kinds |-> lost[k] \cup (RowsIn(buffer[k]) \ RowsIn(db[k]))]
  /\ buffer' = NoRows
  /\ suspended' = <<>>
  /\ UNCHANGED <<issued, since, flush, db, failed, crashes, stopping, signals, seen>>

(* The process is killed (SIGKILL); systemd starts a new one. *)
Killed ==
  /\ main # "exited"
  /\ Crash
  /\ main' = "running"
  /\ stopping' = FALSE
  /\ suspended' = <<>>
  /\ UNCHANGED <<signals, seen>>

EngineNext ==
  \/ LoopStep
  \/ TopFlushStep
  \/ Signal
  \/ CaptureStops
  \/ HandlerExits
  \/ LoopRaises
  \/ Exit
  \/ Killed

EngineSpec == EngineInit /\ [][EngineNext]_engineVars

(* The thread runs: interrupted calls are resumed or unwound, the audio    *)
(* stream stops, and each flush that was entered ends, one way or the      *)
(* other.                                                                  *)
EngineFairSpec ==
  /\ EngineSpec
  /\ WF_engineVars(TopFlushStep)
  /\ WF_engineVars(CaptureStops \/ HandlerExits \/ Exit)

-----------------------------------------------------------------------------
(* A stopping process writes everything, also when a signal finds a        *)
(* transaction open and the flush of the handler fails on its lock: the    *)
(* rollback and the flush of the finally clause make up for it.            *)
StopWritesAll ==
  (main = "exited" /\ crashes = 0 /\ seen \cap {"refused", "final_flush"} = {})
    => \A k \in Kinds : lost[k] = {}

(* Only a signal between the commit and the end of _do_flush can store a   *)
(* row twice: neither a failed flush, nor a rolled back one that the       *)
(* handler or the finally clause writes again, does.                       *)
TwiceOnlyIfStruck == "after_commit" \notin seen => StoredOnceInOrder

(* A received signal ends the process, or a kill does: the nested flush    *)
(* never waits for the one it interrupted (store.py:151).                  *)
SignalEndsProcess == (main = "handler") ~> (main \in {"exited", "running"})
=============================================================================
