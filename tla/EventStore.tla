----------------------------- MODULE EventStore -----------------------------
(***************************************************************************)
(* The batching of store.py: rows are appended to in-memory buffers and    *)
(* written to SQLite by _do_flush when a buffer reaches the batch size,    *)
(* when the batch timeout has passed, or on an explicit flush().           *)
(*                                                                         *)
(* _do_flush is split where another process, a crash or (in EngineShutdown)*)
(* a signal can come in between: before the first INSERT, which takes the  *)
(* write lock of the database; before COMMIT; before each of the two       *)
(* clear() calls.                                                          *)
(***************************************************************************)
EXTENDS Integers, Sequences

CONSTANTS
  BatchSize,     (* batch_size                                       *)
  BatchTimeout,  (* batch_timeout_s, in ticks of the engine          *)
  MaxRows,       (* bound of the rows accepted of each kind          *)
  MaxCrashes     (* bound of the crashes                             *)

ASSUME StoreAssumption ==
  /\ BatchSize \in Nat \ {0}
  /\ BatchTimeout \in Nat \ {0}
  /\ MaxRows \in Nat
  /\ MaxCrashes \in Nat

Kinds == {"event", "spectrum"}

VARIABLES
  issued,  \* rows handed to add_event / add_spectrum so far, per kind
  buffer,  \* _buffer and _spec_buffer
  since,   \* ticks since _last_flush_time, up to BatchTimeout
  flush,   \* the _do_flush call in progress: [pc, rows]
  db,      \* committed rows of the tables events and spectrum
  lost,    \* history: rows that a crash took from the buffers
  failed,  \* history: a flush failed since the last successful one
  crashes

process == <<buffer, since, flush>>
vars == <<issued, process, db, lost, failed, crashes>>

NoRows == [k \in Kinds |-> <<>>]

Idle == [pc |-> "idle", rows |-> NoRows]

RowsIn(s) == {s[i] : i \in 1..Len(s)}

Rows == [Kinds -> Seq(Nat)]

Pcs == {"idle", "insert", "locked", "clear_events", "clear_spectrum"}

TypeOK ==
  /\ issued \in [Kinds -> 0..MaxRows]
  /\ buffer \in Rows
  /\ since \in 0..BatchTimeout
  /\ flush \in [pc : Pcs, rows : Rows]
  /\ db \in Rows
  /\ lost \in [Kinds -> SUBSET Nat]
  /\ failed \in BOOLEAN
  /\ crashes \in 0..MaxCrashes

Init ==
  /\ issued = [k \in Kinds |-> 0]
  /\ buffer = NoRows
  /\ since = 0
  /\ flush = Idle
  /\ db = NoRows
  /\ lost = [k \in Kinds |-> {}]
  /\ failed = FALSE
  /\ crashes = 0

-----------------------------------------------------------------------------
(* Mutant: the next deadline is stored instead of the time of the flush. *)
FlushedAtDeadline == 0 - BatchTimeout

(* _last_flush_time = time.monotonic() *)
FlushedNow == 0

(* Entering _do_flush with the buffers b: the rows are copied; with empty  *)
(* buffers only the time of the last flush is updated.                     *)
EnterFlush(b) ==
  IF b = NoRows
  THEN /\ flush' = Idle
       /\ since' = FlushedNow
  ELSE /\ flush' = [pc |-> "insert", rows |-> b]
       /\ UNCHANGED since

(* Mutant: the batch is full only when it overflows. *)
BatchOverfull(b) == \E k \in Kinds : Len(b[k]) > BatchSize

(* _maybe_do_flush *)
BatchFull(b) == \E k \in Kinds : Len(b[k]) >= BatchSize

(* add_event, add_spectrum *)
Add(k) ==
  LET b == [buffer EXCEPT ![k] = Append(@, issued[k] + 1)] IN
  /\ flush.pc = "idle"
  /\ issued[k] < MaxRows
  /\ issued' = [issued EXCEPT ![k] = @ + 1]
  /\ buffer' = b
  /\ IF BatchFull(b) THEN EnterFlush(b) ELSE UNCHANGED <<flush, since>>
  /\ UNCHANGED <<db, lost, failed, crashes>>

(* Mutant: the timeout only looks at the events. *)
EventsTimedOut(b, t) == b["event"] # <<>> /\ t >= BatchTimeout

TimedOut(b, t) == b # NoRows /\ t >= BatchTimeout

(* maybe_flush, once per tick of the engine *)
MaybeFlush ==
  LET t == IF since < BatchTimeout THEN since + 1 ELSE since IN
  /\ flush.pc = "idle"
  /\ since' = t
  /\ IF TimedOut(buffer, t)
     THEN flush' = [pc |-> "insert", rows |-> buffer]
     ELSE UNCHANGED flush
  /\ UNCHANGED <<issued, buffer, db, lost, failed, crashes>>

(* flush(), unconditional *)
Flush ==
  /\ flush.pc = "idle"
  /\ EnterFlush(buffer)
  /\ UNCHANGED <<issued, buffer, db, lost, failed, crashes>>

(* The first INSERT takes the write lock of the database. *)
Insert ==
  /\ flush.pc = "insert"
  /\ flush' = [flush EXCEPT !.pc = "locked"]
  /\ UNCHANGED <<issued, buffer, since, db, lost, failed, crashes>>

(* conn.commit() makes events, cluster rows and spectrum rows durable. *)
Commit ==
  /\ flush.pc = "locked"
  /\ flush' = [flush EXCEPT !.pc = "clear_events"]
  /\ db' = [k \in Kinds |-> db[k] \o flush.rows[k]]
  /\ UNCHANGED <<issued, buffer, since, lost, failed, crashes>>

(* Mutant: the buffers are emptied although the write failed. *)
EmptiedAfterFailure(b) == NoRows

KeptAfterFailure(b) == b

(* Another process holds the lock for too long, or the disk fails: the     *)
(* transaction is rolled back, the exception is logged.                    *)
FlushFails ==
  /\ flush.pc \in {"insert", "locked"}
  /\ flush' = Idle
  /\ failed' = TRUE
  /\ buffer' = KeptAfterFailure(buffer)
  /\ UNCHANGED <<issued, since, db, lost, crashes>>

ClearEvents ==
  /\ flush.pc = "clear_events"
  /\ flush' = [flush EXCEPT !.pc = "clear_spectrum"]
  /\ buffer' = [buffer EXCEPT !["event"] = <<>>]
  /\ UNCHANGED <<issued, since, db, lost, failed, crashes>>

(* Mutant: the spectrum buffer is not cleared. *)
SpectrumKept(b) == b

SpectrumCleared(b) == [b EXCEPT !["spectrum"] = <<>>]

ClearSpectrum ==
  /\ flush.pc = "clear_spectrum"
  /\ flush' = Idle
  /\ buffer' = SpectrumCleared(buffer)
  /\ since' = FlushedNow
  /\ failed' = FALSE
  /\ UNCHANGED <<issued, db, lost, crashes>>

(* The process is killed (SIGKILL) and a new one starts. What is committed *)
(* stays: with synchronous=NORMAL that is not so after a power loss.       *)
Crash ==
  /\ crashes < MaxCrashes
  /\ crashes' = crashes + 1
  /\ lost' = [k \in Kinds |-> lost[k] \cup (RowsIn(buffer[k]) \ RowsIn(db[k]))]
  /\ buffer' = NoRows
  /\ since' = 0
  /\ flush' = Idle
  /\ failed' = FALSE
  /\ UNCHANGED <<issued, db>>

FlushStep == Insert \/ Commit \/ ClearEvents \/ ClearSpectrum

Next ==
  \/ \E k \in Kinds : Add(k)
  \/ MaybeFlush
  \/ Flush
  \/ FlushStep
  \/ FlushFails
  \/ Crash

Spec == Init /\ [][Next]_vars

(* The capture loop ticks for ever, a flush that was entered goes on, and  *)
(* a flush tried again and again is not refused for ever.                  *)
Fairness ==
  /\ WF_vars(MaybeFlush)
  /\ WF_vars(ClearEvents)
  /\ WF_vars(ClearSpectrum)
  /\ SF_vars(Insert)
  /\ SF_vars(Commit)

FairSpec == Spec /\ Fairness

-----------------------------------------------------------------------------
Increasing(s) == \A i, j \in 1..Len(s) : i < j => s[i] < s[j]

(* A row is committed at most once, and rows are committed in the order in *)
(* which they were added, across failures, retries and crashes (_do_flush).*)
StoredOnceInOrder == \A k \in Kinds : Increasing(db[k])

(* Every row added is committed, buffered, or was taken by a crash; a      *)
(* failed flush loses nothing (_do_flush, except branch).                  *)
NothingDisappears ==
  \A k \in Kinds :
    RowsIn(db[k]) \cup RowsIn(buffer[k]) \cup lost[k] = 1..issued[k]

(* What a crash may take: unless a flush failed, a buffer never holds more *)
(* than a batch, and holds less outside a flush (_maybe_do_flush).         *)
LossIsBounded ==
  ~failed => \A k \in Kinds :
    /\ Len(buffer[k]) <= BatchSize
    /\ flush.pc = "idle" => Len(buffer[k]) < BatchSize

(* Every row added becomes durable or is lost in a crash (maybe_flush and  *)
(* the retry of a failed flush).                                           *)
RowsBecomeDurable ==
  \A k \in Kinds : \A n \in 1..MaxRows :
    (issued[k] >= n) ~> (n \in RowsIn(db[k]) \cup lost[k])

(* The store implements the log: rows are durable from the commit on, even *)
(* while the buffers still hold them.                                      *)
Pending == IF flush.pc \in {"clear_events", "clear_spectrum"}
           THEN NoRows ELSE buffer

Log == INSTANCE EventLog WITH pending <- Pending, durable <- db

LogSpec == Log!Spec
=============================================================================
