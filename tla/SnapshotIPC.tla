---------------------------- MODULE SnapshotIPC ----------------------------
(***************************************************************************)
(* A discomfort report asks the capture process for a snapshot of its last *)
(* thirty seconds. The web process and the capture process share only the  *)
(* database and a directory: POST /api/discomfort inserts a row, writes    *)
(* req_<id>.trigger and polls for snap_<id>.npz; every Period ticks the    *)
(* engine lists the triggers, saves npz, wav and json for each, and        *)
(* unlinks it; a delete request removes the three files and the row.       *)
(* Requests run on threads of their own; nothing forces them to go on, so  *)
(* the death of the web process is the end of their steps.                 *)
(***************************************************************************)
EXTENDS Naturals

CONSTANTS
  MaxLogs,    (* bound of the discomfort reports                       *)
  Period,     (* the engine looks for triggers every Period-th tick    *)
  MaxRestarts (* bound of the restarts of the capture process          *)

ASSUME SnapshotAssumption ==
  /\ MaxLogs \in Nat
  /\ Period \in Nat \ {0}
  /\ MaxRestarts \in Nat

(* Ids of discomfort_log, in the order AUTOINCREMENT gives them. *)
Logs == 1..MaxLogs

VARIABLES
  rows,      \* rows of discomfort_log
  triggers,  \* ids with a trigger file
  files,     \* the files snap_<id>.* that exist
  torn,      \* ids whose npz file is not written to its end
  post,      \* POST request of an id: where it is
  remove,    \* delete request of an id: its next step
  tick,      \* _tick_count modulo Period
  todo,      \* triggers the check in progress has listed
  save,      \* the save in progress: [log, step]
  age,       \* history: ticks since the trigger was written, up to Period,
             \* as long as the engine has not been restarted
  captured,  \* history: snapshots begun for an id, up to MaxCaptures
  outcome,   \* history: what became of the trigger of an id
  raced,     \* history: ids deleted before their trigger was served
  restarts   \* how often the capture process was killed or stopped

web == <<rows, post, remove, raced>>
engine == <<tick, todo, save, captured>>
vars == <<web, engine, triggers, files, torn, age, restarts, outcome>>

Kinds == {"npz", "wav", "json"}

(* One more than CapturedOnce allows: the counter stops there. *)
MaxCaptures == MaxRestarts + 2

NoSave == [log |-> 0, step |-> "none"]

SaveSteps == {"opened", "npz", "wav", "json"}

TypeOK ==
  /\ rows \subseteq Logs /\ triggers \subseteq Logs /\ torn \subseteq Logs
  /\ files \in [Logs -> SUBSET Kinds]
  /\ post \in [Logs -> {"none", "logged", "polling", "answered"}]
  /\ remove \in [Logs -> Kinds \cup {"none", "row", "done"}]
  /\ tick \in 0..(Period - 1)
  /\ todo \subseteq Logs
  /\ save = NoSave \/ save \in [log : todo, step : SaveSteps]
  /\ age \in [Logs -> 0..Period]
  /\ captured \in [Logs -> 0..MaxCaptures]
  /\ outcome \in [Logs -> {"none", "asked", "failed", "stopped", "done"}]
  /\ raced \subseteq Logs
  /\ restarts \in 0..MaxRestarts

Init ==
  /\ rows = {} /\ triggers = {} /\ torn = {}
  /\ files = [r \in Logs |-> {}]
  /\ post = [r \in Logs |-> "none"]
  /\ remove = [r \in Logs |-> "none"]
  /\ tick = 0
  /\ todo = {}
  /\ save = NoSave
  /\ age = [r \in Logs |-> 0]
  /\ captured = [r \in Logs |-> 0]
  /\ outcome = [r \in Logs |-> "none"]
  /\ raced = {}
  /\ restarts = 0

-----------------------------------------------------------------------------
(* The web process.                                                        *)

(* log_discomfort *)
LogDiscomfort(r) ==
  /\ post[r] = "none"
  /\ \A q \in 1..(r - 1) : post[q] # "none"
  /\ post' = [post EXCEPT ![r] = "logged"]
  /\ rows' = rows \cup {r}
  /\ UNCHANGED <<remove, raced, engine, triggers, files, torn, age,
                 restarts, outcome>>

(* A failure of this write is logged, and the request answers all the same. *)
WriteTrigger(r, ok) ==
  /\ post[r] = "logged"
  /\ post' = [post EXCEPT ![r] = "polling"]
  /\ triggers' = IF ok THEN triggers \cup {r} ELSE triggers
  /\ outcome' = IF ok THEN [outcome EXCEPT ![r] = "asked"] ELSE outcome
  /\ UNCHANGED <<rows, remove, raced, engine, files, torn, age, restarts>>

(* The request polls for the npz file, at most twelve times whatever the   *)
(* engine does, then looks once more and answers.                          *)
Answer(r) ==
  /\ post[r] = "polling"
  /\ post' = [post EXCEPT ![r] = "answered"]
  /\ UNCHANGED <<rows, remove, raced, engine, triggers, files, torn,
                 age, restarts, outcome>>

(* Mutant: the wav file is not deleted. *)
SkipWav(kind) == CASE kind = "npz" -> "json" [] OTHER -> "row"

NextKind(kind) == CASE kind = "npz" -> "wav"
                    [] kind = "wav" -> "json"
                    [] OTHER        -> "row"

(* A delete request for a log that the dashboard lists. *)
BeginDelete(r) ==
  /\ r \in rows
  /\ remove[r] = "none"
  /\ remove' = [remove EXCEPT ![r] = "npz"]
  /\ raced' = IF r \in triggers \/ post[r] = "logged"
              THEN raced \cup {r} ELSE raced
  /\ UNCHANGED <<rows, post, engine, triggers, files, torn, age,
                 restarts, outcome>>

(* delete_discomfort_log: one file after the other, then the row. *)
DeleteFile(r) ==
  /\ remove[r] \in Kinds
  /\ files' = [files EXCEPT ![r] = @ \ {remove[r]}]
  /\ torn' = IF remove[r] = "npz" THEN torn \ {r} ELSE torn
  /\ remove' = [remove EXCEPT ![r] = NextKind(remove[r])]
  /\ UNCHANGED <<rows, post, raced, engine, triggers, age,
                 restarts, outcome>>

DeleteRow(r) ==
  /\ remove[r] = "row"
  /\ rows' = rows \ {r}
  /\ remove' = [remove EXCEPT ![r] = "done"]
  /\ UNCHANGED <<post, raced, engine, triggers, files, torn, age,
                 restarts, outcome>>

-----------------------------------------------------------------------------
(* The capture process.                                                    *)

TickAfter(t) == (t + 1) % Period

(* Mutant: one trigger per check. *)
FirstListed(S) == IF S = {} THEN {} ELSE {CHOOSE r \in S : TRUE}

Listed(S) == S

(* The end of Engine.step: every Period-th tick lists the triggers. *)
Tick ==
  /\ todo = {}
  /\ tick' = TickAfter(tick)
  /\ todo' = IF TickAfter(tick) = 0 THEN Listed(triggers) ELSE {}
  /\ age' = [r \in Logs |-> IF r \in triggers /\ age[r] < Period /\ restarts = 0
                            THEN age[r] + 1 ELSE age[r]]
  /\ UNCHANGED <<web, save, captured, triggers, files, torn, restarts, outcome>>

(* Mutant: the trigger is unlinked before the capture. *)
ConsumedFirst(r) == triggers \ {r}

PendingDuring(r) == triggers

(* capture_discomfort_snapshot: np.savez opens the npz file, the trigger   *)
(* is left until the end.                                                  *)
OpenNpz(r) ==
  /\ r \in todo
  /\ save = NoSave
  /\ save' = [log |-> r, step |-> "opened"]
  /\ files' = [files EXCEPT ![r] = @ \cup {"npz"}]
  /\ torn' = torn \cup {r}
  /\ captured' = [captured EXCEPT ![r] = IF @ < MaxCaptures THEN @ + 1 ELSE @]
  /\ triggers' = PendingDuring(r)
  /\ UNCHANGED <<web, tick, todo, age, restarts, outcome>>

(* The npz file is whole; if it was unlinked meanwhile it stays so. *)
CloseNpz ==
  /\ save.step = "opened"
  /\ save' = [save EXCEPT !.step = "npz"]
  /\ torn' = torn \ {save.log}
  /\ UNCHANGED <<web, tick, todo, captured, triggers, files, age,
                 restarts, outcome>>

WriteWav ==
  /\ save.step = "npz"
  /\ save' = [save EXCEPT !.step = "wav"]
  /\ files' = [files EXCEPT ![save.log] = @ \cup {"wav"}]
  /\ UNCHANGED <<web, tick, todo, captured, triggers, torn, age,
                 restarts, outcome>>

(* The metadata; a failure of this write is swallowed. *)
WriteJson(ok) ==
  /\ save.step = "wav"
  /\ save' = [save EXCEPT !.step = "json"]
  /\ files' = IF ok THEN [files EXCEPT ![save.log] = @ \cup {"json"}] ELSE files
  /\ UNCHANGED <<web, tick, todo, captured, triggers, torn, age,
                 restarts, outcome>>

(* Mutant: the trigger stays for the next check. *)
KeepTrigger(r) == triggers

DropTrigger(r) == triggers \ {r}

(* The finally clause: the trigger is unlinked, the next one is taken.     *)
Served(r, result) ==
  /\ outcome' = [outcome EXCEPT ![r] = result]
  /\ save' = NoSave
  /\ todo' = todo \ {r}
  /\ triggers' = DropTrigger(r)
  /\ age' = [age EXCEPT ![r] = 0]
  /\ UNCHANGED <<web, tick, captured, torn, restarts>>

Unlink == save.step = "json" /\ Served(save.log, "done") /\ UNCHANGED files

(* An exception before the npz file is opened (get_snapshot, mkdir, open). *)
CaptureFails(r) ==
  /\ r \in todo
  /\ save = NoSave
  /\ Served(r, "failed")
  /\ UNCHANGED files

(* What a write that does not end leaves: the npz file is there since it   *)
(* was opened, the next one may have been begun.                           *)
FileUnderWay ==
  CASE save.step = "npz" -> {"wav"} [] save.step = "wav" -> {"json"} [] OTHER -> {}

Leftovers ==
  {files, [r \in Logs |-> files[r] \cup IF r = save.log THEN FileUnderWay ELSE {}]}

(* An exception of save_discomfort_snapshot: the file begun stays, and the *)
(* trigger is unlinked all the same.                                       *)
SaveFails ==
  /\ save.step \in {"opened", "npz", "wav"}
  /\ Served(save.log, "failed")
  /\ files' \in Leftovers

(* The tick count starts again, what was listed is forgotten.              *)
Restart ==
  /\ restarts < MaxRestarts
  /\ restarts' = restarts + 1
  /\ tick' = 0
  /\ todo' = {}
  /\ save' = NoSave
  /\ age' = [r \in Logs |-> 0]

(* The capture process is killed, and started again. *)
EngineKilled ==
  /\ Restart
  /\ files' \in Leftovers
  /\ UNCHANGED <<web, captured, triggers, torn, outcome>>

(* A signal raises SystemExit where the program is. In a capture it goes   *)
(* through the finally clause, which unlinks the trigger; between two      *)
(* captures, or in the finally clause itself, it leaves the trigger.       *)
EngineStopped(dropped) ==
  /\ Restart
  /\ \/ dropped = {} /\ (save = NoSave \/ save.step = "json")
     \/ save = NoSave /\ \E r \in todo : dropped = {r}
     \/ save # NoSave /\ dropped = {save.log}
  /\ files' \in Leftovers
  /\ triggers' = triggers \ dropped
  /\ outcome' = [r \in Logs |-> IF r \in dropped THEN "stopped" ELSE outcome[r]]
  /\ UNCHANGED <<web, captured, torn>>

-----------------------------------------------------------------------------
PostStep(r) == LogDiscomfort(r) \/ (\E ok \in BOOLEAN : WriteTrigger(r, ok)) \/ Answer(r)

DeleteStep(r) == BeginDelete(r) \/ DeleteFile(r) \/ DeleteRow(r)

SaveStep ==
  \/ \E r \in Logs : OpenNpz(r) \/ CaptureFails(r)
  \/ CloseNpz
  \/ WriteWav
  \/ \E ok \in BOOLEAN : WriteJson(ok)
  \/ Unlink
  \/ SaveFails

Next ==
  \/ \E r \in Logs : PostStep(r) \/ DeleteStep(r)
  \/ Tick
  \/ SaveStep
  \/ EngineKilled
  \/ \E dropped \in SUBSET Logs : EngineStopped(dropped)

Spec == Init /\ [][Next]_vars

(* The engine ticks, and serves what it has listed. *)
Fairness == WF_vars(Tick) /\ WF_vars(SaveStep)

FairSpec == Spec /\ Fairness

-----------------------------------------------------------------------------
(* A trigger is served once, and again only if the engine was killed or    *)
(* stopped over it: one report does not overwrite its snapshot with later  *)
(* audio (_check_snapshot_requests).                                       *)
CapturedOnce ==
  \A r \in Logs :
    /\ captured[r] <= 1 + restarts
    /\ post[r] \in {"none", "logged"} => captured[r] = 0

(* A kill loses no request: its trigger stays until a capture of it ended, *)
(* and only one that failed or was stopped by a signal may end without a   *)
(* whole snapshot. One that ended well has its npz and wav files, written  *)
(* to their end, until somebody deletes it; a half-written file belongs to *)
(* a request that is captured again, failed or was stopped                 *)
(* (_check_snapshot_requests, save_discomfort_snapshot).                   *)
NoRequestLost ==
  \A r \in Logs :
    /\ outcome[r] = "asked" => r \in triggers
    /\ outcome[r] = "done" /\ remove[r] = "none" => {"npz", "wav"} \subseteq files[r]
    /\ r \in torn => outcome[r] \in {"asked", "failed", "stopped"}

(* As long as the engine lives, a trigger is listed within Period ticks,   *)
(* however many requests there are (step, _check_snapshot_requests).       *)
CapturedPromptly ==
  restarts = 0 => \A r \in triggers \ todo : age[r] < Period

(* A delete request that does not overlap the capture of its log leaves    *)
(* neither files nor row (delete_discomfort_log).                          *)
QuietDeleteIsClean ==
  \A r \in Logs \ raced :
    remove[r] = "done" => files[r] = {} /\ r \notin rows

(* A trigger never stays, even if its capture fails or the engine is       *)
(* killed over it (the finally clause of _check_snapshot_requests).        *)
TriggersAreServed == \A r \in Logs : (r \in triggers) ~> (r \notin triggers)
=============================================================================
