------------------------- MODULE SnapshotIPCProofs -------------------------
(* Proofs about SnapshotIPC: no request is lost or served twice, and a     *)
(* delete that meets no pending request leaves nothing behind.             *)
EXTENDS SnapshotIPC, Integers, TLAPS

-----------------------------------------------------------------------------
(* The inductive invariant. What the properties lack is that a trigger is  *)
(* there exactly as long as its request is asked for, which snapshots are  *)
(* accounted for by a restart, and what a delete has already removed.       *)

LinkInv ==
  /\ todo \subseteq triggers
  /\ \A r \in Logs :
       /\ r \in triggers <=> outcome[r] = "asked"
       /\ r \in triggers => post[r] \notin {"none", "logged"}

TornInv ==
  /\ save.step \in {"npz", "wav", "json"} => save.log \notin torn
  /\ \A r \in torn : outcome[r] \in {"asked", "failed", "stopped"}

(* The files of a capture are there as far as it has come. *)
WholeInv ==
  \A r \in Logs :
    remove[r] = "none" =>
      /\ save.log = r /\ save.step \in {"opened", "npz"} => "npz" \in files[r]
      /\ save.log = r /\ save.step \in {"wav", "json"} => {"npz", "wav"} \subseteq files[r]
      /\ outcome[r] = "done" => {"npz", "wav"} \subseteq files[r]

(* The snapshot of r was begun, and no restart came after it. *)
Begun(r) == outcome[r] \in {"done", "failed", "stopped"} \/ (save # NoSave /\ save.log = r)

CountInv ==
  \A r \in Logs :
    /\ captured[r] <= restarts + 1
    /\ ~Begun(r) => captured[r] <= restarts
    /\ post[r] \in {"none", "logged"} => captured[r] = 0

AgeInv ==
  \A r \in Logs :
    /\ r \notin triggers => age[r] = 0
    /\ restarts = 0 /\ r \in triggers \ todo => age[r] <= tick

(* The files that a delete request has behind it, by its next step. *)
Removed == [none |-> {}, npz |-> {}, wav |-> {"npz"}, json |-> {"npz", "wav"},
            row |-> Kinds, done |-> Kinds]

DeleteInv ==
  \A r \in Logs :
    /\ r \in rows \/ remove[r] # "none" => post[r] # "none"
    /\ r \notin raced /\ remove[r] # "none" =>
         /\ r \notin triggers /\ post[r] # "logged"
         /\ files[r] \cap Removed[remove[r]] = {}
    /\ remove[r] = "done" => r \notin rows

SInv == TypeOK /\ LinkInv /\ TornInv /\ WholeInv /\ CountInv /\ AgeInv /\ DeleteInv

LEMMA InitSInv == Init => SInv
<1> SUFFICES ASSUME Init PROVE SInv
  OBVIOUS
<1> USE SnapshotAssumption DEF Init
<1>1. TypeOK
  BY DEF TypeOK, MaxCaptures
<1>2. LinkInv /\ TornInv /\ WholeInv
  BY DEF LinkInv, TornInv, WholeInv, NoSave
<1>3. CountInv /\ AgeInv
  BY DEF CountInv, AgeInv
<1>4. DeleteInv
  BY DEF DeleteInv
<1> QED
  BY <1>1, <1>2, <1>3, <1>4 DEF SInv

-----------------------------------------------------------------------------
(* The web process.                                                        *)

LEMMA LogDiscomfortSInv ==
  ASSUME SInv, NEW r \in Logs, LogDiscomfort(r)
  PROVE  SInv'
<1> USE SnapshotAssumption DEF SInv, LogDiscomfort, web, engine
<1>1. TypeOK'
  BY DEF TypeOK, Kinds, SaveSteps, NoSave, MaxCaptures
<1>2. LinkInv'
  BY DEF LinkInv, TypeOK, NoSave
<1>3. TornInv'
  BY DEF TornInv, LinkInv, TypeOK, NoSave, SaveSteps
<1>4. WholeInv'
  BY DEF WholeInv, LinkInv, TypeOK, Kinds, NoSave, SaveSteps
<1>5. CountInv'
  BY DEF CountInv, Begun, LinkInv, TypeOK, NoSave, MaxCaptures
<1>6. AgeInv'
  BY DEF AgeInv, LinkInv, TypeOK
<1>7. DeleteInv'
  BY DEF DeleteInv, LinkInv, TypeOK, Removed, Kinds, NoSave
<1> QED
  BY <1>1, <1>2, <1>3, <1>4, <1>5, <1>6, <1>7

LEMMA WriteTriggerSInv ==
  ASSUME SInv, NEW r \in Logs, NEW ok \in BOOLEAN, WriteTrigger(r, ok)
  PROVE  SInv'
<1> USE SnapshotAssumption DEF SInv, WriteTrigger, web, engine
<1>1. TypeOK'
  BY DEF TypeOK, Kinds, SaveSteps, NoSave, MaxCaptures
<1>2. LinkInv'
  BY DEF LinkInv, TypeOK, NoSave
<1>3. TornInv'
  BY DEF TornInv, LinkInv, TypeOK, NoSave, SaveSteps
<1>4. WholeInv'
  BY DEF WholeInv, LinkInv, TypeOK, Kinds, NoSave, SaveSteps
<1>5. CountInv'
  BY DEF CountInv, Begun, LinkInv, TypeOK, NoSave, MaxCaptures
<1>6. AgeInv'
  BY DEF AgeInv, LinkInv, TypeOK
<1>7. DeleteInv'
  BY DEF DeleteInv, LinkInv, TypeOK, Removed, Kinds, NoSave
<1> QED
  BY <1>1, <1>2, <1>3, <1>4, <1>5, <1>6, <1>7

LEMMA AnswerSInv ==
  ASSUME SInv, NEW r \in Logs, Answer(r)
  PROVE  SInv'
<1> USE SnapshotAssumption DEF SInv, Answer, web, engine
<1>1. TypeOK'
  BY DEF TypeOK, Kinds, SaveSteps, NoSave, MaxCaptures
<1>2. LinkInv'
  BY DEF LinkInv, TypeOK, NoSave
<1>3. TornInv'
  BY DEF TornInv, LinkInv, TypeOK, NoSave, SaveSteps
<1>4. WholeInv'
  BY DEF WholeInv, LinkInv, TypeOK, Kinds, NoSave, SaveSteps
<1>5. CountInv'
  BY DEF CountInv, Begun, LinkInv, TypeOK, NoSave, MaxCaptures
<1>6. AgeInv'
  BY DEF AgeInv, LinkInv, TypeOK
<1>7. DeleteInv'
  BY DEF DeleteInv, LinkInv, TypeOK, Removed, Kinds, NoSave
<1> QED
  BY <1>1, <1>2, <1>3, <1>4, <1>5, <1>6, <1>7

LEMMA BeginDeleteSInv ==
  ASSUME SInv, NEW r \in Logs, BeginDelete(r)
  PROVE  SInv'
<1> USE SnapshotAssumption DEF SInv, BeginDelete, web, engine
<1>1. TypeOK'
  BY DEF TypeOK, Kinds, SaveSteps, NoSave, MaxCaptures
<1>2. LinkInv'
  BY DEF LinkInv, TypeOK, NoSave
<1>3. TornInv'
  BY DEF TornInv, LinkInv, TypeOK, NoSave, SaveSteps
<1>4. WholeInv'
  BY DEF WholeInv, LinkInv, TypeOK, Kinds, NoSave, SaveSteps
<1>5. CountInv'
  BY DEF CountInv, Begun, LinkInv, TypeOK, NoSave, MaxCaptures
<1>6. AgeInv'
  BY DEF AgeInv, LinkInv, TypeOK
<1>7. DeleteInv'
  BY DEF DeleteInv, LinkInv, TypeOK, Removed, Kinds, NoSave
<1> QED
  BY <1>1, <1>2, <1>3, <1>4, <1>5, <1>6, <1>7

LEMMA DeleteFileSInv ==
  ASSUME SInv, NEW r \in Logs, DeleteFile(r)
  PROVE  SInv'
<1> USE SnapshotAssumption DEF SInv, DeleteFile, NextKind, web, engine
<1>1. TypeOK'
  BY DEF TypeOK, Kinds, SaveSteps, NoSave, MaxCaptures
<1>2. LinkInv'
  BY DEF LinkInv, TypeOK, NoSave
<1>3. TornInv'
  BY DEF TornInv, LinkInv, TypeOK, NoSave, SaveSteps
<1>4. WholeInv'
  BY DEF WholeInv, LinkInv, TypeOK, Kinds, NoSave, SaveSteps
<1>5. CountInv'
  BY DEF CountInv, Begun, LinkInv, TypeOK, NoSave, MaxCaptures
<1>6. AgeInv'
  BY DEF AgeInv, LinkInv, TypeOK
<1>7. DeleteInv'
  BY DEF DeleteInv, LinkInv, TypeOK, Removed, Kinds, NoSave
<1> QED
  BY <1>1, <1>2, <1>3, <1>4, <1>5, <1>6, <1>7

LEMMA DeleteRowSInv ==
  ASSUME SInv, NEW r \in Logs, DeleteRow(r)
  PROVE  SInv'
<1> USE SnapshotAssumption DEF SInv, DeleteRow, web, engine
<1>1. TypeOK'
  BY DEF TypeOK, Kinds, SaveSteps, NoSave, MaxCaptures
<1>2. LinkInv'
  BY DEF LinkInv, TypeOK, NoSave
<1>3. TornInv'
  BY DEF TornInv, LinkInv, TypeOK, NoSave, SaveSteps
<1>4. WholeInv'
  BY DEF WholeInv, LinkInv, TypeOK, Kinds, NoSave, SaveSteps
<1>5. CountInv'
  BY DEF CountInv, Begun, LinkInv, TypeOK, NoSave, MaxCaptures
<1>6. AgeInv'
  BY DEF AgeInv, LinkInv, TypeOK
<1>7. DeleteInv'
  BY DEF DeleteInv, LinkInv, TypeOK, Removed, Kinds, NoSave
<1> QED
  BY <1>1, <1>2, <1>3, <1>4, <1>5, <1>6, <1>7

-----------------------------------------------------------------------------
(* The capture process.                                                    *)

LEMMA TickSInv ==
  ASSUME SInv, Tick
  PROVE  SInv'
<1> USE SnapshotAssumption DEF SInv, Tick, Listed, TickAfter, web, engine
<1>1. TypeOK'
  BY DEF TypeOK, Kinds, SaveSteps, NoSave, MaxCaptures
<1>2. LinkInv'
  BY DEF LinkInv, TypeOK, NoSave
<1>3. TornInv'
  BY DEF TornInv, LinkInv, TypeOK, NoSave, SaveSteps
<1>4. WholeInv'
  BY DEF WholeInv, LinkInv, TypeOK, Kinds, NoSave, SaveSteps
<1>5. CountInv'
  BY DEF CountInv, Begun, LinkInv, TypeOK, NoSave, MaxCaptures
<1>6. AgeInv'
  BY DEF AgeInv, LinkInv, TypeOK
<1>7. DeleteInv'
  BY DEF DeleteInv, LinkInv, TypeOK, Removed, Kinds, NoSave
<1> QED
  BY <1>1, <1>2, <1>3, <1>4, <1>5, <1>6, <1>7

LEMMA OpenNpzSInv ==
  ASSUME SInv, NEW r \in Logs, OpenNpz(r)
  PROVE  SInv'
<1> USE SnapshotAssumption DEF SInv, OpenNpz, PendingDuring, web, engine
<1>1. TypeOK'
  BY DEF TypeOK, Kinds, SaveSteps, NoSave, MaxCaptures
<1>2. LinkInv'
  BY DEF LinkInv, TypeOK, NoSave
<1>3. TornInv'
  BY DEF TornInv, LinkInv, TypeOK, NoSave, SaveSteps
<1>4. WholeInv'
  BY DEF WholeInv, LinkInv, TypeOK, Kinds, NoSave, SaveSteps
<1>5. CountInv'
  BY DEF CountInv, Begun, LinkInv, TypeOK, NoSave, MaxCaptures
<1>6. AgeInv'
  BY DEF AgeInv, LinkInv, TypeOK
<1>7. DeleteInv'
  BY DEF DeleteInv, LinkInv, TypeOK, Removed, Kinds, NoSave
<1> QED
  BY <1>1, <1>2, <1>3, <1>4, <1>5, <1>6, <1>7

LEMMA CloseNpzSInv ==
  ASSUME SInv, CloseNpz
  PROVE  SInv'
<1> USE SnapshotAssumption DEF SInv, CloseNpz, web, engine
<1>1. TypeOK'
  BY DEF TypeOK, Kinds, SaveSteps, NoSave, MaxCaptures
<1>2. LinkInv'
  BY DEF LinkInv, TypeOK, NoSave
<1>3. TornInv'
  BY DEF TornInv, LinkInv, TypeOK, NoSave, SaveSteps
<1>4. WholeInv'
  BY DEF WholeInv, LinkInv, TypeOK, Kinds, NoSave, SaveSteps
<1>5. CountInv'
  BY DEF CountInv, Begun, LinkInv, TypeOK, NoSave, MaxCaptures
<1>6. AgeInv'
  BY DEF AgeInv, LinkInv, TypeOK
<1>7. DeleteInv'
  BY DEF DeleteInv, LinkInv, TypeOK, Removed, Kinds, NoSave
<1> QED
  BY <1>1, <1>2, <1>3, <1>4, <1>5, <1>6, <1>7

LEMMA WriteWavSInv ==
  ASSUME SInv, WriteWav
  PROVE  SInv'
<1> USE SnapshotAssumption DEF SInv, WriteWav, web, engine
<1>1. TypeOK'
  BY DEF TypeOK, Kinds, SaveSteps, NoSave, MaxCaptures
<1>2. LinkInv'
  BY DEF LinkInv, TypeOK, NoSave
<1>3. TornInv'
  BY DEF TornInv, LinkInv, TypeOK, NoSave, SaveSteps
<1>4. WholeInv'
  BY DEF WholeInv, LinkInv, TypeOK, Kinds, NoSave, SaveSteps
<1>5. CountInv'
  BY DEF CountInv, Begun, LinkInv, TypeOK, NoSave, MaxCaptures
<1>6. AgeInv'
  BY DEF AgeInv, LinkInv, TypeOK
<1>7. DeleteInv'
  BY DEF DeleteInv, LinkInv, TypeOK, Removed, Kinds, NoSave
<1> QED
  BY <1>1, <1>2, <1>3, <1>4, <1>5, <1>6, <1>7

LEMMA WriteJsonSInv ==
  ASSUME SInv, NEW ok \in BOOLEAN, WriteJson(ok)
  PROVE  SInv'
<1> USE SnapshotAssumption DEF SInv, WriteJson, web, engine
<1>1. TypeOK'
  BY DEF TypeOK, Kinds, SaveSteps, NoSave, MaxCaptures
<1>2. LinkInv'
  BY DEF LinkInv, TypeOK, NoSave
<1>3. TornInv'
  BY DEF TornInv, LinkInv, TypeOK, NoSave, SaveSteps
<1>4. WholeInv'
  BY DEF WholeInv, LinkInv, TypeOK, Kinds, NoSave, SaveSteps
<1>5. CountInv'
  BY DEF CountInv, Begun, LinkInv, TypeOK, NoSave, MaxCaptures
<1>6. AgeInv'
  BY DEF AgeInv, LinkInv, TypeOK
<1>7. DeleteInv'
  BY DEF DeleteInv, LinkInv, TypeOK, Removed, Kinds, NoSave
<1> QED
  BY <1>1, <1>2, <1>3, <1>4, <1>5, <1>6, <1>7

LEMMA ServedSInv ==
  ASSUME SInv, Unlink \/ SaveFails \/ \E r \in Logs : CaptureFails(r)
  PROVE  SInv'
<1> USE SnapshotAssumption DEF SInv, Unlink, SaveFails, CaptureFails, Served, Leftovers, FileUnderWay, DropTrigger, web, engine
<1>1. TypeOK'
  BY DEF TypeOK, Kinds, SaveSteps, NoSave, MaxCaptures
<1>2. LinkInv'
  BY DEF LinkInv, TypeOK, NoSave
<1>3. TornInv'
  BY DEF TornInv, LinkInv, TypeOK, NoSave, SaveSteps
<1>4. WholeInv'
  BY DEF WholeInv, LinkInv, TypeOK, Kinds, NoSave, SaveSteps
<1>5. CountInv'
  BY DEF CountInv, Begun, LinkInv, TypeOK, NoSave, MaxCaptures
<1>6. AgeInv'
  BY DEF AgeInv, LinkInv, TypeOK
<1>7. DeleteInv'
  BY DEF DeleteInv, LinkInv, TypeOK, Removed, Kinds, NoSave
<1> QED
  BY <1>1, <1>2, <1>3, <1>4, <1>5, <1>6, <1>7

LEMMA EngineKilledSInv ==
  ASSUME SInv, EngineKilled
  PROVE  SInv'
<1> USE SnapshotAssumption DEF SInv, EngineKilled, Restart, Leftovers, FileUnderWay, web, engine
<1>1. TypeOK'
  BY DEF TypeOK, Kinds, SaveSteps, NoSave, MaxCaptures
<1>2. LinkInv'
  BY DEF LinkInv, TypeOK, NoSave
<1>3. TornInv'
  BY DEF TornInv, LinkInv, TypeOK, NoSave, SaveSteps
<1>4. WholeInv'
  BY DEF WholeInv, LinkInv, TypeOK, Kinds, NoSave, SaveSteps
<1>5. CountInv'
  BY DEF CountInv, Begun, LinkInv, TypeOK, NoSave, MaxCaptures
<1>6. AgeInv'
  BY DEF AgeInv, LinkInv, TypeOK
<1>7. DeleteInv'
  BY DEF DeleteInv, LinkInv, TypeOK, Removed, Kinds, NoSave
<1> QED
  BY <1>1, <1>2, <1>3, <1>4, <1>5, <1>6, <1>7

LEMMA EngineStoppedSInv ==
  ASSUME SInv, NEW dropped \in SUBSET Logs, EngineStopped(dropped)
  PROVE  SInv'
<1> USE SnapshotAssumption DEF SInv, EngineStopped, Restart, Leftovers, FileUnderWay, web, engine
<1>1. TypeOK'
  BY DEF TypeOK, Kinds, SaveSteps, NoSave, MaxCaptures
<1>2. LinkInv'
  BY DEF LinkInv, TypeOK, NoSave
<1>3. TornInv'
  BY DEF TornInv, LinkInv, TypeOK, NoSave, SaveSteps
<1>4. WholeInv'
  BY DEF WholeInv, LinkInv, TypeOK, Kinds, NoSave, SaveSteps
<1>5. CountInv'
  BY DEF CountInv, Begun, LinkInv, TypeOK, NoSave, MaxCaptures
<1>6. AgeInv'
  BY DEF AgeInv, LinkInv, TypeOK
<1>7. DeleteInv'
  BY DEF DeleteInv, LinkInv, TypeOK, Removed, Kinds, NoSave
<1> QED
  BY <1>1, <1>2, <1>3, <1>4, <1>5, <1>6, <1>7

LEMMA NextSInv == SInv /\ [Next]_vars => SInv'
<1> SUFFICES ASSUME SInv, [Next]_vars PROVE SInv'
  OBVIOUS
<1>1. ASSUME NEW r \in Logs, PostStep(r) PROVE SInv'
  BY <1>1, LogDiscomfortSInv, WriteTriggerSInv, AnswerSInv DEF PostStep
<1>2. ASSUME NEW r \in Logs, DeleteStep(r) PROVE SInv'
  BY <1>2, BeginDeleteSInv, DeleteFileSInv, DeleteRowSInv DEF DeleteStep
<1>3. CASE Tick
  BY <1>3, TickSInv
<1>4. CASE SaveStep
  BY <1>4, OpenNpzSInv, CloseNpzSInv, WriteWavSInv, WriteJsonSInv, ServedSInv
  DEF SaveStep
<1>5. CASE EngineKilled
  BY <1>5, EngineKilledSInv
<1>6. ASSUME NEW dropped \in SUBSET Logs, EngineStopped(dropped) PROVE SInv'
  BY <1>6, EngineStoppedSInv
<1>7. CASE UNCHANGED vars
  BY <1>7
  DEF SInv, TypeOK, LinkInv, TornInv, WholeInv, CountInv, Begun, AgeInv, DeleteInv,
      vars, web, engine
<1> QED
  BY <1>1, <1>2, <1>3, <1>4, <1>5, <1>6, <1>7 DEF Next

-----------------------------------------------------------------------------
(* The invariant holds for every number of reports, every period of the    *)
(* check, and every number of kills and stops (pipeline.py,                *)
(* _check_snapshot_requests, and viz.py, delete_discomfort_log).           *)
THEOREM SnapshotInvariant == Spec => []SInv
<1> QED
  BY InitSInv, NextSInv, PTL DEF Spec

(* The variables keep their types; in particular a save is always the save *)
(* of a trigger that the check in progress has listed                      *)
(* (_check_snapshot_requests).                                             *)
THEOREM SnapshotTypes == Spec => []TypeOK
<1>1. SInv => TypeOK
  BY DEF SInv
<1> QED
  BY <1>1, SnapshotInvariant, PTL

(* A report is captured once, and once more for each restart of the engine *)
(* (_check_snapshot_requests).                                             *)
THEOREM SnapshotCapturedOnce == Spec => []CapturedOnce
<1>1. SInv => CapturedOnce
  BY DEF SInv, CountInv, CapturedOnce, TypeOK
<1> QED
  BY <1>1, SnapshotInvariant, PTL

(* Whatever is killed, a request keeps its trigger until a capture of it   *)
(* has ended; only one that failed, or that a signal stopped, ends without *)
(* a whole npz and wav file (save_discomfort_snapshot and the finally      *)
(* clause of _check_snapshot_requests).                                    *)
THEOREM SnapshotRequestsKept == Spec => []NoRequestLost
<1>1. SInv => NoRequestLost
  BY DEF SInv, LinkInv, TornInv, WholeInv, NoRequestLost, TypeOK
<1> QED
  BY <1>1, SnapshotInvariant, PTL

(* Without a restart a trigger is listed within Period ticks, however many *)
(* other requests there are (step, _check_snapshot_requests).              *)
THEOREM SnapshotsCapturedPromptly == Spec => []CapturedPromptly
<1>1. SInv => CapturedPromptly
  BY SnapshotAssumption DEF SInv, AgeInv, CapturedPromptly, TypeOK
<1> QED
  BY <1>1, SnapshotInvariant, PTL

(* A delete that meets no pending request leaves neither files nor row,    *)
(* whatever saves go on (delete_discomfort_log).                           *)
THEOREM QuietDeletesAreClean == Spec => []QuietDeleteIsClean
<1>1. SInv => QuietDeleteIsClean
  <2> SUFFICES ASSUME SInv, NEW r \in Logs \ raced, remove[r] = "done"
               PROVE  files[r] = {} /\ r \notin rows
    BY DEF QuietDeleteIsClean
  <2>1. files[r] \cap Kinds = {} /\ r \notin rows
    BY DEF SInv, DeleteInv, Removed
  <2>2. files[r] \subseteq Kinds
    BY DEF SInv, TypeOK
  <2> QED
    BY <2>1, <2>2
<1> QED
  BY <1>1, SnapshotInvariant, PTL
=============================================================================
