----------------------------- MODULE LegalReport -----------------------------
(***************************************************************************)
(* generate_legal_report of legal.py over the events that Engine.step has  *)
(* recorded. The report takes the limit at the duration of each event, the *)
(* flag of the event the one at the cumulated duration.                    *)
(***************************************************************************)
EXTENDS EventDetector, FiniteSetsExt

VARIABLE recorded   \* the events that went to the store, as Row gives them

(* What the report reads of an event *)
Row(ev) == [t0 |-> ev.t0, dur |-> ev.dur, level |-> Level(ev.peak), verdict |-> ev.verdict]

ReportInit == Init /\ recorded = {}

(* Engine.step: what update returns goes to add_event. No two events start *)
(* at the same time, so that a set says as much as the list.               *)
Record == recorded' = recorded \cup {Row(ev) : ev \in emitted'}

ReportNext == Next /\ Record

ReportSpec == ReportInit /\ [][ReportNext]_<<vars, recorded>>

-----------------------------------------------------------------------------
Flagged(ev) == ev.verdict = "NON_CONFORME"

Invalid(ev) == ev.verdict = "INVALIDE"

(* Mutant: only the events that carry the flag are looked at again. *)
ListedByLimit(ev) ==
  ev.level > Limit(ev.t0, ev.dur) /\ ~Invalid(ev)

(* What makes an event an infraction of the report. *)
Listed(ev) ==
  Flagged(ev) \/ (ev.level > Limit(ev.t0, ev.dur) /\ ~Invalid(ev))

Night(evs) == {ev \in evs : ev.t0 >= NightFrom}

Total(evs) == MapThenSumSet(LAMBDA ev : ev.dur, evs)

(* generate_legal_report *)
Report(evs) ==
  LET infractions == {ev \in evs : Listed(ev)}
      invalid == Cardinality({ev \in evs : Invalid(ev)})
      nocturne == Cardinality(Night(infractions)) IN
  [total_events         |-> Cardinality(evs),
   infractions          |-> infractions,
   invalid_count        |-> invalid,
   conforming_count     |-> Larger(0, Cardinality(evs)
                                        - Cardinality(infractions) - invalid),
   nocturne_infractions |-> nocturne,
   diurne_infractions   |-> Cardinality(infractions) - nocturne,
   total_duration_s     |-> Total(evs),
   max_emergence_db     |-> Max({0} \cup {ev.level : ev \in evs})]

-----------------------------------------------------------------------------
(* The report and the detector judge alike, although they take the limit   *)
(* at different durations: of all that was recorded, the infractions are   *)
(* the events that carry the flag, and each event is counted once, as      *)
(* conforming, as an infraction by day or by night, or as invalid          *)
(* (generate_legal_report, _compute_flags).                                *)
ReportAgreesWithDetector ==
  LET r == Report(recorded) IN
  /\ r.infractions = {ev \in recorded : Flagged(ev)}
  /\ r.total_events = r.conforming_count + r.invalid_count
                       + r.nocturne_infractions + r.diurne_infractions
=============================================================================
