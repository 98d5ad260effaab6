---------------------------- MODULE EventDetector ----------------------------
(***************************************************************************)
(* The emergence detector of events.py: one call of EventDetector.update   *)
(* per 100 ms frame, a candidate phase debounced over Debounce frames, an  *)
(* active phase closed by the hysteresis or by the maximal duration, and   *)
(* the chaining of segments when a loud sound reaches that maximum.        *)
(*                                                                         *)
(* A frame is what update() reads of the spectra: the bin where the        *)
(* emergence peaks and the emergence of both channels at that bin.         *)
(* Durations are counted in frames; `now` is the clock of the frames, so   *)
(* that t0 + dur is comparable with it.                                    *)
(***************************************************************************)
EXTENDS Integers, FiniteSets

CONSTANTS
  Levels,          (* emergence levels (dB) a channel may show              *)
  Bins,            (* bins of the search window                             *)
  Threshold,       (* threshold_db                                          *)
  Release,         (* release_threshold_db = max(0, threshold - hysteresis) *)
  Debounce,        (* debounce_ticks                                        *)
  MaxTicks,        (* max_duration_s in frames, rounded up                  *)
  CorrectifBounds, (* upper bounds, in frames, of the _CORRECTIFS table     *)
  BaseDay,         (* _BASE_DIURNE                                          *)
  BaseNight,       (* _BASE_NOCTURNE                                        *)
  NightFrom,       (* first frame whose local time is NOCTURNE              *)
  MinRecording,    (* _MIN_RECORDING_S in frames                            *)
  AmbientRecording,(* ambiant_recording_s, a literal default in the code    *)
  Horizon          (* bound of the frame clock                              *)

ASSUME DetectorAssumption ==
  /\ Levels \subseteq Int
  /\ 0 \notin Bins
  /\ Threshold \in Int
  /\ Release \in Int
  /\ Release <= Threshold      \* hysteresis_db >= 0
  /\ Debounce \in Nat \ {0}
  /\ MaxTicks \in Nat \ {0}
  /\ CorrectifBounds \subseteq Nat
  /\ IsFiniteSet(CorrectifBounds)
  /\ BaseDay \in Int
  /\ BaseNight \in Int
  /\ NightFrom \in Nat
  /\ MinRecording \in Nat
  /\ AmbientRecording \in Nat
  /\ Horizon \in Nat

VARIABLES
  is_active, candidate_ticks, active_ticks, cum_duration, t0, peak,
  emitted,   \* events returned by the last update()
  now,       \* frames seen so far
  episode,   \* history: [start, chains] of the episode in progress
  run,       \* history: [loud, calm], see UpdateRun
  heard,     \* history: what the segment in progress has heard
  closed     \* history: what the last closed segment had heard

code == <<is_active, candidate_ticks, active_ticks, cum_duration, t0, peak>>
vars == <<code, emitted, now, episode, run, heard, closed>>

-----------------------------------------------------------------------------
Larger(a, b) == IF a >= b THEN a ELSE b

Frame == [l : Levels, r : Levels, bin : Bins]

Level(x) == Larger(x.l, x.r)

NoPeak == [bin |-> 0, l |-> 0, r |-> 0]

PeakType == [bin : Bins \cup {0}, l : Levels \cup {0}, r : Levels \cup {0}]

(* Mutant: the peak is tracked on the left channel only. *)
RaisedLeftOnly(p, f) ==
  IF f.l > p.l
  THEN [bin |-> f.bin, l |-> f.l, r |-> Larger(p.r, f.r)]
  ELSE p

(* Each channel keeps its own maximum, the bin follows the louder frame. *)
Raised(p, f) ==
  IF Level(f) > Level(p)
  THEN [bin |-> f.bin, l |-> Larger(p.l, f.l), r |-> Larger(p.r, f.r)]
  ELSE p

-----------------------------------------------------------------------------
(* Legal qualification of an event (legal.py).                             *)

Base(t) == IF t >= NightFrom THEN BaseNight ELSE BaseDay

(* One decibel for every bound of the table the duration has not passed. *)
Correctif(d) == Cardinality({b \in CorrectifBounds : d <= b})

Limit(t, d) == Base(t) + Correctif(d)

Conformity(level, t, total) ==
  IF total < MinRecording /\ AmbientRecording < MinRecording
  THEN "INVALIDE"
  ELSE IF level <= Limit(t, total) THEN "CONFORME" ELSE "NON_CONFORME"

Dominant(p) ==
  IF p.l >= Threshold /\ p.r >= Threshold THEN "B"
  ELSE IF p.l >= p.r THEN "L" ELSE "R"

Event == [t0 : Nat, dur : Nat, peak : PeakType, dominant : {"L", "R", "B"},
          verdict : {"CONFORME", "NON_CONFORME", "INVALIDE"}]

(* Mutant: the limit is taken at the duration of the segment alone. *)
BuildWithSegmentDuration(p, d) ==
  [t0 |-> t0, dur |-> d, peak |-> p, dominant |-> Dominant(p),
   verdict |-> Conformity(Level(p), t0, d)]

BuildEvent(p, d) ==
  [t0 |-> t0, dur |-> d, peak |-> p, dominant |-> Dominant(p),
   verdict |-> Conformity(Level(p), t0, cum_duration + d)]

-----------------------------------------------------------------------------
(* History variables: they observe the frames and never guard an action.   *)

Heard(f) == [top |-> Level(f), bins |-> {f.bin}]

HeardAlso(h, f) ==
  [top  |-> Larger(h.top, Level(f)),
   bins |-> CASE Level(f) > h.top -> {f.bin}
              [] Level(f) = h.top -> h.bins \cup {f.bin}
              [] OTHER -> h.bins]

(* loud: consecutive frames at or above the threshold, this one included.  *)
(* calm: a frame below the release level came after the last active frame. *)
UpdateRun(f) ==
  run' = [loud |-> IF Level(f) >= Threshold THEN run.loud + 1 ELSE 0,
          calm |-> IF Level(f) < Release THEN TRUE ELSE run.calm /\ ~is_active]

Tick(f) ==
  /\ now < Horizon
  /\ now' = now + 1
  /\ UpdateRun(f)

-----------------------------------------------------------------------------
Init ==
  /\ is_active = FALSE
  /\ candidate_ticks = 0
  /\ active_ticks = 0
  /\ cum_duration = 0
  /\ t0 = 0
  /\ peak = NoPeak
  /\ emitted = {}
  /\ now = 0
  /\ episode = [start |-> 0, chains |-> 0]
  /\ run = [loud |-> 0, calm |-> TRUE]
  /\ heard = [top |-> 0, bins |-> {0}]
  /\ closed = [heard |-> heard, elapsed |-> 0, chained |-> FALSE]

(* Mutant: one frame too few before validation. *)
ValidatedEarly(c) == c + 1 >= Debounce

Validated(c) == c >= Debounce

(* update(), not active and below the threshold: the candidate is dropped. *)
DropCandidate(f) ==
  /\ Tick(f)
  /\ ~is_active
  /\ Level(f) < Threshold
  /\ candidate_ticks' = 0
  /\ emitted' = {}
  /\ UNCHANGED <<is_active, active_ticks, cum_duration, t0, peak,
                 episode, heard, closed>>

(* update(), not active and loud: a candidate starts or grows, and becomes *)
(* an active event once it has lasted Debounce frames.                     *)
GrowCandidate(f) ==
  LET fresh == candidate_ticks = 0
      count == candidate_ticks + 1 IN
  /\ Tick(f)
  /\ ~is_active
  /\ Level(f) >= Threshold
  /\ cum_duration' = IF fresh THEN 0 ELSE cum_duration
  /\ t0' = IF fresh THEN now ELSE t0
  /\ peak' = IF fresh THEN [bin |-> f.bin, l |-> f.l, r |-> f.r]
             ELSE Raised(peak, f)
  /\ candidate_ticks' = count
  /\ is_active' = Validated(count)
  /\ active_ticks' = IF Validated(count) THEN count ELSE active_ticks
  /\ emitted' = {}
  /\ episode' = IF fresh THEN [start |-> now, chains |-> 0] ELSE episode
  /\ heard' = IF fresh THEN Heard(f) ELSE HeardAlso(heard, f)
  /\ UNCHANGED closed

(* Mutant: the maximal duration never closes an event. *)
ShouldCloseOnReleaseOnly(f, d) == Level(f) < Release

ShouldClose(f, d) == Level(f) < Release \/ d >= MaxTicks

(* Mutant: a sound at the threshold does not chain. *)
ChainsAbove(f, d) == d >= MaxTicks /\ Level(f) > Threshold

ShouldChain(f, d) == d >= MaxTicks /\ Level(f) >= Threshold

(* update(), active, and neither condition to close holds. *)
Sustain(f) ==
  /\ Tick(f)
  /\ is_active
  /\ ~ShouldClose(f, active_ticks + 1)
  /\ active_ticks' = active_ticks + 1
  /\ peak' = Raised(peak, f)
  /\ emitted' = {}
  /\ heard' = HeardAlso(heard, f)
  /\ UNCHANGED <<is_active, candidate_ticks, cum_duration, t0, episode, closed>>

(* What a closing frame emits, and what the history keeps of the segment. *)
Emit(f) ==
  /\ Tick(f)
  /\ is_active
  /\ ShouldClose(f, active_ticks + 1)
  /\ emitted' = {BuildEvent(Raised(peak, f), active_ticks + 1)}
  /\ closed' = [heard |-> HeardAlso(heard, f),
                elapsed |-> now + 1 - episode.start,
                chained |-> episode.chains > 0]

(* update(), active, closing for good. *)
CloseEvent(f) ==
  /\ Emit(f)
  /\ ~ShouldChain(f, active_ticks + 1)
  /\ is_active' = FALSE
  /\ candidate_ticks' = 0
  /\ active_ticks' = 0
  /\ peak' = Raised(peak, f)
  /\ heard' = HeardAlso(heard, f)
  /\ UNCHANGED <<cum_duration, t0, episode>>

(* Mutant: the chained duration replaces the sum instead of adding to it. *)
CumulatedLast(d) == d

Cumulated(d) == cum_duration + d

(* update(), active, closing at the maximal duration while still loud: the *)
(* next segment starts with this very frame, already validated.            *)
ChainSegment(f) ==
  /\ Emit(f)
  /\ ShouldChain(f, active_ticks + 1)
  /\ cum_duration' = Cumulated(active_ticks + 1)
  /\ is_active' = TRUE
  /\ candidate_ticks' = Debounce
  /\ active_ticks' = 1
  /\ t0' = now
  /\ peak' = [bin |-> f.bin, l |-> f.l, r |-> f.r]
  /\ episode' = [episode EXCEPT !.chains = @ + 1]
  /\ heard' = Heard(f)

Update(f) ==
  \/ DropCandidate(f)
  \/ GrowCandidate(f)
  \/ Sustain(f)
  \/ CloseEvent(f)
  \/ ChainSegment(f)

Next == \E f \in Frame : Update(f)

Spec == Init /\ [][Next]_vars

-----------------------------------------------------------------------------
(* Types. active_ticks never reaches the closing duration between calls.   *)
TypeOK ==
  /\ is_active \in BOOLEAN
  /\ candidate_ticks \in 0..Debounce
  /\ active_ticks \in 0..Larger(Debounce, MaxTicks - 1)
  /\ cum_duration \in Nat
  /\ t0 \in Nat
  /\ peak \in PeakType
  /\ emitted \in SUBSET Event
  /\ now \in 0..Horizon
  /\ episode \in [start : Nat, chains : Nat]
  /\ run \in [loud : Nat, calm : BOOLEAN]
  /\ closed.elapsed \in Nat
  /\ closed.chained \in BOOLEAN

(* Emitted durations (update, the candidate and closing branches): a first *)
(* segment lasts longer than the debounce, a chained one at least two      *)
(* frames, and none outlives the maximum unless the debounce alone does.   *)
DurationsInRange ==
  \A ev \in emitted :
    /\ ev.dur <= Larger(MaxTicks, Debounce + 1)
    /\ ev.dur > IF closed.chained THEN 1 ELSE Debounce

(* The level and the bin of an event (peak tracking, also across the       *)
(* candidate phase and the closing frame) are those of the loudest frame   *)
(* of its segment, although the two channels are maximised separately.     *)
PeakOfLoudestFrame ==
  \A ev \in emitted : /\ Level(ev.peak) = closed.heard.top
                      /\ ev.peak.bin \in closed.heard.bins

(* A sound above the threshold for Debounce frames is being recorded,      *)
(* whatever closed before: neither the maximal duration nor a restart of   *)
(* the candidate loses it (update, chaining branch).                       *)
LoudIsActive == run.loud >= Debounce => is_active

(* The cumulated duration used for the legal term (I58) is the time since  *)
(* the start of the episode, plus the one frame that every chaining        *)
(* counts in both segments.                                                *)
CumulatedIsElapsed ==
  is_active =>
    cum_duration + active_ticks = now - episode.start + episode.chains

(* No infraction is missed: an event above the limit for the real duration *)
(* of its episode carries the NON_CONFORME flag (_compute_flags).          *)
NoMissedExceedance ==
  \A ev \in emitted :
    Level(ev.peak) > Limit(ev.t0, closed.elapsed) => ev.verdict # "CONFORME"

=============================================================================
