------------------------- MODULE EventDetectorProofs -------------------------
(***************************************************************************)
(* Proofs about EventDetector, and about the report of LegalReport on what *)
(* it emits, for every value of the constants.                             *)
(***************************************************************************)
EXTENDS LegalReport, FiniteSetTheorems, TLAPS

(* The inductive invariant. Between two calls of update():                 *)
(*  - an idle detector counts exactly the loud frames just seen, all of    *)
(*    them part of a fresh episode;                                        *)
(*  - an active one has outlived the debounce, or was chained, and its two *)
(*    durations add up to the age of the episode;                          *)
(*  - an episode never starts in the future;                               *)
(*  - while there is a segment, the peak is the loudest of what was heard. *)
IdleInv ==
  ~is_active =>
    /\ candidate_ticks < Debounce
    /\ run.loud = candidate_ticks
    /\ candidate_ticks > 0 =>
         /\ candidate_ticks = now - episode.start
         /\ cum_duration = 0
         /\ episode.chains = 0

ActiveInv ==
  is_active =>
    /\ active_ticks >= 1
    /\ episode.chains = 0 => active_ticks >= Debounce
    /\ cum_duration + active_ticks = now - episode.start + episode.chains

HeardInv ==
  /\ heard.top \in Int
  /\ (is_active \/ candidate_ticks > 0) =>
       /\ heard.top = Level(peak)
       /\ peak.bin \in heard.bins

EpisodeInv == episode.start <= now

IInv ==
  /\ TypeOK
  /\ EpisodeInv
  /\ IdleInv
  /\ ActiveInv
  /\ HeardInv
  /\ DurationsInRange
  /\ PeakOfLoudestFrame
  /\ NoMissedExceedance

-----------------------------------------------------------------------------
(* The correction never grows with the duration (correctif_duration).      *)
LEMMA CorrectifAntitone ==
  ASSUME NEW d \in Int, NEW e \in Int, d <= e
  PROVE  /\ Correctif(d) \in Nat
         /\ Correctif(e) \in Nat
         /\ Correctif(e) <= Correctif(d)
<1> DEFINE D == {b \in CorrectifBounds : d <= b}
           E == {b \in CorrectifBounds : e <= b}
<1>0. \A b \in CorrectifBounds : b \in Int
  BY DetectorAssumption
<1>1. E \subseteq D /\ D \subseteq CorrectifBounds
  <2>1. \A b \in CorrectifBounds : e <= b => d <= b
    BY <1>0
  <2> QED
    BY <2>1
<1>2. IsFiniteSet(D) /\ IsFiniteSet(E)
  BY <1>1, DetectorAssumption, FS_Subset
<1>3. Cardinality(E) <= Cardinality(D)
  BY <1>1, <1>2, FS_Subset
<1>4. Cardinality(D) \in Nat /\ Cardinality(E) \in Nat
  BY <1>2, FS_CardinalityType
<1> QED
  BY <1>3, <1>4 DEF Correctif

(* Frames and peaks have integer levels, and so does Level.                *)
LEMMA LevelType ==
  /\ \A f \in Frame : /\ f.l \in Int /\ f.r \in Int /\ f.bin \in Bins
                      /\ f.l \in Levels /\ f.r \in Levels
                      /\ Level(f) \in Int
  /\ \A p \in PeakType : p.l \in Int /\ p.r \in Int /\ Level(p) \in Int
<1>1. \A x \in Levels \cup {0} : x \in Int
  BY DetectorAssumption
<1>2. \A f \in Frame : f.l \in Levels /\ f.r \in Levels /\ f.bin \in Bins
  BY DEF Frame
<1>3. \A p \in PeakType : p.l \in Levels \cup {0} /\ p.r \in Levels \cup {0}
  BY DEF PeakType
<1> QED
  BY <1>1, <1>2, <1>3 DEF Level, Larger

(* Raising a peak keeps it a peak and makes it the louder of the two       *)
(* (update, peak tracking).                                                *)
LEMMA RaisedPeak ==
  ASSUME NEW p \in PeakType, NEW f \in Frame
  PROVE  /\ Raised(p, f) \in PeakType
         /\ Level(Raised(p, f)) = Larger(Level(p), Level(f))
         /\ Raised(p, f).bin = IF Level(f) > Level(p) THEN f.bin ELSE p.bin
<1>1. /\ f.l \in Int /\ f.r \in Int /\ p.l \in Int /\ p.r \in Int
      /\ f.bin \in Bins /\ f.l \in Levels /\ f.r \in Levels
  BY LevelType
<1>2. CASE Level(f) > Level(p)
  <2>1. Raised(p, f) = [bin |-> f.bin, l |-> Larger(p.l, f.l),
                        r |-> Larger(p.r, f.r)]
    BY <1>2 DEF Raised
  <2>2. Raised(p, f) \in PeakType
    BY <2>1, <1>1 DEF PeakType, Larger
  <2>3. Level(Raised(p, f)) = Level(f)
    BY <2>1, <1>1, <1>2 DEF Level, Larger
  <2>4. Larger(Level(p), Level(f)) = Level(f)
    BY <1>1, <1>2 DEF Level, Larger
  <2> QED
    BY <2>1, <2>2, <2>3, <2>4, <1>2
<1>3. CASE ~(Level(f) > Level(p))
  BY <1>1, <1>3 DEF Raised, Level, Larger
<1> QED
  BY <1>2, <1>3

(* What has been heard follows the peak, frame after frame.                *)
LEMMA HeardFollows ==
  ASSUME NEW p \in PeakType, NEW f \in Frame,
         heard.top = Level(p), p.bin \in heard.bins
  PROVE  /\ HeardAlso(heard, f).top = Level(Raised(p, f))
         /\ Raised(p, f).bin \in HeardAlso(heard, f).bins
         /\ HeardAlso(heard, f).top \in Int
<1>1. Level(f) \in Int /\ Level(p) \in Int
  BY LevelType
<1>2. HeardAlso(heard, f).top = Larger(Level(p), Level(f))
  BY DEF HeardAlso
<1>3. CASE Level(f) > Level(p)
  BY <1>1, <1>2, <1>3, RaisedPeak DEF HeardAlso, Larger
<1>4. CASE Level(f) = Level(p)
  BY <1>1, <1>2, <1>4, RaisedPeak DEF HeardAlso, Larger
<1>5. CASE Level(f) < Level(p)
  BY <1>1, <1>2, <1>5, RaisedPeak DEF HeardAlso, Larger
<1> QED
  BY <1>1, <1>3, <1>4, <1>5

(* What every frame does to the clock and to the run of loud frames.       *)
LEMMA TickFacts ==
  ASSUME TypeOK, NEW f \in Frame, Tick(f)
  PROVE  /\ now' = now + 1
         /\ now' \in 0..Horizon
         /\ run' \in [loud : Nat, calm : BOOLEAN]
         /\ Level(f) \in Int
         /\ Level(f) >= Threshold => run'.loud = run.loud + 1
         /\ Level(f) < Threshold => run'.loud = 0
<1>1. Horizon \in Nat /\ Threshold \in Int /\ Level(f) \in Int
  BY DetectorAssumption, LevelType
<1>2. run.loud \in Nat /\ run.calm \in BOOLEAN /\ now \in 0..Horizon
        /\ is_active \in BOOLEAN
  BY DEF TypeOK
<1>3. run' = [loud |-> IF Level(f) >= Threshold THEN run.loud + 1 ELSE 0,
              calm |-> IF Level(f) < Release THEN TRUE
                       ELSE run.calm /\ ~is_active]
  BY DEF Tick, UpdateRun
<1>4. run'.loud = (IF Level(f) >= Threshold THEN run.loud + 1 ELSE 0)
  BY <1>3
<1>5. (IF Level(f) < Release THEN TRUE ELSE run.calm /\ ~is_active) \in BOOLEAN
  BY <1>2, Zenon
<1>6. run' \in [loud : Nat, calm : BOOLEAN]
  <2>1. (IF Level(f) >= Threshold THEN run.loud + 1 ELSE 0) \in Nat
    BY <1>2
  <2>2. \A x \in Nat, y \in BOOLEAN :
          [loud |-> x, calm |-> y] \in [loud : Nat, calm : BOOLEAN]
    BY Zenon
  <2> QED
    BY <2>1, <2>2, <1>3, <1>5, Zenon
<1> QED
  BY <1>1, <1>2, <1>4, <1>6 DEF Tick

(* An emitted event: it is built from the raised peak, and its duration is *)
(* the number of frames of its segment.                                    *)
LEMMA EmitFacts ==
  ASSUME IInv, NEW f \in Frame, Emit(f)
  PROVE  /\ emitted' \in SUBSET Event
         /\ closed'.elapsed \in Nat /\ closed'.chained \in BOOLEAN
         /\ DurationsInRange'
         /\ PeakOfLoudestFrame'
         /\ NoMissedExceedance'
<1> DEFINE p  == Raised(peak, f)
           d  == active_ticks + 1
           ev == BuildEvent(p, d)
<1> USE DEF IInv
<1>1. /\ is_active /\ ShouldClose(f, d) /\ emitted' = {ev}
      /\ closed' = [heard |-> HeardAlso(heard, f),
                    elapsed |-> now + 1 - episode.start,
                    chained |-> episode.chains > 0]
  BY DEF Emit
<1>2. /\ Debounce \in Nat \ {0} /\ MaxTicks \in Nat \ {0}
      /\ MinRecording \in Nat /\ AmbientRecording \in Nat
  BY DetectorAssumption
<1>3. /\ active_ticks \in 0..Larger(Debounce, MaxTicks - 1)
      /\ cum_duration \in Nat /\ t0 \in Nat /\ now \in Nat
      /\ episode.start \in 0..now /\ episode.chains \in Nat
      /\ peak \in PeakType /\ active_ticks >= 1
      /\ episode.chains = 0 => active_ticks >= Debounce
      /\ cum_duration + active_ticks = now - episode.start + episode.chains
  <2>1. now \in 0..Horizon
    BY DEF TypeOK
  <2> QED
    BY <2>1, <1>1, DetectorAssumption DEF TypeOK, ActiveInv, EpisodeInv
<1>4. active_ticks \in Nat /\ d \in Nat
  BY <1>2, <1>3 DEF Larger
<1>5. /\ p \in PeakType
      /\ Level(p) = Larger(Level(peak), Level(f))
      /\ Level(p) \in Int
  BY <1>3, RaisedPeak, LevelType
<1>6. /\ ev.t0 = t0 /\ ev.dur = d /\ ev.peak = p
      /\ ev.verdict = Conformity(Level(p), t0, cum_duration + d)
  BY DEF BuildEvent
<1>7. ev \in Event
  <2>1. Dominant(p) \in {"L", "R", "B"}
    BY DEF Dominant
  <2>2. Conformity(Level(p), t0, cum_duration + d)
          \in {"CONFORME", "NON_CONFORME", "INVALIDE"}
    BY DEF Conformity
  <2> QED
    BY <2>1, <2>2, <1>3, <1>4, <1>5 DEF BuildEvent, Event
<1>8. closed'.elapsed \in Nat /\ closed'.chained \in BOOLEAN
  BY <1>1, <1>3, <1>4
<1>9. DurationsInRange'
  <2>1. d <= Larger(MaxTicks, Debounce + 1)
    BY <1>2, <1>3, <1>4 DEF Larger
  <2>2. d > IF episode.chains > 0 THEN 1 ELSE Debounce
    BY <1>2, <1>3, <1>4
  <2> QED
    BY <2>1, <2>2, <1>1, <1>6 DEF DurationsInRange
<1>10. PeakOfLoudestFrame'
  <2>1. heard.top = Level(peak) /\ peak.bin \in heard.bins
    BY <1>1 DEF HeardInv
  <2>2. /\ HeardAlso(heard, f).top = Level(p)
        /\ p.bin \in HeardAlso(heard, f).bins
    BY <2>1, <1>3, HeardFollows
  <2> QED
    BY <2>2, <1>1, <1>6 DEF PeakOfLoudestFrame
<1>11. NoMissedExceedance'
  <2>1. closed'.elapsed = now + 1 - episode.start
    BY <1>1
  <2>2. /\ cum_duration + d \in Int /\ closed'.elapsed \in Int
        /\ closed'.elapsed <= cum_duration + d
    BY <2>1, <1>3, <1>4
  <2>3. /\ Correctif(closed'.elapsed) \in Nat
        /\ Correctif(cum_duration + d) \in Nat
        /\ Correctif(cum_duration + d) <= Correctif(closed'.elapsed)
    BY <2>2, CorrectifAntitone
  <2>4. Base(t0) \in Int
    BY DetectorAssumption DEF Base
  <2>5. Level(p) > Limit(t0, closed'.elapsed)
          => Level(p) > Limit(t0, cum_duration + d)
    BY <2>3, <2>4, <1>5 DEF Limit
  <2>6. Level(p) > Limit(t0, cum_duration + d) => ev.verdict # "CONFORME"
    <3>1. Limit(t0, cum_duration + d) \in Int
      BY <2>3, <2>4 DEF Limit
    <3> QED
      BY <3>1, <1>5, <1>6 DEF Conformity
  <2>7. \A e \in emitted' : e = ev
    BY <1>1
  <2> QED
    BY <2>5, <2>6, <2>7, <1>6 DEF NoMissedExceedance
<1> QED
  BY <1>1, <1>7, <1>8, <1>9, <1>10, <1>11

-----------------------------------------------------------------------------
(* The initial state satisfies the invariant.                              *)
LEMMA InitIInv == Init => IInv
<1> SUFFICES ASSUME Init PROVE IInv
  OBVIOUS
<1>1. Debounce \in Nat \ {0} /\ MaxTicks \in Nat \ {0} /\ Horizon \in Nat
  BY DetectorAssumption
<1>2. TypeOK
  <2>1. NoPeak \in PeakType
    BY DEF NoPeak, PeakType
  <2>2. run \in [loud : Nat, calm : BOOLEAN]
    BY DEF Init
  <2>3. closed.elapsed \in Nat /\ closed.chained \in BOOLEAN
    BY DEF Init
  <2>4. /\ is_active \in BOOLEAN /\ emitted \in SUBSET Event
        /\ episode \in [start : Nat, chains : Nat]
    BY DEF Init
  <2>5. /\ candidate_ticks = 0 /\ active_ticks = 0 /\ cum_duration = 0
        /\ t0 = 0 /\ peak = NoPeak /\ now = 0
    BY DEF Init
  <2>6. 0 \in 0..Larger(Debounce, MaxTicks - 1)
    BY <1>1 DEF Larger
  <2> QED
    BY <1>1, <2>1, <2>2, <2>3, <2>4, <2>5, <2>6 DEF TypeOK
<1>3. IdleInv /\ ActiveInv /\ HeardInv /\ EpisodeInv
  BY <1>1 DEF Init, IdleInv, ActiveInv, HeardInv, EpisodeInv
<1>4. DurationsInRange /\ PeakOfLoudestFrame /\ NoMissedExceedance
  BY DEF Init, DurationsInRange, PeakOfLoudestFrame, NoMissedExceedance
<1> QED
  BY <1>2, <1>3, <1>4 DEF IInv

(* When nothing is emitted the properties of emitted events hold.          *)
LEMMA NothingEmitted ==
  emitted' = {} => /\ DurationsInRange'
                   /\ PeakOfLoudestFrame'
                   /\ NoMissedExceedance'
  BY DEF DurationsInRange, PeakOfLoudestFrame, NoMissedExceedance

(* Every call of update() preserves the invariant.                         *)
LEMMA UpdateIInv ==
  ASSUME IInv, NEW f \in Frame, Update(f)
  PROVE  IInv'
<1> USE DEF IInv
<1>1. /\ Debounce \in Nat \ {0} /\ MaxTicks \in Nat \ {0}
      /\ Threshold \in Int /\ Release \in Int /\ Release <= Threshold
  BY DetectorAssumption
<1>2. /\ is_active \in BOOLEAN /\ candidate_ticks \in 0..Debounce
      /\ active_ticks \in 0..Larger(Debounce, MaxTicks - 1)
      /\ cum_duration \in Nat /\ t0 \in Nat /\ peak \in PeakType
      /\ now \in Nat /\ episode \in [start : Nat, chains : Nat]
      /\ episode.start \in 0..now /\ episode.chains \in Nat
      /\ closed.elapsed \in Nat /\ closed.chained \in BOOLEAN
      /\ run.loud \in Nat
  <2>1. now \in 0..Horizon /\ Horizon \in Nat
    BY DetectorAssumption DEF TypeOK
  <2> QED
    BY <2>1 DEF TypeOK, EpisodeInv
<1>3. [bin |-> f.bin, l |-> f.l, r |-> f.r] \in PeakType
      /\ Level([bin |-> f.bin, l |-> f.l, r |-> f.r]) = Level(f)
      /\ Level(f) \in Int
  BY LevelType DEF PeakType, Level
<1>4. Raised(peak, f) \in PeakType
  BY <1>2, RaisedPeak
<1>5. Heard(f).top = Level(f) /\ f.bin \in Heard(f).bins
  BY DEF Heard
<1>6. CASE DropCandidate(f)
  <2>1. /\ Tick(f) /\ ~is_active /\ Level(f) < Threshold
        /\ candidate_ticks' = 0 /\ emitted' = {}
        /\ UNCHANGED <<is_active, active_ticks, cum_duration, t0, peak,
                       episode, heard, closed>>
    BY <1>6 DEF DropCandidate
  <2>2. /\ now' = now + 1 /\ now' \in 0..Horizon /\ run'.loud = 0
        /\ run' \in [loud : Nat, calm : BOOLEAN]
    BY <2>1, TickFacts
  <2>3. TypeOK'
    BY <1>1, <1>2, <2>1, <2>2 DEF TypeOK
  <2>4. IdleInv' /\ ActiveInv'
    BY <1>1, <2>1, <2>2 DEF IdleInv, ActiveInv
  <2>5. HeardInv' /\ EpisodeInv'
    BY <1>2, <2>1, <2>2 DEF HeardInv, EpisodeInv
  <2> QED
    BY <2>1, <2>3, <2>4, <2>5, NothingEmitted
<1>7. CASE GrowCandidate(f)
  <2> DEFINE fresh == candidate_ticks = 0
             count == candidate_ticks + 1
  <2>1. /\ Tick(f) /\ ~is_active /\ Level(f) >= Threshold
        /\ cum_duration' = IF fresh THEN 0 ELSE cum_duration
        /\ t0' = IF fresh THEN now ELSE t0
        /\ peak' = IF fresh THEN [bin |-> f.bin, l |-> f.l, r |-> f.r]
                   ELSE Raised(peak, f)
        /\ candidate_ticks' = count
        /\ is_active' = (count >= Debounce)
        /\ active_ticks' = IF count >= Debounce THEN count ELSE active_ticks
        /\ emitted' = {}
        /\ episode' = IF fresh THEN [start |-> now, chains |-> 0] ELSE episode
        /\ heard' = IF fresh THEN Heard(f) ELSE HeardAlso(heard, f)
        /\ closed' = closed
    BY <1>7 DEF GrowCandidate, Validated
  <2>2. /\ now' = now + 1 /\ now' \in 0..Horizon /\ run'.loud = run.loud + 1
        /\ run' \in [loud : Nat, calm : BOOLEAN]
    BY <2>1, TickFacts
  <2>3. /\ candidate_ticks < Debounce /\ run.loud = candidate_ticks
        /\ candidate_ticks > 0 => /\ candidate_ticks = now - episode.start
                                  /\ cum_duration = 0
                                  /\ episode.chains = 0
    BY <2>1 DEF IdleInv
  <2>4. /\ count \in 1..Debounce
        /\ episode' \in [start : Nat, chains : Nat]
        /\ episode'.start \in 0..now /\ episode'.chains = 0
        /\ cum_duration' = 0
        /\ count = now' - episode'.start
    BY <1>1, <1>2, <2>1, <2>2, <2>3
  <2>5. TypeOK'
    <3>1. is_active' \in BOOLEAN
      <4>1. CASE count >= Debounce
        BY <2>1, <4>1
      <4>2. CASE ~(count >= Debounce)
        BY <2>1, <4>2
      <4> QED
        BY <4>1, <4>2
    <3>2. active_ticks' \in 0..Larger(Debounce, MaxTicks - 1)
      BY <1>1, <1>2, <2>1, <2>4 DEF Larger
    <3> QED
      BY <1>1, <1>2, <1>3, <1>4, <2>1, <2>2, <2>4, <3>1, <3>2 DEF TypeOK
  <2>6. IdleInv' /\ ActiveInv'
    <3>1. CASE count >= Debounce
      <4>1. is_active' = TRUE /\ active_ticks' = count
        BY <2>1, <3>1
      <4> QED
        BY <1>1, <2>2, <2>4, <3>1, <4>1 DEF IdleInv, ActiveInv
    <3>2. CASE ~(count >= Debounce)
      <4>1. ~is_active'
        BY <2>1, <3>2
      <4> QED
        BY <1>1, <1>2, <2>1, <2>2, <2>3, <2>4, <3>2, <4>1 DEF IdleInv, ActiveInv
    <3> QED
      BY <3>1, <3>2
  <2>7. HeardInv'
    <3>1. CASE fresh
      BY <1>3, <1>5, <2>1, <3>1 DEF HeardInv
    <3>2. CASE ~fresh
      <4>1. heard.top = Level(peak) /\ peak.bin \in heard.bins
        BY <1>2, <3>2 DEF HeardInv
      <4> QED
        BY <4>1, <1>2, <2>1, <3>2, HeardFollows DEF HeardInv
    <3> QED
      BY <3>1, <3>2
  <2>8. EpisodeInv'
    BY <1>2, <2>2, <2>4 DEF EpisodeInv
  <2> QED
    BY <2>1, <2>5, <2>6, <2>7, <2>8, NothingEmitted
<1>8. CASE Sustain(f)
  <2>1. /\ Tick(f) /\ is_active /\ ~ShouldClose(f, active_ticks + 1)
        /\ active_ticks' = active_ticks + 1
        /\ peak' = Raised(peak, f) /\ emitted' = {}
        /\ heard' = HeardAlso(heard, f)
        /\ UNCHANGED <<is_active, candidate_ticks, cum_duration, t0,
                       episode, closed>>
    BY <1>8 DEF Sustain
  <2>2. /\ now' = now + 1 /\ now' \in 0..Horizon
        /\ run' \in [loud : Nat, calm : BOOLEAN]
    BY <2>1, TickFacts
  <2>3. active_ticks + 1 < MaxTicks
    BY <1>1, <1>2, <2>1 DEF ShouldClose, Larger
  <2>4. TypeOK'
    <3>1. active_ticks' \in 0..Larger(Debounce, MaxTicks - 1)
      BY <1>1, <1>2, <2>1, <2>3 DEF Larger
    <3> QED
      BY <1>2, <1>4, <2>1, <2>2, <3>1 DEF TypeOK
  <2>5. IdleInv' /\ ActiveInv'
    <3>1. active_ticks \in Nat
      BY <1>1, <1>2 DEF Larger
    <3> QED
      BY <1>1, <1>2, <2>1, <2>2, <3>1 DEF IdleInv, ActiveInv
  <2>6. HeardInv' /\ EpisodeInv'
    BY <1>2, <2>1, <2>2, HeardFollows DEF HeardInv, EpisodeInv
  <2> QED
    BY <2>1, <2>4, <2>5, <2>6, NothingEmitted
<1>9. CASE CloseEvent(f)
  <2>1. /\ Emit(f) /\ Tick(f) /\ is_active
        /\ ShouldClose(f, active_ticks + 1)
        /\ ~ShouldChain(f, active_ticks + 1)
        /\ ~is_active' /\ is_active' \in BOOLEAN
        /\ candidate_ticks' = 0 /\ active_ticks' = 0
        /\ peak' = Raised(peak, f) /\ heard' = HeardAlso(heard, f)
        /\ UNCHANGED <<cum_duration, t0, episode>>
    BY <1>9 DEF CloseEvent, Emit
  <2>2. /\ now' = now + 1 /\ now' \in 0..Horizon
        /\ run' \in [loud : Nat, calm : BOOLEAN]
    BY <2>1, TickFacts
  <2>3. run'.loud = 0
    <3>1. Level(f) < Threshold
      BY <1>1, <1>2, <1>3, <2>1 DEF ShouldClose, ShouldChain, Larger
    <3> QED
      BY <3>1, <2>1, TickFacts
  <2>4. TypeOK'
    BY <1>1, <1>2, <1>4, <2>1, <2>2, EmitFacts DEF TypeOK, Larger
  <2>5. IdleInv' /\ ActiveInv'
    BY <1>1, <2>1, <2>3 DEF IdleInv, ActiveInv
  <2>6. HeardInv' /\ EpisodeInv'
    BY <1>2, <2>1, <2>2, HeardFollows DEF HeardInv, EpisodeInv
  <2> QED
    BY <2>1, <2>4, <2>5, <2>6, EmitFacts
<1>10. CASE ChainSegment(f)
  <2>1. /\ Emit(f) /\ Tick(f) /\ is_active
        /\ cum_duration' = cum_duration + (active_ticks + 1)
        /\ is_active' = TRUE /\ candidate_ticks' = Debounce
        /\ active_ticks' = 1 /\ t0' = now
        /\ peak' = [bin |-> f.bin, l |-> f.l, r |-> f.r]
        /\ episode' = [episode EXCEPT !.chains = @ + 1]
        /\ heard' = Heard(f)
    BY <1>10 DEF ChainSegment, Emit, Cumulated
  <2>2. /\ now' = now + 1 /\ now' \in 0..Horizon
        /\ run' \in [loud : Nat, calm : BOOLEAN]
    BY <2>1, TickFacts
  <2>3. /\ episode' \in [start : Nat, chains : Nat]
        /\ episode'.start = episode.start
        /\ episode'.chains = episode.chains + 1
        /\ active_ticks \in Nat
    BY <1>1, <1>2, <2>1 DEF Larger
  <2>4. TypeOK'
    BY <1>1, <1>2, <1>3, <2>1, <2>2, <2>3, EmitFacts DEF TypeOK, Larger
  <2>5. IdleInv' /\ ActiveInv'
    BY <1>1, <1>2, <2>1, <2>2, <2>3 DEF IdleInv, ActiveInv
  <2>6. HeardInv' /\ EpisodeInv'
    BY <1>2, <1>3, <1>5, <2>1, <2>2, <2>3 DEF HeardInv, EpisodeInv
  <2> QED
    BY <2>1, <2>4, <2>5, <2>6, EmitFacts
<1> QED
  BY <1>6, <1>7, <1>8, <1>9, <1>10 DEF Update

-----------------------------------------------------------------------------
(* The inductive invariant holds in every behaviour of the detector.       *)
THEOREM DetectorInvariant == Spec => []IInv
<1>1. IInv /\ [Next]_vars => IInv'
  <2> SUFFICES ASSUME IInv, [Next]_vars PROVE IInv'
    OBVIOUS
  <2>1. CASE Next
    BY <2>1, UpdateIInv DEF Next
  <2>2. CASE UNCHANGED vars
    BY <2>2 DEF vars, code, IInv, TypeOK, IdleInv, ActiveInv, HeardInv,
                EpisodeInv, DurationsInRange, PeakOfLoudestFrame,
                NoMissedExceedance
  <2> QED
    BY <2>1, <2>2
<1> QED
  BY <1>1, InitIInv, PTL DEF Spec

(* The variables keep their types and active_ticks its bound.              *)
THEOREM DetectorTypes == Spec => []TypeOK
<1>1. IInv => TypeOK
  BY DEF IInv
<1> QED
  BY <1>1, DetectorInvariant, PTL

(* Whatever the debounce and the maximal duration, a sound held above the  *)
(* threshold for the debounce is being recorded, in every state.           *)
THEOREM LoudSoundsRecorded == Spec => []LoudIsActive
<1>1. IInv => LoudIsActive
  BY DetectorAssumption DEF IInv, IdleInv, LoudIsActive, TypeOK
<1> QED
  BY <1>1, DetectorInvariant, PTL

(* The cumulated duration equals the age of the episode plus one frame per *)
(* chaining.                                                               *)
THEOREM CumulatedDurationExact == Spec => []CumulatedIsElapsed
<1>1. IInv => CumulatedIsElapsed
  BY DEF IInv, ActiveInv, CumulatedIsElapsed
<1> QED
  BY <1>1, DetectorInvariant, PTL

(* Emitted durations are in range and emitted peaks are those of the       *)
(* loudest frame of the segment.                                           *)
THEOREM EmittedEventsFaithful ==
  Spec => [](DurationsInRange /\ PeakOfLoudestFrame)
<1>1. IInv => DurationsInRange /\ PeakOfLoudestFrame
  BY DEF IInv
<1> QED
  BY <1>1, DetectorInvariant, PTL

(* No event above the legal limit of its real episode is left CONFORME.    *)
THEOREM ExceedancesFlagged == Spec => []NoMissedExceedance
<1>1. IInv => NoMissedExceedance
  BY DEF IInv
<1> QED
  BY <1>1, DetectorInvariant, PTL

(* Whatever was chained or cut, an emitted event lasts longer than the     *)
(* debounce, a chained one longer than a tick, and none longer than the    *)
(* maximal duration, or the debounce and one tick if that is longer        *)
(* (update, the candidate and closing branches, events.py:267-381).        *)
THEOREM EmittedDurationsInRange == Spec => []DurationsInRange
<1>1. IInv => DurationsInRange
  BY DEF IInv
<1> QED
  BY <1>1, DetectorInvariant, PTL

-----------------------------------------------------------------------------
(***************************************************************************)
(* The report and the flag of an event agree. The flag takes the limit at  *)
(* the cumulated duration, which is at least the duration of the segment   *)
(* that the report uses, and the limit never grows with the duration.      *)
(***************************************************************************)

(* An event that is too loud for its own segment is not conforming.        *)
VerdictInv ==
  \A ev \in emitted :
    Level(ev.peak) > Limit(ev.t0, ev.dur) => ev.verdict # "CONFORME"

(* An emitted event has the verdict of a later duration than its own.      *)
LEMMA EmitVerdict ==
  ASSUME IInv, NEW f \in Frame, Emit(f)
  PROVE  VerdictInv'
<1> DEFINE p  == Raised(peak, f)
           d  == active_ticks + 1
           ev == BuildEvent(p, d)
<1>1. emitted' = {ev}
  BY DEF Emit
<1>2. /\ Debounce \in Nat \ {0} /\ MaxTicks \in Nat \ {0}
      /\ BaseDay \in Int /\ BaseNight \in Int
  BY DetectorAssumption
<1>3. /\ active_ticks \in 0..Larger(Debounce, MaxTicks - 1)
      /\ cum_duration \in Nat /\ peak \in PeakType
  BY DEF IInv, TypeOK
<1>4. d \in Int /\ cum_duration + d \in Int /\ d <= cum_duration + d
  BY <1>2, <1>3 DEF Larger
<1>5. /\ Correctif(d) \in Nat /\ Correctif(cum_duration + d) \in Nat
      /\ Correctif(cum_duration + d) <= Correctif(d)
  BY <1>4, CorrectifAntitone
<1>6. Level(p) \in Int /\ Base(t0) \in Int
  BY <1>2, <1>3, RaisedPeak, LevelType DEF Base
<1>7. /\ ev.t0 = t0 /\ ev.dur = d /\ ev.peak = p
      /\ ev.verdict = Conformity(Level(p), t0, cum_duration + d)
  BY DEF BuildEvent
<1>8. Level(p) > Limit(t0, d) => ~(Level(p) <= Limit(t0, cum_duration + d))
  BY <1>5, <1>6 DEF Limit
<1>9. Level(p) > Limit(t0, d)
        => Conformity(Level(p), t0, cum_duration + d) # "CONFORME"
  BY <1>8 DEF Conformity
<1> QED
  BY <1>1, <1>7, <1>9 DEF VerdictInv

-----------------------------------------------------------------------------
(* A finite set of events that the report lists as they are flagged is     *)
(* counted without gap or overlap, whatever its size.                      *)
LEMMA ReportCounts ==
  ASSUME NEW S, IsFiniteSet(S),
         \A ev \in S : Listed(ev) <=> Flagged(ev)
  PROVE  LET r == Report(S) IN
         /\ r.infractions = {ev \in S : Flagged(ev)}
         /\ r.total_events = r.conforming_count + r.invalid_count
                              + r.nocturne_infractions + r.diurne_infractions
<1> DEFINE listed  == {ev \in S : Listed(ev)}
           invalid == {ev \in S : Invalid(ev)}
           night   == Night(listed)
<1>1. /\ IsFiniteSet(listed) /\ IsFiniteSet(invalid) /\ IsFiniteSet(night)
      /\ night \subseteq listed
  BY FS_Subset DEF Night
<1>2. /\ Cardinality(S) \in Nat /\ Cardinality(listed) \in Nat
      /\ Cardinality(invalid) \in Nat /\ Cardinality(night) \in Nat
  BY <1>1, FS_CardinalityType
<1>3. listed \cap invalid = {}
  BY DEF Flagged, Invalid
<1>4. Cardinality(listed \cup invalid)
        = Cardinality(listed) + Cardinality(invalid)
  <2>1. Cardinality(listed \cap invalid) = 0
    BY <1>3, FS_EmptySet
  <2> HIDE DEF listed, invalid, night
  <2>2. Cardinality(listed \cup invalid)
          = Cardinality(listed) + Cardinality(invalid)
              - Cardinality(listed \cap invalid)
    BY <1>1, FS_Union
  <2> QED
    BY <1>2, <2>1, <2>2
<1>5. Cardinality(listed \cup invalid) <= Cardinality(S)
  BY FS_Subset
<1>6. listed = {ev \in S : Flagged(ev)}
  OBVIOUS
<1>7. Larger(0, Cardinality(S) - Cardinality(listed) - Cardinality(invalid))
        = Cardinality(S) - Cardinality(listed) - Cardinality(invalid)
  <2> HIDE DEF listed, invalid, night
  <2> QED
    BY <1>2, <1>4, <1>5 DEF Larger
<1>8. /\ Report(S).infractions = listed
      /\ Report(S).total_events = Cardinality(S)
      /\ Report(S).invalid_count = Cardinality(invalid)
      /\ Report(S).conforming_count
           = Larger(0, Cardinality(S) - Cardinality(listed) - Cardinality(invalid))
      /\ Report(S).nocturne_infractions = Cardinality(night)
      /\ Report(S).diurne_infractions = Cardinality(listed) - Cardinality(night)
  BY DEF Report
<1> HIDE DEF listed, invalid, night
<1> QED
  BY <1>2, <1>6, <1>7, <1>8

(* The strengthening: what was recorded is finitely much, and judged by    *)
(* the detector as the report judges it.                                   *)
ReportInv ==
  /\ IInv /\ VerdictInv
  /\ IsFiniteSet(recorded)
  /\ \A ev \in recorded : Listed(ev) <=> Flagged(ev)

LEMMA RowListedIffFlagged ==
  ASSUME NEW ev \in Event,
         Level(ev.peak) > Limit(ev.t0, ev.dur) => ev.verdict # "CONFORME"
  PROVE  Listed(Row(ev)) <=> Flagged(Row(ev))
<1>1. ev.verdict \in {"CONFORME", "NON_CONFORME", "INVALIDE"}
  BY DEF Event
<1>2. /\ Row(ev).verdict = ev.verdict /\ Row(ev).level = Level(ev.peak)
      /\ Row(ev).t0 = ev.t0 /\ Row(ev).dur = ev.dur
  BY DEF Row
<1> QED
  BY <1>1, <1>2 DEF Listed, Flagged, Invalid

LEMMA ReportInvariant == ReportSpec => []ReportInv
<1>1. ReportInit => ReportInv
  BY InitIInv, FS_EmptySet DEF ReportInit, Init, ReportInv, VerdictInv
<1>2. ReportInv /\ IInv' /\ [ReportNext]_<<vars, recorded>> => ReportInv'
  <2> SUFFICES ASSUME ReportInv, IInv', [ReportNext]_<<vars, recorded>>
               PROVE  ReportInv'
    OBVIOUS
  <2>1. CASE ReportNext
    <3>1. PICK f \in Frame : Update(f)
      BY <2>1 DEF ReportNext, Next
    <3>2. Emit(f) \/ emitted' = {}
      BY <3>1 DEF Update, DropCandidate, GrowCandidate, Sustain, CloseEvent,
                  ChainSegment
    <3>3. VerdictInv' /\ IsFiniteSet({Row(ev) : ev \in emitted'})
      <4>1. CASE emitted' = {}
        <5>1. {Row(ev) : ev \in emitted'} = {}
          BY <4>1
        <5> QED
          BY <4>1, <5>1, FS_EmptySet DEF VerdictInv
      <4>2. CASE Emit(f)
        <5>1. PICK e : emitted' = {e}
          BY <4>2 DEF Emit
        <5>2. {Row(ev) : ev \in emitted'} = {Row(e)}
          BY <5>1
        <5> QED
          BY <4>2, <5>2, EmitVerdict, FS_Singleton DEF ReportInv
      <4> QED
        BY <3>2, <4>1, <4>2
    <3>4. \A ev \in emitted' : Listed(Row(ev)) <=> Flagged(Row(ev))
      <4>1. emitted' \subseteq Event
        BY DEF IInv, TypeOK
      <4>2. \A ev \in emitted' :
              Level(ev.peak) > Limit(ev.t0, ev.dur) => ev.verdict # "CONFORME"
        BY <3>3 DEF VerdictInv
      <4> QED
        BY <4>1, <4>2, RowListedIffFlagged
    <3>5. recorded' = recorded \cup {Row(ev) : ev \in emitted'}
      BY <2>1 DEF ReportNext, Record
    <3>6. IsFiniteSet(recorded')
      BY <3>3, <3>5, FS_Union DEF ReportInv
    <3>7. \A ev \in recorded' : Listed(ev) <=> Flagged(ev)
      BY <3>4, <3>5 DEF ReportInv
    <3> QED
      BY <3>3, <3>6, <3>7 DEF ReportInv
  <2>2. CASE UNCHANGED <<vars, recorded>>
    BY <2>2 DEF vars, VerdictInv, ReportInv
  <2> QED
    BY <2>1, <2>2
<1>3. ReportInit => Init
  BY DEF ReportInit
<1>4. [ReportNext]_<<vars, recorded>> => [Next]_vars
  BY DEF ReportNext
<1> QED
  BY <1>1, <1>2, <1>3, <1>4, DetectorInvariant, PTL DEF ReportSpec, Spec

(* Of all that was recorded, the report lists an event as an infraction if *)
(* and only if the detector flagged it, although generate_legal_report     *)
(* takes the limit at the duration of the event and _compute_flags at the  *)
(* cumulated one.                                                          *)
THEOREM ReportListsTheFlagged ==
  ReportSpec => [](\A ev \in recorded : Listed(ev) <=> Flagged(ev))
<1>1. ReportInv => \A ev \in recorded : Listed(ev) <=> Flagged(ev)
  BY DEF ReportInv
<1> QED
  BY <1>1, ReportInvariant, PTL

(* The infractions of the report over all recorded events are the flagged  *)
(* ones, and its counts of conforming, invalid, nightly and daily events   *)
(* add up to all of them, however many (generate_legal_report).            *)
THEOREM ReportAgrees == ReportSpec => []ReportAgreesWithDetector
<1>1. ReportInv => ReportAgreesWithDetector
  BY ReportCounts DEF ReportInv, ReportAgreesWithDetector
<1> QED
  BY <1>1, ReportInvariant, PTL
=============================================================================
