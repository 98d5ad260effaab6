----------------------------- MODULE Algorithms -----------------------------
(***************************************************************************)
(* The computations of Measures, Fingerprints and Configuration. A         *)
(* behaviour either follows the frames of Measures, or hears two sounds,   *)
(* or starts with one configuration file.                                  *)
(***************************************************************************)
EXTENDS Measures, Fingerprints, Configuration

CONSTANTS
  Sounds,      (* the sounds that may end: the arguments of                 *)
               (* encode_fingerprint                                        *)
  ConfigFiles  (* the configuration files                                   *)

ASSUME AlgorithmsAssumption ==
  /\ \A s \in Sounds :
       /\ DOMAIN s.spectrum \subseteq Nat /\ s.bin \in DOMAIN s.spectrum
       /\ \A b \in DOMAIN s.spectrum : s.spectrum[b] \in Int
       /\ s.ch \in 0..2 /\ s.off_ms \in Int
  /\ \A f \in ConfigFiles : \A name \in DOMAIN f : f[name] \in Int

VARIABLES
  sounds,  \* the sounds heard, with their fingerprints
  file     \* the configuration file; <<>> is the empty one

Fingerprint(s, bin) == Encode(bin, s.spectrum, s.ch, s.off_ms)

AlgInit ==
  /\ Init
  /\ sounds = <<>>
  /\ file \in ConfigFiles \cup {<<>>}

NextFrame ==
  /\ file = <<>> /\ sounds = <<>>
  /\ \E frame \in Frames, delay \in Delays : Frame(frame, delay)
  /\ UNCHANGED <<sounds, file>>

(* The end of a sound: its fingerprint *)
Hear ==
  /\ file = <<>> /\ heard = <<>> /\ Len(sounds) < 2
  /\ \E s \in Sounds : sounds' = Append(sounds, [fp |-> Fingerprint(s, s.bin), sound |-> s])
  /\ UNCHANGED <<vars, file>>

AlgSpec == AlgInit /\ [][NextFrame \/ Hear]_<<vars, sounds, file>>

-----------------------------------------------------------------------------
(* fingerprints_match accepts a sound as itself, and a second sound as the *)
(* first if it accepts the first as the second; so a merge, a replay and   *)
(* the index in any order agree on pairs (ClusterStore assumes no more:    *)
(* ClusterAssumption).                                                     *)
MatchIsCompatible ==
  \A i, j \in DOMAIN sounds :
    /\ Match(sounds[i].fp, sounds[i].fp, 0)
    /\ \A delta \in 0..1 : Match(sounds[i].fp, sounds[j].fp, delta)
                             = Match(sounds[j].fp, sounds[i].fp, delta)

(* A configuration that validate accepts lets Engine.__init__ and its      *)
(* first frame run, and gives the detector the constants it assumes, if it *)
(* also has the four properties that validate does not look at             *)
(* (Config.validate, DspPipeline, SpectrumAggregator, EventDetector).      *)
AcceptedConfigRuns ==
  LET c == Load(file) IN
  Validate(c) /\ LeftToTheUser(c) => Runs(c) /\ Detects(c)

-----------------------------------------------------------------------------
(* Statements of the repository that the code does not meet.               *)

(* events.py:166 "invariance au saut de pic d'un bin": a sound whose two   *)
(* loudest bins are neighbours has fingerprints that match, whichever of   *)
(* them is taken for the peak.                                             *)
PeakWobbleMatches ==
  \A i \in DOMAIN sounds :
    LET s == sounds[i].sound IN
    \A b \in {s.bin - 1, s.bin + 1} \cap DOMAIN s.spectrum :
      s.spectrum[b] = s.spectrum[s.bin] => Match(sounds[i].fp, Fingerprint(s, b), 1)

(* store.py:610 "Preserve 100% des cretes sonores et infrasons": what a    *)
(* stored frame has heard in a band inside the zoom, at a time inside the  *)
(* view, shows. The query asks for rows with t0 >= since: the row in which *)
(* the view begins is missing.                                             *)
AllCrestsShown ==
  \A view \in Views :
    LET image == Image(view) IN
    \A i \in Stored, ch \in view.channels, band \in Bands :
      heard[i].at \in view.since..view.until /\ Inside(view, band) =>
        \E x \in DOMAIN image :
          band \in DOMAIN image[x] /\ image[x][band] >= Value(i, ch, band)
=============================================================================
