---------------------------- MODULE Fingerprints ----------------------------
(***************************************************************************)
(* The fingerprint of a sound and the comparison of two fingerprints, as   *)
(* events.py computes them. A spectrum is a function from bins to whole    *)
(* decibels of emergence; the sixteen bytes are the record of their        *)
(* fields, whose widths (uint8, uint16, int8) no value here exceeds.       *)
(***************************************************************************)
EXTENDS Arithmetic, FiniteSetsExt

(* The bin at place i of the profile of a peak. *)
Neighbor(bin, i) == bin + i - 3

(* Five bins around the peak, relative to it, on three bits. *)
Neighbors(bin, spectrum) ==
  LET top == Max({1, spectrum[bin]}) IN
  [i \in 1..5 |->
     IF Neighbor(bin, i) \in DOMAIN spectrum
     THEN Rounded(7 * Clamp(0, spectrum[Neighbor(bin, i)], top), top)
     ELSE 0]

(* encode_fingerprint; ch is 0 (left), 1 (right) or 2 (both). *)
Encode(bin, spectrum, ch, off_ms) ==
  [bin_peak |-> bin, neighbors |-> Neighbors(bin, spectrum),
   dominant_ch |-> ch, delay_class |-> Clamp(-20, off_ms, 20)]

(* A multiple of every denominator of the normalised distance. *)
Scale == 420

(* Mutant: the difference is relative to the second profile. *)
TermOfSecond(a, b) == (Scale * Gap(a, b)) \div Max({1, b})

(* |a - b| / max(1, a, b), times Scale *)
Term(a, b) == (Scale * Gap(a, b)) \div Max({1, a, b})

SumOfFive(t) == t[1] + t[2] + t[3] + t[4] + t[5]

(* One shift of the comparison of two peaks a bin or more apart: it leaves *)
(* out the places that fall off, and compares place i with place i.        *)
Shifted(f, g, shift) ==
  SumOfFive([i \in 1..5 |-> IF i + shift \in 1..5 THEN Term(f.neighbors[i], g.neighbors[i])
                            ELSE 0])

SameChannel(f, g) == f.dominant_ch = g.dominant_ch \/ 2 \in {f.dominant_ch, g.dominant_ch}

(* fingerprints_match *)
Match(f, g, max_bin_delta) ==
  /\ Gap(f.bin_peak, g.bin_peak) <= max_bin_delta
  /\ SameChannel(f, g)
  /\ Gap(f.delay_class, g.delay_class) <= 2
  /\ IF f.bin_peak = g.bin_peak
     THEN SumOfFive([i \in 1..5 |-> Gap(f.neighbors[i], g.neighbors[i])]) <= 2
     ELSE \E shift \in -1..1 : Shifted(f, g, shift) <= 2 * Scale
=============================================================================
