-------------------------- MODULE AlgorithmsProofs --------------------------
(* Proofs about Algorithms, for every sound and every configuration file.  *)
EXTENDS Algorithms, FiniteSetTheorems, TLAPS

-----------------------------------------------------------------------------
(* The comparison of two fingerprints.                                     *)

LEMMA GapIsSymmetric ==
  ASSUME NEW a \in Int, NEW b \in Int
  PROVE  Gap(a, b) = Gap(b, a) /\ Gap(a, a) = 0
BY DEF Gap

LEMMA TermIsSymmetric ==
  ASSUME NEW a \in Int, NEW b \in Int
  PROVE  Term(a, b) = Term(b, a)
<1>1. {1, a, b} = {1, b, a}
  OBVIOUS
<1> QED
  BY <1>1, GapIsSymmetric DEF Term

(* What the comparison reads of a fingerprint *)
FingerprintType ==
  [bin_peak : Int, neighbors : [1..5 -> Int], dominant_ch : Int, delay_class : Int]

LEMMA ShiftedIsSymmetric ==
  ASSUME NEW f \in FingerprintType, NEW g \in FingerprintType, NEW shift \in -1..1
  PROVE  Shifted(f, g, shift) = Shifted(g, f, shift)
<1>1. \A i \in 1..5 : Term(f.neighbors[i], g.neighbors[i]) = Term(g.neighbors[i], f.neighbors[i])
  BY TermIsSymmetric DEF FingerprintType
<1> QED
  BY <1>1 DEF Shifted

(* fingerprints_match accepts any fingerprint as itself, whatever the      *)
(* tolerance on the bin, and does not depend on the order of the two.      *)
LEMMA MatchFacts ==
  ASSUME NEW f \in FingerprintType, NEW g \in FingerprintType, NEW delta \in Nat
  PROVE  /\ Match(f, f, delta)
         /\ Match(f, g, delta) = Match(g, f, delta)
<1>1. /\ f.bin_peak \in Int /\ f.delay_class \in Int /\ f.neighbors \in [1..5 -> Int]
      /\ g.bin_peak \in Int /\ g.delay_class \in Int /\ g.neighbors \in [1..5 -> Int]
  BY DEF FingerprintType
<1>2. Match(f, f, delta)
  <2>1. \A i \in 1..5 : Gap(f.neighbors[i], f.neighbors[i]) = 0
    BY <1>1, GapIsSymmetric
  <2>2. SumOfFive([i \in 1..5 |-> Gap(f.neighbors[i], f.neighbors[i])]) = 0
    BY <2>1 DEF SumOfFive
  <2> QED
    BY <1>1, <2>2, GapIsSymmetric DEF Match, SameChannel
<1>3. Match(f, g, delta) = Match(g, f, delta)
  <2>1. /\ Gap(f.bin_peak, g.bin_peak) = Gap(g.bin_peak, f.bin_peak)
        /\ Gap(f.delay_class, g.delay_class) = Gap(g.delay_class, f.delay_class)
    BY <1>1, GapIsSymmetric
  <2>2. [i \in 1..5 |-> Gap(f.neighbors[i], g.neighbors[i])]
          = [i \in 1..5 |-> Gap(g.neighbors[i], f.neighbors[i])]
    BY <1>1, GapIsSymmetric
  <2>3. \A shift \in -1..1 : Shifted(f, g, shift) = Shifted(g, f, shift)
    BY ShiftedIsSymmetric
  <2>4. SameChannel(f, g) = SameChannel(g, f)
    BY DEF SameChannel
  <2> QED
    BY <2>1, <2>2, <2>3, <2>4 DEF Match
<1> QED
  BY <1>2, <1>3

LEMMA RoundedIsInt ==
  ASSUME NEW n \in Int, NEW d \in Int, d > 0
  PROVE  Rounded(n, d) \in Int
BY DEF Rounded

(* encode_fingerprint returns what the comparison reads.                   *)
LEMMA EncodeType ==
  ASSUME NEW s \in Sounds
  PROVE  Fingerprint(s, s.bin) \in FingerprintType
<1> DEFINE top == Max({1, s.spectrum[s.bin]})
<1>1. /\ s.bin \in Int /\ s.bin \in DOMAIN s.spectrum
      /\ \A b \in DOMAIN s.spectrum : s.spectrum[b] \in Int
      /\ s.ch \in Int /\ s.off_ms \in Int
  BY AlgorithmsAssumption
<1>2. top \in Int /\ top > 0
  <2>1. \E x \in {1, s.spectrum[s.bin]} : \A y \in {1, s.spectrum[s.bin]} : x >= y
    BY <1>1
  <2> QED
    BY <1>1, <2>1 DEF Max
<1>3. Neighbors(s.bin, s.spectrum) \in [1..5 -> Int]
  <2>1. \A i \in 1..5 : Neighbor(s.bin, i) \in DOMAIN s.spectrum =>
          Rounded(7 * Clamp(0, s.spectrum[Neighbor(s.bin, i)], top), top) \in Int
    <3> SUFFICES ASSUME NEW b \in DOMAIN s.spectrum
                 PROVE  Rounded(7 * Clamp(0, s.spectrum[b], top), top) \in Int
      OBVIOUS
    <3>1. Clamp(0, s.spectrum[b], top) \in Int
      BY <1>1, <1>2 DEF Clamp
    <3> QED
      BY <1>2, <3>1, RoundedIsInt
  <2> QED
    BY <2>1 DEF Neighbors
<1>4. Clamp(-20, s.off_ms, 20) \in Int
  BY <1>1 DEF Clamp
<1> QED
  BY <1>1, <1>3, <1>4 DEF Fingerprint, Encode, FingerprintType

HeardInv ==
  /\ sounds \in Seq([fp : FingerprintType, sound : Sounds])
  /\ file \in ConfigFiles \cup {<<>>}

LEMMA HeardInvariant == AlgSpec => []HeardInv
<1>1. AlgInit => HeardInv
  BY DEF AlgInit, HeardInv
<1>2. HeardInv /\ [NextFrame \/ Hear]_<<vars, sounds, file>> => HeardInv'
  <2> SUFFICES ASSUME HeardInv, [NextFrame \/ Hear]_<<vars, sounds, file>>
               PROVE  HeardInv'
    OBVIOUS
  <2>1. CASE Hear
    <3>1. PICK s \in Sounds :
            sounds' = Append(sounds, [fp |-> Fingerprint(s, s.bin), sound |-> s])
      BY <2>1 DEF Hear
    <3>2. [fp |-> Fingerprint(s, s.bin), sound |-> s] \in [fp : FingerprintType, sound : Sounds]
      BY EncodeType
    <3> QED
      BY <2>1, <3>1, <3>2 DEF Hear, HeardInv
  <2>2. CASE NextFrame \/ UNCHANGED <<vars, sounds, file>>
    BY <2>2 DEF NextFrame, HeardInv
  <2> QED
    BY <2>1, <2>2
<1> QED
  BY <1>1, <1>2, PTL DEF AlgSpec

(* Whatever sounds are heard, fingerprints_match is reflexive and          *)
(* symmetric on their fingerprints, which is what ClusterAssumption asks   *)
(* of the relation Compatible.                                             *)
THEOREM MatchesAreCompatible == AlgSpec => []MatchIsCompatible
<1>1. HeardInv => MatchIsCompatible
  <2> SUFFICES ASSUME HeardInv, NEW i \in DOMAIN sounds, NEW j \in DOMAIN sounds
               PROVE  /\ Match(sounds[i].fp, sounds[i].fp, 0)
                      /\ \A delta \in 0..1 :
                           Match(sounds[i].fp, sounds[j].fp, delta)
                             = Match(sounds[j].fp, sounds[i].fp, delta)
    BY DEF MatchIsCompatible
  <2>1. sounds[i].fp \in FingerprintType /\ sounds[j].fp \in FingerprintType
    <3> DEFINE S == [fp : FingerprintType, sound : Sounds]
    <3>1. sounds \in Seq(S)
      BY DEF HeardInv
    <3> HIDE DEF S
    <3>2. sounds[i] \in S /\ sounds[j] \in S
      BY <3>1
    <3> QED
      BY <3>2 DEF S
  <2> QED
    BY <2>1, MatchFacts
<1> QED
  BY <1>1, HeardInvariant, PTL

-----------------------------------------------------------------------------
(* The configuration.                                                      *)

Names == DOMAIN Defaults

(* load_config gives every setting a value, from the file or its default.  *)
LEMMA LoadType ==
  ASSUME NEW f, \A name \in DOMAIN f : f[name] \in Int
  PROVE  Load(f) \in [Names -> Int]
<1>1. Defaults \in [Names -> Int]
  BY DEF Defaults, Names
<1>2. NoRetention \in Int
  BY DEF NoRetention
<1>3. \A name \in Names : Load(f)[name] \in Int
  BY <1>1, <1>2 DEF Load, Names
<1> QED
  BY <1>3 DEF Load, Names

LEMMA NamesFacts ==
  {"sample_rate", "decimation", "block_size", "n_seg", "noverlap", "n_buffer", "freq_max",
   "min_event_hz", "threshold_db", "hysteresis_db", "n_bands"} \subseteq Names
BY DEF Names, Defaults

(* The quotient of positive integers                                       *)
LEMMA QuotientFacts ==
  ASSUME NEW n \in Nat, NEW d \in Nat \ {0}
  PROVE  n \div d \in Nat /\ (n \div d) * d <= n
OBVIOUS

LEMMA ProductIsMonotonic ==
  ASSUME NEW a \in Nat, NEW b \in Nat, NEW n \in Nat, a <= b
  PROVE  a * n <= b * n
OBVIOUS

LEMMA ProductCancels ==
  ASSUME NEW a \in Nat, NEW b \in Nat, NEW n \in Nat \ {0}, a * n <= b * n
  PROVE  a <= b
<1> SUFFICES ASSUME b + 1 <= a PROVE FALSE
  OBVIOUS
<1>1. (b + 1) * n <= a * n
  BY ProductIsMonotonic
<1>2. (b + 1) * n = b * n + n
  OBVIOUS
<1> QED
  BY <1>1, <1>2

(* The Welch segments that DspPipeline computes lie inside the buffer.     *)
LEMMA SegmentsFit ==
  ASSUME NEW room \in Nat, NEW step \in Nat \ {0}
  PROVE  /\ room \div step + 1 >= 1
         /\ (room \div step + 1 - 1) * step <= room
BY QuotientFacts

(* The frequencies that the detector looks at are below the one of         *)
(* Nyquist: freq_max * n_seg / fs_low, rounded down, is half of n_seg at   *)
(* most.                                                                   *)
LEMMA BinsFit ==
  ASSUME NEW freq \in Nat, NEW n \in Nat, NEW fs \in Nat \ {0}, 2 * freq <= fs
  PROVE  2 * ((freq * n) \div fs) <= n
<1> DEFINE q == (freq * n) \div fs
<1>1. freq * n \in Nat
  OBVIOUS
<1>2. q \in Nat /\ q * fs <= freq * n
  BY <1>1, QuotientFacts
<1>3. (2 * freq) * n <= fs * n
  BY ProductIsMonotonic
<1>4. (2 * q) * fs <= n * fs
  <2> HIDE DEF q
  <2>1. (2 * q) * fs = 2 * (q * fs) /\ (2 * freq) * n = 2 * (freq * n) /\ n * fs = fs * n
    BY <1>2
  <2>2. q * fs \in Nat /\ freq * n \in Nat /\ fs * n \in Nat
    BY <1>2
  <2> QED
    BY <1>2, <1>3, <2>1, <2>2
<1> HIDE DEF q
<1>5. 2 * q <= n
  BY <1>2, <1>4, ProductCancels
<1> QED
  BY <1>5 DEF q

(* An exact division: the rate is the product.                             *)
LEMMA RateIsProduct ==
  ASSUME NEW r \in Nat \ {0}, NEW d \in Nat \ {0}, r % d = 0
  PROVE  /\ r \div d \in Nat \ {0}
         /\ r = (r \div d) * d
OBVIOUS

LEMMA ValidConfigRuns ==
  ASSUME NEW f, \A name \in DOMAIN f : f[name] \in Int,
         Validate(Load(f)), LeftToTheUser(Load(f))
  PROVE  Runs(Load(f)) /\ Detects(Load(f))
<1> DEFINE c == Load(f)
<1>1. /\ c.sample_rate \in Int /\ c.decimation \in Int /\ c.block_size \in Int
      /\ c.n_seg \in Int /\ c.noverlap \in Int /\ c.n_buffer \in Int
      /\ c.freq_max \in Int /\ c.min_event_hz \in Int
      /\ c.threshold_db \in Int /\ c.hysteresis_db \in Int /\ c.n_bands \in Int
  BY LoadType, NamesFacts
<1>2. Validate(c) /\ LeftToTheUser(c)
  OBVIOUS
<1> HIDE DEF c
<1>3. /\ AggregatorAccepts(c) /\ BlockFits(c) /\ c.floor_history_len >= 1
      /\ MinBin(c) < NBins(c) /\ c.debounce_ticks >= 1 /\ c.max_duration_s > 0
  BY <1>1, <1>2 DEF Validate, LeftToTheUser, AggregatorAccepts
<1>4. WelchFits(c)
  <2>1. Step(c) \in Nat \ {0} /\ c.n_buffer - c.n_seg \in Nat
    BY <1>1, <1>2 DEF Validate, OverlapIsValid, Step
  <2> QED
    BY <1>1, <2>1, SegmentsFit, QuotientFacts DEF WelchFits, WelchSegments
<1>5. 2 * (NBins(c) - 1) <= c.n_seg
  <2>1. /\ c.sample_rate \in Nat \ {0} /\ c.decimation \in Nat \ {0}
        /\ c.sample_rate % c.decimation = 0 /\ c.freq_max \in Nat
        /\ (2 * c.freq_max) * c.decimation <= c.sample_rate
    BY <1>1, <1>2 DEF Validate
  <2>2. FsLow(c) \in Nat \ {0} /\ c.sample_rate = FsLow(c) * c.decimation
    BY <2>1, RateIsProduct DEF FsLow
  <2>3. 2 * c.freq_max <= FsLow(c)
    <3>1. 2 * c.freq_max \in Nat
      BY <2>1
    <3> QED
      BY <2>1, <2>2, <3>1, ProductCancels
  <2>4. c.n_seg \in Nat
    BY <1>1, <1>2 DEF Validate
  <2>5. 2 * ((c.freq_max * c.n_seg) \div FsLow(c)) <= c.n_seg
    BY <2>1, <2>2, <2>3, <2>4, BinsFit
  <2>6. (c.freq_max * c.n_seg) \div FsLow(c) \in Nat
    BY <2>1, <2>2, <2>4, QuotientFacts
  <2> QED
    BY <2>5, <2>6 DEF NBins
<1>6. /\ ~(c.hysteresis_db > c.threshold_db)
      /\ 0 < c.threshold_db - c.hysteresis_db
      /\ c.threshold_db - c.hysteresis_db <= c.threshold_db
  BY <1>1, <1>2 DEF Validate, LeftToTheUser
<1>7. Runs(c)
  BY <1>3, <1>4 DEF Runs
<1>8. Detects(c)
  BY <1>3, <1>5, <1>6 DEF Detects
<1> QED
  BY <1>7, <1>8 DEF c

(* Every configuration file that Config.validate accepts, and that has the *)
(* four properties it does not look at, lets Engine.__init__ and the first *)
(* frame run, and gives the detector what DetectorAssumption asks for.     *)
THEOREM AcceptedConfigsRun == AlgSpec => []AcceptedConfigRuns
<1>1. HeardInv => AcceptedConfigRuns
  <2> SUFFICES ASSUME HeardInv, Validate(Load(file)), LeftToTheUser(Load(file))
               PROVE  Runs(Load(file)) /\ Detects(Load(file))
    BY DEF AcceptedConfigRuns
  <2>1. \A name \in DOMAIN file : file[name] \in Int
    BY AlgorithmsAssumption DEF HeardInv
  <2> QED
    BY <2>1, ValidConfigRuns
<1> QED
  BY <1>1, HeardInvariant, PTL

-----------------------------------------------------------------------------
(* Sets of numbers.                                                        *)

LEMMA LeastNat ==
  ASSUME NEW S \in SUBSET Nat, S # {}
  PROVE  \E m \in S : \A n \in S : m <= n
<1>1. IsWellFoundedOn({ss \in Nat \X Nat : ss[1] < ss[2]}, Nat)
  BY NatLessThanWellFounded DEF OpToRel
<1>2. \E x \in S : \A y \in S : ~ (<<y, x>> \in {ss \in Nat \X Nat : ss[1] < ss[2]})
  BY <1>1, WFMin
<1>3. \A x, y \in S : <<y, x>> \notin {ss \in Nat \X Nat : ss[1] < ss[2]} => x <= y
  OBVIOUS
<1> QED
  BY <1>2, <1>3

(* A finite set of numbers has a largest element, and Max is one.          *)
LEMMA MaxFacts ==
  ASSUME NEW S \in SUBSET Nat, S # {}, IsFiniteSet(S)
  PROVE  Max(S) \in S /\ \A n \in S : n <= Max(S)
<1> DEFINE Tops(T)   == {m \in T : \A n \in T : n <= m}
           Topless   == {T \in SUBSET S : T # {} /\ Tops(T) = {}}
           Sizes     == {Cardinality(T) : T \in Topless}
<1>1. \A T \in SUBSET S : IsFiniteSet(T) /\ Cardinality(T) \in Nat
  BY FS_Subset, FS_CardinalityType
<1>2. Topless = {}
  <2> SUFFICES ASSUME Topless # {} PROVE FALSE
    OBVIOUS
  <2>1. Sizes \in SUBSET Nat /\ Sizes # {}
    BY <1>1
  <2>2. PICK k \in Sizes : \A j \in Sizes : k <= j
    BY <2>1, LeastNat
  <2>3. PICK T \in Topless : k = Cardinality(T)
    BY <2>2
  <2>4. PICK x \in T : TRUE
    BY <2>3
  <2> DEFINE U == T \ {x}
  <2>5. U \in SUBSET S /\ Cardinality(U) = k - 1 /\ k \in Nat
    BY <1>1, <2>3, FS_RemoveElement
  <2>6. U \notin Topless
    <3> HIDE DEF U, Topless
    <3> QED
      BY <2>2, <2>5
  <2>7. CASE U = {}
    <3>1. x \in Tops(T)
      BY <2>3, <2>7
    <3> QED
      BY <2>3, <3>1
  <2>8. CASE U # {}
    <3>1. PICK m \in U : \A n \in U : n <= m
      BY <2>5, <2>6, <2>8
    <3>2. x \in Nat /\ m \in Nat /\ m \in T
      BY <2>3, <3>1
    <3>3. \A n \in T : n \in Nat /\ (n = x \/ n <= m)
      BY <2>3, <3>1
    <3>4. (x <= m => m \in Tops(T)) /\ (m <= x => x \in Tops(T))
      BY <3>2, <3>3
    <3> QED
      BY <2>3, <3>2, <3>4
  <2> QED
    BY <2>7, <2>8
<1>3. Tops(S) # {}
  BY <1>2
<1> QED
  BY <1>3 DEF Max

Preimage(p, S, B) == {x \in S : p[x] \in B}

(* As many elements are moved into a set as it has.                        *)
LEMMA CountMoved ==
  ASSUME NEW S, IsFiniteSet(S), NEW T, NEW p \in Bijection(S, T), NEW B \in SUBSET T
  PROVE  Cardinality(Preimage(p, S, B)) = Cardinality(B)
<1> DEFINE A == {x \in S : p[x] \in B}
           g == [x \in A |-> p[x]]
<1>1. /\ p \in [S -> T] /\ \A x, y \in S : p[x] = p[y] => x = y
      /\ \A t \in T : \E x \in S : p[x] = t
  BY DEF Bijection, Injection, Surjection, IsInjective
<1>2. g \in Bijection(A, B)
  <2>1. g \in [A -> B]
    BY <1>1
  <2>2. \A x, y \in A : g[x] = g[y] => x = y
    BY <1>1
  <2>3. \A t \in B : \E x \in A : g[x] = t
    BY <1>1
  <2> QED
    BY <2>1, <2>2, <2>3 DEF Bijection, Injection, Surjection, IsInjective
<1>3. IsFiniteSet(A)
  BY FS_Subset
<1> QED
  BY <1>2, <1>3, FS_Bijection DEF ExistsBijection, Preimage

-----------------------------------------------------------------------------
(* The lower median.                                                       *)

Orders(n) == Bijection(1..n, 1..n)

(* Order p puts the values in ascending order. *)
Ascending(x, p, n) == \A i, j \in 1..n : i < j => x[p[i]] <= x[p[j]]

LEMMA OrderFacts ==
  ASSUME NEW n \in Nat, NEW p
  PROVE  p \in Orders(n) <=>
           /\ p \in [1..n -> 1..n]
           /\ \A i, j \in 1..n : p[i] = p[j] => i = j
           /\ \A t \in 1..n : \E i \in 1..n : p[i] = t
BY DEF Orders, Bijection, Injection, Surjection, IsInjective

(* Any row can be sorted: a value is put after those that it does not      *)
(* precede.                                                                *)
LEMMA InsertInOrder ==
  ASSUME NEW m \in Nat, NEW n \in Nat, n = m + 1, NEW x \in [1..n -> Int],
         NEW q \in Orders(m), Ascending(x, q, m)
  PROVE  \E p \in Orders(n) : Ascending(x, p, n)
<1> DEFINE After == {i \in 1..n : i = n \/ (i < n /\ x[q[i]] > x[n])}
<1>1. After \in SUBSET Nat /\ n \in After
  OBVIOUS
<1>2. PICK j \in After : \A i \in After : j <= i
  BY <1>1, LeastNat
<1>3. /\ q \in [1..m -> 1..m]
      /\ \A a, b \in 1..m : q[a] = q[b] => a = b
      /\ \A t \in 1..m : \E i \in 1..m : q[i] = t
  BY OrderFacts
<1>4. /\ j \in 1..n
      /\ j < n => x[q[j]] > x[n]
      /\ \A i \in 1..m : i < j => x[q[i]] <= x[n]
      /\ \A i \in 1..m : x[q[i]] \in Int /\ q[i] \in 1..n
      /\ x[n] \in Int
  <2>1. j \in 1..n /\ (j < n => x[q[j]] > x[n])
    BY <1>2
  <2>2. x[n] \in Int /\ \A i \in 1..m : x[q[i]] \in Int /\ q[i] \in 1..n
    <3>1. n \in 1..n /\ \A i \in 1..m : q[i] \in 1..m /\ q[i] \in 1..n
      BY <1>3
    <3> QED
      BY <3>1
  <2> QED
    BY <1>2, <2>1, <2>2
<1> DEFINE p == [i \in 1..n |-> IF i < j THEN q[i] ELSE IF i = j THEN n ELSE q[i-1]]
<1> HIDE DEF After
<1>5. /\ \A i \in 1..n : i < j => i \in 1..m /\ p[i] = q[i]
      /\ p[j] = n
      /\ \A i \in 1..n : i > j => i-1 \in 1..m /\ i-1 >= j /\ p[i] = q[i-1]
  BY <1>4
<1> HIDE DEF p
<1>0. \A i \in 1..n : i # j => p[i] \in 1..m
  <2> SUFFICES ASSUME NEW i \in 1..n, i # j PROVE p[i] \in 1..m
    OBVIOUS
  <2>1. CASE i < j
    <3>1. i \in 1..m /\ p[i] = q[i]
      BY <1>5, <2>1
    <3> QED
      BY <1>3, <3>1
  <2>2. CASE i > j
    <3>1. i - 1 \in 1..m /\ p[i] = q[i - 1]
      BY <1>5, <2>2
    <3> QED
      BY <1>3, <3>1
  <2> QED
    BY <1>4, <2>1, <2>2
<1>6. p \in [1..n -> 1..n]
  <2>1. \A i \in 1..n : p[i] \in 1..n
    BY <1>0, <1>4, <1>5
  <2> QED
    BY <2>1 DEF p
<1>7. \A a, b \in 1..n : p[a] = p[b] => a = b
  <2>1. \A a \in 1..n : a # j => p[a] # n
    BY <1>0
  <2> SUFFICES ASSUME NEW a \in 1..n, NEW b \in 1..n, p[a] = p[b], a < b
               PROVE  FALSE
    OBVIOUS
  <2>2. a # j /\ b # j
    BY <1>5, <2>1
  <2>3. CASE b < j
    <3>1. q[a] = q[b] /\ a \in 1..m /\ b \in 1..m /\ a # b
      BY <1>4, <1>5, <2>3
    <3> QED
      BY <1>3, <3>1
  <2>4. CASE a < j /\ b > j
    <3>1. q[a] = q[b - 1] /\ a \in 1..m /\ b - 1 \in 1..m /\ b - 1 # a
      BY <1>4, <1>5, <2>4
    <3> QED
      BY <1>3, <3>1
  <2>5. CASE a > j
    <3>1. q[a - 1] = q[b - 1] /\ a - 1 \in 1..m /\ b - 1 \in 1..m /\ b - 1 # a - 1
      BY <1>4, <1>5, <2>5
    <3> QED
      BY <1>3, <3>1
  <2> QED
    BY <1>4, <2>2, <2>3, <2>4, <2>5
<1>8. \A t \in 1..n : \E i \in 1..n : p[i] = t
  <2> SUFFICES ASSUME NEW t \in 1..n, t # n
               PROVE  \E i \in 1..n : p[i] = t
    BY <1>4, <1>5
  <2>1. PICK i \in 1..m : q[i] = t
    BY <1>3
  <2>2. CASE i < j
    BY <1>5, <2>1, <2>2
  <2>3. CASE i >= j
    <3>1. i + 1 \in 1..n /\ i + 1 > j /\ (i + 1) - 1 = i
      BY <1>4, <2>3
    <3> QED
      BY <1>5, <2>1, <3>1
  <2> QED
    BY <1>4, <2>2, <2>3
<1>9. Ascending(x, p, n)
  <2> SUFFICES ASSUME NEW a \in 1..n, NEW b \in 1..n, a < b
               PROVE  x[p[a]] <= x[p[b]]
    BY DEF Ascending
  <2>1. \A i, k \in 1..m : i < k => x[q[i]] <= x[q[k]]
    BY DEF Ascending
  <2>2. \A i \in 1..m : x[q[i]] \in Int
    BY <1>4
  <2>3. x[n] \in Int
    BY <1>4
  <2>4. CASE b < j
    <3>1. a < j /\ p[a] = q[a] /\ p[b] = q[b] /\ a \in 1..m /\ b \in 1..m
      BY <1>4, <1>5, <2>4
    <3> QED
      BY <2>1, <3>1
  <2>5. CASE b = j
    BY <1>4, <1>5, <2>5
  <2>6. CASE b > j /\ a < j
    <3>1. a < b - 1 /\ p[a] = q[a] /\ p[b] = q[b-1] /\ a \in 1..m /\ b - 1 \in 1..m
      BY <1>4, <1>5, <2>6
    <3> QED
      BY <2>1, <3>1
  <2>7. CASE b > j /\ a = j
    <3>1. b - 1 \in 1..m /\ b - 1 >= j /\ p[b] = q[b-1] /\ j < n
      BY <1>4, <1>5, <2>7
    <3>2. x[q[j]] <= x[q[b-1]] /\ x[n] < x[q[j]] /\ x[q[j]] \in Int /\ x[q[b-1]] \in Int
      <4>1. j \in 1..m /\ x[n] < x[q[j]]
        BY <1>4, <3>1
      <4>2. CASE b - 1 = j
        BY <2>2, <4>1, <4>2
      <4>3. CASE b - 1 > j
        BY <2>1, <2>2, <3>1, <4>1, <4>3
      <4> QED
        BY <3>1, <4>1, <4>2, <4>3
    <3>3. p[a] = n
      BY <1>5, <2>7
    <3> QED
      BY <2>3, <3>1, <3>2, <3>3
  <2>8. CASE b > j /\ a > j
    <3>1. a - 1 < b - 1 /\ p[a] = q[a-1] /\ p[b] = q[b-1] /\ a - 1 \in 1..m /\ b - 1 \in 1..m
      BY <1>4, <1>5, <2>8
    <3> QED
      BY <2>1, <3>1
  <2> QED
    BY <1>4, <2>4, <2>5, <2>6, <2>7, <2>8
<1> QED
  BY <1>6, <1>7, <1>8, <1>9, OrderFacts

LEMMA OrderExists ==
  ASSUME NEW n \in Nat, NEW x \in [1..n -> Int]
  PROVE  \E p \in Orders(n) : Ascending(x, p, n)
<1> DEFINE Unsorted == {m \in 0..n : ~ \E p \in Orders(m) : Ascending(x, p, m)}
<1>1. Unsorted = {}
  <2> SUFFICES ASSUME Unsorted # {} PROVE FALSE
    OBVIOUS
  <2>1. Unsorted \in SUBSET Nat
    OBVIOUS
  <2>2. PICK m \in Unsorted : \A k \in Unsorted : m <= k
    BY <2>1, LeastNat
  <2>3. m \in 0..n /\ ~ \E p \in Orders(m) : Ascending(x, p, m)
    BY <2>2
  <2>4. m # 0
    <3> SUFFICES ASSUME m = 0 PROVE FALSE
      OBVIOUS
    <3> DEFINE none == [i \in 1..0 |-> i]
    <3>1. none \in Orders(0)
      BY OrderFacts
    <3>2. Ascending(x, none, 0)
      BY DEF Ascending
    <3> QED
      BY <2>3, <3>1, <3>2
  <2>5. m - 1 \in 0..n /\ m - 1 \notin Unsorted
    <3> HIDE DEF Unsorted
    <3> QED
      BY <2>1, <2>2, <2>3, <2>4
  <2>6. PICK q \in Orders(m - 1) : Ascending(x, q, m - 1)
    BY <2>5
  <2> DEFINE y == [i \in 1..m |-> x[i]]
  <2>7. y \in [1..m -> Int]
    BY <2>3
  <2>8. \A k \in {m - 1, m} : \A p \in Orders(k) : Ascending(y, p, k) = Ascending(x, p, k)
    <3>0. \A k \in {m - 1, m} : k \in Nat /\ k <= m
      BY <2>3, <2>4
    <3>1. \A k \in {m - 1, m} : \A p \in Orders(k) : \A i \in 1..k : p[i] \in 1..m
      <4> SUFFICES ASSUME NEW k \in Nat, k <= m, NEW p \in Orders(k), NEW i \in 1..k
                   PROVE  p[i] \in 1..m
        BY <3>0
      <4>1. p \in [1..k -> 1..k]
        BY OrderFacts
      <4> QED
        BY <2>3, <4>1
    <3>2. \A k \in {m - 1, m} : \A p \in Orders(k) : \A i \in 1..k : y[p[i]] = x[p[i]]
      BY <3>1
    <3> HIDE DEF y
    <3> QED
      BY <3>2 DEF Ascending
  <2> HIDE DEF y, Unsorted
  <2>9. m \in Nat /\ m - 1 \in Nat /\ m = (m - 1) + 1
    BY <2>3, <2>4
  <2>10. \E p \in Orders(m) : Ascending(y, p, m)
    BY <2>6, <2>7, <2>8, <2>9, InsertInOrder
  <2> QED
    BY <2>3, <2>8, <2>10
<1>2. n \in 0..n
  OBVIOUS
<1> QED
  BY <1>1, <1>2

(* np.partition has an answer: the values in ascending order are one.      *)
LEMMA PartitionFacts ==
  ASSUME NEW n \in Nat, NEW x \in [1..n -> Int], NEW k \in 1..n
  PROVE  \E p \in Orders(n) :
           /\ Partitioned(x, k) = [i \in 1..n |-> x[p[i]]]
           /\ \A i \in 1..n : /\ i < k => x[p[i]] <= x[p[k]]
                              /\ i > k => x[p[k]] <= x[p[i]]
<1> DEFINE W == {[i \in DOMAIN x |-> x[p[i]]] : p \in Bijection(DOMAIN x, DOMAIN x)}
           Fits(w) == \A i \in DOMAIN x : (i < k => w[i] <= w[k]) /\ (i > k => w[k] <= w[i])
<1>1. DOMAIN x = 1..n /\ Bijection(DOMAIN x, DOMAIN x) = Orders(n)
  BY DEF Orders
<1>2. \E w \in W : Fits(w)
  <2>1. PICK p \in Orders(n) : Ascending(x, p, n)
    BY OrderExists
  <2> DEFINE w == [i \in DOMAIN x |-> x[p[i]]]
  <2>2. w \in W
    BY <1>1
  <2>3. Fits(w)
    BY <1>1, <2>1 DEF Ascending
  <2> QED
    BY <2>2, <2>3
<1>3. Partitioned(x, k) = CHOOSE w \in W : Fits(w)
  BY DEF Partitioned
<1>4. Partitioned(x, k) \in W /\ Fits(Partitioned(x, k))
  <2> HIDE DEF W, Fits
  <2> QED
    BY <1>2, <1>3
<1>5. PICK p \in Orders(n) : Partitioned(x, k) = [i \in 1..n |-> x[p[i]]]
  BY <1>1, <1>4
<1> QED
  BY <1>1, <1>4, <1>5

(* Fewer than half of the values are below v, and half of them or more are *)
(* not above.                                                              *)
IsLowerMedian(x, n, v) ==
  /\ 2 * Cardinality({i \in 1..n : x[i] < v}) < n
  /\ 2 * Cardinality({i \in 1..n : x[i] <= v}) >= n
  /\ \E i \in 1..n : x[i] = v

LEMMA MiddleFacts ==
  ASSUME NEW n \in Nat \ {0}
  PROVE  /\ Middle(n) \in 0..(n-1)
         /\ 2 * Middle(n) < n /\ 2 * (Middle(n) + 1) >= n
BY DEF Middle

(* _median_last                                                            *)
LEMMA PartitionedIsMedian ==
  ASSUME NEW n \in Nat \ {0}, NEW x \in [1..n -> Int]
  PROVE  IsLowerMedian(x, n, Partitioned(x, Middle(n) + 1)[Middle(n) + 1])
<1> DEFINE k == Middle(n) + 1
<1>1. k \in 1..n /\ 2 * (k - 1) < n /\ 2 * k >= n
  <2>1. /\ Middle(n) \in Nat /\ Middle(n) <= n - 1
        /\ 2 * Middle(n) < n /\ 2 * (Middle(n) + 1) >= n
    BY MiddleFacts
  <2> QED
    BY <2>1
<1> HIDE DEF k
<1>0. n \in Nat
  OBVIOUS
<1>2. PICK p \in Orders(n) :
        /\ Partitioned(x, k) = [i \in 1..n |-> x[p[i]]]
        /\ \A i \in 1..n : /\ i < k => x[p[i]] <= x[p[k]]
                           /\ i > k => x[p[k]] <= x[p[i]]
  BY <1>0, <1>1, PartitionFacts
<1>3. p \in Bijection(1..n, 1..n) /\ p \in [1..n -> 1..n]
  BY <1>2, OrderFacts DEF Orders
<1> DEFINE v == x[p[k]]
           Before    == {i \in 1..n : x[p[i]] < v}
           UpTo      == {i \in 1..n : x[p[i]] <= v}
           Below     == {i \in 1..n : x[i] < v}
           NotAbove  == {i \in 1..n : x[i] <= v}
<1>4. v \in Int /\ \A i \in 1..n : x[p[i]] \in Int
  BY <1>1, <1>3
<1>5. IsFiniteSet(1..n) /\ \A m \in 0..n : IsFiniteSet(1..m) /\ Cardinality(1..m) = m
  <2>1. \A m \in 0..n : IsFiniteSet(1..m) /\ Cardinality(1..m) = m
    <3> SUFFICES ASSUME NEW m \in 0..n
                 PROVE  IsFiniteSet(1..m) /\ Cardinality(1..m) = m
      OBVIOUS
    <3>1. 1 \in Int /\ m \in Int
      OBVIOUS
    <3>2. IsFiniteSet(1..m) /\ Cardinality(1..m) = IF 1 > m THEN 0 ELSE m - 1 + 1
      BY <3>1, FS_Interval
    <3> QED
      BY <3>2
  <2> QED
    BY <2>1
<1>6. /\ Before \in SUBSET (1..n) /\ UpTo \in SUBSET (1..n)
      /\ Below \in SUBSET (1..n) /\ NotAbove \in SUBSET (1..n)
  OBVIOUS
<1>7. Before = Preimage(p, 1..n, Below) /\ UpTo = Preimage(p, 1..n, NotAbove)
  BY <1>3 DEF Preimage
<1>8. Before \subseteq 1..(k-1) /\ 1..k \subseteq UpTo
  <2>1. ASSUME NEW i \in 1..n, x[p[i]] < v PROVE i \in 1..(k-1)
    <3>1. ~(i > k) /\ i # k
      BY <1>2, <1>4, <2>1
    <3> QED
      BY <1>1, <3>1
  <2>2. ASSUME NEW i \in 1..k PROVE i \in 1..n /\ x[p[i]] <= v
    <3>1. i \in 1..n /\ (i = k \/ i < k)
      BY <1>1
    <3> QED
      BY <1>2, <1>4, <3>1
  <2> QED
    BY <2>1, <2>2
<1> HIDE DEF v, Before, UpTo, Below, NotAbove
<1>9. IsFiniteSet(Before) /\ IsFiniteSet(UpTo)
  BY <1>5, <1>6, FS_Subset
<1>10. /\ Cardinality(Before) = Cardinality(Below)
       /\ Cardinality(UpTo) = Cardinality(NotAbove)
  <2> DEFINE D == 1..n
  <2>1. /\ p \in Bijection(D, D) /\ IsFiniteSet(D)
        /\ Below \in SUBSET D /\ NotAbove \in SUBSET D
        /\ Before = Preimage(p, D, Below) /\ UpTo = Preimage(p, D, NotAbove)
    BY <1>3, <1>5, <1>6, <1>7
  <2> HIDE DEF D
  <2> QED
    BY <2>1, CountMoved
<1>11. Cardinality(Before) <= k - 1 /\ Cardinality(UpTo) >= k
  <2>1. k - 1 \in 0..n /\ k \in 0..n
    BY <1>1
  <2>2. Cardinality(Before) <= Cardinality(1..(k-1))
    BY <1>5, <1>8, <2>1, FS_Subset
  <2>3. Cardinality(1..k) <= Cardinality(UpTo)
    BY <1>8, <1>9, FS_Subset
  <2>4. Cardinality(1..(k-1)) = k - 1 /\ Cardinality(1..k) = k
    BY <1>5, <2>1
  <2> QED
    BY <2>2, <2>3, <2>4
<1>12. Cardinality(Below) \in Nat /\ Cardinality(NotAbove) \in Nat
  BY <1>9, <1>10, FS_CardinalityType
<1>13. 2 * Cardinality(Below) < n /\ 2 * Cardinality(NotAbove) >= n
  BY <1>1, <1>10, <1>11, <1>12
<1>14. Partitioned(x, k)[k] = v /\ p[k] \in 1..n
  BY <1>1, <1>2, <1>3 DEF v
<1>15. IsLowerMedian(x, n, v)
  BY <1>13, <1>14 DEF IsLowerMedian, Below, NotAbove, v
<1> QED
  BY <1>14, <1>15 DEF k

(* Of one value                                                            *)
LEMMA SingleMedian ==
  ASSUME NEW x \in [1..1 -> Int]
  PROVE  IsLowerMedian(x, 1, x[1])
<1>1. {i \in 1..1 : x[i] < x[1]} = {} /\ {i \in 1..1 : x[i] <= x[1]} = {1}
  OBVIOUS
<1>2. Cardinality({}) = 0 /\ Cardinality({1}) = 1
  BY FS_EmptySet, FS_Singleton
<1> QED
  BY <1>1, <1>2 DEF IsLowerMedian

-----------------------------------------------------------------------------
(* The ring.                                                               *)

LEMMA RemainderFacts ==
  ASSUME NEW a \in Nat, NEW h \in Nat \ {0}
  PROVE  /\ a % h \in 0..(h - 1) /\ a \div h \in Nat
         /\ a = h * (a \div h) + (a % h)
         /\ a < h => a % h = a
OBVIOUS

LEMMA RemainderIs ==
  ASSUME NEW a \in Nat, NEW h \in Nat \ {0}, NEW q \in Nat, NEW r \in 0..(h - 1),
         a = h * q + r
  PROVE  a % h = r
OBVIOUS

(* Numbers that are less than h apart have different remainders.           *)
LEMMA RemaindersDiffer ==
  ASSUME NEW a \in Nat, NEW b \in Nat, NEW h \in Nat \ {0}, a < b, b < a + h
  PROVE  a % h # b % h
<1> SUFFICES ASSUME a % h = b % h PROVE FALSE
  OBVIOUS
<1> DEFINE qa == a \div h
           qb == b \div h
           r  == a % h
<1>0. /\ qa \in Nat /\ r \in 0..(h - 1) /\ a = h * qa + r
      /\ qb \in Nat /\ b = h * qb + (b % h)
  BY RemainderFacts
<1>1. qa \in Nat /\ qb \in Nat /\ r \in Int /\ a = h * qa + r /\ b = h * qb + r
  BY <1>0
<1> HIDE DEF qa, qb, r
<1>2. h * qa < h * qb /\ h * qb < h * qa + h
  BY <1>1
<1>3. ~(qb <= qa)
  <2>1. qb <= qa => qb * h <= qa * h
    BY <1>1, ProductIsMonotonic
  <2> QED
    BY <1>1, <1>2, <2>1
<1>4. ~(qa + 1 <= qb)
  <2>1. qa + 1 <= qb => (qa + 1) * h <= qb * h
    BY <1>1, ProductIsMonotonic
  <2>2. (qa + 1) * h = h * qa + h
    BY <1>1
  <2> QED
    BY <1>1, <1>2, <2>1, <2>2
<1> QED
  BY <1>1, <1>3, <1>4

(* The position of the ring after one more frame                           *)
LEMMA NextRemainder ==
  ASSUME NEW a \in Nat, NEW h \in Nat \ {0}
  PROVE  ((a % h) + 1) % h = (a + 1) % h
<1> DEFINE q == a \div h
           r == a % h
<1>1. q \in Nat /\ r \in 0..(h - 1) /\ a = h * q + r
  BY RemainderFacts
<1> HIDE DEF q, r
<1>2. CASE r + 1 < h
  <2>1. r + 1 \in 0..(h - 1) /\ a + 1 = h * q + (r + 1) /\ a + 1 \in Nat /\ r + 1 \in Nat
    BY <1>1, <1>2
  <2>2. (a + 1) % h = r + 1
    BY <1>1, <2>1, RemainderIs
  <2>3. (r + 1) % h = r + 1
    BY <1>2, <2>1, RemainderFacts
  <2> QED
    BY <2>2, <2>3 DEF r
<1>3. CASE r + 1 = h
  <2>1. /\ 0 \in 0..(h - 1) /\ a + 1 = h * (q + 1) + 0 /\ a + 1 \in Nat /\ q + 1 \in Nat
        /\ r + 1 \in Nat /\ r + 1 = h * 1 + 0 /\ 1 \in Nat
    BY <1>1, <1>3
  <2>2. (a + 1) % h = 0
    BY <2>1, RemainderIs
  <2>3. (r + 1) % h = 0
    BY <2>1, RemainderIs
  <2> QED
    BY <2>2, <2>3 DEF r
<1> QED
  BY <1>1, <1>2, <1>3

RowType == [t0 : Nat, dur : Nat, min : [Channels -> [Bands -> Nat]],
            max : [Channels -> [Bands -> Nat]]]

HeardType == [at : Nat, frame : Frames, row : Nat]

FrameTypeOK ==
  /\ now \in Nat /\ win_t0 \in Nat /\ win_t0 <= now
  /\ rows \in Seq(RowType)
  /\ heard \in Seq(HeardType)
  /\ tick_count = Len(heard)

(* The place of a frame in the ring                                        *)
RingInv ==
  /\ history \in [0..(HistoryLen - 1) -> Frames \cup {<<>>}]
  /\ write_pos = Len(heard) % HistoryLen
  /\ \A i \in 1..Len(heard) :
       i > Len(heard) - HistoryLen => history[(i - 1) % HistoryLen] = heard[i].frame

LEMMA QuantiseType ==
  ASSUME NEW e
  PROVE  Quantise(e) \in Nat
<1> DEFINE S == {k \in 1..QMax : e > 0 /\ 2^(2 * k - 1) <= e * e}
<1>1. QMax \in Int /\ 1 \in Int
  BY MeasuresAssumption
<1>2. IsFiniteSet(1..QMax)
  BY <1>1, FS_Interval
<1>3. S \in SUBSET (1..QMax)
  OBVIOUS
<1> HIDE DEF S
<1>4. Cardinality(S) \in Nat
  BY <1>2, <1>3, FS_Subset, FS_CardinalityType
<1> QED
  BY <1>4 DEF Quantise, S

LEMMA AppendFacts ==
  ASSUME NEW S, NEW s \in Seq(S), NEW e \in S
  PROVE  /\ Append(s, e) \in Seq(S) /\ Len(Append(s, e)) = Len(s) + 1 /\ Len(s) \in Nat
         /\ \A i \in 1..Len(s) : Append(s, e)[i] = s[i]
         /\ Append(s, e)[Len(s) + 1] = e
OBVIOUS

LEMMA FrameTypeStep ==
  ASSUME FrameTypeOK, NEW frame \in Frames, NEW delay \in Delays, Frame(frame, delay)
  PROVE  FrameTypeOK'
<1>1. /\ now' = now + delay /\ delay \in Nat /\ now \in Nat /\ now' \in Nat
      /\ tick_count' = tick_count + 1
      /\ heard' = Append(heard, [at |-> now', frame |-> frame, row |-> Len(rows) + 1])
  BY MeasuresAssumption, SMTT(30) DEF Frame, UpdateFloor, FrameTypeOK
<1>2. rows' \in Seq(RowType) /\ win_t0' \in Nat /\ win_t0' <= now'
  <2> DEFINE start == IF tick_count = 0 THEN now' ELSE win_t0
  <2>1. start \in Nat /\ start <= now' /\ now' - start \in Nat
    BY <1>1 DEF FrameTypeOK
  <2>2. \A acc : Quantised(acc) \in [Channels -> [Bands -> Nat]]
    BY QuantiseType DEF Quantised
  <2>3. UpdateWindow(frame, now')
    BY DEF Frame
  <2>4. CASE now' - start < Interval
    BY <2>1, <2>3, <2>4 DEF UpdateWindow, FrameTypeOK
  <2>5. CASE ~(now' - start < Interval)
    <3> DEFINE row == [t0 |-> start, dur |-> now' - start,
                       min |-> Quantised(Accumulated(lowest, frame, FALSE)),
                       max |-> Quantised(Accumulated(highest, frame, TRUE))]
    <3>1. row \in RowType
      BY <2>1, <2>2 DEF RowType
    <3>2. rows' = Append(rows, row) /\ win_t0' = now'
      BY <2>3, <2>5 DEF UpdateWindow
    <3> HIDE DEF row
    <3> QED
      BY <1>1, <3>1, <3>2 DEF FrameTypeOK
  <2> QED
    BY <2>4, <2>5
<1>3. [at |-> now', frame |-> frame, row |-> Len(rows) + 1] \in HeardType
  <2>1. Len(rows) \in Nat
    BY DEF FrameTypeOK
  <2> QED
    BY <1>1, <2>1 DEF HeardType
<1>4. heard' \in Seq(HeardType) /\ Len(heard') = Len(heard) + 1
  BY <1>1, <1>3, AppendFacts DEF FrameTypeOK
<1> QED
  BY <1>1, <1>2, <1>4 DEF FrameTypeOK

(* The frame that fills the ring, and each one after it                    *)
LEMMA RingStep ==
  ASSUME FrameTypeOK, RingInv, NEW frame \in Frames, NEW delay \in Delays, Frame(frame, delay)
  PROVE  RingInv'
<1> DEFINE T == Len(heard)
           H == HistoryLen
           e == [at |-> now', frame |-> frame, row |-> Len(rows) + 1]
<1>1. H \in Nat \ {0} /\ T \in Nat /\ tick_count = T
  BY MeasuresAssumption DEF FrameTypeOK
<1>2. e \in HeardType /\ heard' = Append(heard, e) /\ e.frame = frame
  <2>1. Len(rows) \in Nat /\ now' \in Nat
    BY MeasuresAssumption DEF FrameTypeOK, Frame
  <2> QED
    BY <2>1 DEF Frame, HeardType
<1>3. heard \in Seq(HeardType)
  BY DEF FrameTypeOK
<1> HIDE DEF e
<1>4. /\ Len(heard') = T + 1 /\ \A i \in 1..T : heard'[i] = heard[i]
      /\ heard'[T + 1] = e
  BY <1>2, <1>3, AppendFacts
<1>5. /\ history' = IF T = 0 THEN [i \in DOMAIN history |-> frame]
                    ELSE [history EXCEPT ![write_pos] = frame]
      /\ write_pos' = (write_pos + 1) % H
  BY <1>1 DEF Frame, UpdateFloor
<1>6. /\ history \in [0..(H - 1) -> Frames \cup {<<>>}] /\ write_pos = T % H
      /\ \A i \in 1..T : i > T - H => history[(i - 1) % H] = heard[i].frame
  BY DEF RingInv
<1> HIDE DEF H, T
<1>7. history' \in [0..(H - 1) -> Frames \cup {<<>>}]
  BY <1>5, <1>6
<1>8. write_pos' = (T + 1) % H
  BY <1>1, <1>5, <1>6, NextRemainder
<1>9. ASSUME NEW i \in 1..(T + 1), i > (T + 1) - H
      PROVE  history'[(i - 1) % H] = heard'[i].frame
  <2>0. T % H \in 0..(H - 1)
    BY <1>1, RemainderFacts
  <2>1. CASE i = T + 1
    <3>1. (i - 1) % H = T % H /\ heard'[i].frame = frame
      BY <1>1, <1>2, <1>4, <2>1
    <3> QED
      BY <1>5, <1>6, <2>0, <3>1
  <2>2. CASE i \in 1..T
    <3>1. T # 0 /\ heard'[i] = heard[i] /\ i > T - H
      BY <1>1, <1>4, <1>9, <2>2
    <3>2. i - 1 \in Nat /\ i - 1 < T /\ T < (i - 1) + H
      BY <1>1, <1>9, <2>2
    <3>3. (i - 1) % H # T % H
      BY <1>1, <3>2, RemaindersDiffer
    <3>4. (i - 1) % H \in 0..(H - 1)
      BY <1>1, <3>2, RemainderFacts
    <3>5. history[(i - 1) % H] = heard[i].frame
      BY <1>6, <2>2, <3>1
    <3> QED
      BY <1>5, <1>6, <3>1, <3>3, <3>4, <3>5
  <2> QED
    BY <1>1, <2>1, <2>2
<1>10. \A i \in 1..(T + 1) :
         i > (T + 1) - H => history'[(i - 1) % H] = heard'[i].frame
  BY <1>9
<1> QED
  BY <1>4, <1>7, <1>8, <1>10 DEF RingInv, H

FrameInv == FrameTypeOK /\ RingInv

(* The position of the ring is the count of the frames modulo its length,  *)
(* and a frame of the last HistoryLen is found where its number says       *)
(* (FloorTracker.update).                                                  *)
THEOREM RingHoldsRecent == AlgSpec => []FrameInv
<1>1. AlgInit => FrameInv
  <2> SUFFICES ASSUME AlgInit PROVE FrameInv
    OBVIOUS
  <2>1. HistoryLen \in Nat \ {0}
    BY MeasuresAssumption
  <2>2. 0 % HistoryLen = 0
    BY <2>1, RemainderFacts
  <2> QED
    BY <2>1, <2>2 DEF AlgInit, Init, FrameInv, FrameTypeOK, RingInv
<1>2. FrameInv /\ [NextFrame \/ Hear]_<<vars, sounds, file>> => FrameInv'
  <2> SUFFICES ASSUME FrameInv, [NextFrame \/ Hear]_<<vars, sounds, file>>
               PROVE  FrameInv'
    OBVIOUS
  <2>1. CASE NextFrame
    BY <2>1, FrameTypeStep, RingStep DEF NextFrame, FrameInv
  <2>2. CASE UNCHANGED vars
    BY <2>2 DEF vars, FrameInv, FrameTypeOK, RingInv
  <2> QED
    BY <2>1, <2>2 DEF Hear
<1> QED
  BY <1>1, <1>2, PTL DEF AlgSpec

(* The frames that the floor is about *)
Recent == (Max({1, Len(heard) - HistoryLen + 1}))..Len(heard)

LEMMA RecentFacts ==
  ASSUME FrameInv, heard # <<>>
  PROVE  /\ ValidLen \in Nat \ {0}
         /\ Recent = (Len(heard) - ValidLen + 1)..Len(heard)
         /\ ValidLen <= HistoryLen /\ ValidLen <= Len(heard)
         /\ Len(heard) \in Nat \ {0} /\ HistoryLen \in Nat \ {0}
         /\ ValidLen < HistoryLen => ValidLen = Len(heard)
<1> DEFINE T == Len(heard)
           H == HistoryLen
<1>1. H \in Nat \ {0} /\ T \in Nat \ {0} /\ tick_count = T
  BY MeasuresAssumption DEF FrameInv, FrameTypeOK
<1> HIDE DEF T, H
<1>2. Min({T, H}) = IF T <= H THEN T ELSE H
  <2>1. \E x \in {T, H} : \A y \in {T, H} : x <= y
    BY <1>1
  <2> QED
    BY <1>1, <2>1 DEF Min
<1>3. Max({1, (T - H) + 1}) = IF T <= H THEN 1 ELSE (T - H) + 1
  <2>1. \E x \in {1, (T - H) + 1} : \A y \in {1, (T - H) + 1} : x >= y
    BY <1>1
  <2> QED
    BY <1>1, <2>1 DEF Max
<1>4. ValidLen = Min({T, H}) /\ Recent = (Max({1, (T - H) + 1}))..T
  BY <1>1 DEF ValidLen, Recent, T, H
<1>5. Recent = ((T - ValidLen) + 1)..T
  BY <1>1, <1>2, <1>3, <1>4
<1> QED
  BY <1>1, <1>2, <1>4, <1>5 DEF T, H


(* The place from which get_floor reads frame j, from 1                    *)
Place == [j \in Recent |-> ((j - 1) % HistoryLen) + 1]

LEMMA PlaceFacts ==
  ASSUME FrameInv, heard # <<>>
  PROVE  /\ IsFiniteSet(Recent) /\ Cardinality(Recent) = ValidLen
         /\ Place \in Bijection(Recent, 1..ValidLen)
         /\ \A j \in Recent : /\ j \in 1..Len(heard)
                              /\ history[Place[j] - 1] = heard[j].frame
<1> DEFINE T == Len(heard)
           H == HistoryLen
           V == ValidLen
<1>1. /\ V \in Nat \ {0} /\ Recent = ((T - V) + 1)..T
      /\ V <= H /\ V <= T /\ (V < H => V = T)
      /\ T \in Nat \ {0} /\ H \in Nat \ {0}
  BY RecentFacts
<1>2. \A i \in 1..T : i > T - H => history[(i - 1) % H] = heard[i].frame
  BY DEF FrameInv, RingInv
<1>3. \A j \in Recent : Place[j] = ((j - 1) % H) + 1
  BY DEF Place
<1>a. DOMAIN Place = Recent /\ Place = [j \in Recent |-> Place[j]]
  BY DEF Place
<1> HIDE DEF T, H, V
<1>4. IsFiniteSet(Recent) /\ Cardinality(Recent) = V /\ IsFiniteSet(1..V) /\ Cardinality(1..V) = V
  <2>1. (T - V) + 1 \in Int /\ T \in Int /\ 1 \in Int /\ V \in Int /\ ~((T - V) + 1 > T) /\ ~(1 > V)
    BY <1>1
  <2>2. /\ IsFiniteSet(((T - V) + 1)..T)
        /\ Cardinality(((T - V) + 1)..T) = (T - ((T - V) + 1)) + 1
    BY <2>1, FS_Interval
  <2>3. IsFiniteSet(1..V) /\ Cardinality(1..V) = (V - 1) + 1
    BY <2>1, FS_Interval
  <2> QED
    BY <1>1, <2>2, <2>3
<1>5. \A j \in Recent : /\ j \in 1..T /\ j > T - H
                        /\ j - 1 \in Nat /\ (V < H => j - 1 < V)
  BY <1>1
<1>6. \A j \in Recent : (j - 1) % H \in 0..(V - 1)
  <2> SUFFICES ASSUME NEW j \in Recent PROVE (j - 1) % H \in 0..(V - 1)
    OBVIOUS
  <2>1. (j - 1) % H \in 0..(H - 1) /\ (j - 1 < H => (j - 1) % H = j - 1)
    BY <1>1, <1>5, RemainderFacts
  <2>2. CASE V = H
    BY <2>1, <2>2
  <2>3. CASE V < H
    BY <1>1, <1>5, <2>1, <2>3
  <2> QED
    BY <1>1, <2>2, <2>3
<1>7. Place \in [Recent -> 1..V]
  <2>1. \A j \in Recent : Place[j] \in 1..V
    BY <1>1, <1>3, <1>6
  <2> QED
    BY <1>a, <2>1
<1>8. \A j, k \in Recent : j # k => Place[j] # Place[k]
  <2>1. \A j, k \in Recent : j < k => (j - 1) % H # (k - 1) % H
    <3> SUFFICES ASSUME NEW j \in Recent, NEW k \in Recent, j < k
                 PROVE  (j - 1) % H # (k - 1) % H
      OBVIOUS
    <3>1. j - 1 \in Nat /\ k - 1 \in Nat /\ j - 1 < k - 1 /\ k - 1 < (j - 1) + H
      BY <1>1, <1>5
    <3> QED
      BY <1>1, <3>1, RemaindersDiffer
  <2>2. \A j, k \in Recent : j # k => (j - 1) % H # (k - 1) % H
    <3> SUFFICES ASSUME NEW j \in Recent, NEW k \in Recent, j # k
                 PROVE  (j - 1) % H # (k - 1) % H
      OBVIOUS
    <3>1. j < k \/ k < j
      BY <1>5
    <3> QED
      BY <2>1, <3>1
  <2> SUFFICES ASSUME NEW j \in Recent, NEW k \in Recent, j # k
               PROVE  Place[j] # Place[k]
    OBVIOUS
  <2>3. (j - 1) % H \in Int /\ (k - 1) % H \in Int
    BY <1>1, <1>6
  <2> QED
    BY <1>3, <2>2, <2>3
<1>9. Place \in Bijection(Recent, 1..V)
  <2> DEFINE D == 1..V
  <2>1. Place \in Injection(Recent, D)
    BY <1>7, <1>8 DEF Injection, IsInjective
  <2>2. IsFiniteSet(D) /\ Cardinality(D) = Cardinality(Recent)
    BY <1>4
  <2> HIDE DEF D
  <2>3. Place \in Surjection(Recent, D)
    BY <1>4, <2>1, <2>2, FS_Injection
  <2> QED
    BY <2>1, <2>3 DEF Bijection, D
<1>10. \A j \in Recent : history[Place[j] - 1] = heard[j].frame
  <2> SUFFICES ASSUME NEW j \in Recent PROVE history[Place[j] - 1] = heard[j].frame
    OBVIOUS
  <2>1. Place[j] - 1 = (j - 1) % H
    BY <1>1, <1>3, <1>6, SMTT(30)
  <2> QED
    BY <1>2, <1>5, <2>1
<1> QED
  BY <1>4, <1>5, <1>9, <1>10 DEF T, V

(* get_floor                                                               *)
LEMMA FloorIsMedian ==
  ASSUME FrameInv, heard # <<>>, NEW ch \in Channels, NEW bin \in Bins
  PROVE  LET v == Floor(ch, bin) IN
         /\ 2 * Cardinality({i \in Recent : heard[i].frame[ch][bin] < v}) < Cardinality(Recent)
         /\ 2 * Cardinality({i \in Recent : heard[i].frame[ch][bin] <= v}) >= Cardinality(Recent)
         /\ \E i \in Recent : heard[i].frame[ch][bin] = v
<1> DEFINE V == ValidLen
           x == [i \in 1..V |-> history[i - 1][ch][bin]]
           v == Floor(ch, bin)
           Level(j) == heard[j].frame[ch][bin]
<1>1. V \in Nat \ {0}
  BY RecentFacts
<1>2. /\ IsFiniteSet(Recent) /\ Cardinality(Recent) = V
      /\ Place \in Bijection(Recent, 1..V)
      /\ \A j \in Recent : j \in 1..Len(heard) /\ history[Place[j] - 1] = heard[j].frame
  BY PlaceFacts
<1>3. /\ Place \in [Recent -> 1..V]
      /\ \A i \in 1..V : \E j \in Recent : Place[j] = i
  BY <1>2 DEF Bijection, Injection, Surjection
<1> HIDE DEF V
<1>4. \A j \in Recent : x[Place[j]] = Level(j) /\ Level(j) \in Int
  <2> SUFFICES ASSUME NEW j \in Recent
               PROVE  x[Place[j]] = Level(j) /\ Level(j) \in Int
    OBVIOUS
  <2>1. heard[j] \in HeardType
    BY <1>2 DEF FrameInv, FrameTypeOK
  <2>2. heard[j].frame \in [Channels -> [Bins -> Nat]]
    BY <2>1, MeasuresAssumption DEF HeardType
  <2>3. Level(j) \in Nat
    BY <2>2
  <2> QED
    BY <1>2, <1>3, <2>3
<1>5. x \in [1..V -> Int]
  <2>1. \A i \in 1..V : x[i] \in Int
    <3> HIDE DEF x
    <3> QED
      BY <1>3, <1>4
  <2> QED
    BY <2>1
<1>6. IsLowerMedian(x, V, v)
  <2>1. CASE V <= 1
    <3>1. V = 1
      BY <1>1, <2>1
    <3>2. v = history[0][ch][bin]
      BY <2>1 DEF Floor, V
    <3>3. x[1] = v
      BY <3>1, <3>2
    <3>4. x \in [1..1 -> Int]
      BY <1>5, <3>1
    <3> HIDE DEF x, v
    <3> QED
      BY <3>1, <3>3, <3>4, SingleMedian
  <2>2. CASE ~(V <= 1)
    <3>1. v = Partitioned(x, Middle(V) + 1)[Middle(V) + 1]
      BY <2>2 DEF Floor, V
    <3> HIDE DEF x, v
    <3> QED
      BY <1>1, <1>5, <3>1, PartitionedIsMedian
  <2> QED
    BY <2>1, <2>2
<1> DEFINE Low == {i \in 1..V : x[i] < v}
           NotHigh == {i \in 1..V : x[i] <= v}
           Below == {i \in Recent : heard[i].frame[ch][bin] < v}
           UpTo == {i \in Recent : heard[i].frame[ch][bin] <= v}
<1> HIDE DEF x, v
<1>7. Below = Preimage(Place, Recent, Low) /\ UpTo = Preimage(Place, Recent, NotHigh)
  BY <1>3, <1>4 DEF Preimage
<1>8. Low \in SUBSET (1..V) /\ NotHigh \in SUBSET (1..V)
  OBVIOUS
<1>9. 2 * Cardinality(Low) < V /\ 2 * Cardinality(NotHigh) >= V /\ \E i \in 1..V : x[i] = v
  BY <1>6 DEF IsLowerMedian
<1>10. \E j \in Recent : Level(j) = v
  BY <1>3, <1>4, <1>9
<1> HIDE DEF Low, NotHigh, Below, UpTo
<1>11. Cardinality(Below) = Cardinality(Low) /\ Cardinality(UpTo) = Cardinality(NotHigh)
  <2> DEFINE D == 1..V
  <2>1. Place \in Bijection(Recent, D) /\ Low \in SUBSET D /\ NotHigh \in SUBSET D
    BY <1>2, <1>8
  <2> HIDE DEF D
  <2> QED
    BY <1>2, <1>7, <2>1, CountMoved
<1>12. 2 * Cardinality(Below) < Cardinality(Recent) /\ 2 * Cardinality(UpTo) >= Cardinality(Recent)
  BY <1>2, <1>9, <1>11
<1> QED
  BY <1>10, <1>12 DEF Below, UpTo, v

(* The floor of every bin of every channel is the lower median of the last *)
(* HistoryLen frames, at every length of the ring and after any number of  *)
(* frames (FloorTracker).                                                  *)
THEOREM FloorsAreMedians == AlgSpec => []FloorIsMedianOfRecent
<1>1. FrameInv => FloorIsMedianOfRecent
  <2> SUFFICES ASSUME FrameInv, heard # <<>>, NEW ch \in Channels, NEW bin \in Bins
               PROVE  LET recent == (Max({1, Len(heard) - HistoryLen + 1}))..Len(heard)
                          v == Floor(ch, bin) IN
         /\ 2 * Cardinality({i \in recent : heard[i].frame[ch][bin] < v}) < Cardinality(recent)
         /\ 2 * Cardinality({i \in recent : heard[i].frame[ch][bin] <= v}) >= Cardinality(recent)
         /\ \E i \in recent : heard[i].frame[ch][bin] = v
    BY DEF FloorIsMedianOfRecent
  <2> QED
    BY FloorIsMedian DEF Recent
<1> QED
  BY <1>1, RingHoldsRecent, PTL

(* A running sum exists.                                                   *)
LEMMA RunningSum ==
  ASSUME NEW N \in Nat, NEW E \in [0..N -> Int]
  PROVE  \E f : f = [b \in 0..N |-> IF b = 0 THEN 0 ELSE f[b - 1] + E[b]]
<1> DEFINE Solves(f, n) == f = [b \in 0..n |-> IF b = 0 THEN 0 ELSE f[b - 1] + E[b]]
           Unsolved == {n \in Nat : ~ \E f : Solves(f, n)}
<1>1. Unsolved = {}
  <2> SUFFICES ASSUME Unsolved # {} PROVE FALSE
    OBVIOUS
  <2>0. Unsolved \in SUBSET Nat
    OBVIOUS
  <2>1. PICK n \in Unsolved : \A k \in Unsolved : n <= k
    BY <2>0, LeastNat
  <2>2. n \in Nat /\ n # 0
    <3>1. Solves([b \in 0..0 |-> 0], 0)
      OBVIOUS
    <3> QED
      BY <2>0, <3>1
  <2>3. n - 1 \in Nat /\ n - 1 \notin Unsolved
    <3> HIDE DEF Unsolved
    <3> QED
      BY <2>1, <2>2
  <2>4. PICK f : Solves(f, n - 1)
    BY <2>3
  <2> DEFINE g == [b \in 0..n |-> IF b = n THEN f[n - 1] + E[n] ELSE f[b]]
  <2>5. \A b \in 0..n : b # n => g[b] = f[b] /\ b \in 0..(n - 1)
    BY <2>2
  <2>6. \A b \in 0..n : b # 0 => b - 1 \in 0..n /\ b - 1 # n /\ g[b - 1] = f[b - 1]
    BY <2>2
  <2>7. \A b \in 0..n : g[b] = IF b = 0 THEN 0 ELSE f[b - 1] + E[b]
    <3> SUFFICES ASSUME NEW b \in 0..n
                 PROVE  g[b] = IF b = 0 THEN 0 ELSE f[b - 1] + E[b]
      OBVIOUS
    <3>1. CASE b = n
      BY <2>2, <3>1
    <3>2. CASE b # n
      BY <2>4, <2>5, <3>2
    <3> QED
      BY <3>1, <3>2
  <2>8. Solves(g, n)
    <3>1. \A b \in 0..n : g[b] = IF b = 0 THEN 0 ELSE g[b - 1] + E[b]
      BY <2>6, <2>7
    <3> QED
      BY <3>1
  <2> QED
    BY <2>1, <2>8
<1>2. N \notin Unsolved
  BY <1>1
<1> QED
  BY <1>2

LEMMA SumIsInt ==
  ASSUME NEW N \in Nat, NEW E \in [0..N -> Int], NEW f,
         f = [b \in 0..N |-> IF b = 0 THEN 0 ELSE f[b - 1] + E[b]]
  PROVE  /\ f[N] \in Int
         /\ (\A b \in 0..N : E[b] = 0) => f[N] = 0
<1> DEFINE Zero == \A b \in 0..N : E[b] = 0
           Bad == {b \in 0..N : ~(f[b] \in Int /\ (Zero => f[b] = 0))}
<1>1. Bad = {}
  <2> SUFFICES ASSUME Bad # {} PROVE FALSE
    OBVIOUS
  <2>0. Bad \in SUBSET Nat
    OBVIOUS
  <2>1. PICK n \in Bad : \A k \in Bad : n <= k
    BY <2>0, LeastNat
  <2>2. n \in 0..N /\ f[n] = IF n = 0 THEN 0 ELSE f[n - 1] + E[n]
    OBVIOUS
  <2>3. n # 0
    BY <2>1, <2>2
  <2>4. n - 1 \in 0..N /\ n - 1 \notin Bad
    <3> HIDE DEF Bad
    <3> QED
      BY <2>1, <2>2, <2>3
  <2>5. f[n - 1] \in Int /\ (Zero => f[n - 1] = 0)
    BY <2>4
  <2>6. E[n] \in Int /\ (Zero => E[n] = 0)
    BY <2>2
  <2>7. f[n] \in Int /\ (Zero => f[n] = 0)
    BY <2>2, <2>3, <2>5, <2>6, SMTT(30)
  <2> QED
    BY <2>1, <2>7
<1>2. N \in 0..N
  OBVIOUS
<1> QED
  BY <1>1, <1>2

(* The energy of a band; none where no bin falls.                          *)
LEMMA EnergyFacts ==
  ASSUME NEW spectrum \in [Bins -> Nat], NEW band
  PROVE  /\ Energy(spectrum, band) \in Int
         /\ BinsOf(band) = {} => Energy(spectrum, band) = 0
<1> DEFINE N == MaxHz
           E == [b \in 0..N |-> IF b \in BinsOf(band) THEN 2^spectrum[b] ELSE 0]
           Solves(f) == f = [b \in 0..N |->
                               IF b = 0 THEN 0
                               ELSE f[b - 1] + (IF b \in BinsOf(band) THEN 2^spectrum[b] ELSE 0)]
           SolvesE(f) == f = [b \in 0..N |-> IF b = 0 THEN 0 ELSE f[b - 1] + E[b]]
<1>1. N \in Nat
  BY MeasuresAssumption
<1>2. E \in [0..N -> Int]
  <2>1. \A b \in BinsOf(band) : 2^spectrum[b] \in Int
    <3> SUFFICES ASSUME NEW b \in BinsOf(band) PROVE 2^spectrum[b] \in Int
      OBVIOUS
    <3>1. b \in Bins
      BY DEF BinsOf
    <3>2. spectrum[b] \in Nat
      BY <3>1
    <3> QED
      BY <3>2
  <2> QED
    BY <2>1
<1>3. \A f : Solves(f) <=> SolvesE(f)
  <2>1. \A b \in 0..N : E[b] = IF b \in BinsOf(band) THEN 2^spectrum[b] ELSE 0
    OBVIOUS
  <2>2. \A f : [b \in 0..N |-> IF b = 0 THEN 0
                               ELSE f[b - 1] + (IF b \in BinsOf(band) THEN 2^spectrum[b] ELSE 0)]
               = [b \in 0..N |-> IF b = 0 THEN 0 ELSE f[b - 1] + E[b]]
    <3> HIDE DEF E
    <3> QED
      BY <2>1
  <2> QED
    BY <2>2
<1>4. \E f : Solves(f)
  <2> HIDE DEF E, N
  <2>1. \E f : SolvesE(f)
    BY <1>1, <1>2, RunningSum
  <2> HIDE DEF Solves, SolvesE
  <2> QED
    BY <1>3, <2>1
<1> DEFINE Sum == CHOOSE f : Solves(f)
<1>5. Energy(spectrum, band) = Sum[N]
  BY DEF Energy
<1>6. SolvesE(Sum)
  <2> HIDE DEF Solves, SolvesE
  <2> QED
    BY <1>3, <1>4
<1>7. BinsOf(band) = {} => \A b \in 0..N : E[b] = 0
  OBVIOUS
<1> HIDE DEF N, E, Sum
<1>8. Sum = [b \in 0..N |-> IF b = 0 THEN 0 ELSE Sum[b - 1] + E[b]]
  BY <1>6
<1>9. Sum[N] \in Int /\ ((\A b \in 0..N : E[b] = 0) => Sum[N] = 0)
  BY <1>1, <1>2, <1>8, SumIsInt
<1> QED
  BY <1>5, <1>7, <1>9

(* _quantize grows with the energy.                                        *)
LEMMA QuantiseGrows ==
  /\ \A a, b \in Int : a <= b => Quantise(a) <= Quantise(b)
  /\ Quantise(0) = 0
<1> DEFINE Steps(e) == {k \in 1..QMax : e > 0 /\ 2^(2 * k - 1) <= e * e}
<1>1. QMax \in Nat \ {0}
  BY MeasuresAssumption
<1>2. IsFiniteSet(1..QMax)
  <2>1. 1 \in Int /\ QMax \in Int
    BY <1>1
  <2> QED
    BY <2>1, FS_Interval
<1>3. \A e : IsFiniteSet(Steps(e))
  <2>1. \A e : Steps(e) \in SUBSET (1..QMax)
    OBVIOUS
  <2> QED
    BY <1>2, <2>1, FS_Subset
<1>4. \A e : Quantise(e) = Cardinality(Steps(e))
  BY DEF Quantise
<1>5. ASSUME NEW a \in Int, NEW b \in Int, a <= b
      PROVE  Quantise(a) <= Quantise(b)
  <2>1. a > 0 => a * a <= b * b
    <3> SUFFICES ASSUME a > 0 PROVE a * a <= b * b
      OBVIOUS
    <3>1. a \in Nat /\ b \in Nat
      BY <1>5
    <3>2. a * a <= b * a /\ a * b <= b * b
      BY <1>5, <3>1, ProductIsMonotonic
    <3>3. b * a = a * b /\ a * a \in Int /\ a * b \in Int /\ b * b \in Int
      BY <3>1
    <3> QED
      BY <3>2, <3>3
  <2>2. \A k \in 1..QMax : 2^(2 * k - 1) \in Int
    BY <1>1
  <2>3. \A k \in 1..QMax : a > 0 /\ 2^(2 * k - 1) <= a * a => b > 0 /\ 2^(2 * k - 1) <= b * b
    <3> SUFFICES ASSUME NEW k \in 1..QMax, a > 0, 2^(2 * k - 1) <= a * a
                 PROVE  b > 0 /\ 2^(2 * k - 1) <= b * b
      OBVIOUS
    <3> DEFINE p == 2^(2 * k - 1)
    <3>1. p \in Int /\ p <= a * a /\ a * a \in Int /\ b * b \in Int /\ a * a <= b * b
      BY <1>5, <2>1, <2>2
    <3> HIDE DEF p
    <3>2. p <= b * b
      BY <3>1
    <3> QED
      BY <1>5, <3>2 DEF p
  <2>4. Steps(a) \subseteq Steps(b)
    BY <2>3
  <2> HIDE DEF Steps
  <2> QED
    BY <1>3, <1>4, <2>4, FS_Subset
<1>6. Steps(0) = {}
  OBVIOUS
<1>7. Quantise(0) = 0
  BY <1>4, <1>6, FS_EmptySet
<1> QED
  BY <1>5, <1>7

-----------------------------------------------------------------------------
(* The rows of the spectrum. A table of powers has, for every channel and  *)
(* band, those of some frames.                                             *)
PowerTables == [Channels -> [Bands -> SUBSET Int]]

(* acc is what _aminmax has kept of the powers: the largest of each band   *)
(* that has bins.                                                          *)
Peaks(acc, powers) ==
  IF acc = <<>>
  THEN \A ch \in Channels, band \in Bands : powers[ch][band] = {}
  ELSE \A ch \in Channels, band \in Bands :
         IF BinsOf(band) = {} THEN acc[ch][band] = <<>>
         ELSE \E e \in powers[ch][band] :
                /\ acc[ch][band] = <<e>>
                /\ \A d \in powers[ch][band] : d <= e

Joined(powers, frame) ==
  [ch \in Channels |-> [band \in Bands |->
     powers[ch][band] \cup {Energy(frame[ch], band)}]]

LEMMA FramePower ==
  ASSUME NEW frame \in Frames, NEW ch \in Channels, NEW band
  PROVE  /\ Energy(frame[ch], band) \in Int
         /\ BinsOf(band) = {} => Energy(frame[ch], band) = 0
<1>1. frame[ch] \in [Bins -> Nat]
  BY MeasuresAssumption
<1> QED
  BY <1>1, EnergyFacts

LEMMA PeaksKept ==
  ASSUME NEW powers \in PowerTables, NEW acc, Peaks(acc, powers), NEW frame \in Frames
  PROVE  LET high == Accumulated(acc, frame, TRUE) IN
         /\ high # <<>>
         /\ Peaks(high, Joined(powers, frame))
<1> DEFINE high == Accumulated(acc, frame, TRUE)
           both(ch, band) == IF acc = <<>> THEN {Energy(frame[ch], band)}
                             ELSE {acc[ch][band][1], Energy(frame[ch], band)}
<1>1. high = [ch \in Channels |-> [band \in Bands |->
               IF BinsOf(band) = {} THEN <<>> ELSE <<Max(both(ch, band))>>]]
  BY DEF Accumulated
<1>2. high # <<>>
  <2>1. DOMAIN high = Channels /\ Channels # {}
    BY <1>1 DEF Channels
  <2> HIDE DEF high
  <2>2. DOMAIN <<>> = {}
    OBVIOUS
  <2> QED
    BY <2>1, <2>2
<1>3. ASSUME NEW ch \in Channels, NEW band \in Bands
      PROVE  IF BinsOf(band) = {} THEN high[ch][band] = <<>>
             ELSE \E e \in Joined(powers, frame)[ch][band] :
                    /\ high[ch][band] = <<e>>
                    /\ \A d \in Joined(powers, frame)[ch][band] : d <= e
  <2> DEFINE e0 == Energy(frame[ch], band)
             W == powers[ch][band]
             W2 == Joined(powers, frame)[ch][band]
  <2>1. e0 \in Int
    BY FramePower
  <2>2. W \in SUBSET Int /\ W2 = W \cup {e0}
    BY DEF PowerTables, Joined
  <2>3. high[ch][band] = IF BinsOf(band) = {} THEN <<>> ELSE <<Max(both(ch, band))>>
    <3> HIDE DEF high, both
    <3> QED
      BY <1>1
  <2>4. ASSUME BinsOf(band) # {}
        PROVE  \E e \in W2 : Max(both(ch, band)) = e /\ \A d \in W2 : d <= e
    <3>1. CASE acc = <<>>
      <4>1. W = {} /\ both(ch, band) = {e0}
        BY <3>1 DEF Peaks
      <4>2. Max({e0}) = e0
        <5>1. \E x \in {e0} : \A y \in {e0} : x >= y
          BY <2>1
        <5> QED
          BY <2>1, <5>1 DEF Max
      <4> HIDE DEF e0, W, W2, both
      <4> QED
        BY <2>1, <2>2, <4>1, <4>2
    <3>2. CASE acc # <<>>
      <4>1. PICK m \in W : acc[ch][band] = <<m>> /\ \A d \in W : d <= m
        BY <2>4, <3>2 DEF Peaks
      <4>2. both(ch, band) = {m, e0} /\ m \in Int
        BY <2>2, <3>2, <4>1
      <4> HIDE DEF e0, W, W2, both
      <4>3. Max({m, e0}) = IF m >= e0 THEN m ELSE e0
        <5>1. \E x \in {m, e0} : \A y \in {m, e0} : x >= y
          BY <2>1, <4>2
        <5> QED
          BY <2>1, <4>2, <5>1 DEF Max
      <4> QED
        BY <2>1, <2>2, <4>1, <4>2, <4>3
    <3> QED
      BY <3>1, <3>2
  <2> HIDE DEF high, both
  <2> QED
    BY <2>3, <2>4
<1> HIDE DEF high
<1>4. Peaks(high, Joined(powers, frame))
  BY <1>2, <1>3 DEF Peaks
<1> QED
  BY <1>2, <1>4 DEF high

(* The maxima of a row are those of its frames.                            *)
RowOf(maxima, powers) ==
  \A ch \in Channels, band \in Bands :
    /\ \E e \in powers[ch][band] : maxima[ch][band] = Quantise(e)
    /\ \A e \in powers[ch][band] : Quantise(e) <= maxima[ch][band]

LEMMA QuantisedPeaks ==
  ASSUME NEW powers \in PowerTables, NEW acc, acc # <<>>, Peaks(acc, powers),
         \A ch \in Channels, band \in Bands :
           /\ powers[ch][band] # {}
           /\ BinsOf(band) = {} => powers[ch][band] \subseteq {0}
  PROVE  RowOf(Quantised(acc), powers)
<1> SUFFICES ASSUME NEW ch \in Channels, NEW band \in Bands
             PROVE  /\ \E e \in powers[ch][band] : Quantised(acc)[ch][band] = Quantise(e)
                    /\ \A e \in powers[ch][band] : Quantise(e) <= Quantised(acc)[ch][band]
  BY DEF RowOf
<1>1. Quantised(acc)[ch][band]
        = IF acc[ch][band] = <<>> THEN 0 ELSE Quantise(acc[ch][band][1])
  BY DEF Quantised
<1>2. powers[ch][band] \in SUBSET Int
  BY DEF PowerTables
<1>3. CASE BinsOf(band) = {}
  <2>1. Quantised(acc)[ch][band] = 0
    BY <1>1, <1>3 DEF Peaks
  <2>2. powers[ch][band] = {0}
    BY <1>3
  <2> QED
    BY <2>1, <2>2, QuantiseGrows
<1>4. CASE BinsOf(band) # {}
  <2>1. PICK m \in powers[ch][band] :
          acc[ch][band] = <<m>> /\ \A d \in powers[ch][band] : d <= m
    BY <1>4 DEF Peaks
  <2>2. <<m>> # <<>> /\ <<m>>[1] = m
    OBVIOUS
  <2>3. Quantised(acc)[ch][band] = Quantise(m)
    BY <1>1, <2>1, <2>2
  <2> QED
    BY <1>2, <2>1, <2>3, QuantiseGrows
<1> QED
  BY <1>3, <1>4

(* The frames of a row, and the powers of some frames                      *)
Members(frames, r) == {i \in 1..Len(frames) : frames[i].row = r}

Powers(frames, S) ==
  [ch \in Channels |-> [band \in Bands |->
     {Energy(frames[i].frame[ch], band) : i \in S}]]

(* What the aggregator keeps is what the open window has heard, and what   *)
(* it has stored is what the closed ones have.                             *)
WindowInv ==
  /\ \A i \in 1..Len(heard) : heard[i].row \in 1..(Len(rows) + 1)
  /\ Peaks(highest, Powers(heard, Members(heard, Len(rows) + 1)))
  /\ \A r \in 1..Len(rows) : RowOf(rows[r].max, Powers(heard, Members(heard, r)))


LEMMA PowersType ==
  ASSUME NEW hs \in Seq(HeardType), NEW S \in SUBSET (1..Len(hs))
  PROVE  /\ Powers(hs, S) \in PowerTables
         /\ \A ch \in Channels, band \in Bands :
              BinsOf(band) = {} => Powers(hs, S)[ch][band] \subseteq {0}
<1>1. \A i \in S : hs[i].frame \in Frames
  <2>1. \A i \in S : hs[i] \in HeardType
    OBVIOUS
  <2> QED
    BY <2>1 DEF HeardType
<1>2. \A i \in S, ch \in Channels, band \in Bands :
        /\ Energy(hs[i].frame[ch], band) \in Int
        /\ BinsOf(band) = {} => Energy(hs[i].frame[ch], band) = 0
  BY <1>1, FramePower
<1> QED
  BY <1>2 DEF Powers, PowerTables

LEMMA WindowStep ==
  ASSUME FrameTypeOK, WindowInv, NEW frame \in Frames, NEW delay \in Delays,
         Frame(frame, delay)
  PROVE  WindowInv'
<1> DEFINE T == Len(heard)
           R == Len(rows) + 1
           new == [at |-> now', frame |-> frame, row |-> R]
           W == Powers(heard, Members(heard, R))
           high == Accumulated(highest, frame, TRUE)
<1>1. new \in HeardType /\ heard' = Append(heard, new) /\ new.frame = frame /\ new.row = R
  <2>1. Len(rows) \in Nat /\ now' \in Nat
    BY MeasuresAssumption DEF FrameTypeOK, Frame
  <2> QED
    BY <2>1 DEF Frame, HeardType
<1>2. heard \in Seq(HeardType) /\ rows \in Seq(RowType) /\ T \in Nat /\ R \in Nat \ {0}
  BY DEF FrameTypeOK
<1>3. \A i \in 1..T : heard[i].row \in 1..R
  BY DEF WindowInv
<1> HIDE DEF new
<1>4. /\ heard' \in Seq(HeardType) /\ Len(heard') = T + 1
      /\ \A i \in 1..T : heard'[i] = heard[i]
      /\ heard'[T + 1] = new
  BY <1>1, <1>2, AppendFacts
<1> HIDE DEF T, R
<1>5. \A i \in 1..(T + 1) : i = T + 1 \/ i \in 1..T
  BY <1>2
<1>6. /\ Members(heard', R) = Members(heard, R) \cup {T + 1}
      /\ Members(heard', R + 1) = {}
      /\ \A r \in 1..(R - 1) : Members(heard', r) = Members(heard, r)
  <2>1. \A r : Members(heard', r) = {i \in 1..(T + 1) : heard'[i].row = r}
    BY <1>4 DEF Members
  <2>2. \A r : Members(heard, r) = {i \in 1..T : heard[i].row = r}
    BY DEF Members, T
  <2>3. \A i \in 1..T : heard'[i].row = heard[i].row /\ heard[i].row \in 1..R
    BY <1>3, <1>4
  <2>4. heard'[T + 1].row = R
    BY <1>1, <1>4
  <2>5. \A i \in 1..T : i \in 1..(T + 1)
    BY <1>2
  <2>6. T + 1 \in 1..(T + 1) /\ T + 1 \notin 1..T
    BY <1>2
  <2>7. R # R + 1 /\ (\A r \in 1..(R - 1) : r # R) /\ R + 1 \notin 1..R
    BY <1>2
  <2>8. Members(heard', R) = Members(heard, R) \cup {T + 1}
    BY <1>5, <2>1, <2>2, <2>3, <2>4, <2>5, <2>6
  <2>9. Members(heard', R + 1) = {}
    BY <1>5, <2>1, <2>3, <2>4, <2>7
  <2>10. \A r \in 1..(R - 1) : Members(heard', r) = Members(heard, r)
    <3> SUFFICES ASSUME NEW r \in 1..(R - 1)
                 PROVE  Members(heard', r) = Members(heard, r)
      OBVIOUS
    <3>1. heard'[T + 1].row # r
      BY <2>4, <2>7
    <3>2. \A i \in 1..(T + 1) : heard'[i].row = r => i \in 1..T /\ heard[i].row = r
      BY <1>5, <2>3, <3>1
    <3>3. \A i \in 1..T : heard[i].row = r => i \in 1..(T + 1) /\ heard'[i].row = r
      BY <2>3, <2>5
    <3> QED
      BY <2>1, <2>2, <3>2, <3>3
  <2> QED
    BY <2>8, <2>9, <2>10
<1>7. \A r : Members(heard, r) \in SUBSET (1..T)
  BY DEF Members, T
<1>8. \A r \in 1..(R - 1) :
        Powers(heard', Members(heard', r)) = Powers(heard, Members(heard, r))
  BY <1>4, <1>6, <1>7 DEF Powers
<1>9. Powers(heard', Members(heard', R)) = Joined(W, frame)
  <2>1. \A i \in Members(heard, R) : heard'[i] = heard[i]
    BY <1>4, <1>7
  <2>2. heard'[T + 1].frame = frame
    BY <1>1, <1>4
  <2>3. \A ch, band : {Energy(heard'[i].frame[ch], band) : i \in Members(heard, R) \cup {T + 1}}
          = {Energy(heard[i].frame[ch], band) : i \in Members(heard, R)}
              \cup {Energy(frame[ch], band)}
    BY <2>1, <2>2
  <2> QED
    BY <1>6, <2>3 DEF Powers, Joined
<1>10. Powers(heard', Members(heard', R + 1))
         = [ch \in Channels |-> [band \in Bands |-> {}]]
  BY <1>6 DEF Powers
<1>11. W \in PowerTables /\ Peaks(highest, W)
  <2>1. W \in PowerTables
    BY <1>2, <1>7, PowersType DEF T
  <2> QED
    BY <2>1 DEF WindowInv, R
<1>12. Joined(W, frame) \in PowerTables
       /\ \A ch \in Channels, band \in Bands :
            /\ Joined(W, frame)[ch][band] # {}
            /\ BinsOf(band) = {} => Joined(W, frame)[ch][band] \subseteq {0}
  <2>1. Members(heard', R) \in SUBSET (1..Len(heard'))
    BY DEF Members
  <2>2. /\ Powers(heard', Members(heard', R)) \in PowerTables
        /\ \A ch \in Channels, band \in Bands :
             BinsOf(band) = {} => Powers(heard', Members(heard', R))[ch][band] \subseteq {0}
    BY <1>4, <2>1, PowersType
  <2>3. \A ch \in Channels, band \in Bands : Joined(W, frame)[ch][band] # {}
    BY DEF Joined
  <2> QED
    BY <1>9, <2>2, <2>3
<1> HIDE DEF W, high
<1>13. high # <<>> /\ Peaks(high, Joined(W, frame))
  BY <1>11, PeaksKept DEF high
<1>14. \A i \in 1..(T + 1) : heard'[i].row \in 1..R
  BY <1>1, <1>2, <1>3, <1>4, <1>5
<1>15. \A r \in 1..(R - 1) : RowOf(rows[r].max, Powers(heard', Members(heard', r)))
  <2>1. R - 1 = Len(rows)
    BY <1>2 DEF R
  <2> QED
    BY <1>8, <2>1 DEF WindowInv
<1> DEFINE start == IF tick_count = 0 THEN now' ELSE win_t0
<1>16. IF now' - start < Interval
       THEN highest' = high /\ rows' = rows
       ELSE /\ highest' = <<>>
            /\ rows' = Append(rows, [t0 |-> start, dur |-> now' - start,
                                     min |-> Quantised(Accumulated(lowest, frame, FALSE)),
                                     max |-> Quantised(high)])
  BY DEF Frame, UpdateWindow, high
<1>17. CASE now' - start < Interval
  <2>1. highest' = high /\ rows' = rows /\ Len(rows') + 1 = R /\ Len(rows') = R - 1
    BY <1>2, <1>16, <1>17 DEF R
  <2> QED
    BY <1>4, <1>9, <1>13, <1>14, <1>15, <2>1 DEF WindowInv
<1>18. CASE ~(now' - start < Interval)
  <2> DEFINE row == [t0 |-> start, dur |-> now' - start,
                     min |-> Quantised(Accumulated(lowest, frame, FALSE)),
                     max |-> Quantised(high)]
  <2>1. highest' = <<>> /\ rows' = Append(rows, row) /\ row.max = Quantised(high)
    BY <1>16, <1>18
  <2> HIDE DEF row
  <2>2. /\ Len(rows') = R /\ rows'[R] = row
        /\ \A r \in 1..(R - 1) : rows'[r] = rows[r]
    BY <1>2, <2>1 DEF R
  <2>3. RowOf(rows'[R].max, Powers(heard', Members(heard', R)))
    <3>1. RowOf(Quantised(high), Joined(W, frame))
      BY <1>12, <1>13, QuantisedPeaks
    <3> QED
      BY <1>9, <2>1, <2>2, <3>1
  <2>4. \A r \in 1..R : RowOf(rows'[r].max, Powers(heard', Members(heard', r)))
    <3>1. \A r \in 1..R : r = R \/ r \in 1..(R - 1)
      BY <1>2
    <3> QED
      BY <1>15, <2>2, <2>3, <3>1
  <2>5. Peaks(highest', Powers(heard', Members(heard', R + 1)))
    BY <1>10, <2>1 DEF Peaks
  <2>6. \A i \in 1..(T + 1) : heard'[i].row \in 1..(R + 1)
    BY <1>2, <1>14
  <2> QED
    BY <1>4, <2>2, <2>4, <2>5, <2>6 DEF WindowInv
<1> QED
  BY <1>17, <1>18


-----------------------------------------------------------------------------
(* The image of the spectrum.                                              *)

(* round is off by half at most.                                           *)
LEMMA RoundedIsNear ==
  ASSUME NEW n \in Int, NEW d \in Nat \ {0}
  PROVE  /\ Rounded(n, d) \in Int
         /\ 2 * (Rounded(n, d) * d) <= 2 * n + d
         /\ 2 * n <= 2 * (Rounded(n, d) * d) + d
<1> DEFINE q == n \div d
           r == n % d
<1>1. q \in Int /\ r \in 0..(d - 1) /\ n = d * q + r
  OBVIOUS
<1>2. Rounded(n, d) = IF 2 * r > d \/ (2 * r = d /\ q % 2 = 1) THEN q + 1 ELSE q
  BY DEF Rounded
<1> HIDE DEF q, r
<1>3. q * d = d * q /\ (q + 1) * d = d * q + d /\ d * q \in Int
  BY <1>1
<1>4. CASE 2 * r > d \/ (2 * r = d /\ q % 2 = 1)
  <2>1. Rounded(n, d) = q + 1 /\ 2 * r >= d
    BY <1>1, <1>2, <1>4
  <2> QED
    BY <1>1, <1>3, <2>1
<1>5. CASE ~(2 * r > d \/ (2 * r = d /\ q % 2 = 1)) /\ q % 2 = 0
  <2>1. Rounded(n, d) = q /\ 2 * r <= d
    BY <1>1, <1>2, <1>5
  <2> QED
    BY <1>1, <1>3, <2>1
<1>6. CASE ~(2 * r > d \/ (2 * r = d /\ q % 2 = 1)) /\ q % 2 = 1
  <2>1. Rounded(n, d) = q /\ 2 * r <= d
    BY <1>1, <1>2, <1>6
  <2> QED
    BY <1>1, <1>3, <2>1
<1> QED
  BY <1>1, <1>4, <1>5, <1>6

AllViews ==
  {v \in [since : Int, until : Int, width : Nat \ {0}, channels : SUBSET Channels,
           f_lo : Int, f_hi : Int] :
     v.since < v.until}

LEMMA SpanFacts ==
  ASSUME NEW view \in AllViews
  PROVE  /\ view.since \in Int /\ view.until \in Int /\ view.width \in Nat \ {0}
         /\ view.channels \in SUBSET Channels
         /\ view.until - view.since \in Nat \ {0}
         /\ Max({1, view.until - view.since}) = view.until - view.since
<1>1. /\ view.since \in Int /\ view.until \in Int /\ view.width \in Nat \ {0}
      /\ view.channels \in SUBSET Channels /\ view.since < view.until
  BY DEF AllViews
<1> DEFINE d == view.until - view.since
<1>2. d \in Nat \ {0}
  BY <1>1
<1> HIDE DEF d
<1>3. Max({1, d}) = d
  <2>1. \E x \in {1, d} : \A y \in {1, d} : x >= y
    BY <1>2
  <2> QED
    BY <1>2, <2>1 DEF Max
<1> QED
  BY <1>1, <1>2, <1>3 DEF d

(* The bands of a zoom: all of those inside it, perhaps others.            *)
LEMMA KeptFacts ==
  ASSUME NEW view \in AllViews
  PROVE  /\ Kept(view) \subseteq Bands
         /\ \A band \in Bands : Inside(view, band) => band \in Kept(view)
<1> DEFINE low  == MinHz * NBands
           high == MaxHz * NBands
           f0   == Max({low, view.f_lo})
           f1   == Min({high, view.f_hi})
           S0   == {i \in 0..NBands : Edge(i) < f0}
           S1   == {i \in 0..NBands : Edge(i) <= f1}
           b0   == Clamp(0, Cardinality(S0), NBands - 1)
           b1   == Clamp(1, Cardinality(S1), NBands)
<1>1. /\ NBands \in Nat \ {0} /\ MinHz \in Nat /\ MaxHz \in Nat /\ MinHz < MaxHz
      /\ view.f_lo \in Int /\ view.f_hi \in Int
  BY MeasuresAssumption DEF AllViews
<1>2. low \in Int /\ high \in Int
  BY <1>1
<1>3. Kept(view) = (b0 + 1)..b1
  BY DEF Kept
<1> HIDE DEF low, high
<1>4. f0 \in {low, view.f_lo} /\ f0 \in Int
  <2>1. \E x \in {low, view.f_lo} : \A y \in {low, view.f_lo} : x >= y
    BY <1>1, <1>2
  <2> QED
    BY <1>1, <1>2, <2>1 DEF Max
<1>5. f1 \in {high, view.f_hi} /\ f1 \in Int
  <2>1. \E x \in {high, view.f_hi} : \A y \in {high, view.f_hi} : x <= y
    BY <1>1, <1>2
  <2> QED
    BY <1>1, <1>2, <2>1 DEF Min
<1> HIDE DEF f0, f1
<1>6. /\ \A i \in 0..NBands : Edge(i) \in Int
      /\ \A i, j \in 0..NBands : i <= j => Edge(i) <= Edge(j)
      /\ Edge(0) = low /\ Edge(NBands) = high
  <2>1. \A i \in 0..NBands : (MaxHz - MinHz) * i \in Int
    BY <1>1
  <2>2. \A i, j \in 0..NBands : i <= j => (MaxHz - MinHz) * i <= (MaxHz - MinHz) * j
    <3>1. MaxHz - MinHz \in Nat
      BY <1>1
    <3>2. \A i, j \in 0..NBands :
            i <= j => i * (MaxHz - MinHz) <= j * (MaxHz - MinHz)
      BY <1>1, <3>1, ProductIsMonotonic
    <3>3. \A i \in 0..NBands : i * (MaxHz - MinHz) = (MaxHz - MinHz) * i
      BY <1>1, <3>1
    <3> QED
      BY <3>2, <3>3
  <2>3. (MaxHz - MinHz) * 0 = 0 /\ (MaxHz - MinHz) * NBands = high - low
    BY <1>1 DEF low, high
  <2>4. MinHz * NBands = low
    BY DEF low
  <2> QED
    BY <1>1, <1>2, <2>1, <2>2, <2>3, <2>4 DEF Edge
<1>7. /\ IsFiniteSet(0..NBands) /\ S0 \in SUBSET (0..NBands) /\ S1 \in SUBSET (0..NBands)
      /\ Cardinality(S0) \in Nat /\ Cardinality(S1) \in Nat
      /\ IsFiniteSet(S0) /\ IsFiniteSet(S1)
  <2>1. IsFiniteSet(0..NBands)
    BY <1>1, FS_Interval
  <2>2. S0 \in SUBSET (0..NBands) /\ S1 \in SUBSET (0..NBands)
    OBVIOUS
  <2> HIDE DEF S0, S1
  <2> QED
    BY <2>1, <2>2, FS_Subset, FS_CardinalityType
<1>8. b0 \in 0..(NBands - 1) /\ b1 \in 1..NBands
  <2> HIDE DEF S0, S1
  <2> QED
    BY <1>1, <1>7 DEF Clamp
<1>9. ASSUME NEW band \in Bands, Inside(view, band)
      PROVE  b0 <= band - 1 /\ band <= b1
  <2>1. /\ band \in 1..NBands /\ band - 1 \in 0..NBands /\ band \in 0..NBands
        /\ view.f_lo <= Edge(band - 1) /\ Edge(band) <= view.f_hi
    BY <1>1, <1>9 DEF Bands, Inside
  <2>2. f0 <= Edge(band - 1) /\ Edge(band) <= f1
    <3>1. Edge(0) <= Edge(band - 1) /\ Edge(band) <= Edge(NBands)
      BY <1>1, <1>6, <2>1
    <3> QED
      BY <1>4, <1>5, <1>6, <2>1, <3>1
  <2>3. Cardinality(S0) <= band - 1
    <3>1. \A i \in S0 : i \in 0..(band - 2)
      <4> SUFFICES ASSUME NEW i \in S0, ~ (i <= band - 2) PROVE FALSE
        BY <2>1
      <4>1. i \in 0..NBands /\ Edge(i) < f0
        OBVIOUS
      <4>2. band - 1 <= i
        BY <2>1, <4>1
      <4>3. Edge(band - 1) <= Edge(i)
        BY <1>6, <2>1, <4>1, <4>2
      <4> QED
        BY <1>4, <1>6, <2>1, <2>2, <4>1, <4>3
    <3> HIDE DEF S0
    <3>2. band - 2 \in Int /\ 0 \in Int
      BY <2>1
    <3>3. /\ IsFiniteSet(0..(band - 2))
          /\ Cardinality(0..(band - 2)) = IF 0 > band - 2 THEN 0 ELSE band - 2 - 0 + 1
      BY <3>2, FS_Interval
    <3>4. Cardinality(S0) <= Cardinality(0..(band - 2))
      BY <3>1, <3>3, FS_Subset
    <3> QED
      BY <2>1, <3>3, <3>4
  <2>4. band + 1 <= Cardinality(S1)
    <3>1. \A i \in 0..band : i \in S1
      <4> SUFFICES ASSUME NEW i \in 0..band PROVE i \in 0..NBands /\ Edge(i) <= f1
        OBVIOUS
      <4>1. i \in 0..NBands /\ i <= band
        BY <1>1, <2>1
      <4> QED
        BY <1>5, <1>6, <2>1, <2>2, <4>1
    <3> HIDE DEF S1
    <3>2. band \in Int /\ 0 \in Int
      BY <2>1
    <3>3. Cardinality(0..band) = band + 1
      BY <2>1, <3>2, FS_Interval
    <3>4. Cardinality(0..band) <= Cardinality(S1)
      BY <1>7, <3>1, FS_Subset
    <3> QED
      BY <3>3, <3>4
  <2> HIDE DEF S0, S1
  <2> QED
    BY <1>1, <1>7, <2>1, <2>3, <2>4 DEF Clamp
<1> HIDE DEF b0, b1
<1> QED
  BY <1>1, <1>3, <1>8, <1>9 DEF Bands

(* The columns of a row.                                                   *)
LEMMA ColumnFacts ==
  ASSUME NEW view \in AllViews, NEW row \in RowType
  PROVE  LET span == view.until - view.since
             first == X0(view, row)
             last == X1(view, row)
         IN
         /\ Start(view, row) \in Int /\ End(view, row) \in Int
         /\ Start(view, row) <= End(view, row)
         /\ first \in 0..(view.width - 1) /\ last \in (first + 1)..view.width
         /\ 2 * Start(view, row) <= (2 * first + 1) * span \/ first = view.width - 1
         /\ 0 <= Start(view, row) => 2 * (first * span) <= 2 * Start(view, row) + span
         /\ \A x \in Int : first <= x /\ x < last /\ 0 <= Start(view, row) =>
              2 * End(view, row) >= (2 * x - 1) * span
<1> DEFINE s == view.until - view.since
           w == view.width
           n0 == Start(view, row)
           n1 == End(view, row)
           r0 == Rounded(n0, s)
           r1 == Rounded(n1, s)
           first == X0(view, row)
           last == X1(view, row)
<1>1. row.t0 \in Nat /\ row.dur \in Nat
  BY DEF RowType
<1>2. /\ s \in Nat \ {0} /\ w \in Nat \ {0} /\ Max({1, s}) = s
      /\ view.since \in Int
  BY SpanFacts
<1>3. n0 \in Int /\ n1 \in Int /\ n0 <= n1
  <2> DEFINE a == row.t0 - view.since
             p == row.dur * w
  <2>1. a \in Int /\ a * w \in Int /\ p \in Nat
    BY <1>1, <1>2
  <2>2. n0 = a * w /\ n1 = n0 + p
    BY DEF Start, End
  <2> HIDE DEF a, p, n0, n1
  <2> QED
    BY <2>1, <2>2
<1>4. (row.t0 + row.dur - view.since) * w = n1
  BY <1>1, <1>2 DEF Start, End
<1>5. first = Clamp(0, r0, w - 1) /\ last = Clamp(first + 1, r1, w)
  BY <1>2, <1>4 DEF X0, X1, Start
<1> HIDE DEF s, w, n0, n1
<1>6. /\ r0 \in Int /\ 2 * (r0 * s) <= 2 * n0 + s /\ 2 * n0 <= 2 * (r0 * s) + s
      /\ r1 \in Int /\ 2 * (r1 * s) <= 2 * n1 + s /\ 2 * n1 <= 2 * (r1 * s) + s
  BY <1>2, <1>3, RoundedIsNear
<1> HIDE DEF r0, r1, first, last
<1>7. /\ first = IF r0 < 0 THEN 0 ELSE IF r0 > w - 1 THEN w - 1 ELSE r0
      /\ last = IF r1 < first + 1 THEN first + 1 ELSE IF r1 > w THEN w ELSE r1
  BY <1>5 DEF Clamp
<1>8. first \in 0..(w - 1) /\ last \in (first + 1)..w
  BY <1>2, <1>6, <1>7
<1>9. \A x, y \in Int : x <= y => x * s <= y * s
  BY <1>2
<1>10. 2 * n0 <= (2 * first + 1) * s \/ first = w - 1
  <2> SUFFICES ASSUME first # w - 1 PROVE 2 * n0 <= (2 * first + 1) * s
    OBVIOUS
  <2>1. r0 <= first
    BY <1>2, <1>6, <1>7
  <2>2. r0 * s <= first * s
    BY <1>6, <1>8, <1>9, <2>1
  <2>3. (2 * first + 1) * s = 2 * (first * s) + s /\ first * s \in Int /\ r0 * s \in Int
    BY <1>2, <1>6, <1>8
  <2> QED
    BY <1>2, <1>3, <1>6, <2>2, <2>3
<1>11. 0 <= n0 => r0 >= 0
  <2> SUFFICES ASSUME 0 <= n0, r0 <= -1 PROVE FALSE
    BY <1>6
  <2>1. r0 * s <= (-1) * s
    BY <1>6, <1>9
  <2> QED
    BY <1>2, <1>3, <1>6, <2>1
<1>12. 0 <= n0 => 2 * (first * s) <= 2 * n0 + s
  <2> SUFFICES ASSUME 0 <= n0 PROVE 2 * (first * s) <= 2 * n0 + s
    OBVIOUS
  <2>1. first <= r0
    BY <1>2, <1>6, <1>7, <1>11
  <2>2. first * s <= r0 * s
    BY <1>6, <1>8, <1>9, <2>1
  <2>3. first * s \in Int /\ r0 * s \in Int
    BY <1>2, <1>6, <1>8
  <2> QED
    BY <1>2, <1>3, <1>6, <2>2, <2>3
<1>13. ASSUME NEW x \in Int, first <= x, x < last, 0 <= n0
       PROVE  2 * n1 >= (2 * x - 1) * s
  <2>1. (2 * x - 1) * s = 2 * (x * s) - s /\ x * s \in Int
    BY <1>2
  <2>2. CASE x = first
    BY <1>2, <1>3, <1>12, <1>13, <2>1, <2>2
  <2>3. CASE x # first
    <3>1. x + 1 <= r1
      BY <1>2, <1>6, <1>7, <1>8, <1>13, <2>3
    <3>2. (x + 1) * s <= r1 * s
      BY <1>6, <1>9, <3>1
    <3>3. (x + 1) * s = x * s + s /\ r1 * s \in Int
      BY <1>2, <1>6
    <3> QED
      BY <1>2, <1>3, <1>6, <2>1, <3>2, <3>3
  <2> QED
    BY <2>2, <2>3
<1> QED
  BY <1>3, <1>8, <1>10, <1>12, <1>13 DEF s, w, n0, n1, first, last


LEMMA CrestFacts ==
  ASSUME NEW row \in RowType, NEW channels \in SUBSET Channels, NEW band \in Bands
  PROVE  /\ Crest(row, channels, band) \in Nat
         /\ \A ch \in channels : row.max[ch][band] <= Crest(row, channels, band)
         /\ Crest(row, channels, band) > 0 =>
              \E ch \in channels : row.max[ch][band] = Crest(row, channels, band)
<1> DEFINE S == {0} \cup {row.max[ch][band] : ch \in channels}
           n == row.max[1][band] + row.max[2][band]
<1>1. \A ch \in Channels : row.max[ch][band] \in Nat
  BY DEF RowType
<1>2. S \in SUBSET Nat /\ S # {} /\ n \in Nat /\ \A m \in S : m <= n
  <2>1. row.max[1][band] \in Nat /\ row.max[2][band] \in Nat
    BY <1>1 DEF Channels
  <2>2. \A ch \in channels : row.max[ch][band] \in Nat /\ row.max[ch][band] <= n
    BY <1>1, <2>1 DEF Channels
  <2> QED
    BY <2>1, <2>2
<1>3. IsFiniteSet(S)
  <2> HIDE DEF S, n
  <2> QED
    BY <1>2, FS_BoundedSetOfNaturals
<1>4. Crest(row, channels, band) = Max(S)
  BY DEF Crest
<1>5. Max(S) \in S /\ \A m \in S : m <= Max(S)
  <2> HIDE DEF S
  <2> QED
    BY <1>2, <1>3, MaxFacts
<1> DEFINE c == Crest(row, channels, band)
<1>6. c \in S /\ \A m \in S : m <= c
  BY <1>4, <1>5
<1> HIDE DEF c
<1>7. c \in Nat /\ \A ch \in channels : row.max[ch][band] <= c
  BY <1>2, <1>6
<1>8. c = 0 \/ \E ch \in channels : row.max[ch][band] = c
  BY <1>6
<1> QED
  BY <1>7, <1>8 DEF c

LEMMA LoudestFacts ==
  ASSUME NEW A, IsFiniteSet(A), A # {}, NEW f \in [A -> Nat]
  PROVE  /\ \E i \in A : LoudestOf(f) = f[i]
         /\ \A i \in A : f[i] <= LoudestOf(f)
<1> DEFINE S == Range(f)
<1>1. S = {f[i] : i \in A}
  BY DEF Range
<1>2. f \in Surjection(A, S)
  BY <1>1 DEF Surjection
<1>3. S \in SUBSET Nat /\ S # {}
  BY <1>1
<1>4. LoudestOf(f) = Max(S)
  BY DEF LoudestOf
<1> HIDE DEF S
<1>5. IsFiniteSet(S)
  BY <1>2, FS_Surjection
<1>6. Max(S) \in S /\ \A m \in S : m <= Max(S)
  BY <1>3, <1>5, MaxFacts
<1> QED
  BY <1>1, <1>4, <1>6

(* What a column shows of a band                                           *)
LEMMA ImageFacts ==
  ASSUME FrameTypeOK, NEW view \in AllViews, NEW x \in 0..(view.width - 1),
         NEW band \in Kept(view)
  PROVE  /\ Image(view)[x][band] \in Nat
         /\ \A r \in RowsAt(view, x) :
              Crest(rows[r], view.channels, band) <= Image(view)[x][band]
         /\ Image(view)[x][band] > 0 =>
              \E r \in RowsAt(view, x) :
                Image(view)[x][band] = Crest(rows[r], view.channels, band)
<1> DEFINE A == RowsAt(view, x)
           f == [i \in A |-> Crest(rows[i], view.channels, band)]
           shown == Image(view)[x][band]
<1>1. rows \in Seq(RowType) /\ view.channels \in SUBSET Channels
  BY SpanFacts DEF FrameTypeOK
<1>2. A \in SUBSET (1..Len(rows)) /\ IsFiniteSet(A)
  <2>1. A \in SUBSET (1..Len(rows))
    BY <1>1 DEF RowsAt, Shown
  <2>2. 1 \in Int /\ Len(rows) \in Int
    BY <1>1
  <2>3. IsFiniteSet(1..Len(rows))
    BY <2>2, FS_Interval
  <2> HIDE DEF A
  <2> QED
    BY <2>1, <2>3, FS_Subset
<1>3. shown = IF A = {} THEN 0 ELSE LoudestOf(f)
  BY DEF Image
<1> HIDE DEF A, shown
<1>4. f \in [A -> Nat]
  <2>1. \A i \in A : rows[i] \in RowType
    BY <1>1, <1>2
  <2>2. \A i \in A : Crest(rows[i], view.channels, band) \in Nat
    BY <1>1, <2>1, KeptFacts, CrestFacts
  <2> QED
    BY <2>2
<1>5. \A i \in A : f[i] = Crest(rows[i], view.channels, band)
  OBVIOUS
<1> HIDE DEF f
<1>6. A # {} => /\ \E i \in A : LoudestOf(f) = f[i]
                /\ \A i \in A : f[i] <= LoudestOf(f)
  BY <1>2, <1>4, LoudestFacts
<1> QED
  BY <1>3, <1>4, <1>5, <1>6 DEF A, shown

(* What a row of the table has heard                                       *)
LEMMA RowFacts ==
  ASSUME WindowInv, NEW r \in 1..Len(rows), NEW ch \in Channels, NEW band \in Bands
  PROVE  /\ \A i \in 1..Len(heard) :
              heard[i].row = r => Value(i, ch, band) <= rows[r].max[ch][band]
         /\ \E i \in 1..Len(heard) :
              heard[i].row = r /\ Value(i, ch, band) = rows[r].max[ch][band]
<1> DEFINE W == Powers(heard, Members(heard, r))[ch][band]
<1>1. W = {Energy(heard[i].frame[ch], band) : i \in Members(heard, r)}
  BY DEF Powers
<1>2. /\ \E e \in W : rows[r].max[ch][band] = Quantise(e)
      /\ \A e \in W : Quantise(e) <= rows[r].max[ch][band]
  BY DEF WindowInv, RowOf
<1> QED
  BY <1>1, <1>2 DEF Members, Value

(* A frame that has been stored shows.                                     *)
LEMMA StoredShows ==
  ASSUME FrameTypeOK, WindowInv, NEW view \in AllViews, NEW i \in Stored,
         NEW ch \in view.channels, NEW band \in Bands, Inside(view, band),
         rows[heard[i].row].t0 \in view.since..view.until
  PROVE  \E x \in DOMAIN Image(view) :
           /\ band \in DOMAIN Image(view)[x]
           /\ Image(view)[x][band] >= Value(i, ch, band)
           /\ \/ Gap(2 * x * (view.until - view.since),
                     2 * Start(view, rows[heard[i].row])) <= view.until - view.since
              \/ x = view.width - 1
<1> DEFINE r == heard[i].row
           row == rows[r]
           s == view.until - view.since
           x == X0(view, row)
           start == Start(view, row)
<1>1. /\ r \in 1..Len(rows) /\ i \in 1..Len(heard)
      /\ row \in RowType /\ row.t0 \in Nat /\ row.dur \in Nat
  <2>1. rows \in Seq(RowType) /\ heard \in Seq(HeardType) /\ Len(rows) \in Nat
    BY DEF FrameTypeOK
  <2>2. i \in 1..Len(heard) /\ r <= Len(rows)
    BY <2>1 DEF Stored
  <2>3. r \in 1..(Len(rows) + 1)
    BY <2>2 DEF WindowInv
  <2>4. r \in 1..Len(rows)
    BY <2>1, <2>2, <2>3
  <2>5. row \in RowType
    BY <2>1, <2>4
  <2> QED
    BY <2>2, <2>4, <2>5 DEF RowType
<1>2. /\ view.since \in Int /\ view.until \in Int /\ view.width \in Nat \ {0}
      /\ view.channels \in SUBSET Channels /\ s \in Nat \ {0}
  BY SpanFacts
<1>3. start \in Int /\ 0 <= start
  <2> DEFINE a == row.t0 - view.since
             w == view.width
  <2>1. a \in Nat /\ w \in Nat
    BY <1>1, <1>2
  <2>2. start = a * w
    BY DEF Start
  <2> HIDE DEF a, w, start
  <2>3. a * w \in Nat
    BY <2>1
  <2> QED
    BY <2>2, <2>3
<1>4. band \in Kept(view)
  BY KeptFacts
<1>5. /\ x \in 0..(view.width - 1) /\ X1(view, row) \in (x + 1)..view.width
      /\ 2 * start <= (2 * x + 1) * s \/ x = view.width - 1
      /\ 2 * (x * s) <= 2 * start + s
  BY <1>1, <1>3, ColumnFacts
<1>6. r \in RowsAt(view, x)
  <2>1. r \in Shown(view)
    <3>1. rows \in Seq(RowType)
      BY DEF FrameTypeOK
    <3>2. rows[r].t0 \in view.since..view.until
      OBVIOUS
    <3> HIDE DEF r, row
    <3> QED
      BY <1>1, <3>1, <3>2 DEF Shown
  <2>2. x <= x /\ x < X1(view, row)
    <3> HIDE DEF x
    <3> QED
      BY <1>2, <1>5
  <2> QED
    BY <2>1, <2>2 DEF RowsAt
<1>7. Image(view)[x][band] >= Value(i, ch, band)
  <2>1. Crest(row, view.channels, band) <= Image(view)[x][band]
    BY <1>4, <1>5, <1>6, ImageFacts
  <2>2. row.max[ch][band] <= Crest(row, view.channels, band)
    BY <1>1, <1>2, CrestFacts
  <2>3. Value(i, ch, band) <= row.max[ch][band]
    BY <1>1, <1>2, RowFacts
  <2>4. /\ Crest(row, view.channels, band) \in Nat /\ row.max[ch][band] \in Nat
        /\ Value(i, ch, band) \in Nat
    BY <1>1, <1>2, CrestFacts, QuantiseType DEF RowType, Value
  <2>5. Image(view)[x][band] \in Nat
    BY <1>4, <1>5, ImageFacts
  <2> HIDE DEF x, row
  <2> QED
    BY <2>1, <2>2, <2>3, <2>4, <2>5
<1>8. x # view.width - 1 => Gap(2 * x * s, 2 * start) <= s
  <2> HIDE DEF x, s, start
  <2>1. x \in Int /\ 2 * x * s = 2 * (x * s) /\ (2 * x + 1) * s = 2 * (x * s) + s /\ x * s \in Int
    BY <1>2, <1>5
  <2> QED
    BY <1>2, <1>3, <1>5, <2>1 DEF Gap
<1>9. x \in DOMAIN Image(view) /\ band \in DOMAIN Image(view)[x]
  BY <1>4, <1>5 DEF Image
<1> QED
  BY <1>7, <1>8, <1>9


(* What shows has been heard.                                              *)
LEMMA ShownWasStored ==
  ASSUME FrameTypeOK, WindowInv, NEW view \in AllViews,
         NEW x \in DOMAIN Image(view), NEW band \in DOMAIN Image(view)[x],
         Image(view)[x][band] > 0
  PROVE  \E i \in Stored, ch \in view.channels :
           LET row == rows[heard[i].row]
               span == view.until - view.since IN
           /\ Image(view)[x][band] = Value(i, ch, band)
           /\ 2 * Start(view, row) <= (2 * x + 1) * span \/ x = view.width - 1
           /\ 2 * End(view, row) >= (2 * x - 1) * span
<1>1. /\ view.since \in Int /\ view.until \in Int /\ view.width \in Nat \ {0}
      /\ view.channels \in SUBSET Channels /\ view.until - view.since \in Nat \ {0}
  BY SpanFacts
<1>2. x \in 0..(view.width - 1) /\ band \in Kept(view) /\ band \in Bands
  <2>1. x \in 0..(view.width - 1) /\ band \in Kept(view)
    BY DEF Image
  <2> QED
    BY <2>1, KeptFacts
<1>3. PICK r \in RowsAt(view, x) :
        Image(view)[x][band] = Crest(rows[r], view.channels, band)
  BY <1>2, ImageFacts
<1> DEFINE row == rows[r]
           s == view.until - view.since
           first == X0(view, row)
           last == X1(view, row)
           n0 == Start(view, row)
           n1 == End(view, row)
<1>4. /\ rows \in Seq(RowType) /\ heard \in Seq(HeardType)
      /\ r \in 1..Len(rows) /\ row \in RowType
      /\ row.t0 \in view.since..view.until /\ row.t0 \in Nat /\ row.dur \in Nat
      /\ first <= x /\ (x = first \/ x < last)
  <2>1. rows \in Seq(RowType) /\ heard \in Seq(HeardType)
    BY DEF FrameTypeOK
  <2>2. r \in Shown(view) /\ (IF Narrow(view) THEN first = x ELSE first <= x /\ x < last)
    BY DEF RowsAt
  <2>3. r \in 1..Len(rows) /\ row.t0 \in view.since..view.until
    BY <2>1, <2>2 DEF Shown
  <2>4. row \in RowType
    BY <2>1, <2>3
  <2>5. row.t0 \in Nat /\ row.dur \in Nat
    BY <2>4 DEF RowType
  <2>6. first <= x /\ (x = first \/ x < last)
    <3> HIDE DEF first, last
    <3> QED
      BY <1>2, <2>2
  <2> QED
    BY <2>1, <2>3, <2>4, <2>5, <2>6
<1>5. PICK ch \in view.channels : row.max[ch][band] = Image(view)[x][band]
  <2>1. /\ row \in RowType /\ view.channels \in SUBSET Channels
        /\ Crest(row, view.channels, band) > 0
        /\ Crest(row, view.channels, band) = Image(view)[x][band]
    <3>1. Crest(row, view.channels, band) = Image(view)[x][band]
      BY <1>3
    <3> QED
      BY <1>1, <1>4, <3>1
  <2> HIDE DEF row
  <2>2. \E ch \in view.channels :
          row.max[ch][band] = Crest(row, view.channels, band)
    BY <1>2, <2>1, CrestFacts
  <2> QED
    BY <2>1, <2>2
<1>6. PICK i \in 1..Len(heard) :
        heard[i].row = r /\ Value(i, ch, band) = row.max[ch][band]
  <2>1. r \in 1..Len(rows) /\ ch \in Channels
    BY <1>1, <1>4
  <2>2. \E i \in 1..Len(heard) :
          heard[i].row = r /\ Value(i, ch, band) = rows[r].max[ch][band]
    <3> HIDE DEF row
    <3> QED
      BY <1>2, <2>1, RowFacts
  <2> QED
    BY <2>2
<1>7. i \in Stored
  <2>1. Len(rows) \in Nat /\ Len(heard) \in Nat
    BY <1>4
  <2> QED
    BY <1>4, <1>6, <2>1 DEF Stored
<1>8. /\ n0 \in Int /\ n1 \in Int /\ n0 <= n1
      /\ first \in 0..(view.width - 1) /\ last \in (first + 1)..view.width
      /\ 2 * n0 <= (2 * first + 1) * s \/ first = view.width - 1
      /\ \A y \in Int : first <= y /\ y < last /\ 0 <= n0 => 2 * n1 >= (2 * y - 1) * s
  BY <1>4, ColumnFacts
<1>9. 0 <= n0
  <2> DEFINE a == row.t0 - view.since
  <2>1. a \in Nat /\ n0 = a * view.width
    BY <1>1, <1>4 DEF Start
  <2> HIDE DEF a, n0
  <2> QED
    BY <1>1, <2>1
<1> HIDE DEF s, first, last, n0, n1
<1>10. s \in Nat \ {0}
  BY <1>1 DEF s
<1>11. 2 * n0 <= (2 * x + 1) * s \/ x = view.width - 1
  <2>1. CASE first = view.width - 1
    BY <1>1, <1>2, <1>4, <1>8, <2>1
  <2>2. CASE 2 * n0 <= (2 * first + 1) * s
    <3>1. first * s <= x * s
      BY <1>2, <1>4, <1>8, <1>10, ProductIsMonotonic
    <3>2. first \in Int /\ x \in Int /\ s \in Int
      BY <1>1, <1>2, <1>8, <1>10
    <3>3. first * s \in Int /\ x * s \in Int
      BY <3>2
    <3>4. (2 * first + 1) * s = 2 * (first * s) + s
      BY <3>2
    <3>5. (2 * x + 1) * s = 2 * (x * s) + s
      BY <3>2
    <3>6. n0 \in Int
      BY <1>8
    <3> QED
      BY <2>2, <3>1, <3>2, <3>3, <3>4, <3>5, <3>6
  <2> QED
    BY <1>8, <2>1, <2>2
<1>12. 2 * n1 >= (2 * x - 1) * s
  <2>1. x \in Int /\ first <= x /\ x < last
    BY <1>1, <1>2, <1>4, <1>8
  <2> QED
    BY <1>8, <1>9, <2>1
<1>13. /\ Image(view)[x][band] = Value(i, ch, band)
       /\ rows[heard[i].row] = row
  BY <1>5, <1>6
<1> QED
  BY <1>7, <1>11, <1>12, <1>13 DEF s, n0, n1

(* In any view, of any width and zoom, before, across or after what was    *)
(* recorded: no crest of a row that begins in the view is lost on its way  *)
(* to the image, in the bands inside the zoom, and none is invented        *)
(* (SpectrumAggregator.update, get_spectrum_png). A row that begins before *)
(* the view is not drawn: the run overlap shows what that costs.           *)
THEOREM CrestsSurviveEverywhere ==
  AlgSpec => [](\A view \in AllViews : CrestsSurviveIn(view))
<1> DEFINE Inv == FrameInv /\ WindowInv
<1>1. AlgInit => WindowInv
  <2> SUFFICES ASSUME AlgInit PROVE WindowInv
    OBVIOUS
  <2>1. heard = <<>> /\ rows = <<>> /\ highest = <<>>
    BY DEF AlgInit, Init
  <2>2. Members(heard, Len(rows) + 1) = {}
    BY <2>1 DEF Members
  <2>3. Peaks(highest, Powers(heard, Members(heard, Len(rows) + 1)))
    BY <2>1, <2>2 DEF Peaks, Powers
  <2> QED
    BY <2>1, <2>3 DEF WindowInv
<1>2. FrameInv /\ WindowInv /\ [NextFrame \/ Hear]_<<vars, sounds, file>> => WindowInv'
  <2> SUFFICES ASSUME FrameInv, WindowInv, [NextFrame \/ Hear]_<<vars, sounds, file>>
               PROVE  WindowInv'
    OBVIOUS
  <2>1. CASE NextFrame
    BY <2>1, WindowStep DEF NextFrame, FrameInv
  <2>2. CASE UNCHANGED vars
    BY <2>2 DEF vars, WindowInv
  <2> QED
    BY <2>1, <2>2 DEF Hear
<1>3. FrameInv /\ WindowInv => \A view \in AllViews : CrestsSurviveIn(view)
  <2> SUFFICES ASSUME FrameTypeOK, WindowInv, NEW view \in AllViews
               PROVE  CrestsSurviveIn(view)
    BY DEF FrameInv
  <2> QED
    BY StoredShows, ShownWasStored DEF CrestsSurviveIn
<1> QED
  BY <1>1, <1>2, <1>3, RingHoldsRecent, PTL DEF AlgSpec

(* In particular in the views of the run.                                  *)
THEOREM CrestsReachTheImage == AlgSpec => []CrestsSurvive
<1>1. FrameInv /\ (\A view \in AllViews : CrestsSurviveIn(view)) => CrestsSurvive
  <2> SUFFICES ASSUME now \in Nat, NEW view \in Views,
                      \A v \in AllViews : CrestsSurviveIn(v)
               PROVE  CrestsSurviveIn(view)
    BY DEF FrameInv, FrameTypeOK, CrestsSurvive
  <2>1. Edge(0) \in Int /\ Edge(1) \in Int /\ Edge(NBands) \in Int
    BY MeasuresAssumption DEF Edge
  <2>2. view \in AllViews
    BY <2>1 DEF Views, AllViews, Channels
  <2> QED
    BY <2>2
<1> QED
  BY <1>1, RingHoldsRecent, CrestsSurviveEverywhere, PTL

=============================================================================
