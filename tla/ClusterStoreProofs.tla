------------------------- MODULE ClusterStoreProofs -------------------------
(***************************************************************************)
(* Proofs about ClusterStore for every set of fingerprints and every       *)
(* relation Compatible that is reflexive and symmetric.                    *)
(***************************************************************************)
EXTENDS ClusterStore, FiniteSetTheorems, TLAPS

Row == [cluster : Nat, fp : Prints, exemplar : BOOLEAN]

Entry == [id : Nat, fp : Prints]

(* Functions on finite sets of numbers, none larger than those given. *)
TypeOK ==
  /\ phase \in Phases
  /\ detected \in Nat /\ starts \in Nat /\ nextId \in Nat
  /\ DOMAIN events \subseteq 1..detected /\ events \in [DOMAIN events -> Row]
  /\ DOMAIN buffer \subseteq 1..detected /\ buffer \in [DOMAIN buffer -> Row]
  /\ DOMAIN events \cap DOMAIN buffer = {}
  /\ DOMAIN index \subseteq 1..detected /\ index \in [DOMAIN index -> Entry]
  /\ DOMAIN renames \subseteq Nat
  /\ renames \in [DOMAIN renames -> Nat]
  /\ exemplars \in [DOMAIN exemplars -> 1..detected]
  /\ moves \in [DOMAIN moves -> 1..detected]
  /\ labelled \subseteq Nat
  /\ astray \in BOOLEAN /\ bare \in BOOLEAN /\ mixed \in BOOLEAN

(* What is empty when. *)
PhaseInv ==
  /\ phase \notin {"prune", "capture"} => DOMAIN buffer = {}
  /\ phase # "rename" => DOMAIN renames = {}
  /\ phase \notin {"move", "place"} => DOMAIN moves = {}
  /\ phase \notin {"retain", "prune", "capture"} => labelled = {}

(* The ids given so far in the run, to events and to labels. *)
IndexInv ==
  /\ IdsAreFresh
  /\ MatchingIsStable
  /\ \A c \in labelled : c < nextId

(* A file is renamed once, to the name of a cluster of the table. *)
RenameInv ==
  \A c \in DOMAIN renames :
    renames[c] \in Known /\ renames[c] \notin DOMAIN renames

OneSoundEach(files) ==
  \A c, d \in DOMAIN files : files[c] = files[d] => c = d

(* The flags that the transaction of recluster.py leaves are those of the  *)
(* files it moves; while it places them, no old file is left but those it  *)
(* will replace.                                                           *)
MoveInv ==
  /\ phase \in {"move", "place"} =>
       /\ {events[n].cluster : n \in Flagged} = DOMAIN moves
       /\ \A n, m \in Flagged : events[n].cluster = events[m].cluster => n = m
       /\ OneSoundEach(moves)
  /\ phase = "place" =>
       /\ DOMAIN exemplars \subseteq DOMAIN moves
       /\ \A d \in DOMAIN exemplars, c \in DOMAIN moves :
            exemplars[d] = moves[c] => d = c

(* If row n is still there, it carries the flag and belongs to cluster c.  *)
Holds(rows, n, c) ==
  n \in DOMAIN rows => rows[n].exemplar /\ rows[n].cluster = c

Renaming(c) == IF c \in DOMAIN renames THEN renames[c] ELSE c

NoOrphans ==
  ~astray /\ phase \notin {"prune", "move", "place"} =>
    DOMAIN exemplars \subseteq Known \cup Clusters(buffer) \cup DOMAIN renames

OwnSounds ==
  ~astray /\ ~mixed /\ phase \notin {"move", "place"} =>
    \A c \in DOMAIN exemplars : /\ Holds(events, exemplars[c], Renaming(c))
                                /\ Holds(buffer, exemplars[c], c)

OwnMoves ==
  ~astray /\ ~mixed /\ phase \in {"move", "place"} =>
    \A c \in DOMAIN moves : Holds(events, moves[c], c)

(* The cluster of a flagged event has a file, perhaps still to be renamed. *)
FlaggedFiles ==
  ~astray /\ ~bare /\ phase \notin {"move", "place"} =>
    /\ \A n \in DOMAIN events : events[n].exemplar =>
         \E c \in DOMAIN exemplars : Renaming(c) = events[n].cluster
    /\ \A n \in DOMAIN buffer : buffer[n].exemplar =>
         buffer[n].cluster \in DOMAIN exemplars

IInv ==
  /\ TypeOK
  /\ PhaseInv
  /\ IndexInv
  /\ RenameInv
  /\ OneSoundEach(exemplars)
  /\ MoveInv
  /\ NoOrphans
  /\ OwnSounds
  /\ OwnMoves
  /\ FlaggedFiles

-----------------------------------------------------------------------------
(* Every set of numbers has a least element, and Min is one.               *)
LEMMA LeastNat ==
  ASSUME NEW S \in SUBSET Nat, S # {}
  PROVE  \E m \in S : \A n \in S : m <= n
<1>1. IsWellFoundedOn({ss \in Nat \X Nat : ss[1] < ss[2]}, Nat)
  BY NatLessThanWellFounded DEF OpToRel
<1>2. \E x \in S : \A y \in S : ~ (<<y, x>> \in {ss \in Nat \X Nat : ss[1] < ss[2]})
  BY <1>1, WFMin
<1>3. \A x, y \in S : <<y, x>> \notin {ss \in Nat \X Nat : ss[1] < ss[2]} => x <= y
  OBVIOUS
<1> QED
  BY <1>2, <1>3

LEMMA MinFacts ==
  ASSUME NEW S \in SUBSET Nat, S # {}
  PROVE  Min(S) \in S /\ \A n \in S : Min(S) <= n
BY LeastNat DEF Min

(* A finite set of numbers has a largest element, and Max is one.          *)
LEMMA MaxFacts ==
  ASSUME NEW S \in SUBSET Nat, S # {}, IsFiniteSet(S)
  PROVE  Max(S) \in S /\ \A n \in S : n <= Max(S)
<1> DEFINE Tops(T)   == {m \in T : \A n \in T : n <= m}
           Topless   == {T \in SUBSET S : T # {} /\ Tops(T) = {}}
           Sizes     == {Cardinality(T) : T \in Topless}
<1>1. \A T \in SUBSET S : IsFiniteSet(T) /\ Cardinality(T) \in Nat
  BY FS_Subset, FS_CardinalityType
<1>2. Topless = {}
  <2> SUFFICES ASSUME Topless # {} PROVE FALSE
    OBVIOUS
  <2>1. Sizes \in SUBSET Nat /\ Sizes # {}
    BY <1>1
  <2>2. PICK k \in Sizes : \A j \in Sizes : k <= j
    BY <2>1, LeastNat
  <2>3. PICK T \in Topless : k = Cardinality(T)
    BY <2>2
  <2>4. PICK x \in T : TRUE
    BY <2>3
  <2> DEFINE U == T \ {x}
  <2>5. U \in SUBSET S /\ Cardinality(U) = k - 1 /\ k \in Nat
    BY <1>1, <2>3, FS_RemoveElement
  <2>6. U \notin Topless
    <3> HIDE DEF U, Topless
    <3> QED
      BY <2>2, <2>5
  <2>7. CASE U = {}
    <3>1. x \in Tops(T)
      BY <2>3, <2>7
    <3> QED
      BY <2>3, <3>1
  <2>8. CASE U # {}
    <3>1. PICK m \in U : \A n \in U : n <= m
      BY <2>5, <2>6, <2>8
    <3>2. x \in Nat /\ m \in Nat /\ m \in T
      BY <2>3, <3>1
    <3>3. \A n \in T : n \in Nat /\ (n = x \/ n <= m)
      BY <2>3, <3>1
    <3>4. (x <= m => m \in Tops(T)) /\ (m <= x => x \in Tops(T))
      BY <3>2, <3>3
    <3> QED
      BY <2>3, <3>2, <3>4
  <2> QED
    BY <2>7, <2>8
<1>3. Tops(S) # {}
  BY <1>2
<1> QED
  BY <1>3 DEF Max

(* A function that steps down a set of numbers, by way of E, to the ones   *)
(* from which E leads nowhere, exists: it is built from below.             *)
LEMMA Descent ==
  ASSUME NEW N \in Nat, NEW K \in SUBSET (0..N), NEW E \in [K -> SUBSET K],
         \A b \in K : \A a \in E[b] : a < b
  PROVE  \E f : f = [b \in K |-> IF E[b] = {} THEN b ELSE f[Min(E[b])]]
<1> DEFINE Part(n)  == {b \in K : b < n}
           Solves(f, n) ==
             f = [b \in Part(n) |-> IF E[b] = {} THEN b ELSE f[Min(E[b])]]
           Unsolved == {n \in Nat : ~ \E f : Solves(f, n)}
<1>0. \A b \in K : b \in Nat /\ b < N + 1
  OBVIOUS
<1>1. Unsolved = {}
  <2> SUFFICES ASSUME Unsolved # {} PROVE FALSE
    OBVIOUS
  <2>0. Unsolved \in SUBSET Nat
    OBVIOUS
  <2>1. PICK n \in Unsolved : \A k \in Unsolved : n <= k
    BY <2>0, LeastNat
  <2>2. n \in Nat /\ n # 0
    <3>1. Solves([b \in {} |-> 0], 0)
      OBVIOUS
    <3> QED
      BY <2>0, <3>1
  <2>3. n - 1 \in Nat /\ n - 1 \notin Unsolved
    <3> HIDE DEF Unsolved
    <3> QED
      BY <2>1, <2>2
  <2>4. PICK f : Solves(f, n - 1)
    BY <2>3
  <2> DEFINE g == [b \in Part(n) |->
                     IF b \in Part(n - 1) THEN f[b]
                     ELSE IF E[b] = {} THEN b ELSE f[Min(E[b])]]
  <2>5. \A b \in Part(n) : E[b] # {} => Min(E[b]) \in Part(n - 1)
    <3> SUFFICES ASSUME NEW b \in Part(n), E[b] # {}
                 PROVE  Min(E[b]) \in Part(n - 1)
      OBVIOUS
    <3>1. E[b] \in SUBSET Nat /\ E[b] \in SUBSET K
      <4>1. E[b] \in SUBSET K
        OBVIOUS
      <4> QED
        BY <1>0, <4>1
    <3>2. Min(E[b]) \in E[b]
      BY <3>1, MinFacts
    <3> QED
      BY <2>2, <3>1, <3>2
  <2>6. \A b \in Part(n - 1) : b \in Part(n)
    BY <2>2
  <2>7. \A b \in Part(n) : E[b] # {} => g[Min(E[b])] = f[Min(E[b])]
    BY <2>5, <2>6
  <2>8. \A b \in Part(n) : g[b] = IF E[b] = {} THEN b ELSE f[Min(E[b])]
    BY <2>4
  <2>9. g = [b \in Part(n) |-> IF E[b] = {} THEN b ELSE g[Min(E[b])]]
    <3> HIDE DEF Part
    <3> QED
      BY <2>7, <2>8
  <2> QED
    BY <2>1, <2>9
<1>2. N + 1 \notin Unsolved /\ N + 1 \in Nat
  <2> HIDE DEF Unsolved
  <2> QED
    BY <1>1
<1>3. PICK f : Solves(f, N + 1)
  BY <1>2
<1>4. Part(N + 1) = K
  BY <1>0
<1> QED
  BY <1>3, <1>4

-----------------------------------------------------------------------------
(* The table and its clusters.                                             *)
LEMMA KnownFacts ==
  ASSUME TypeOK
  PROVE  /\ Known \in SUBSET Nat /\ IsFiniteSet(Known)
         /\ \A n \in DOMAIN events :
              events[n] \in Row /\ events[n].cluster \in Known
<1>1. \A n \in DOMAIN events : events[n] \in Row
  BY DEF TypeOK
<1>2. IsFiniteSet(DOMAIN events)
  <2>1. IsFiniteSet(1..detected)
    <3>1. detected \in Int
      BY DEF TypeOK
    <3> QED
      BY <3>1, FS_Interval
  <2> QED
    BY <2>1, FS_Subset DEF TypeOK
<1>3. IsFiniteSet({events[n].cluster : n \in DOMAIN events})
  <2> DEFINE rows == DOMAIN events
             column == [n \in rows |-> events[n].cluster]
  <2>1. column \in Surjection(rows, {events[n].cluster : n \in rows})
    BY DEF Surjection
  <2> HIDE DEF column, rows
  <2>2. IsFiniteSet({events[n].cluster : n \in rows})
    BY <1>2, <2>1, FS_Surjection DEF rows
  <2> QED
    BY <2>2 DEF rows
<1> QED
  BY <1>1, <1>3 DEF Known, Clusters, Row

LEMMA FirstFacts ==
  ASSUME TypeOK, NEW c \in Known
  PROVE  /\ First(c) \in DOMAIN events
         /\ events[First(c)].cluster = c
         /\ \A n \in DOMAIN events : events[n].cluster = c => First(c) <= n
<1> DEFINE S == {n \in DOMAIN events : events[n].cluster = c}
<1>1. S \in SUBSET Nat /\ S # {}
  BY DEF TypeOK, Known, Clusters
<1> QED
  BY <1>1, MinFacts DEF First

(* The union-find gives every cluster a root, its own or that of its       *)
(* smallest elder.                                                         *)
LEMMA RootsSolve ==
  ASSUME TypeOK
  PROVE  Roots = [b \in Known |-> IF Elders(b) = {} THEN b
                                  ELSE Roots[Min(Elders(b))]]
<1> DEFINE E == [b \in Known |-> Elders(b)]
           Solves(f) == f = [b \in Known |-> IF Elders(b) = {} THEN b
                                             ELSE f[Min(Elders(b))]]
<1>1. PICK N \in Nat : Known \in SUBSET (0..N)
  <2>1. CASE Known = {}
    BY <2>1
  <2>2. CASE Known # {}
    <3>1. /\ Max(Known) \in Known
          /\ \A n \in Known : n <= Max(Known)
      BY <2>2, KnownFacts, MaxFacts
    <3> HIDE DEF E, Solves
    <3>2. Max(Known) \in Nat /\ \A n \in Known : n \in Nat
      BY <3>1, KnownFacts
    <3>3. Known \in SUBSET (0..Max(Known))
      BY <3>1, <3>2
    <3> QED
      BY <3>2, <3>3
  <2> QED
    BY <2>1, <2>2
<1>2. E \in [Known -> SUBSET Known] /\ \A b \in Known : \A a \in E[b] : a < b
  BY DEF Elders
<1>3. \E f : f = [b \in Known |-> IF E[b] = {} THEN b ELSE f[Min(E[b])]]
  <2> HIDE DEF E
  <2> QED
    BY <1>1, <1>2, Descent
<1>4. \E f : Solves(f)
  <2>1. PICK f : f = [b \in Known |-> IF E[b] = {} THEN b ELSE f[Min(E[b])]]
    BY <1>3
  <2>2. [b \in Known |-> IF E[b] = {} THEN b ELSE f[Min(E[b])]]
          = [b \in Known |-> IF Elders(b) = {} THEN b ELSE f[Min(Elders(b))]]
    OBVIOUS
  <2> QED
    BY <2>1, <2>2
<1>5. Roots = CHOOSE f : Solves(f)
  BY DEF Roots
<1>6. Solves(Roots)
  <2> HIDE DEF Solves
  <2> QED
    BY <1>4, <1>5
<1> QED
  BY <1>6

LEMMA RootsFacts ==
  ASSUME TypeOK
  PROVE  \A b \in Known :
           /\ Roots[b] \in Known /\ Roots[b] <= b
           /\ Roots[Roots[b]] = Roots[b]
           /\ Elders(b) = {} => Roots[b] = b
           /\ Elders(b) # {} =>
                /\ Min(Elders(b)) \in Elders(b)
                /\ Roots[b] = Roots[Min(Elders(b))]
<1> DEFINE Good(b) == /\ Roots[b] \in Known /\ Roots[b] <= b
                      /\ Roots[Roots[b]] = Roots[b]
           Bad == {b \in Known : ~ Good(b)}
<1>1. Known \in SUBSET Nat
  BY KnownFacts
<1>2. \A b \in Known : Elders(b) # {} => Min(Elders(b)) \in Elders(b)
  <2> SUFFICES ASSUME NEW b \in Known, Elders(b) # {}
               PROVE  Min(Elders(b)) \in Elders(b)
    OBVIOUS
  <2>1. Elders(b) \in SUBSET Nat
    BY <1>1 DEF Elders
  <2> QED
    BY <2>1, MinFacts
<1>3. \A b \in Known :
        Roots[b] = IF Elders(b) = {} THEN b ELSE Roots[Min(Elders(b))]
  <2> DEFINE g == [b \in Known |-> IF Elders(b) = {} THEN b
                                   ELSE Roots[Min(Elders(b))]]
  <2>1. Roots = g
    BY RootsSolve
  <2>2. \A b \in Known : g[b] = IF Elders(b) = {} THEN b
                                 ELSE Roots[Min(Elders(b))]
    OBVIOUS
  <2> HIDE DEF g
  <2> QED
    BY <2>1, <2>2
<1>4. Bad = {}
  <2> SUFFICES ASSUME Bad # {} PROVE FALSE
    OBVIOUS
  <2>0. Bad \in SUBSET Nat
    BY <1>1
  <2>1. PICK b \in Bad : \A k \in Bad : b <= k
    BY <2>0, LeastNat
  <2>2. b \in Known /\ b \in Nat /\ ~ Good(b)
    BY <1>1, <2>1
  <2>3. CASE Elders(b) = {}
    BY <1>3, <2>2, <2>3
  <2>4. CASE Elders(b) # {}
    <3> DEFINE a == Min(Elders(b))
    <3>1. a \in Known /\ a < b /\ a \in Nat
      BY <1>1, <1>2, <2>2, <2>4 DEF Elders
    <3>2. Good(a)
      <4>1. a \notin Bad
        <5> HIDE DEF a, Bad
        <5> QED
          BY <2>1, <2>2, <3>1
      <4> QED
        BY <3>1, <4>1
    <3>3. Roots[b] = Roots[a]
      BY <1>3, <2>2, <2>4
    <3>4. Roots[a] \in Nat
      BY <1>1, <3>2
    <3> HIDE DEF a
    <3>5. Good(b)
      BY <2>2, <3>1, <3>2, <3>3, <3>4
    <3> QED
      BY <2>2, <3>5
  <2> QED
    BY <2>3, <2>4
<1> QED
  BY <1>2, <1>3, <1>4

LEMMA LinkedIsSymmetric ==
  ASSUME TypeOK, NEW c \in Known, NEW d \in Known, Linked(c, d)
  PROVE  Linked(d, c)
<1>1. Representative(c) \in Prints /\ Representative(d) \in Prints
  BY FirstFacts, KnownFacts DEF Representative, Row
<1> QED
  BY <1>1, ClusterAssumption DEF Linked

-----------------------------------------------------------------------------
(* What a merge does to the clusters.                                      *)
LEMMA MergedRows ==
  ASSUME TypeOK, Merge
  PROVE  /\ DOMAIN events' = DOMAIN events
         /\ \A n \in DOMAIN events :
              /\ events'[n].cluster = Roots[events[n].cluster]
              /\ events'[n].exemplar = events[n].exemplar
              /\ events'[n] \in Row
         /\ Known' = {Roots[c] : c \in Known}
<1>1. \A n \in DOMAIN events : events[n] \in Row /\ Roots[events[n].cluster] \in Nat
  BY KnownFacts, RootsFacts
<1>2. /\ DOMAIN events' = DOMAIN events
      /\ \A n \in DOMAIN events :
           events'[n] = [events[n] EXCEPT !.cluster = Roots[events[n].cluster]]
  BY DEF Merge
<1>3. \A n \in DOMAIN events :
        /\ events'[n].cluster = Roots[events[n].cluster]
        /\ events'[n].exemplar = events[n].exemplar
        /\ events'[n] \in Row
  BY <1>1, <1>2 DEF Row
<1>4. Known' = {Roots[c] : c \in Known}
  <2> HIDE DEF Roots
  <2> QED
    BY <1>2, <1>3 DEF Known, Clusters
<1> QED
  BY <1>2, <1>3, <1>4

(* A class of the union-find is held together by links: seen from any part *)
(* of it that its root is not in, the least member of the part has an      *)
(* elder outside of the part.                                              *)
LEMMA ClassIsChained ==
  ASSUME TypeOK, NEW d \in Known,
         NEW T \in SUBSET {c \in Known : Roots[c] = d}, T # {}, d \notin T
  PROVE  \E y \in T, p \in {c \in Known : Roots[c] = d} \ T : Linked(p, y)
<1>1. T \in SUBSET Nat
  BY KnownFacts
<1>2. PICK y \in T : \A n \in T : y <= n
  BY <1>1, LeastNat
<1>3. y \in Known /\ Roots[y] = d /\ y # d
  OBVIOUS
<1>4. Elders(y) # {}
  BY <1>3, RootsFacts
<1> DEFINE p == Min(Elders(y))
<1>5. p \in Elders(y) /\ Roots[p] = d
  BY <1>3, <1>4, RootsFacts
<1>6. p \in Known /\ p < y /\ Linked(p, y)
  BY <1>5 DEF Elders
<1>7. p \notin T
  <2>1. y \in Nat /\ p \in Nat
    BY <1>1, <1>6, KnownFacts
  <2> HIDE DEF p
  <2> QED
    BY <1>2, <1>6, <2>1
<1> QED
  BY <1>5, <1>6, <1>7

(* The action property of a merge, for one of the clusters it leaves.      *)
LEMMA MergeStep ==
  ASSUME TypeOK, Merge, NEW d \in Known'
  PROVE  LET class == {events[n].cluster :
                         n \in {m \in DOMAIN events : events'[m].cluster = d}} IN
         /\ d \in class /\ \A c \in class : d <= c
         /\ \A n \in DOMAIN events :
              events[n].cluster \in class => events'[n].cluster = d
         /\ \A S \in (SUBSET class) \ {{}, class} :
              \E x \in S, y \in class \ S : Linked(x, y)
<1> DEFINE class == {events[n].cluster :
                       n \in {m \in DOMAIN events : events'[m].cluster = d}}
           Class == {c \in Known : Roots[c] = d}
<1>1. class = Class
  BY MergedRows DEF Known, Clusters
<1>2. d \in Known /\ Roots[d] = d
  BY MergedRows, RootsFacts
<1>3. d \in Class /\ \A c \in Class : d <= c
  BY <1>2, RootsFacts
<1>4. \A n \in DOMAIN events :
        events[n].cluster \in Class => events'[n].cluster = d
  BY MergedRows
<1>5. ASSUME NEW S \in (SUBSET Class) \ {{}, Class}
      PROVE  \E x \in S, y \in Class \ S : Linked(x, y)
  <2>1. CASE d \notin S
    <3>1. PICK y \in S, p \in Class \ S : Linked(p, y)
      BY <1>2, <2>1, ClassIsChained
    <3> QED
      BY <3>1, LinkedIsSymmetric
  <2>2. CASE d \in S
    <3>1. Class \ S \in SUBSET Class /\ Class \ S # {} /\ d \notin Class \ S
      BY <2>2
    <3>2. PICK y \in Class \ S, p \in Class \ (Class \ S) : Linked(p, y)
      BY <1>2, <3>1, ClassIsChained
    <3> QED
      BY <3>2
  <2> QED
    BY <2>1, <2>2
<1> HIDE DEF class, Class
<1> QED
  BY <1>1, <1>3, <1>4, <1>5 DEF class

-----------------------------------------------------------------------------
(* Functions with an entry more or entries less.                           *)
LEMMA WithType ==
  ASSUME NEW S, NEW f, f \in [DOMAIN f -> S], NEW n, NEW value \in S
  PROVE  With(f, n, value) \in [DOMAIN With(f, n, value) -> S]
BY DEF With

LEMMA RestrictFacts ==
  ASSUME NEW f, NEW D
  PROVE  /\ DOMAIN Restrict(f, D) = D
         /\ \A m \in D : Restrict(f, D)[m] = f[m]
         /\ \A S : f \in [DOMAIN f -> S] /\ D \subseteq DOMAIN f =>
              Restrict(f, D) \in [DOMAIN Restrict(f, D) -> S]
BY DEF Restrict

-----------------------------------------------------------------------------
(* The inductive invariant, one lemma for each action.                     *)
LEMMA InitIInv == Init => IInv
<1> SUFFICES ASSUME Init PROVE IInv
  OBVIOUS
<1>1. TypeOK
  BY DEF Init, TypeOK, Phases, Nothing
<1>2. PhaseInv /\ RenameInv /\ MoveInv
  BY DEF Init, PhaseInv, RenameInv, MoveInv, Nothing
<1>3. IndexInv
  BY DEF Init, IndexInv, IdsAreFresh, MatchingIsStable, Nothing
<1>4. OneSoundEach(exemplars) /\ NoOrphans /\ OwnSounds /\ OwnMoves /\ FlaggedFiles
  BY DEF Init, OneSoundEach, NoOrphans, OwnSounds, OwnMoves, FlaggedFiles, Nothing
<1> QED
  BY <1>1, <1>2, <1>3, <1>4 DEF IInv

(* With the buffer and the labels empty and no index in use, nothing is    *)
(* asked of the ids.                                                       *)
LEMMA NoIdsYet ==
  ASSUME phase' \notin {"retain", "prune", "capture"},
         DOMAIN buffer' = {}, labelled' = {}
  PROVE  IndexInv'
BY DEF IndexInv, IdsAreFresh, MatchingIsStable

LEMMA MergeIInv ==
  ASSUME IInv, Merge
  PROVE  IInv'
<1> USE DEF IInv
<1>1. /\ phase = "merge" /\ phase' = "rename"
      /\ renames' = [c \in {b \in Known : Roots[b] # b} |-> Roots[c]]
      /\ UNCHANGED <<index, nextId, buffer, exemplars, otherVars, detected,
                     starts, astray, bare, mixed>>
  BY DEF Merge
<1>2. /\ DOMAIN renames' = {b \in Known : Roots[b] # b}
      /\ \A c \in DOMAIN renames' : renames'[c] = Roots[c]
      /\ renames' \in [DOMAIN renames' -> Nat]
  <2>1. \A c \in Known : Roots[c] \in Nat
    BY KnownFacts, RootsFacts
  <2> QED
    BY <1>1, <2>1
<1>3. DOMAIN buffer = {} /\ DOMAIN renames = {} /\ DOMAIN moves = {} /\ labelled = {}
  BY <1>1 DEF PhaseInv
<1>4. TypeOK'
  <2>1. events' \in [DOMAIN events' -> Row]
    <3>1. events' = [n \in DOMAIN events |-> events'[n]]
      BY DEF Merge
    <3> QED
      BY <3>1, MergedRows
  <2>2. DOMAIN renames' \subseteq Nat
    BY <1>2, KnownFacts
  <2> QED
    BY <1>1, <1>2, <2>1, <2>2, MergedRows DEF TypeOK, Phases, otherVars
<1>5. PhaseInv' /\ MoveInv' /\ OwnMoves'
  BY <1>1, <1>3 DEF PhaseInv, MoveInv, OwnMoves, otherVars
<1>6. IndexInv'
  BY <1>1, <1>3, NoIdsYet DEF otherVars
<1>7. RenameInv'
  <2>1. \A c \in Known : Roots[c] \in Known /\ Roots[Roots[c]] = Roots[c]
    BY RootsFacts
  <2> QED
    BY <1>2, <2>1, MergedRows DEF RenameInv
<1>8. OneSoundEach(exemplars)'
  BY <1>1 DEF OneSoundEach
<1>9. NoOrphans'
  <2> SUFFICES ASSUME ~astray, NEW c \in DOMAIN exemplars
               PROVE  c \in Known' \cup DOMAIN renames'
    BY <1>1 DEF NoOrphans
  <2>1. c \in Known
    BY <1>1, <1>3 DEF NoOrphans, Clusters
  <2> QED
    BY <1>2, <2>1, MergedRows
<1>10. OwnSounds'
  <2> SUFFICES ASSUME ~astray, ~mixed, NEW c \in DOMAIN exemplars,
                      exemplars[c] \in DOMAIN events
               PROVE  /\ events'[exemplars[c]].exemplar
                      /\ events'[exemplars[c]].cluster = Renaming(c)'
    BY <1>1, <1>3, MergedRows DEF OwnSounds, Holds
  <2>1. events[exemplars[c]].exemplar /\ events[exemplars[c]].cluster = c
    BY <1>1, <1>3 DEF OwnSounds, Holds, Renaming
  <2>2. c \in Known
    BY <2>1, KnownFacts
  <2> QED
    BY <1>2, <2>1, <2>2, MergedRows DEF Renaming
<1>11. FlaggedFiles'
  <2> SUFFICES ASSUME ~astray, ~bare, NEW n \in DOMAIN events, events[n].exemplar
               PROVE  \E c \in DOMAIN exemplars : Renaming(c)' = events'[n].cluster
    BY <1>1, <1>3, MergedRows DEF FlaggedFiles
  <2>1. PICK c \in DOMAIN exemplars : c = events[n].cluster
    BY <1>1, <1>3 DEF FlaggedFiles, Renaming
  <2>2. c \in Known
    BY <2>1, KnownFacts
  <2>3. Renaming(c)' = Roots[c]
    BY <1>2, <2>2 DEF Renaming
  <2> QED
    BY <2>1, <2>3, MergedRows
<1> QED
  BY <1>4, <1>5, <1>6, <1>7, <1>8, <1>9, <1>10, <1>11

LEMMA RenameExemplarIInv ==
  ASSUME IInv, RenameExemplar
  PROVE  IInv'
<1> USE DEF IInv
<1> DEFINE old   == Min(DOMAIN renames)
           canon == renames[old]
<1>1. /\ phase = "rename" /\ phase' = "rename"
      /\ DOMAIN renames # {}
      /\ exemplars' = FileMoved(old, canon)
      /\ renames' = Restrict(renames, DOMAIN renames \ {old})
      /\ UNCHANGED <<index, nextId, buffer, events, otherVars, detected,
                     starts, astray, bare, mixed>>
  BY DEF RenameExemplar
<1>2. DOMAIN buffer = {} /\ DOMAIN moves = {} /\ labelled = {}
  BY <1>1 DEF PhaseInv
<1>3. old \in DOMAIN renames
  BY <1>1, MinFacts DEF TypeOK
<1>4. canon \in Known /\ canon \notin DOMAIN renames
  BY <1>3 DEF RenameInv
<1>5. /\ DOMAIN renames' = DOMAIN renames \ {old}
      /\ \A c \in DOMAIN renames' : renames'[c] = renames[c]
      /\ renames' \in [DOMAIN renames' -> Nat]
  BY <1>1, RestrictFacts DEF TypeOK
<1> HIDE DEF old
<1>6. /\ exemplars' \in [DOMAIN exemplars' -> 1..detected]
      /\ old \notin DOMAIN exemplars'
      /\ \A c \in DOMAIN exemplars' :
           \/ c = canon /\ old \in DOMAIN exemplars /\ exemplars'[c] = exemplars[old]
           \/ c \in DOMAIN exemplars /\ exemplars'[c] = exemplars[c]
      /\ \A c \in DOMAIN exemplars : c # old => c \in DOMAIN exemplars'
      /\ old \in DOMAIN exemplars => canon \in DOMAIN exemplars'
  <2>1. exemplars \in [DOMAIN exemplars -> 1..detected]
    BY DEF TypeOK
  <2>2. CASE old \notin DOMAIN exemplars
    BY <1>1, <2>1, <2>2 DEF FileMoved
  <2>3. CASE old \in DOMAIN exemplars
    <3> DEFINE kept == Restrict(exemplars, DOMAIN exemplars \ {old})
    <3>1. /\ DOMAIN kept = DOMAIN exemplars \ {old}
          /\ \A c \in DOMAIN kept : kept[c] = exemplars[c]
          /\ kept \in [DOMAIN kept -> 1..detected]
      BY <2>1, RestrictFacts
    <3>2. exemplars' = With(kept, canon, exemplars[old])
      BY <1>1, <2>3 DEF FileMoved
    <3> HIDE DEF kept, canon
    <3>3. /\ DOMAIN exemplars' = DOMAIN kept \cup {canon}
          /\ exemplars'[canon] = exemplars[old]
          /\ \A c \in DOMAIN kept : c # canon => exemplars'[c] = kept[c]
      BY <3>2 DEF With
    <3>4. exemplars' \in [DOMAIN exemplars' -> 1..detected]
      <4>1. exemplars[old] \in 1..detected
        BY <2>1, <2>3
      <4> QED
        BY <3>1, <3>2, <4>1, WithType
    <3>5. old # canon
      BY <1>3, <1>4 DEF canon
    <3> QED
      BY <2>3, <3>1, <3>3, <3>4, <3>5
  <2> QED
    BY <2>2, <2>3
<1> HIDE DEF canon
<1>7. TypeOK'
  BY <1>1, <1>5, <1>6 DEF TypeOK, Phases, otherVars
<1>8. PhaseInv' /\ MoveInv' /\ OwnMoves'
  BY <1>1, <1>2 DEF PhaseInv, MoveInv, OwnMoves, otherVars
<1>9. IndexInv'
  BY <1>1, <1>2, NoIdsYet DEF otherVars
<1>10. Known' = Known /\ Clusters(buffer)' = {}
  BY <1>1, <1>2 DEF Known, Clusters
<1>11. RenameInv'
  BY <1>5, <1>10 DEF RenameInv
<1>12. OneSoundEach(exemplars)'
  BY <1>6 DEF OneSoundEach
<1>13. NoOrphans'
  <2>1. ~astray => DOMAIN exemplars \subseteq Known \cup DOMAIN renames
    BY <1>1, <1>2 DEF NoOrphans, Clusters
  <2> QED
    BY <1>1, <1>4, <1>5, <1>6, <1>10, <2>1 DEF NoOrphans
<1>14. OwnSounds'
  <2> SUFFICES ASSUME ~astray, ~mixed, NEW c \in DOMAIN exemplars'
               PROVE  Holds(events, exemplars'[c], Renaming(c)')
    BY <1>1, <1>2 DEF OwnSounds, Holds
  <2>1. CASE c = canon /\ old \in DOMAIN exemplars /\ exemplars'[c] = exemplars[old]
    <3>1. Renaming(old) = canon
      BY <1>3 DEF Renaming, canon
    <3>2. Renaming(c)' = canon
      BY <1>4, <1>5, <2>1 DEF Renaming
    <3> QED
      BY <1>1, <2>1, <3>1, <3>2 DEF OwnSounds
  <2>2. CASE c \in DOMAIN exemplars /\ exemplars'[c] = exemplars[c]
    <3>1. Renaming(c)' = Renaming(c)
      BY <1>5, <1>6 DEF Renaming
    <3> QED
      BY <1>1, <2>2, <3>1 DEF OwnSounds
  <2> QED
    BY <1>6, <2>1, <2>2
<1>15. FlaggedFiles'
  <2> SUFFICES ASSUME ~astray, ~bare, NEW n \in DOMAIN events, events[n].exemplar
               PROVE  \E c \in DOMAIN exemplars' : Renaming(c)' = events[n].cluster
    BY <1>1, <1>2 DEF FlaggedFiles
  <2>1. PICK c \in DOMAIN exemplars : Renaming(c) = events[n].cluster
    BY <1>1 DEF FlaggedFiles
  <2>2. CASE c = old
    <3>1. PICK d \in DOMAIN exemplars' : d = canon
      BY <1>6, <2>2
    <3>2. Renaming(c) = canon
      BY <1>3, <2>2 DEF Renaming, canon
    <3>3. Renaming(d)' = d
      BY <1>4, <1>5, <3>1 DEF Renaming
    <3> QED
      BY <2>1, <3>1, <3>2, <3>3
  <2>3. CASE c # old
    <3>1. Renaming(c)' = Renaming(c)
      BY <1>5, <2>3 DEF Renaming
    <3> QED
      BY <1>6, <2>1, <2>3, <3>1
  <2> QED
    BY <2>2, <2>3
<1> QED
  BY <1>7, <1>8, <1>9, <1>11, <1>12, <1>13, <1>14, <1>15

LEMMA RenamedIInv ==
  ASSUME IInv, Renamed
  PROVE  IInv'
<1> USE DEF IInv
<1>1. /\ phase = "rename" /\ phase' = "load" /\ DOMAIN renames = {}
      /\ UNCHANGED <<index, nextId, buffer, events, renames, exemplars,
                     otherVars, detected, starts, astray, bare, mixed>>
  BY DEF Renamed
<1>2. DOMAIN buffer = {} /\ DOMAIN moves = {} /\ labelled = {}
  BY <1>1 DEF PhaseInv
<1>3. TypeOK' /\ PhaseInv' /\ RenameInv' /\ MoveInv'
  BY <1>1, <1>2 DEF TypeOK, Phases, otherVars, PhaseInv, RenameInv, MoveInv
<1>4. IndexInv'
  BY <1>1, <1>2, NoIdsYet DEF otherVars
<1>5. OneSoundEach(exemplars)' /\ NoOrphans' /\ OwnSounds' /\ OwnMoves' /\ FlaggedFiles'
  BY <1>1 DEF OneSoundEach, NoOrphans, OwnSounds, OwnMoves, FlaggedFiles, Holds,
              Renaming, Known, Clusters
<1> QED
  BY <1>3, <1>4, <1>5

LEMMA IdAfterAllFacts ==
  ASSUME TypeOK
  PROVE  IdAfterAll \in Nat /\ \A c \in Known : c < IdAfterAll
<1> DEFINE S == {0} \cup Known
<1>1. S \in SUBSET Nat /\ IsFiniteSet(S)
  <2>1. IsFiniteSet({0})
    BY FS_Singleton
  <2>2. Known \in SUBSET Nat /\ IsFiniteSet(Known)
    BY KnownFacts
  <2>3. IsFiniteSet({0} \cup Known)
    BY <2>1, <2>2, FS_Union
  <2> QED
    BY <2>2, <2>3
<1>2. Max(S) \in S /\ \A n \in S : n <= Max(S)
  BY <1>1, MaxFacts
<1>3. Max(S) \in Nat /\ \A c \in Known : c \in Nat /\ c <= Max(S)
  BY <1>1, <1>2
<1>4. IdAfterAll = 1 + Max(S)
  BY DEF IdAfterAll
<1> HIDE DEF S
<1> QED
  BY <1>3, <1>4

LEMMA LoadIndexIInv ==
  ASSUME IInv, LoadIndex
  PROVE  IInv'
<1> USE DEF IInv
<1> DEFINE firsts == {First(c) : c \in Known}
<1>1. /\ phase = "load" /\ phase' = "retain"
      /\ index' = [n \in firsts |-> [id |-> events[n].cluster, fp |-> events[n].fp]]
      /\ nextId' = IdAfterAll
      /\ UNCHANGED <<buffer, events, renames, exemplars, otherVars, detected,
                     starts, astray, bare, mixed>>
  BY DEF LoadIndex
<1>2. DOMAIN buffer = {} /\ DOMAIN renames = {} /\ DOMAIN moves = {} /\ labelled = {}
  BY <1>1 DEF PhaseInv
<1>3. firsts \subseteq DOMAIN events /\ \A n \in firsts : n = First(events[n].cluster)
  BY FirstFacts
<1>4. /\ DOMAIN index' = firsts
      /\ \A n \in firsts : index'[n].id = events[n].cluster
      /\ index' \in [DOMAIN index' -> Entry]
  <2>1. \A n \in firsts : events[n] \in Row
    BY <1>3, KnownFacts
  <2> QED
    BY <1>1, <2>1 DEF Entry, Row
<1>5. TypeOK'
  BY <1>1, <1>3, <1>4, IdAfterAllFacts DEF TypeOK, Phases, otherVars
<1>6. PhaseInv' /\ RenameInv' /\ MoveInv'
  BY <1>1, <1>2 DEF PhaseInv, RenameInv, MoveInv, otherVars
<1>7. IndexInv'
  <2>1. Known' = Known /\ Clusters(buffer)' = {}
    BY <1>1, <1>2 DEF Known, Clusters
  <2>2. IndexIds' = Known
    <3>1. \A c \in Known : First(c) \in firsts /\ index'[First(c)].id = c
      BY <1>4, FirstFacts
    <3>2. \A n \in firsts : index'[n].id \in Known
      BY <1>3, <1>4, KnownFacts
    <3> QED
      BY <1>4, <3>1, <3>2 DEF IndexIds
  <2>3. \A n, m \in DOMAIN index' : index'[n].id = index'[m].id => n = m
    BY <1>3, <1>4
  <2>4. IdsAreFresh'
    BY <1>1, <2>1, <2>2, <2>3, IdAfterAllFacts DEF IdsAreFresh
  <2> QED
    BY <1>1, <1>2, <2>4 DEF IndexInv, MatchingIsStable, otherVars
<1>8. OneSoundEach(exemplars)' /\ NoOrphans' /\ OwnSounds' /\ OwnMoves' /\ FlaggedFiles'
  BY <1>1 DEF OneSoundEach, NoOrphans, OwnSounds, OwnMoves, FlaggedFiles, Holds,
              Renaming, Known, Clusters
<1> QED
  BY <1>5, <1>6, <1>7, <1>8

LEMMA ExpireIInv ==
  ASSUME IInv, NEW k \in 0..detected, Expire(k)
  PROVE  IInv'
<1> USE DEF IInv
<1> DEFINE kept == {n \in DOMAIN events : n > k}
<1>1. /\ phase \in {"retain", "capture"} /\ phase' \in {"prune", "capture"}
      /\ phase' = "capture" => kept = DOMAIN events
      /\ events' = Restrict(events, kept)
      /\ UNCHANGED <<index, nextId, buffer, renames, exemplars, otherVars,
                     detected, starts, astray, bare, mixed>>
  <2>1. \A n \in DOMAIN events : n \in Int /\ k \in Int
    BY DEF TypeOK
  <2>2. (\A n \in DOMAIN events : ~(n <= k)) => kept = DOMAIN events
    BY <2>1
  <2>3. phase' = "capture" => \A n \in DOMAIN events : ~(n <= k)
    BY DEF Expire
  <2> QED
    BY <2>2, <2>3 DEF Expire
<1>2. DOMAIN renames = {} /\ DOMAIN moves = {}
  BY <1>1 DEF PhaseInv
<1>3. /\ DOMAIN events' = kept
      /\ \A n \in kept : events'[n] = events[n]
      /\ events' \in [DOMAIN events' -> Row]
  BY <1>1, RestrictFacts DEF TypeOK
<1>4. Known' \subseteq Known /\ (phase' = "capture" => Known' = Known)
  BY <1>1, <1>3 DEF Known, Clusters
<1>5. TypeOK'
  BY <1>1, <1>3 DEF TypeOK, Phases, otherVars
<1>6. PhaseInv' /\ RenameInv' /\ MoveInv' /\ OwnMoves'
  BY <1>1, <1>2 DEF PhaseInv, RenameInv, MoveInv, OwnMoves, otherVars
<1>7. IndexInv'
  <2>1. IdsAreFresh'
    BY <1>1, <1>4 DEF IndexInv, IdsAreFresh, IndexIds, Clusters
  <2>2. MatchingIsStable'
    BY <1>1 DEF IndexInv, MatchingIsStable, Matching
  <2> QED
    BY <1>1, <2>1, <2>2 DEF IndexInv, otherVars
<1>8. OneSoundEach(exemplars)'
  BY <1>1 DEF OneSoundEach
<1>9. NoOrphans'
  BY <1>1, <1>4 DEF NoOrphans, Clusters
<1>10. OwnSounds'
  BY <1>1, <1>2, <1>3 DEF OwnSounds, Holds, Renaming
<1>11. FlaggedFiles'
  <2>1. \A c : Renaming(c)' = Renaming(c)
    BY <1>1 DEF Renaming
  <2>2. UNCHANGED <<buffer, exemplars, astray, bare>>
    BY <1>1
  <2>3. phase \notin {"move", "place"}
    BY <1>1
  <2>4. ASSUME ~astray, ~bare, NEW n \in DOMAIN events', events'[n].exemplar
        PROVE  \E c \in DOMAIN exemplars : Renaming(c) = events'[n].cluster
    <3>1. n \in DOMAIN events /\ events[n] = events'[n]
      BY <1>3
    <3> QED
      BY <2>3, <2>4, <3>1 DEF FlaggedFiles
  <2>5. ASSUME ~astray, ~bare, NEW n \in DOMAIN buffer, buffer[n].exemplar
        PROVE  buffer[n].cluster \in DOMAIN exemplars
    BY <2>3, <2>5 DEF FlaggedFiles
  <2> QED
    BY <2>1, <2>2, <2>4, <2>5 DEF FlaggedFiles
<1> QED
  BY <1>5, <1>6, <1>7, <1>8, <1>9, <1>10, <1>11

LEMMA PruneIInv ==
  ASSUME IInv, phase \in {"prune", "capture"}, Prune
  PROVE  IInv'
<1> USE DEF IInv
<1>1. /\ phase' = "capture"
      /\ exemplars' = Restrict(exemplars, DOMAIN exemplars \cap Known)
      /\ bare' = (bare \/ OnlyBuffered # {})
      /\ UNCHANGED <<index, nextId, buffer, events, renames, otherVars,
                     detected, starts, astray, mixed>>
  BY DEF Prune
<1>2. DOMAIN renames = {} /\ DOMAIN moves = {}
  BY <1>1 DEF PhaseInv
<1>3. /\ DOMAIN exemplars' = DOMAIN exemplars \cap Known
      /\ \A c \in DOMAIN exemplars' : exemplars'[c] = exemplars[c]
      /\ exemplars' \in [DOMAIN exemplars' -> 1..detected]
  BY <1>1, RestrictFacts DEF TypeOK
<1>4. TypeOK'
  BY <1>1, <1>3 DEF TypeOK, Phases, otherVars
<1>5. PhaseInv' /\ RenameInv' /\ MoveInv' /\ OwnMoves'
  BY <1>1, <1>2 DEF PhaseInv, RenameInv, MoveInv, OwnMoves, otherVars
<1>6. IndexInv'
  <2>1. IdsAreFresh
    BY DEF IndexInv
  <2>2. Known' = Known /\ Clusters(buffer)' = Clusters(buffer) /\ IndexIds' = IndexIds
    BY <1>1 DEF IndexIds, Known, Clusters
  <2>3. IdsAreFresh'
    BY <1>1, <2>1, <2>2 DEF IdsAreFresh
  <2>4. MatchingIsStable'
    BY <1>1 DEF IndexInv, MatchingIsStable, Matching
  <2> QED
    BY <1>1, <2>3, <2>4 DEF IndexInv, otherVars
<1>7. OneSoundEach(exemplars)'
  BY <1>3 DEF OneSoundEach
<1>8. NoOrphans'
  BY <1>1, <1>3 DEF NoOrphans, Known, Clusters
<1>9. OwnSounds'
  BY <1>1, <1>2, <1>3 DEF OwnSounds, Holds, Renaming
<1>10. FlaggedFiles'
  <2> SUFFICES ASSUME ~astray, ~bare, OnlyBuffered = {}
               PROVE  /\ \A n \in DOMAIN events : events[n].exemplar =>
                           events[n].cluster \in DOMAIN exemplars'
                      /\ \A n \in DOMAIN buffer : buffer[n].exemplar =>
                           buffer[n].cluster \in DOMAIN exemplars'
    BY <1>1, <1>2 DEF FlaggedFiles, Renaming
  <2>1. /\ \A n \in DOMAIN events : events[n].exemplar =>
             events[n].cluster \in DOMAIN exemplars
        /\ \A n \in DOMAIN buffer : buffer[n].exemplar =>
             buffer[n].cluster \in DOMAIN exemplars
    BY <1>1, <1>2 DEF FlaggedFiles, Renaming
  <2>2. \A n \in DOMAIN events : events[n].cluster \in Known
    BY KnownFacts
  <2>3. \A n \in DOMAIN buffer :
          buffer[n].cluster \in DOMAIN exemplars => buffer[n].cluster \in Known
    BY DEF OnlyBuffered, Clusters
  <2> QED
    BY <1>3, <2>1, <2>2, <2>3
<1> QED
  BY <1>4, <1>5, <1>6, <1>7, <1>8, <1>9, <1>10

LEMMA EmitKnownIInv ==
  ASSUME IInv, NEW fp \in Prints, EmitKnown(fp)
  PROVE  IInv'
<1> USE DEF IInv
<1> DEFINE first == MatchFirst(Matching(fp))
           row == [cluster |-> index[first].id, fp |-> fp, exemplar |-> FALSE]
<1>1. /\ phase = "capture" /\ phase' = phase
      /\ detected' = detected + 1 /\ detected \in Nat
      /\ Matching(fp) # {}
      /\ buffer' = With(buffer, detected', row)
      /\ UNCHANGED <<index, nextId, events, renames, exemplars, otherVars,
                     starts, astray, bare, mixed>>
  BY DEF EmitKnown, TypeOK
<1>2. DOMAIN renames = {} /\ DOMAIN moves = {}
  BY <1>1 DEF PhaseInv
<1>3. first \in Matching(fp)
  <2>1. Matching(fp) \in SUBSET Nat
    BY DEF Matching, TypeOK
  <2> QED
    BY <1>1, <2>1, MinFacts DEF MatchFirst
<1>4. first \in DOMAIN index /\ index[first].id \in IndexIds /\ row \in Row
  <2>1. first \in DOMAIN index /\ index[first] \in Entry
    BY <1>3 DEF Matching, TypeOK
  <2> QED
    BY <2>1 DEF Entry, Row, IndexIds
<1>5. /\ DOMAIN buffer' = DOMAIN buffer \cup {detected'}
      /\ buffer'[detected'] = row
      /\ \A n \in DOMAIN buffer : n # detected' => buffer'[n] = buffer[n]
      /\ buffer' \in [DOMAIN buffer' -> Row]
  <2>1. buffer' \in [DOMAIN buffer' -> Row]
    <3> HIDE DEF row
    <3> QED
      BY <1>1, <1>4, WithType DEF TypeOK
  <2> HIDE DEF row
  <2> QED
    BY <1>1, <2>1 DEF With
<1>6. \A n \in DOMAIN buffer : n # detected'
  BY <1>1 DEF TypeOK
<1>7. TypeOK'
  <2>1. 1..detected \subseteq 1..detected' /\ detected' \in 1..detected' /\ detected' \in Nat
    BY <1>1
  <2>2. /\ exemplars' \in [DOMAIN exemplars' -> 1..detected']
        /\ moves' \in [DOMAIN moves' -> 1..detected']
    BY <1>1, <2>1 DEF TypeOK, otherVars
  <2>3. /\ DOMAIN events' \subseteq 1..detected'
        /\ DOMAIN buffer' \subseteq 1..detected'
        /\ DOMAIN index' \subseteq 1..detected'
    BY <1>1, <1>5, <2>1 DEF TypeOK
  <2>4. DOMAIN events' \cap DOMAIN buffer' = {}
    BY <1>1, <1>5 DEF TypeOK
  <2> HIDE DEF row
  <2> QED
    BY <1>1, <1>5, <2>1, <2>2, <2>3, <2>4 DEF TypeOK, otherVars
<1>8. PhaseInv' /\ RenameInv' /\ MoveInv' /\ OwnMoves'
  BY <1>1, <1>2 DEF PhaseInv, RenameInv, MoveInv, OwnMoves, otherVars
<1>9. /\ Known' = Known /\ IndexIds' = IndexIds
      /\ Clusters(buffer)' = Clusters(buffer) \cup {index[first].id}
  <2>1. row.cluster = index[first].id
    OBVIOUS
  <2> HIDE DEF row, first
  <2> QED
    BY <1>1, <1>5, <1>6, <2>1 DEF Known, Clusters, IndexIds
<1>10. IndexInv'
  <2>1. IdsAreFresh /\ MatchingIsStable
    BY DEF IndexInv
  <2>2. IdsAreFresh'
    BY <1>1, <1>4, <1>9, <2>1 DEF IdsAreFresh
  <2>3. ASSUME NEW p PROVE Matching(p)' = Matching(p)
    BY <1>1 DEF Matching
  <2>4. row.fp = fp /\ row.cluster = index[first].id
    OBVIOUS
  <2>5. MatchingIsStable'
    <3> SUFFICES ASSUME NEW n \in DOMAIN buffer'
                 PROVE  /\ Matching(buffer'[n].fp) # {}
                        /\ buffer'[n].cluster
                             = index[MatchFirst(Matching(buffer'[n].fp))].id
      <4>1. index' = index
        BY <1>1
      <4> HIDE DEF row
      <4> QED
        BY <4>1 DEF MatchingIsStable, Matching, MatchFirst
    <3>1. CASE n \in DOMAIN buffer
      BY <1>5, <1>6, <2>1, <3>1 DEF MatchingIsStable
    <3>2. CASE n = detected'
      <4> HIDE DEF row
      <4>1. buffer'[n].fp = fp /\ buffer'[n].cluster = index[first].id
        BY <1>5, <2>4, <3>2
      <4> QED
        BY <1>1, <4>1
    <3> QED
      BY <1>5, <3>1, <3>2
  <2> QED
    BY <1>1, <2>2, <2>5 DEF IndexInv, otherVars
<1>11. OneSoundEach(exemplars)'
  BY <1>1 DEF OneSoundEach
<1>12. NoOrphans'
  BY <1>1, <1>9 DEF NoOrphans
<1>13. OwnSounds'
  <2>1. \A c \in DOMAIN exemplars : exemplars[c] # detected'
    BY <1>1 DEF TypeOK
  <2> HIDE DEF row
  <2> QED
    BY <1>1, <1>2, <1>5, <1>6, <2>1 DEF OwnSounds, Holds, Renaming
<1>14. FlaggedFiles'
  <2>1. ~ row.exemplar
    OBVIOUS
  <2> HIDE DEF row
  <2> QED
    BY <1>1, <1>2, <1>5, <1>6, <2>1 DEF FlaggedFiles, Renaming
<1> QED
  BY <1>7, <1>8, <1>10, <1>11, <1>12, <1>13, <1>14

(* The index takes a new entry behind those it has: what matched before    *)
(* still does, at the same place.                                          *)
LEMMA AppendKeepsFirst ==
  ASSUME NEW M \in SUBSET Nat, NEW last \in Nat, \A n \in M : n < last,
         NEW N, N = M \/ N = M \cup {last}
  PROVE  M # {} => Min(M) \in M /\ Min(N) = Min(M)
<1>1. ASSUME M # {} PROVE Min(M) \in M /\ Min(N) = Min(M)
  <2>1. /\ N \in SUBSET Nat /\ N # {}
        /\ M \subseteq N /\ \A n \in N : n \in M \/ n = last
    BY <1>1
  <2>2. Min(M) \in M /\ \A n \in M : Min(M) <= n
    BY <1>1, MinFacts
  <2>3. Min(N) \in N /\ \A n \in N : Min(N) <= n
    BY <2>1, MinFacts
  <2>4. Min(N) <= Min(M) /\ Min(M) < last /\ Min(M) \in Nat /\ Min(N) \in Nat
    BY <2>1, <2>2, <2>3
  <2>5. Min(N) \in M
    BY <2>1, <2>3, <2>4
  <2> QED
    BY <2>2, <2>4, <2>5
<1> QED
  BY <1>1

LEMMA EmitNewIInv ==
  ASSUME IInv, NEW fp \in Prints, NEW saved \in BOOLEAN, EmitNew(fp, saved)
  PROVE  IInv'
<1> USE DEF IInv
<1> DEFINE row   == [cluster |-> nextId, fp |-> fp, exemplar |-> TRUE]
           entry == [id |-> nextId, fp |-> fp]
<1>1. /\ phase = "capture" /\ phase' = phase
      /\ detected' = detected + 1 /\ detected \in Nat
      /\ Matching(fp) = {}
      /\ index' = With(index, detected', entry)
      /\ nextId' = nextId + 1 /\ nextId \in Nat
      /\ exemplars' = IF saved THEN With(exemplars, nextId, detected') ELSE exemplars
      /\ buffer' = With(buffer, detected', row)
      /\ bare' = (bare \/ ~saved)
      /\ UNCHANGED <<events, renames, otherVars, starts, astray, mixed>>
  BY DEF EmitNew, NewId, TypeOK
<1>2. DOMAIN renames = {} /\ DOMAIN moves = {}
  BY <1>1 DEF PhaseInv
<1>3. row \in Row /\ entry \in Entry
  BY <1>1 DEF Row, Entry
<1>4. /\ 1..detected \subseteq 1..detected' /\ detected' \in 1..detected'
      /\ detected' \in Nat /\ \A n \in 1..detected : n < detected'
  BY <1>1
<1>5. /\ row.cluster = nextId /\ row.fp = fp /\ row.exemplar
      /\ entry.id = nextId /\ entry.fp = fp
  OBVIOUS
<1> HIDE DEF row, entry
<1>6. /\ DOMAIN buffer' = DOMAIN buffer \cup {detected'}
      /\ buffer'[detected'] = row
      /\ \A n \in DOMAIN buffer : n # detected' /\ buffer'[n] = buffer[n]
      /\ buffer' \in [DOMAIN buffer' -> Row]
  <2>1. buffer' \in [DOMAIN buffer' -> Row]
    BY <1>1, <1>3, WithType DEF TypeOK
  <2>2. \A n \in DOMAIN buffer : n # detected'
    BY <1>4 DEF TypeOK
  <2> QED
    BY <1>1, <2>1, <2>2 DEF With
<1>7. /\ DOMAIN index' = DOMAIN index \cup {detected'}
      /\ index'[detected'] = entry
      /\ \A n \in DOMAIN index : n # detected' /\ index'[n] = index[n]
      /\ index' \in [DOMAIN index' -> Entry]
  <2>1. index' \in [DOMAIN index' -> Entry]
    BY <1>1, <1>3, WithType DEF TypeOK
  <2>2. \A n \in DOMAIN index : n # detected'
    BY <1>4 DEF TypeOK
  <2> QED
    BY <1>1, <2>1, <2>2 DEF With
<1>8. /\ exemplars' \in [DOMAIN exemplars' -> 1..detected']
      /\ \A c \in DOMAIN exemplars' :
           \/ c = nextId /\ exemplars'[c] = detected'
           \/ c \in DOMAIN exemplars /\ exemplars'[c] = exemplars[c]
      /\ DOMAIN exemplars \subseteq DOMAIN exemplars'
      /\ saved => nextId \in DOMAIN exemplars'
  <2>1. exemplars \in [DOMAIN exemplars -> 1..detected']
    BY <1>4 DEF TypeOK
  <2>2. CASE saved
    <3>1. exemplars' = With(exemplars, nextId, detected')
      BY <1>1, <2>2
    <3>2. exemplars' \in [DOMAIN exemplars' -> 1..detected']
      BY <1>4, <2>1, <3>1, WithType
    <3> QED
      BY <3>1, <3>2 DEF With
  <2>3. CASE ~saved
    BY <1>1, <2>1, <2>3
  <2> QED
    BY <2>2, <2>3
<1>9. \A c \in DOMAIN exemplars : exemplars[c] # detected'
  BY <1>4 DEF TypeOK
<1>10. TypeOK'
  <2>1. moves' \in [DOMAIN moves' -> 1..detected']
    BY <1>1, <1>4 DEF TypeOK, otherVars
  <2>2. /\ DOMAIN events' \subseteq 1..detected'
        /\ DOMAIN buffer' \subseteq 1..detected'
        /\ DOMAIN index' \subseteq 1..detected'
    BY <1>1, <1>4, <1>6, <1>7 DEF TypeOK
  <2> QED
    BY <1>1, <1>4, <1>6, <1>7, <1>8, <2>1, <2>2 DEF TypeOK, otherVars
<1>11. PhaseInv' /\ RenameInv' /\ MoveInv' /\ OwnMoves'
  BY <1>1, <1>2 DEF PhaseInv, RenameInv, MoveInv, OwnMoves, otherVars
<1>12. /\ Known' = Known /\ IndexIds' = IndexIds \cup {nextId}
       /\ Clusters(buffer)' = Clusters(buffer) \cup {nextId}
  BY <1>1, <1>5, <1>6, <1>7 DEF Known, Clusters, IndexIds
<1>13. IndexInv'
  <2>1. IdsAreFresh /\ MatchingIsStable
    BY DEF IndexInv
  <2>2. IdsAreFresh'
    <3>1. \A c \in IndexIds : c \in Nat /\ c < nextId
      BY <1>1, <2>1 DEF IdsAreFresh, IndexIds, TypeOK, Entry
    <3>2. \A n \in DOMAIN index : index[n].id # nextId
      BY <1>1, <3>1 DEF IndexIds
    <3>3. \A n, m \in DOMAIN index' : index'[n].id = index'[m].id => n = m
      BY <1>1, <1>5, <1>7, <2>1, <3>2 DEF IdsAreFresh
    <3>4. \A c \in IndexIds' : c < nextId'
      BY <1>1, <1>12, <3>1
    <3> QED
      BY <1>1, <1>12, <2>1, <3>3, <3>4 DEF IdsAreFresh
  <2>3. ASSUME NEW p
        PROVE  /\ \/ Matching(p)' = Matching(p)
                  \/ Matching(p)' = Matching(p) \cup {detected'}
               /\ Matching(p) \in SUBSET Nat
               /\ \A n \in Matching(p) : n \in DOMAIN index /\ n < detected'
    <3>1. \A n \in DOMAIN index : n \in Nat /\ n < detected'
      BY <1>4 DEF TypeOK
    <3>2. Matching(p)' = {n \in DOMAIN index' : <<p, index'[n].fp>> \in Compatible}
      BY DEF Matching
    <3>3. CASE <<p, index'[detected'].fp>> \in Compatible
      BY <1>7, <3>1, <3>2, <3>3 DEF Matching
    <3>4. CASE <<p, index'[detected'].fp>> \notin Compatible
      BY <1>7, <3>1, <3>2, <3>4 DEF Matching
    <3> QED
      BY <3>1, <3>3, <3>4 DEF Matching
  <2>4. Matching(fp)' = {detected'}
    <3>1. <<fp, index'[detected'].fp>> \in Compatible
      BY <1>5, <1>7, ClusterAssumption
    <3>2. detected' \in Matching(fp)'
      BY <1>7, <3>1 DEF Matching
    <3> QED
      BY <1>1, <2>3, <3>2
  <2>5. MatchingIsStable'
    <3> SUFFICES ASSUME NEW n \in DOMAIN buffer', NEW p, p = buffer'[n].fp
                 PROVE  /\ Matching(p)' # {}
                        /\ buffer'[n].cluster = index'[Min(Matching(p)')].id
      BY DEF MatchingIsStable, Matching, MatchFirst
    <3>1. CASE n \in DOMAIN buffer
      <4>1. /\ p = buffer[n].fp /\ Matching(p) # {}
            /\ buffer'[n].cluster = index[Min(Matching(p))].id
        BY <1>6, <2>1, <3>1 DEF MatchingIsStable, MatchFirst
      <4>2. Min(Matching(p)) \in Matching(p) /\ Min(Matching(p)') = Min(Matching(p))
        BY <1>4, <2>3, <4>1, AppendKeepsFirst
      <4>3. Matching(p)' # {}
        BY <2>3, <4>1
      <4>4. index'[Min(Matching(p))] = index[Min(Matching(p))]
        BY <1>7, <2>3, <4>2
      <4> QED
        BY <4>1, <4>2, <4>3, <4>4
    <3>2. CASE n = detected'
      <4>1. p = fp /\ buffer'[n].cluster = nextId
        BY <1>5, <1>6, <3>2
      <4>2. Matching(p)' = {detected'}
        BY <2>4, <4>1 DEF Matching
      <4>3. Min({detected'}) = detected'
        <5>1. {detected'} \in SUBSET Nat
          BY <1>4
        <5> QED
          BY <5>1, MinFacts
      <4> QED
        BY <1>5, <1>7, <4>1, <4>2, <4>3
    <3> QED
      BY <1>6, <3>1, <3>2
  <2>6. \A c \in labelled' : c < nextId'
    BY <1>1 DEF IndexInv, TypeOK, otherVars
  <2> QED
    BY <2>2, <2>5, <2>6 DEF IndexInv
<1>14. OneSoundEach(exemplars)'
  BY <1>8, <1>9 DEF OneSoundEach
<1>15. NoOrphans'
  BY <1>1, <1>8, <1>12 DEF NoOrphans
<1>16. OwnSounds'
  <2> SUFFICES ASSUME ~astray, ~mixed, NEW c \in DOMAIN exemplars'
               PROVE  /\ Holds(events, exemplars'[c], c)
                      /\ Holds(buffer', exemplars'[c], c)
    BY <1>1, <1>2 DEF OwnSounds, Holds, Renaming
  <2>1. CASE c = nextId /\ exemplars'[c] = detected'
    <3>1. detected' \notin DOMAIN events
      BY <1>4 DEF TypeOK
    <3> QED
      BY <1>5, <1>6, <2>1, <3>1 DEF Holds
  <2>2. CASE c \in DOMAIN exemplars /\ exemplars'[c] = exemplars[c]
    BY <1>1, <1>2, <1>6, <1>9, <2>2 DEF OwnSounds, Holds, Renaming
  <2> QED
    BY <1>8, <2>1, <2>2
<1>17. FlaggedFiles'
  <2> SUFFICES ASSUME ~astray, ~bare, saved
               PROVE  /\ \A n \in DOMAIN events : events[n].exemplar =>
                           events[n].cluster \in DOMAIN exemplars'
                      /\ \A n \in DOMAIN buffer' : buffer'[n].exemplar =>
                           buffer'[n].cluster \in DOMAIN exemplars'
    BY <1>1, <1>2 DEF FlaggedFiles, Renaming
  <2>1. /\ \A n \in DOMAIN events : events[n].exemplar =>
             events[n].cluster \in DOMAIN exemplars
        /\ \A n \in DOMAIN buffer : buffer[n].exemplar =>
             buffer[n].cluster \in DOMAIN exemplars
    BY <1>1, <1>2 DEF FlaggedFiles, Renaming
  <2> QED
    BY <1>5, <1>6, <1>8, <2>1
<1> QED
  BY <1>10, <1>11, <1>13, <1>14, <1>15, <1>16, <1>17

LEMMA StoredFacts ==
  ASSUME TypeOK
  PROVE  /\ DOMAIN Stored \subseteq 1..detected
         /\ Stored \in [DOMAIN Stored -> Row]
         /\ Clusters(Stored) = Known \cup Clusters(buffer)
         /\ \A n, c : Holds(events, n, c) /\ Holds(buffer, n, c)
                     => Holds(Stored, n, c)
<1>1. /\ DOMAIN Stored = DOMAIN events \cup DOMAIN buffer
      /\ \A n \in DOMAIN events : Stored[n] = events[n]
      /\ \A n \in DOMAIN buffer : Stored[n] = buffer[n]
      /\ Stored \in [DOMAIN Stored -> Row]
  BY DEF Stored, TypeOK
<1>2. Clusters(Stored) = Known \cup Clusters(buffer)
  BY <1>1 DEF Known, Clusters
<1>3. DOMAIN Stored \subseteq 1..detected
  BY <1>1 DEF TypeOK
<1> QED
  BY <1>1, <1>2, <1>3 DEF Holds

LEMMA PersistIInv ==
  ASSUME IInv, Persist
  PROVE  IInv'
<1> USE DEF IInv
<1>1. /\ phase = "capture" /\ phase' = phase
      /\ events' = Stored /\ DOMAIN buffer' = {}
      /\ buffer' \in [DOMAIN buffer' -> Row]
      /\ UNCHANGED <<index, nextId, renames, exemplars, otherVars, detected,
                     starts, astray, bare, mixed>>
  BY DEF Persist, Nothing
<1>2. DOMAIN renames = {} /\ DOMAIN moves = {}
  BY <1>1 DEF PhaseInv
<1>3. TypeOK'
  BY <1>1, StoredFacts DEF TypeOK, otherVars
<1>4. PhaseInv' /\ RenameInv' /\ MoveInv' /\ OwnMoves'
  BY <1>1, <1>2 DEF PhaseInv, RenameInv, MoveInv, OwnMoves, otherVars
<1>5. /\ Known' = Known \cup Clusters(buffer) /\ Clusters(buffer)' = {}
      /\ IndexIds' = IndexIds
  <2>1. Known' = Clusters(Stored)
    BY <1>1 DEF Known, Clusters
  <2>2. Clusters(buffer)' = {} /\ IndexIds' = IndexIds
    BY <1>1 DEF Clusters, IndexIds
  <2> QED
    BY <2>1, <2>2, StoredFacts
<1>6. IndexInv'
  BY <1>1, <1>5 DEF IndexInv, IdsAreFresh, MatchingIsStable, otherVars
<1>7. OneSoundEach(exemplars)'
  BY <1>1 DEF OneSoundEach
<1>8. NoOrphans'
  BY <1>1, <1>5 DEF NoOrphans
<1>9. OwnSounds'
  <2> SUFFICES ASSUME ~astray, ~mixed, NEW c \in DOMAIN exemplars
               PROVE  Holds(Stored, exemplars[c], c)
    BY <1>1, <1>2 DEF OwnSounds, Holds, Renaming
  <2>1. Holds(events, exemplars[c], c) /\ Holds(buffer, exemplars[c], c)
    BY <1>1, <1>2 DEF OwnSounds, Renaming
  <2> QED
    BY <2>1, StoredFacts
<1>10. FlaggedFiles'
  <2> SUFFICES ASSUME ~astray, ~bare, NEW n \in DOMAIN Stored, Stored[n].exemplar
               PROVE  Stored[n].cluster \in DOMAIN exemplars
    BY <1>1, <1>2 DEF FlaggedFiles, Renaming
  <2>1. CASE n \in DOMAIN buffer
    BY <1>1, <2>1 DEF FlaggedFiles, Stored
  <2>2. CASE n \notin DOMAIN buffer
    BY <1>1, <1>2, <2>2 DEF FlaggedFiles, Renaming, Stored
  <2> QED
    BY <2>1, <2>2
<1> QED
  BY <1>3, <1>4, <1>6, <1>7, <1>8, <1>9, <1>10

LEMMA TriageIInv ==
  ASSUME IInv, NEW c \in Known, Triage(c)
  PROVE  IInv'
<1> USE DEF IInv
<1>1. /\ phase = "capture" /\ phase' = phase
      /\ labelled' = labelled \cup {c}
      /\ UNCHANGED <<index, nextId, buffer, events, renames, exemplars, moves,
                     scripts, detected, starts, astray, bare, mixed>>
  BY DEF Triage
<1>2. c \in Nat /\ c < nextId
  BY <1>1, KnownFacts DEF IndexInv, IdsAreFresh
<1>3. TypeOK'
  BY <1>1, <1>2 DEF TypeOK
<1>4. PhaseInv' /\ RenameInv' /\ MoveInv' /\ OwnMoves'
  BY <1>1 DEF PhaseInv, RenameInv, MoveInv, OwnMoves, Known, Clusters
<1>5. IndexInv'
  <2>1. IdsAreFresh'
    BY <1>1, SMTT(30) DEF IndexInv, IdsAreFresh, Known, Clusters, IndexIds
  <2>2. MatchingIsStable'
    BY <1>1 DEF IndexInv, MatchingIsStable, Matching
  <2> QED
    BY <1>1, <1>2, <2>1, <2>2 DEF IndexInv
<1>6. OneSoundEach(exemplars)' /\ NoOrphans' /\ OwnSounds' /\ FlaggedFiles'
  BY <1>1 DEF OneSoundEach, NoOrphans, OwnSounds, FlaggedFiles, Holds, Renaming,
              Known, Clusters
<1> QED
  BY <1>3, <1>4, <1>5, <1>6

LEMMA StopAndStartIInv ==
  ASSUME IInv, StopAndStart
  PROVE  IInv'
<1> USE DEF IInv
<1>1. /\ phase = "capture" /\ phase' = "merge"
      /\ events' = Stored
      /\ DOMAIN buffer' = {} /\ buffer' \in [DOMAIN buffer' -> Row]
      /\ DOMAIN index' = {} /\ index' \in [DOMAIN index' -> Entry]
      /\ nextId' = 1 /\ labelled' = {}
      /\ starts' = starts + 1
      /\ UNCHANGED <<renames, exemplars, moves, scripts, detected, astray, bare, mixed>>
  BY DEF StopAndStart, Nothing
<1>2. DOMAIN renames = {} /\ DOMAIN moves = {}
  BY <1>1 DEF PhaseInv
<1>3. TypeOK'
  BY <1>1, StoredFacts DEF TypeOK, Phases
<1>4. PhaseInv' /\ RenameInv' /\ MoveInv' /\ OwnMoves'
  BY <1>1, <1>2 DEF PhaseInv, RenameInv, MoveInv, OwnMoves
<1>5. IndexInv'
  BY <1>1, NoIdsYet
<1>6. Known' = Known \cup Clusters(buffer)
  <2>1. Known' = Clusters(Stored)
    BY <1>1 DEF Known, Clusters
  <2> QED
    BY <2>1, StoredFacts
<1>7. OneSoundEach(exemplars)'
  BY <1>1 DEF OneSoundEach
<1>8. NoOrphans'
  BY <1>1, <1>6 DEF NoOrphans
<1>9. OwnSounds'
  <2> SUFFICES ASSUME ~astray, ~mixed, NEW c \in DOMAIN exemplars
               PROVE  Holds(Stored, exemplars[c], c)
    BY <1>1, <1>2 DEF OwnSounds, Holds, Renaming
  <2>1. Holds(events, exemplars[c], c) /\ Holds(buffer, exemplars[c], c)
    BY <1>1, <1>2 DEF OwnSounds, Renaming
  <2> QED
    BY <2>1, StoredFacts
<1>10. FlaggedFiles'
  <2> SUFFICES ASSUME ~astray, ~bare, NEW n \in DOMAIN Stored, Stored[n].exemplar
               PROVE  Stored[n].cluster \in DOMAIN exemplars
    BY <1>1, <1>2 DEF FlaggedFiles, Renaming
  <2>1. CASE n \in DOMAIN buffer
    BY <1>1, <2>1 DEF FlaggedFiles, Stored
  <2>2. CASE n \notin DOMAIN buffer
    BY <1>1, <1>2, <2>2 DEF FlaggedFiles, Renaming, Stored
  <2> QED
    BY <2>1, <2>2
<1> QED
  BY <1>3, <1>4, <1>5, <1>7, <1>8, <1>9, <1>10

LEMMA CrashAndStartIInv ==
  ASSUME IInv, CrashAndStart
  PROVE  IInv'
<1> USE DEF IInv
<1>1. /\ phase' = "merge" /\ astray' \in BOOLEAN
      /\ ~astray' => /\ ~astray /\ phase \notin {"prune", "move", "place"}
                     /\ DOMAIN renames = {} /\ OnlyBuffered = {}
      /\ DOMAIN buffer' = {} /\ buffer' \in [DOMAIN buffer' -> Row]
      /\ DOMAIN index' = {} /\ index' \in [DOMAIN index' -> Entry]
      /\ nextId' = 1 /\ labelled' = {}
      /\ DOMAIN renames' = {} /\ renames' \in [DOMAIN renames' -> Nat]
      /\ DOMAIN moves' = {} /\ moves' \in [DOMAIN moves' -> 1..detected]
      /\ starts' = starts + 1
      /\ UNCHANGED <<events, exemplars, scripts, detected, bare, mixed>>
  BY DEF CrashAndStart, Nothing, TypeOK
<1>2. TypeOK'
  BY <1>1 DEF TypeOK, Phases
<1>3. PhaseInv' /\ RenameInv' /\ MoveInv'
  BY <1>1 DEF PhaseInv, RenameInv, MoveInv
<1>4. IndexInv'
  BY <1>1, NoIdsYet
<1>5. OneSoundEach(exemplars)' /\ OwnMoves'
  BY <1>1 DEF OneSoundEach, OwnMoves
<1>6. NoOrphans'
  <2> SUFFICES ASSUME ~astray', NEW c \in DOMAIN exemplars PROVE c \in Known
    BY <1>1 DEF NoOrphans, Known, Clusters
  <2> QED
    BY <1>1 DEF NoOrphans, OnlyBuffered
<1>7. OwnSounds' /\ FlaggedFiles'
  BY <1>1 DEF OwnSounds, FlaggedFiles, Holds, Renaming
<1> QED
  BY <1>2, <1>3, <1>4, <1>5, <1>6, <1>7

-----------------------------------------------------------------------------
(* The script.                                                             *)
LEMMA ReplayFacts ==
  ASSUME TypeOK
  PROVE  DOMAIN Replay = DOMAIN events /\ \A n \in DOMAIN events : Replay[n] \in Nat
<1>1. IsFiniteSet(DOMAIN events)
  <2>1. detected \in Int
    BY DEF TypeOK
  <2>2. IsFiniteSet(1..detected)
    BY <2>1, FS_Interval
  <2> QED
    BY <2>2, FS_Subset DEF TypeOK
<1>2. ASSUME NEW S \in SUBSET (DOMAIN events)
      PROVE  Cardinality({Opener[m] : m \in S}) \in Nat
  <2>1. IsFiniteSet(S)
    BY <1>1, FS_Subset
  <2> DEFINE column == [m \in S |-> Opener[m]]
  <2>2. column \in Surjection(S, {Opener[m] : m \in S})
    BY DEF Surjection
  <2> HIDE DEF column
  <2>3. IsFiniteSet({Opener[m] : m \in S})
    BY <2>1, <2>2, FS_Surjection
  <2> QED
    BY <2>3, FS_CardinalityType
<1>3. \A n \in DOMAIN events :
        {k \in DOMAIN events : Opener[k] <= Opener[n]} \in SUBSET (DOMAIN events)
  OBVIOUS
<1> QED
  BY <1>2, <1>3 DEF Replay

(* Every new cluster has one source at most, and so has every old file.    *)
LEMMA SourcesFacts ==
  ASSUME TypeOK, NEW ids, \A n \in DOMAIN events : ids[n] \in Nat
  PROVE  /\ Sources(ids) \subseteq WithFile
         /\ \A n, m \in Sources(ids) : ids[n] = ids[m] => n = m
         /\ \A n, m \in Sources(ids) :
              events[n].cluster = events[m].cluster => ids[n] = ids[m]
<1> DEFINE firsts == {n \in WithFile : \A m \in WithFile : ids[m] = ids[n] => n <= m}
<1>1. Sources(ids) = {n \in firsts : \A m \in firsts :
                       events[m].cluster = events[n].cluster => ids[n] <= ids[m]}
  BY DEF Sources
<1>2. \A n \in WithFile : n \in Nat /\ ids[n] \in Nat
  BY DEF WithFile, TypeOK
<1>3. \A n, m \in firsts : ids[n] = ids[m] => n = m
  BY <1>2
<1> QED
  BY <1>1, <1>2, <1>3

LEMMA ReclusterIInv ==
  ASSUME IInv, Recluster
  PROVE  IInv'
<1> USE DEF IInv
<1> DEFINE ids == Replay
           sources == Sources(ids)
<1>1. /\ phase = "merge" /\ phase' = "move"
      /\ events' = [n \in DOMAIN events |-> [cluster  |-> ids[n],
                                             fp       |-> events[n].fp,
                                             exemplar |-> n \in sources]]
      /\ moves' = [c \in {ids[n] : n \in sources} |->
                     exemplars[events[CHOOSE n \in sources : ids[n] = c].cluster]]
      /\ mixed' = (mixed \/ \E n, m \in Flagged :
                               n # m /\ events[n].cluster = events[m].cluster)
      /\ UNCHANGED <<index, nextId, buffer, renames, exemplars, labelled,
                     detected, starts, astray, bare>>
  BY DEF Recluster
<1>2. DOMAIN buffer = {} /\ DOMAIN renames = {} /\ labelled = {}
  BY <1>1 DEF PhaseInv
<1>3. \A n \in DOMAIN events : ids[n] \in Nat
  BY ReplayFacts
<1> HIDE DEF ids
<1>4. /\ sources \subseteq WithFile
      /\ \A n, m \in sources : ids[n] = ids[m] => n = m
      /\ \A n, m \in sources :
           events[n].cluster = events[m].cluster => ids[n] = ids[m]
  BY <1>3, SourcesFacts
<1> HIDE DEF sources
<1>5. \A n \in sources : /\ n \in DOMAIN events /\ n \in Flagged
                         /\ events[n].cluster \in DOMAIN exemplars
  BY <1>4 DEF WithFile, Flagged
<1>6. /\ DOMAIN events' = DOMAIN events
      /\ \A n \in DOMAIN events : /\ events'[n].cluster = ids[n]
                                  /\ events'[n].exemplar = (n \in sources)
      /\ events' \in [DOMAIN events' -> Row]
  <2>1. \A n \in DOMAIN events : events[n].fp \in Prints
    BY KnownFacts DEF Row
  <2> QED
    BY <1>1, <1>3, <2>1 DEF Row
<1>7. /\ DOMAIN moves' = {ids[n] : n \in sources}
      /\ \A n \in sources : moves'[ids[n]] = exemplars[events[n].cluster]
  <2>1. \A n \in sources : (CHOOSE m \in sources : ids[m] = ids[n]) = n
    BY <1>4
  <2> QED
    BY <1>1, <2>1
<1>8. moves' \in [DOMAIN moves' -> 1..detected]
  <2>1. \A c \in DOMAIN moves' : moves'[c] \in 1..detected
    BY <1>5, <1>7 DEF TypeOK
  <2>2. moves' = [c \in DOMAIN moves' |-> moves'[c]]
    BY <1>1
  <2> QED
    BY <2>1, <2>2
<1>9. TypeOK'
  BY <1>1, <1>6, <1>8 DEF TypeOK, Phases
<1>10. PhaseInv' /\ RenameInv' /\ NoOrphans' /\ OwnSounds' /\ FlaggedFiles'
  BY <1>1, <1>2 DEF PhaseInv, RenameInv, NoOrphans, OwnSounds, FlaggedFiles
<1>11. IndexInv'
  BY <1>1, <1>2, NoIdsYet
<1>12. OneSoundEach(exemplars)'
  BY <1>1 DEF OneSoundEach
<1>13. MoveInv'
  <2>1. Flagged' = sources
    BY <1>5, <1>6 DEF Flagged
  <2>2. {events'[n].cluster : n \in Flagged'} = DOMAIN moves'
    BY <1>5, <1>6, <1>7, <2>1
  <2>3. \A n, m \in Flagged' : events'[n].cluster = events'[m].cluster => n = m
    BY <1>4, <1>5, <1>6, <2>1
  <2>4. \A c, d \in DOMAIN moves' : moves'[c] = moves'[d] => c = d
    BY <1>4, <1>5, <1>7 DEF OneSoundEach
  <2> QED
    BY <1>1, <2>2, <2>3, <2>4 DEF MoveInv, OneSoundEach
<1>14. OwnMoves'
  <2> SUFFICES ASSUME ~astray, ~mixed', NEW n \in sources
               PROVE  Holds(events', exemplars[events[n].cluster], ids[n])
    BY <1>1, <1>7 DEF OwnMoves
  <2>1. Holds(events, exemplars[events[n].cluster], events[n].cluster)
    BY <1>1, <1>2, <1>5 DEF OwnSounds, Renaming
  <2>2. exemplars[events[n].cluster] \in DOMAIN events
          => exemplars[events[n].cluster] = n
    BY <1>1, <1>5, <2>1 DEF Holds, Flagged
  <2> QED
    BY <1>5, <1>6, <2>2 DEF Holds
<1> QED
  BY <1>9, <1>10, <1>11, <1>12, <1>13, <1>14

(* A step of the script among its files needs to keep their part of the    *)
(* invariant only.                                                         *)
LEMMA FileStep ==
  ASSUME IInv, phase \in {"move", "place"}, phase' \in {"move", "place"},
         UNCHANGED <<index, nextId, buffer, events, renames, otherVars,
                     detected, starts, astray, bare, mixed>>,
         exemplars' \in [DOMAIN exemplars' -> 1..detected],
         \/ \A c \in DOMAIN exemplars' :
              c \in DOMAIN exemplars /\ exemplars'[c] = exemplars[c]
         \/ OneSoundEach(exemplars'),
         phase' = "place" =>
           /\ DOMAIN exemplars' \subseteq DOMAIN moves
           /\ \A d \in DOMAIN exemplars', c \in DOMAIN moves :
                exemplars'[d] = moves[c] => d = c
  PROVE  IInv'
<1> USE DEF IInv, otherVars
<1>1. DOMAIN buffer = {} /\ DOMAIN renames = {} /\ labelled = {}
  BY DEF PhaseInv
<1>2. TypeOK'
  BY DEF TypeOK, Phases
<1>3. PhaseInv' /\ RenameInv'
  BY <1>1 DEF PhaseInv, RenameInv
<1>4. IndexInv'
  BY <1>1, NoIdsYet
<1>5. OneSoundEach(exemplars)'
  BY DEF OneSoundEach
<1>6. MoveInv'
  <2>1. /\ {events[n].cluster : n \in Flagged} = DOMAIN moves
        /\ \A n, m \in Flagged : events[n].cluster = events[m].cluster => n = m
        /\ OneSoundEach(moves)
    BY DEF MoveInv
  <2>2. Flagged' = Flagged
    BY DEF Flagged
  <2>3. events' = events /\ moves' = moves
    OBVIOUS
  <2> QED
    BY <2>1, <2>2, <2>3 DEF MoveInv, OneSoundEach
<1>7. NoOrphans' /\ OwnSounds' /\ FlaggedFiles' /\ OwnMoves'
  BY DEF NoOrphans, OwnSounds, FlaggedFiles, OwnMoves, Holds
<1> QED
  BY <1>2, <1>3, <1>4, <1>5, <1>6, <1>7

LEMMA SetAsideIInv ==
  ASSUME IInv, SetAside
  PROVE  IInv'
<1> USE DEF IInv
<1> DEFINE kept == {d \in DOMAIN exemplars : exemplars[d] # moves[Min(ToSetAside)]}
<1>1. /\ phase = "move" /\ phase' = phase
      /\ exemplars' = Restrict(exemplars, kept)
      /\ UNCHANGED <<index, nextId, buffer, events, renames, otherVars,
                     detected, starts, astray, bare, mixed>>
  BY DEF SetAside
<1>2. /\ DOMAIN exemplars' \subseteq DOMAIN exemplars
      /\ \A c \in DOMAIN exemplars' : exemplars'[c] = exemplars[c]
      /\ exemplars' \in [DOMAIN exemplars' -> 1..detected]
  BY <1>1, RestrictFacts DEF TypeOK
<1> QED
  BY <1>1, <1>2, FileStep

LEMMA RemoveOrphansIInv ==
  ASSUME IInv, RemoveOrphans
  PROVE  IInv'
<1> USE DEF IInv
<1>1. /\ phase = "move" /\ phase' = "place"
      /\ exemplars' = Restrict(exemplars, NotOrphans)
      /\ UNCHANGED <<index, nextId, buffer, events, renames, otherVars,
                     detected, starts, astray, bare, mixed>>
  BY DEF RemoveOrphans
<1>2. /\ DOMAIN exemplars' = DOMAIN exemplars \cap DOMAIN moves
      /\ \A c \in DOMAIN exemplars' : exemplars'[c] = exemplars[c]
      /\ exemplars' \in [DOMAIN exemplars' -> 1..detected]
  BY <1>1, RestrictFacts DEF TypeOK, NotOrphans
<1>3. \A d \in DOMAIN exemplars, c \in DOMAIN moves : exemplars[d] # moves[c]
  BY DEF RemoveOrphans, ToSetAside
<1> QED
  BY <1>1, <1>2, <1>3, FileStep

LEMMA PlaceFileIInv ==
  ASSUME IInv, PlaceFile
  PROVE  IInv'
<1> USE DEF IInv
<1> DEFINE new == Min(ToPlace)
<1>1. /\ phase = "place" /\ phase' = phase /\ ToPlace # {}
      /\ exemplars' = With(exemplars, new, moves[new])
      /\ UNCHANGED <<index, nextId, buffer, events, renames, otherVars,
                     detected, starts, astray, bare, mixed>>
  BY DEF PlaceFile
<1>2. new \in DOMAIN moves
  <2>1. DOMAIN moves \subseteq Nat
    BY <1>1, KnownFacts DEF MoveInv, Flagged
  <2>2. ToPlace \in SUBSET Nat /\ ToPlace \subseteq DOMAIN moves
    BY <2>1 DEF ToPlace
  <2> QED
    BY <1>1, <2>2, MinFacts
<1> HIDE DEF new
<1>3. exemplars' \in [DOMAIN exemplars' -> 1..detected]
  BY <1>1, <1>2, WithType DEF TypeOK
<1>4. /\ DOMAIN exemplars' = DOMAIN exemplars \cup {new}
      /\ exemplars'[new] = moves[new]
      /\ \A c \in DOMAIN exemplars : c # new => exemplars'[c] = exemplars[c]
  BY <1>1 DEF With
<1>5. /\ DOMAIN exemplars' \subseteq DOMAIN moves
      /\ \A d \in DOMAIN exemplars', c \in DOMAIN moves :
           exemplars'[d] = moves[c] => d = c
  BY <1>1, <1>2, <1>4 DEF MoveInv, OneSoundEach
<1>6. OneSoundEach(exemplars')
  BY <1>1, <1>2, <1>4, <1>5 DEF OneSoundEach
<1> QED
  BY <1>1, <1>3, <1>5, <1>6, FileStep

LEMMA FilesPlacedFacts ==
  ASSUME IInv, FilesPlaced
  PROVE  /\ DOMAIN exemplars = DOMAIN moves
         /\ \A c \in DOMAIN moves : exemplars[c] = moves[c]
BY DEF FilesPlaced, ToPlace, IInv, MoveInv

LEMMA FilesPlacedIInv ==
  ASSUME IInv, FilesPlaced
  PROVE  IInv'
<1> USE DEF IInv
<1>1. /\ phase = "place" /\ phase' = "merge"
      /\ DOMAIN moves' = {} /\ moves' \in [DOMAIN moves' -> 1..detected]
      /\ UNCHANGED <<index, nextId, buffer, events, renames, exemplars, labelled,
                     scripts, detected, starts, astray, bare, mixed>>
  BY DEF FilesPlaced, Nothing
<1>2. DOMAIN buffer = {} /\ DOMAIN renames = {} /\ labelled = {}
  BY <1>1 DEF PhaseInv
<1>3. TypeOK'
  BY <1>1 DEF TypeOK, Phases
<1>4. PhaseInv' /\ RenameInv' /\ MoveInv' /\ OwnMoves'
  BY <1>1, <1>2 DEF PhaseInv, RenameInv, MoveInv, OwnMoves
<1>5. IndexInv'
  BY <1>1, <1>2, NoIdsYet
<1>6. OneSoundEach(exemplars)'
  BY <1>1 DEF OneSoundEach
<1>7. DOMAIN exemplars = {events[n].cluster : n \in Flagged}
  BY <1>1, FilesPlacedFacts DEF MoveInv
<1>8. NoOrphans'
  BY <1>1, <1>7 DEF NoOrphans, Known, Clusters, Flagged
<1>9. OwnSounds'
  BY <1>1, <1>2, FilesPlacedFacts DEF OwnSounds, OwnMoves, Holds, Renaming
<1>10. FlaggedFiles'
  BY <1>1, <1>2, <1>7 DEF FlaggedFiles, Flagged, Renaming
<1> QED
  BY <1>3, <1>4, <1>5, <1>6, <1>8, <1>9, <1>10

-----------------------------------------------------------------------------
(* The inductive invariant holds in every behaviour, for every relation of *)
(* fingerprints that is reflexive and symmetric.                           *)
THEOREM ClusterInvariant == Spec => []IInv
<1>1. IInv /\ [Next]_vars => IInv'
  <2> SUFFICES ASSUME IInv, [Next]_vars PROVE IInv'
    OBVIOUS
  <2>1. CASE Next
    BY <2>1, MergeIInv, RenameExemplarIInv, RenamedIInv, LoadIndexIInv,
       ExpireIInv, PruneIInv, EmitKnownIInv, EmitNewIInv, PersistIInv,
       TriageIInv, StopAndStartIInv, CrashAndStartIInv, ReclusterIInv,
       SetAsideIInv, RemoveOrphansIInv, PlaceFileIInv, FilesPlacedIInv DEF Next
  <2>2. CASE UNCHANGED vars
    <3> USE DEF vars, otherVars
    <3>1. TypeOK' /\ PhaseInv' /\ RenameInv'
      BY <2>2 DEF IInv, TypeOK, PhaseInv, RenameInv, Known, Clusters
    <3>2. IdsAreFresh' /\ (\A c \in labelled' : c < nextId')
      <4>1. Known' = Known /\ Clusters(buffer)' = Clusters(buffer) /\ IndexIds' = IndexIds
        BY <2>2 DEF Known, Clusters, IndexIds
      <4>2. IdsAreFresh /\ \A c \in labelled : c < nextId
        BY DEF IInv, IndexInv
      <4> QED
        BY <2>2, <4>1, <4>2 DEF IdsAreFresh
    <3>3. MatchingIsStable'
      BY <2>2 DEF IInv, IndexInv, MatchingIsStable, Matching
    <3>4. OneSoundEach(exemplars)' /\ MoveInv'
      BY <2>2 DEF IInv, OneSoundEach, MoveInv, Flagged
    <3>5. NoOrphans' /\ OwnSounds' /\ OwnMoves' /\ FlaggedFiles'
      BY <2>2 DEF IInv, NoOrphans, OwnSounds, OwnMoves, FlaggedFiles, Holds,
                  Renaming, Known, Clusters
    <3> QED
      BY <3>1, <3>2, <3>3, <3>4, <3>5 DEF IInv, IndexInv
  <2> QED
    BY <2>1, <2>2
<1> QED
  BY <1>1, InitIInv, PTL DEF Spec

(* Once the index is loaded it knows every id in use, in the table and in  *)
(* the buffer, each once, and the next one is larger than all of them.     *)
THEOREM IdsStayFresh == Spec => []IdsAreFresh
<1>1. IInv => IdsAreFresh
  BY DEF IInv, IndexInv
<1> QED
  BY <1>1, ClusterInvariant, PTL

(* Clusters opened later in a run never take a fingerprint away from the   *)
(* cluster it was matched to.                                              *)
THEOREM MatchingStaysStable == Spec => []MatchingIsStable
<1>1. IInv => MatchingIsStable
  BY DEF IInv, IndexInv
<1> QED
  BY <1>1, ClusterInvariant, PTL

(* As long as no kill has left files astray, an exemplar file belongs to a *)
(* cluster with events and holds a sound of it, unless the script has met  *)
(* a cluster with two flagged events; and the cluster of a flagged event   *)
(* has a file, unless one was not written, or pruned before its time.      *)
THEOREM FilesBelong == Spec => []ExemplarsBelong
<1>1. IInv => ExemplarsBelong
  <2> SUFFICES ASSUME IInv, ~astray, phase \notin {"prune", "move", "place"}
               PROVE  /\ \A c \in DOMAIN exemplars :
                           /\ c \in Known \cup Clusters(buffer) \cup DOMAIN renames
                           /\ ~mixed /\ DOMAIN renames = {}
                                /\ exemplars[c] \in DOMAIN events
                                => events[exemplars[c]].cluster = c
                      /\ ~bare /\ DOMAIN renames = {} =>
                           /\ \A n \in Flagged : events[n].cluster \in DOMAIN exemplars
                           /\ \A n \in DOMAIN buffer : buffer[n].exemplar =>
                                buffer[n].cluster \in DOMAIN exemplars
    BY DEF ExemplarsBelong
  <2>1. DOMAIN exemplars \subseteq Known \cup Clusters(buffer) \cup DOMAIN renames
    BY DEF IInv, NoOrphans
  <2>2. ~mixed => \A c \in DOMAIN exemplars : Holds(events, exemplars[c], Renaming(c))
    BY DEF IInv, OwnSounds
  <2>3. ~bare /\ DOMAIN renames = {} =>
          /\ \A n \in Flagged : events[n].cluster \in DOMAIN exemplars
          /\ \A n \in DOMAIN buffer : buffer[n].exemplar =>
               buffer[n].cluster \in DOMAIN exemplars
    BY DEF IInv, FlaggedFiles, Flagged, Renaming
  <2> QED
    BY <2>1, <2>2, <2>3 DEF Holds, Renaming
<1> QED
  BY <1>1, ClusterInvariant, PTL

(* A label of this run never shows on a cluster opened later in the run.   *)
THEOREM LabelsStay == Spec => LabelsStayInRun
<1>1. IInv /\ [Next]_vars =>
        [\A n \in DOMAIN index' \ DOMAIN index :
           phase = "capture" => index'[n].id \notin labelled]_vars
  <2> SUFFICES ASSUME IInv, Next, phase = "capture",
                      NEW n \in DOMAIN index' \ DOMAIN index
               PROVE  index'[n].id \notin labelled
    OBVIOUS
  <2>1. CASE \E fp \in Prints, saved \in BOOLEAN : EmitNew(fp, saved)
    <3>1. index'[n].id = nextId
      BY <2>1 DEF EmitNew, NewId, With
    <3>2. nextId \notin labelled
      <4>1. nextId \in Nat /\ \A c \in labelled : c < nextId
        BY DEF IInv, TypeOK, IndexInv
      <4> QED
        BY <4>1
    <3> QED
      BY <3>1, <3>2
  <2>2. CASE StopAndStart \/ CrashAndStart
    BY <2>2 DEF StopAndStart, CrashAndStart, Nothing
  <2>3. CASE index' = index
    BY <2>3
  <2> QED
    BY <2>1, <2>2, <2>3 DEF Next, Merge, RenameExemplar, Renamed, LoadIndex,
       Expire, Prune, EmitKnown, Persist, Triage, Recluster, SetAside,
       RemoveOrphans, PlaceFile, FilesPlaced
<1> QED
  BY <1>1, ClusterInvariant, PTL DEF Spec, LabelsStayInRun

(* When the script is done its flags and its files agree: one flagged      *)
(* event for every file, and no sound in two files.                        *)
THEOREM ScriptLeavesAgreement == Spec => FilesAndFlagsAgree
<1> DEFINE Agreement ==
      phase = "place" /\ phase' = "merge" /\ starts' = starts =>
       /\ {events[n].cluster : n \in Flagged} = DOMAIN exemplars'
       /\ \A n, m \in Flagged : events[n].cluster = events[m].cluster => n = m
       /\ \A c, d \in DOMAIN exemplars' : exemplars'[c] = exemplars'[d] => c = d
<1>1. IInv /\ [Next]_vars => [Agreement]_vars
  <2> SUFFICES ASSUME IInv, Next, phase = "place", phase' = "merge", starts' = starts
               PROVE  Agreement
    OBVIOUS
  <2>1. FilesPlaced
    <3>1. ~ CrashAndStart /\ ~ StopAndStart
      <4>1. starts \in Nat
        BY DEF IInv, TypeOK
      <4>2. CrashAndStart \/ StopAndStart => starts' = starts + 1
        BY DEF CrashAndStart, StopAndStart
      <4> QED
        BY <4>1, <4>2
    <3> QED
      BY <3>1 DEF Next, Merge, RenameExemplar, Renamed, LoadIndex, Expire, Prune,
         EmitKnown, EmitNew, Persist, Triage, Recluster, SetAside, RemoveOrphans,
         PlaceFile
  <2>2. exemplars' = exemplars
    BY <2>1 DEF FilesPlaced
  <2> QED
    BY <2>1, <2>2, FilesPlacedFacts DEF IInv, MoveInv, OneSoundEach
<1> QED
  BY <1>1, ClusterInvariant, PTL DEF Spec, FilesAndFlagsAgree

(* A merge unites exactly what chains of compatible representatives link   *)
(* to the cluster of smallest id, which gives its id to all of them.       *)
THEOREM MergesUniteChains == Spec => MergeUnitesChains
<1> DEFINE Chained ==
      phase = "merge" /\ phase' = "rename" =>
       \A d \in Known' :
         LET class == {events[n].cluster :
                         n \in {m \in DOMAIN events : events'[m].cluster = d}} IN
         /\ d \in class /\ \A c \in class : d <= c
         /\ \A n \in DOMAIN events :
              events[n].cluster \in class => events'[n].cluster = d
         /\ \A S \in (SUBSET class) \ {{}, class} :
              \E x \in S, y \in class \ S : Linked(x, y)
<1>1. IInv /\ [Next]_vars => [Chained]_vars
  <2> SUFFICES ASSUME IInv, Next, phase = "merge", phase' = "rename"
               PROVE  Chained
    OBVIOUS
  <2>1. Merge
    BY DEF Next, RenameExemplar, Renamed, LoadIndex, Expire, Prune, EmitKnown,
       EmitNew, Persist, Triage, StopAndStart, CrashAndStart, Recluster, SetAside,
       RemoveOrphans, PlaceFile, FilesPlaced
  <2>2. TypeOK
    BY DEF IInv
  <2> QED
    BY <2>1, <2>2, MergeStep
<1> QED
  BY <1>1, ClusterInvariant, PTL DEF Spec, MergeUnitesChains
=============================================================================
