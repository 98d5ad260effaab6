-------------------------- MODULE EventStoreProofs --------------------------
(* Proofs about EventStore: nothing is stored twice or out of order,       *)
(* nothing disappears, and the store implements EventLog; and, in the last *)
(* part, about EngineShutdown: what a stop writes, and when a row may be   *)
(* stored twice.                                                           *)
EXTENDS EngineShutdown, SequenceTheorems, TLAPS

-----------------------------------------------------------------------------
(* Sequences of rows.                                                      *)

LEMMA RowsInType ==
  ASSUME NEW s \in Seq(Nat)
  PROVE  /\ RowsIn(s) \subseteq Nat
         /\ RowsIn(<<>>) = {}
         /\ Len(s) \in Nat
         /\ \A i \in 1..Len(s) : s[i] \in Nat /\ s[i] \in RowsIn(s)
  BY ElementOfSeq, LenProperties DEF RowsIn

LEMMA AppendRow ==
  ASSUME NEW s \in Seq(Nat), NEW x \in Nat
  PROVE  /\ Append(s, x) \in Seq(Nat)
         /\ Append(s, x) # <<>>
         /\ RowsIn(Append(s, x)) = RowsIn(s) \cup {x}
         /\ (Increasing(s) /\ \A y \in RowsIn(s) : y < x)
              => Increasing(Append(s, x))
<1> DEFINE t == Append(s, x)
<1>1. /\ t \in Seq(Nat) /\ Len(t) = Len(s) + 1 /\ Len(s) \in Nat
      /\ \A i \in 1..Len(s) : t[i] = s[i]
      /\ t[Len(s) + 1] = x
  BY AppendProperties, LenProperties
<1>2. t # <<>>
  BY <1>1, EmptySeq
<1>3. RowsIn(t) = RowsIn(s) \cup {x}
  <2>1. ASSUME NEW y \in RowsIn(t) PROVE y \in RowsIn(s) \cup {x}
    <3>1. PICK i \in 1..Len(t) : y = t[i]
      BY DEF RowsIn
    <3> QED
      BY <1>1, <3>1 DEF RowsIn
  <2>2. ASSUME NEW y \in RowsIn(s) \cup {x} PROVE y \in RowsIn(t)
    <3>1. CASE y = x
      BY <1>1, <3>1 DEF RowsIn
    <3>2. CASE y \in RowsIn(s)
      <4>1. PICK i \in 1..Len(s) : y = s[i]
        BY <3>2 DEF RowsIn
      <4> QED
        BY <1>1, <4>1 DEF RowsIn
    <3> QED
      BY <3>1, <3>2
  <2> QED
    BY <2>1, <2>2
<1>4. ASSUME Increasing(s), \A y \in RowsIn(s) : y < x PROVE Increasing(t)
  <2> SUFFICES ASSUME NEW i \in 1..Len(t), NEW j \in 1..Len(t), i < j
               PROVE  t[i] < t[j]
    BY DEF Increasing
  <2>1. i \in 1..Len(s)
    BY <1>1
  <2>2. CASE j \in 1..Len(s)
    BY <1>1, <1>4, <2>1, <2>2 DEF Increasing
  <2>3. CASE j = Len(s) + 1
    BY <1>1, <1>4, <2>1, <2>3, RowsInType
  <2> QED
    BY <1>1, <2>2, <2>3
<1> QED
  BY <1>1, <1>2, <1>3, <1>4

LEMMA ConcatRows ==
  ASSUME NEW s \in Seq(Nat), NEW u \in Seq(Nat)
  PROVE  /\ s \o u \in Seq(Nat)
         /\ RowsIn(s \o u) = RowsIn(s) \cup RowsIn(u)
         /\ (/\ Increasing(s) /\ Increasing(u)
             /\ \A x \in RowsIn(s), y \in RowsIn(u) : x < y)
              => Increasing(s \o u)
<1> DEFINE t == s \o u
<1>1. /\ t \in Seq(Nat) /\ Len(t) = Len(s) + Len(u)
      /\ Len(s) \in Nat /\ Len(u) \in Nat
      /\ \A i \in 1..Len(t) :
           t[i] = IF i <= Len(s) THEN s[i] ELSE u[i - Len(s)]
  BY ConcatProperties, LenProperties
<1>2. \A i \in 1..Len(s) : i \in 1..Len(t) /\ t[i] = s[i]
  BY <1>1
<1>3. \A i \in 1..Len(u) : i + Len(s) \in 1..Len(t) /\ t[i + Len(s)] = u[i]
  BY <1>1
<1>4. \A i \in 1..Len(t) : i \in 1..Len(s) \/ i - Len(s) \in 1..Len(u)
  BY <1>1
<1>5. RowsIn(t) = RowsIn(s) \cup RowsIn(u)
  <2>1. ASSUME NEW y \in RowsIn(t) PROVE y \in RowsIn(s) \cup RowsIn(u)
    <3>1. PICK i \in 1..Len(t) : y = t[i]
      BY DEF RowsIn
    <3> QED
      BY <1>1, <1>4, <3>1 DEF RowsIn
  <2>2. ASSUME NEW y \in RowsIn(s) \cup RowsIn(u) PROVE y \in RowsIn(t)
    <3>1. CASE y \in RowsIn(s)
      <4>1. PICK i \in 1..Len(s) : y = s[i]
        BY <3>1 DEF RowsIn
      <4> QED
        BY <1>2, <4>1 DEF RowsIn
    <3>2. CASE y \in RowsIn(u)
      <4>1. PICK i \in 1..Len(u) : y = u[i]
        BY <3>2 DEF RowsIn
      <4> QED
        BY <1>3, <4>1 DEF RowsIn
    <3> QED
      BY <3>1, <3>2
  <2> QED
    BY <2>1, <2>2
<1>6. ASSUME Increasing(s), Increasing(u),
             \A x \in RowsIn(s), y \in RowsIn(u) : x < y
      PROVE  Increasing(t)
  <2> SUFFICES ASSUME NEW i \in 1..Len(t), NEW j \in 1..Len(t), i < j
               PROVE  t[i] < t[j]
    BY DEF Increasing
  <2>1. CASE j \in 1..Len(s)
    <3>1. i \in 1..Len(s)
      BY <1>1, <2>1
    <3> QED
      BY <1>2, <1>6, <2>1, <3>1 DEF Increasing
  <2>2. CASE i \in 1..Len(s) /\ j - Len(s) \in 1..Len(u)
    <3>1. t[i] = s[i] /\ t[j] = u[j - Len(s)]
      BY <1>1, <1>2, <2>2
    <3>2. t[i] \in RowsIn(s) /\ t[j] \in RowsIn(u)
      BY <2>2, <3>1, RowsInType
    <3> QED
      BY <1>6, <3>2
  <2>3. CASE i - Len(s) \in 1..Len(u) /\ j - Len(s) \in 1..Len(u)
    <3>1. t[i] = u[i - Len(s)] /\ t[j] = u[j - Len(s)]
      BY <1>1, <2>3
    <3>2. i - Len(s) < j - Len(s)
      BY <1>1
    <3>3. \A a, b \in 1..Len(u) : a < b => u[a] < u[b]
      BY <1>6 DEF Increasing
    <3> QED
      BY <2>3, <3>1, <3>2, <3>3
  <2> QED
    BY <1>1, <1>4, <2>1, <2>2, <2>3
<1> QED
  BY <1>1, <1>5, <1>6

LEMMA EmptyRows ==
  /\ <<>> \in Seq(Nat)
  /\ RowsIn(<<>>) = {}
  /\ Increasing(<<>>)
  /\ NoRows \in Rows
  /\ \A k \in Kinds : NoRows[k] = <<>>
  BY EmptySeq DEF RowsIn, Increasing, NoRows, Rows

-----------------------------------------------------------------------------
(* The inductive invariant. What the properties lack is how the buffers    *)
(* relate to the tables at each step of _do_flush: before the commit every *)
(* buffered row is younger than every committed one, after it every        *)
(* buffered row is committed, and the copy that is being written is the    *)
(* whole buffer.                                                           *)

Committed == flush.pc \in {"clear_events", "clear_spectrum"}

KindInv(k) ==
  /\ Increasing(db[k])
  /\ Increasing(buffer[k])
  /\ RowsIn(db[k]) \cup RowsIn(buffer[k]) \cup lost[k] = 1..issued[k]
  /\ ~Committed => \A x \in RowsIn(db[k]), y \in RowsIn(buffer[k]) : x < y
  /\ Committed => RowsIn(buffer[k]) \subseteq RowsIn(db[k])

SInv ==
  /\ TypeOK
  /\ flush.pc \in {"insert", "locked"} => flush.rows = buffer
  /\ flush.pc = "clear_spectrum" => buffer["event"] = <<>>
  /\ \A k \in Kinds : KindInv(k)

LEMMA InitSInv == Init => SInv
<1> SUFFICES ASSUME Init PROVE SInv
  OBVIOUS
<1>1. TypeOK
  <2>1. flush \in [pc : Pcs, rows : Rows]
    BY EmptyRows DEF Init, Idle, Pcs
  <2>2. issued \in [Kinds -> 0..MaxRows] /\ lost \in [Kinds -> SUBSET Nat]
    BY StoreAssumption DEF Init
  <2>3. since \in 0..BatchTimeout /\ crashes \in 0..MaxCrashes
    BY StoreAssumption DEF Init
  <2> QED
    BY <2>1, <2>2, <2>3, EmptyRows DEF Init, TypeOK
<1>2. \A k \in Kinds : KindInv(k)
  BY EmptyRows DEF Init, KindInv, Committed, Idle
<1> QED
  BY <1>1, <1>2 DEF SInv, Init, Idle

(* A step that changes neither the rows nor where the commit stands.       *)
LEMMA SameRows ==
  ASSUME SInv, UNCHANGED <<issued, buffer, db, lost>>, Committed' <=> Committed
  PROVE  \A k \in Kinds : KindInv(k)'
<1> SUFFICES ASSUME NEW k \in Kinds PROVE KindInv(k)'
  OBVIOUS
<1>1. KindInv(k)
  BY DEF SInv
<1> QED
  BY <1>1 DEF KindInv

LEMMA EnterFlushTypes ==
  ASSUME SInv, NEW b \in Rows, EnterFlush(b)
  PROVE  /\ flush' \in [pc : Pcs, rows : Rows]
         /\ since' \in 0..BatchTimeout
         /\ flush'.pc \in {"idle", "insert"}
         /\ flush'.pc = "insert" => flush'.rows = b
<1>1. CASE b = NoRows
  BY <1>1, EmptyRows, StoreAssumption DEF EnterFlush, FlushedNow, Idle, Pcs
<1>2. CASE b # NoRows
  BY <1>2 DEF EnterFlush, SInv, TypeOK, Pcs
<1> QED
  BY <1>1, <1>2

LEMMA AddSInv ==
  ASSUME SInv, NEW k \in Kinds, Add(k)
  PROVE  SInv'
<1> DEFINE b == [buffer EXCEPT ![k] = Append(@, issued[k] + 1)]
<1>0. TypeOK /\ flush.pc = "idle" /\ issued[k] < MaxRows /\ issued[k] \in Nat
      /\ MaxRows \in Nat
  BY StoreAssumption DEF SInv, Add, TypeOK
<1>1. /\ buffer' = b
      /\ issued' = [issued EXCEPT ![k] = @ + 1]
      /\ UNCHANGED <<db, lost, failed, crashes>>
  BY DEF Add
<1>2. /\ buffer[k] \in Seq(Nat)
      /\ b[k] = Append(buffer[k], issued[k] + 1)
      /\ b[k] \in Seq(Nat)
      /\ RowsIn(b[k]) = RowsIn(buffer[k]) \cup {issued[k] + 1}
  BY <1>0, AppendRow DEF TypeOK, Rows
<1>3. b \in Rows
  BY <1>0, <1>2 DEF TypeOK, Rows
<1>4. /\ flush' \in [pc : Pcs, rows : Rows]
      /\ since' \in 0..BatchTimeout
      /\ flush'.pc \in {"idle", "insert"}
      /\ flush'.pc = "insert" => flush'.rows = b
  <2>1. CASE BatchFull(b)
    BY <1>3, <2>1, EnterFlushTypes DEF Add
  <2>2. CASE ~BatchFull(b)
    BY <1>0, <2>2 DEF Add, TypeOK
  <2> QED
    BY <2>1, <2>2
<1>5. TypeOK'
  <2>1. issued' \in [Kinds -> 0..MaxRows]
    BY <1>0, <1>1 DEF TypeOK
  <2> QED
    BY <1>0, <1>1, <1>3, <1>4, <2>1 DEF TypeOK
<1>6. ASSUME NEW j \in Kinds PROVE KindInv(j)'
  <2>0. ~Committed /\ ~Committed'
    BY <1>0, <1>4 DEF Committed
  <2>1. CASE j = k
    <3>1. /\ RowsIn(db[k]) \cup RowsIn(buffer[k]) \cup lost[k] = 1..issued[k]
          /\ \A x \in RowsIn(db[k]), y \in RowsIn(buffer[k]) : x < y
          /\ Increasing(db[k]) /\ Increasing(buffer[k])
      BY <2>0 DEF SInv, KindInv
    <3>2. \A x \in RowsIn(db[k]) \cup RowsIn(buffer[k]) : x < issued[k] + 1
      BY <1>0, <3>1
    <3>3. Increasing(b[k])
      BY <1>0, <1>2, <3>1, <3>2, AppendRow
    <3>4. RowsIn(db[k]) \cup RowsIn(b[k]) \cup lost[k] = 1..(issued[k] + 1)
      <4>1. 1..(issued[k] + 1) = 1..issued[k] \cup {issued[k] + 1}
        BY <1>0
      <4> QED
        BY <1>2, <3>1, <4>1
    <3>5. issued'[k] = issued[k] + 1
      BY <1>0, <1>1 DEF TypeOK
    <3>6. \A x \in RowsIn(db[k]), y \in RowsIn(b[k]) : x < y
      BY <1>2, <3>1, <3>2
    <3> HIDE DEF b
    <3> QED
      BY <1>1, <2>0, <2>1, <3>1, <3>3, <3>4, <3>5, <3>6 DEF KindInv
  <2>2. CASE j # k
    <3>1. buffer'[j] = buffer[j] /\ issued'[j] = issued[j]
      BY <1>0, <1>1, <2>2 DEF TypeOK, Rows
    <3> QED
      BY <1>1, <2>0, <3>1 DEF SInv, KindInv
  <2> QED
    BY <2>1, <2>2
<1> HIDE DEF b
<1> QED
  BY <1>1, <1>4, <1>5, <1>6 DEF SInv

LEMMA FlushEntrySInv ==
  SInv /\ (MaybeFlush \/ Flush) => SInv'
<1> SUFFICES ASSUME SInv, MaybeFlush \/ Flush PROVE SInv'
  OBVIOUS
<1>1. /\ flush.pc = "idle" /\ TypeOK /\ buffer \in Rows
      /\ UNCHANGED <<issued, buffer, db, lost, failed, crashes>>
  BY DEF MaybeFlush, Flush, SInv, TypeOK
<1>2. /\ flush' \in [pc : Pcs, rows : Rows]
      /\ since' \in 0..BatchTimeout
      /\ flush'.pc \in {"idle", "insert"}
      /\ flush'.pc = "insert" => flush'.rows = buffer
  <2>1. CASE Flush
    BY <1>1, <2>1, EnterFlushTypes DEF Flush
  <2>2. CASE MaybeFlush
    <3>1. since' \in 0..BatchTimeout
      BY <1>1, <2>2, StoreAssumption DEF MaybeFlush, TypeOK
    <3>2. flush' = flush \/ flush' = [pc |-> "insert", rows |-> buffer]
      BY <2>2 DEF MaybeFlush
    <3> QED
      BY <1>1, <3>1, <3>2 DEF TypeOK, Pcs
  <2> QED
    BY <2>1, <2>2
<1>3. ~Committed /\ ~Committed'
  BY <1>1, <1>2 DEF Committed
<1>4. \A k \in Kinds : KindInv(k)'
  BY <1>1, <1>3, SameRows
<1>5. TypeOK'
  BY <1>1, <1>2 DEF TypeOK
<1> QED
  BY <1>1, <1>2, <1>4, <1>5 DEF SInv

LEMMA InsertSInv == SInv /\ Insert => SInv'
<1> SUFFICES ASSUME SInv, Insert PROVE SInv'
  OBVIOUS
<1>1. /\ TypeOK
      /\ flush' \in [pc : Pcs, rows : Rows]
      /\ flush'.pc = "locked" /\ flush'.rows = buffer
      /\ UNCHANGED <<issued, buffer, since, db, lost, failed, crashes>>
  BY DEF Insert, SInv, TypeOK, Pcs
<1>2. ~Committed /\ ~Committed'
  BY <1>1 DEF Committed, Insert
<1>3. \A k \in Kinds : KindInv(k)'
  BY <1>1, <1>2, SameRows
<1> QED
  BY <1>1, <1>3 DEF SInv, TypeOK

(* The commit appends the buffer, all younger, to the tables.              *)
LEMMA CommitSInv == SInv /\ Commit => SInv'
<1> SUFFICES ASSUME SInv, Commit PROVE SInv'
  OBVIOUS
<1>1. /\ TypeOK /\ flush.rows = buffer /\ ~Committed
      /\ flush' \in [pc : Pcs, rows : Rows]
      /\ flush'.pc = "clear_events"
      /\ UNCHANGED <<issued, buffer, since, lost, failed, crashes>>
  BY DEF Commit, SInv, TypeOK, Pcs, Committed
<1>2. db' = [k \in Kinds |-> db[k] \o buffer[k]]
  BY <1>1 DEF Commit
<1>3. ASSUME NEW k \in Kinds
      PROVE  /\ db'[k] = db[k] \o buffer[k]
             /\ db[k] \in Seq(Nat) /\ buffer[k] \in Seq(Nat)
             /\ db'[k] \in Seq(Nat)
             /\ RowsIn(db'[k]) = RowsIn(db[k]) \cup RowsIn(buffer[k])
             /\ Increasing(db'[k])
  <2>1. db[k] \in Seq(Nat) /\ buffer[k] \in Seq(Nat)
    BY <1>1 DEF TypeOK, Rows
  <2>2. /\ Increasing(db[k]) /\ Increasing(buffer[k])
        /\ \A x \in RowsIn(db[k]), y \in RowsIn(buffer[k]) : x < y
    BY <1>1 DEF SInv, KindInv
  <2> QED
    BY <1>2, <2>1, <2>2, ConcatRows
<1>4. db' \in Rows
  BY <1>2, <1>3 DEF Rows
<1>5. ASSUME NEW k \in Kinds PROVE KindInv(k)'
  <2>1. KindInv(k)
    BY DEF SInv
  <2>2. Committed'
    BY <1>1 DEF Committed
  <2> QED
    BY <1>1, <1>3, <2>1, <2>2 DEF KindInv
<1> QED
  BY <1>1, <1>4, <1>5 DEF SInv, TypeOK

LEMMA FlushFailsSInv == SInv /\ FlushFails => SInv'
<1> SUFFICES ASSUME SInv, FlushFails PROVE SInv'
  OBVIOUS
<1>1. /\ TypeOK /\ ~Committed
      /\ flush' = Idle
      /\ failed' \in BOOLEAN
      /\ UNCHANGED <<issued, buffer, since, db, lost, crashes>>
  BY DEF FlushFails, KeptAfterFailure, SInv, Committed
<1>2. flush' \in [pc : Pcs, rows : Rows] /\ flush'.pc = "idle" /\ ~Committed'
  BY <1>1, EmptyRows DEF Idle, Pcs, Committed
<1>3. \A k \in Kinds : KindInv(k)'
  BY <1>1, <1>2, SameRows
<1> QED
  BY <1>1, <1>2, <1>3 DEF SInv, TypeOK

(* The two clears drop rows that are committed.                            *)
LEMMA ClearsSInv == SInv /\ (ClearEvents \/ ClearSpectrum) => SInv'
<1> SUFFICES ASSUME SInv, ClearEvents \/ ClearSpectrum PROVE SInv'
  OBVIOUS
<1>1. /\ TypeOK /\ Committed
      /\ UNCHANGED <<issued, db, lost, crashes>>
  BY DEF ClearEvents, ClearSpectrum, SInv, Committed
<1>2. ASSUME NEW k \in Kinds
      PROVE  /\ buffer'[k] \in {buffer[k], <<>>}
             /\ buffer'[k] \in Seq(Nat)
             /\ RowsIn(buffer'[k]) \subseteq RowsIn(buffer[k])
             /\ Increasing(buffer'[k])
  <2>1. buffer[k] \in Seq(Nat) /\ Increasing(buffer[k])
    BY <1>1 DEF TypeOK, Rows, SInv, KindInv
  <2>2. buffer'[k] \in {buffer[k], <<>>}
    BY <1>1 DEF ClearEvents, ClearSpectrum, SpectrumCleared, TypeOK, Rows
  <2> QED
    BY <2>1, <2>2, EmptyRows
<1>3. buffer' \in Rows
  BY <1>1, <1>2 DEF ClearEvents, ClearSpectrum, SpectrumCleared, TypeOK, Rows
<1>4. /\ buffer'["event"] = <<>>
      /\ ClearSpectrum => buffer' = NoRows
  <2>1. CASE ClearEvents
    BY <1>1, <2>1 DEF ClearEvents, ClearSpectrum, TypeOK, Rows, Kinds
  <2>2. CASE ClearSpectrum
    <3>1. \A k \in Kinds : buffer'[k] = <<>>
      BY <1>1, <2>2
      DEF ClearSpectrum, SpectrumCleared, SInv, TypeOK, Rows, Kinds
    <3> QED
      BY <1>3, <2>2, <3>1 DEF Rows, NoRows, Kinds
  <2> QED
    BY <2>1, <2>2
<1>5. /\ flush' \in [pc : Pcs, rows : Rows]
      /\ since' \in 0..BatchTimeout
      /\ failed' \in BOOLEAN
      /\ flush'.pc \notin {"insert", "locked"}
      /\ ClearSpectrum => ~Committed'
  <2>1. CASE ClearEvents
    BY <1>1, <2>1 DEF ClearEvents, ClearSpectrum, TypeOK, Pcs
  <2>2. CASE ClearSpectrum
    <3>1. flush' = Idle /\ since' = 0 /\ failed' = FALSE
      BY <2>2 DEF ClearSpectrum, FlushedNow
    <3>2. Idle \in [pc : Pcs, rows : Rows] /\ Idle.pc = "idle"
      BY EmptyRows DEF Idle, Pcs
    <3>3. 0 \in 0..BatchTimeout /\ FALSE \in BOOLEAN
      BY StoreAssumption
    <3> QED
      BY <3>1, <3>2, <3>3 DEF Committed
  <2> QED
    BY <2>1, <2>2
<1>6. ASSUME NEW k \in Kinds PROVE KindInv(k)'
  <2>1. KindInv(k)
    BY DEF SInv
  <2>2. RowsIn(db[k]) \cup RowsIn(buffer'[k]) \cup lost[k] = 1..issued[k]
    BY <1>1, <1>2, <2>1 DEF KindInv
  <2>3. ~Committed' => RowsIn(buffer'[k]) = {}
    <3>1. ClearEvents => Committed'
      BY DEF ClearEvents, Committed
    <3>2. ClearSpectrum => buffer'[k] = <<>>
      BY <1>4, EmptyRows
    <3> QED
      BY <3>1, <3>2, EmptyRows
  <2> QED
    BY <1>1, <1>2, <2>1, <2>2, <2>3 DEF KindInv
<1>7. TypeOK'
  BY <1>1, <1>3, <1>5 DEF TypeOK
<1> QED
  BY <1>4, <1>5, <1>6, <1>7 DEF SInv

LEMMA CrashSInv == SInv /\ Crash => SInv'
<1> SUFFICES ASSUME SInv, Crash PROVE SInv'
  OBVIOUS
<1>1. /\ TypeOK
      /\ buffer' = NoRows /\ since' = 0 /\ flush' = Idle /\ failed' = FALSE
      /\ lost' = [k \in Kinds |->
                    lost[k] \cup (RowsIn(buffer[k]) \ RowsIn(db[k]))]
      /\ UNCHANGED <<issued, db>>
  BY DEF Crash, SInv
<1>2. crashes' \in 0..MaxCrashes
  BY <1>1, StoreAssumption DEF Crash, TypeOK
<1>3. flush' \in [pc : Pcs, rows : Rows] /\ flush'.pc = "idle"
  BY <1>1, EmptyRows DEF Idle, Pcs
<1>4. lost' \in [Kinds -> SUBSET Nat]
  BY <1>1, RowsInType DEF TypeOK, Rows
<1>5. TypeOK'
  <2>1. 0 \in 0..BatchTimeout /\ FALSE \in BOOLEAN
    BY StoreAssumption
  <2>2. issued' \in [Kinds -> 0..MaxRows] /\ db' \in Rows /\ buffer' \in Rows
    BY <1>1, EmptyRows DEF TypeOK
  <2> QED
    BY <1>1, <1>2, <1>3, <1>4, <2>1, <2>2 DEF TypeOK
<1>6. ASSUME NEW k \in Kinds PROVE KindInv(k)'
  <2>1. KindInv(k)
    BY DEF SInv
  <2>2. /\ buffer'[k] = <<>>
        /\ lost'[k] = lost[k] \cup (RowsIn(buffer[k]) \ RowsIn(db[k]))
    BY <1>1, EmptyRows
  <2> QED
    BY <1>1, <2>1, <2>2, EmptyRows DEF KindInv
<1> QED
  BY <1>3, <1>5, <1>6 DEF SInv

LEMMA NextSInv == SInv /\ [Next]_vars => SInv'
<1> SUFFICES ASSUME SInv, [Next]_vars PROVE SInv'
  OBVIOUS
<1>1. ASSUME NEW k \in Kinds, Add(k) PROVE SInv'
  BY <1>1, AddSInv
<1>2. CASE MaybeFlush \/ Flush
  BY <1>2, FlushEntrySInv
<1>3. CASE Insert
  BY <1>3, InsertSInv
<1>4. CASE Commit
  BY <1>4, CommitSInv
<1>5. CASE ClearEvents \/ ClearSpectrum
  BY <1>5, ClearsSInv
<1>6. CASE FlushFails
  BY <1>6, FlushFailsSInv
<1>7. CASE Crash
  BY <1>7, CrashSInv
<1>8. CASE UNCHANGED vars
  <2>1. (Committed' <=> Committed) /\ UNCHANGED <<issued, buffer, db, lost>>
    BY <1>8 DEF vars, process, Committed
  <2>2. \A k \in Kinds : KindInv(k)'
    BY <2>1, SameRows
  <2> QED
    BY <1>8, <2>2 DEF SInv, TypeOK, vars, process
<1> QED
  BY <1>1, <1>2, <1>3, <1>4, <1>5, <1>6, <1>7, <1>8 DEF Next, FlushStep

-----------------------------------------------------------------------------
(* The invariant holds for every size of the batch, every timeout, and     *)
(* every bound of the rows and crashes (store.py:273-341).                 *)
THEOREM StoreInvariant == Spec => []SInv
<1>1. Init => SInv
  BY InitSInv
<1>2. SInv /\ [Next]_vars => SInv'
  BY NextSInv
<1> QED
  BY <1>1, <1>2, PTL DEF Spec

(* The variables keep their types (store.py:138-165).                      *)
THEOREM StoreTypes == Spec => []TypeOK
<1>1. SInv => TypeOK
  BY DEF SInv
<1> QED
  BY <1>1, StoreInvariant, PTL

(* Whatever fails, is retried or crashes, a row is committed at most once  *)
(* and in the order of its acceptance (store.py:273-341).                  *)
THEOREM RowsStoredOnceInOrder == Spec => []StoredOnceInOrder
<1>1. SInv => StoredOnceInOrder
  BY DEF SInv, KindInv, StoredOnceInOrder
<1> QED
  BY <1>1, StoreInvariant, PTL

(* A row that was accepted is committed, buffered, or was taken from the   *)
(* buffers by a crash (store.py:335-341).                                  *)
THEOREM RowsNeverDisappear == Spec => []NothingDisappears
<1>1. SInv => NothingDisappears
  BY DEF SInv, KindInv, NothingDisappears
<1> QED
  BY <1>1, StoreInvariant, PTL

(* No step makes a buffer longer than a batch, unless a flush has failed.   *)
LEMMA NextLoss == SInv /\ LossIsBounded /\ [Next]_vars => LossIsBounded'
<1> SUFFICES ASSUME SInv, LossIsBounded, [Next]_vars, ~failed',
                    NEW k \in Kinds
             PROVE  /\ Len(buffer'[k]) <= BatchSize
                    /\ flush'.pc = "idle" => Len(buffer'[k]) < BatchSize
  BY DEF LossIsBounded
<1> USE StoreAssumption
<1>0. /\ TypeOK
      /\ buffer[k] \in Seq(Nat) /\ Len(buffer[k]) \in Nat
      /\ ~failed => /\ Len(buffer[k]) <= BatchSize
                    /\ flush.pc = "idle" => Len(buffer[k]) < BatchSize
  BY LenProperties DEF SInv, TypeOK, Rows, LossIsBounded
<1>1. ASSUME NEW j \in Kinds, Add(j)
      PROVE  /\ Len(buffer'[k]) <= BatchSize
             /\ flush'.pc = "idle" => Len(buffer'[k]) < BatchSize
  <2>1. /\ flush.pc = "idle" /\ ~failed
        /\ buffer' = [buffer EXCEPT ![j] = Append(@, issued[j] + 1)]
        /\ IF BatchFull(buffer') THEN EnterFlush(buffer')
                                 ELSE UNCHANGED <<flush, since>>
    BY <1>1 DEF Add
  <2>2. /\ Len(buffer'[k]) \in Nat
        /\ Len(buffer'[k]) <= Len(buffer[k]) + 1
    <3>1. CASE k = j
      <4>1. issued[j] + 1 \in Nat
        BY <1>0 DEF TypeOK
      <4>2. buffer'[k] = Append(buffer[k], issued[j] + 1)
        BY <1>0, <2>1, <3>1 DEF TypeOK, Rows
      <4> QED
        BY <1>0, <4>1, <4>2, AppendProperties
    <3>2. CASE k # j
      BY <1>0, <2>1, <3>2 DEF TypeOK, Rows
    <3> QED
      BY <3>1, <3>2
  <2>3. Len(buffer'[k]) <= BatchSize
    BY <1>0, <2>1, <2>2
  <2>4. ASSUME BatchFull(buffer') PROVE flush'.pc = "insert"
    <3>1. PICK i \in Kinds : Len(buffer'[i]) >= BatchSize
      BY <2>4 DEF BatchFull
    <3>2. buffer' # NoRows
      BY <3>1, EmptyRows, EmptySeq
    <3> QED
      BY <2>1, <2>4, <3>2 DEF EnterFlush
  <2>5. CASE ~BatchFull(buffer')
    BY <2>2, <2>3, <2>5 DEF BatchFull
  <2> QED
    BY <2>3, <2>4, <2>5
<1>2. CASE MaybeFlush \/ Flush
  BY <1>0, <1>2 DEF MaybeFlush, Flush
<1>3. CASE Insert \/ Commit
  BY <1>0, <1>3 DEF Insert, Commit, SInv, TypeOK
<1>4. CASE ClearEvents \/ FlushFails
  <2>1. ClearEvents /\ ~failed
    BY <1>4 DEF ClearEvents, FlushFails
  <2>2. flush'.pc = "clear_spectrum" /\ Len(<<>>) = 0
    BY <1>0, <2>1, EmptySeq DEF ClearEvents, TypeOK
  <2>3. buffer'[k] \in {buffer[k], <<>>}
    BY <1>0, <2>1 DEF ClearEvents, TypeOK, Rows
  <2> QED
    BY <1>0, <2>1, <2>2, <2>3
<1>5. CASE ClearSpectrum
  <2>1. buffer["event"] = <<>> /\ buffer' = [buffer EXCEPT !["spectrum"] = <<>>]
    BY <1>5 DEF ClearSpectrum, SpectrumCleared, SInv
  <2>2. buffer'[k] = <<>>
    BY <1>0, <2>1 DEF TypeOK, Rows, Kinds
  <2> QED
    BY <2>2, EmptySeq
<1>6. CASE Crash
  BY <1>6, EmptyRows, EmptySeq DEF Crash
<1>7. CASE UNCHANGED vars
  BY <1>0, <1>7 DEF vars, process
<1> QED
  BY <1>1, <1>2, <1>3, <1>4, <1>5, <1>6, <1>7 DEF Next, FlushStep

(* Unless a flush has failed, a crash takes at most one batch of each kind: *)
(* the buffers are flushed as soon as they hold one (store.py:258-261).     *)
THEOREM LossOfABatch == Spec => []LossIsBounded
<1>1. Init => LossIsBounded
  BY EmptyRows, EmptySeq, StoreAssumption DEF Init, LossIsBounded
<1>2. SInv /\ LossIsBounded /\ [Next]_vars => LossIsBounded'
  BY NextLoss
<1> QED
  BY <1>1, <1>2, StoreInvariant, PTL DEF Spec

-----------------------------------------------------------------------------
(* Refinement of EventLog.                                                 *)

LEMMA InitLog == Init => Log!Init
  BY DEF Init, Log!Init, Log!NoRows, Pending, NoRows, Idle

LEMMA StepLog == SInv /\ [Next]_vars => [Log!Next]_(Log!logVars)
<1> SUFFICES ASSUME SInv, [Next]_vars PROVE [Log!Next]_(Log!logVars)
  OBVIOUS
<1> USE DEF Log!Next, Log!logVars
<1>0. Log!NoRows = NoRows
  BY DEF Log!NoRows, NoRows
<1>1. ASSUME NEW k \in Kinds, Add(k) PROVE Log!Next
  <2>1. flush.pc = "idle" /\ flush'.pc \in {"idle", "insert"}
    BY <1>1 DEF Add, EnterFlush, Idle
  <2>2. Pending = buffer /\ Pending' = buffer'
    BY <2>1 DEF Pending
  <2>3. Log!Accept(k)
    BY <1>1, <2>2 DEF Add, Log!Accept
  <2> QED
    BY <2>3
<1>2. CASE MaybeFlush \/ Flush
  <2>1. flush.pc = "idle" /\ flush'.pc \in {"idle", "insert"}
    BY <1>2 DEF MaybeFlush, Flush, EnterFlush, Idle
  <2> QED
    BY <1>2, <2>1 DEF Pending, MaybeFlush, Flush
<1>3. CASE Insert
  <2>1. flush.pc = "insert" /\ flush'.pc = "locked"
    BY <1>3 DEF Insert, SInv, TypeOK
  <2> QED
    BY <1>3, <2>1 DEF Pending, Insert
<1>4. CASE Commit
  <2>1. /\ flush.pc = "locked" /\ flush'.pc = "clear_events"
        /\ flush.rows = buffer
    BY <1>4 DEF Commit, SInv, TypeOK
  <2>2. Pending = buffer /\ Pending' = NoRows
    BY <2>1 DEF Pending, NoRows
  <2>3. Log!Persist
    BY <1>0, <1>4, <2>1, <2>2 DEF Commit, Log!Persist
  <2> QED
    BY <2>3
<1>5. CASE ClearEvents
  <2>1. flush.pc = "clear_events" /\ flush'.pc = "clear_spectrum"
    BY <1>5 DEF ClearEvents, SInv, TypeOK
  <2>2. Pending = NoRows /\ Pending' = NoRows
    BY <2>1 DEF Pending, NoRows
  <2> QED
    BY <1>5, <2>2 DEF ClearEvents
<1>6. CASE ClearSpectrum
  <2>1. \A k \in Kinds : buffer'[k] = <<>>
    BY <1>6 DEF ClearSpectrum, SpectrumCleared, SInv, TypeOK, Rows, Kinds
  <2>2. SInv'
    BY NextSInv
  <2>3. buffer' = NoRows
    BY <2>1, <2>2 DEF SInv, TypeOK, Rows, NoRows
  <2>4. flush.pc = "clear_spectrum" /\ flush'.pc = "idle"
    BY <1>6 DEF ClearSpectrum, Idle
  <2>5. Pending = NoRows /\ Pending' = NoRows
    BY <2>3, <2>4 DEF Pending, NoRows
  <2> QED
    BY <1>6, <2>5 DEF ClearSpectrum
<1>7. CASE FlushFails
  <2>1. flush.pc \in {"insert", "locked"} /\ flush'.pc = "idle"
    BY <1>7 DEF FlushFails, Idle
  <2> QED
    BY <1>7, <2>1 DEF Pending, FlushFails, KeptAfterFailure
<1>8. CASE Crash
  <2>1. flush'.pc = "idle" /\ buffer' = NoRows
    BY <1>8 DEF Crash, Idle
  <2>2. Pending' = NoRows
    BY <2>1 DEF Pending
  <2>3. Log!Crash
    BY <1>0, <1>8, <2>2 DEF Crash, Log!Crash
  <2> QED
    BY <2>3
<1>9. CASE UNCHANGED vars
  BY <1>9 DEF vars, process, Pending
<1> QED
  BY <1>1, <1>2, <1>3, <1>4, <1>5, <1>6, <1>7, <1>8, <1>9
  DEF Next, FlushStep

(* The buffers, the failed flushes and the two clears are invisible: the   *)
(* store implements a log whose rows become durable all at once, at the    *)
(* commit (store.py:327).                                                  *)
THEOREM StoreImplementsLog == Spec => LogSpec
<1>1. Init => Log!Init
  BY InitLog
<1>2. SInv /\ [Next]_vars => [Log!Next]_(Log!logVars)
  BY StepLog
<1> QED
  BY <1>1, <1>2, StoreInvariant, PTL DEF Spec, LogSpec, Log!Spec

-----------------------------------------------------------------------------
(* EngineShutdown. The invariant of the store is that of the engine as     *)
(* long as no signal strikes between a commit and the end of its flush:    *)
(* the calls that a signal interrupts are never resumed.                   *)

NoIncident == seen \cap {"refused", "final_flush"} = {}

(* The flush on top of the stack, whatever was interrupted below it. *)
TopInv ==
  /\ buffer = [k \in Kinds |-> buffer[k]]
  /\ flush = [pc |-> flush.pc, rows |-> flush.rows] /\ flush.pc \in Pcs
  /\ flush.pc = "clear_spectrum" => buffer["event"] = <<>>
  /\ crashes \in Nat

StopInv ==
  /\ main \in Phases /\ stopping \in BOOLEAN
  /\ main = "running" => suspended = <<>>
  /\ main \in {"running", "exited"} => ~stopping
  /\ stopping => flush.pc = "idle"
  /\ main # "exited" /\ crashes = 0 => \A k \in Kinds : lost[k] = {}
  /\ main \in {"finally", "final_handler"} /\ NoIncident =>
       /\ suspended = <<>>
       /\ flush.pc = "idle" /\ ~stopping => buffer = NoRows

EInv ==
  /\ "after_commit" \notin seen => SInv
  /\ TopInv
  /\ StopInv
  /\ StopWritesAll

LEMMA InitEInv == EngineInit => EInv
<1> SUFFICES ASSUME EngineInit PROVE EInv
  OBVIOUS
<1>1. SInv
  BY InitSInv DEF EngineInit
<1>2. TopInv
  BY DEF EngineInit, Init, NoRows, Idle, TopInv, Pcs
<1>3. StopInv /\ StopWritesAll
  BY DEF EngineInit, Init, Idle, StopInv, StopWritesAll, Phases
<1> QED
  BY <1>1, <1>2, <1>3 DEF EInv

-----------------------------------------------------------------------------
(* Entering a flush from any place but the end of one.                     *)
LEMMA EnterSInv ==
  ASSUME SInv, ~Committed, EnterFlush(buffer),
         UNCHANGED <<issued, buffer, db, lost, failed, crashes>>
  PROVE  SInv'
<1>1. buffer \in Rows
  BY DEF SInv, TypeOK
<1>2. /\ flush' \in [pc : Pcs, rows : Rows]
      /\ since' \in 0..BatchTimeout
      /\ flush'.pc \in {"idle", "insert"}
      /\ flush'.pc = "insert" => flush'.rows = buffer
  BY <1>1, EnterFlushTypes
<1>3. ~Committed'
  BY <1>2 DEF Committed
<1>4. \A k \in Kinds : KindInv(k)'
  BY <1>3, SameRows
<1> QED
  BY <1>2, <1>4 DEF SInv, TypeOK

(* A signal suspends the flush on top, if there is one.                    *)
LEMMA SuspendSInv ==
  ASSUME SInv, ~Committed, flush' = Idle,
         UNCHANGED <<issued, buffer, since, db, lost, failed, crashes>>
  PROVE  SInv'
<1>1. flush' \in [pc : Pcs, rows : Rows] /\ ~Committed'
  BY EmptyRows DEF Idle, Pcs, Committed
<1>2. \A k \in Kinds : KindInv(k)'
  BY <1>1, SameRows
<1>3. flush'.pc = "idle"
  BY DEF Idle
<1>4. TypeOK'
  BY <1>1 DEF SInv, TypeOK
<1> QED
  BY <1>2, <1>3, <1>4 DEF SInv

LEMMA EnterTop ==
  ASSUME TopInv, EnterFlush(buffer), UNCHANGED <<buffer, crashes>>
  PROVE  /\ TopInv'
         /\ flush'.pc = "idle" => buffer = NoRows
  BY DEF TopInv, EnterFlush, Idle, Pcs

LEMMA StoreStepTop ==
  ASSUME TopInv,
         (\E k \in Kinds : Add(k)) \/ MaybeFlush \/ Insert \/ Commit
           \/ ClearEvents \/ ClearSpectrum \/ FlushFails
  PROVE  /\ TopInv'
         /\ UNCHANGED <<lost, crashes>>
         /\ Insert \/ Commit \/ ClearEvents \/ ClearSpectrum =>
              (flush'.pc = "idle" => buffer' = NoRows)
<1> USE DEF TopInv, Kinds
<1> DEFINE Kept == TopInv' /\ UNCHANGED <<lost, crashes>>
<1>1. ASSUME NEW k \in Kinds, Add(k)
      PROVE  Kept
  <2>1. /\ flush.pc = "idle" /\ UNCHANGED <<lost, crashes>>
        /\ buffer' = [buffer EXCEPT ![k] = Append(@, issued[k] + 1)]
        /\ flush' \in {flush, Idle, [pc |-> "insert", rows |-> buffer']}
    BY <1>1 DEF Add, EnterFlush
  <2>2. /\ flush' = [pc |-> flush'.pc, rows |-> flush'.rows]
        /\ flush'.pc \in {"idle", "insert"}
    BY <2>1 DEF Idle
  <2>3. buffer' = [j \in Kinds |-> buffer'[j]]
    BY <2>1
  <2> QED
    BY <2>1, <2>2, <2>3 DEF Pcs
<1>2. ASSUME MaybeFlush PROVE Kept
  BY <1>2 DEF MaybeFlush, Pcs
<1>3. ASSUME Insert PROVE Kept
  <2>1. flush' = [flush EXCEPT !.pc = "locked"] /\ flush.pc = "insert"
    BY <1>3 DEF Insert
  <2> QED
    BY <1>3, <2>1 DEF Insert, Pcs
<1>4. ASSUME Commit PROVE Kept
  BY <1>4 DEF Commit, Pcs
<1>5. ASSUME ClearEvents PROVE Kept
  BY <1>5 DEF ClearEvents, Pcs
<1>6. ASSUME ClearSpectrum PROVE Kept
  <2>1. buffer' = [buffer EXCEPT !["spectrum"] = <<>>] /\ buffer["event"] = <<>>
    BY <1>6 DEF ClearSpectrum, SpectrumCleared
  <2>2. buffer' = NoRows
    BY <2>1 DEF NoRows
  <2> QED
    BY <1>6, <2>2 DEF ClearSpectrum, Idle, NoRows, Pcs
<1>7. ASSUME FlushFails PROVE Kept
  BY <1>7 DEF FlushFails, KeptAfterFailure, Idle, Pcs
<1>8. Insert \/ Commit \/ ClearEvents => flush'.pc # "idle"
  <2>1. flush = [pc |-> flush.pc, rows |-> flush.rows]
    OBVIOUS
  <2> QED
    BY <2>1 DEF Insert, Commit, ClearEvents
<1>9. ClearSpectrum => buffer' = NoRows
  BY DEF ClearSpectrum, SpectrumCleared, NoRows
<1> HIDE DEF Kept
<1>10. Kept
  BY <1>1, <1>2, <1>3, <1>4, <1>5, <1>6, <1>7
<1> QED
  BY <1>8, <1>9, <1>10 DEF Kept

-----------------------------------------------------------------------------
(* The actions of the engine.                                              *)

LEMMA LoopEInv == EInv /\ LoopStep => EInv'
<1> SUFFICES ASSUME EInv, LoopStep PROVE EInv'
  OBVIOUS
<1>1. /\ main = "running"
      /\ (\E k \in Kinds : Add(k)) \/ MaybeFlush
      /\ UNCHANGED <<main, stopping, suspended, seen>>
  BY DEF LoopStep
<1>2. "after_commit" \notin seen' => SInv'
  BY <1>1, AddSInv, FlushEntrySInv DEF EInv
<1>3. TopInv' /\ UNCHANGED <<lost, crashes>>
  BY <1>1, StoreStepTop DEF EInv
<1>4. StopInv'
  <2>1. /\ main \in Phases /\ suspended = <<>> /\ stopping = FALSE
        /\ crashes = 0 => \A k \in Kinds : lost[k] = {}
    BY <1>1 DEF EInv, StopInv
  <2> QED
    BY <1>1, <1>3, <2>1 DEF StopInv
<1>5. StopWritesAll'
  BY <1>1 DEF StopWritesAll
<1> QED
  BY <1>2, <1>3, <1>4, <1>5 DEF EInv

(* In the finally clause nothing interrupted holds the lock, so that a     *)
(* failure is a refusal, and the end of the flush leaves nothing.          *)
LEMMA TopFlushEInv == EInv /\ TopFlushStep => EInv'
<1> SUFFICES ASSUME EInv, TopFlushStep PROVE EInv'
  OBVIOUS
<1>1. /\ main # "exited" /\ UNCHANGED <<main, stopping, suspended>>
      /\ \/ Insert \/ Commit \/ ClearEvents \/ ClearSpectrum
         \/ FlushFails /\ (~LockedBelow => "refused" \in seen')
      /\ seen' = seen \/ seen' = seen \cup {"refused"}
  BY DEF TopFlushStep
<1>2. "after_commit" \notin seen' => SInv'
  BY <1>1, InsertSInv, CommitSInv, ClearsSInv, FlushFailsSInv DEF EInv
<1>3. /\ TopInv' /\ UNCHANGED <<lost, crashes>>
      /\ Insert \/ Commit \/ ClearEvents \/ ClearSpectrum =>
           (flush'.pc = "idle" => buffer' = NoRows)
  BY <1>1, StoreStepTop DEF EInv
<1>4. StopInv'
  <2> SUFFICES ASSUME main \in {"finally", "final_handler"}, NoIncident',
                      flush'.pc = "idle"
               PROVE  buffer' = NoRows
    <3>1. NoIncident' => NoIncident
      BY <1>1 DEF NoIncident
    <3>2. flush.pc # "idle"
      BY <1>1 DEF Insert, Commit, ClearEvents, ClearSpectrum, FlushFails
    <3>3. stopping = FALSE
      BY <3>2 DEF EInv, StopInv
    <3> QED
      BY <1>1, <1>3, <3>1, <3>3 DEF EInv, StopInv
  <2>1. NoIncident /\ "refused" \notin seen'
    BY <1>1 DEF NoIncident
  <2>2. suspended = <<>>
    BY <2>1 DEF EInv, StopInv
  <2>3. ~LockedBelow
    BY <2>2, EmptySeq DEF LockedBelow
  <2>4. Insert \/ Commit \/ ClearEvents \/ ClearSpectrum
    BY <1>1, <2>1, <2>3
  <2> QED
    BY <1>3, <2>4
<1>5. StopWritesAll'
  BY <1>1 DEF StopWritesAll
<1> QED
  BY <1>2, <1>3, <1>4, <1>5 DEF EInv

LEMMA SignalEInv == EInv /\ Signal => EInv'
<1> SUFFICES ASSUME EInv, Signal PROVE EInv'
  OBVIOUS
<1>1. /\ main # "exited" /\ main' = HandlerPhase /\ stopping' = TRUE
      /\ suspended' = IF flush.pc = "idle" THEN suspended
                      ELSE Append(suspended, flush)
      /\ seen' = seen \cup Struck
      /\ flush' = Idle
      /\ UNCHANGED <<issued, buffer, since, db, lost, failed, crashes>>
  BY DEF Signal
<1>2. "after_commit" \notin seen' => SInv'
  <2> SUFFICES ASSUME "after_commit" \notin seen' PROVE SInv'
    OBVIOUS
  <2>1. ~Committed /\ SInv
    BY <1>1 DEF Struck, Committed, EInv
  <2> QED
    BY <1>1, <2>1, SuspendSInv
<1>3. TopInv' /\ flush'.pc = "idle"
  BY <1>1 DEF EInv, TopInv, Idle, Pcs
<1>4. StopInv'
  <2>1. main' \in Phases /\ main' \notin {"running", "exited"}
    BY <1>1 DEF HandlerPhase, Phases
  <2>2. ASSUME main' \in {"finally", "final_handler"}, NoIncident'
        PROVE  suspended' = <<>>
    <3>1. /\ main \in {"finally", "final_handler"}
          /\ HandlerPhase = "final_handler"
      BY <1>1, <2>2 DEF HandlerPhase
    <3>2. flush.pc = "idle" /\ NoIncident
      BY <1>1, <2>2, <3>1 DEF Struck, NoIncident
    <3> QED
      BY <1>1, <3>1, <3>2 DEF EInv, StopInv
  <2>3. crashes' = 0 => \A k \in Kinds : lost'[k] = {}
    BY <1>1 DEF EInv, StopInv
  <2> QED
    BY <1>1, <1>3, <2>1, <2>2, <2>3 DEF StopInv
<1>5. StopWritesAll'
  BY <1>1 DEF StopWritesAll, HandlerPhase
<1> QED
  BY <1>2, <1>3, <1>4, <1>5 DEF EInv

(* The stream is stopped: the flush of the stop follows. *)
LEMMA CaptureStopsEInv == EInv /\ CaptureStops => EInv'
<1> SUFFICES ASSUME EInv, CaptureStops PROVE EInv'
  OBVIOUS
<1>1. /\ stopping /\ stopping' = FALSE /\ EnterFlush(buffer)
      /\ UNCHANGED <<issued, buffer, db, lost, failed, crashes, main, suspended, seen>>
  BY DEF CaptureStops
<1>2. flush.pc = "idle" /\ main \notin {"running", "exited"}
  BY <1>1 DEF EInv, StopInv
<1>3. "after_commit" \notin seen' => SInv'
  BY <1>1, <1>2, EnterSInv DEF EInv, Committed
<1>4. TopInv' /\ (flush'.pc = "idle" => buffer = NoRows)
  BY <1>1, EnterTop DEF EInv
<1>5. StopInv'
  BY <1>1, <1>2, <1>4 DEF EInv, StopInv, NoIncident
<1>6. StopWritesAll'
  BY <1>1, <1>2 DEF StopWritesAll
<1> QED
  BY <1>3, <1>4, <1>5, <1>6 DEF EInv

(* The finally clause begins: the interrupted calls are unwound. *)
LEMMA FinallyEInv == EInv /\ (HandlerExits \/ LoopRaises) => EInv'
<1> SUFFICES ASSUME EInv, HandlerExits \/ LoopRaises PROVE EInv'
  OBVIOUS
<1>1. /\ main \in {"handler", "running"} /\ flush.pc = "idle"
      /\ main' = "finally" /\ stopping' = TRUE
      /\ HandlerExits => suspended' = <<>>
      /\ LoopRaises => suspended' = suspended /\ main = "running"
      /\ UNCHANGED <<vars, seen>>
  BY DEF HandlerExits, LoopRaises, FinallyStops
<1>2. "after_commit" \notin seen' => SInv'
  BY <1>1, NextSInv DEF EInv
<1>3. UNCHANGED <<buffer, flush, crashes, lost>>
  BY <1>1 DEF vars, process
<1>4. TopInv'
  BY <1>3 DEF EInv, TopInv
<1>5. suspended' = <<>>
  BY <1>1 DEF EInv, StopInv
<1>6. StopInv' /\ StopWritesAll'
  BY <1>1, <1>3, <1>5 DEF EInv, StopInv, StopWritesAll, Phases
<1> QED
  BY <1>2, <1>4, <1>6 DEF EInv

(* The process ends: what the buffers hold is gone. *)
LEMMA ExitEInv == EInv /\ Exit => EInv'
<1> SUFFICES ASSUME EInv, Exit PROVE EInv'
  OBVIOUS
<1>1. /\ main \in {"finally", "final_handler"} /\ main' = "exited"
      /\ flush.pc = "idle" /\ stopping = FALSE /\ stopping' = FALSE
      /\ lost' = [k \in Kinds |->
                    lost[k] \cup (RowsIn(buffer[k]) \ RowsIn(db[k]))]
      /\ buffer' = NoRows
      /\ UNCHANGED <<issued, since, flush, db, failed, crashes, seen>>
  BY DEF Exit, EInv, StopInv
<1>2. "after_commit" \notin seen' => SInv'
  <2> SUFFICES ASSUME SInv PROVE SInv'
    BY <1>1 DEF EInv
  <2>1. ~Committed /\ ~Committed'
    BY <1>1 DEF Committed
  <2>2. lost' \in [Kinds -> SUBSET Nat]
    BY <1>1, RowsInType DEF SInv, TypeOK, Rows
  <2>3. TypeOK'
    BY <1>1, <2>2, EmptyRows DEF SInv, TypeOK
  <2>4. ASSUME NEW k \in Kinds PROVE KindInv(k)'
    <3>1. KindInv(k)
      BY DEF SInv
    <3>2. /\ buffer'[k] = <<>>
          /\ lost'[k] = lost[k] \cup (RowsIn(buffer[k]) \ RowsIn(db[k]))
      BY <1>1, EmptyRows
    <3> QED
      BY <1>1, <2>1, <3>1, <3>2, EmptyRows DEF KindInv
  <2> QED
    BY <1>1, <2>3, <2>4 DEF SInv
<1>3. TopInv'
  BY <1>1 DEF EInv, TopInv, NoRows
<1>4. StopInv'
  BY <1>1 DEF StopInv, Phases
<1>5. StopWritesAll'
  <2> SUFFICES ASSUME crashes = 0, NoIncident, NEW k \in Kinds
               PROVE  lost'[k] = {}
    BY <1>1 DEF StopWritesAll, NoIncident
  <2>1. buffer = NoRows /\ lost[k] = {}
    BY <1>1 DEF EInv, StopInv
  <2>2. RowsIn(buffer[k]) = {}
    BY <2>1, EmptyRows
  <2> QED
    BY <1>1, <2>1, <2>2
<1> QED
  BY <1>2, <1>3, <1>4, <1>5 DEF EInv

LEMMA KilledEInv == EInv /\ Killed => EInv'
<1> SUFFICES ASSUME EInv, Killed PROVE EInv'
  OBVIOUS
<1>1. /\ Crash /\ main' = "running" /\ suspended' = <<>> /\ seen' = seen
      /\ stopping' = FALSE
      /\ crashes' = crashes + 1 /\ buffer' = NoRows /\ flush' = Idle
  BY DEF Killed, Crash
<1>2. "after_commit" \notin seen' => SInv'
  BY <1>1, CrashSInv DEF EInv
<1>3. crashes' \in Nat /\ crashes' # 0
  BY <1>1 DEF EInv, TopInv
<1>4. TopInv'
  BY <1>1, <1>3 DEF TopInv, NoRows, Idle, Pcs
<1>5. StopInv' /\ StopWritesAll'
  BY <1>1, <1>3 DEF StopInv, StopWritesAll, Phases
<1> QED
  BY <1>2, <1>4, <1>5 DEF EInv

LEMMA NextEInv == EInv /\ [EngineNext]_engineVars => EInv'
<1> SUFFICES ASSUME EInv, [EngineNext]_engineVars PROVE EInv'
  OBVIOUS
<1>1. CASE EngineNext
  BY <1>1, LoopEInv, TopFlushEInv, SignalEInv, CaptureStopsEInv, FinallyEInv, ExitEInv,
     KilledEInv
  DEF EngineNext
<1>2. CASE UNCHANGED engineVars
  <2>1. UNCHANGED vars /\ UNCHANGED <<main, stopping, suspended, seen>>
    BY <1>2 DEF engineVars
  <2>2. "after_commit" \notin seen' => SInv'
    BY <2>1, NextSInv DEF EInv
  <2>3. UNCHANGED <<buffer, flush, crashes, lost>>
    BY <2>1 DEF vars, process
  <2>4. TopInv'
    BY <2>3 DEF EInv, TopInv
  <2>5. StopInv' /\ StopWritesAll'
    BY <2>1, <2>3 DEF EInv, StopInv, NoIncident, StopWritesAll
  <2> QED
    BY <2>2, <2>4, <2>5 DEF EInv
<1> QED
  BY <1>1, <1>2

-----------------------------------------------------------------------------
(* The invariant of the engine, for every number of signals, every batch   *)
(* and timeout (pipeline.py, start and stop; __main__.py, cmd_start).      *)
THEOREM EngineInvariant == EngineSpec => []EInv
<1> QED
  BY InitEInv, NextEInv, PTL DEF EngineSpec

(* However many signals come in between, a stopping process writes every   *)
(* row, unless a flush was refused or one of the finally clause was        *)
(* interrupted (Engine.start, `finally: self.stop()`; store.close).        *)
THEOREM StopsWriteAll == EngineSpec => []StopWritesAll
<1>1. EInv => StopWritesAll
  BY DEF EInv
<1> QED
  BY <1>1, EngineInvariant, PTL

(* However flushes are interrupted and nested, a row is stored twice only  *)
(* if a signal struck between a commit and the end of its flush            *)
(* (cmd_start, handle_signal; store.py, _do_flush).                        *)
THEOREM StoredTwiceOnlyIfStruck == EngineSpec => []TwiceOnlyIfStruck
<1>1. EInv => TwiceOnlyIfStruck
  BY DEF EInv, TwiceOnlyIfStruck, SInv, KindInv, StoredOnceInOrder
<1> QED
  BY <1>1, EngineInvariant, PTL
=============================================================================
