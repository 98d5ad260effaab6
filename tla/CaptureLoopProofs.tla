-------------------------- MODULE CaptureLoopProofs --------------------------
(* Proofs about CaptureLoop: what the queue holds, what the loss of a block *)
(* takes, the rows and the end of the spectrum window, and the channel.     *)
EXTENDS CaptureLoop, SequenceTheorems, TLAPS

-----------------------------------------------------------------------------
(* The inductive invariant.                                                *)

(* The latest block that the callback has dealt with. *)
Latest == IF full THEN clock - 1 ELSE clock

(* Every block was taken, is queued, or is lost; what is queued was        *)
(* recorded after what was taken.                                          *)
QueueInv ==
  /\ QueueIsNewest
  /\ taken + Len(queue) <= Latest
  /\ ticks + Len(queue) + lost = Latest

(* One event at most for each tick. *)
TickInv == pc \in {"add_spectrum", "detect"} => events < ticks

(* The window goes on where the latest row ends; its ticks are blocks      *)
(* recorded since its origin, or queued before it.                         *)
WindowInv ==
  /\ row.dur > 0 => window.started /\ window.t0 = row.t0 + row.dur
  /\ window.started =>
       window.ticks <= taken + wall - window.t0 + setBack + QueueSize + 1
  /\ ~window.started => window.ticks = 0
  /\ WindowEnds

(* Until the second wait the queue holds what one wait brought. *)
WaitInv ==
  starved = 0 /\ waits < 2 =>
    /\ ~full
    /\ waits = 0 => /\ ~waiting
                    /\ Len(queue) <= IF pc = "get" THEN 1 ELSE 0
    /\ waits = 1 => Len(queue) <= IF waiting THEN clock - since ELSE LockTimeout

(* TypeOK in three parts. *)
QueueTypes ==
  /\ clock \in 0..MaxBlocks
  /\ queue \in Seq(1..MaxBlocks) /\ Len(queue) <= QueueSize
  /\ full \in BOOLEAN
  /\ taken \in 0..clock /\ ticks \in 0..taken /\ lost \in 0..clock

StepTypes ==
  /\ waiting \in BOOLEAN /\ busy \in BOOLEAN
  /\ pc \in Places
  /\ waiting => pc \in FlushSites \cup {"retain"} /\ clock - since <= LockTimeout
  /\ since \in 0..clock
  /\ events \in 0..ticks /\ spectra \in 0..ticks
  /\ lastFlush \in 0..clock /\ lastRetention \in Int /\ now_wall \in Int
  /\ jumps \in 0..MaxJumps /\ starved \in 0..MaxStarved /\ waits \in Nat

WindowTypes ==
  /\ window \in [started : BOOLEAN, t0 : Int, ticks : 0..ticks]
  /\ row \in [t0 : Int, dur : Int]
  /\ wall \in Int /\ setBack \in Nat

LInv == TypeOK /\ QueueInv /\ TickInv /\ WindowInv /\ WaitInv

LEMMA TypeParts == TypeOK <=> QueueTypes /\ StepTypes /\ WindowTypes
  BY DEF TypeOK, QueueTypes, StepTypes, WindowTypes

LEMMA InitLInv == Init => LInv
<1> SUFFICES ASSUME Init PROVE LInv
  OBVIOUS
<1> USE LoopAssumption DEF Init
<1>1. queue \in Seq(1..MaxBlocks) /\ Len(queue) = 0 /\ DOMAIN queue = {}
  BY EmptySeq
<1>2. TypeOK
  <2>0. full \in BOOLEAN /\ waiting \in BOOLEAN /\ busy \in BOOLEAN /\ ~waiting
    OBVIOUS
  <2>1. QueueTypes
    <3>1. clock = 0 /\ taken = 0 /\ ticks = 0 /\ lost = 0
      OBVIOUS
    <3> QED
      BY <1>1, <2>0, <3>1 DEF QueueTypes
  <2>2. StepTypes
    <3>1. /\ clock = 0 /\ since = 0 /\ ticks = 0 /\ events = 0 /\ spectra = 0
          /\ lastFlush = 0 /\ lastRetention = 0 /\ now_wall = 0
          /\ jumps = 0 /\ starved = 0
          /\ waits = 0 /\ pc = "get"
      OBVIOUS
    <3> QED
      BY <2>0, <3>1 DEF StepTypes, Places, FlushSites
  <2>3. WindowTypes
    BY DEF WindowTypes
  <2> QED
    BY <2>1, <2>2, <2>3, TypeParts
<1>3. QueueInv
  BY <1>1 DEF QueueInv, QueueIsNewest, Latest
<1>4. TickInv /\ WindowInv /\ WaitInv
  BY <1>1 DEF TickInv, WindowInv, WindowEnds, WaitInv
<1> QED
  BY <1>2, <1>3, <1>4 DEF LInv

-----------------------------------------------------------------------------
(* Queues.                                                                 *)

QueueNow ==
  /\ clock \in Nat /\ taken \in Nat /\ ticks \in Nat /\ lost \in Nat
  /\ clock <= MaxBlocks /\ ticks <= taken /\ lost <= clock
  /\ Len(queue) <= QueueSize /\ full \in BOOLEAN
  /\ Len(queue) \in Nat /\ DOMAIN queue = 1..Len(queue)
  /\ queue \in Seq(Nat)
  /\ \A i \in 1..Len(queue) : queue[i] = Latest - Len(queue) + i
  /\ Latest \in Int /\ Latest <= clock
  /\ taken + Len(queue) <= Latest
  /\ ticks + Len(queue) + lost = Latest

LEMMA QueueFacts == LInv => QueueNow
<1> SUFFICES ASSUME LInv PROVE QueueNow
  OBVIOUS
<1>1. queue \in Seq(Nat)
  BY LoopAssumption, SeqDef DEF LInv, TypeOK
<1> QED
  BY <1>1, LenProperties, LoopAssumption, SMTT(30)
  DEF QueueNow, LInv, TypeOK, QueueInv, QueueIsNewest, Latest

LEMMA HeadOfQueue ==
  ASSUME LInv, queue # <<>>
  PROVE  /\ Head(queue) = Latest - Len(queue) + 1
         /\ Tail(queue) \in Seq(1..MaxBlocks)
         /\ Len(queue) >= 1
         /\ Len(Tail(queue)) = Len(queue) - 1
         /\ \A i \in 1..Len(Tail(queue)) : Tail(queue)[i] = queue[i + 1]
<1>q. QueueNow
  BY QueueFacts
<1> USE LoopAssumption DEF QueueNow
<1>1. queue \in Seq(1..MaxBlocks) /\ queue \in Seq(Nat)
  BY <1>q DEF LInv, TypeOK
<1>2. Len(queue) >= 1
  BY <1>1, EmptySeq, LenProperties, <1>q
<1>3. /\ Head(queue) = queue[1]
      /\ Tail(queue) \in Seq(1..MaxBlocks)
      /\ Len(Tail(queue)) = Len(queue) - 1
      /\ \A i \in 1..Len(Tail(queue)) : Tail(queue)[i] = queue[i + 1]
  BY <1>1, HeadTailProperties
<1> QED
  BY <1>2, <1>3, <1>q

(* One more block, then what the callback does with it. *)
LEMMA QueuePuts ==
  ASSUME LInv, CallbackPuts
  PROVE  QueueTypes' /\ QueueInv'
<1>q. QueueNow
  BY QueueFacts
<1> USE LoopAssumption DEF QueueNow
<1>1. /\ clock' = clock + 1 /\ clock' \in 1..MaxBlocks
      /\ ~full /\ ~full' /\ full' \in BOOLEAN
      /\ queue' = Append(queue, clock') /\ Len(queue) < QueueSize
      /\ UNCHANGED <<lost, taken, ticks>>
  BY <1>q
  DEF CallbackPuts, BlockComes, HasRoom, Put, windowVars, LInv, TypeOK
<1>2. /\ queue' \in Seq(1..MaxBlocks)
      /\ Len(queue') = Len(queue) + 1
      /\ \A i \in 1..Len(queue) : queue'[i] = queue[i]
      /\ queue'[Len(queue) + 1] = clock'
      /\ DOMAIN queue' = 1..(Len(queue) + 1)
  BY <1>1, AppendProperties, LenProperties DEF LInv, TypeOK
<1>3. QueueTypes'
  BY <1>1, <1>2, <1>q DEF QueueTypes, LInv, TypeOK
<1>4. Latest = clock /\ Latest' = clock + 1
  BY <1>1 DEF Latest
<1>5. QueueIsNewest'
  <2> SUFFICES ASSUME NEW i \in 1..(Len(queue) + 1)
               PROVE  queue'[i] = clock' - Len(queue') + i
    BY <1>1, <1>2 DEF QueueIsNewest
  <2>1. CASE i = Len(queue) + 1
    BY <1>1, <1>2, <2>1, <1>q
  <2>2. CASE i \in 1..Len(queue)
    BY <1>1, <1>2, <1>4, <2>2, <1>q
  <2> QED
    BY <2>1, <2>2, <1>q
<1>6. /\ taken' + Len(queue') <= Latest'
      /\ ticks' + Len(queue') + lost' = Latest'
  BY <1>1, <1>2, <1>4, <1>q
<1> QED
  BY <1>3, <1>5, <1>6 DEF QueueInv

LEMMA QueueIsFull ==
  ASSUME LInv, CallbackFull
  PROVE  QueueTypes' /\ QueueInv'
<1>q. QueueNow
  BY QueueFacts
<1> USE LoopAssumption DEF QueueNow
<1>1. /\ clock' = clock + 1 /\ clock' \in 1..MaxBlocks
      /\ ~full /\ full' /\ full' \in BOOLEAN
      /\ UNCHANGED <<queue, lost, taken, ticks>>
  BY <1>q DEF CallbackFull, BlockComes, windowVars, LInv, TypeOK
<1>2. QueueTypes'
  BY <1>1, <1>q DEF QueueTypes, LInv, TypeOK
<1>3. Latest = clock /\ Latest' = clock
  BY <1>1, <1>q DEF Latest
<1>4. QueueIsNewest'
  BY <1>1, <1>3, <1>q DEF QueueIsNewest, Latest
<1> QED
  BY <1>1, <1>2, <1>3, <1>4, <1>q DEF QueueInv

(* The oldest block makes room, or the new one is lost. *)
LEMMA QueueMakesRoom ==
  ASSUME LInv, CallbackMakesRoom
  PROVE  QueueTypes' /\ QueueInv'
<1>q. QueueNow
  BY QueueFacts
<1> USE LoopAssumption DEF QueueNow
<1>1. /\ full /\ ~full' /\ full' \in BOOLEAN
      /\ lost' = lost + 1
      /\ queue' = IF queue = <<>> THEN <<>> ELSE Append(Tail(queue), clock)
      /\ UNCHANGED <<clock, taken, ticks>>
  BY DEF CallbackMakesRoom, RoomMade, Put, windowVars
<1>2. Latest = clock - 1 /\ Latest' = clock
  BY <1>1 DEF Latest
<1>3. /\ clock \in 1..MaxBlocks
      /\ lost + 1 \in 0..clock
      /\ Len(queue) <= QueueSize
  BY <1>2, <1>q DEF LInv, TypeOK
<1>4. /\ queue' \in Seq(1..MaxBlocks)
      /\ Len(queue') = Len(queue)
      /\ \A i \in 1..Len(queue) : queue'[i] = clock - Len(queue) + i
  <2>1. CASE queue = <<>>
    BY <1>1, <2>1, EmptySeq
  <2>2. CASE queue # <<>>
    <3>1. /\ Tail(queue) \in Seq(1..MaxBlocks)
          /\ Len(queue) >= 1 /\ Len(Tail(queue)) = Len(queue) - 1
          /\ \A i \in 1..Len(Tail(queue)) : Tail(queue)[i] = queue[i + 1]
      BY <2>2, HeadOfQueue
    <3>2. /\ queue' \in Seq(1..MaxBlocks)
          /\ Len(queue') = Len(queue)
          /\ \A i \in 1..(Len(queue) - 1) : queue'[i] = queue[i + 1]
          /\ queue'[Len(queue)] = clock
      <4>1. queue' = Append(Tail(queue), clock)
        BY <1>1, <2>2
      <4> QED
        BY <1>3, <3>1, <4>1, AppendProperties, <1>q
    <3> QED
      <4> SUFFICES ASSUME NEW i \in 1..Len(queue)
                   PROVE  queue'[i] = clock - Len(queue) + i
        BY <3>2
      <4>1. CASE i = Len(queue)
        BY <3>2, <4>1, <1>q
      <4>2. CASE i \in 1..(Len(queue) - 1)
        <5>1. i + 1 \in 1..Len(queue)
          BY <4>2, <1>q
        <5>2. queue'[i] = queue[i + 1] /\ queue[i + 1] = Latest - Len(queue) + (i + 1)
          BY <3>2, <4>2, <5>1, <1>q
        <5>3. Latest - Len(queue) + (i + 1) = clock - Len(queue) + i
          BY <1>2, <1>q
        <5> QED
          BY <5>2, <5>3
      <4>3. i = Len(queue) \/ i \in 1..(Len(queue) - 1)
        <5>1. PICK n \in Nat : Len(queue) = n
          BY <1>q
        <5> QED
          BY <5>1
      <4> QED
        BY <4>1, <4>2, <4>3
  <2> QED
    BY <2>1, <2>2
<1>5. QueueTypes'
  BY <1>1, <1>3, <1>4, <1>q DEF QueueTypes, LInv, TypeOK
<1>6. QueueIsNewest'
  <2>1. DOMAIN queue' = 1..Len(queue)
    BY <1>4, LenProperties
  <2> QED
    BY <1>1, <1>4, <2>1 DEF QueueIsNewest
<1>7. /\ taken' + Len(queue') <= Latest'
      /\ ticks' + Len(queue') + lost' = Latest'
  <2>1. /\ taken' = taken /\ ticks' = ticks /\ lost' = lost + 1
        /\ Len(queue') = Len(queue) /\ Latest' = Latest + 1
    <3>1. clock \in Int /\ Latest = clock - 1 /\ Latest' = clock
      BY <1>2, <1>q
    <3>2. Latest' = Latest + 1
      BY <3>1
    <3> QED
      BY <1>1, <1>4, <3>2
  <2>2. /\ taken \in Nat /\ ticks \in Nat /\ lost \in Nat
        /\ Len(queue) \in Nat /\ Latest \in Int
        /\ taken + Len(queue) <= Latest
        /\ ticks + Len(queue) + lost = Latest
    BY <1>q
  <2> QED
    BY <2>1, <2>2
<1> QED
  BY <1>5, <1>6, <1>7 DEF QueueInv

LEMMA QueueTaken ==
  ASSUME LInv, Take
  PROVE  /\ QueueTypes' /\ QueueInv'
         /\ taken' = Latest - Len(queue) + 1 /\ ticks' = ticks + 1
         /\ Len(queue') = Len(queue) - 1
         /\ taken < taken' /\ taken' <= clock
<1>q. QueueNow
  BY QueueFacts
<1> USE LoopAssumption DEF QueueNow
<1>1. /\ queue # <<>> /\ taken' = Head(queue) /\ queue' = Tail(queue)
      /\ ticks' = ticks + 1
      /\ UNCHANGED <<clock, full, lost>>
  BY DEF Take
<1>2. /\ taken' = Latest - Len(queue) + 1
      /\ queue' \in Seq(1..MaxBlocks)
      /\ Len(queue) >= 1
      /\ Len(queue') = Len(queue) - 1
      /\ \A i \in 1..Len(queue') : queue'[i] = queue[i + 1]
  BY <1>1, HeadOfQueue
<1>3. taken < taken' /\ taken' <= clock /\ taken' \in Nat
  BY <1>2, <1>q
<1>4. QueueTypes'
  <2>1. /\ clock' \in 0..MaxBlocks /\ Len(queue') <= QueueSize
        /\ taken' \in 0..clock' /\ ticks' \in 0..taken' /\ lost' \in 0..clock'
    BY <1>1, <1>2, <1>3, <1>q
  <2> QED
    BY <1>1, <1>2, <1>q, <2>1 DEF QueueTypes
<1>5. Latest' = Latest
  BY <1>1 DEF Latest
<1>6. QueueIsNewest'
  <2>1. DOMAIN queue' = 1..Len(queue')
    BY <1>2, LenProperties
  <2> SUFFICES ASSUME NEW i \in 1..Len(queue')
               PROVE  queue'[i] = Latest' - Len(queue') + i
    BY <2>1 DEF QueueIsNewest, Latest
  <2>2. i + 1 \in 1..Len(queue)
    BY <1>2, <1>q
  <2> QED
    BY <1>2, <1>5, <2>2, <1>q, SMTT(30)
<1>7. /\ taken' + Len(queue') <= Latest'
      /\ ticks' + Len(queue') + lost' = Latest'
  <2>1. /\ ticks' = ticks + 1 /\ lost' = lost
        /\ Len(queue') = Len(queue) - 1 /\ Latest' = Latest
        /\ taken' = Latest - Len(queue) + 1
    BY <1>1, <1>2, <1>5
  <2>2. /\ taken \in Nat /\ ticks \in Nat /\ lost \in Nat
        /\ Len(queue) \in Nat /\ Latest \in Int
        /\ ticks + Len(queue) + lost = Latest
    BY <1>q
  <2> QED
    BY <2>1, <2>2
<1>8. QueueInv'
  BY <1>6, <1>7 DEF QueueInv
<1> QED
  BY <1>1, <1>2, <1>3, <1>4, <1>8

LEMMA QueueSame ==
  ASSUME LInv, UNCHANGED <<clock, queueVars, taken, ticks>>
  PROVE  QueueTypes' /\ QueueInv'
<1>1. QueueTypes /\ QueueInv
  BY TypeParts DEF LInv
<1> QED
  BY <1>1 DEF QueueTypes, QueueInv, QueueIsNewest, Latest, queueVars

-----------------------------------------------------------------------------
(* The spectrum window.                                                    *)

WindowNow ==
  /\ window.started \in BOOLEAN /\ window.t0 \in Int
  /\ window.ticks \in Nat /\ window.ticks <= ticks
  /\ row.t0 \in Int /\ row.dur \in Int
  /\ wall \in Int /\ setBack \in Nat
  /\ WindowInv

LEMMA WindowFacts == LInv => WindowNow
<1>1. LInv => QueueNow
  BY QueueFacts
<1> QED
  BY <1>1 DEF LInv, TypeOK, QueueNow, WindowNow

LEMMA WindowSame ==
  ASSUME LInv, UNCHANGED <<taken, ticks, window, row, wall, setBack>>
  PROVE  WindowTypes' /\ WindowInv'
<1>1. WindowTypes /\ WindowInv
  BY TypeParts DEF LInv
<1> QED
  BY <1>1 DEF WindowTypes, WindowInv, WindowEnds

LEMMA WindowTaken ==
  ASSUME LInv, Take
  PROVE  WindowTypes' /\ WindowInv'
<1>q. QueueNow
  BY QueueFacts
<1>w. WindowNow
  BY WindowFacts
<1> USE LoopAssumption DEF QueueNow, WindowNow
<1> DEFINE t0 == Origin(window)
<1>1. /\ taken < taken' /\ taken' <= clock /\ ticks' = ticks + 1
      /\ taken' = Latest - Len(queue) + 1
      /\ taken' \in Nat /\ clock \in Nat /\ ticks \in Nat /\ taken \in Nat
      /\ Len(queue) <= QueueSize /\ Len(queue) \in Nat
      /\ Latest >= clock - 1 /\ Latest \in Int
      /\ UNCHANGED <<clock, wall, setBack>>
  BY QueueTaken, <1>q
  DEF Take, clockVars, QueueTypes, LInv, TypeOK, Latest
<1>2. taken' >= clock - QueueSize
  BY <1>1
<1>3. Now = clock + wall /\ Now \in Int
  BY <1>1, <1>w DEF Now
<1>4. t0 \in Int /\ t0 = IF window.started THEN window.t0 ELSE Now
  BY <1>3, <1>w DEF Origin
<1>5. CASE Closes(t0)
  <2>1. /\ row' = [t0 |-> t0, dur |-> Now - t0]
        /\ window' = [started |-> TRUE, t0 |-> Now, ticks |-> 0]
    BY <1>5 DEF Take
  <2>2. WindowTypes'
    BY <1>1, <1>3, <1>4, <2>1, <1>w DEF WindowTypes
  <2> QED
    <3>1. /\ row'.t0 = t0 /\ row'.dur = Now - t0
          /\ window'.started /\ window'.t0 = Now /\ window'.ticks = 0
      BY <2>1
    <3>2. 0 <= taken' + wall - Now + setBack + QueueSize + 1
      BY <1>1, <1>2, <1>3, <1>w
    <3>3. Now = t0 + (Now - t0) /\ 0 <= Interval + QueueSize + setBack
      BY <1>3, <1>4, <1>w
    <3> QED
      BY <1>1, <2>2, <3>1, <3>2, <3>3 DEF WindowInv, WindowEnds
<1>6. CASE ~Closes(t0)
  <2>1. /\ window' = [started |-> TRUE, t0 |-> t0, ticks |-> window.ticks + 1]
        /\ row' = row
    BY <1>6 DEF Take
  <2>2. WindowTypes'
    BY <1>1, <1>4, <2>1, <1>w, SMTT(30) DEF WindowTypes, LInv, TypeOK
  <2>3. row.dur > 0 => window.started
    BY <1>w DEF WindowInv
  <2>4. window.ticks + 1 <= taken' + wall - t0 + setBack + QueueSize + 1
    <3>1. CASE window.started
      <4>1. window.ticks <= taken + wall - t0 + setBack + QueueSize + 1
        BY <1>4, <3>1, <1>w DEF WindowInv
      <4>2. PICK n \in Int : taken' = n /\ taken + 1 <= n
        BY <1>1
      <4>3. /\ taken \in Int /\ wall \in Int /\ setBack \in Int
            /\ QueueSize \in Int /\ window.ticks \in Int /\ t0 \in Int
        BY <1>1, <1>4, <1>w
      <4> HIDE DEF t0
      <4> QED
        BY <4>1, <4>2, <4>3
    <3>2. CASE ~window.started
      <4>1. window.ticks = 0 /\ t0 = clock + wall
        BY <1>3, <1>4, <1>w, <3>2 DEF WindowInv
      <4> HIDE DEF t0
      <4>2. /\ taken' \in Int /\ clock \in Int /\ wall \in Int /\ setBack \in Int
            /\ QueueSize \in Int /\ setBack >= 0
            /\ taken' >= clock - QueueSize
            /\ window.ticks \in Int /\ t0 \in Int
        BY <1>1, <1>2, <1>4, <1>w
      <4>3. PICK n \in Int : taken' = n
        BY <4>2
      <4> QED
        BY <4>1, <4>2, <4>3
    <3> QED
      BY <3>1, <3>2
  <2>5. Now - t0 <= Interval - 1
    BY <1>3, <1>4, <1>6 DEF Closes
  <2>6. window.ticks + 1 <= Interval + QueueSize + setBack
    <3> HIDE DEF t0
    <3>1. clock + wall - t0 <= Interval - 1
      BY <1>1, <1>3, <1>4, <2>5, <1>w, SMTT(30)
    <3>2. /\ taken' \in Int /\ clock \in Int /\ wall \in Int /\ setBack \in Int
          /\ QueueSize \in Int /\ Interval \in Int /\ t0 \in Int
          /\ window.ticks \in Int /\ taken' <= clock
      BY <1>1, <1>4, <1>w
    <3> QED
      BY <2>4, <3>1, <3>2
  <2> QED
    BY <1>1, <1>4, <2>1, <2>2, <2>3, <2>4, <2>6, <1>w
    DEF WindowInv, WindowEnds
<1> QED
  BY <1>5, <1>6

(* A correction moves the origin and the clock apart by at most setBack. *)
LEMMA WindowClockSet ==
  ASSUME LInv, NEW j \in Jumps, SetClock(j)
  PROVE  WindowTypes' /\ WindowInv'
<1>q. QueueNow
  BY QueueFacts
<1>w. WindowNow
  BY WindowFacts
<1> USE LoopAssumption DEF QueueNow, WindowNow
<1>1. /\ j \in Int /\ wall' = wall + j
      /\ setBack' = IF j < 0 THEN setBack - j ELSE setBack
      /\ UNCHANGED <<window, row, ticks, taken>>
  BY DEF SetClock, windowVars
<1>2. wall' \in Int /\ setBack' \in Nat /\ setBack <= setBack'
      /\ wall + setBack <= wall' + setBack'
  BY <1>1, <1>w
<1>3. WindowTypes'
  BY <1>1, <1>2, TypeParts DEF WindowTypes, LInv
<1>4. taken + wall + setBack <= taken' + wall' + setBack'
  BY <1>1, <1>2, <1>q, <1>w
<1>5. window.started =>
        window.ticks <= taken' + wall' - window.t0 + setBack' + QueueSize + 1
  <2> SUFFICES ASSUME window.started
               PROVE  window.ticks <=
                        taken' + wall' - window.t0 + setBack' + QueueSize + 1
    OBVIOUS
  <2>1. window.ticks <= taken + wall - window.t0 + setBack + QueueSize + 1
    BY <1>w DEF WindowInv
  <2>2. /\ taken \in Int /\ wall \in Int /\ setBack \in Int /\ QueueSize \in Int
        /\ window.t0 \in Int /\ window.ticks \in Int
        /\ taken' \in Int /\ wall' \in Int /\ setBack' \in Int
    BY <1>1, <1>2, <1>q, <1>w
  <2>3. PICK n, w, b \in Int : taken' = n /\ wall' = w /\ setBack' = b
    BY <2>2
  <2> QED
    BY <1>4, <2>1, <2>2, <2>3
<1>6. window.ticks <= Interval + QueueSize + setBack'
  BY <1>1, <1>2, <1>w DEF WindowInv, WindowEnds
<1> QED
  BY <1>1, <1>3, <1>5, <1>6, <1>w DEF WindowInv, WindowEnds

-----------------------------------------------------------------------------
(* The step of the engine and the wait for the lock, action by action.     *)

(* Every conjunct but those of QueueTypes, QueueInv, WindowTypes and       *)
(* WindowInv.                                                              *)
StepInv == StepTypes /\ TickInv /\ WaitInv

StepNow ==
  /\ waiting \in BOOLEAN /\ busy \in BOOLEAN /\ pc \in Places
  /\ since \in Nat /\ since <= clock
  /\ events \in Nat /\ events <= ticks /\ spectra \in Nat /\ spectra <= ticks
  /\ lastFlush \in Nat /\ lastFlush <= clock /\ lastRetention \in Int /\ now_wall \in Int
  /\ jumps \in Nat /\ jumps <= MaxJumps
  /\ starved \in Nat /\ starved <= MaxStarved /\ waits \in Nat
  /\ StepInv

LEMMA StepFacts == LInv => StepNow
<1>1. LInv => QueueNow
  BY QueueFacts
<1> QED
  BY <1>1, LoopAssumption, TypeParts
  DEF LInv, TypeOK, QueueNow, StepNow, StepInv

LEMMA BlockStep ==
  ASSUME LInv, CallbackPuts \/ CallbackFull
  PROVE  StepInv'
<1>q. QueueNow /\ StepNow
  BY QueueFacts, StepFacts
<1> USE LoopAssumption DEF QueueNow, StepNow
<1>1. /\ BlockComes /\ clock' = clock + 1
      /\ CallbackPuts => Len(queue') = Len(queue) + 1 /\ full' = full
      /\ CallbackFull => ~(Len(queue) < QueueSize)
  <2>1. BlockComes /\ clock' = clock + 1
    BY DEF CallbackPuts, CallbackFull, BlockComes
  <2>2. clock + 1 \in Nat
    BY <1>q
  <2>3. CallbackPuts => Len(queue') = Len(queue) + 1 /\ full' = full
    BY <1>q, <2>1, <2>2, AppendProperties DEF CallbackPuts, Put
  <2> QED
    BY <2>1, <2>3 DEF CallbackFull, HasRoom
<1>2. UNCHANGED <<pc, waiting, since, busy, ticks, events, spectra, lastFlush,
                  lastRetention, now_wall, jumps, waits>>
  BY <1>1 DEF BlockComes, windowVars, storeVars, clockVars
<1>3. starved' \in 0..MaxStarved /\ starved <= starved'
  BY <1>1, <1>q DEF BlockComes
<1>4. StepTypes'
  <2>1. waiting => clock - since < LockTimeout
    <3>1. pc = "get" => ~waiting
      BY <1>q DEF StepInv, StepTypes, FlushSites
    <3> QED
      BY <1>1, <3>1 DEF BlockComes, Blocked, MayWait
  <2>2. since \in 0..(clock + 1) /\ lastFlush \in 0..(clock + 1)
    BY <1>q
  <2>3. waiting => clock + 1 - since <= LockTimeout
    BY <1>q, <2>1
  <2> QED
    BY <1>1, <1>2, <1>3, <1>q, <2>2, <2>3 DEF StepTypes, StepInv
<1>5. TickInv'
  BY <1>2, <1>q DEF TickInv, StepInv
<1>6. WaitInv'
  <2> SUFFICES ASSUME starved' = 0, waits' < 2
               PROVE  /\ ~full'
                      /\ waits' = 0 =>
                           /\ ~waiting'
                           /\ Len(queue') <= IF pc' = "get" THEN 1 ELSE 0
                      /\ waits' = 1 =>
                           Len(queue') <= IF waiting' THEN clock' - since'
                                          ELSE LockTimeout
    BY DEF WaitInv
  <2>1. starved = 0 /\ waits < 2
    BY <1>2, <1>3, <1>q
  <2>2. Blocked
    BY <1>1, <1>3, <1>q, <2>1 DEF BlockComes
  <2>3. /\ ~full
        /\ waits = 0 => /\ ~waiting
                        /\ Len(queue) <= IF pc = "get" THEN 1 ELSE 0
        /\ waits = 1 => Len(queue) <= IF waiting THEN clock - since
                                      ELSE LockTimeout
    BY <1>q, <2>1 DEF StepInv, WaitInv
  <2>4. \/ pc = "get" /\ ~waiting /\ Len(queue) = 0
        \/ waiting /\ clock - since < LockTimeout /\ waits = 1
    <3>1. pc = "get" => ~waiting
      BY <1>q DEF StepInv, StepTypes, FlushSites
    <3>2. waits = 0 \/ waits = 1
      BY <1>q, <2>1
    <3> QED
      BY <2>2, <2>3, <3>1, <3>2, EmptySeq DEF Blocked, MayWait
  <2>5. Len(queue) < QueueSize
    BY <1>q, <2>3, <2>4
  <2>6. ~CallbackFull
    BY <1>1, <2>5
  <2>7. Len(queue') = Len(queue) + 1 /\ ~full'
    BY <1>1, <2>3, <2>6
  <2>8. CASE pc = "get" /\ ~waiting /\ Len(queue) = 0
    BY <1>2, <2>7, <2>8
  <2>9. CASE waiting /\ clock - since < LockTimeout /\ waits = 1
    <3>1. Len(queue) + 1 <= clock + 1 - since
      BY <1>q, <2>3, <2>9
    <3>2. Len(queue') <= clock' - since'
      <4>1. clock' = clock + 1 /\ since' = since /\ Len(queue') = Len(queue) + 1
        BY <1>1, <1>2, <2>7
      <4>2. PICK c \in Int, n \in Int : clock' = c /\ Len(queue') = n
        BY <1>q, <4>1
      <4> QED
        BY <1>q, <3>1, <4>1, <4>2
    <3>3. waiting' /\ waits' = 1
      BY <1>2, <2>9
    <3> QED
      BY <2>7, <3>2, <3>3
  <2> QED
    BY <2>4, <2>8, <2>9
<1> QED
  BY <1>4, <1>5, <1>6 DEF StepInv

LEMMA TakeStep ==
  ASSUME LInv, Take
  PROVE  StepInv'
<1>q. QueueNow /\ StepNow
  BY QueueFacts, StepFacts
<1> USE LoopAssumption DEF QueueNow, StepNow
<1>1. /\ pc = "get" /\ queue # <<>>
      /\ waits' = IF queue' = <<>> /\ ~full THEN 0 ELSE waits
      /\ ticks' = ticks + 1
      /\ pc' = "add_spectrum" \/ pc' = "detect"
      /\ spectra' = spectra + 1 \/ spectra' = spectra
      /\ UNCHANGED <<clock, full, waiting, since, busy, events, lastFlush,
                     lastRetention, now_wall, jumps, starved>>
  BY DEF Take, clockVars
<1>2. ~waiting
  BY <1>1, <1>q DEF StepInv, StepTypes, FlushSites
<1>3. Len(queue') = Len(queue) - 1 /\ Len(queue') \in Nat
      /\ (queue' = <<>> <=> Len(queue') = 0)
  <2>1. Len(queue') = Len(queue) - 1 /\ queue' \in Seq(1..MaxBlocks)
    BY QueueTaken DEF QueueTypes
  <2> QED
    BY <2>1, EmptySeq, LenProperties
<1>4. waits' \in Nat /\ events \in 0..(ticks + 1) /\ events < ticks + 1
      /\ spectra' \in 0..(ticks + 1)
  BY <1>1, <1>q
<1>5. StepTypes'
  BY <1>1, <1>2, <1>4, <1>q DEF StepTypes, StepInv, Places, FlushSites
<1>6. TickInv'
  BY <1>1, <1>4 DEF TickInv
<1>7. WaitInv'
  BY <1>1, <1>2, <1>3, <1>q DEF WaitInv, StepInv
<1> QED
  BY <1>5, <1>6, <1>7 DEF StepInv

(* Every other step leaves the queue alone, or lets the callback end. *)
LEMMA RoomStep ==
  ASSUME LInv, CallbackMakesRoom
  PROVE  StepInv'
<1>q. QueueNow /\ StepNow
  BY QueueFacts, StepFacts
<1>1. /\ full
      /\ UNCHANGED <<clock, pc, waiting, since, busy, ticks, events, spectra,
                     lastFlush, lastRetention, now_wall, jumps, starved, waits>>
  BY DEF CallbackMakesRoom, windowVars, storeVars, clockVars
<1>2. StepTypes' /\ TickInv'
  BY <1>1, <1>q DEF StepNow, StepInv, StepTypes, TickInv
<1>3. ~(starved = 0 /\ waits < 2)
  BY <1>1, <1>q DEF StepNow, StepInv, WaitInv
<1> QED
  BY <1>1, <1>2, <1>3 DEF StepInv, WaitInv

LEMMA DetectStep ==
  ASSUME LInv, Detect
  PROVE  StepInv'
<1>q. QueueNow /\ StepNow
  BY QueueFacts, StepFacts
<1> USE LoopAssumption DEF QueueNow, StepNow
<1>1. /\ pc = "detect" /\ ~waiting
      /\ pc' = "add_event" \/ pc' = "retain"
      /\ events' = events + 1 \/ events' = events
      /\ UNCHANGED <<clock, queue, full, waiting, since, busy, ticks, spectra,
                     lastFlush, lastRetention, now_wall, jumps, starved, waits>>
  BY <1>q
  DEF Detect, queueVars, windowVars, clockVars, StepInv, StepTypes, FlushSites
<1>2. events < ticks
  BY <1>1, <1>q DEF StepInv, TickInv
<1>3. events' \in 0..ticks
  BY <1>1, <1>2, <1>q
<1>4. StepTypes'
  BY <1>1, <1>3, <1>q DEF StepTypes, StepInv, Places, FlushSites
<1>5. TickInv'
  BY <1>1 DEF TickInv
<1>6. WaitInv'
  BY <1>1, <1>q DEF WaitInv, StepInv
<1> QED
  BY <1>4, <1>5, <1>6 DEF StepInv

LEMMA Afterwards ==
  ASSUME pc \in FlushSites \cup {"retain"}
  PROVE  /\ After(pc) \in Places
         /\ After(pc) # "add_spectrum"
         /\ After(pc) = "detect" => pc = "add_spectrum"
         /\ pc # "get" /\ pc # "detect"
  BY DEF After, FlushSites, Places

LEMMA PassByStep ==
  ASSUME LInv, PassBy
  PROVE  StepInv'
<1>q. QueueNow /\ StepNow
  BY QueueFacts, StepFacts
<1> USE LoopAssumption DEF QueueNow, StepNow
<1>1. /\ pc \in FlushSites \cup {"retain"} /\ ~waiting
      /\ pc' = After(pc)
      /\ UNCHANGED <<clock, queue, full, waiting, since, busy, ticks, events,
                     spectra, lastFlush, lastRetention, now_wall, jumps, starved, waits>>
  BY DEF PassBy, queueVars, windowVars, storeVars, clockVars
<1>2. StepTypes'
  BY <1>1, <1>q, Afterwards DEF StepTypes, StepInv
<1>3. TickInv'
  BY <1>1, <1>q, Afterwards DEF TickInv, StepInv
<1>4. WaitInv'
  BY <1>1, <1>q, Afterwards DEF WaitInv, StepInv
<1> QED
  BY <1>2, <1>3, <1>4 DEF StepInv

(* The second wait ends what WaitInv promises. *)
LEMMA WaitStep ==
  ASSUME LInv, WaitForLock
  PROVE  StepInv'
<1>q. QueueNow /\ StepNow
  BY QueueFacts, StepFacts
<1> USE LoopAssumption DEF QueueNow, StepNow
<1>1. /\ pc \in FlushSites \cup {"retain"} /\ ~waiting
      /\ waiting' = TRUE /\ since' = clock /\ waits' = waits + 1
      /\ UNCHANGED <<clock, queue, full, pc, busy, ticks, events,
                     spectra, lastFlush, lastRetention, jumps, starved>>
  BY DEF WaitForLock, queueVars, windowVars, clockVars
<1>n. now_wall' \in Int
  <2>1. wall \in Int
    BY DEF LInv, TypeOK
  <2> QED
    BY <1>q, <2>1 DEF WaitForLock, Now
<1>2. StepTypes'
  BY <1>1, <1>n, <1>q DEF StepTypes, StepInv
<1>3. TickInv'
  BY <1>1, <1>q DEF TickInv, StepInv
<1>4. WaitInv'
  <2> SUFFICES ASSUME starved = 0, waits = 0
               PROVE  ~full /\ Len(queue) <= clock - clock
    BY <1>1, <1>q DEF WaitInv
  <2>1. ~full /\ Len(queue) = 0
    BY <1>1, <1>q, Afterwards DEF StepInv, WaitInv
  <2> QED
    BY <1>q, <2>1
<1> QED
  BY <1>2, <1>3, <1>4 DEF StepInv

(* The wait for the lock ends, with or without it. *)
LEMMA WaitEnds ==
  ASSUME LInv, Write \/ TimeOut
  PROVE  StepInv'
<1>q. QueueNow /\ StepNow
  BY QueueFacts, StepFacts
<1> USE LoopAssumption DEF QueueNow, StepNow
<1>1. /\ pc \in FlushSites \cup {"retain"}
      /\ waiting' = FALSE
      /\ pc' = After(pc) \/ pc' = "exited"
      /\ UNCHANGED <<clock, queue, full, since, busy, ticks, jumps, starved,
                     waits>>
  BY <1>q
  DEF Write, TimeOut, queueVars, windowVars, clockVars, StepInv, StepTypes
<1>2. /\ events' = events \/ events' = 0
      /\ spectra' = spectra \/ spectra' = 0
      /\ lastFlush' = lastFlush \/ lastFlush' = clock
      /\ lastRetention' \in {lastRetention, now_wall, clock + wall}
      /\ now_wall' = now_wall \/ now_wall' = 0
  BY DEF Write, TimeOut, storeVars, Now
<1>3. /\ events' \in 0..ticks /\ events' <= events /\ spectra' \in 0..ticks
      /\ lastFlush' \in 0..clock /\ lastRetention' \in Int /\ now_wall' \in Int
  <2>1. wall \in Int
    BY DEF LInv, TypeOK
  <2> QED
    BY <1>2, <1>q, <2>1
<1>4. pc' \in Places
  BY <1>1, Afterwards DEF Places
<1>5. StepTypes'
  BY <1>1, <1>3, <1>4, <1>q DEF StepTypes, StepInv
<1>6. TickInv'
  <2> SUFFICES ASSUME pc' \in {"add_spectrum", "detect"} PROVE events' < ticks
    BY <1>1 DEF TickInv
  <2>1. pc = "add_spectrum"
    BY <1>1, Afterwards
  <2>2. events < ticks
    BY <1>q, <2>1 DEF StepInv, TickInv
  <2> QED
    BY <1>3, <1>q, <2>2
<1>7. WaitInv'
  <2> SUFFICES ASSUME starved = 0, waits < 2
               PROVE  /\ ~full
                      /\ waits = 0 => Len(queue) = 0
                      /\ waits = 1 => Len(queue) <= LockTimeout
    BY <1>1, <1>q DEF WaitInv
  <2>1. /\ ~full
        /\ waits = 0 => Len(queue) = 0
        /\ waits = 1 => Len(queue) <= IF waiting THEN clock - since
                                      ELSE LockTimeout
    BY <1>1, <1>q, Afterwards DEF StepInv, WaitInv
  <2>2. waiting => clock - since <= LockTimeout
    BY <1>q DEF StepInv, StepTypes
  <2> QED
    BY <1>q, <2>1, <2>2
<1> QED
  BY <1>5, <1>6, <1>7 DEF StepInv

(* The lock of the other process and the wall clock. *)
LEMMA OutsideStep ==
  ASSUME LInv, OtherProcess \/ (\E j \in Jumps : SetClock(j)) \/ UNCHANGED vars
  PROVE  StepInv'
<1>q. QueueNow /\ StepNow
  BY QueueFacts, StepFacts
<1> USE LoopAssumption DEF QueueNow, StepNow
<1>1. UNCHANGED <<clock, queue, full, pc, waiting, since, ticks, events, spectra,
                  lastFlush, lastRetention, now_wall, starved, waits>>
  BY DEF OtherProcess, SetClock, vars, queueVars, windowVars, storeVars, clockVars
<1>2. busy' \in BOOLEAN
  BY <1>q DEF OtherProcess, SetClock, vars, StepNow
<1>3. jumps' \in 0..MaxJumps
  BY <1>q DEF OtherProcess, SetClock, vars, clockVars
<1>4. StepTypes'
  BY <1>1, <1>2, <1>3, <1>q DEF StepTypes, StepInv
<1>5. TickInv' /\ WaitInv'
  BY <1>1, <1>q DEF TickInv, WaitInv, StepInv
<1> QED
  BY <1>4, <1>5 DEF StepInv

-----------------------------------------------------------------------------
LEMMA NextLInv == LInv /\ [Next]_vars => LInv'
<1> SUFFICES ASSUME LInv, [Next]_vars
             PROVE  /\ QueueTypes' /\ QueueInv'
                    /\ WindowTypes' /\ WindowInv'
                    /\ StepInv'
  BY TypeParts, PTL DEF LInv, StepInv
<1>1. CASE CallbackPuts \/ CallbackFull
  <2>1. UNCHANGED <<taken, ticks, window, row, wall, setBack>>
    BY <1>1 DEF CallbackPuts, CallbackFull, BlockComes, windowVars, clockVars
  <2> QED
    BY <1>1, <2>1, QueuePuts, QueueIsFull, WindowSame, BlockStep
<1>2. CASE CallbackMakesRoom
  <2>1. UNCHANGED <<taken, ticks, window, row, wall, setBack>>
    BY <1>2 DEF CallbackMakesRoom, windowVars, clockVars
  <2> QED
    BY <1>2, <2>1, QueueMakesRoom, WindowSame, RoomStep
<1>3. CASE Take
  BY <1>3, QueueTaken, WindowTaken, TakeStep
<1>4. CASE Detect \/ PassBy \/ WaitForLock \/ Write \/ TimeOut \/ OtherProcess
           \/ UNCHANGED vars
  <2>1. /\ UNCHANGED <<clock, queueVars, taken, ticks>>
        /\ UNCHANGED <<taken, ticks, window, row, wall, setBack>>
    BY <1>4 DEF Detect, PassBy, WaitForLock, Write, TimeOut, OtherProcess,
                vars, windowVars, clockVars
  <2> QED
    BY <1>4, <2>1, QueueSame, WindowSame, DetectStep, PassByStep, WaitStep,
       WaitEnds, OutsideStep
<1>5. ASSUME NEW j \in Jumps, SetClock(j)
      PROVE  /\ QueueTypes' /\ QueueInv'
             /\ WindowTypes' /\ WindowInv'
             /\ StepInv'
  <2>1. UNCHANGED <<clock, queueVars, taken, ticks>>
    BY <1>5 DEF SetClock, windowVars
  <2> QED
    BY <1>5, <2>1, QueueSame, WindowClockSet, OutsideStep
<1> QED
  BY <1>1, <1>2, <1>3, <1>4, <1>5 DEF Next

-----------------------------------------------------------------------------
(* The invariant holds for every size of the queue, every wait that is not *)
(* longer than it, every interval, batch and correction of the clock, and  *)
(* every bound (capture.py:112-145, pipeline.py:222-330).                  *)
THEOREM LoopInvariant == Spec => []LInv
<1>1. LInv /\ [Next]_vars => LInv'
  BY NextLInv
<1> QED
  BY <1>1, InitLInv, PTL DEF Spec

(* The variables keep their types; in particular a wait for the lock ends  *)
(* at its timeout (database.timeout_s, capture.py:112-145).                *)
THEOREM LoopTypes == Spec => []TypeOK
<1>1. LInv => TypeOK
  BY DEF LInv
<1> QED
  BY <1>1, LoopInvariant, PTL

(* The queue has no holes and ends with the latest block, whatever the     *)
(* callback and get_block do in between (capture.py, _audio_callback).     *)
THEOREM QueueHasNoHoles == Spec => []QueueIsNewest
<1>1. LInv => QueueIsNewest
  BY DEF LInv, QueueInv
<1> QED
  BY <1>1, LoopInvariant, PTL

(* Every block recorded was taken, waits in the queue, or was lost: none   *)
(* is counted twice (capture.py, _audio_callback and get_block).           *)
THEOREM BlocksAreAccountedFor ==
  Spec => [](ticks + Len(queue) + lost = IF full THEN clock - 1 ELSE clock)
<1>1. LInv => ticks + Len(queue) + lost = IF full THEN clock - 1 ELSE clock
  BY DEF LInv, QueueInv, Latest
<1> QED
  BY <1>1, LoopInvariant, PTL

(* As long as a wait for the database is not longer than the queue, one    *)
(* wait costs no sound (database timeout_s and the size of the queue).     *)
THEOREM OneWaitCostsNothing == Spec => LossTakesTwoWaits
<1>1. LInv /\ [Next]_vars => [lost' > lost => waits >= 2 \/ starved > 0]_vars
  <2> SUFFICES ASSUME LInv, Next, lost' > lost
               PROVE  waits >= 2 \/ starved > 0
    OBVIOUS
  <2>1. lost \in Nat /\ starved \in Nat /\ waits \in Nat
    BY QueueFacts, StepFacts DEF QueueNow, StepNow
  <2>2. lost' # lost
    <3>1. ~(lost > lost)
      BY <2>1
    <3> QED
      BY <3>1
  <2>3. full
    BY <2>2
    DEF Next, CallbackPuts, CallbackFull, CallbackMakesRoom, Take, Detect,
        PassBy, WaitForLock, Write, TimeOut, OtherProcess, SetClock, queueVars
  <2>4. ~(starved = 0 /\ waits < 2)
    BY <2>3 DEF LInv, WaitInv
  <2> QED
    BY <2>1, <2>4
<1> QED
  BY <1>1, LoopInvariant, PTL DEF Spec, LossTakesTwoWaits

(* The rows of the spectrum follow each other without overlap, however the *)
(* wall clock is corrected (dsp.py, SpectrumAggregator.update).            *)
THEOREM SpectrumRowsFollow == Spec => RowsFollow
<1>1. LInv /\ [Next]_vars =>
        [row' # row => /\ row'.dur >= Interval
                       /\ row.dur > 0 => row'.t0 >= row.t0 + row.dur]_row
  <2> SUFFICES ASSUME LInv, Next, row' # row
               PROVE  /\ row'.dur >= Interval
                      /\ row.dur > 0 => row'.t0 >= row.t0 + row.dur
    BY DEF vars, windowVars
  <2> DEFINE t0 == Origin(window)
  <2>1. Take
    BY DEF Next, CallbackPuts, CallbackFull, CallbackMakesRoom, BlockComes, Detect,
           PassBy, WaitForLock, Write, TimeOut, OtherProcess, SetClock, windowVars
  <2>2. /\ Closes(t0)
        /\ row' = [t0 |-> t0, dur |-> Now - t0]
    BY <2>1 DEF Take
  <2>3. row'.t0 = t0 /\ row'.dur = Now - t0
    BY <2>2
  <2>4. row.dur > 0 => t0 = row.t0 + row.dur
    BY WindowFacts DEF WindowNow, WindowInv, Origin
  <2>5. row.dur > 0 => row.t0 + row.dur >= row.t0 + row.dur
    BY WindowFacts DEF WindowNow
  <2> QED
    BY <2>2, <2>3, <2>4, <2>5 DEF Closes
<1> QED
  BY <1>1, LoopInvariant, PTL DEF Spec, RowsFollow

(* A window of the spectrum holds the ticks of its interval, a backlog and *)
(* what the clock was set back (dsp.py, SpectrumAggregator.update).        *)
THEOREM SpectrumWindowEnds == Spec => []WindowEnds
<1>1. LInv => WindowEnds
  BY DEF LInv, WindowInv
<1> QED
  BY <1>1, LoopInvariant, PTL

(* The queue and the loop implement the channel: what the engine takes was *)
(* recorded, in order and once (capture.py, get_block).                    *)
THEOREM LoopImplementsChannel == Spec => ChannelSpec
<1>1. Init => Channel!ChannelInit
  BY DEF Init, Channel!ChannelInit
<1>2. LInv /\ [Next]_vars =>
        [Channel!Record \/ Channel!TakeLater]_(Channel!channelVars)
  <2> SUFFICES ASSUME LInv, [Next]_vars
               PROVE  \/ Channel!Record \/ Channel!TakeLater
                      \/ UNCHANGED Channel!channelVars
    OBVIOUS
  <2>1. CASE CallbackPuts \/ CallbackFull
    BY <2>1
    DEF CallbackPuts, CallbackFull, BlockComes, Channel!Record
  <2>2. CASE Take
    <3>1. taken < taken' /\ taken' <= clock /\ taken' \in Nat /\ clock' = clock
      BY <2>2, QueueTaken DEF Take, QueueTypes
    <3>2. taken \in Nat /\ clock \in Nat
      BY QueueFacts DEF QueueNow
    <3> QED
      BY <3>1, <3>2 DEF Channel!TakeLater
  <2>3. CASE UNCHANGED <<clock, taken>>
    BY <2>3 DEF Channel!channelVars
  <2>4. CallbackPuts \/ CallbackFull \/ Take \/ UNCHANGED <<clock, taken>>
    BY DEF Next, CallbackMakesRoom, Detect, PassBy, WaitForLock, Write, TimeOut,
           OtherProcess, SetClock, vars
  <2> QED
    BY <2>1, <2>2, <2>3, <2>4
<1> QED
  BY <1>1, <1>2, LoopInvariant, PTL DEF Spec, ChannelSpec, Channel!ChannelSpec
=============================================================================
