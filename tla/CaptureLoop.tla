----------------------------- MODULE CaptureLoop -----------------------------
(***************************************************************************)
(* The live loop of the capture process: the PortAudio callback fills a    *)
(* bounded queue, Engine.start takes a block and Engine.step runs it       *)
(* through the spectrum window, the detector and the store, whose flushes  *)
(* and daily retention may wait for the write lock of another process.     *)
(*                                                                         *)
(* The unit of time is one block (100 ms): clock counts the blocks of the  *)
(* sound card. A step takes no time unless it waits for the database; a    *)
(* starved processor is at most MaxStarved blocks that arrive in between.  *)
(* What the detector and the store do with rows is in EventDetector and    *)
(* EventStore: here an event may or may not be emitted, rows are counted.  *)
(***************************************************************************)
EXTENDS Integers, Sequences

CONSTANTS
  QueueSize,     (* maxsize of the queue, in blocks                       *)
  LockTimeout,   (* timeout_s of a connection to the database, in blocks  *)
  Interval,      (* spectrum.interval_s, in blocks                        *)
  BatchSize, BatchTimeout,   (* of the event store                        *)
  RetentionEvery,  (* _retention_interval_s, in blocks                    *)
  Warmup,        (* detector.warmup_ticks                                 *)
  Jumps,         (* corrections that NTP may make to the wall clock       *)
  MaxBlocks, MaxJumps, MaxStarved  (* bounds of the blocks recorded, of   *)
                 (* the corrections and of the blocks of a starved CPU    *)

(* Both are ten seconds in the code: 100 blocks, timeout_s = 10.0. *)
ASSUME LoopAssumption ==
  /\ QueueSize \in Nat \ {0}
  /\ LockTimeout \in 1..QueueSize
  /\ Interval \in Nat \ {0}
  /\ BatchSize \in Nat \ {0}
  /\ BatchTimeout \in Nat
  /\ RetentionEvery \in Nat \ {0}
  /\ Warmup \in Nat
  /\ Jumps \subseteq Int
  /\ MaxBlocks \in Nat /\ MaxJumps \in Nat /\ MaxStarved \in Nat

VARIABLES
  clock,      \* blocks recorded by the sound card: the monotonic clock
  queue,      \* AudioCapture._queue
  full,       \* the callback has met queue.Full and not yet made room
  pc,         \* where Engine.step is
  waiting,    \* it waits for the write lock
  since,      \* the clock when that wait began
  busy,       \* another process holds the write lock
  taken,      \* the latest block taken by get_block
  ticks,      \* FloorTracker.tick_count
  window,     \* SpectrumAggregator: _started, _win_t0, ticks accumulated
  row,        \* history: the latest row of the spectrum, [t0, dur]
  events, spectra,  \* lengths of the two buffers of the store
  lastFlush, lastRetention,
  now_wall,   \* the local variable of step, while a retention waits
  wall,       \* time.time() minus the monotonic clock
  jumps, starved,   \* counters of the bounds
  lost,       \* history: blocks that left the queue unheard, or never got in
  waits,      \* history: waits for the lock since the engine last caught up
  setBack     \* history: sum of the corrections that set the clock back

queueVars  == <<queue, full, lost>>
storeVars  == <<events, spectra, lastFlush, lastRetention, now_wall>>
windowVars == <<ticks, window, row>>
clockVars  == <<wall, jumps, setBack>>
vars == <<clock, queueVars, pc, waiting, since, busy, taken, windowVars,
          storeVars, clockVars, starved, waits>>

(* "get": in get_block; the places where the step may need the write lock; *)
(* "exited": the exception of a retention that did not get it has ended    *)
(* Engine.start.                                                           *)
FlushSites == {"add_spectrum", "add_event", "maybe_flush"}
Places == {"get", "detect", "retain", "exited"} \cup FlushSites

TypeOK ==
  /\ clock \in 0..MaxBlocks
  /\ queue \in Seq(1..MaxBlocks) /\ Len(queue) <= QueueSize
  /\ full \in BOOLEAN /\ waiting \in BOOLEAN /\ busy \in BOOLEAN
  /\ pc \in Places
  /\ waiting => pc \in FlushSites \cup {"retain"} /\ clock - since <= LockTimeout
  /\ since \in 0..clock
  /\ taken \in 0..clock
  /\ ticks \in 0..taken
  /\ window \in [started : BOOLEAN, t0 : Int, ticks : 0..ticks]
  /\ row \in [t0 : Int, dur : Int]
  /\ events \in 0..ticks /\ spectra \in 0..ticks
  /\ lastFlush \in 0..clock /\ lastRetention \in Int
  /\ now_wall \in Int /\ wall \in Int
  /\ jumps \in 0..MaxJumps /\ starved \in 0..MaxStarved
  /\ lost \in 0..clock /\ waits \in Nat /\ setBack \in Nat

Now == clock + wall   \* time.time()

Init ==
  /\ clock = 0 /\ queue = <<>> /\ full = FALSE
  /\ pc = "get" /\ waiting = FALSE /\ since = 0 /\ busy = FALSE
  /\ taken = 0 /\ ticks = 0
  /\ window = [started |-> FALSE, t0 |-> 0, ticks |-> 0]
  /\ row = [t0 |-> 0, dur |-> 0]
  /\ events = 0 /\ spectra = 0 /\ lastFlush = 0 /\ lastRetention = 0 /\ now_wall = 0
  /\ wall = 0 /\ jumps = 0 /\ starved = 0
  /\ lost = 0 /\ waits = 0 /\ setBack = 0

-----------------------------------------------------------------------------
(* The PortAudio thread.                                                   *)

(* Mutant: a wait for the lock that is longer than the queue. *)
MayWaitLong == clock - since <= LockTimeout + 1

(* sqlite3.connect(timeout = 10.0) *)
MayWait == clock - since < LockTimeout

(* The main thread is in a blocking call that its deadline has not ended.  *)
Blocked ==
  \/ pc = "get" /\ queue = <<>>
  \/ waiting /\ busy /\ MayWait

(* A block is recorded while the main thread is blocked, or starved. *)
BlockComes ==
  /\ pc # "exited" /\ ~full
  /\ clock < MaxBlocks
  /\ clock' = clock + 1
  /\ \/ Blocked /\ UNCHANGED starved
     \/ /\ ~Blocked /\ starved < MaxStarved
        /\ waiting => MayWait
        /\ starved' = starved + 1
  /\ UNCHANGED <<pc, waiting, since, busy, taken, windowVars, storeVars,
                 clockVars, waits>>

(* Mutant: a stack for a queue. *)
PutFirst(q, b) == <<b>> \o q

(* queue.Queue(maxsize) *)
HasRoom(q) == Len(q) < QueueSize
Put(q, b) == Append(q, b)

(* _audio_callback: put_nowait *)
CallbackPuts ==
  /\ BlockComes
  /\ HasRoom(queue)
  /\ queue' = Put(queue, clock')
  /\ UNCHANGED <<full, lost>>

(* put_nowait raises queue.Full *)
CallbackFull ==
  /\ BlockComes
  /\ ~HasRoom(queue)
  /\ full' = TRUE
  /\ UNCHANGED <<queue, lost>>

(* Mutant: the newest block makes room instead of the oldest one. *)
RoomAtTheEnd(q) == SubSeq(q, 1, Len(q) - 1)

(* get_nowait *)
RoomMade(q) == Tail(q)

(* The except branch: the oldest block makes room. The main thread may     *)
(* have taken blocks since; if it has taken them all, queue.Empty skips    *)
(* the put and the new block is the one that is lost.                      *)
CallbackMakesRoom ==
  /\ full
  /\ full' = FALSE
  /\ lost' = lost + 1
  /\ queue' = IF queue = <<>> THEN <<>> ELSE Put(RoomMade(queue), clock)
  /\ UNCHANGED <<clock, pc, waiting, since, busy, taken, windowVars, storeVars,
                 clockVars, starved, waits>>

-----------------------------------------------------------------------------
(* The main thread.                                                        *)

(* Mutant: a clock that was set back opens a new window at once. *)
WindowOrigin(w) ==
  IF w.started /\ w.t0 <= Now THEN w.t0 ELSE Now

(* _win_t0 when a tick is added *)
Origin(w) == IF w.started THEN w.t0 ELSE Now

(* Mutant: strictly longer windows only. *)
ClosesLate(t0) == Now - t0 > Interval + 1

(* The window is complete: the tick that shows it is its last one. *)
Closes(t0) == Now - t0 >= Interval

(* get_block, then the first half of step: the tick enters the floor       *)
(* history and the spectrum window, and a complete window is a row.        *)
Take ==
  LET t0 == Origin(window) IN
  /\ pc = "get" /\ queue # <<>>
  /\ taken' = Head(queue)
  /\ queue' = Tail(queue)
  /\ waits' = IF queue' = <<>> /\ ~full THEN 0 ELSE waits
  /\ ticks' = ticks + 1
  /\ IF Closes(t0)
     THEN /\ row' = [t0 |-> t0, dur |-> Now - t0]
          /\ window' = [started |-> TRUE, t0 |-> Now, ticks |-> 0]
          /\ spectra' = spectra + 1
          /\ pc' = "add_spectrum"
     ELSE /\ window' = [started |-> TRUE, t0 |-> t0, ticks |-> window.ticks + 1]
          /\ pc' = "detect"
          /\ UNCHANGED <<row, spectra>>
  /\ UNCHANGED <<clock, full, lost, waiting, since, busy, events, lastFlush,
                 lastRetention, now_wall, clockVars, starved>>

(* The detector emits an event, or not; it is not asked before the warm-up. *)
Detect ==
  /\ pc = "detect"
  /\ \/ /\ ticks >= Warmup
        /\ events' = events + 1
        /\ pc' = "add_event"
     \/ pc' = "retain" /\ UNCHANGED events
  /\ UNCHANGED <<clock, queueVars, waiting, since, busy, taken, windowVars,
                 spectra, lastFlush, lastRetention, now_wall, clockVars, starved,
                 waits>>

(* The condition of _maybe_do_flush, of the retention, of maybe_flush. *)
Needed(place) ==
  CASE place \in {"add_spectrum", "add_event"} ->
         events >= BatchSize \/ spectra >= BatchSize
    [] place = "retain" -> Now - lastRetention >= RetentionEvery
    [] place = "maybe_flush" ->
         events + spectra > 0 /\ clock - lastFlush >= BatchTimeout

After(place) ==
  CASE place = "add_spectrum" -> "detect"
    [] place = "add_event" -> "retain"
    [] place = "retain" -> "maybe_flush"
    [] place = "maybe_flush" -> "get"

(* Nothing to write in this place. *)
PassBy ==
  /\ pc \in FlushSites \cup {"retain"} /\ ~waiting /\ ~Needed(pc)
  /\ pc' = After(pc)
  /\ UNCHANGED <<clock, queueVars, waiting, since, busy, taken, windowVars,
                 storeVars, clockVars, starved, waits>>

(* The first statement that writes finds the lock taken. The retention     *)
(* keeps the time that was read before.                                    *)
WaitForLock ==
  /\ pc \in FlushSites \cup {"retain"} /\ ~waiting /\ Needed(pc) /\ busy
  /\ waiting' = TRUE
  /\ since' = clock
  /\ waits' = waits + 1
  /\ now_wall' = IF pc = "retain" THEN Now ELSE now_wall
  /\ UNCHANGED <<clock, queueVars, pc, busy, taken, windowVars, events,
                 spectra, lastFlush, lastRetention, clockVars, starved>>

(* The lock is free: the rows are committed, or the old ones deleted. *)
Write ==
  /\ pc \in FlushSites \cup {"retain"} /\ (waiting \/ Needed(pc)) /\ ~busy
  /\ waiting' = FALSE
  /\ pc' = After(pc)
  /\ now_wall' = 0
  /\ IF pc = "retain"
     THEN /\ lastRetention' = IF waiting THEN now_wall ELSE Now
          /\ UNCHANGED <<events, spectra, lastFlush>>
     ELSE /\ events' = 0 /\ spectra' = 0 /\ lastFlush' = clock
          /\ UNCHANGED lastRetention
  /\ UNCHANGED <<clock, queueVars, since, busy, taken, windowVars,
                 clockVars, starved, waits>>

(* SQLITE_BUSY after LockTimeout: a flush keeps its rows and goes on, the  *)
(* exception of a retention is caught nowhere in the loop.                 *)
TimeOut ==
  /\ waiting /\ busy /\ ~MayWait
  /\ waiting' = FALSE
  /\ pc' = IF pc = "retain" THEN "exited" ELSE After(pc)
  /\ UNCHANGED <<clock, queueVars, since, busy, taken, windowVars, storeVars,
                 clockVars, starved, waits>>

-----------------------------------------------------------------------------
(* Another process takes or releases the write lock. *)
OtherProcess ==
  /\ busy' = ~busy
  /\ UNCHANGED <<clock, queueVars, pc, waiting, since, taken, windowVars,
                 storeVars, clockVars, starved, waits>>

(* The wall clock is corrected. *)
SetClock(j) ==
  /\ jumps < MaxJumps
  /\ jumps' = jumps + 1
  /\ wall' = wall + j
  /\ setBack' = IF j < 0 THEN setBack - j ELSE setBack
  /\ UNCHANGED <<clock, queueVars, pc, waiting, since, busy, taken, windowVars,
                 storeVars, starved, waits>>

Next ==
  \/ CallbackPuts \/ CallbackFull \/ CallbackMakesRoom
  \/ Take \/ Detect \/ PassBy \/ WaitForLock \/ Write \/ TimeOut
  \/ OtherProcess
  \/ \E j \in Jumps : SetClock(j)

Spec == Init /\ [][Next]_vars

-----------------------------------------------------------------------------
(* The queue has no holes and ends with the latest block, unless the       *)
(* callback is about to add it: what an overflow costs is always the       *)
(* oldest sound, in one piece (_audio_callback, "drop oldest").            *)
QueueIsNewest ==
  \A i \in DOMAIN queue :
    queue[i] = (IF full THEN clock - 1 ELSE clock) - Len(queue) + i

(* One wait for the database costs no sound: a block is lost only if the   *)
(* engine has waited twice without catching up in between, or was starved. *)
(* The wait and the queue are ten seconds long each, so this is a matter   *)
(* of one block; but a step may wait three times (add_spectrum, add_event, *)
(* maybe_flush) and a flush that failed is retried with the next row.      *)
LossTakesTwoWaits == [][lost' > lost => waits >= 2 \/ starved > 0]_vars

(* The rows of the spectrum follow each other without overlap and none is  *)
(* shorter than the interval, also when the wall clock is set back or the  *)
(* engine catches up with a backlog (SpectrumAggregator.update).           *)
RowsFollow ==
  [][row' # row => /\ row'.dur >= Interval
                   /\ row.dur > 0 => row'.t0 >= row.t0 + row.dur]_row

(* A window of the spectrum ends: it holds the ticks of its interval, at   *)
(* most a backlog more, and as many more as the clock was set back.        *)
WindowEnds == window.ticks <= Interval + QueueSize + setBack

(* The queue and the loop implement the promise of the capture. *)
Channel == INSTANCE AudioChannel WITH recorded <- clock

ChannelSpec == Channel!ChannelSpec
=============================================================================
