# Verification of BruitTrack

BruitTrack listens to two accelerometer/microphone channels, detects emergences
of recurrent noise, groups them in families ("clusters"), stores them in SQLite
and serves a dashboard and a legal report. This directory holds TLA+ modules of
its core logic, TLC configurations that check them on small instances, and TLAPS
proofs of what matters most, for every value of the constants.

Paths below are relative to the repository; the code is in `src/bruittrack/`.

## 1. Inventory

Two processes share one SQLite file and a few directories.

    capture process (systemd, Restart=always)          web process (bruittrack viz)
    ----------------------------------------          ----------------------------
    PortAudio thread --queue(100)--> main thread      ThreadingHTTPServer,
       Engine.start: get_block -> Engine.step          one thread per request
         DspPipeline -> FloorTracker                   queries, labels, triage,
         -> EventDetector -> ClusterIndex              discomfort reports
         -> EventStore (buffers) --flush--> SQLite <---+ 
         -> SpectrumAggregator                         |
         every 3rd tick: req_*.trigger <---------------+ trigger files
         -> snap_*.npz/.wav/.json -------------------->+ polled for 600 ms
       SIGINT/SIGTERM: handler on the main thread      JS client (viz.py) in a browser

| Component | State | Operations | Interacts with | What is hard |
|---|---|---|---|---|
| **Detector** `events.py`, `legal.py` | `is_active`, `candidate_ticks`, `active_ticks`, `cum_duration_s`, `t0`, peak | `update` per 100 ms frame | called by `Engine.step`; emits events; writes exemplars | off-by-one at debounce, closing and chaining; state kept across three phases |
| **Event store** `store.py` | `_buffer`, `_spec_buffer`, `_last_flush_time`, tables | `add_event`, `add_spectrum`, `maybe_flush`, `flush` | engine; other processes through the database lock | failed transactions, retries, crashes, limit of the buffer |
| **Stop** `__main__.py`, `pipeline.py` | the stack of the main thread | signal handler, `stop`, `finally` | store, re-entered on the same thread | a signal inside a flush, a second signal, the lock held below |
| **Families** `events.py`, `store.py` | `ClusterIndex`, column `cluster`, files `ex_*.raw` | merge, rename, load, retention, prune, match | start-up order, the buffer, the directory of exemplars | three copies of the same ids, restarts, crashes between steps |
| **Snapshots** `viz.py`, `pipeline.py`, `store.py` | rows of `discomfort_log`, trigger files, `snap_*` | report, poll, serve, delete | two processes, files only | delete against capture, crash over a trigger, files seen half-written |
| **Capture queue and loop** `capture.py`, `pipeline.py` | queue of 100 blocks, where `step` is, last flush, last retention | callback, `get_block`, `step` | PortAudio thread, main thread, lock of the database | overflow, drop-oldest, waits as long as the queue |
| **Measures** `dsp.py`, `store.py` | `FloorTracker` ring, `SpectrumAggregator` window, rows of `spectrum` | `update`, `get_floor`, `get_spectrum_png` | engine, web process | ring wrap, empty bands, rounding, wall clock |
| **DSP** `dsp.py` | filters, ring buffers | `process_block` | engine | the numerics |
| **Queries** `store.py` | none | pagination, aggregates | web process | read while the engine writes |
| **Dashboard: events** `viz.py` (JavaScript) | loaded events, their bounds, the window cursor, the view | refresh, zoom, window requests | HTTP | late, failed and overtaking answers, stale cursors |
| **Dashboard: panels** `viz.py` (JavaScript) | image of the spectrum and its keys, channels, modal | toggles, focus, wheel, snapshots | HTTP | images in any order, two ways to one setting |
| **Fingerprints** `events.py` | none | encode, match | detector, merge, recluster | symmetry, a peak that jumps |
| **HTTP server** `viz.py` | per request | GET/POST handlers | store | validation, threads |
| **Configuration** `config.py` | a record | load, validate | everything | bounds |
| **Legal report** `legal.py` | none | `generate_legal_report` | events of the table | flag and report use different durations |
| **Recluster** `scripts/recluster.py` | a new id map | replay, move files | database and exemplars, engine stopped | order of moves, a kill half-way |

What makes each component correct:

* *Detector*: a loud sound that lasts is recorded whatever preceded it; level and
  bin are those of the loudest frame; durations are in range; the cumulated
  duration is the real one; no exceedance is flagged conforming.
* *Event store*: rows are committed once, in order, and only a crash takes rows,
  at most a batch when writes succeed; what waits becomes durable.
* *Stop*: the stop ends; a row is lost or repeated only in the places named below.
* *Families*: an id in use is never given to another sound by accident; matching
  does not depend on what came in between; merges unite only what is linked; a
  file belongs to its cluster, and a flagged cluster has its file, apart from the
  cases named below.
* *Snapshots*: a report is served, once, in bounded time, and a kill does not lose
  it; a delete that meets no pending request leaves nothing.
* *Capture queue and loop*: blocks arrive in order, once; an overflow costs the
  oldest sound, in one piece, and only when the engine is late more than once.
* *Measures*: the floor is the median of the last frames; windows of the spectrum
  follow each other and end; no crest of a row that begins in the view is lost on
  its way to the image.
* *Dashboard*: what was loaded last is whole, up to its limit; new events arrive;
  image, channels and modal agree with what was chosen last.
* *Fingerprints, configuration, report*: matching is symmetric; an accepted
  configuration runs; the report lists what the detector flagged.

## 2. Modules

| Module | Models | Notes |
|---|---|---|
| `EventDetector` | `EventDetector.update`, `_build_and_emit_event`, `legal.py` rules | one action per branch of `update` |
| `LegalReport` | `generate_legal_report` | over all the events `EventDetector` emits and the engine records |
| `EventLog` | the promise of the store: accept, persist, crash | abstract specification |
| `EventStore` | `add_*`, `maybe_flush`, `flush`, `_do_flush` in five steps | implements `EventLog` |
| `EngineShutdown` | extends `EventStore` with the stack of the main thread | signals between any two steps of a flush |
| `AudioChannel` | the promise of the capture: in order, once | abstract specification |
| `CaptureLoop` | `_audio_callback`, `get_block`, the places of `step` that may wait, the spectrum window | implements `AudioChannel` |
| `ClusterStore` | start-up and run of the families of sounds, labels, `prune`, `recluster.py` | takes the promise of `EventLog` for its writes |
| `SnapshotIPC` | the file protocol of the two processes | |
| `DashboardEvents` | the events the page holds and the requests that load them | |
| `DashboardPanels` | image of the spectrum, channels, snapshot modal | |
| `Measures` | `FloorTracker`, `SpectrumAggregator`, `get_spectrum_png` | |
| `Fingerprints`, `Configuration`, `Arithmetic` | pure computations | operators only |
| `Algorithms` | the three above in one specification, `AlgSpec` | a behaviour follows frames, or hears two sounds, or starts with one configuration file |
| `EventDetectorProofs` (with `LegalReport`), `EventStoreProofs` (with `EngineShutdown`), `CaptureLoopProofs`, `SnapshotIPCProofs`, `DashboardPanelsProofs`, `ClusterStoreProofs`, `AlgorithmsProofs`, `DashboardEventsProofs` | the theorems of section 4 | each extends its component |
| `MC*` | the small instances | constants only |

### EventDetector, LegalReport

A frame is `[l, r, bin]`: what `update` reads of the two spectra is the bin with
the greatest emergence and the two emergences there. Durations are in frames of
100 ms, and `max_duration_s` is rounded up. `DropCandidate`, `GrowCandidate`,
`Sustain`, `CloseEvent` and `ChainSegment` are the branches of `update`; their
guards are exclusive and cover every frame. `BuildEvent` is the emitted row. The
period of the day is decided by `NightFrom`, one change per behaviour, which is
enough to have events on both sides of it. The history variables `episode`,
`run`, `heard` and `closed` observe frames and guard nothing. `LegalReport` adds
`recorded`, what `Engine.step` has given to `add_event` since the start, each event
as the `Row` that the report reads; a step of `ReportSpec` is one of the detector
and `Record`. The report is over any finite set of events, its counts are
cardinalities, and the run and the theorem ask it about all that was recorded.

The assumption `Release <= Threshold` says that `hysteresis_db` is not negative.
`config.py` does not check it (`LeftToTheUser` of `Configuration`); with a
negative hysteresis the detector would close on frames above the threshold.

### EventStore, EventLog

Rows are numbers in the order of `add_event` and `add_spectrum`. A flush is the
record `flush = [pc, rows]`: `insert` (copied, no lock yet), `locked` (the
first INSERT has the write lock), `clear_events`, `clear_spectrum` (committed, the
two buffers not yet both cleared). `FlushFails` is the except branch.
`MaybeFlush` is the passing of a tick of the engine. The refinement maps a
committed but uncleared buffer to an empty one: rows are durable at the commit.
All additions come from the engine's main thread, so no addition happens inside
a flush; the lock is not a variable for that reason (in `EngineShutdown` the
RLock lets the interrupted thread in, and `TopMayRunPlainLock` is what a plain
lock would do).

### EngineShutdown

`main` is where the main thread is (`running`, `handler`, `finally`,
`final_handler`, `exited`); `flush` is the call on top of its stack and
`suspended` are the interrupted ones. `handle_signal` runs between two byte codes
of the same thread. Its `sys.exit(0)` unwinds the interrupted calls, closing
their connections (rollback), into the `finally` of `Engine.start`, which stops,
and flushes, again. `Engine.stop` is two steps: `capture.stop()` (`stopping`, ended
by `CaptureStops`; its exceptions are caught in capture.py), then `store.close()`
with its flush, so that a signal may also strike in between. `Killed` is SIGKILL.

### CaptureLoop, AudioChannel

The unit of time is one block of 100 ms. Blocks are numbered by the sound card;
`clock` is the latest one and also the monotonic clock. A step of the engine takes
no time unless it waits for the write lock, which another process takes and
releases at will (`OtherProcess`); blocks that arrive otherwise are those of a
starved processor, at most `MaxStarved`. The callback is two actions when the
queue is full (`CallbackFull`, `CallbackMakesRoom`), since the main thread runs
between them. `pc` names the places of `step` that may need the lock:
`add_spectrum`, `add_event`, `retain`, `maybe_flush`. The wall clock is `clock +
wall`, and `SetClock` moves it; `now_wall` is what `step` has read of it before its
waits, and what retention remembers as its last time (pipeline.py:178,195). What a flush does to rows is in `EventStore`; here
they are counted, and an event may or may not be emitted. `QueueSize` and
`LockTimeout` are both ten seconds in the code (100 blocks; `timeout_s = 10.0`),
equal here too. The refinement of `AudioChannel` hides everything but the number
of the latest block recorded and of the latest block taken.

### ClusterStore

A fingerprint is a member of `Prints` and `fingerprints_match` a symmetric,
reflexive relation `Compatible`, not transitive in general; that the code's
`fingerprints_match` is symmetric and reflexive is the theorem
`MatchesAreCompatible` of `AlgorithmsProofs`. `phase` follows `Engine.__init__`
(merge, rename each exemplar, load the index, retention and pruning) into the
loop; `move` and `place` are between the transaction of `recluster.py` and its last
file: `SetAside` takes one file after the other to its temporary name,
`RemoveOrphans` deletes what nobody wants, `PlaceFile` puts one file after the other
in its new place. A file under a temporary name is in `moves` only, so a kill
there loses it, as in the code.
`exemplars` says which event's sound a file holds. Writes of a batch are atomic,
as `EventStore` is shown to provide. `Expire` takes any number of the oldest
events, since retention is by age and ages are not modelled. `_save_exemplar` may
fail after the flag was set. `Triage` only records that an id has a label: what
the label says does not matter to its staying put.

The loops over pairs and rows are recursive functions that say what the loops
leave: `Roots` is the union-find when every pair has been compared, where a
cluster takes the class of its smallest compatible elder and is not looked at
again; `Opener` is the event that opens the cluster of another one in the replay,
and `Replay` numbers the openers. `index` is keyed by the number of the event
whose fingerprint an entry holds, which gives its order. `mixed`, `astray` and
`bare` are history variables that guard nothing. `astray`: a kill has come between
the commit of a merge and its last rename, in a pruning or in the moves of the
script, or has taken a buffered event whose file is there; nothing puts the files
right afterwards. `bare`: the exemplar of a flagged event was never written, or
was pruned while its event was in the buffer. `mixed`: `recluster.py` has met two flagged events in one cluster, as after a
merge, and then moves one file for both.

### SnapshotIPC

Files are `files[r]`, the kinds that exist, and `torn`, the ids whose npz is open
for writing. `PostStep` is the request (insert, write the trigger, poll, answer);
`DeleteStep` the delete request, one file after the other and then the row;
`Tick` the end of `Engine.step`; `SaveStep` the capture of one listed trigger, which
may fail before it opens a file (`CaptureFails`) or in any of its writes
(`SaveFails`, with or without the file under way, `Leftovers`). `EngineKilled` leaves
the trigger for the next process; `EngineStopped` is SystemExit where the program
is: inside a capture it goes through the finally clause, which unlinks the
trigger (pipeline.py:213-217), between captures it does not. The
twelve looks of the poll are one look at a time the environment chooses, since
nothing relates 600 ms to the engine's progress. Ids are never reused
(AUTOINCREMENT). The history variables `age`, `captured`, `outcome` and `raced`
guard nothing; `captured` stops at `MaxCaptures`, one more than is allowed. That
the unlinking of an existing trigger succeeds is assumed. The branches of the
request with a payload snapshot or an attached engine are not modelled: the
shipped client and server use the trigger.

### DashboardEvents

Event number `t` is recorded at time `t`, so the database is one number. A value
of the page that may be null is a set of at most one element. A JavaScript handler
runs to its next `await` without interruption, so a handler is one action up to
its request, and its continuation another one. `FetchWindow` is the guard,
`tlScale` and the request of `fetchWindow`; the continuation is `WindowAnswered`
or `WindowFailed`, and `fetchingWin` is `winRequest # {}`. Several refreshes may be
under way, one window request at most, as in the code. `Redraw` stands for the
many draws that only matter because they set `tlScale`, which `fetchWindow` reads.
`NewEvent` is disabled while the events recorded since an answer under way was
asked for would fill a page (`Awaited`): no answer is late by 20000 events. That
is a bound on lateness alone; events and acts may be any number.

### DashboardPanels

`spec` is the state of `fetchSpectrum`: image, its key, the wanted key, the flag
and the images under way, which load or fail in any order. `FetchSpectrum` is
its sequence of early returns. Handlers are one action each: a forced fetch for
the view drawn last, then a draw that fetches without force for its own view
(`FetchAndDraw`), or the draw alone (`DrawOnly`). `pending` holds continuations of
`fetchWindow` and the timer of the wheel.

### Measures, Fingerprints, Configuration

A level is a number of 3 dB steps, so that the power of a bin is a power of two
and the quantisation of a band compares integers. The ring of the floor, the place
of the lower median (`Partitioned` says what `np.partition` promises), the bands
(with the bands that no bin falls into), the windows, the columns of the image
with Python's rounding to even, both branches of `get_spectrum_png` and its
frequency zoom (`Kept`) are as in the code; the image is the matrix of maxima
before contrast and palette. `Encode` keeps the fields of the sixteen bytes; no value of the model
exceeds their widths. Distances are scaled by 420, a multiple of every
denominator. `Configuration` works in integers (tenths of a second, hundredths of
`ema_alpha`); `Runs` says what the constructors and the first block need so as not
to raise, `Detects` what `DetectorAssumption` asks, and `LeftToTheUser` the four
conditions `validate` does not look at. `Algorithms` runs the three: the frames
change the state of `Measures`, `Hear` adds the fingerprint of a sound to at most
two, and the configuration file is chosen at the start.

## 3. Runs

Runs that pass:

| Run | Bounds | Shows |
|---|---|---|
| `detector` | 9 frames, levels 0..3 on 2 channels, 2 bins, debounce 2, maximum 4 | nine frames hold a candidate, a full segment, a chained one and the close of another; the night starts at frame 6; the bounds of the correction lie inside; up to three events are in one report |
| `store` | 4 rows per kind, batch 2, timeout 2, 1 crash | two batches of each kind, retries after failures, a crash in each step; refinement and liveness |
| `shutdown` | 2 rows per kind, batch 2, 2 signals, 1 crash | a signal in every step of a flush or in the stop of the stream, and a second one in the handler or the finally clause |
| `clusters` | 4 events, 4 fingerprints in a chain, 2 restarts, 1 label, 1 run of the script | merges with chains, renaming, retention, new ids after a kill, a replay after it, a kill between any two files (1.2 million states) |
| `snapshots` | 2 reports, period 2, 1 kill or stop | two triggers in one check, deletion at each step, captures that fail at any point, a kill and a stop in a capture, between two and outside; every trigger is served (1.2 million states) |
| `capture` | 7 blocks, queue and timeout 2, interval 2, batch 2, 1 clock jump of 2 either way, 1 starved block | the queue overflows by two waits or by one and the starved block; a retention that fails; a window across each jump |
| `dashboard_events` | page of 3, 5 to 8 events, 2 views, 3 acts or failures, 2 refreshes | refreshes that overtake each other and the window request, answers cut at the limit, a view older and one younger than the page |
| `dashboard_panels` | 2 zooms, 2 bands, 2 reports, 3 acts or failures | every pair of acts with the images of both under way, and a third that depends on them |
| `algorithms` | 4 frames of 3 spectra, ring of 3, 2 bands; 84 spectra in three places (252 sounds), in pairs; every pair of settings off their defaults | the ring wraps; windows of one and two frames; views that begin before, between and after the rows, on one or two channels, with zooms that cut a band; a configuration is wrong for two reasons at once |

Fairness. `store`: the engine ticks for ever and a flush that was entered goes
on (weak fairness of `MaybeFlush`, `ClearEvents`, `ClearSpectrum`: they are
steps of one running thread); the INSERT and the COMMIT have strong fairness,
that is, the other process does not hold the database for ever. Without it the
statement is false, and rightly: a disk that fails for ever stores nothing.
`shutdown`: the thread runs, that is weak fairness of the flush on top of the
stack, successful or failed, and of the end of the handler. `snapshots`:
the engine ticks and serves what it has listed; nothing is assumed of the
requests, which may stop half-way. `dashboard_events` and `dashboard_panels`: the
browser's timers run (the automatic refresh is on unless switched off) and some
request under way is answered; no particular one is, so answers may overtake each
other for ever. Crashes, failures and acts of the user are never fair, only
bounded.

Deadlock is not checked in `detector` (the frames end at `Horizon`), `shutdown`
(the process has exited), `capture` (the blocks end at `MaxBlocks`, or the process
has exited) and the runs of `Algorithms` (the input ends). The other models
never stop.

Runs that find a disagreement between the code and a statement of the repository:

| Run | Statement | What happens |
|---|---|---|
| `dashboard_cursor` | viz.py:1413, `winCursorT` is a reliable floor of loaded data; viz.py:1403, all events of the view are loaded | a refresh replaces the events by the newest page and keeps the cursor, so a zoomed view above it stays empty until another window is asked for |
| `fingerprint_wobble` | events.py:164-166, tests/test_events.py:356, matching is invariant when the peak jumps by one bin | the shift selects places but does not shift, so profiles are compared place by place; the spectrum 3,0,3,3,0,3 does not match itself |
| `overlap` | store.py:610, all crests of the sound are preserved | the query asks for rows with `t0 >= since`, so the row that begins before the view and reaches into it is missing: with frames at 1 and 3 in one row, what frame 3 heard does not show in a view from 2 |

Every property of a passing run is broken by a mutant of a definition of the
model (`PROJECT.json`, "mutants"), the operators commented "Mutant".

Behaviours that the models have, that no property forbids, and that are worth
knowing:

* Detector: chained segments share the frame that closes the one and opens the
  other (`CumulatedIsElapsed` counts it; AUDIT.md:108 calls them contiguous). A
  segment closed at the maximum by a frame between release and threshold is not
  chained, and the next loud frame restarts the cumulated duration although there
  was no calm (the comment at events.py:310 speaks of one). The report shows a
  flagged event with the limit of its own segment (legal.py:121), so its
  `depassement` may be zero or negative although it is listed rightly.
* Stop: a signal between the commit and the clearing of the buffers
  (store.py:327-332) stores the batch twice; `TwiceOnlyIfStruck` says that nothing
  else does. A second signal in the flush of the finally clause, after its INSERT,
  drops the buffer (the exception `final_flush` of `StopWritesAll`).
* Loop: a daily retention that meets a locked database raises out of
  `Engine.start` and ends the capture (pipeline.py:188); a flush that meets one goes
  on. When the callback finds the queue full and the loop empties it before
  `get_nowait`, the new block is lost although there is room (capture.py:132).
* Families: `prune` does not see the buffer, so a cluster whose first event is not
  yet flushed may lose its exemplar although its event carries the flag
  (store.py:845). A merge of two clusters that both have a file keeps that of the
  absorbed one. A cluster that was absorbed is not compared again in the turns of
  larger ids (store.py:436), so two clusters that are both compatible with a third
  one may stay apart. `recluster.py` keeps one flag and one file per new cluster;
  when a merge has left two flagged events in a cluster, the file it keeps may hold
  the sound of one and the flag stay with the other (`mixed`). After a restart
  an id may be given again, and finds the label of the old one (store.py:309);
  `recluster.py` renumbers without touching the table of labels. A kill between the
  commit of a merge and its renames leaves files under absorbed ids, which no later
  start renames (store.py:460); a kill in `recluster.py` while files bear their
  temporary names loses them to the program (recluster.py:127).
* Snapshots: a report deleted before its trigger is served gets its files
  afterwards (store.py:1105 does not remove the trigger). A capture that fails, and
  one that a signal stops, drops its request (pipeline.py:213-217); only a kill
  leaves the trigger for the next process. `has_snapshot` of the
  answer says that the npz exists, not that it is complete (`torn`).
* Dashboard: when the answer to a window is cut at its limit there is a hole
  between it and the newest events. The early return at viz.py:2282 leaves an older
  request as the wanted one, so its image replaces the right one until the next
  draw. Switching one channel off filters the events of both channels out. A
  snapshot modal opened twice shows the data of the answer that comes last.
* Spectrum: the zoom drops the band in which `f_lo` lies and keeps the one in which
  `f_hi` lies (store.py:649-650, `side="left"` and `side="right"`); the statements
  about crests are for bands wholly inside the zoom.
* Configuration: `block_size` 0 or beyond the buffer, a negative `hysteresis_db`,
  a `floor_history_len` of 0 and a search window without bins pass `validate`.

## 4. Proofs

TLC shows a property on the instances above; TLAPS proves it for every value of
the constants the assumptions allow. Each proof has one inductive invariant,
checked with TLC before it was proved, one lemma per action or group of actions,
and a temporal step. The named theorems are listed in `PROJECT.json`.

* `EventDetectorProofs` (`DetectorAssumption`: integer levels, a finite table of
  corrections, a debounce and a maximum of at least one frame, `Release <=
  Threshold`). `IInv` says what is true between two calls of `update`: idle, the
  candidate counts exactly the loud frames just seen (`IdleInv`); active, the
  debounce has passed or the segment was chained, and the two durations add up to
  the age of the episode (`ActiveInv`); the peak is the loudest of what was heard
  (`HeardInv`). The properties alone are not inductive: a duration is only in
  range because of how long the candidate lasted. `CorrectifAntitone` says that
  the legal limit never grows with the duration; with the cumulated duration it
  gives `ExceedancesFlagged`. Theorems: `DetectorTypes`, `LoudSoundsRecorded`,
  `CumulatedDurationExact`, `EmittedEventsFaithful`, `EmittedDurationsInRange`,
  `ExceedancesFlagged`.
  For `LegalReport` the invariant gains that an emitted event is judged at a
  duration not below its own (`VerdictInv`), so what is too loud for its own segment
  is never `CONFORME`. `ReportInv` carries that to every recorded row, so the report
  over all of them, however many, lists exactly the flagged ones, and its totals
  add up (`ReportListsTheFlagged`, `ReportAgrees`).
* `EventStoreProofs` (`StoreAssumption`: batch and timeout positive). `SInv` says
  for each kind of rows that table and buffer are increasing and that what is
  committed but not cleared is exactly what the flush copied (`KindInv`,
  `Committed`). Without the last part a row could be written again. Theorems:
  `StoreTypes`, `RowsStoredOnceInOrder`, `RowsNeverDisappear`, `LossOfABatch`, and
  `StoreImplementsLog` (safety: every step is a step of `EventLog` or stutters).
* In the same module, for `EngineShutdown` (also `SignalAssumption`): interrupted
  flushes are never resumed, so as long as no signal has struck between a commit and the end of its
  flush, the store's `SInv` still holds, and its lemmas are used again; `TopInv`
  is what remains true of the flush on top in any case, and `StopInv` says where
  the rows may be in each phase. Theorems: `StopsWriteAll`,
  `StoredTwiceOnlyIfStruck`.
* `CaptureLoopProofs` (`LoopAssumption`, in which `LockTimeout <= QueueSize` is what
  the shipped configuration has: ten seconds each). `QueueInv` accounts for every
  block: taken, queued or lost; `WindowInv` bounds the ticks of a window by the
  time since its origin; `WaitInv` bounds the queue by the length of the first
  wait. Theorems: `LoopTypes`, `QueueHasNoHoles`, `BlocksAreAccountedFor`,
  `OneWaitCostsNothing`, `SpectrumRowsFollow`, `SpectrumWindowEnds`,
  `LoopImplementsChannel`. All properties of the run `capture` are proved, and
  types, which the run leaves out.
* `SnapshotIPCProofs` (`SnapshotAssumption`: any number of reports and restarts, a
  period of at least one tick). A trigger exists exactly as long as its request is
  open (`LinkInv`), a capture has left the files it has passed (`WholeInv`) and a
  half-written one belongs to a request that is open, failed or was stopped
  (`TornInv`), captures are paid for by restarts (`CountInv`), and a delete has
  removed the files it has passed (`DeleteInv`). `SnapshotRequestsKept` says that a
  kill loses no request; a capture that fails or is stopped may drop it. Theorems: `SnapshotTypes`,
  `SnapshotCapturedOnce`, `SnapshotRequestsKept`, `SnapshotsCapturedPromptly`,
  `QuietDeletesAreClean`.
* `DashboardPanelsProofs`: `ChannelInv` adds the types to `ButtonsDecide`;
  `ModalInv` says that, unless openings overlapped, at most one snapshot is under
  way and it belongs to the title. Theorems: `ChannelsAgree`,
  `ModalShowsOneReport`.
* `ClusterStoreProofs` (`ClusterAssumption`: `Compatible` is symmetric and reflexive,
  the bounds are any numbers). `IInv` has, besides types and what is empty in which
  phase (`PhaseInv`), the freshness of ids and of labels (`IndexInv`), renames that
  never form a chain (`RenameInv`), no two files with one sound
  (`OneSoundEach`), flags that are those of the files to be moved and, in each phase of
  the moves, what is set aside and what is placed (`MoveInv`), and, unless a kill has
  left files astray, files that belong to their clusters under the names they are
  about to take (`NoOrphans`, `OwnSounds`, `OwnMoves`) and a file for the cluster of
  every flagged event (`FlaggedFiles`). A
  file may be named after a cluster that the table has already renamed, which is why
  `ExemplarsBelong` alone is not inductive. `RootsSolve` shows that the union-find
  solves its own equation: the elders of a cluster have smaller ids, so a least id
  without a solution cannot exist. Theorems: `ClusterInvariant`, `IdsStayFresh`,
  `MatchingStaysStable`, `FilesBelong`, `LabelsStay`, `ScriptLeavesAgreement`,
  `MergesUniteChains`, that is all properties of the run `clusters` and, with
  `LabelsStay`, that labels stay with their sound within one run of the capture.
* `AlgorithmsProofs` (`MeasuresAssumption`, `AlgorithmsAssumption`: integer levels and
  settings).
  - `MatchesAreCompatible`: the profile distance is the same in both directions
    (`ShiftedIsSymmetric`, for each of the three shifts), so that `ClusterStore` may
    assume it.
  - `AcceptedConfigsRun`: by the conditions of `validate` one after the other.
  - `RingHoldsRecent`: the position in the ring is the number of frames modulo its
    length, and a frame of the last `HistoryLen` is where its number says. With it,
    `FloorsAreMedians`: a sorted arrangement of the ring exists (insertion of one
    value into a sorted sequence), so `Partitioned` returns a value with as many
    below and above as `np.partition` promises, and the counts of ring and history
    agree through a bijection.
  - `CrestsSurviveEverywhere`: `WindowInv` says that what the aggregator keeps is, for
    each channel and band, the greatest energy of the frames of the open window, and
    that each row has the quantised maxima of the frames of its own window.
    Quantisation is monotonic (`QuantiseGrows`), rounding to even is off by half a
    column at most (`RoundedIsNear`), and a row covers the columns of its duration
    (`ColumnFacts`). `KeptFacts` says which bands the
    zoom keeps. It is proved for every view with `since < until`, any width and any
    zoom, of the rows that begin in the view; the row in which the view begins is
    the disagreement of the run `overlap`. `CrestsReachTheImage` is the property of
    the run.
* `DashboardEventsProofs` (`DashboardAssumption`). `VInv` adds to `ViewIsComplete` that
  the bounds of the page are those of its events and start early enough
  (`BoundsInv`), that the newest page has no hole below the last loaded event
  (`NoHole`), that a window under way leaves no gap after the page
  (`RequestsInv`), and that the part of the window already loaded is whole
  (`SpanInv`). Theorems: `ViewInvariant`, `ViewStaysComplete`: the newest
  page is whole, and so is a view inside the last window that was loaded uncut, as long
  as no refresh has replaced the events; it does not say that every view above
  `winCursorT` is whole, which `dashboard_cursor` refutes.

Every invariant and every action property of the passing runs is stated by a
theorem. The theorem modules use no recursive operator: where the model has
recursive functions on numbers, a proof takes the least number at which the
statement fails (`LeastNat`, from the well-founded induction of the library) and
derives a contradiction, which first gives that the function exists.

Two statements of the model were wrong or too strong, and proving them showed it.
The condition under which `ExemplarsBelong` spoke of the script's files was too
weak: with one fingerprint that matches two others which do not match each other,
and an exemplar whose write failed, a merge leaves two flagged events in a cluster;
`mixed` now records exactly that. And the constant assumption of `DashboardEvents` on
late answers is a guard of one action now, so that any number of events may come.

Only model-checked: liveness (`RowsBecomeDurable`, `SignalEndsProcess`,
`TriggersAreServed`, `FreshInTheEnd`, `SpectrumConverges`). Fairness and ENABLED are
out of the prover's reach; the invariants those arguments rest on are proved.

## 5. Not modelled

* The numerics of `dsp.py`: filters, FFT, smoothing, beating metrics, correlation,
  and the sound card behind PortAudio. What the arrays need of the configuration
  is in `Configuration`. `MockAudioCapture` is a test source.
* The values of labels and of the triage columns, the note of a report, and the
  content of a snapshot; the request that brings its own snapshot, and a server
  with an attached engine, which the shipped client and service do not use.
* `record_exemplars = false`, the `:memory:` database, and the name
  `ex_<cluster>_<id>.raw` of the documentation (the engine writes
  `ex_<cluster>.raw`, which is what `ClusterStore` has).
* Retention of the rows of `spectrum`: they are removed by age alone, with no
  state of their own. The waiting and the failure of retention are in
  `CaptureLoop`.
* The contrast of the spectrum image (percentiles 5 and 98, store.py:687-701), its
  palette and its encoding, and rows whose number of bands is that of an earlier
  configuration.
* A loss of power: in WAL mode with `synchronous=NORMAL` (store.py:74-75) it may take
  committed transactions. A crash in these models is the death of the process.
* What becomes of labels after a restart, when an id is given again: named above, and
  no document promises otherwise.
* The aggregates of `store.py` (statistics, correlation of reports, summaries):
  each is one SELECT without state.
* Routing, the access token, static files, JSON; in the client the triage panel,
  the filters of the table, the calendar widget, audio playback and all drawing.
* The counter of slow reads: `_check_capture_health` is called only when `step`
  fetches its own block, which `Engine.start` never lets it do (pipeline.py:219),
  so there is no behaviour to state a property about.
* The other commands of `__main__.py`, which print one query, and the deployment
  and calibration scripts.

## 6. Plan

Done, in this order: detector, store, stop, families, snapshots; capture loop,
dashboard, measures, fingerprints, configuration and report; proofs of all of
these that the prover can reach. What is left, most useful first:

1. rows of an earlier configuration in the image (store.py:634), as an operator of
   `Measures`;
2. the composition of `CaptureLoop` with `EventStore`, in place of the counts that
   stand for the buffers now;
3. the triage panel against a merge that removes the cluster it shows.
4. theorems beyond the runs' properties: an abstract specification of the families
   (ids, labels and files as one map) that `ClusterStore` implements, and a bound on
   the lateness of the snapshots in terms of the period.
