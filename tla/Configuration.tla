---------------------------- MODULE Configuration ----------------------------
(***************************************************************************)
(* load_config and Config.validate of config.py, and what the constructors *)
(* and the first block of audio ask of an accepted configuration. A file   *)
(* is a function from the names of settings to values; paths, the device,  *)
(* the host and the token are left out. Frequencies are in hertz, levels   *)
(* in decibels and durations in tenths of a second, all of them integers;  *)
(* ema_alpha is in hundredths.                                             *)
(***************************************************************************)
EXTENDS Integers, Functions

(* None: the retention that is switched off. *)
NoRetention == -1

(* The literals of load_config; two differ from those of the dataclasses,  *)
(* spectrum_interval_s (5 s) and n_bands (150).                            *)
Defaults ==
  [sample_rate |-> 48000, decimation |-> 48, block_size |-> 4800, channels |-> 2,
   n_seg |-> 2048, noverlap |-> 1024, n_buffer |-> 8192, freq_max |-> 150,
   min_event_hz |-> 2, ema_alpha |-> 50, floor_history_len |-> 300,
   lp_cutoff_hz |-> 400, threshold_db |-> 10, hysteresis_db |-> 3,
   debounce_ticks |-> 5, max_duration_s |-> 300, warmup_ticks |-> 300,
   cluster_freq_tolerance_hz |-> 2, batch_size |-> 50, batch_timeout_s |-> 300,
   retention_days |-> 365, spectrum_interval_s |-> 100, n_bands |-> 48,
   db_range |-> 120, spectrum_retention_days |-> 365, port |-> 8760]

Retentions == {"retention_days", "spectrum_retention_days"}

(* load_config, before validate: what the file says, else the default; a   *)
(* retention of zero days or less becomes none.                            *)
Load(file) ==
  [s \in DOMAIN Defaults |->
     IF s \notin DOMAIN file THEN Defaults[s]
     ELSE IF s \in Retentions /\ file[s] <= 0 THEN NoRetention
     ELSE file[s]]

PowerOfTwo[n \in Nat \ {0}] == n = 1 \/ (n % 2 = 0 /\ PowerOfTwo[n \div 2])

RetentionIsValid(days) == days = NoRetention \/ days > 0

(* Mutant: segments may overlap entirely. *)
OverlapUpToAll(c) == c.noverlap <= c.n_seg

OverlapIsValid(c) == c.noverlap < c.n_seg

(* Config.validate raises nothing. *)
Validate(c) ==
  /\ c.channels = 2
  /\ c.sample_rate > 0 /\ c.decimation > 0
  /\ c.sample_rate % c.decimation = 0
  /\ c.block_size % c.decimation = 0
  /\ 0 < c.freq_max /\ 2 * c.freq_max * c.decimation <= c.sample_rate
  /\ 1 <= c.min_event_hz /\ c.min_event_hz < c.freq_max
  /\ c.debounce_ticks >= 1
  /\ c.max_duration_s > 0
  /\ c.n_seg > 0 /\ PowerOfTwo[c.n_seg]
  /\ OverlapIsValid(c)
  /\ c.n_buffer >= c.n_seg
  /\ 0 < c.ema_alpha /\ c.ema_alpha <= 100
  /\ c.threshold_db > 0 /\ c.hysteresis_db < c.threshold_db
  /\ c.cluster_freq_tolerance_hz > 0
  /\ c.batch_size > 0 /\ c.batch_timeout_s > 0
  /\ RetentionIsValid(c.retention_days)
  /\ c.spectrum_interval_s > 0 /\ c.n_bands >= 1 /\ c.db_range > 0
  /\ RetentionIsValid(c.spectrum_retention_days)
  /\ 0 < c.lp_cutoff_hz /\ 2 * c.lp_cutoff_hz < c.sample_rate
  /\ 1024 <= c.port /\ c.port <= 65535

-----------------------------------------------------------------------------
(* What Engine.__init__ and Engine.step compute from the settings.         *)

FsLow(c) == c.sample_rate \div c.decimation

BlockLow(c) == c.block_size \div c.decimation

(* Number of bins up to freq_max (DspPipeline.__init__) *)
NBins(c) == 1 + (c.freq_max * c.n_seg) \div FsLow(c)

(* The first bin of the search window (EventDetector.__init__) *)
MinBin(c) ==
  LET up == (c.min_event_hz * c.n_seg + FsLow(c) - 1) \div FsLow(c) IN
  IF up < 1 THEN 1 ELSE up

Step(c) == c.n_seg - c.noverlap

WelchSegments(c) == (c.n_buffer - c.n_seg) \div Step(c) + 1

(* Neither the constructors nor the first block of audio raise: the        *)
(* aggregator accepts its bands, the Welch segments are inside the buffer, *)
(* a block fits into the buffer of 30 seconds and into the rolling one,    *)
(* the ring of the floor has a place to write.                             *)
AggregatorAccepts(c) ==
  c.n_bands >= 1 /\ 0 < c.min_event_hz /\ c.min_event_hz < c.freq_max
  /\ c.db_range > 0 /\ c.spectrum_interval_s > 0

WelchFits(c) ==
  /\ Step(c) > 0
  /\ WelchSegments(c) >= 1
  /\ (WelchSegments(c) - 1) * Step(c) + c.n_seg <= c.n_buffer

BlockFits(c) == BlockLow(c) \in 1..c.n_buffer /\ BlockLow(c) <= 30 * FsLow(c)

Runs(c) ==
  /\ AggregatorAccepts(c)
  /\ WelchFits(c)
  /\ BlockFits(c)
  /\ c.floor_history_len >= 1

(* The detector sees bins above DC, all of them below Nyquist, and its     *)
(* release level is between zero and the threshold (DetectorAssumption).   *)
Detects(c) ==
  LET release == IF c.hysteresis_db > c.threshold_db THEN 0
                 ELSE c.threshold_db - c.hysteresis_db IN
  /\ MinBin(c) < NBins(c)
  /\ 2 * (NBins(c) - 1) <= c.n_seg
  /\ 0 < release /\ release <= c.threshold_db
  /\ c.debounce_ticks >= 1 /\ c.max_duration_s > 0

(* What validate leaves to the author of the file *)
LeftToTheUser(c) ==
  /\ BlockFits(c)
  /\ c.floor_history_len >= 1
  /\ c.hysteresis_db >= 0
  /\ MinBin(c) < NBins(c)
=============================================================================
