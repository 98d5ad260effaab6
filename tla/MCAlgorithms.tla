---------------------------- MODULE MCAlgorithms ----------------------------
(* Algorithms on small inputs. *)
EXTENDS Algorithms

MCFrames ==
  {<<<<0, 2, 0, 1>>, <<1, 0, 0, 0>>>>,
   <<<<1, 1, 2, 0>>, <<3, 0, 1, 1>>>>,
   <<<<3, 0, 1, 1>>, <<0, 2, 2, 2>>>>}

(* Values on both sides of what validate, or the program, asks for. *)
MCValues ==
  [sample_rate |-> {0, 44100, 48000}, decimation |-> {0, 7, 48, 100},
   block_size |-> {0, 480, 4801, 960000}, channels |-> {1}, n_seg |-> {0, 16, 1000, 2048},
   noverlap |-> {-1, 2047, 2048}, n_buffer |-> {2047, 2048, 3071}, freq_max |-> {0, 2, 500, 501},
   min_event_hz |-> {0, 1, 149, 150}, ema_alpha |-> {0, 100, 101},
   floor_history_len |-> {0, 1}, lp_cutoff_hz |-> {0, 24000}, threshold_db |-> {0, 1, 3},
   hysteresis_db |-> {-1, 0, 10}, debounce_ticks |-> {0, 1}, max_duration_s |-> {0, 1},
   cluster_freq_tolerance_hz |-> {0, 1}, batch_size |-> {0, 1}, batch_timeout_s |-> {0},
   retention_days |-> {0, 1}, spectrum_interval_s |-> {0, 1}, n_bands |-> {0, 1},
   db_range |-> {0, 1}, spectrum_retention_days |-> {-1}, port |-> {1023, 65536}]

Settings ==
  {<<s, v>> \in (DOMAIN MCValues) \X (UNION Range(MCValues)) : v \in MCValues[s]}

(* The files that depart from the defaults in two settings at most. *)
MCConfigFiles ==
  {[s \in {a[1], b[1]} |-> IF s = a[1] THEN a[2] ELSE b[2]] : a, b \in Settings}

(* The spectra of a sound; the detector takes the first of the loudest     *)
(* bins of its window, here bins 2 and 3.                                  *)
MCSpectra ==
  {s \in [0..5 -> {0, 2, 3}] :
     /\ s[0] # 2 /\ s[1] # 2 /\ s[4] # 2 /\ s[5] # 2
     /\ \A b \in 0..5 : s[b] <= Max({s[2], s[3]})}

MCSounds ==
  {[bin |-> IF s[2] >= s[3] THEN 2 ELSE 3, spectrum |-> s, ch |-> w[1], off_ms |-> w[2]] :
     s \in MCSpectra, w \in {<<0, 0>>, <<1, 0>>, <<2, 3>>}}
=============================================================================
