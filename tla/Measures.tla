------------------------------ MODULE Measures ------------------------------
(***************************************************************************)
(* What becomes of the smoothed spectra of both channels besides the       *)
(* events: FloorTracker keeps the last ones in a ring and takes a median,  *)
(* SpectrumAggregator folds them into bands and windows, and               *)
(* get_spectrum_png draws the rows of the table spectrum.                  *)
(*                                                                         *)
(* A level counts steps of 3 dB, so that the power of a bin is a power of  *)
(* two. Times and frequencies are integers.                                *)
(***************************************************************************)
EXTENDS Arithmetic, SequencesExt, FiniteSetsExt, Functions

CONSTANTS
  Frames,           (* pairs of smoothed spectra, from bins to levels       *)
  MinHz, MaxHz,     (* min_hz, max_hz; bin b is at b hertz                  *)
  NBands,           (* n_bands                                              *)
  Interval,         (* interval_s                                           *)
  QMax,             (* the largest quantised value (255)                    *)
  HistoryLen,       (* history_len                                          *)
  Delays,           (* time from one frame to the next                      *)
  MaxFrames         (* bound of the frames                                  *)

Channels == {1, 2}   \* left and right
Bands == 1..NBands
Bins == UNION {DOMAIN f[1] : f \in Frames}

ASSUME MeasuresAssumption ==
  /\ Frames \subseteq [Channels -> [Bins -> Nat]]
  /\ MinHz \in Nat /\ MaxHz \in Nat /\ 0 < MinHz /\ MinHz < MaxHz
  /\ {NBands, Interval, QMax, HistoryLen} \subseteq Nat \ {0}
  /\ Delays \subseteq Nat
  /\ MaxFrames \in Nat

VARIABLES
  history,     \* the ring: history1 and history2, a pair in each place
  tick_count, write_pos,
  win_t0,      \* start of the window, once it has started
  lowest, highest,  \* _min_g, _min_d and _max_g, _max_d
  rows,        \* the table spectrum
  now,         \* time of the last frame
  heard        \* history: the frames, with their time and their row

vars == <<history, tick_count, write_pos, win_t0, lowest, highest, rows, now, heard>>

Init ==
  /\ history = [i \in 0..(HistoryLen - 1) |-> <<>>]
  /\ tick_count = 0 /\ write_pos = 0
  /\ win_t0 = 0 /\ now = 0
  /\ lowest = <<>> /\ highest = <<>>
  /\ rows = <<>>
  /\ heard = <<>>

-----------------------------------------------------------------------------
(* FloorTracker                                                            *)

UpdateFloor(frame) ==
  /\ history' = IF tick_count = 0 THEN [i \in DOMAIN history |-> frame]
                ELSE [history EXCEPT ![write_pos] = frame]
  /\ write_pos' = (write_pos + 1) % HistoryLen
  /\ tick_count' = tick_count + 1

(* The places that get_floor reads *)
ValidLen == Min({tick_count, HistoryLen})

(* Mutant: the upper of the two in the middle. *)
MiddleUp(n) == n \div 2

(* _median_last: the place of the lower median, from 0 *)
Middle(n) == (n - 1) \div 2

(* np.partition: the values in an order that has no larger one before      *)
(* place k, and no smaller one after it.                                   *)
Partitioned(values, k) ==
  CHOOSE w \in {[i \in DOMAIN values |-> values[p[i]]] :
                  p \in Bijection(DOMAIN values, DOMAIN values)} :
    \A i \in DOMAIN values : (i < k => w[i] <= w[k]) /\ (i > k => w[k] <= w[i])

(* get_floor at one bin of one channel *)
Floor(ch, bin) ==
  LET levels == [i \in 1..ValidLen |-> history[i - 1][ch][bin]]
      k      == Middle(ValidLen) + 1 IN
  IF ValidLen <= 1 THEN history[0][ch][bin] ELSE Partitioned(levels, k)[k]

-----------------------------------------------------------------------------
(* SpectrumAggregator                                                      *)

(* The edges of the bands, times NBands *)
Edge(i) == MinHz * NBands + (MaxHz - MinHz) * i

(* The band of a bin; the upper edge of the last band belongs to it. *)
BandOf(bin) ==
  Min({NBands, Cardinality({i \in 0..NBands : Edge(i) <= bin * NBands})})

BinsOf(band) == {b \in Bins : MinHz <= b /\ b <= MaxHz /\ BandOf(b) = band}

(* The sum of the powers of the bins of a band *)
Energy(spectrum, band) ==
  LET Sum[b \in 0..MaxHz] ==
        IF b = 0 THEN 0
        ELSE Sum[b - 1] + (IF b \in BinsOf(band) THEN 2^spectrum[b] ELSE 0)
  IN Sum[MaxHz]

(* _aminmax; a band without bins stays infinite, as <<>> here. *)
Accumulated(acc, frame, upwards) ==
  [ch \in Channels |-> [band \in Bands |->
     IF BinsOf(band) = {} THEN <<>>
     ELSE LET e == Energy(frame[ch], band)
              both == IF acc = <<>> THEN {e} ELSE {acc[ch][band][1], e}
          IN <<IF upwards THEN Max(both) ELSE Min(both)>>]]

(* _quantize: round to the nearest step, clip; 0 for a band without bins.  *)
Quantise(e) == Cardinality({k \in 1..QMax : e > 0 /\ 2^(2 * k - 1) <= e * e})

Quantised(acc) ==
  [ch \in Channels |-> [band \in Bands |->
     IF acc[ch][band] = <<>> THEN 0 ELSE Quantise(acc[ch][band][1])]]

UpdateWindow(frame, t) ==
  LET start == IF tick_count = 0 THEN t ELSE win_t0
      low == Accumulated(lowest, frame, FALSE)
      high == Accumulated(highest, frame, TRUE) IN
  IF t - start < Interval
  THEN /\ win_t0' = start
       /\ lowest' = low /\ highest' = high
       /\ UNCHANGED rows
  ELSE /\ win_t0' = t
       /\ lowest' = <<>> /\ highest' = <<>>
       /\ rows' = Append(rows, [t0 |-> start, dur |-> t - start,
                                min |-> Quantised(low), max |-> Quantised(high)])

(* One frame of Engine.step *)
Frame(frame, delay) ==
  /\ tick_count < MaxFrames
  /\ now' = now + delay
  /\ UpdateFloor(frame)
  /\ UpdateWindow(frame, now')
  /\ heard' = Append(heard, [at |-> now', frame |-> frame, row |-> Len(rows) + 1])

-----------------------------------------------------------------------------
(* get_spectrum_png                                                        *)

(* The bands of the zoom from f_lo to f_hi, which count in units of one    *)
(* hertz over NBands, as Edge does. It keeps the band that contains f_hi   *)
(* but not the one that contains f_lo.                                     *)
Kept(view) ==
  LET f0 == Max({MinHz * NBands, view.f_lo})
      f1 == Min({MaxHz * NBands, view.f_hi})
      b0 == Clamp(0, Cardinality({i \in 0..NBands : Edge(i) < f0}), NBands - 1)
      b1 == Clamp(1, Cardinality({i \in 0..NBands : Edge(i) <= f1}), NBands)
  IN (b0 + 1)..b1

(* The crests of a row on the channels asked for *)
Crest(row, channels, band) == Max({0} \cup {row.max[ch][band] : ch \in channels})

X0(view, row) ==
  Clamp(0, Rounded((row.t0 - view.since) * view.width, Max({1, view.until - view.since})),
        view.width - 1)

X1(view, row) ==
  Clamp(X0(view, row) + 1,
        Rounded((row.t0 + row.dur - view.since) * view.width,
                Max({1, view.until - view.since})),
        view.width)

(* Mutant: a plain assignment, where the last of equal indices wins. *)
LastOf(S) == S[Max(DOMAIN S)]

LoudestOf(S) == Max(Range(S))

Shown(view) == {i \in DOMAIN rows : rows[i].t0 \in view.since..view.until}

Narrow(view) == \A i \in Shown(view) : X1(view, rows[i]) - X0(view, rows[i]) <= 1

(* When every row takes one column at most, each goes to the column where  *)
(* it starts, otherwise to all of its columns.                             *)
RowsAt(view, x) ==
  {i \in Shown(view) : IF Narrow(view) THEN X0(view, rows[i]) = x
                       ELSE X0(view, rows[i]) <= x /\ x < X1(view, rows[i])}

Image(view) ==
  [x \in 0..(view.width - 1) |-> [band \in Kept(view) |->
     IF RowsAt(view, x) = {} THEN 0
     ELSE LoudestOf([i \in RowsAt(view, x) |-> Crest(rows[i], view.channels, band)])]]

-----------------------------------------------------------------------------
(* The floor is the lower median of the last HistoryLen frames, from the   *)
(* first frame on: neither the frame that fills the ring nor the wrapping  *)
(* of its position gives a frame more or less weight (FloorTracker).       *)
FloorIsMedianOfRecent ==
  LET recent == (Max({1, Len(heard) - HistoryLen + 1}))..Len(heard)
      Below(v, ch, bin) == Cardinality({i \in recent : heard[i].frame[ch][bin] < v})
      UpTo(v, ch, bin) == Cardinality({i \in recent : heard[i].frame[ch][bin] <= v})
  IN heard # <<>> =>
       \A ch \in Channels, bin \in Bins :
         LET v == Floor(ch, bin) IN
         /\ 2 * Below(v, ch, bin) < Cardinality(recent)
         /\ 2 * UpTo(v, ch, bin) >= Cardinality(recent)
         /\ \E i \in recent : heard[i].frame[ch][bin] = v

Stored == {i \in DOMAIN heard : heard[i].row <= Len(rows)}

(* What frame i gives a band of a channel *)
Value(i, ch, band) == Quantise(Energy(heard[i].frame[ch], band))

(* The places of a row in the image, times the span of the view *)
Start(view, row) == (row.t0 - view.since) * view.width
End(view, row) == Start(view, row) + row.dur * view.width

Inside(view, band) == view.f_lo <= Edge(band - 1) /\ Edge(band) <= view.f_hi

(* What a stored frame has heard in a band inside the zoom shows in the    *)
(* image if the row of the frame begins in the view, in a column no more   *)
(* than half a column away from the start of the row, or the last one; and *)
(* what shows is a crest of a frame of a row that touches the column. Rows *)
(* that begin before the view and reach into it do not show, see           *)
(* AllCrestsShown in Algorithms.                                           *)
CrestsSurviveIn(view) ==
  LET image == Image(view)
      span  == view.until - view.since IN
  /\ \A i \in Stored, ch \in view.channels, band \in Bands :
       LET row == rows[heard[i].row] IN
       row.t0 \in view.since..view.until /\ Inside(view, band) =>
         \E x \in DOMAIN image :
           /\ band \in DOMAIN image[x] /\ image[x][band] >= Value(i, ch, band)
           /\ Gap(2 * x * span, 2 * Start(view, row)) <= span \/ x = view.width - 1
  /\ \A x \in DOMAIN image : \A band \in DOMAIN image[x] :
       image[x][band] > 0 =>
         \E i \in Stored, ch \in view.channels :
           LET row == rows[heard[i].row] IN
           /\ image[x][band] = Value(i, ch, band)
           /\ 2 * Start(view, row) <= (2 * x + 1) * span \/ x = view.width - 1
           /\ 2 * End(view, row) >= (2 * x - 1) * span

(* The views in question: they may start before the first frame and end    *)
(* after the last one ("heures futures"), and their zoom may cut a band.   *)
Views ==
  {v \in [since : {2, now - 2}, until : {now - 1, now + 3}, width : {2, 3},
           channels : {{1}, {1, 2}},
           f_lo : {0, Edge(0) + 1, Edge(1)}, f_hi : {Edge(1), Edge(NBands) + 1}] :
     v.since < v.until}

(* The crests of the rows that begin in a view survive the aggregation and *)
(* the drawing (SpectrumAggregator.update, get_spectrum_png).              *)
CrestsSurvive == \A view \in Views : CrestsSurviveIn(view)
=============================================================================
