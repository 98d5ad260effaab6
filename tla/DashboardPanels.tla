--------------------------- MODULE DashboardPanels ---------------------------
(***************************************************************************)
(* The panels of the dashboard that are loaded after the user has chosen a *)
(* view: the image of the spectrum under the time line, whose request is   *)
(* remembered by a key (fetchSpectrum), and the snapshot of a report,      *)
(* whose request is not (openSnapshotModal). Also the two ways to choose a *)
(* channel: the buttons of the time line and the list of the filters.      *)
(*                                                                         *)
(* What is drawn follows handlers that call each other in one go, so that  *)
(* a handler is one action; what waits for the network is an answer under  *)
(* way or a continuation in pending. The drift of the sliding view, which  *)
(* its key rounds to thirty seconds, and the width of the page are left    *)
(* out; the levels of the filters are too.                                 *)
(***************************************************************************)
EXTENDS Naturals, Sequences, SequencesExt

CONSTANTS
  Live, All,    \* the views without a zoom: sliding, and everything
  Zooms,        \* the views of tlMode
  Aligned,      \* those whose bounds are multiples of thirty seconds
  FullBand, Bands,  \* the frequency views
  Reports,      \* reports of discomfort with a snapshot
  MaxActs       \* bound of the acts of the user and of failures

ASSUME PanelsAssumption ==
  /\ Aligned \subseteq Zooms
  /\ {Live, All} \cap Zooms = {}
  /\ FullBand \in Bands
  /\ MaxActs \in Nat

VARIABLES
  tlMode,     \* the zoom, or null (a set of at most one element)
  timeWindow, \* Live or All: the view without a zoom
  tlScale,    \* the view drawn last
  band,       \* freqView
  showCh,     \* the channels of the buttons: a subset of {"l", "d"}
  chanFilter, \* the channel of the filter: "", "l", "d" or "b"
  specShow,   \* the panel of the spectrum is visible
  spec,       \* specImg (its key), specImgKey, specRequestedKey,
              \* fetchingSpec, and the images under way
  pending,    \* continuations of fetchWindow and of the wheel's timer
  title, snapshot, snaps,  \* the modal: the report of its title, that of
              \* its data, and the snapshots under way
  overlap,    \* history: opened while a snapshot was under way
  acts        \* acts of the user and failures so far

viewVars  == <<tlMode, timeWindow, tlScale, band, showCh, chanFilter, specShow>>
modalVars == <<title, snapshot, snaps, overlap>>
vars == <<viewVars, spec, pending, modalVars, acts>>

-----------------------------------------------------------------------------
(* drawTimeline: tlMode, or else the window of the buttons *)
View(mode, window) == IF mode = {} THEN window ELSE CHOOSE z \in mode : TRUE

(* getSpecKey: exact bounds for a zoom; those of the view that was drawn   *)
(* last, rounded, without one.                                             *)
SpecKey(mode, scale, b, ch) ==
  [view  |-> IF mode = {} THEN scale ELSE View(mode, scale),
   exact |-> mode # {} \/ scale \notin Zooms \ Aligned,
   band  |-> b,
   ch    |-> ch]

(* The image is already asked for. *)
UnderWay(s, key) == s.fetching /\ s.requested = {key}

(* fetchSpectrum: what it does to spec, given the visibility of the panel *)
FetchSpectrum(s, shown, key, force) ==
  IF ~shown THEN s
  ELSE IF key.ch = {} THEN [s EXCEPT !.img = {}, !.imgKey = {key}]
  ELSE IF ~force /\ s.imgKey = {key} /\ s.img # {} THEN s
  ELSE IF UnderWay(s, key) THEN s
  ELSE [s EXCEPT !.fetching = TRUE, !.requested = {key},
                 !.flight = Append(@, key)]

(* The handlers: a forced fetch for the view that was drawn last, then     *)
(* drawTimelineFull, which fetches without force for the view it draws.    *)
Fetched(s, mode, scale, b, ch, shown) ==
  FetchSpectrum(s, shown, SpecKey(mode, scale, b, ch), TRUE)
Drawn(s, mode, window, b, ch, shown) ==
  FetchSpectrum(s, shown, SpecKey(mode, View(mode, window), b, ch), FALSE)

(* Without a forced fetch. *)
DrawOnly ==
  /\ tlScale' = View(tlMode', timeWindow')
  /\ spec' = Drawn(spec, tlMode', timeWindow', band', showCh', specShow')
FetchAndDraw(scale) ==
  /\ tlScale' = View(tlMode', timeWindow')
  /\ spec' = Drawn(Fetched(spec, tlMode', scale, band', showCh', specShow'),
                   tlMode', timeWindow', band', showCh', specShow')

Init ==
  /\ tlMode = {} /\ timeWindow = Live /\ tlScale = Live
  /\ band = FullBand /\ showCh = {"l", "d"} /\ chanFilter = ""
  /\ specShow = TRUE
  /\ spec = [img |-> {}, imgKey |-> {}, requested |-> {}, fetching |-> FALSE,
             flight |-> <<>>]
  /\ pending = {}
  /\ title = {} /\ snapshot = {} /\ snaps = <<>> /\ overlap = FALSE
  /\ acts = 0

-----------------------------------------------------------------------------
(* The view.                                                               *)
Act == acts < MaxActs /\ acts' = acts + 1

(* Brush or calendar: refreshWindowed sets tlScale and waits for           *)
(* fetchWindow (DashboardEvents) before it fetches the image and draws.    *)
Zoom(z, window) ==
  /\ Act
  /\ tlMode' = {z} /\ timeWindow' = window /\ tlScale' = z
  /\ pending' = pending \cup {"refreshWindowed"}
  /\ UNCHANGED <<band, showCh, chanFilter, specShow, spec, modalVars>>

Brush(z) == Zoom(z, timeWindow)
Calendar(z) == Zoom(z, All)

WindowFetched ==
  /\ "refreshWindowed" \in pending
  /\ pending' = pending \ {"refreshWindowed"}
  /\ UNCHANGED <<tlMode, timeWindow, band, showCh, chanFilter, specShow,
                 modalVars, acts>>
  /\ FetchAndDraw(tlScale)

(* setTimeWin of a button with a length, resetCalToLive *)
SetTimeWin ==
  /\ Act
  /\ tlMode' = {} /\ timeWindow' = Live
  /\ UNCHANGED <<band, showCh, chanFilter, specShow, pending, modalVars>>
  /\ DrawOnly

(* setTimeWin(null) draws when fetchWindow is over. *)
SetTimeWinAll ==
  /\ Act
  /\ tlMode' = {} /\ timeWindow' = All
  /\ pending' = pending \cup {"draw"}
  /\ UNCHANGED <<tlScale, band, showCh, chanFilter, specShow, spec, modalVars>>

(* Draws at the end of fetchWindow and of refreshAll, and by the way:      *)
(* selectEv, fitCanvas.                                                    *)
Redraw ==
  /\ pending' = pending \ {"draw"}
  /\ UNCHANGED <<tlMode, timeWindow, band, showCh, chanFilter, specShow,
                 modalVars, acts>>
  /\ DrawOnly

(* resetFviews fetches for the zoom that is still in tlScale, then draws.  *)
ResetViews ==
  /\ Act
  /\ tlMode # {} \/ band # FullBand
  /\ tlMode' = {} /\ band' = FullBand
  /\ UNCHANGED <<timeWindow, showCh, chanFilter, specShow, pending, modalVars>>
  /\ FetchAndDraw(tlScale)

(* setFreqFocus; a click on the time line, and the end of a drag that pans *)
(* the frequencies, fetch and draw likewise, with the band as it is.       *)
SetFreqFocus(b) ==
  /\ Act
  /\ band' = b
  /\ UNCHANGED <<tlMode, timeWindow, showCh, chanFilter, specShow, pending,
                 modalVars>>
  /\ FetchAndDraw(tlScale)

(* axZoom, panFreqBy: a draw without a fetch at once; the fetch comes when *)
(* the wheel has been still for 120 ms, or the button is released.         *)
AxZoom(b) ==
  /\ Act
  /\ band' = b
  /\ tlScale' = View(tlMode, timeWindow)
  /\ pending' = pending \cup {"wheel"}
  /\ UNCHANGED <<tlMode, timeWindow, showCh, chanFilter, specShow, spec, modalVars>>

WheelStill ==
  /\ "wheel" \in pending
  /\ pending' = pending \ {"wheel"}
  /\ spec' = Fetched(spec, tlMode, tlScale, band, showCh, specShow)
  /\ UNCHANGED <<viewVars, modalVars, acts>>

(* toggleSpectrum *)
ToggleSpectrum ==
  /\ Act
  /\ specShow' = ~specShow
  /\ UNCHANGED <<tlMode, timeWindow, band, showCh, chanFilter, pending, modalVars>>
  /\ FetchAndDraw(tlScale)

-----------------------------------------------------------------------------
(* The channels.                                                           *)

(* Mutant: the filter follows only when one channel is left. *)
FilterOfOne(show, filter) ==
  IF show = {"l"} THEN "l" ELSE IF show = {"d"} THEN "d" ELSE filter

(* syncChannelFilterSelect *)
FilterAfter(show, filter) ==
  IF show = {"l", "d"} /\ filter \in {"l", "d"} THEN ""
  ELSE IF show = {"l"} THEN "l"
  ELSE IF show = {"d"} THEN "d"
  ELSE filter

(* toggleChannel *)
ToggleChannel(c) ==
  /\ Act
  /\ showCh' = IF c \in showCh THEN showCh \ {c} ELSE showCh \cup {c}
  /\ chanFilter' = FilterAfter(showCh', chanFilter)
  /\ UNCHANGED <<tlMode, timeWindow, band, specShow, pending, modalVars>>
  /\ FetchAndDraw(tlScale)

(* applyFilters, syncFromChannelFilterSelect: "" and "b" show both *)
SelectChannel(filter) ==
  /\ Act
  /\ chanFilter' = filter
  /\ showCh' = IF filter \in {"l", "d"} THEN {filter} ELSE {"l", "d"}
  /\ UNCHANGED <<tlMode, timeWindow, band, specShow, pending, modalVars>>
  /\ DrawOnly

-----------------------------------------------------------------------------
(* The images.                                                             *)

(* onload, onerror: an image that is no longer asked for is ignored *)
IsWanted(key) == spec.requested = {key}

(* Mutant: an image that fails leaves its request open. *)
FailedOpen(s) == s

(* onerror *)
FailedSpec(s) == [s EXCEPT !.fetching = FALSE]

Answered(i) == [spec EXCEPT !.flight = RemoveAt(@, i)]

ImageLoads(i) ==
  LET key == spec.flight[i] IN
  /\ spec' = IF IsWanted(key)
             THEN [Answered(i) EXCEPT !.img = {key}, !.imgKey = {key},
                                      !.fetching = FALSE]
             ELSE Answered(i)
  /\ UNCHANGED <<viewVars, pending, modalVars, acts>>

ImageFails(i) ==
  /\ Act
  /\ spec' = IF IsWanted(spec.flight[i]) THEN FailedSpec(Answered(i))
                                         ELSE Answered(i)
  /\ UNCHANGED <<viewVars, pending, modalVars>>

AnyImageLoads == \E i \in DOMAIN spec.flight : ImageLoads(i)

-----------------------------------------------------------------------------
(* The modal of a snapshot.                                                *)

(* Mutant: the data of the report before stay until the new ones arrive. *)
DataBefore == snapshot

(* currentSnapshotData = null *)
DataOnOpen == {}

(* openSnapshotModal, up to its request *)
OpenSnapshotModal(r) ==
  /\ Act
  /\ title' = {r}
  /\ snapshot' = DataOnOpen
  /\ overlap' = (snaps # <<>>)
  /\ snaps' = Append(snaps, r)
  /\ UNCHANGED <<viewVars, spec, pending>>

(* The answer: its data are shown, whatever the title says by now. *)
SnapshotArrives(i) ==
  /\ snapshot' = {snaps[i]}
  /\ snaps' = RemoveAt(snaps, i)
  /\ UNCHANGED <<viewVars, spec, pending, title, overlap, acts>>

(* No snapshot, or no answer. *)
SnapshotFails(i) ==
  /\ Act
  /\ snaps' = RemoveAt(snaps, i)
  /\ UNCHANGED <<viewVars, spec, pending, title, snapshot, overlap>>

CloseSnapshotModal ==
  /\ Act
  /\ title # {} /\ title' = {}
  /\ snapshot' = {}
  /\ UNCHANGED <<viewVars, spec, pending, snaps, overlap>>

-----------------------------------------------------------------------------
ViewStep ==
  \/ \E z \in Zooms : Brush(z) \/ Calendar(z)
  \/ WindowFetched \/ SetTimeWin \/ SetTimeWinAll \/ Redraw \/ ResetViews
  \/ \E b \in Bands : SetFreqFocus(b) \/ AxZoom(b)
  \/ WheelStill \/ ToggleSpectrum
  \/ \E c \in {"l", "d"} : ToggleChannel(c)
  \/ \E f \in {"", "l", "d", "b"} : SelectChannel(f)

ModalStep ==
  \/ \E r \in Reports : OpenSnapshotModal(r)
  \/ \E i \in DOMAIN snaps : SnapshotArrives(i) \/ SnapshotFails(i)
  \/ CloseSnapshotModal

Next ==
  \/ ViewStep
  \/ AnyImageLoads \/ \E i \in DOMAIN spec.flight : ImageFails(i)
  \/ ModalStep

Spec == Init /\ [][Next]_vars

(* Requests are answered, the timer of the wheel runs, and refreshAll, on  *)
(* its own timer, draws.                                                   *)
FairSpec ==
  /\ Spec
  /\ WF_vars(AnyImageLoads) /\ WF_vars(WindowFetched) /\ WF_vars(WheelStill)
  /\ WF_vars(Redraw)

-----------------------------------------------------------------------------
WantedKey == SpecKey(tlMode, View(tlMode, timeWindow), band, showCh)

ImageFits == specShow /\ showCh # {} => spec.img = {WantedKey}

(* The image under the time line is that of the view in the end: whatever  *)
(* is asked for, in whatever order the images arrive or fail, the draws of *)
(* the refresh repair what the handlers left ("même axe X").               *)
SpectrumConverges == <>[]ImageFits

(* The buttons decide which events of one channel are shown, also through  *)
(* the filter: a channel that is switched on again is not held back by the *)
(* filter that followed it (chanOf, filterEvents, drawTimeline).           *)
ButtonsDecide ==
  chanFilter # "b" => \A c \in showCh : chanFilter \in {"", c}

(* The modal shows the data of the report it names, unless it was opened   *)
(* while another snapshot was under way.                                   *)
ModalShowsItsReport ==
  ~overlap /\ title # {} => snapshot \subseteq title
=============================================================================
