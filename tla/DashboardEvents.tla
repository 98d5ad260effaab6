--------------------------- MODULE DashboardEvents ---------------------------
(***************************************************************************)
(* The events the page of the dashboard holds, and the requests that load  *)
(* them: refreshAll replaces them by the newest Limit ones, fetchWindow    *)
(* adds those of the view of the time line (viz.py, JavaScript).           *)
(*                                                                         *)
(* Event number t is recorded at time t, and the present is the time of    *)
(* the latest one. An answer is computed when its request is sent and may  *)
(* arrive at any later time: what is recorded in between would only have   *)
(* come before the request. A value that may be null is a set of at most   *)
(* one element. The filters, the table and the drawing are left out; a     *)
(* draw matters because it sets tlScale, which fetchWindow reads.          *)
(***************************************************************************)
EXTENDS Integers, Sequences, FiniteSetsExt, SequencesExt

CONSTANTS
  Limit,     (* limit= of both requests: 20000 events                     *)
  Slack,     (* 300 s around the view                                     *)
  Horizon,   (* length of the sliding view: 24 hours                      *)
  Views,     (* the [minT, span] the user may zoom to                     *)
  Recorded,  (* events in the database when the page opens                *)
  MaxEvents, MaxActs, MaxRefreshes  (* bounds of the events, of the acts  *)
             (* of the user and failures, of the refreshes under way      *)

ASSUME DashboardAssumption ==
  /\ Limit \in Nat \ {0} /\ Slack \in Nat /\ Horizon \in Nat \ {0}
  /\ Views \subseteq [minT : Int, span : Nat \ {0}]
  /\ Recorded \in Nat /\ MaxEvents \in Nat /\ MaxActs \in Nat
  /\ MaxRefreshes \in Nat \ {0}

VARIABLES
  newest,     \* the database: events 1..newest
  eventsData, \* the events the page holds
  dataSince, dataUntil,  \* bounds of eventsData, null before the first
  winCursorT, \* where the latest answer to fetchWindow begins, or null
  tlMode,     \* the zoomed view, or null
  timeWindow, \* Horizon, or null for the view of everything
  tlScale,    \* the view that was drawn last
  refreshes,  \* answers to refreshAll under way: the newest event of each
  winRequest, \* answer to fetchWindow under way: its since and newest event
  acts,       \* acts of the user and failures so far
  span        \* history: the times that the latest answer to fetchWindow
              \* holds, unless a refresh has replaced it since

dataVars == <<eventsData, dataSince, dataUntil, winCursorT, span>>
viewVars == <<tlMode, timeWindow>>
vars == <<newest, dataVars, viewVars, tlScale, refreshes, winRequest, acts>>

Oldest(a, b) == IF a < b THEN a ELSE b
AsBound(S, f(_)) == IF S = {} THEN {} ELSE {f(S)}

-----------------------------------------------------------------------------
(* drawTimeline: the view that is drawn. *)
DrawnView(mode, window, data) ==
  IF mode # {} THEN CHOOSE v \in mode : TRUE
  ELSE IF window # {} \/ data = {}
  THEN [minT |-> newest - Horizon, span |-> Horizon]
  ELSE [minT |-> 1, span |-> Horizon + newest]

(* Mutant: the first page of the table. *)
FirstRows(n) == {t \in 1..n : t <= Limit}

(* EventStore.get_events: ORDER BY t0 DESC, or ASC from since. *)
NewestRows(n) == {t \in 1..n : t > n - Limit}
OldestRows(since, n) == {t \in 1..n : t >= since /\ t < Limit + (IF since > 1 THEN since ELSE 1)}

(* Mutant: the newest rows of the window, as before I59. *)
NewestOfWindow(since, n) == {t \in NewestRows(n) : t >= since}

(* The answer to fetchWindow. *)
WindowRows(since, n) == OldestRows(since, n)

(* fetchWindow's first condition: the view is loaded already. *)
Covered(view, since, until) ==
  /\ \/ \A s \in since : view.minT - Slack >= s
     \/ \E c \in winCursorT : view.minT - Slack >= c
  /\ \A u \in until : view.minT + view.span + Slack <= u

WindowSince(view, since) ==
  Oldest(view.minT - Slack, Min(since \cup {view.minT - Slack}))

(* fetchWindow, up to its request. Without one the caller goes on to draw. *)
FetchWindow(view, drawn, since, until) ==
  IF winRequest # {} \/ Covered(view, since, until)
  THEN /\ tlScale' = drawn
       /\ UNCHANGED winRequest
  ELSE /\ tlScale' = view
       /\ winRequest' = {[since |-> WindowSince(view, since), newest |-> newest]}

Live == DrawnView({}, {Horizon}, {})

(* fitCanvas has drawn, refreshAll is under way. *)
Init ==
  /\ newest = Recorded
  /\ eventsData = {} /\ dataSince = {} /\ dataUntil = {} /\ winCursorT = {}
  /\ tlMode = {} /\ timeWindow = {Horizon} /\ tlScale = Live
  /\ refreshes = <<Recorded>> /\ winRequest = {}
  /\ acts = 0 /\ span = {}

-----------------------------------------------------------------------------
(* The newest event when the answers under way were asked for. *)
Awaited == Range(refreshes) \cup {r.newest : r \in winRequest}

(* No answer is late by Limit events: 20000 while one request is answered. *)
NewEvent ==
  /\ newest < MaxEvents
  /\ \A n \in Awaited : newest + 1 - n < Limit
  /\ newest' = newest + 1
  /\ UNCHANGED <<dataVars, viewVars, tlScale, refreshes, winRequest, acts>>

(* refreshAll: the timer of changeAutoRefresh, or triageCluster. Nothing   *)
(* keeps it from being called while another one is under way.              *)
RefreshAll ==
  /\ Len(refreshes) < MaxRefreshes
  /\ refreshes' = Append(refreshes, newest)
  /\ UNCHANGED <<newest, dataVars, viewVars, tlScale, winRequest, acts>>

(* Its answer replaces the events and their bounds, but not winCursorT;    *)
(* then fetchWindow.                                                       *)
RefreshAnswered(i) ==
  LET data  == NewestRows(refreshes[i])
      since == AsBound(data, Min)
      until == AsBound(data, Max)
  IN
  /\ refreshes' = RemoveAt(refreshes, i)
  /\ eventsData' = data /\ dataSince' = since /\ dataUntil' = until
  /\ FetchWindow(tlScale, DrawnView(tlMode, timeWindow, data), since, until)
  /\ span' = {}
  /\ UNCHANGED <<newest, winCursorT, viewVars, acts>>

(* The request of the events has failed: fetchJson returns null. *)
RefreshFailed(i) ==
  /\ acts < MaxActs /\ acts' = acts + 1
  /\ refreshes' = RemoveAt(refreshes, i)
  /\ FetchWindow(tlScale, DrawnView(tlMode, timeWindow, eventsData), dataSince, dataUntil)
  /\ UNCHANGED <<newest, dataVars, viewVars>>

(* The answer to fetchWindow is merged by id, the bounds are only moved    *)
(* outwards (Math.min, Math.max with the previous one), the caller draws.  *)
WindowAnswered ==
  \E r \in winRequest :
    LET rows == WindowRows(r.since, r.newest)
        data == eventsData \cup rows
    IN
    /\ eventsData' = data
    /\ dataSince' = AsBound(dataSince \cup data, Min)
    /\ dataUntil' = AsBound(dataUntil \cup data, Max)
    /\ winCursorT' = {r.since}
    /\ winRequest' = {}
    /\ tlScale' = DrawnView(tlMode, timeWindow, data)
    /\ span' = {t \in r.since..newest : Cardinality(rows) < Limit \/ t <= Max(rows)}
    /\ UNCHANGED <<newest, viewVars, refreshes, acts>>

(* It fails: winCursorT stays. *)
WindowFailed ==
  /\ winRequest # {}
  /\ acts < MaxActs /\ acts' = acts + 1
  /\ winRequest' = {}
  /\ tlScale' = DrawnView(tlMode, timeWindow, eventsData)
  /\ UNCHANGED <<newest, dataVars, viewVars, refreshes>>

-----------------------------------------------------------------------------
(* The user.                                                               *)
Act == acts < MaxActs /\ acts' = acts + 1

(* A zoom, then refreshWindowed: tlScale is the new view before fetchWindow *)
(* reads it. The brush keeps timeWindow, the calendar makes it null.       *)
Zoom(view, window) ==
  /\ Act
  /\ tlMode' = {view} /\ timeWindow' = window
  /\ FetchWindow(view, view, dataSince, dataUntil)
  /\ UNCHANGED <<newest, dataVars, refreshes>>

Brush(view) == Zoom(view, timeWindow)
Calendar(view) == Zoom(view, {})

(* setTimeWin of a button with a length, resetCalToLive *)
SetTimeWin ==
  /\ Act
  /\ tlMode' = {} /\ timeWindow' = {Horizon}
  /\ tlScale' = Live
  /\ UNCHANGED <<newest, dataVars, refreshes, winRequest>>

(* setTimeWin(null): fetchWindow reads the view that is still drawn. *)
SetTimeWinAll ==
  /\ Act
  /\ tlMode' = {} /\ timeWindow' = {}
  /\ FetchWindow(tlScale, DrawnView({}, {}, eventsData), dataSince, dataUntil)
  /\ UNCHANGED <<newest, dataVars, refreshes>>

(* resetFviews: double click, Escape, badge *)
ResetViews ==
  /\ Act
  /\ tlMode # {} /\ tlMode' = {}
  /\ tlScale' = DrawnView({}, timeWindow, eventsData)
  /\ UNCHANGED <<newest, dataVars, timeWindow, refreshes, winRequest>>

(* drawTimelineFull: hovering, filters, a resized window *)
Redraw ==
  /\ tlScale' = DrawnView(tlMode, timeWindow, eventsData)
  /\ UNCHANGED <<newest, dataVars, viewVars, refreshes, winRequest, acts>>

AnyRefreshAnswered == \E i \in DOMAIN refreshes : RefreshAnswered(i)

Next ==
  \/ NewEvent \/ RefreshAll \/ AnyRefreshAnswered
  \/ \E i \in DOMAIN refreshes : RefreshFailed(i)
  \/ WindowAnswered \/ WindowFailed
  \/ \E v \in Views : Brush(v) \/ Calendar(v)
  \/ SetTimeWin \/ SetTimeWinAll \/ ResetViews \/ Redraw

Spec == Init /\ [][Next]_vars

(* The timer of the refresh runs (it may be switched off in the page, and  *)
(* is thirty seconds when it is not) and requests are answered.            *)
FairSpec == Spec /\ WF_vars(RefreshAll) /\ WF_vars(AnyRefreshAnswered)

-----------------------------------------------------------------------------
EventsOf(view) == {t \in 1..newest : t >= view.minT /\ t <= view.minT + view.span}

Loaded == {t \in 1..newest : \E u \in dataUntil : t <= u}

(* The newest Limit events are there without a hole, however refreshes and *)
(* windows overtake each other; and a zoomed view further back is whole    *)
(* when the latest window, not cut at Limit before its end, holds it and   *)
(* no refresh has come since.                                              *)
ViewIsComplete ==
  /\ {t \in Loaded : t > Max(dataUntil) - Limit} \subseteq eventsData
  /\ \A v \in tlMode :
       v.minT..(v.minT + v.span) \subseteq span =>
         EventsOf(v) \cap Loaded \subseteq eventsData

(* What is recorded is shown in the end, also when refreshes overtake each *)
(* other.                                                                  *)
FreshInTheEnd == <>[](newest \in eventsData)

(* "winCursorT reste ainsi un plancher fiable de données garanties         *)
(* chargées": a zoomed view above it is not loaded again, and so should    *)
(* hold every event up to the latest one loaded.                           *)
CursorIsFloor ==
  winRequest = {} =>
    \A c \in winCursorT, v \in tlMode :
      v.minT >= c => EventsOf(v) \cap Loaded \subseteq eventsData
=============================================================================
