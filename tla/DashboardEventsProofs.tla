------------------------ MODULE DashboardEventsProofs ------------------------
(***************************************************************************)
(* Proofs about DashboardEvents: the view is complete, for every limit,    *)
(* slack and set of views, any number of events, refreshes under way and   *)
(* acts of the user. That the view is fresh in the end is liveness, and    *)
(* stays with the model checker.                                           *)
(***************************************************************************)
EXTENDS DashboardEvents, FiniteSetTheorems, TLAPS

(* The numbers of events that an answer under way may be about. *)
Recent == {n \in 0..newest : newest - n < Limit}

(* A window or the events of the page begin early: at the first event, or  *)
(* no later than the newest Limit events do.                               *)
Early(t) == t <= 1 \/ t <= newest - Limit + 1

(* A window that is requested begins early, and leaves no gap after the    *)
(* events of the page.                                                     *)
RequestsInv(R, until) ==
  \A r \in R :
    /\ r.since \in Int /\ Early(r.since) /\ r.newest \in Recent
    /\ r.since <= 1 \/ \E u \in until : r.since <= u

TypeInv ==
  /\ newest \in Nat
  /\ refreshes \in Seq(Recent)
  /\ RequestsInv(winRequest, dataUntil)
  /\ tlScale.minT \in Int
  /\ tlMode \subseteq Views

(* The bounds are those of the events: s is the first and u the last.      *)
BoundedBy(data, since, until, s, u) ==
  /\ data \subseteq s..u /\ s \in data /\ u \in data
  /\ since = {s} /\ until = {u}
  /\ s \in 1..newest /\ u \in 1..newest
  /\ Early(s)

BoundsInv ==
  \/ eventsData = {} /\ dataSince = {} /\ dataUntil = {}
  \/ \E s, u \in Int : BoundedBy(eventsData, dataSince, dataUntil, s, u)

(* No hole among the newest Limit of the loaded ones. *)
NoHole == {t \in Loaded : t > Max(dataUntil) - Limit} \subseteq eventsData

SpanInv == span \subseteq Int /\ span \cap Loaded \subseteq eventsData

VInv == TypeInv /\ BoundsInv /\ NoHole /\ SpanInv

-----------------------------------------------------------------------------
LEMMA MaxIs ==
  ASSUME NEW S \in SUBSET Int, NEW u \in S, \A t \in S : t <= u
  PROVE  Max(S) = u
<1>1. Max(S) \in S /\ \A t \in S : Max(S) >= t
  BY DEF Max
<1>2. Max(S) \in Int /\ u \in Int
  BY <1>1
<1>3. Max(S) >= u /\ Max(S) <= u
  BY <1>1
<1> QED
  BY <1>2, <1>3

LEMMA MinIs ==
  ASSUME NEW S \in SUBSET Int, NEW s \in S, \A t \in S : s <= t
  PROVE  Min(S) = s
<1>1. Min(S) \in S /\ \A t \in S : Min(S) <= t
  BY DEF Min
<1>2. Min(S) \in Int /\ s \in Int
  BY <1>1
<1>3. Min(S) <= s /\ Min(S) >= s
  BY <1>1
<1> QED
  BY <1>2, <1>3

LEMMA AsBoundIs ==
  ASSUME NEW S \in SUBSET Int, NEW s \in S, NEW u \in S, S \subseteq s..u
  PROVE  AsBound(S, Min) = {s} /\ AsBound(S, Max) = {u}
<1>1. Min(S) = s /\ Max(S) = u
  BY MinIs, MaxIs
<1> QED
  BY <1>1 DEF AsBound

LEMMA SeqIsMonotonic ==
  ASSUME NEW S, NEW T, NEW s \in Seq(S), \A i \in DOMAIN s : s[i] \in T
  PROVE  s \in Seq(T)
OBVIOUS

LEMMA RemoveAtType ==
  ASSUME NEW S, NEW s \in Seq(S), NEW i \in DOMAIN s
  PROVE  RemoveAt(s, i) \in Seq(S)
<1>1. i \in 1..Len(s) /\ Len(s) \in Nat
  OBVIOUS
<1>2. SubSeq(s, 1, i-1) \in Seq(S)
  BY <1>1
<1>3. SubSeq(s, i+1, Len(s)) \in Seq(S)
  BY <1>1
<1> QED
  BY <1>2, <1>3 DEF RemoveAt

(* get_events without since: the newest Limit events are an interval.      *)
LEMMA NewestRowsFacts ==
  ASSUME NEW n \in Recent, newest \in Nat, NewestRows(n) # {}
  PROVE  \E s \in Int : /\ BoundedBy(NewestRows(n), {s}, {n}, s, n)
                        /\ \A t \in 1..n : t > n - Limit => t \in NewestRows(n)
<1>1. n \in Nat /\ n <= newest /\ newest - n < Limit /\ Limit \in Nat \ {0}
  BY DashboardAssumption DEF Recent
<1>2. n >= 1
  BY <1>1 DEF NewestRows
<1> DEFINE s == IF n > Limit THEN n - Limit + 1 ELSE 1
<1>3. s \in 1..n /\ Early(s)
  BY <1>1, <1>2 DEF Early
<1> QED
  BY <1>1, <1>2, <1>3 DEF BoundedBy, NewestRows

Low(since) == IF since > 1 THEN since ELSE 1

(* get_events from since: an interval too.                                 *)
LEMMA OldestRowsFacts ==
  ASSUME NEW since \in Int, NEW n \in Nat
  PROVE  \E high \in Int :
           /\ OldestRows(since, n) = Low(since)..high
           /\ high <= n /\ high < Limit + Low(since)
           /\ high = n \/ high = Limit + Low(since) - 1
<1>1. Limit \in Nat \ {0} /\ Low(since) \in Int /\ Low(since) >= 1
  BY DashboardAssumption DEF Low
<1> DEFINE high == IF n < Limit + Low(since) - 1 THEN n ELSE Limit + Low(since) - 1
<1>2. OldestRows(since, n) = Low(since)..high
  BY <1>1 DEF OldestRows, Low
<1> QED
  BY <1>1, <1>2

LEMMA DrawnViewType ==
  ASSUME NEW mode \in SUBSET Views, NEW window, NEW data, newest \in Nat
  PROVE  DrawnView(mode, window, data).minT \in Int
<1>1. Horizon \in Nat /\ \A v \in Views : v.minT \in Int
  BY DashboardAssumption
<1>2. CASE mode # {}
  <2>1. (CHOOSE v \in mode : TRUE) \in mode
    BY <1>2
  <2> QED
    BY <1>1, <1>2, <2>1 DEF DrawnView
<1>3. CASE mode = {}
  BY <1>1, <1>3 DEF DrawnView
<1> QED
  BY <1>2, <1>3

(* fetchWindow asks for a window that begins early, and for none before    *)
(* the page holds events.                                                  *)
LEMMA FetchFacts ==
  ASSUME NEW view, NEW drawn, NEW since, NEW until,
         FetchWindow(view, drawn, since, until),
         view.minT \in Int, drawn.minT \in Int,
         newest \in Nat, RequestsInv(winRequest, until),
         \/ since = {} /\ until = {}
         \/ \E s, u \in Int : since = {s} /\ until = {u} /\ Early(s) /\ s <= u
  PROVE  /\ RequestsInv(winRequest', until)
         /\ tlScale'.minT \in Int
<1>1. tlScale'.minT \in Int
  BY DEF FetchWindow
<1>2. CASE winRequest # {} \/ Covered(view, since, until)
  BY <1>1, <1>2 DEF FetchWindow, Covered
<1>3. CASE winRequest = {} /\ ~Covered(view, since, until)
  <2>1. since # {}
    BY <1>3 DEF Covered
  <2>2. PICK s \in Int, u \in Int : since = {s} /\ until = {u} /\ Early(s) /\ s <= u
    BY <2>1
  <2>3. view.minT - Slack \in Int
    BY DashboardAssumption
  <2>4. PICK t \in Int : t = WindowSince(view, since) /\ t <= s
    <3> DEFINE S == since \cup {view.minT - Slack}
               a == view.minT - Slack
               m == IF s < a THEN s ELSE a
    <3>1. S \in SUBSET Int /\ m \in S /\ \A x \in S : m <= x
      BY <2>2, <2>3
    <3>2. Min(S) = m
      BY <3>1, MinIs
    <3>3. Min(S) \in Int /\ Min(S) <= s
      BY <2>2, <2>3, <3>2
    <3>4. WindowSince(view, since) \in Int /\ WindowSince(view, since) <= s
      BY <2>2, <2>3, <3>3 DEF WindowSince, Oldest
    <3> QED
      BY <3>4
  <2>5. Early(t)
    BY <2>2, <2>4, DashboardAssumption DEF Early
  <2>6. winRequest' = {[since |-> t, newest |-> newest]}
    BY <1>3, <2>4 DEF FetchWindow
  <2>7. newest \in Recent
    BY DashboardAssumption DEF Recent
  <2> QED
    BY <1>1, <2>1, <2>2, <2>4, <2>5, <2>6, <2>7 DEF RequestsInv
<1> QED
  BY <1>2, <1>3

-----------------------------------------------------------------------------
(* The actions.                                                            *)

(* What the invariant says to fetchWindow of the bounds.                   *)
LEMMA KnownBounds ==
  ASSUME BoundsInv
  PROVE  \/ dataSince = {} /\ dataUntil = {}
         \/ \E s, u \in Int :
              dataSince = {s} /\ dataUntil = {u} /\ Early(s) /\ s <= u
BY DEF BoundsInv, BoundedBy

(* An action that leaves the events of the page and the database alone.    *)
LEMMA OtherKeepVInv ==
  ASSUME VInv, UNCHANGED <<newest, dataVars>>,
         refreshes' \in Seq(Recent), RequestsInv(winRequest', dataUntil),
         tlScale'.minT \in Int, tlMode' \subseteq Views
  PROVE  VInv'
<1>1. TypeInv'
  BY DEF VInv, TypeInv, RequestsInv, dataVars, Recent, Early
<1>2. BoundsInv'
  BY DEF VInv, BoundsInv, BoundedBy, Early, dataVars
<1>3. NoHole' /\ SpanInv'
  BY DEF VInv, NoHole, SpanInv, Loaded, dataVars
<1> QED
  BY <1>1, <1>2, <1>3 DEF VInv

LEMMA InitVInv == Init => VInv
<1> SUFFICES ASSUME Init PROVE VInv
  OBVIOUS
<1>1. /\ Recorded \in Nat /\ Limit \in Nat \ {0} /\ Horizon \in Nat
  BY DashboardAssumption
<1>2. Live.minT \in Int
  BY <1>1 DEF Init, Live, DrawnView
<1>3. Recorded \in Recent
  BY <1>1 DEF Init, Recent
<1>4. TypeInv
  BY <1>1, <1>2, <1>3 DEF Init, TypeInv, RequestsInv
<1>5. BoundsInv /\ NoHole /\ SpanInv
  BY DEF Init, BoundsInv, NoHole, SpanInv, Loaded
<1> QED
  BY <1>4, <1>5 DEF VInv

LEMMA NewEventStep ==
  ASSUME VInv, NewEvent
  PROVE  VInv'
<1>1. /\ newest \in Nat /\ newest' = newest + 1 /\ Limit \in Nat
      /\ \A n \in Awaited : newest + 1 - n < Limit
  BY DashboardAssumption DEF VInv, TypeInv, NewEvent
<1>2. UNCHANGED <<eventsData, dataSince, dataUntil, span, refreshes, winRequest, tlScale, tlMode>>
  BY DEF NewEvent, dataVars, viewVars
<1>3. refreshes' \in Seq(Recent')
  <2>1. refreshes \in Seq(Recent)
    BY DEF VInv, TypeInv
  <2>2. ASSUME NEW i \in DOMAIN refreshes PROVE refreshes[i] \in Recent'
    <3>1. refreshes[i] \in Recent
      BY <2>1
    <3>2. refreshes[i] \in Awaited
      BY DEF Awaited, Range
    <3> QED
      BY <1>1, <3>1, <3>2 DEF Recent
  <2>3. refreshes \in Seq(Recent')
    BY <2>1, <2>2, SeqIsMonotonic
  <2> QED
    BY <1>2, <2>3
<1>4. RequestsInv(winRequest, dataUntil)'
  <2> SUFFICES ASSUME NEW r \in winRequest
               PROVE  /\ r.since \in Int /\ Early(r.since)' /\ r.newest \in Recent'
                      /\ r.since <= 1 \/ \E u \in dataUntil : r.since <= u
    BY <1>2 DEF RequestsInv
  <2>1. /\ r.since \in Int /\ Early(r.since) /\ r.newest \in Recent
        /\ r.since <= 1 \/ \E u \in dataUntil : r.since <= u
    BY DEF VInv, TypeInv, RequestsInv
  <2>2. r.newest \in Recent'
    <3>1. r.newest \in Awaited
      BY DEF Awaited
    <3> QED
      BY <1>1, <2>1, <3>1 DEF Recent
  <2>3. Early(r.since)'
    BY <1>1, <2>1 DEF Early
  <2> QED
    BY <2>1, <2>2, <2>3
<1>5. TypeInv'
  BY <1>1, <1>2, <1>3, <1>4 DEF VInv, TypeInv
<1>6. BoundsInv' /\ Loaded' = Loaded
  <2>1. CASE eventsData = {} /\ dataSince = {} /\ dataUntil = {}
    BY <1>2, <2>1 DEF BoundsInv, Loaded
  <2>2. ASSUME NEW s \in Int, NEW u \in Int,
               BoundedBy(eventsData, dataSince, dataUntil, s, u)
        PROVE  BoundsInv' /\ Loaded' = Loaded
    <3>1. Early(s)'
      BY <1>1, <2>2 DEF BoundedBy, Early
    <3>2. BoundedBy(eventsData, dataSince, dataUntil, s, u)'
      BY <1>1, <1>2, <2>2, <3>1 DEF BoundedBy
    <3>3. Loaded' = Loaded
      BY <1>1, <1>2, <2>2 DEF BoundedBy, Loaded
    <3> QED
      BY <3>2, <3>3 DEF BoundsInv
  <2> QED
    BY <2>1, <2>2 DEF VInv, BoundsInv
<1>7. NoHole' /\ SpanInv'
  BY <1>2, <1>6 DEF VInv, NoHole, SpanInv
<1> QED
  BY <1>5, <1>6, <1>7 DEF VInv

(* Whatever refresh is answered, no window under way leaves a gap after    *)
(* it: the window begins before the newest Limit events, the answer ends   *)
(* among them.                                                             *)
LEMMA RefreshAnsweredStep ==
  ASSUME VInv, NEW i \in DOMAIN refreshes, RefreshAnswered(i)
  PROVE  VInv'
<1> DEFINE n     == refreshes[i]
           data  == NewestRows(n)
           since == AsBound(data, Min)
           until == AsBound(data, Max)
<1>1. /\ n \in Recent /\ n \in 0..newest /\ newest \in Nat /\ newest - n < Limit
      /\ Limit \in Nat \ {0}
  <2>1. refreshes \in Seq(Recent) /\ newest \in Nat
    BY DEF VInv, TypeInv
  <2>2. n \in Recent
    BY <2>1
  <2> QED
    BY <2>1, <2>2, DashboardAssumption DEF Recent
<1>2. /\ refreshes' = RemoveAt(refreshes, i)
      /\ eventsData' = data /\ dataSince' = since /\ dataUntil' = until
      /\ FetchWindow(tlScale, DrawnView(tlMode, timeWindow, data), since, until)
      /\ span' = {} /\ newest' = newest /\ tlMode' = tlMode
  BY DEF RefreshAnswered, viewVars
<1>3. refreshes' \in Seq(Recent)
  BY <1>2, RemoveAtType DEF VInv, TypeInv
<1>4. DrawnView(tlMode, timeWindow, data).minT \in Int
  BY <1>1, DrawnViewType DEF VInv, TypeInv
<1>5. tlScale.minT \in Int /\ RequestsInv(winRequest, dataUntil) /\ tlMode \subseteq Views
  BY DEF VInv, TypeInv
<1>6. SpanInv'
  BY <1>2 DEF SpanInv
<1>7. CASE data = {}
  <2>1. since = {} /\ until = {}
    BY <1>7 DEF AsBound
  <2>2. n = 0
    <3> SUFFICES ASSUME n >= 1 PROVE FALSE
      BY <1>1
    <3>1. n \in data
      BY <1>1 DEF NewestRows
    <3> QED
      BY <1>7, <3>1
  <2> HIDE DEF data, since, until
  <2>3. RequestsInv(winRequest', until) /\ tlScale'.minT \in Int
    <3>1. RequestsInv(winRequest, until)
      BY <1>1, <1>5, <2>2 DEF RequestsInv, Early
    <3> QED
      BY <1>1, <1>2, <1>4, <1>5, <2>1, <3>1, FetchFacts
  <2>4. TypeInv'
    BY <1>1, <1>2, <1>3, <1>5, <2>3 DEF TypeInv, RequestsInv, Recent, Early
  <2>5. BoundsInv'
    BY <1>2, <1>7, <2>1 DEF BoundsInv
  <2>6. NoHole'
    BY <1>2, <2>1 DEF NoHole, Loaded
  <2> QED
    BY <1>6, <2>4, <2>5, <2>6 DEF VInv
<1>8. CASE data # {}
  <2>1. PICK s \in Int : /\ BoundedBy(data, {s}, {n}, s, n)
                         /\ \A t \in 1..n : t > n - Limit => t \in data
    BY <1>1, <1>8, NewestRowsFacts
  <2>2. data \in SUBSET Int /\ s \in data /\ n \in data /\ data \subseteq s..n
    BY <1>1, <2>1 DEF BoundedBy
  <2>3. since = {s} /\ until = {n}
    BY <2>2, AsBoundIs
  <2> HIDE DEF data, since, until
  <2>4. RequestsInv(winRequest', until) /\ tlScale'.minT \in Int
    <3>1. Early(s) /\ s <= n /\ n \in Int
      BY <1>1, <2>1, <2>2 DEF BoundedBy
    <3>2. RequestsInv(winRequest, until)
      <4> SUFFICES ASSUME NEW r \in winRequest
                   PROVE  /\ r.since \in Int /\ Early(r.since) /\ r.newest \in Recent
                          /\ r.since <= 1 \/ r.since <= n
        BY <2>3 DEF RequestsInv
      <4>1. r.since \in Int /\ Early(r.since) /\ r.newest \in Recent
        BY <1>5 DEF RequestsInv
      <4> QED
        BY <1>1, <4>1 DEF Early
    <3> QED
      BY <1>1, <1>2, <1>4, <1>5, <2>3, <3>1, <3>2, FetchFacts
  <2>5. TypeInv'
    BY <1>1, <1>2, <1>3, <1>5, <2>4 DEF TypeInv, RequestsInv, Recent, Early
  <2>6. BoundsInv'
    BY <1>1, <1>2, <2>1, <2>3 DEF BoundsInv, BoundedBy, Early
  <2>7. NoHole'
    <3>1. {n} \in SUBSET Int /\ n \in {n} /\ \A t \in {n} : t <= n
      BY <1>1
    <3>2. Max({n}) = n
      BY <3>1, MaxIs
    <3> QED
      BY <1>1, <1>2, <2>1, <2>3, <3>2 DEF NoHole, Loaded
  <2> QED
    BY <1>6, <2>5, <2>6, <2>7 DEF VInv
<1> QED
  BY <1>7, <1>8

(* The answer to fetchWindow joins the events of the page without a hole:  *)
(* it begins before the newest Limit events of the page do, or they are    *)
(* there already.                                                          *)
LEMMA WindowAnsweredStep ==
  ASSUME VInv, WindowAnswered
  PROVE  VInv'
<1>1. PICK r \in winRequest :
        LET rows == WindowRows(r.since, r.newest)
            data == eventsData \cup rows IN
        /\ eventsData' = data
        /\ dataSince' = AsBound(dataSince \cup data, Min)
        /\ dataUntil' = AsBound(dataUntil \cup data, Max)
        /\ winRequest' = {}
        /\ tlScale' = DrawnView(tlMode, timeWindow, data)
        /\ span' = {t \in r.since..newest : Cardinality(rows) < Limit \/ t <= Max(rows)}
        /\ UNCHANGED <<newest, viewVars, refreshes>>
  BY DEF WindowAnswered
<1> DEFINE rows == WindowRows(r.since, r.newest)
           data == eventsData \cup rows
           low  == Low(r.since)
<1>2. /\ eventsData' = data
      /\ dataSince' = AsBound(dataSince \cup data, Min)
      /\ dataUntil' = AsBound(dataUntil \cup data, Max)
      /\ span' = {t \in r.since..newest : Cardinality(rows) < Limit \/ t <= Max(rows)}
      /\ newest' = newest
  BY <1>1
<1>3. /\ newest \in Nat /\ Limit \in Nat \ {0}
      /\ r.since \in Int /\ Early(r.since)
      /\ r.newest \in 0..newest /\ newest - r.newest < Limit
      /\ r.since <= 1 \/ \E u \in dataUntil : r.since <= u
  BY <1>1, DashboardAssumption DEF VInv, TypeInv, RequestsInv, Recent
<1>4. PICK high \in Int :
        /\ rows = low..high
        /\ high <= r.newest /\ high < Limit + low
        /\ high = r.newest \/ high = Limit + low - 1
  <2>1. r.newest \in Nat /\ r.since \in Int
    BY <1>3
  <2>2. rows = OldestRows(r.since, r.newest)
    BY DEF WindowRows
  <2> HIDE DEF rows
  <2> QED
    BY <2>1, <2>2, OldestRowsFacts
<1>5. /\ low \in Int /\ low >= 1 /\ r.since <= low
      /\ \A t \in Int : t >= r.since /\ t >= 1 => t >= low
      /\ Early(low)
      /\ low = 1 \/ \E u \in dataUntil : low <= u
      /\ high <= newest
  BY <1>3, <1>4 DEF Low, Early
<1>6. DrawnView(tlMode, timeWindow, data).minT \in Int
  BY <1>3, DrawnViewType DEF VInv, TypeInv
<1> HIDE DEF low, rows, data
<1>7. rows # {} =>
        /\ low <= high /\ Max(rows) = high /\ Cardinality(rows) = high - low + 1
  <2> SUFFICES ASSUME rows # {}
               PROVE  /\ low <= high /\ Max(rows) = high
                      /\ Cardinality(rows) = high - low + 1
    OBVIOUS
  <2>1. low <= high
    BY <1>4, <1>5
  <2>2. rows \in SUBSET Int /\ high \in rows /\ \A t \in rows : t <= high
    BY <1>4, <1>5, <2>1
  <2>3. Max(rows) = high
    BY <2>2, MaxIs
  <2> QED
    BY <1>4, <1>5, <2>1, <2>3, FS_Interval
<1>8. TypeInv'
  <2>1. winRequest' = {} /\ tlScale'.minT \in Int
    BY <1>1, <1>6 DEF data, rows
  <2>2. refreshes' \in Seq(Recent) /\ Recent' = Recent /\ tlMode' \subseteq Views
    BY <1>1 DEF VInv, TypeInv, viewVars, Recent
  <2> QED
    BY <1>2, <1>3, <2>1, <2>2 DEF TypeInv, RequestsInv
<1>9. winRequest' = {}
  BY <1>1
(* A late event of the window is one that the page holds.                  *)
<1>10. ASSUME NEW t \in span', t > high, t <= newest
       PROVE  t > newest - Limit + 1
  <2>1. t \in r.since..newest /\ (Cardinality(rows) < Limit \/ t <= Max(rows))
    BY <1>2
  <2>2. high = r.newest
    <3>1. CASE rows = {}
      BY <1>3, <1>4, <1>5, <3>1
    <3>2. CASE rows # {}
      BY <1>3, <1>4, <1>5, <1>7, <1>10, <2>1, <3>2
    <3> QED
      BY <3>1, <3>2
  <2> QED
    BY <1>3, <1>10, <2>1, <2>2
<1>11. CASE eventsData = {} /\ dataSince = {} /\ dataUntil = {}
  <2>1. low = 1
    BY <1>5, <1>11
  <2>2. data = rows /\ dataSince \cup data = rows /\ dataUntil \cup data = rows
    BY <1>11 DEF data
  <2>3. CASE rows = {}
    <3>1. dataSince' = {} /\ dataUntil' = {} /\ eventsData' = {}
      BY <1>2, <2>2, <2>3 DEF AsBound
    <3>2. BoundsInv'
      BY <1>9, <3>1 DEF BoundsInv
    <3>3. Loaded' = {}
      BY <3>1 DEF Loaded
    <3>4. NoHole'
      BY <3>3 DEF NoHole
    <3>5. SpanInv'
      BY <1>2, <1>3, <3>3 DEF SpanInv
    <3> QED
      BY <1>8, <3>1, <3>2, <3>4, <3>5 DEF VInv
  <2>4. CASE rows # {}
    <3>1. low = 1 /\ low <= high
      BY <1>7, <2>1, <2>4
    <3>2. rows \in SUBSET Int /\ low \in rows /\ high \in rows /\ rows \subseteq low..high
      BY <1>4, <1>5, <3>1
    <3>3. dataSince' = {low} /\ dataUntil' = {high} /\ eventsData' = rows
      BY <1>2, <2>2, <3>2, AsBoundIs
    <3>4. low \in 1..newest /\ high \in 1..newest /\ Early(low)
      BY <1>3, <1>5, <3>1
    <3>5. BoundedBy(eventsData, dataSince, dataUntil, low, high)'
      BY <1>2, <3>2, <3>3, <3>4 DEF BoundedBy, Early
    <3>6. BoundsInv'
      BY <1>5, <3>5 DEF BoundsInv
    <3>7. Loaded' = {t \in 1..newest : t <= high}
      BY <1>2, <3>3 DEF Loaded
    <3>8. Loaded' \subseteq rows
      BY <1>3, <1>4, <3>1, <3>7
    <3>9. NoHole'
      BY <3>3, <3>8 DEF NoHole
    <3>10. SpanInv'
      BY <1>2, <1>3, <3>3, <3>8 DEF SpanInv
    <3> QED
      BY <1>8, <3>3, <3>6, <3>9, <3>10 DEF VInv
  <2> QED
    BY <2>3, <2>4
<1>12. ASSUME NEW s \in Int, NEW u \in Int, BoundedBy(eventsData, dataSince, dataUntil, s, u)
       PROVE  VInv'
  <2> DEFINE first == IF low < s /\ low <= high THEN low ELSE s
             last  == IF high > u THEN high ELSE u
  <2>1. /\ eventsData \subseteq s..u /\ s \in eventsData /\ u \in eventsData
        /\ dataSince = {s} /\ dataUntil = {u}
        /\ s \in 1..newest /\ u \in 1..newest /\ Early(s)
        /\ low = 1 \/ low <= u
    BY <1>5, <1>12 DEF BoundedBy
  <2>2. /\ data \in SUBSET Int /\ first \in data /\ last \in data
        /\ data \subseteq first..last
        /\ first \in 1..newest /\ last \in 1..newest
        /\ Early(first)
    <3>1. data = eventsData \cup (low..high)
      BY <1>4 DEF data
    <3>2. first \in 1..newest /\ last \in 1..newest /\ Early(first)
      BY <1>3, <1>5, <2>1 DEF Early
    <3>3. last \in data
      BY <1>3, <1>5, <2>1, <3>1
    <3>4. first \in data
      BY <1>5, <2>1, <3>1
    <3>5. data \subseteq first..last
      BY <1>3, <1>5, <2>1, <3>1
    <3> QED
      BY <1>3, <3>2, <3>3, <3>4, <3>5
  <2>3. dataSince \cup data = data /\ dataUntil \cup data = data
    BY <2>1 DEF data
  <2>4. dataSince' = {first} /\ dataUntil' = {last}
    BY <1>2, <2>2, <2>3, AsBoundIs
  <2>5. /\ \A t \in 1..newest : t > u - Limit /\ t <= u => t \in eventsData
    <3>1. {u} \in SUBSET Int /\ \A t \in {u} : t <= u
      BY <2>1
    <3>2. Max(dataUntil) = u
      BY <2>1, <3>1, MaxIs
    <3> QED
      BY <2>1, <3>2 DEF VInv, NoHole, Loaded
  <2>6. Loaded' = {t \in 1..newest : t <= last}
    BY <1>2, <2>4 DEF Loaded
  <2>7. Max(dataUntil') = last
    <3>1. {last} \in SUBSET Int /\ \A t \in {last} : t <= last
      BY <2>2
    <3> QED
      BY <2>4, <3>1, MaxIs
  <2> HIDE DEF first
  <2>8. BoundsInv'
    BY <1>2, <2>2, <2>4 DEF BoundsInv, BoundedBy, Early
  <2>9. NoHole'
    <3> SUFFICES ASSUME NEW t \in 1..newest, t <= last, t > last - Limit
                 PROVE  t \in data
      BY <1>2, <2>6, <2>7 DEF NoHole
    <3>1. CASE high > u /\ t >= low
      BY <1>3, <1>4, <1>5, <3>1 DEF data
    <3>2. CASE high > u /\ t < low
      <4>1. t <= u /\ t > u - Limit
        BY <1>3, <1>5, <2>1, <3>2
      <4> QED
        BY <2>5, <4>1 DEF data
    <3>3. CASE ~(high > u)
      BY <2>5, <3>3 DEF data
    <3> QED
      BY <1>3, <1>5, <3>1, <3>2, <3>3
  <2>10. SpanInv'
    <3>1. span' \subseteq Int
      BY <1>2, <1>3
    <3>2. ASSUME NEW t \in span', t \in Loaded'
          PROVE  t \in data
      <4>1. t \in 1..newest /\ t <= last /\ t >= r.since
        BY <1>2, <1>3, <2>6, <3>2
      <4>2. t >= low
        BY <1>5, <4>1
      <4>3. CASE t <= high
        BY <1>4, <1>5, <4>1, <4>2, <4>3 DEF data
      <4>4. CASE t > high
        <5>1. t > newest - Limit + 1
          BY <1>10, <4>1, <4>4
        <5>2. t <= u /\ t > u - Limit
          BY <1>3, <2>1, <4>1, <4>4, <5>1
        <5> QED
          BY <2>5, <4>1, <5>2 DEF data
      <4> QED
        BY <1>5, <4>1, <4>3, <4>4
    <3> QED
      BY <1>2, <3>1, <3>2 DEF SpanInv
  <2> QED
    BY <1>8, <1>9, <2>4, <2>8, <2>9, <2>10 DEF VInv
<1> QED
  BY <1>11, <1>12 DEF VInv, BoundsInv

LEMMA NextVInv ==
  ASSUME VInv, [Next]_vars
  PROVE  VInv'
<1>1. /\ newest \in Nat /\ RequestsInv(winRequest, dataUntil)
      /\ tlScale.minT \in Int /\ refreshes \in Seq(Recent)
      /\ tlMode \subseteq Views
  BY DEF VInv, TypeInv
<1>2. \A mode \in SUBSET Views : \A window, data : DrawnView(mode, window, data).minT \in Int
  BY <1>1, DrawnViewType
<1>3. Live.minT \in Int
  BY <1>2 DEF Live
<1>4. \/ dataSince = {} /\ dataUntil = {}
      \/ \E s, u \in Int : dataSince = {s} /\ dataUntil = {u} /\ Early(s) /\ s <= u
  BY KnownBounds DEF VInv
<1>5. ASSUME NEW i \in DOMAIN refreshes, RefreshFailed(i)
      PROVE  VInv'
  <2>1. DrawnView(tlMode, timeWindow, eventsData).minT \in Int
    BY <1>1, <1>2
  <2>2. /\ FetchWindow(tlScale, DrawnView(tlMode, timeWindow, eventsData), dataSince, dataUntil)
        /\ UNCHANGED <<newest, dataVars, viewVars>>
        /\ refreshes' = RemoveAt(refreshes, i)
    BY <1>5 DEF RefreshFailed
  <2>3. RequestsInv(winRequest', dataUntil) /\ tlScale'.minT \in Int
    BY <1>1, <1>4, <2>1, <2>2, FetchFacts
  <2>4. refreshes' \in Seq(Recent)
    BY <1>1, <2>2, RemoveAtType
  <2> QED
    BY <1>1, <2>2, <2>3, <2>4, OtherKeepVInv DEF viewVars
<1>6. ASSUME NEW view \in Views, NEW window, Zoom(view, window)
      PROVE  VInv'
  <2>1. view.minT \in Int
    BY DashboardAssumption
  <2>2. /\ FetchWindow(view, view, dataSince, dataUntil)
        /\ UNCHANGED <<newest, dataVars, refreshes>> /\ tlMode' = {view}
    BY <1>6 DEF Zoom
  <2>3. RequestsInv(winRequest', dataUntil) /\ tlScale'.minT \in Int
    BY <1>1, <1>4, <2>1, <2>2, FetchFacts
  <2> QED
    BY <1>1, <2>2, <2>3, OtherKeepVInv
<1>7. CASE SetTimeWinAll
  <2>1. DrawnView({}, {}, eventsData).minT \in Int
    BY <1>2
  <2>2. /\ FetchWindow(tlScale, DrawnView({}, {}, eventsData), dataSince, dataUntil)
        /\ UNCHANGED <<newest, dataVars, refreshes>> /\ tlMode' = {}
    BY <1>7 DEF SetTimeWinAll
  <2>3. RequestsInv(winRequest', dataUntil) /\ tlScale'.minT \in Int
    BY <1>1, <1>4, <2>1, <2>2, FetchFacts
  <2> QED
    BY <1>1, <2>2, <2>3, OtherKeepVInv
<1>8. CASE RefreshAll
  <2>1. newest \in Recent
    BY <1>1, DashboardAssumption DEF Recent
  <2>2. refreshes' \in Seq(Recent)
    BY <1>1, <1>8, <2>1 DEF RefreshAll
  <2> QED
    BY <1>1, <1>8, <2>2, OtherKeepVInv DEF RefreshAll, viewVars
<1>9. CASE WindowFailed
  <2>1. RequestsInv(winRequest', dataUntil)
    BY <1>9 DEF WindowFailed, RequestsInv
  <2> QED
    BY <1>1, <1>2, <1>9, <2>1, OtherKeepVInv DEF WindowFailed, viewVars
<1>10. CASE SetTimeWin
  BY <1>1, <1>3, <1>10, OtherKeepVInv DEF SetTimeWin
<1>11. CASE ResetViews
  BY <1>1, <1>2, <1>11, OtherKeepVInv DEF ResetViews
<1>12. CASE Redraw
  BY <1>1, <1>2, <1>12, OtherKeepVInv DEF Redraw, viewVars
<1>13. CASE UNCHANGED vars
  BY <1>1, <1>13, OtherKeepVInv DEF vars, viewVars
<1>14. CASE NewEvent
  BY <1>14, NewEventStep
<1>15. CASE AnyRefreshAnswered
  BY <1>15, RefreshAnsweredStep DEF AnyRefreshAnswered
<1>16. CASE WindowAnswered
  BY <1>16, WindowAnsweredStep
<1> QED
  BY <1>5, <1>6, <1>7, <1>8, <1>9, <1>10, <1>11, <1>12, <1>13, <1>14, <1>15, <1>16
  DEF Next, Brush, Calendar

(* The invariant that makes the view complete: where the events of the     *)
(* page begin and end, that a request for a window begins no later than    *)
(* they may, that the newest Limit are there, and that what the latest     *)
(* window promises is (refreshAll, fetchWindow).                           *)
THEOREM ViewInvariant == Spec => []VInv
<1>1. VInv /\ [Next]_vars => VInv'
  BY NextVInv
<1> QED
  BY <1>1, InitVInv, PTL DEF Spec

(* However refreshes and windows overtake each other, the newest Limit     *)
(* loaded events are shown without a hole; and a zoomed view is whole as   *)
(* long as the latest window holds it, was not cut, and no refresh has     *)
(* come since. Of other views, even above winCursorT, nothing is claimed:  *)
(* the run dashboard_cursor shows that they may have holes.                *)
THEOREM ViewStaysComplete == Spec => []ViewIsComplete
<1>1. VInv => ViewIsComplete
  <2> SUFFICES ASSUME VInv PROVE ViewIsComplete
    OBVIOUS
  <2>1. {t \in Loaded : t > Max(dataUntil) - Limit} \subseteq eventsData
    BY DEF VInv, NoHole
  <2>2. ASSUME NEW v \in tlMode, v.minT..(v.minT + v.span) \subseteq span
        PROVE  EventsOf(v) \cap Loaded \subseteq eventsData
    <3>1. v.minT \in Int /\ v.span \in Int
      BY DashboardAssumption DEF VInv, TypeInv
    <3>2. EventsOf(v) \subseteq v.minT..(v.minT + v.span)
      BY <3>1 DEF EventsOf
    <3> QED
      BY <2>2, <3>2 DEF VInv, SpanInv
  <2> QED
    BY <2>1, <2>2 DEF ViewIsComplete
<1> QED
  BY <1>1, ViewInvariant, PTL
=============================================================================
