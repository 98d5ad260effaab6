------------------------ MODULE DashboardPanelsProofs ------------------------
(***************************************************************************)
(* Proofs about DashboardPanels: the channels and the modal, for every set *)
(* of views, bands and reports and any number of acts of the user. That    *)
(* the image converges is liveness, and stays with the model checker.      *)
(***************************************************************************)
EXTENDS DashboardPanels, Integers, TLAPS

(* Removing one element leaves a sequence that is shorter by one. *)
LEMMA RemoveAtShortens ==
  ASSUME NEW S, NEW s \in Seq(S), NEW i \in DOMAIN s
  PROVE  /\ RemoveAt(s, i) \in Seq(S)
         /\ Len(RemoveAt(s, i)) = Len(s) - 1
<1>1. i \in 1..Len(s) /\ Len(s) \in Nat
  OBVIOUS
<1>2. /\ SubSeq(s, 1, i-1) \in Seq(S)
      /\ Len(SubSeq(s, 1, i-1)) = i - 1
  BY <1>1
<1>3. /\ SubSeq(s, i+1, Len(s)) \in Seq(S)
      /\ Len(SubSeq(s, i+1, Len(s))) = Len(s) - i
  BY <1>1
<1>4. Len(SubSeq(s, 1, i-1)) + Len(SubSeq(s, i+1, Len(s))) = Len(s) - 1
  BY <1>1, <1>2, <1>3, SMTT(30)
<1>5. ASSUME NEW t \in Seq(S), NEW u \in Seq(S)
      PROVE  t \o u \in Seq(S) /\ Len(t \o u) = Len(t) + Len(u)
  OBVIOUS
<1> QED
  BY <1>2, <1>3, <1>4, <1>5 DEF RemoveAt

-----------------------------------------------------------------------------
(* The channels: every handler that sets the buttons sets the filter.      *)
ChannelInv ==
  /\ showCh \subseteq {"l", "d"}
  /\ chanFilter \in {"", "l", "d", "b"}
  /\ ButtonsDecide

(* The modal: unless it was opened while a snapshot was under way, one is  *)
(* under way at most, and belongs to the report of the title, as does what *)
(* is shown; after a close nothing does.                                   *)
ModalInv ==
  /\ snaps \in Seq(Reports)
  /\ ~overlap =>
       /\ Len(snaps) <= 1
       /\ title # {} => /\ snapshot \subseteq title
                        /\ \A i \in DOMAIN snaps : snaps[i] \in title

PanelsInv == ChannelInv /\ ModalInv

-----------------------------------------------------------------------------
LEMMA InitPanels == Init => PanelsInv
<1> SUFFICES ASSUME Init PROVE PanelsInv
  OBVIOUS
<1>1. ChannelInv
  BY DEF Init, ChannelInv, ButtonsDecide
<1>2. snaps = <<>> /\ title = {}
  BY DEF Init
<1>3. ModalInv
  BY <1>2 DEF ModalInv
<1> QED
  BY <1>1, <1>3 DEF PanelsInv

(* The filter that follows the buttons agrees with them.                   *)
LEMMA FilterAgrees ==
  ASSUME NEW show, show \subseteq {"l", "d"},
         NEW filter \in {"", "l", "d", "b"}
  PROVE  /\ FilterAfter(show, filter) \in {"", "l", "d", "b"}
         /\ FilterAfter(show, filter) # "b" =>
              \A c \in show : FilterAfter(show, filter) \in {"", c}
  BY DEF FilterAfter

(* A step leaves the buttons and the filter in agreement.                  *)
LEMMA NextChannels ==
  ASSUME ChannelInv, [Next]_vars
  PROVE  ChannelInv'
<1> USE DEF ChannelInv, ButtonsDecide
<1>1. ASSUME NEW c \in {"l", "d"}, ToggleChannel(c)
      PROVE  ChannelInv'
  <2>1. showCh' \subseteq {"l", "d"}
    BY <1>1 DEF ToggleChannel
  <2>2. chanFilter' = FilterAfter(showCh', chanFilter)
    BY <1>1 DEF ToggleChannel
  <2>3. /\ chanFilter' \in {"", "l", "d", "b"}
        /\ chanFilter' # "b" => \A ch \in showCh' : chanFilter' \in {"", ch}
    <3> HIDE DEF ChannelInv
    <3>1. chanFilter \in {"", "l", "d", "b"}
      BY DEF ChannelInv
    <3>2. /\ FilterAfter(showCh', chanFilter) \in {"", "l", "d", "b"}
          /\ FilterAfter(showCh', chanFilter) # "b" =>
               \A ch \in showCh' : FilterAfter(showCh', chanFilter) \in {"", ch}
      BY <2>1, <3>1, FilterAgrees, ZenonT(30)
    <3> QED
      BY <2>2, <3>2
  <2> QED
    BY <2>1, <2>3
<1>2. ASSUME NEW f \in {"", "l", "d", "b"}, SelectChannel(f)
      PROVE  ChannelInv'
  BY <1>2 DEF SelectChannel
<1>3. CASE UNCHANGED <<showCh, chanFilter>>
  BY <1>3
<1>4. ViewStep => \/ UNCHANGED <<showCh, chanFilter>>
                  \/ \E c \in {"l", "d"} : ToggleChannel(c)
                  \/ \E f \in {"", "l", "d", "b"} : SelectChannel(f)
  BY DEF ViewStep, Brush, Calendar, Zoom, WindowFetched, SetTimeWin,
         SetTimeWinAll, Redraw, ResetViews, SetFreqFocus, AxZoom, WheelStill,
         ToggleSpectrum, viewVars
<1>5. ModalStep => UNCHANGED <<showCh, chanFilter>>
  BY DEF ModalStep, OpenSnapshotModal, SnapshotArrives, SnapshotFails,
         CloseSnapshotModal, viewVars
<1>6. AnyImageLoads \/ (\E i \in DOMAIN spec.flight : ImageFails(i))
        => UNCHANGED <<showCh, chanFilter>>
  BY DEF AnyImageLoads, ImageLoads, ImageFails, viewVars
<1>7. UNCHANGED vars => UNCHANGED <<showCh, chanFilter>>
  BY DEF vars, viewVars
<1> QED
  BY <1>1, <1>2, <1>3, <1>4, <1>5, <1>6, <1>7 DEF Next

(* A step leaves the modal with the data of its report.                    *)
LEMMA NextModal ==
  ASSUME ModalInv, [Next]_vars
  PROVE  ModalInv'
<1> USE DEF ModalInv
<1>1. ASSUME NEW r \in Reports, OpenSnapshotModal(r)
      PROVE  ModalInv'
  <2>1. /\ title' = {r} /\ snapshot' = {}
        /\ overlap' = (snaps # <<>>)
        /\ snaps' = Append(snaps, r)
    BY <1>1 DEF OpenSnapshotModal, DataOnOpen
  <2>2. snaps' \in Seq(Reports)
    BY <2>1
  <2>3. CASE snaps = <<>>
    <3>1. snaps' = <<r>>
      BY <2>1, <2>3
    <3> QED
      BY <2>1, <2>2, <3>1
  <2>4. CASE snaps # <<>>
    BY <2>1, <2>2, <2>4
  <2> QED
    BY <2>3, <2>4
<1>2. ASSUME NEW i \in DOMAIN snaps, SnapshotArrives(i) \/ SnapshotFails(i)
      PROVE  ModalInv'
  <2>1. /\ snaps' = RemoveAt(snaps, i)
        /\ UNCHANGED <<title, overlap>>
        /\ snapshot' \in {snapshot, {snaps[i]}}
    BY <1>2 DEF SnapshotArrives, SnapshotFails
  <2>2. /\ snaps' \in Seq(Reports)
        /\ Len(snaps') = Len(snaps) - 1
    BY <2>1, RemoveAtShortens
  <2>3. ASSUME ~overlap PROVE Len(snaps') <= 0 /\ DOMAIN snaps' = {}
    BY <2>2, <2>3
  <2> QED
    BY <2>1, <2>2, <2>3
<1>3. CASE CloseSnapshotModal
  BY <1>3 DEF CloseSnapshotModal
<1>4. CASE UNCHANGED modalVars
  BY <1>4 DEF modalVars
<1>5. ViewStep => UNCHANGED modalVars
  BY DEF ViewStep, Brush, Calendar, Zoom, WindowFetched, SetTimeWin,
         SetTimeWinAll, Redraw, ResetViews, SetFreqFocus, AxZoom, WheelStill,
         ToggleSpectrum, ToggleChannel, SelectChannel, modalVars
<1>6. AnyImageLoads \/ (\E i \in DOMAIN spec.flight : ImageFails(i))
        => UNCHANGED modalVars
  BY DEF AnyImageLoads, ImageLoads, ImageFails, modalVars
<1>7. UNCHANGED vars => UNCHANGED modalVars
  BY DEF vars, modalVars
<1> QED
  BY <1>1, <1>2, <1>3, <1>4, <1>5, <1>6, <1>7 DEF Next, ModalStep

-----------------------------------------------------------------------------
(* The invariant of the channels and of the modal holds in every behaviour *)
(* of the page.                                                            *)
THEOREM PanelsInvariant == Spec => []PanelsInv
<1>1. PanelsInv /\ [Next]_vars => PanelsInv'
  BY NextChannels, NextModal DEF PanelsInv
<1> QED
  BY <1>1, InitPanels, PTL DEF Spec

(* After any sequence of buttons and filters a channel that is switched on *)
(* is not held back by the filter that followed it                         *)
(* (syncChannelFilterSelect, syncFromChannelFilterSelect).                 *)
THEOREM ChannelsAgree == Spec => []ButtonsDecide
<1>1. PanelsInv => ButtonsDecide
  BY DEF PanelsInv, ChannelInv
<1> QED
  BY <1>1, PanelsInvariant, PTL

(* The modal shows the snapshot of the report it names, unless it was      *)
(* opened while the answer to another one was under way                    *)
(* (openSnapshotModal).                                                    *)
THEOREM ModalShowsOneReport == Spec => []ModalShowsItsReport
<1>1. PanelsInv => ModalShowsItsReport
  BY DEF PanelsInv, ModalInv, ModalShowsItsReport
<1> QED
  BY <1>1, PanelsInvariant, PTL
=============================================================================
