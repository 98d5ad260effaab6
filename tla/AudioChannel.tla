---------------------------- MODULE AudioChannel ----------------------------
(***************************************************************************)
(* What the capture promises the engine: the blocks it hands over are      *)
(* blocks that were recorded, in the order of recording and none twice.    *)
(* Blocks may be missing. CaptureLoop is shown to implement this module.   *)
(***************************************************************************)
EXTENDS Naturals

VARIABLES
  recorded,   \* number of the latest block of the sound card, from 1
  taken       \* number of the latest block the engine has taken, or 0

channelVars == <<recorded, taken>>

ChannelInit == recorded = 0 /\ taken = 0

Record ==
  /\ recorded' = recorded + 1
  /\ UNCHANGED taken

TakeLater ==
  /\ taken' \in (taken + 1)..recorded
  /\ UNCHANGED recorded

ChannelSpec == ChannelInit /\ [][Record \/ TakeLater]_channelVars
=============================================================================
