---------------------------- MODULE MCCaptureLoop ----------------------------
(* CaptureLoop with a clock that is set back or forward by two blocks.     *)
EXTENDS CaptureLoop

MCJumps == {-2, 2}
=============================================================================
