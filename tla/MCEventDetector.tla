--------------------------- MODULE MCEventDetector ---------------------------
(* A small instance of EventDetector, and the report of what it emits: two *)
(* channels with four levels, two bins, a debounce of two frames and       *)
(* segments of four.                                                       *)
EXTENDS LegalReport

MCLevels == 0..3
MCBins == {1, 2}
MCCorrectifBounds == {3, 6}
=============================================================================
