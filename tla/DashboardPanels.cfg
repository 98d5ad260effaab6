SPECIFICATION FairSpec
CONSTANTS
  Live = Live
  All = All
  Zooms = {day, brushed}
  Aligned = {day}
  FullBand = full
  Bands = {full, infra}
  Reports = {r1, r2}
  MaxActs = 3
INVARIANTS
  ButtonsDecide
  ModalShowsItsReport
PROPERTIES
  SpectrumConverges
