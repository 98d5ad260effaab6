SPECIFICATION Spec
CONSTANTS
  Prints <- MCPrints
  Compatible <- MCCompatible
  SaveMayFail = TRUE
  MaxEvents = 4
  MaxStarts = 2
  MaxLabels = 1
  MaxScripts = 1
INVARIANTS
  IdsAreFresh
  MatchingIsStable
  ExemplarsBelong
PROPERTIES
  MergeUnitesChains
  FilesAndFlagsAgree
