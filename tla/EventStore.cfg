SPECIFICATION FairSpec
CONSTANTS
  BatchSize = 2
  BatchTimeout = 2
  MaxRows = 4
  MaxCrashes = 1
INVARIANTS
  TypeOK
  StoredOnceInOrder
  NothingDisappears
  LossIsBounded
PROPERTIES
  RowsBecomeDurable
  LogSpec
