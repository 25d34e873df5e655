SPECIFICATION FairSpec
CONSTANTS
  MaxBlocks = 5
  MaxCrashes = 2
INVARIANTS
  WriterInv
PROPERTY
  HandedOverIsCommitted
CHECK_DEADLOCK FALSE
