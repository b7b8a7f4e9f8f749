SPECIFICATION FairSpec
CONSTANTS
  Reader = {r1, r2}
  MaxVersion = 2
  MaxErrors = 2
INVARIANTS
  HolderKeepsLock
  NoHerd
  NeverOlderThanRequest
PROPERTIES
  EveryRequestEnds
CHECK_DEADLOCK FALSE
