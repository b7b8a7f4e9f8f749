SPECIFICATION Spec
CONSTANTS
  MaxLength = 7
  Sizes = {1, 2, 3}
  MaxLine = 2
  OverRead = 2
INVARIANTS
  TypeOK
  EveryLineOnce
  OnlyWholeLines
  OnlyLongLinesFail
CHECK_DEADLOCK FALSE
