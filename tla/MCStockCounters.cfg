SPECIFICATION FairSpec
CONSTANTS
  Writer = {w1, w2}
  Reader = {r1}
  Failures <- AllFailures
  MaxWrites = 2
  MaxFaults = 2
INVARIANTS
  QuietCounterIsCurrent
  AnsweredStockIsSeen
PROPERTIES
  CounterHeals
