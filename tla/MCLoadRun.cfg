SPECIFICATION FairSpec
CONSTANTS
  Scenarios <- AllScenarios
  Models <- AllModels
  Rate = 2
  MaxInflight = 2
  Concurrency = 2
  Duration <- Durations
  Late = 1
  MaxRequests = 4
INVARIANTS
  TypeOK
  NoneLeftBehind
  InflightBounded
  ExitZeroMeansFullRun
PROPERTIES
  EveryDueRequestCounts
  InterruptedRunEnds
CHECK_DEADLOCK FALSE
