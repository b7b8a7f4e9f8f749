SPECIFICATION Spec
CONSTANTS
  MaxChunks = 2
  Lines = 1
  MaxReceives = 1
  MaxUploads = 2
  MaxCopies = 1
  MsgId = {m1, m2}
  EventId = {e1, e2}
  SplitParks = TRUE
SYMMETRY Symmetry
INVARIANTS
  TalliesMatchRows
  CountersMatchRows
  FailedIffChunkFailed
  NoLostChunk
  AcknowledgedIsFinal
  AccountedJobIsFinal
CHECK_DEADLOCK FALSE
PROPERTIES
  FinalIsForever
