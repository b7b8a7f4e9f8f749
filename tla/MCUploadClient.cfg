SPECIFICATION ClientSpec
CONSTANTS
  MaxChunks = 2
  Lines = 0
  MaxReceives = 2
  MaxUploads = 1
  MaxCopies = 0
  MsgId = {m1, m2}
  EventId = {e1}
  SplitParks = FALSE
INVARIANTS
  ExitZeroIsTheLastWord
PROPERTIES
  LedgerSpec
  UploadEnds
