SPECIFICATION Spec
CONSTANTS
  Delivery = {d1, d2}
  Row <- Rows
  Slug <- Slugs
  BatchSize = 2
  MaxRows = 3
  MaxDeaths = 1
SYMMETRY Symmetry
INVARIANTS
  TypeOK
  CountsMatchTables
  LastLineWins
CHECK_DEADLOCK FALSE
