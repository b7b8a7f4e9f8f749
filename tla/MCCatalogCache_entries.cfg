SPECIFICATION Spec
CONSTANTS
  Category = {a, b}
  Writer = {w1, w2}
  Request = {q1}
  Scenes <- CatalogScenes
  MaxCommits = 2
  MaxFaults = 1
SYMMETRY Symmetry
INVARIANTS
  TypeOK
  AcceptedIsCurrent
  AnsweredWritesAreSeen
