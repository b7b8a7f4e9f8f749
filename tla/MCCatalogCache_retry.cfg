SPECIFICATION Spec
CONSTANTS
  Category = {a, b}
  Writer = {w1}
  Request = {q1}
  Scenes <- IngestScenes
  MaxCommits = 2
  MaxFaults = 1
SYMMETRY Symmetry
INVARIANTS
  RepeatedBatchInvalidates
