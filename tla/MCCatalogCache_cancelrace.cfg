SPECIFICATION Spec
CONSTANTS
  Category = {a, b}
  Writer = {w1, w2}
  Request = {q1}
  Scenes <- PromotionScenes
  MaxCommits = 3
  MaxFaults = 0
SYMMETRY Symmetry
INVARIANTS
  PromotionsInvalidate
