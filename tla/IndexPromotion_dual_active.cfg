SPECIFICATION Spec
CONSTANTS
  v1 = v1
  v2 = v2
  v3 = v3
  v4 = v4
  p1 = p1
  p2 = p2
  Versions = {v1, v2, v3}
  Promoters = {p1, p2}
  None = None
  Rates = {0, 1}
  Threshold = 1
  MaxPromotions = 2
  MaxRuns = 0
SYMMETRY Symmetry
CHECK_DEADLOCK FALSE
INVARIANTS
  AtMostOneActive
