SPECIFICATION SpacesSpec
CONSTANTS
  Versions = {v1}
  Sources = {s1, s2}
  Ingesters = {w1}
  Askers = {q1}
  Embedders = {e1, e2}
  MaxRuns = 2
  Unset = Unset
INVARIANT ComparesOneSpace
CHECK_DEADLOCK FALSE
