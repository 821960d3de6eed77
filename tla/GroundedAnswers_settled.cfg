SPECIFICATION AnswersSpec
CONSTANTS
  s1 = s1
  s2 = s2
  w1 = w1
  w2 = w2
  x1 = x1
  x2 = x2
  x3 = x3
  a1 = a1
  a2 = a2
  Sources = {s1, s2}
  Versions = {x1}
  Workers = {w1}
  Absent = Absent
  Unusable = Unusable
  Preloaded = TRUE
  EditsMidRun = FALSE
  Reverts = FALSE
  MaxEdits = 2
  MaxRuns = 2
  Askers = {a1}
  DualActive = FALSE
SYMMETRY Symmetry
CHECK_DEADLOCK FALSE
INVARIANTS
  SettledCacheIsCurrent
  OneGeneration
