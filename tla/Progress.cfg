SPECIFICATION ProgressSpec
CONSTANTS
  c1 = c1
  c2 = c2
  c3 = c3
  p1 = p1
  p2 = p2
  a1 = a1
  s1 = s1
  s2 = s2
  h1 = h1
  h2 = h2
  d1 = d1
  x1 = x1
  w1 = w1
  w2 = w2
  q1 = q1
  Calls = {c1, c2, c3}
  Processes = {p1, p2}
  None = None
  Cap = 1
  HardLimit = 2
  MaxCost = 2
  FailClosed = TRUE
  MaxIngests = 1
  Accounts = {a1}
  Subs = {s1, s2}
  Handlers = {h1, h2}
  Nobody = Nobody
  MaxEvents = 3
  MaxFailures = 1
  Sources = {d1}
  Versions = {x1}
  Workers = {w1, w2}
  Absent = Absent
  Unusable = Unusable
  Preloaded = TRUE
  EditsMidRun = TRUE
  Reverts = TRUE
  MaxEdits = 1
  MaxRuns = 2
  Askers = {a1}
  DualActive = FALSE
  Questions = {q1}
  Probes = {h1, h2}
  Slots = 1
  Retries = 1
  MaxAsked = 2
  MaxTurns = 2
  MaxFaults = 2
INVARIANTS
  ProgressTypeOK
  SlotsAddUp
  BurstIsBounded
  SettledRowsAreCurrent
  AlertIsEarned
PROPERTIES
  WorkEnds
  RowsNeverGoBack
  ProFollowsStripe
  SourcesStayAnswerable
  AlertFollowsAccount
CHECK_DEADLOCK FALSE
