SPECIFICATION FairSpec
CONSTANTS
  i1 = i1
  i2 = i2
  o1 = o1
  p1 = p1
  m1 = m1
  a1 = a1
  a2 = a2
  Accounts = {i1, i2}
  None = None
  Owners = {o1}
  Operators = {}
  Machines = {m1}
  Askers = {a1}
  TrialAnswers = 1
  MaxBackups = 1
INVARIANTS
  DeletedStaysUnusable
PROPERTIES
  TrialIsNotRenewed
  RestoredIsDeletedAgain
