SPECIFICATION AccountsSpec
CONSTANTS
  o1 = o1
  p1 = p1
  u1 = u1
  u2 = u2
  e1 = e1
  g1 = g1
  b1 = b1
  l1 = l1
  n1 = n1
  n2 = n2
  c1 = c1
  t1 = t1
  t2 = t2
  m1 = m1
  k1 = k1
  Accounts = {e1}
  None = None
  Owners = {o1}
  Operators = {p1}
  Machines = {}
  Askers = {k1}
  TrialAnswers = 1
  MaxBackups = 1
  Users = {u1, u2}
  Addresses = {e1}
  Identities = {g1}
  Browsers = {b1}
  Links = {l1}
  Nonces = {n1, n2}
  Conversations = {c1}
  Tabs = {t1, t2}
  Nobody = Nobody
  MaxSessions = 3
  MaxRequests = 3
  Questions = {t1, t2}
  TrialLimit = 2
  MonthlyLimit = 2
  Members = {m1}
  Chats = {k1}
  Turns = {u1, u2}
  Sharers = {t1, t2}
  Voters = {t1, t2}
  NoOne = NoOne
  MaxLive = 1
  MaxShared = 2
  Pages = {e1}
  Readers = {m1}
  Jobs = {t1, t2}
  Lookback = 1
  Nothing = Nothing
  MaxDays = 1
  MaxTexts = 2
  MaxMails = 2
  Prompts = {t1, t2}
  Past = {k1}
  Blank = Blank
  TooLong = TooLong
  MaxSends = 2
  MaxBubbles = 3
  MaxWaiting = 1
  MaxUnits = 1
  MaxResumes = 1
INVARIANTS
  AccountsTypeOK
  LinkSignsInOnce
  ReportedLinkIsTrue
  AllowanceIsBounded
  SharesStayBounded
  SharesPairUp
  MailedOnce
  ProductionIsRealAndPriced
  GateKeepsQuestionsApart
PROPERTIES
  NobodyStaysBilled
  HistoryIsNotTakenOver
SYMMETRY Interchangeable
CHECK_DEADLOCK FALSE
