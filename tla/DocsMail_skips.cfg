SPECIFICATION MailSpec
CONSTANTS
  Pages = {p1}
  Readers = {r1}
  Jobs = {j1}
  Lookback = 2
  Nothing = Nothing
  MaxDays = 2
  MaxTexts = 3
  MaxMails = 2
INVARIANT ChangesReachReaders
CHECK_DEADLOCK FALSE
