SPECIFICATION ServicesSpec
CONSTANTS
  q1 = q1
  q2 = q2
  q3 = q3
  v1 = v1
  ch1 = ch1
  ch2 = ch2
  p1 = p1
  r1 = r1
  j1 = j1
  j2 = j2
  s1 = s1
  s2 = s2
  Requests = {q1, q2, q3}
  Visitors = {v1}
  Limit <- GuardsLimit
  Window <- GuardsWindow
  Challenges = {ch1, ch2}
  Expiry <- GuardsExpiry
  Margin = 1
  MaxDelay = 1
  None = None
  MaxClock = 2
  Lines <- AnswerLines
  MaxLines = 4
  Conversations = {s1, s2}
  Questions <- AnswerQuestions
  Rewrites = {Rewritten}
  Texts <- AnswerTexts
  Corpus = {"codex", "gemini_api"}
  Refusal = Refusal
  MemoryTurns = 1
  Histories <- AnswerHistories
  MaxHits = 2
  MaxQuestions = 2
  Versions = {s1, s2}
  Sources = {p1, r1}
  Ingesters = {j1, j2}
  Askers = {v1}
  Embedders = {q1, q2}
  MaxRuns = 2
  Unset = Unset
  Specs <- SourceSpecs
  Builds = {p1, r1}
  DocLines <- SourceLines
  Drafts <- SourceDrafts
  MaxDocLines = 4
  Missing = Missing
  Untitled = Untitled
  MaxResults = 2
  Served = Served
INVARIANTS
  ServicesTypeOK
  WindowIsBounded
  SolutionPaysOnce
  TextsAreRead
  TopicIsKept
  CardsAreGrounded
  SpacesMatch
SYMMETRY Interchangeable
CHECK_DEADLOCK FALSE
