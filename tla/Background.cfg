SPECIFICATION AllSpec
CONSTANTS
  N = 3
  Graphs <- EveryGraph
  LogProcs = {p1, p2}
  LogFiles = {f1}
  LogKeys = {k1, k2}
  LogMaxEvents = 3
  LogMaxStarts = 3
  EmbCallers = {c1, c2}
  EmbBatches = 2
  SvSlots = {1, 2, 3}
  SvConnection <- Slots
  SvTexts = {"short", "long"}
  SvSize <- Sizes
  SvBudget = 2
  SvMaxShown = 1
  SvMaxChanges = 2
  OiCallers = {c1, c2}
  OiOptions <- Options
  OiTokens <- Tokens
  OiDocuments <- Documents
  OiMaxChanges = 1
INVARIANTS
  TypesOK
  AnswerIsRight
  LogTellsAll
  VerdictsAreDue
PROPERTIES
  EverythingEnds
  StaysOff
  RulesReachEveryone
CHECK_DEADLOCK FALSE
