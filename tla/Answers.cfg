SPECIFICATION Spec
CONSTANTS
  RcFacts = {1, 2, 3}
  RcWorlds <- Worlds
  RcCalls = {c1}
  RcPool = 2
  RcBatch = 1
  RcLimit = 2
  RcTtl = 1
  RcMaxClock = 1
  RcMaxChanges = 1
  StCallers = {c1, c2}
  StKeys = {k1, k2}
  StTexts = {"x", "y"}
  StTimes = {1, 2}
  StMaxCalls = 3
  MmFacts = {1, 2}
  MmRefreshers = {r1, r2}
  MmMaxFacts = 1
  MmMaxClock = 2
  MmMaxAnswers = 2
  MmMaxChanges = 1
  GrReaders = {owner, agent}
  GrOwners = {owner, agent}
  GrInPerson = {owner}
  GrReviewers = {owner}
  GrExporters = {agent}
  GrGuardians = {owner}
  GrIds = {1, 2, 3}
  GrCopies <- Copies
  GrLinks <- Row
  GrTries = 2
  GrMaxChanges = 2
  GrMaxReads = 1
INVARIANTS
  TypeOK
  SearchesMissNothing
  ClosedByNewer
  OneStateAtLast
  FreshIsFresh
  ReadsAreAsJudged
CHECK_DEADLOCK FALSE
