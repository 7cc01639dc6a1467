SPECIFICATION Spec
CONSTANTS
  TabProcs = {p1, p2}
  TabMaxEvents = 3
  TabMaxHarm = 1
  TabMaxReads = 1
  OpenProcs = {p1, p2}
  OpenProjects = {"a b", "a/b"}
  OpenSlug <- OneSlug
  OpenMaxTries = 3
  PgCallers = {p1, p2}
  PgIds = {"a", "b", "c"}
  PgLinkIds = {"e"}
  PgGraphs <- Tenants
  PgMaxCalls = 2
  PgMaxCuts = 1
  SrchIds = {1, 2, 3}
  SrchCases <- Cases
  SrchMultiplier = 1
  SrchPoolMin = 1
  OaApps = {a1, a2}
  OaPendingTtl = 2
  OaCodeTtl = 1
  OaAccessTtl = 1
  OaRefreshTtl = 3
  OaLock = 2
  OaLockAppAfter = 2
  OaLockAllAfter = 3
  OaMaxClock = 4
  OaMaxSignIns = 2
  OaMaxPairs = 2
  OaMaxLosses = 1
  TmActors = {ann, bob}
  TmTeams = {blue}
  TmTeamsOf <- Teams
  TmAdmins = {bob}
  TmErasers = {ann}
  TmSettings <- Settings
  TmMaxFacts = 3
  TmMaxCalls = 4
  Org = org
  Nobody = nobody
  LgCallers = {c1, c2}
  LgNamespaces <- Namespaces
  LgTag <- Tags
  LgKeys = {"k"}
  LgOlder <- Older
  LgMaxOlder = 1
  LgMaxCalls = 2
  LgMaxFailures = 1
  LgMaxElsewhere = 1
  LgMaxClock = 2
  RlLast = 3
  RlMaxCommits = 5
  RlTries = 2
  RlMaxPids = 2
  PiStores = {"s", "t"}
  PiIds = {1, 2}
  PiLinks = {"e", "v"}
  PiArtifacts <- Artifacts
  PiHeld <- Held
  PiMaxFailures = 1
  PiMaxOthers = 1
  PiMaxRuns = 2
INVARIANTS
  TypeOK
  TableTellsTheTruth
  OpensSafely
  PagesAreTheList
  SignInHolds
  SharedOnceWithConsent
  PutsAreFound
  ReleasesAreGated
  ImportsAreWhole
PROPERTIES
  PartStandsForWhole
CHECK_DEADLOCK FALSE
