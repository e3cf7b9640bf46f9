\* Every component on a small instance of its own.
SPECIFICATION Spec
CONSTANTS
  None = None
  Daemons = {d0, d1, d2}
  Leftover = d0
  MayCrash = {d1}
  StaleAfter = 0
  LastInstant = 1
  MaxTime = 1
  Agents = {a}
  Others = {o}
  Models = {"large", "small"}
  Provider <- MCProvider
  Configs <- MCConfigs
  Failures = {"transient", "provider"}
  MaxEdits = 1
  MaxPrompts = 2
  MaxShared = 1
  Transient = 1
  RateLimit = 1
  Quota = 2
  Window = 1
  Retention = 1
  Issues = {1, 2}
  Start = {1}
  PageSize = 1
  Refreshes = {1, 2}
  Reads = {1, 2}
  MaxHead = 2
  MaxPage = 2
  MaxActs = 1
  MaxFaults = 1
  FeedStart = 1
  FeedPageSize = 1
  Walks = {1, 2}
  MaxLog = 3
  MaxFeedPage = 3
  MaxMoves = 1
  MaxFailed = 1
  Root = root
  Keys = {k1, k2}
  MaxHistory = 5
  Initializers = {i1, i2}
  Clients = {c1, c2}
  MaxAttempts = 2
  MaxCalls = 2
  MaxOps = 2
  MaxRestores = 1
  Grace = 1
  Quiet = 2
  MaxScan = 1
  MaxUnread = 2
  MaxRows = 3
  Identifiers = {x1, x2}
  Origin = x1
  Callers = {p1, p2}
  NoRecord = NoRecord
  MaxCommands = 4
  MaxCrashes = 1
  Persisted <- MCPersisted
  Idents = {1, 2, 3}
  LastTime = 2
  MaxAppends = 2
  MaxPid = 3
  Runs = {"a", "b"}
  Watchers = {w}
  NoProcess = NoProcess
  MaxStarts = 4
  Tabs = {t1, t2}
  OldRoot = old
  Foreign = foreign
  NoRoot = NoRoot
  Slots = {s1, s2}
  MaxAsked = 2
  MaxGeneration = 2
INVARIANTS OneDaemon HostReadsTruly FeedPageIsOneSlice ReplayIsTheRule ConversationKept  SignalsReachTheirOwn KeysAreOfOneBoard
PROPERTIES NoBarredLaunch FailoverEnds ThreadNeverBack  OneTrustRoot MigratedWhole RollbackRefused  NeverUnpublished
CHECK_DEADLOCK FALSE
