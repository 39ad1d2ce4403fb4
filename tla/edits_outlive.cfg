SPECIFICATION Spec
CONSTANTS
  Parts = {"revision"}
  o1 = o1
  o2 = o2
  Tabs = {1, 2}
  Calls = {"a", "b"}
  TabOf <- CallTabs
  Servers <- Two
  MaxToken = 2
  Rejecting = TRUE
  UnsafeCalls = {"a", "a2", "b"}
  UnsafeTabOf <- UnsafeTabs
  MaxTokens = 3
  MaxSessions = 2
  Flows = {1, 2, 3}
  KEPT_LOGINS = 1
  Requests = {1, 2, 3}
  MaxInFlight = 1
  Burst = 1
  Delays <- OneWait
  MaxRefreshes = 1
  Named = {1, 2, 3}
  Later = {4, 5}
  CountCap = 1
  LateBudget = 1
  RetryWaits = 1
  MaxBoots = 2
  VersionItems <- Two
  MaxGens = 3
  MaxLeaves = 1
  Texts <- Two
  MaxQuestions = 2
  MaxSubmits = 2
  MaxEvents = 0
  EventPage = 2
  StreamTexts = {1}
  StreamQuestions = 1
  StreamSubmits = 1
  StreamEvents = 4
  Cards = {"f1", "f2", "f3"}
  BytesOf <- Files
  OtherUploads = "others"
  BatchOf <- Chosen
  MaxTries = 2
  Visits = {1, 2, 3}
  MaxDrafts = 1
  MaxFaults = 3
  SyncMayFail = TRUE
  Nodes = {"h", "s", "d"}
  Src <- From
  Dst <- To
  Big <- BigSides
  Dense <- DenseSides
  Veiled <- VeiledSides
  Hubs = {"s", "h"}
  Rows <- LabelRows
  Slots <- Two
  Cap = 2
  Limit = 1
  PageSize = 1
  ConnectBudget = 1
  MaxRequests = 2
  MaxAsks = 2
  Pages <- Two
  MaxConnectors = 3
  KindOf <- SameKind
  KindOrder <- OneKind
  Folders = {"f", "g"}
  Names = {"n", "m"}
  FirstOnes = {1, 2}
  FirstLayout <- LayoutAtFirst
  WantedChanges <- SomeChanges
  MaxChanges = 2
  MaxMishaps = 1
INVARIANT EditsOutliveTheTab
CHECK_DEADLOCK FALSE
