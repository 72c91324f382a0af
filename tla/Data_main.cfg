SPECIFICATION DataSpec
CONSTANTS
  Typed = {"p1", "p2", "long"}  Overlong = {"long"}  MaxLosses = 2
  BindHosts = {"127.0.0.1", "::1", "::"}
  Loopback = {"127.0.0.1", "::1"}  Colons = {"::1", "::"}
  BindPorts = {80, 4000}  HttpDefaultPort = 80  MaxLaunches = 2  MaxWindows = 2
  Programs = {"p", "q"}  Releases = {1, 2, 3}  Prereleases = {2}  TtlMs = 2  MaxClock = 2
  ProviderKinds <- TwoKinds  MaxKeys = 1  MaxViews = 3  MaxLostCalls = 1
  Sessions <- FiveModes  Pieces <- TypedPieces  MaxPieces = 4
  Calls = {"r1", "r2"}  CatalogTables = {"t1"}  MaxDdl = 1
  c1 = c1  Saved <- OneConn  MaxReads = 1  MaxConnects <- Connects  MaxMutations = 2  MaxPanels = 2
  ErdTables = {"a", "b"}  ErdFirst = {"a"}  References <- OneRef  Spots = {1}
  RowKeys = {1, 2, 3}  FirstRows = {1, 2}  KeptRows = {2}  PageSize = 1  MaxLoads = 3  MaxOps = 1
  ta = ta  tb = tb  Targets <- TwoTargets  FirstTarget = ta  MaxBlocks = 1  MaxFires = 3
  LiveConns <- OneLiveConn  LiveBlocks <- TwoBlocks  MaxEntries = 2  MaxPublished = 3  MaxLiveRuns = 2
  JsValues = {"null", "number", "nan", "digits", "date", "far"}
  DataTypes = {"none", "numeric", "datetime"}  RowsOf <- RowCounts
INVARIANT PassphraseIsRight
INVARIANT PagesAreServed
INVARIANT ProvidersAreTrue
INVARIANT RawRunsOneStatement
INVARIANT SessionIsShared
INVARIANT TreeIsTrue
INVARIANT TablesStayPut
INVARIANT GridIsTrue
INVARIANT ReportIsTrue
INVARIANT LivePagesAreTrue
INVARIANT FrozenFileIsTrue
PROPERTY NoticesAreTrue
CHECK_DEADLOCK FALSE
