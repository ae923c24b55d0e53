CONSTANTS
  Readers = {r1, r2}
  Symbols = {a, b}
  Lists = {{a}, {a, b}}
  MaxAges = {1}
  StoreFloor = 1
  Threshold = 2
  Cooldown = 2
  Horizon = 2
  FailureBound = 3
  Nobody = Nobody
  priceAlert = priceAlert
  themeAlert = themeAlert
  PriceAlerts = {priceAlert}
  ThemeAlerts = {themeAlert}
  Members = {m1, m2}
  Levels = {2, 3}
  MovePct = 20
  ArmingBound = 2
  LossBound = 1
  FirstRows <- MCFirstRows
  Missing = Missing
  Deliveries = {d1, d2, d3}
  MaxAttempts = 2
  MaxFailCount = 2
  EditBound = 1
  NoRow = NoRow
  Loops = {l1, l2}
  UpdateBound = 3
  TroubleBound = 4
  NoEntry = NoEntry
  Window = 3
  Limit = 2
  LastInstant = 6
  Tokens = {t1, t2}
  Calls = {r1, r2}
  Life = 1
  LastTime = 2
  RestartBound = 1
  Links = {k1, k2}
  Resets = {q1, q2}
  Enrols = {e1, e2, e3}
  SecretBound = 3
  Submissions <- MCSubmissions
  Approvals = {x1, x2, x3}
  Operators = {o1, o2}
  NoOne = NoOne
  SaveBound = 3
  Owners = {u1, u2}
  RowIds = {i1, i2}
  RowRequests = {r1, r2}
  Unowned = Unowned
  NoRowYet = NoRowYet
  Batches = 2
  BatchSize = 2
  CodeRequests = {r1, r2, r3}
  ThemeBound = 2
  ThemeMembers = {m1, m2}
  DeskUsers = {u1, u2}
  DeskRequests = {r1, r2, r3}
  PageBound = 2
  Imports = {f1}
  CrawlBound = 2
  VersionBound = 2
  AiCalls = {r1, r2}
  AiUsers = {u1}
  TokenLimit = 1
  AnswerSizes = {1}
  DayBound = 2
  SpentBound = 3
  Unread = Unread
  Viewers = {r1, r2}
  QuoteLife = 1
  BarsLife = 2
  LastMoment = 3
  Blank = Blank
  Syncs = {r1, r2}
  Entries = {n1, n2, n3}
  Unusable = {n3}
  FeedBound = 2
  HandBound = 1
  SignalBound = 3
  PollLimit = 1
  Runners = {r1, r2}
  Tables = {"TrailingStops", "RuntimeAiResults", "BrokerOrders", "RevokedTokens", "ThemeConstituents"}
INIT MCInit
NEXT MCNext
INVARIANTS
  TypeOK
  
  
  
  CommandsOnce
  AccessGuarded
  
  
  PassedIsApproved
SYMMETRY Symmetry
CHECK_DEADLOCK FALSE
