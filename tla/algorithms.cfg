CONSTANTS
  P <- MCPeriods
  Shapes <- MCShapes
  FeedBound = 6
  Tape <- MCTape
  TapeBound = 4
  Capital = 2000000
  PositionPct = 10
  StopPct = 15
  TargetPct = 20
  SlippagePct = 1
  Commission = 700
  Window = 1
  Leverages = {1, 12}
  NoPosition = NoPosition
  LegTrades <- MCLegs
  MaxConcurrent = 2
  PoolPct = 30
  PoolCash = 200
  Budget = 5
  TopN = 2
  Flushes = 2
  Warmup = 2
  Quarter = 2
  DbFailures = 1
  Scores <- MCScores
  Selections = {s1, s2}
  StartBound = 2
  MarketStates = {1, 2}
  LogPrices = {0, 10}
  CostIn = 1
  CostOut = 2
  BarCount = 4
  Episodes = 3
  Flat = Flat
  ClosedTrades <- MCClosedTrades
  TradeBound = 4
  Unbooked = Unbooked
INIT MCInit
NEXT MCNext
INVARIANTS
  TypeOK
  
  
  CeilingExact
  LeaderboardBest
  
  
  
CHECK_DEADLOCK FALSE
