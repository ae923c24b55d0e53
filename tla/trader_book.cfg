CONSTANTS
  Assets = {a1}
  LastBar = 2
  MaxOpen = 1
  DailyLossLimit = 2
  MaxLosses = 2
  LogBound = 5
  CountBound = 2
  MisfortuneBound = 1
  Orders <- MCOrders
  Wanted <- MCWanted
  Accounts <- MCAccounts
  Quotes <- MCQuotes
  Policy <- MCPolicy
  Minute = 2
  Delay = 1
  LastTick = 3
  Pairs = {"x", "y"}
  Profits <- MCProfits
  Gates <- MCGates
  Sizings <- MCSizings
  MaxPositions = 1
  Price = 10
  StopDistance = 1
  LastMinute = 2
  ExitBound = 3
  UncheckedBound = 1
  AbLoops = {l1, l2}
  AbTicks = {k1, k2, k3}
  AbRequests = {q1, q2, q3}
  NoLoop = NoLoop
INIT MCInit
NEXT MCNext
INVARIANTS
  TypeOK
  OneBuyPerSignal
  
  RiskHeld
  
CHECK_DEADLOCK FALSE
