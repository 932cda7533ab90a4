SPECIFICATION MCFairSpec
CONSTANTS
  c1 = c1
  c2 = c2
  ip1 = ip1
  ip2 = ip2
  l1 = l1
  l2 = l2
  NoConn = NoConn
  NoIP = NoIP
  TrgOpss <- AllTriggers
  IPs <- MCIPs
  Conns <- MCConns2
  AddrOf <- MCAddrOf2
  Buffered = TRUE
  ResvCfgIP = NoIP
  MaxBuffer = 1
  SqMod = 2
  Leaves = {l1}
  DataSets <- OneSet
  BufTms = {0}
  IntgPds = {0, 1}
  ResvTmss = {0, 1}
  Timers = {1, 2}
  MaxEmitted = 3
  MaxUpdates = 1
  MaxConfRev = 0
  NoNum = NoNum
  Nums = {1, 2}
  CtlModels <- AllModels
  OperTimeout = TRUE
  MaxOps = 2
  MaxCalls = 1
  MaxCancels = 1
  Secure = TRUE
INVARIANTS SubscriberHolds
PROPERTIES NoTakeover NoStaleTimer ImplementsSBO EndsOnce WaitsEnd
CHECK_DEADLOCK FALSE
