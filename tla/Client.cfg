SPECIFICATION MCSpec
CONSTANTS
  c1 = c1
  c2 = c2
  ip1 = ip1
  ip2 = ip2
  l1 = l1
  l2 = l2
  NoConn = NoConn
  NoIP = NoIP
  TrgOpss <- AllTriggers
  IPs <- MCIPs
  Conns <- MCConns2
  AddrOf <- MCAddrOfUnknown
  Buffered = FALSE
  ResvCfgIP = ip1
  MaxBuffer = 1
  SqMod = 2
  Leaves = {l1, l2}
  DataSets <- WholeSet
  BufTms = {0, 1}
  IntgPds = {1}
  ResvTmss = {0}
  Timers = {1, 2}
  MaxEmitted = 4
  MaxUpdates = 3
  MaxConfRev = 0
INVARIANTS ConfiguredStands SubscriptionWhole NothingOrphaned OwnVerdict ModelMirrored DecodesAsSent TrackedAsRun
CHECK_DEADLOCK FALSE
