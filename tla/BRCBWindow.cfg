SPECIFICATION MCFairSpec
CONSTANTS
  Parts = {"ReportControl"}
  c1 = c1
  c2 = c2
  ip1 = ip1
  ip2 = ip2
  l1 = l1
  l2 = l2
  lcb1 = lcb1
  lcb2 = lcb2
  v1 = v1
  v2 = v2
  NoConn = NoConn
  NoIP = NoIP
  TrgOpss <- AllTriggers
  IPs <- MCIPs
  Conns <- MCConns1
  AddrOf <- MCAddrOf1
  Buffered = TRUE
  ResvCfgIP = NoIP
  MaxBuffer = 2
  SqMod = 2
  Leaves = {l1, l2}
  DataSets <- WholeSet
  BufTms = {1}
  IntgPds = {0}
  ResvTmss = {0}
  Timers = {1, 2}
  MaxEmitted = 4
  MaxUpdates = 3
  MaxConfRev = 0
INVARIANT ReportsCurrent
PROPERTIES WindowCloses NothingOverwritten
