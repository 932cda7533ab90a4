SPECIFICATION MCFairSpec
CONSTANTS
  SetNames = {"a", "b", "c", "d"} NoName = "-" Configured = {"a"} Fixed = {"c"} Blocks = {"r", "l"} Logs = {"l"}
  MaxDynamic = 2 SetPage = 1
  FileNames = {1, 2} Clients = {"c1", "c2"} Files = {1, 2, 3} FilePage = 1
  Conns = {c1, c2, c3} NoConn = none MaxConns = 2 MaxChanges = 2
  MaxTransfers = 2 Pieces = 2
  MaxLen = 5 Chunk = 2 SendChunk = 2 MaxObtained = 4
INVARIANTS TransferWhole AssociationsCounted
PROPERTIES DataSetsServed FilesServed ClosesAll
CHECK_DEADLOCK FALSE
