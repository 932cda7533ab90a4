SPECIFICATION FairSpec
CONSTANTS
  Ids = {1, 2}
  Reuse = FALSE
  Cancels = FALSE
  Kinds <- MCPlain
  QueueCap = 1
  MaxRequests = 2
  MaxReports = 2
PROPERTIES ReportsKept Delivered
CHECK_DEADLOCK FALSE
