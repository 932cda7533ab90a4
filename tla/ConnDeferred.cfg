SPECIFICATION FairSpec
CONSTANTS
  Ids = {1, 2}
  Reuse = TRUE
  Cancels = TRUE
  Kinds <- MCSlow
  QueueCap = 1
  MaxRequests = 2
  MaxReports = 0
INVARIANTS AnsweredOnce
PROPERTIES Served
CHECK_DEADLOCK FALSE
