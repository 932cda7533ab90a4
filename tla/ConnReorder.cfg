SPECIFICATION Spec
CONSTANTS
  Ids = {1}
  Reuse = FALSE
  Cancels = FALSE
  Kinds <- MCOnlyPlain
  QueueCap = 2
  MaxRequests = 1
  MaxReports = 2
INVARIANTS ReportsInOrder
CHECK_DEADLOCK FALSE
