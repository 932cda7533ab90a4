SPECIFICATION FairSpec
CONSTANTS
  MaxCalls = 1
  MaxCancels = 2
  Secure = FALSE
PROPERTY OutstandingFail
CHECK_DEADLOCK FALSE
