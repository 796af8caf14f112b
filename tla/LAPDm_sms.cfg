SPECIFICATION FairSpec
CONSTANTS
  Sapi = 3
  N200 = 0
  SeqMod = 8
  Requests <- SmsRequests
  MaxReq = 2
  MaxSegs = 2
  MaxInFlight = 2
  MaxOpen = 0
  Handsets = {}
  Access = NoInfo
  MaxRival = 0
  Refresh <- HandsetRefreshes
  NoInfo = NoInfo
  Hasty = FALSE
  Preempted = TRUE
INVARIANTS TransientTimed
PROPERTIES OwnWriterReturns
CHECK_DEADLOCK FALSE
