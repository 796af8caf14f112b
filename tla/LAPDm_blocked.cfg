SPECIFICATION FairSpec
CONSTANTS
  Sapi = 3
  N200 = 0
  SeqMod = 8
  Requests <- SmsRequests
  MaxReq = 2
  MaxSegs = 2
  MaxInFlight = 2
  MaxOpen = 0
  Handsets = {}
  Access = NoInfo
  MaxRival = 0
  Refresh = {}
  NoInfo = NoInfo
  Hasty = FALSE
  Preempted = FALSE
PROPERTIES WriterReturns

CHECK_DEADLOCK FALSE
