SPECIFICATION Spec
CONSTANTS
  Sapi = 0
  N200 = 0
  SeqMod = 3
  Requests <- AccessRequests
  MaxReq = 2
  MaxSegs = 2
  MaxInFlight = 2
  MaxOpen = 1
  Handsets = {h1,h2}
  Access = h1
  MaxRival = 1
  Refresh <- HandsetRefreshes
  NoInfo = NoInfo
  Hasty = FALSE
  Preempted = TRUE
INVARIANTS ThisSessionOnly CleanWhileEstablishing 

CHECK_DEADLOCK FALSE
