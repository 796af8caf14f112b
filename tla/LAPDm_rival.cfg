SPECIFICATION Spec
CONSTANTS
  Sapi = 0
  N200 = 0
  SeqMod = 8
  Requests <- AccessRequests
  MaxReq = 2
  MaxSegs = 1
  MaxInFlight = 2
  MaxOpen = 0
  Handsets = {h1,h2}
  Access = h1
  MaxRival = 1
  Refresh <- HandsetRefreshes
  NoInfo = NoInfo
  Hasty = FALSE
  Preempted = FALSE
INVARIANTS NoRivalAnswered

CHECK_DEADLOCK FALSE
