SPECIFICATION Spec
CONSTANTS
  Sapi = 0
  N200 = 0
  SeqMod = 3
  Requests <- LinkRequests
  MaxReq = 2
  MaxSegs = 2
  MaxInFlight = 2
  MaxOpen = 0
  Handsets = {}
  Access = NoInfo
  MaxRival = 0
  Refresh <- HandsetRefreshes
  NoInfo = NoInfo
  Hasty = TRUE
  Preempted = FALSE
INVARIANTS TypeOK WholeInOrder WindowOfOne PendingIsTimed TimerRepeatsPending LinkStateReported
PROPERTIES AckNotTakenBack
CHECK_DEADLOCK FALSE
