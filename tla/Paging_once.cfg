SPECIFICATION FairSpec
CONSTANTS
  c1 = c1
  c2 = c2
  m1 = m1
  m2 = m2
  Calls = {c1, c2}
  Mobiles = {m1, m2}
  MobileOf <- OwnMobile
  Services <- OwnService
  Channels = {d1, d2}
  None = None
  NoEntry = NoEntry
  MaxTrans = 2
  MaxInvites = 2
  MaxReplies = 2
  Repeats = FALSE
INVARIANTS OneServer WaitingIsPaged
PROPERTIES ListedEnds
CHECK_DEADLOCK FALSE
