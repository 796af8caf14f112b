SPECIFICATION Spec
CONSTANTS
  c1 = c1
  c2 = c2
  m1 = m1
  m2 = m2
  Calls = {c1, c2}
  Mobiles = {m1, m2}
  MobileOf <- SharedMobile
  Services <- OwnService
  Channels = {d1, d2}
  None = None
  NoEntry = NoEntry
  MaxTrans = 3
  MaxInvites = 3
  MaxReplies = 2
  Repeats = TRUE
INVARIANTS TypeOK 
CHECK_DEADLOCK FALSE
