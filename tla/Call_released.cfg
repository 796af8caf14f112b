SPECIFICATION Spec
CONSTANTS
  MaxFifo = 2
  MaxUp = 2
  MaxKeys = 0
INVARIANTS ReleasedWhenRemoved
CHECK_DEADLOCK FALSE
