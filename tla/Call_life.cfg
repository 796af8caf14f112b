SPECIFICATION FairSpec
CONSTANTS
  MaxFifo = 2
  MaxUp = 2
  MaxKeys = 1
INVARIANTS TypeOK RemovedIsFinished NeverAborts WaitingIsTimed
PROPERTIES PromiseKept  SwitchEnds
CHECK_DEADLOCK FALSE
