SPECIFICATION Spec
CONSTANTS
  Commands <- NoCommand
  HeapText <- Unreadable
  ActiveAlarms = {}
  GarbageQos = {0}
  PushIds = {1}
  NumNetconn = 3
  SubTries = 2
  SndBuf = 2
  RcvBuf = 4
  Backlog = 1
  SlowConnect = TRUE
  MaxFaults = 0
  MaxPush = 0
INVARIANT SubscribeNotDisplaced
