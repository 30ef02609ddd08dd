SPECIFICATION FairSpec
CONSTANTS
  Commands <- OneCommand
  HeapText <- Unreadable
  ActiveAlarms = {}
  GarbageQos = {0}
  PushIds = {1}
  NumNetconn = 3
  SubTries = 2
  SndBuf = 2
  RcvBuf = 4
  Backlog = 1
  SlowConnect = FALSE
  MaxFaults = 1
  MaxPush = 1
PROPERTY Reconnects
