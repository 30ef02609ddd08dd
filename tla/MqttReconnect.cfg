SPECIFICATION FairSpec
CONSTANTS
  Commands <- NoCommand
  HeapText <- Unreadable
  ActiveAlarms = {"fan"}
  GarbageQos = {0}
  PushIds = {1}
  NumNetconn = 3
  SubTries = 2
  SndBuf = 2
  RcvBuf = 4
  Backlog = 1
  SlowConnect = FALSE
  MaxFaults = 2
  MaxPush = 0
PROPERTY Reconnects
