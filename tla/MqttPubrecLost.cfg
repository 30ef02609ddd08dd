SPECIFICATION Spec
CONSTANTS
  Commands <- OneCommand
  HeapText <- Unreadable
  ActiveAlarms = {}
  GarbageQos = {0}
  PushIds = {1}
  NumNetconn = 2
  SubTries = 2
  SndBuf = 2
  RcvBuf = 4
  Backlog = 1
  SlowConnect = FALSE
  MaxFaults = 0
  MaxPush = 1
INVARIANT PubrecNotForgotten
