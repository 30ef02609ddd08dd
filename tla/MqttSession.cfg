SPECIFICATION Spec
CONSTANTS
  Commands <- SomeCommands
  HeapText <- Unreadable
  ActiveAlarms = {}
  GarbageQos = {0}
  PushIds = {1}
  NumNetconn = 2
  SubTries = 2
  SndBuf = 2
  RcvBuf = 2
  Backlog = 4
  SlowConnect = TRUE
  MaxFaults = 1
  MaxPush = 1
INVARIANTS TypeOK ConnectFirstAndOnce TrafficOnlyWhenAccepted ConnackStillBuffered
