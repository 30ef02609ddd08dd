CONSTANTS
  QueueSizes = {2, 3, 6}
  PoolSize = 4
  TCP_WND = 6
  SegLen = 2
  Segs = 5
  MaxLen = 3
SPECIFICATION Spec
INVARIANT ClosedIsFreed
CHECK_DEADLOCK FALSE
