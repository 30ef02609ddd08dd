SPECIFICATION Spec
CONSTANTS
  Periodic <- MCPeriodic
  tcpip_tcp_timer = "tcp"
  Interval <- MCInterval
  Tick = 5
  WrappedWait = 1000
  MEMP_NUM_SYS_TIMEOUT = 4
  MaxMessages = 2
INVARIANTS TypeOK TimersAreListed
PROPERTIES IsAlarmClock AllFire
