SPECIFICATION GpsSpec
CONSTANTS
  USART2_REC_LEN = 6
  GPS_Buffer_Length = 6
  MaxLost = 0
INVARIANTS OnlyFrames
