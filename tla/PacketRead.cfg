SPECIFICATION Spec
CONSTANTS
  Base = 2
  Flags = 1
  buflen = 6
  Packets <- MCPackets
  MaxPackets = 3
  MaxCut = 1
INVARIANT TypeOK
PROPERTIES DeliversPackets Resynchronises
