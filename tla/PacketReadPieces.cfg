SPECIFICATION Spec
CONSTANTS
  Base = 2
  Flags = 1
  buflen = 6
  Packets <- MCFitting
  MaxPackets = 2
  MaxCut = 1
INVARIANT OnlySent
