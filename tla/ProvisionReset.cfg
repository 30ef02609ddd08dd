SPECIFICATION FairSpec
CONSTANTS
  Refusals = {}
  Tearing = FALSE
  MaxOutages = 0
  MaxForget = 0
  MaxFailures = 0
  MaxResets = 1
  MaxFragments = 0
PROPERTY Reconnects
CHECK_DEADLOCK FALSE
