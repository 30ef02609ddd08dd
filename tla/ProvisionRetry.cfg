SPECIFICATION FairSpec
CONSTANTS
  Refusals = {}
  Tearing = FALSE
  MaxOutages = 0
  MaxForget = 0
  MaxFailures = 1
  MaxResets = 0
  MaxFragments = 0
PROPERTY ConnectsOrSuspends
CHECK_DEADLOCK FALSE
