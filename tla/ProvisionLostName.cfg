SPECIFICATION Spec
CONSTANTS
  Refusals = {}
  Tearing = FALSE
  MaxOutages = 1
  MaxForget = 0
  MaxFailures = 0
  MaxResets = 0
  MaxFragments = 0
INVARIANT RegisteredIsStored
CHECK_DEADLOCK FALSE
