SPECIFICATION FairSpec
CONSTANTS
  Refusals = {}
  Tearing = TRUE
  MaxOutages = 1
  MaxForget = 0
  MaxFailures = 0
  MaxResets = 0
  MaxFragments = 0
PROPERTY StoredIsProvisioned
CHECK_DEADLOCK FALSE
