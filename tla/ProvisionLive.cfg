SPECIFICATION FairSpec
CONSTANTS
  Refusals = {"1", "4"}
  Tearing = FALSE
  MaxOutages = 2
  MaxForget = 0
  MaxFailures = 0
  MaxResets = 0
  MaxFragments = 2
PROPERTY StoredIsProvisioned
CHECK_DEADLOCK FALSE
