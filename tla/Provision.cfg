SPECIFICATION Spec
CONSTANTS
  Refusals = {"1", "4", "other"}
  Tearing = TRUE
  MaxOutages = 3
  MaxForget = 2
  MaxFailures = 1
  MaxResets = 1
  MaxFragments = 1
INVARIANTS TypeOK MatchedCredentials StoredNameIsQueried NoPassWithoutName
CHECK_DEADLOCK FALSE
