SPECIFICATION Spec
CONSTANTS
  LineLen = 2
  RecLen = 4
  MaxLines = 3
  MaxLost = 0
  BoardBusy = FALSE
INVARIANT CountedBytesAreValid
