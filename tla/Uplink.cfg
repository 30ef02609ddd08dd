SPECIFICATION FairSpec
CONSTANTS
  LineLen = 2
  RecLen = 4
  MaxLines = 3
  MaxLost = 1
  BoardBusy = FALSE
INVARIANTS TypeOK CompleteIsHandled BoxClosesReceiver EventCopied
PROPERTY ReceptionResumes
