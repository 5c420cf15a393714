SPECIFICATION FairSpec
CONSTANTS
  Scripts <- Dialogues
  InitSize = 5
  MaxAhead = 2
  MaxReports = 1
INVARIANTS TypeOK Received NoDataForgotten OwnHeaders
PROPERTIES ImplementsDialogue Answered
CHECK_DEADLOCK FALSE
