CONSTANTS
  Cap = 4
  MaxBody = 6
SPECIFICATION FairSpec
PROPERTY Answered
CHECK_DEADLOCK FALSE
