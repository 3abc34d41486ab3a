CONSTANTS
  Cap = 4
  MaxBody = 6
SPECIFICATION FairSpec
INVARIANT CompleteUnlessBroken
PROPERTY SmallAnswered
CHECK_DEADLOCK FALSE
