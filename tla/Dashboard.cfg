SPECIFICATION GraphFairSpec
CONSTANTS
  a = a
  b = b
  Services = {a, b}
  Lists <- SomeLists
  Functions = {f}
  Ranges = {hour, day}
  NoName = none
  MaxLoads = 2
  MaxInputs = 2
  Places = {0, 1}
  MaxDrags = 1
INVARIANTS TypeOK SpinnerMeansLoad Apart
PROPERTIES LoadsAreForSelection DragsSurvive Settles BubblesSettle
CHECK_DEADLOCK FALSE
