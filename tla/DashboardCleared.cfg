CONSTANTS
  Services = {a}
  Lists <- SomeLists
  Functions = {f}
  Ranges = {hour}
  NoName = none
  MaxLoads = 2
  MaxInputs = 2
SPECIFICATION Spec
INVARIANT NothingSelectedNothingShown
CHECK_DEADLOCK FALSE
