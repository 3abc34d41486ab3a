CONSTANTS
  c1 = c1
  c2 = c2
  Calls = {c1, c2}
  Handler = handler
  NoName = none
  ParentNames = {}
  Detached = {}
  Failing = {c1}
  Panics = {c1}
SPECIFICATION Spec
INVARIANT PanicFailsRequest
CHECK_DEADLOCK FALSE
