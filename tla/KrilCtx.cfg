CONSTANTS
  c1 = c1
  c2 = c2
  c3 = c3
  Calls = {c1, c2, c3}
  Handler = handler
  NoName = none
  ParentNames = {c1}
  Detached = {c3}
  Failing = {c3, handler}
  Panics = {c2}
SPECIFICATION FairSpec
INVARIANTS TypeOK IndexOrder NestedFirst ReportComplete Verdict FailureExplained
PROPERTIES Implements Dispatched CallsEnd
CHECK_DEADLOCK FALSE
