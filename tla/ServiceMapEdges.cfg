CONSTANTS
  r1 = r1
  r2 = r2
  f = f
  g = g
  Reports = {r1, r2}
  Functions = {f, g}
  NoName = none
  MaxFlow = 1
SPECIFICATION Spec
INVARIANT AnswerIsGraph
CHECK_DEADLOCK FALSE
