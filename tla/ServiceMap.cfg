CONSTANTS
  r1 = r1
  r2 = r2
  f = f
  g = g
  Reports = {r1, r2}
  Functions = {f, g}
  NoName = none
  MaxFlow = 2
SPECIFICATION Spec
INVARIANTS TypeOK MapExact FailuresAgree SeriesAgree KnownParentsMakeGraph
SYMMETRY NameSymmetry
CHECK_DEADLOCK FALSE
