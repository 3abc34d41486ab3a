SPECIFICATION Spec
CONSTANTS
  Reports = {r1}
  MaxBoots = 1
INVARIANT GracefulStopStores
CHECK_DEADLOCK FALSE
