SPECIFICATION Spec
CONSTANTS
  Users <- OrdersAndSync
  Requests <- OrdersAndSyncRequests
  Failing <- SomeFlaky
  Services <- DemoServiceSet
  Script <- DemoScript
  PortOf <- DemoPort
  Selections <- AnyOrder
  NoName = NoName
  NoTarget = NoTarget
  MaxCrashes = 1
INVARIANTS CallsConnect
CHECK_DEADLOCK FALSE
