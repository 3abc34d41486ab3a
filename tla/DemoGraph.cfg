SPECIFICATION FairSpec
CONSTANTS
  Users <- OrdersAndSync
  Requests <- OrdersAndSyncRequests
  Failing <- SomeFlaky
  Services <- DemoServiceSet
  Script <- DemoScript
  PortOf <- DemoPort
  Selections <- SomeOrders
  NoName = NoName
  NoTarget = NoTarget
  MaxCrashes = 1
INVARIANTS TypeOK SomeoneGoesOn RemoteErrorIsLoss CalleesReportFirst CrossEdgesTrue LinksJoinNodes
PROPERTIES RequestsEnd
CHECK_DEADLOCK FALSE
