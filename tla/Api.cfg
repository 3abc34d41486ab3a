SPECIFICATION ApiFairSpec
CONSTANTS
  Reports = {r1}
  s1 = s1
  Services = {s1, s2}
  Service <- ServiceOfReports
  NoService = NoService
  MaxBoots = 2
INVARIANTS StoredInOrder NoSilentLoss GuessExplained
PROPERTIES KeepsLedger JobsEnd StopEnds AcknowledgedSurfaces ServicesListed NotFoundExplained ListedHasServiceLog
CHECK_DEADLOCK FALSE
