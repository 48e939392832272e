CONSTANTS
  Slots = {ota_0, ota_1}
  FirstSlot = ota_0
  Versions = {1, 2}
  FirstVersion = 1
  Nothing = Nothing
  Broken = Broken
  MaxRequests = 2
  MaxResets = 3
SPECIFICATION FairUpdateSpec
INVARIANTS
  UpdateConsistent
  TamperedNeverRuns
  DataFitsFirmware
PROPERTIES
  UpdatesAreReported
CHECK_DEADLOCK FALSE
