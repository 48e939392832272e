CONSTANTS
  Slots = {ota_0, ota_1}
  FirstSlot = ota_0
  Versions = {1, 2}
  FirstVersion = 1
  Nothing = Nothing
  Broken = Broken
  MaxRequests = 1
  MaxResets = 1
SPECIFICATION UpdateSpec
INVARIANTS
  UpgradesAreDetected
CHECK_DEADLOCK FALSE
