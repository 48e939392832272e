CONSTANTS
  ActionCap = 2
  EventCap = 2
  MaxDrain = 2
  Period = 3
  Wrap = 8
  Gaps = {1, 4}
  Capabilities <- MCCapabilities
  Flows <- MCFlows
  Persistence = "persistence"
  MaxActions = 4
  MaxDrops = 0
  MaxEvents = 2
  MaxRuns = 2
SPECIFICATION FairRuntimeSpec
INVARIANTS
  RuntimeTypeOK
  ActionsInOrder
  EventsOfThisRun
  TickOnTime
PROPERTIES
  LossNeedsRedispatch
  StopsInReverse
  QueuedActionsLeave
