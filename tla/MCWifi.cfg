CONSTANTS
  Tasks = {t1, t2}
  AutoReconnect = TRUE
  Forever = Forever
  RetryLimits = {1, Forever}
  QueueCap = 1
  MaxCalls = 2
SPECIFICATION FairWifiSpec
INVARIANTS
  WifiConsistent
  FreedHandleUnused
PROPERTIES
  CloseReturns
  Reconnects
CHECK_DEADLOCK FALSE
