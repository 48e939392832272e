CONSTANTS
  Tasks = {t1, t2}
  NoTask = NoTask
  Callbacks = {c1}
  NoCallback = NoCallback
  Cores = 2
SPECIFICATION FairTimerSpec
INVARIANTS
  TimerInv
  FreedHandleUnused
  PeriodicCloseSucceeds
PROPERTIES
  NoCallbackChangeUnderHandler
  CallsReturn
