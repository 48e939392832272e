CONSTANTS
  Users = {u1, u2}
  Setter = u1
  EventTask = event_task
  Nobody = Nobody
  Callbacks = {c1, c2}
  NoCallback = NoCallback
  RxCap = 2
  QueueCap = 1
  Chunk = 1
  Burst = 2
SPECIFICATION FairUartSpec
INVARIANTS
  UartConsistent
  WritesDoNotOverlap
  NoStrandedBytes
  FreedHandleUnused
PROPERTIES
  ImplementsLifecycle
  CallsComplete
