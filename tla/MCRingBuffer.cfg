CONSTANTS
  Value = {v1, v2, v3}
  NoValue = NoValue
  Capacity = 3
SPECIFICATION RingSpec
INVARIANTS
  RingInv
PROPERTY ImplementsQueue
