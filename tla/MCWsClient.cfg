CONSTANTS
  Tasks = {t1, t2}
  Nobody = Nobody
  MaxConnects = 2
SPECIFICATION FairWsSpec
INVARIANTS
  WsConsistent
  NothingFreedInUse
PROPERTIES
  CallsEnd
CHECK_DEADLOCK FALSE
