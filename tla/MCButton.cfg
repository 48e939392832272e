CONSTANTS
  Users = {u1, u2}
  NoUser = NoUser
  Callbacks = {c1, c2}
  NoCallback = NoCallback
  LongPress = TRUE
SPECIFICATION FairButtonSpec
INVARIANTS
  ButtonTypeOK
PROPERTIES
  ImplementsLifecycle
  SettledIsReported
