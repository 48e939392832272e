CONSTANTS
  MaxPending = 2
  MinBackoff = 1
  MaxBackoff = 2
  MaxMessages = 3
SPECIFICATION FairMqttSpec
INVARIANTS
  MqttConsistent
  MessagesKept
PROPERTIES
  Retries
