CONSTANTS
  Configs = {{"wifi", "sntp"}, {"wifi", "prov", "mdns"}, {"prov"}}
  Servers = {"mdns"}
  Timeout = 1
  MaxRuns = 2
  MaxLosses = 2
  MaxRequests = 1
SPECIFICATION FairConnectivitySpec
INVARIANTS
  ConnectivityConsistent
  StatusAgrees
PROPERTIES
  WaitsEnd
CHECK_DEADLOCK FALSE
