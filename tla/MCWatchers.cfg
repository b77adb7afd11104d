SPECIFICATION WatchSpec
CONSTANTS
  Nobody = Nobody
  pa = pa
  pb = pb
  Ports <- MCPorts
  Home = pa
  Ships = {1, 2}
  MaxTrips = 2
  MaxPushes = 1
  WatchFaults = 1
PROPERTY TablesSettle
