SPECIFICATION WorldSpec
CONSTANTS
  Rows <- SomeRows
  Sights <- SomeSights
  MaxLooks = 2
  OrderIds = {"trade", "craft"}
  Books <- SomeBooks
  Asks <- SomeAsks
  MovementIds = {1, 2}
  MaxByHand = 1
  MaxReopened = 1
  NoAsk = NoAsk
  Clients = {c1, c2}
  Readers = {c1}
  Domains = {"storage"}
  Worlds <- SomeWorlds
  Claimable = {"s1"}
  MaxVersion = 2
  MaxTouches = 1
  NoCall = NoCall
  NoCache = NoCache
  NoVersion = NoVersion
  Requests = {1, 2, 3}
  RunKeys = {"k1", "k2"}
  AdminKeys = {"a"}
  Bodies = {"b1", "b2"}
  MaxRuns = 2
  MaxCrashes = 1
  NoOne = 0
  Garbled = Garbled
  Nothing = Nothing
  Observations <- SomeObservations
  Systems = {"sol", "vega"}
  Restamp = 2
  MaxTaken = 4
  MaxKept = 1
  Unseen = Unseen
  Nobody = Nobody
INVARIANT
  SafeRetries
CHECK_DEADLOCK FALSE
