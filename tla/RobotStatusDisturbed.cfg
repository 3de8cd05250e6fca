SPECIFICATION Spec
CONSTANTS
  Processes = {p1}
  Handlers = {h1}
  MaxSequence = 3
  MaxHeartbeats = 1
  MaxTime = 2
  RetryLimit = 1
  Disturbances = {"duplicate", "broker", "redis read", "redis write", "database", "crash", "reconnect", "expiry", "redis loss", "delivery", "delete"}
  MaxFaults = 1
SYMMETRY Symmetric
CHECK_DEADLOCK FALSE
INVARIANTS
  TypeOK
  CacheCatchesUp
  BroadcastsFollowTransitions
  ConnectivityConverges
  OfflineCoversHeartbeats
PROPERTIES CacheCopiesRow LastSeenNeverGoesBack
