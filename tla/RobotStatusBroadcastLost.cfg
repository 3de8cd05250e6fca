SPECIFICATION Spec
CONSTANTS
  Processes = {p1}
  Handlers = {h1}
  MaxSequence = 3
  MaxHeartbeats = 0
  MaxTime = 1
  RetryLimit = 1
  Disturbances = {}
  MaxFaults = 0
SYMMETRY Symmetric
CHECK_DEADLOCK FALSE
INVARIANT TransitionsAreBroadcast
