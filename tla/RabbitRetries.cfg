SPECIFICATION FairSpec
CONSTANTS
  Messages = {m1, m2, m3}
  Malformed = {m3}
  NotRetried = {m2}
  RetryLimit = 2
  Callbacks = {k1, k2}
  Prefetch = 2
  MaxFaults = 1
CHECK_DEADLOCK FALSE
INVARIANTS
  TypeOK
  NothingLost
  TriesAreBounded
PROPERTY ImplementsDelivery
