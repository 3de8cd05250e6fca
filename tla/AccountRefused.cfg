SPECIFICATION Spec
CONSTANTS
  Requests = {r1, r2}
  Groups = {g1}
  None = None
  AccessTTL = 1
  RefreshTTL = 2
  MaxGrants = 1
  MaxTurns = 1
  MaxFaults = 1
  MaxTime = 1
CHECK_DEADLOCK FALSE
INVARIANT InactiveMayRegisterAgain
