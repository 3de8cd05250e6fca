SPECIFICATION Spec
CONSTANTS
  Requests = {r1, r2}
  Groups = {g1, g2}
  None = None
  AccessTTL = 2
  RefreshTTL = 3
  MaxGrants = 2
  MaxTurns = 3
  MaxFaults = 1
  MaxTime = 3
SYMMETRY Symmetry
CHECK_DEADLOCK FALSE
INVARIANTS
  TypeOK
  OneAccessTokenPerGrant
  NothingOutlivesItsGrant
  SessionSurvives
PROPERTIES
  SpentGrantsStaySpent
  ConfirmedStaysConfirmed
