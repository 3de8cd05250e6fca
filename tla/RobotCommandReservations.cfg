SPECIFICATION Spec
CONSTANTS
  Commands = {c1, c2}
  NoCommand = NoCommand
  Assignments = {m1, m2}
  Nowhere = Nowhere
  Workers = {w1}
  Reconcilers = {}
  Submitters = {s1, s2}
  MaxAttempts = 1
  Evictable = {}
  MaxLeases = 3
  MaxHorizon = 1
  MaxFaults = 0
  MaxChanges = 1
SYMMETRY Symmetry
INVARIANTS
  TypeOK
  OriginIsCurrent
PROPERTY PositionMovesOnSuccess
CHECK_DEADLOCK FALSE
