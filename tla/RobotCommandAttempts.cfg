SPECIFICATION Spec
CONSTANTS
  Commands = {c1}
  NoCommand = NoCommand
  Assignments = {m1}
  Nowhere = Nowhere
  Workers = {w1, w2}
  Reconcilers = {r1}
  Submitters = {s1}
  MaxAttempts = 2
  Evictable = {}
  MaxLeases = 3
  MaxHorizon = 0
  MaxFaults = 1
  MaxChanges = 0
SYMMETRY Symmetry
INVARIANTS
  OutcomeIsGenuine
  RetriesFollowFailures
PROPERTIES
  ImplementsLifecycle
CHECK_DEADLOCK FALSE
