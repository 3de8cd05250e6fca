SPECIFICATION Spec
CONSTANTS
  Commands = {c1, c2}
  NoCommand = NoCommand
  Assignments = {m1}
  Nowhere = Nowhere
  Workers = {w1}
  Reconcilers = {r1}
  Submitters = {s1}
  MaxAttempts = 1
  Evictable = {"record", "marker", "position"}
  MaxLeases = 3
  MaxHorizon = 2
  MaxFaults = 1
  MaxChanges = 0
SYMMETRY Symmetry
INVARIANTS
  OneOutstandingCommand
PROPERTIES
  TerminalIsFinal
