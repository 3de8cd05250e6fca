SPECIFICATION FairSpec
CONSTANTS
  Commands = {c1}
  NoCommand = NoCommand
  Assignments = {m1}
  Nowhere = Nowhere
  Workers = {w1}
  Reconcilers = {r1}
  Submitters = {s1}
  MaxAttempts = 1
  Evictable = {"record"}
  MaxLeases = 3
  MaxHorizon = 3
  MaxFaults = 1
  MaxChanges = 0
PROPERTIES
  ReservationEndsInTime
  IntentReachesRobot
