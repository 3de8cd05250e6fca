SPECIFICATION Spec
CONSTANTS
  Maps = {p, q}
  Built = {p}
  Robots = {1, 2}
  Stationed = {1}
  Nowhere = Nowhere
  Gone = Gone
  Requests = {s1, s2}
  Boundaries <- Workspaces
  ZoneShapes <- Areas
  StationShapes <- Docks
  MaxItems = 2
  MaxRows = 2
  MaxRequests = 2
SYMMETRY Symmetry
CHECK_DEADLOCK FALSE
INVARIANTS
  TypeOK
  LayoutIsConsistent
  StationedOnItsMap
  ValidatedSavesAreWritable
  NoLockCycle
PROPERTY SavedAsSubmitted
