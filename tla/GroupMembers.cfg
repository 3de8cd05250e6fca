SPECIFICATION Spec
CONSTANTS
  Users = {o, u}
  Founders = {o}
  Requests = {s1, s2}
  Asked = {"MEMBER", "ADMIN"}
  Disturbances = {"abandon", "eviction"}
  MaxInvitations = 2
  MaxRequests = 4
  MaxFaults = 1
SYMMETRY Symmetric
CHECK_DEADLOCK FALSE
INVARIANTS
  TypeOK
  OwnersStay
  CachedRoleWasHeld
  OneStoredPerMember
  InvitationsAgree
  CacheAgrees
PROPERTY AcceptedAsOffered
