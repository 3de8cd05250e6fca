SPECIFICATION Spec
CONSTANTS
  Users = {o, u}
  Founders = {o}
  Requests = {s1, s2}
  Asked = {"MEMBER"}
  Disturbances = {}
  MaxInvitations = 2
  MaxRequests = 3
  MaxFaults = 0
SYMMETRY Symmetric
CHECK_DEADLOCK FALSE
PROPERTY AcceptedAreNotInvited
