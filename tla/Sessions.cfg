SPECIFICATION Spec
CONSTANTS
  Client = {c1, c2}
  DbThread = {c1, c2}
  User = {u1, u2}
  Known = {u1}
  None = none
  PoolSize = 1
  MaxRequests = 3
  MaxFaults = 1
INVARIANTS LoggedOutStaysOut OneSessionPerUser ConnectionsAccounted
PROPERTIES StaleIsForgotten RequestsReturn
CHECK_DEADLOCK FALSE
