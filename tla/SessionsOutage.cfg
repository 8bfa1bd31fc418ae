SPECIFICATION Spec
CONSTANTS
  Client = {c1, c2}
  DbThread = {c1, c2}
  User = {u1}
  Known = {u1}
  None = none
  PoolSize = 1
  MaxRequests = 2
  MaxFaults = 1
PROPERTY OutageIsSurvived
CHECK_DEADLOCK FALSE
