CONSTANTS
  Conns = {c1}
  Requests = {r1, r2}
  Slots = {s1}
  ConnOf <- MCConnOf
  Batch = {r1}
  Size <- MCSize
  NoRequest = NoRequest
  NoResult = NoResult
  NoSlot = NoSlot
  DrainTimesOut = FALSE
SPECIFICATION FairSpec
INVARIANTS
  InflightExact
  RepliesAreOwn
PROPERTIES
  DeferredIsEnded
CHECK_DEADLOCK FALSE
