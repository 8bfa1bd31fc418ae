SPECIFICATION Spec
CONSTANTS
  Single = {io1, io2}
  Batcher = {ex1}
  NumSlots = 2
  Engines <- PooledEngines
  Probe = 2
  BatchLen = 3
  Calls = 1
  Spoilt = 1
  Failures = 1
  Blank = blank
  Stale = stale
  Nobody = nobody
INVARIANT DecodedImagesAreSeen
CHECK_DEADLOCK FALSE
