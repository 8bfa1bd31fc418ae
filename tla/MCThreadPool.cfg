CONSTANTS
  Workers = {w1, w2}
  Tasks = {t1, t2, t3}
  NoTask = NoTask
SPECIFICATION FairPoolSpec
INVARIANTS
  PoolTypeOK
  NoStrandedWork
  PendingIsHeldOnce
  JoinedMeansDrained
PROPERTIES
  PoolSettles
  ImplementsService
CHECK_DEADLOCK FALSE
