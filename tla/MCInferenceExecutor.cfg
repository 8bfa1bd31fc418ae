CONSTANTS
  Workers = {w1, w2}
  Tasks = {t1, t2, t3, t4, t5}
  Submitters = {scheduler}
  QueueMultiplier = 0
  NoTask = NoTask
  NoSubmitter = NoSubmitter
SPECIFICATION FairSpec
INVARIANTS
  CountersMatch
PROPERTIES
  ImplementsBoundedExecutor
CHECK_DEADLOCK FALSE
