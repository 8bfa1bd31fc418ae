CONSTANTS
  GpuRequests = {g1, g2, g3, g4}
  CpuRequests = {c1}
  PreferredSizes = {2}
  GpuSizes = {0}
  GpuDelay = 1
  CpuDelay = 1
  Never = 3
  Requests <- MCRequests
  Keys <- MCKeys
  KeyOf <- MCKeyOf
  Config <- MCConfig
  MaxQueueSize = 3
  Executors <- MCExecutors
  ExecutorOf <- MCExecutorOf
  Concurrency <- MCConcurrency
  GateLimit <- MCGateLimit
SPECIFICATION Spec
SYMMETRY Symmetry
INVARIANTS
  TypeOK
  PendingHeldOnce
  BatchesWellFormed
  FrontIsOldest
  NoSubmitMissed
  QuiescentWhenStopped
PROPERTIES
  AnsweredOnce
  ResultBeforePromise
CHECK_DEADLOCK FALSE
