CONSTANTS
  GpuRequests = {g1, g2}
  CpuRequests = {c1}
  PreferredSizes = {0}
  GpuSizes = {2}
  GpuDelay = 1
  CpuDelay = 1
  Never = 3
  Requests <- MCRequests
  Keys <- MCKeys
  KeyOf <- MCKeyOf
  Config <- MCConfig
  MaxQueueSize = 1
  Executors <- MCExecutors
  ExecutorOf <- MCExecutorOf
  Concurrency <- MCConcurrency
  GateLimit <- MCGateLimit
SPECIFICATION FairSpec
PROPERTIES
  ImplementsReplyService
  AcceptedIsAnswered
CHECK_DEADLOCK FALSE
