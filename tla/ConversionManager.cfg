SPECIFICATION Spec
CONSTANTS
  Onnx = {o1, o2}
  Engine = {e1, e2}
  MaxJobs = 3
  MaxDeletes = 1
  NoJob = none
INVARIANTS QueueMatchesJobs BuildsAreReported
 
CHECK_DEADLOCK FALSE
