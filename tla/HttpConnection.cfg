SPECIFICATION Spec
CONSTANTS
  Ip = {ip1, ip2}
  Peer = ip1
  Burst = 1
  IdleTicks = 1
  MaxTime = 2
  Message <- SentMessages
  MaxBodySize = 2
  MaxMessages = 2
  MaxOthers = 2
INVARIANTS RepliesMatchRequests WindowIsBounded
PROPERTY RequestsAnswered
CHECK_DEADLOCK FALSE
