SPECIFICATION Spec
CONSTANTS
  h1 = h1
  h2 = h2
  t1 = t1
  t2 = t2
  NoConn = NoConn
  IPs <- TwoHosts
  Tasks = {t1, t2}
  ClientIp <- OneEach
  TaskId <- SameIds
  MaxConns = 1
  MaxInFlight = 1
  HighWater = 0
  MaxBacklog = 2
  DbMayRaise = TRUE
INVARIANTS
  TasksReachTheirHost
  SuccessWasReported
CHECK_DEADLOCK FALSE
