SPECIFICATION Spec
CONSTANTS
  h1 = h1
  h2 = h2
  t1 = t1
  t2 = t2
  NoConn = NoConn
  IPs <- OneHost
  Tasks = {t1, t2}
  ClientIp <- BothForH1
  TaskId <- DistinctIds
  MaxConns = 2
  MaxInFlight = 1
  HighWater = 2
  MaxBacklog = 3
  DbMayRaise = FALSE
PROPERTY ErrorOnlyForDisconnectedHost
CHECK_DEADLOCK FALSE
