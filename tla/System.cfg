SPECIFICATION FairSystem
CONSTANTS
  h1 = h1
  NoConn = NoConn
  IPs <- OneHost
  Host = h1
  Tasks = {t1}
  ClientIp <- AllForHost
  TaskId <- DistinctIds
  MaxConns = 2
  MaxInFlight = 2
  HighWater = 2
  MaxBacklog = 3
  DbMayRaise = FALSE
  MAX_RETRIES = 0
  ClientHighWater = 2
  Outcomes = {"success", "error"}
  ConnectionsMayBreak = TRUE
INVARIANTS
  DeliveredTaskIsAnswered
  TaskIsInOnePlace
PROPERTIES
  
  ServerSpec
  ClientSpec
CHECK_DEADLOCK FALSE
