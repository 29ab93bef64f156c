SPECIFICATION FairSpec
CONSTANTS
  h1 = h1
  NoConn = NoConn
  IPs <- OneHost
  Host = h1
  Tasks = {t1, t2}
  MaxConns = 2
  MaxInFlight = 3
  MAX_RETRIES = 1
  ClientHighWater = 2
  Outcomes = {"success"}
  ServerMayEnd = TRUE
INVARIANTS
  TypeOK
  OneConnector
  AnsweredAtMostOnce
PROPERTIES
  
  ResultsLeaveTheQueue
CHECK_DEADLOCK FALSE
