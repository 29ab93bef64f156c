SPECIFICATION ReportingSpec
CONSTANTS
  h1 = h1
  NoConn = NoConn
  IPs <- OneHost
  Host = h1
  Tasks = {t1}
  MaxConns = 3
  MaxInFlight = 3
  MAX_RETRIES = 1
  ClientHighWater = 3
  Outcomes = {"success"}
  ServerMayEnd = FALSE
PROPERTY LostConnectionIsReplaced
CHECK_DEADLOCK FALSE
