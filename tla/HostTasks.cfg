SPECIFICATION MCSpec
CONSTANTS
  h1 = h1
  NoConn = NoConn
  IPs <- OneHost
  Host = h1
  t1 = t1
  t2 = t2
  p1 = p1
  p2 = p2
  Tasks = {t1, t2}
  Ports = {p1, p2}
  TakenPorts = {p2}
  Visitors = {v1}
  MaxConns = 1
  MaxInFlight = 1
  MAX_RETRIES = 0
  ClientHighWater = 1
  Outcomes = {"running", "success", "error", "null"}
  ServerMayEnd = TRUE
INVARIANT DeceptionResultsAreTrue
PROPERTIES
  TaskEndsUnlessMute
  
CHECK_DEADLOCK FALSE
