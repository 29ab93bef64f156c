SPECIFICATION MCSpec
CONSTANTS
  h1 = h1
  h2 = h2
  s1 = s1
  NoDpid = NoDpid
  Elsewhere = Elsewhere
  Nodes = {h1, h2, s1}
  Hosts = {h1, h2}
  HasIp = {h1, h2, s1}
  NodeOrder <- Order
  Dpid <- SwitchOf
  Readers = {r1, r2}
  Callers = {c1, c2}
  Orders <- TheOrders
INVARIANTS
  RuleIsMissingOnlyAfterEarlyPut
  MarksAreGenuine
  AttacksShowOnBothEnds
  DefendedHostIsMarked
CHECK_DEADLOCK FALSE
