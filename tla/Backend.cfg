SPECIFICATION MCSpec
CONSTANTS
  Tasks = {t1, t2}
  SwitchTasks = {s1}
  MaxDocs = 4
  MaxStarts = 2
  MaxCalls = 2
INVARIANTS
  TakenInOrder
  
  SerialCallsAreKept
  HistoryComesBackOnlyWithTopology
  BrokenFileStopsTheStart
PROPERTIES
  BrokenStaysBroken
  SwitchTaskReturnsToRequest
  WokenLoopTakes
CHECK_DEADLOCK FALSE
