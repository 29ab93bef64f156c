SPECIFICATION FairSpec
CONSTANTS
  Sources = {a, b}
  NonIP = NonIP
  SAMPLE_RATE = 1
  Window = 0
  Windows = 1
  QueueSize = 1
  RemoteSize = 0
  Levels = {"low", "high"}
  MaxPending = 2
  Switches = {s1}
  Protocols = {"ICMP"}
  Other = "other"
  Threshold = 0
  Ceiling = 1
  MinCount <- LowestCount
  MaxCount = 2
INVARIANTS
  GuardTypeOK
  BanIsPendingOrInstalled
  DropsHaveAReason
PROPERTIES
  SamplerSpec
  
CHECK_DEADLOCK FALSE
