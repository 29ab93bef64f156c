SPECIFICATION SamplerSpec
CONSTANTS
  Sources = {a, b}
  NonIP = NonIP
  SAMPLE_RATE = 2
  Window = 2
  Windows = 1
  QueueSize = 3
  RemoteSize = 1
  Levels = {"low", "mid", "high"}
  MaxPending = 2
SYMMETRY SourceSymmetry
INVARIANTS
  SamplerTypeOK
  NoSampleIsLost
  SeriesAreAligned
