SPECIFICATION FairSpec
CONSTANTS
  Requests = {1, 2}
  Decoders = {d1, d2}
  Configs <- SplitStopsConfig
  Priority <- RequestPriority
  Threshold = 2
  Preemption = TRUE
  MaxBatch = 2
  MaxWork = 1
  MaxRetries = 1
  d1 = d1
  d2 = d2
PROPERTIES
  ShutdownCompletes
CHECK_DEADLOCK FALSE
