SPECIFICATION FairSpec
CONSTANTS
  Requests = {1, 2, 3}
  Decoders = {d1, d2}
  Configs <- AllConfigs
  Priority <- RequestPriority
  Threshold = 3
  Preemption = TRUE
  MaxBatch = 2
  MaxWork = 1
  MaxRetries = 1
  d1 = d1
  d2 = d2
INVARIANTS
  QueuesSafe
PROPERTIES
  ImplementsService
  HealthyRequestsAnswered
  UnifiedShutdownCompletes
CHECK_DEADLOCK FALSE
