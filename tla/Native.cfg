SPECIFICATION MCSpec
CONSTANTS
  LaneSlots = {1, 2}
  MaxGen = 3
  MaxRows = 2
  MaxCalls = 2
  Primed = {1}
  LaneLimit = 1
  LaneConfigs <- MCLaneConfigs
  GemvCalls <- MCGemvCalls
  AttnCalls <- MCAttnCalls
  ForwardJobs <- MCForwardJobs
  GraphWidths = {1, 2, 3}
  CaptureSafe = {1, 2, 3}
  PinnedWorkspace = FALSE
  kMaxDecodeGraphs = 2
  GraphWarmup = 2
  GraphRetries = 2
  Machines <- MCMachines
  Forced = {"q81_group", "mmq_mma"}
  Widths = {1, 2, 3, 4, 5, 8, 9, 16, 17, 33, 40, 64, 65}
INVARIANTS
  GemvSafe
  AttentionSafe
  ForwardSafe
  DispatchSafe
  LanesSafe
PROPERTIES
  GraphsSafe
  LanesReturn
CHECK_DEADLOCK FALSE
