SPECIFICATION MCSpec
CONSTANTS
  Texts <- MCTexts
  Stops <- MCStops
  PromptSize = 3
  Budgets = {1, 3}
  Bursts = {0, 2}
  Timeslices = {0, 1}
  StepCap = 3
  ChunkSizes = {1, 3}
  Others = 1
  EmptyText = "empty"
  r1 = r1
  r2 = r2
  g1 = g1
  p = p
  q = q
  LlamaReqs = {r1, r2, g1}
  Prompts <- MCPrompts
  Stateless = {g1}
  NSeq = 2
  CtxSeq = 4
  TokenCap = 2
  Memories = {"plain", "recurrent"}
  MaxFails = 1
  MaxOut = 2
  Junk = Junk
  PipeSlots = {1, 2}
  PipeGens = 3
  InFlight = 1
  PipeRows = 4
  PromptRows = 2
  DecodeWidths = {1, 2}
  k1 = k1
  k2 = k2
  Keys = {k1, k2}
  Admins = {a1, a2}
  Fields = {allow_default_fallback, fallback_scope}
  Lists <- BlockLists
  Limits <- TokenLimits
  ScopeLists <- SentScopes
  Startups <- PolicyStartups
  MaxUpdates = 2
  MaxCrashes = 1
  None = None
  Principals = {p1}
  LimiterConfigs <- Plans
  NewLimits = {1}
  Tick = 30
  MaxNow = 6
  NoPolicy = NoPolicy
  Setups <- MCSetups
INVARIANTS
  SelectionSafe
  ContextSafe
  PipelineSafe
PROPERTIES
  SlicesSafe
  PolicySafe
  LimiterSafe
CHECK_DEADLOCK FALSE
