SPECIFICATION MCSafety
CONSTANTS
  NumSlots = 2
  Requests = {r1, r2}
  NoRequest = NoRequest
  MaxGen = 3
  CriticalFloor = 1
  HighFloor = 1
  Worker = Worker
  Evictor = Evictor
  Decoders = {d1}
  d1 = d1
  d2 = d2
  h1 = h1
  h2 = h2
  h3 = h3
  Configs <- UnifiedConfig
  MaxDonors = 2
  None = None
  Prompts <- MCPrompts
  Seqs = {s1, s2, s3}
  Backends = {b1, b2}
  Capacity = 3
  MaxSequences = 2
  NoSeq = NoSeq
  Handoffs = {h1, h2, h3}
  Takers = {d1, d2}
  ChannelConfigs <- MCChannels
  MaxBatch = 2
  MaxRetries = 1
  NoPacket = NoPacket
  Sessions = {"a", "b", "c"}
  Turns <- Conversations
  SessionOf <- SessionOfTurn
  MaxSessions = 2
  NoState = NoState
  NStore = 2
  NHostStore = 1
  StoreConfigs <- MCStores
  MaxWrites = 2
  MaxReserves = 3
INVARIANTS
  SlotTableSafe
  ChannelSafe
  SessionsSafe
  StoreSafe
PROPERTIES
  FencedSlotNotReacquired
  TrieSafe
CHECK_DEADLOCK FALSE
