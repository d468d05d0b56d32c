SPECIFICATION LSpec
CONSTANTS
  NumSlots = 2
  Requests = {r1, r2, r3}
  NoRequest = NoRequest
  MaxGen = 3
  CriticalFloor = 1
  HighFloor = 1
  Worker = Worker
  Evictor = Evictor
  Decoders = {d1}
  d1 = d1
  Configs <- HydratingConfig
  MaxDonors = 2
  None = None
SYMMETRY RequestSymmetry
INVARIANTS
  HeldLeaseHasOwner
CHECK_DEADLOCK FALSE
