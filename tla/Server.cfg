SPECIFICATION MCSpec
CONSTANTS
  Listeners = {"http", "https"}
  HttpWorkers = {w1, w2}
  Conns = {c1, c2}
  MaxPending = 1
  MaxKeepAlive = 2
  NoConn = NoConn
  Kinds <- Asked
  MaxTokens = 2
  NoRequest = NoRequest
  p = p
  q = q
  x = x
  NoModel = NoModel
  Malformed = Malformed
  Missing = Missing
  Specs <- MCSpecs
  Snapshots <- MCSnapshots
  Capable = {q}
  RouterClients = {c1}
  MaxEdits = 1
  MaxSuffix = 1
  FirstText <- MCFirst
  AdminSpecs <- MCAdmin
  ActorSets <- MCActors
  Options <- MCOptions
  MaxLoads = 2
INVARIANTS
  ConnectionsSafe
  RouterSafe
PROPERTIES
  ResponsesSafe
  ConnectionsEnd
  
  RunningRegistryReadsLastEdit
CHECK_DEADLOCK FALSE
