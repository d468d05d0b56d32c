SPECIFICATION Spec
CONSTANTS
  Pages = {p1, p2, p3}
  NHost = 3
  r1 = r1
  r2 = r2
  Requests = {r1, r2, r3, r4}
  Nodes = {n1, n2}
  Configs <- AllConfigs
  MaxNeed = 3
  None = None
SYMMETRY Symmetry
INVARIANTS
  PagesSafe
CHECK_DEADLOCK FALSE
