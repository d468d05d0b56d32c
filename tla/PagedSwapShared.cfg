SPECIFICATION Spec
CONSTANTS
  Pages = {p1, p2, p3, p4}
  NHost = 8
  r1 = r1
  r2 = r2
  Requests = {r1, r2, r3}
  Nodes = {n1}
  Configs <- SwapConfig
  MaxNeed = 3
  None = None
SYMMETRY Symmetry
INVARIANTS
  DonatedPagesInUse
