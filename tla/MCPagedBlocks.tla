--------------------------- MODULE MCPagedBlocks ---------------------------
(* Instances of PagedBlocks: the unified scheduler with a session and with    *)
(* batches of one and of two requests, and the split one.  Pages, nodes, the  *)
(* two session users and the other requests are interchangeable.              *)
EXTENDS PagedBlocks, TLC

CONSTANTS r1, r2

AllConfigs ==
  {[users |-> {r1, r2}, split |-> FALSE, batch |-> 1],
   [users |-> {r1, r2}, split |-> FALSE, batch |-> 2],
   [users |-> {}, split |-> TRUE, batch |-> 1]}

SwapConfig == {[users |-> {}, split |-> FALSE, batch |-> 2]}

Symmetry ==
  Permutations(Pages) \cup Permutations(Nodes)
    \cup Permutations({r1, r2}) \cup Permutations(Requests \ {r1, r2})

=============================================================================
