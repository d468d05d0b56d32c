-------------------------- MODULE MCSlotLifecycle --------------------------
(* TLC instances of SlotLifecycle. *)
EXTENDS SlotLifecycle, TLC

CONSTANT d1

RequestSymmetry == Permutations(Requests)

Unified(limited) == [pool |-> {}, blob |-> FALSE, limited |-> limited]
Hydrating == [pool |-> {d1}, blob |-> TRUE, limited |-> FALSE]

\* Unified mode without a context limit, split mode with one, and split mode
\* with a transport that carries the KV.
AllConfigs ==
  {Unified(FALSE), [pool |-> {d1}, blob |-> FALSE, limited |-> TRUE], Hydrating}
UnifiedConfig == {Unified(TRUE)}
HydratingConfig == {Hydrating}
=============================================================================
