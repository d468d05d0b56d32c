--------------------------- MODULE SlotOwnership ---------------------------
(***************************************************************************)
(* What the scheduler promises about a sequence slot, without leases,      *)
(* generations, fences or threads: a slot is free, in the hands of a       *)
(* thread, owned by one request, one radix node or the session table, or   *)
(* draining; it is written and cleared by its owner only; it is clean      *)
(* whenever it is free.  A slot is lost only where a transport re-creates  *)
(* the KV of a request, whose first slot nobody then remembers.            *)
(* SlotLifecycle implements this.                                          *)
(***************************************************************************)
CONSTANTS Slots, Requests

VARIABLES owner, clean, lossy

ownVars == <<owner, clean, lossy>>

Init ==
  /\ lossy \in BOOLEAN
  /\ owner = [s \in Slots |-> "free"]
  /\ clean = [s \in Slots |-> TRUE]

Keeps(s) == clean'[s] = clean[s]

\* The moves a single slot may make.
SlotStep(s) ==
  \/ owner[s] = "free" /\ owner'[s] = "thread" /\ clean[s] /\ Keeps(s)
  \/ owner[s] = "thread" /\ owner'[s] = "thread"        \* it writes or clears
  \/ owner[s] = "thread" /\ owner'[s] \in Requests /\ ~clean'[s]
  \/ owner[s] = "thread" /\ owner'[s] = "draining"
  \/ owner[s] = "thread" /\ owner'[s] = "free" /\ clean[s] /\ Keeps(s)
  \/ owner[s] = "draining" /\ owner'[s] = "free" /\ clean'[s]
  \/ owner[s] \in Requests /\ owner'[s] \in {"thread", "radix", "session"} /\ Keeps(s)
  \/ owner[s] = "session" /\ owner'[s] = "thread" /\ Keeps(s)
  \/ owner[s] = "radix" /\ owner'[s] = "thread" /\ clean'[s]
  \/ lossy /\ owner[s] \in Requests /\ owner'[s] = "lost" /\ Keeps(s)

\* Several slots may move in one step: admitting one request can retire the
\* donors of others.
Next ==
  /\ lossy' = lossy
  /\ \A s \in Slots : SlotStep(s) \/ (owner'[s] = owner[s] /\ Keeps(s))

Spec == Init /\ [][Next]_ownVars
=============================================================================
