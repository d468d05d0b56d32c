--------------------------- MODULE SequenceSlots ---------------------------
(***************************************************************************)
(* runtime/scheduler/sequence_slot_manager.{h,cpp}: the table that leases  *)
(* KV-cache sequence slots to requests.                                    *)
(*                                                                         *)
(* Every public operation holds mutex_ for its whole body and is one       *)
(* action, except ReleaseLease, which takes mutex_ twice (RetireLease,     *)
(* then the reap) and is two.  A lease is a (slot, generation) pair; the   *)
(* generation is bumped on every acquisition.  Callers may present any     *)
(* lease ever issued, so stale and duplicate calls are always possible.    *)
(* last_access, acquired_at, sequence_id and token_count are left out: no  *)
(* transition but the idle eviction reads them, and there the elapsed time *)
(* is a free choice.                                                       *)
(***************************************************************************)
EXTENDS Integers

CONSTANTS
  NumSlots,       \* max_slots_ at construction
  Requests,       \* request ids
  NoRequest,      \* request_id = -1
  MaxGen,         \* bound on acquisitions per slot
  CriticalFloor,  \* 8UL in PerformGracefulDegradation
  HighFloor       \* 16UL in PerformGracefulDegradation

ASSUME NumSlotsAssumption == NumSlots \in Nat \ {0}
ASSUME MaxGenAssumption == MaxGen \in Nat
ASSUME NoRequestAssumption == NoRequest \notin Requests
ASSUME FloorAssumption == CriticalFloor \in Nat \ {0} /\ HighFloor \in Nat \ {0}

VARIABLES
  maxSlots,    \* max_slots_, the bound of the range checks
  state,       \* slots_[s].state
  generation,  \* slots_[s].generation
  request,     \* slots_[s].request_id
  fence,       \* slots_[s].retire_ready_at, as what it says about "now"
  issued,      \* history: every lease AcquireLease ever returned
  held,        \* history: the leases neither given back nor evicted
  releasing    \* leases between the two critical sections of ReleaseLease

slotVars == <<maxSlots, state, generation, request, fence>>
vars == <<maxSlots, state, generation, request, fence, issued, held, releasing>>

Slots == 0 .. NumSlots - 1
States == {"Idle", "Prefilling", "Decoding", "Retiring", "Completed", "Evicted"}
Free == {"Idle", "Evicted"}
Occupied == {"Prefilling", "Decoding", "Completed"}

(* A fence is due (retire_ready_at <= now), later (After(ms), not elapsed), *)
(* or pending (time_point::max(), which no clock reaches).                  *)
Fences == {"due", "later", "pending"}

Lease(s, g) == [slot |-> s, gen |-> g]
Leases == [slot : Slots, gen : 1 .. MaxGen]

TypeOK ==
  /\ maxSlots \in 1 .. NumSlots
  /\ state \in [Slots -> States]
  /\ generation \in [Slots -> 0 .. MaxGen]
  /\ request \in [Slots -> Requests \cup {NoRequest}]
  /\ fence \in [Slots -> Fences]
  /\ issued \subseteq Leases
  /\ held \subseteq issued
  /\ releasing \subseteq issued

\* The constructor and InitializeSlots.
Init ==
  /\ maxSlots = NumSlots
  /\ state = [s \in Slots |-> "Idle"]
  /\ generation = [s \in Slots |-> 0]
  /\ request = [s \in Slots |-> NoRequest]
  /\ fence = [s \in Slots |-> "due"]
  /\ issued = {}
  /\ held = {}
  /\ releasing = {}

---------------------------------------------------------------------------
(* Helpers shared by the operations. *)

\* Mutant of Reapable: the fence is not consulted.
ReapableIgnoringFence == {s \in Slots : state[s] = "Retiring"}

\* The slots ReapRetiredSlotsLocked resets.
Reapable == {s \in Slots : state[s] = "Retiring" /\ fence[s] = "due"}

\* FindFreeSlot over the table a reap leaves: the free slots a model with the
\* given sequence capacity can address (0: no limit), and the lowest of them.
FreeAfterReap(cap) ==
  {s \in Slots : /\ state[s] \in Free \/ s \in Reapable
                 /\ cap <= 0 \/ s < cap}

FindFreeSlot(cap) ==
  {s \in FreeAfterReap(cap) : \A t \in FreeAfterReap(cap) : s <= t}

\* Mutant of ValidLease: the generation is not compared.
ValidLeaseAnyGeneration(l, accepted) ==
  l.slot < maxSlots /\ state[l.slot] \in accepted

\* LockAndValidateLease.
ValidLease(l, accepted) ==
  /\ l.slot < maxSlots
  /\ generation[l.slot] = l.gen
  /\ state[l.slot] \in accepted

\* ResetSlotForReuse on every slot of S; generations survive.
ResetSlots(S) ==
  /\ state' = [s \in Slots |-> IF s \in S THEN "Idle" ELSE state[s]]
  /\ request' = [s \in Slots |-> IF s \in S THEN NoRequest ELSE request[s]]
  /\ fence' = [s \in Slots |-> IF s \in S THEN "due" ELSE fence[s]]

---------------------------------------------------------------------------
(* Operations.  A call that is rejected changes nothing. *)

\* AcquireLease: reap, then take the lowest free slot under a new generation.
\* With no free slot only the reap remains, which is ReapRetiredSlots.
AcquireLease(r, cap) ==
  /\ \E s \in FindFreeSlot(cap) :
     LET others == Reapable \ {s}
     IN /\ generation[s] < MaxGen
        /\ generation' = [generation EXCEPT ![s] = @ + 1]
        /\ state' = [t \in Slots |-> IF t = s THEN "Prefilling"
                                     ELSE IF t \in others THEN "Idle" ELSE state[t]]
        /\ request' = [t \in Slots |-> IF t = s THEN r
                                       ELSE IF t \in others THEN NoRequest ELSE request[t]]
        /\ fence' = [t \in Slots |-> IF t = s \/ t \in others THEN "due" ELSE fence[t]]
        /\ issued' = issued \cup {Lease(s, generation[s] + 1)}
        /\ held' = held \cup {Lease(s, generation[s] + 1)}
  /\ UNCHANGED <<maxSlots, releasing>>

ReapRetiredSlots ==
  /\ Reapable # {}
  /\ ResetSlots(Reapable)
  /\ UNCHANGED <<maxSlots, generation, issued, held, releasing>>

\* RetireLease: the slot waits in Retiring until its fence is due.
RetireLease(l, f) ==
  /\ ValidLease(l, Occupied)
  /\ state' = [state EXCEPT ![l.slot] = "Retiring"]
  /\ fence' = [fence EXCEPT ![l.slot] = f]
  /\ held' = held \ {l}
  /\ UNCHANGED <<maxSlots, generation, request, issued, releasing>>

\* ReleaseLease, first critical section: RetireLease(lease, Immediate()).
ReleaseLease(l) ==
  /\ ValidLease(l, Occupied)
  /\ state' = [state EXCEPT ![l.slot] = "Retiring"]
  /\ fence' = [fence EXCEPT ![l.slot] = "due"]
  /\ held' = held \ {l}
  /\ releasing' = releasing \cup {l}
  /\ UNCHANGED <<maxSlots, generation, request, issued>>

\* ReleaseLease, second critical section: reap, and report whether this reap
\* itself reset any slot.
ReleaseLeaseReap(l) ==
  /\ l \in releasing
  /\ ResetSlots(Reapable)
  /\ releasing' = releasing \ {l}
  /\ UNCHANGED <<maxSlots, generation, issued, held>>

CompleteRetiredLease(l) ==
  /\ ValidLease(l, {"Retiring"})
  /\ ResetSlots({l.slot})
  /\ UNCHANGED <<maxSlots, generation, issued, held, releasing>>

\* ReleaseSlot knows the slot only: its caller must own it.
ReleaseSlot(l) ==
  /\ l \in held
  /\ l.slot < maxSlots
  /\ ResetSlots({l.slot})
  /\ held' = held \ {l}
  /\ UNCHANGED <<maxSlots, generation, issued, releasing>>

\* MarkProcessing, called for the slot of a running request.
MarkProcessing(s) ==
  /\ s < maxSlots
  /\ state[s] = "Prefilling"
  /\ state' = [state EXCEPT ![s] = "Decoding"]
  /\ UNCHANGED <<maxSlots, generation, request, fence, issued, held, releasing>>

\* MarkCompleted: the lease is retained for a later turn of its session.
MarkCompleted(l) ==
  /\ ValidLease(l, Occupied)
  /\ state' = [state EXCEPT ![l.slot] = "Completed"]
  /\ UNCHANGED <<maxSlots, generation, request, fence, issued, held, releasing>>

\* RestoreLease: the same generation serves a new request.
RestoreLease(l, r) ==
  /\ ValidLease(l, {"Completed"})
  /\ state' = [state EXCEPT ![l.slot] = "Prefilling"]
  /\ request' = [request EXCEPT ![l.slot] = r]
  /\ fence' = [fence EXCEPT ![l.slot] = "due"]
  /\ UNCHANGED <<maxSlots, generation, issued, held, releasing>>

\* The clock passes a retire_ready_at set by SequenceRetireFence::After.
FenceElapses(s) ==
  /\ state[s] = "Retiring"
  /\ fence[s] = "later"
  /\ fence' = [fence EXCEPT ![s] = "due"]
  /\ UNCHANGED <<maxSlots, state, generation, request, issued, held, releasing>>

\* EvictIdleSlots: any of the decoding slots may have idled out; they are taken
\* from their holders and can be acquired again.
EvictIdleSlots ==
  \E S \in SUBSET {s \in Slots : state[s] = "Decoding"} :
    /\ S # {}
    /\ state' = [s \in Slots |-> IF s \in S THEN "Evicted" ELSE state[s]]
    /\ held' = {l \in held : l.slot \notin S}
    /\ UNCHANGED <<maxSlots, generation, request, fence, issued, releasing>>

\* PerformGracefulDegradation at >= 90% and at >= 85% memory pressure; slots_
\* keeps its size.
PerformGracefulDegradation ==
  \E new \in {IF CriticalFloor > maxSlots \div 2 THEN CriticalFloor
                                                 ELSE maxSlots \div 2,
              IF HighFloor > (maxSlots * 3) \div 4 THEN HighFloor
                                                   ELSE (maxSlots * 3) \div 4} :
    /\ new < maxSlots
    /\ maxSlots' = new
    /\ UNCHANGED <<state, generation, request, fence, issued, held, releasing>>

Next ==
  \/ \E r \in Requests, cap \in 0 .. NumSlots : AcquireLease(r, cap)
  \/ ReapRetiredSlots
  \/ \E l \in issued, f \in Fences : RetireLease(l, f)
  \/ \E l \in issued : ReleaseLease(l)
  \/ \E l \in releasing : ReleaseLeaseReap(l)
  \/ \E l \in issued : CompleteRetiredLease(l)
  \/ \E l \in held : ReleaseSlot(l)
  \/ \E l \in held : MarkProcessing(l.slot)
  \/ \E l \in issued : MarkCompleted(l)
  \/ \E l \in issued, r \in Requests : RestoreLease(l, r)
  \/ \E s \in Slots : FenceElapses(s)
  \/ EvictIdleSlots \/ PerformGracefulDegradation

Spec == Init /\ [][Next]_vars

---------------------------------------------------------------------------
(* Properties. *)

(* A lease that has not been given back owns its slot: the slot carries the *)
(* lease's generation and is occupied, whatever stale or duplicate leases   *)
(* other callers present to RetireLease, ReleaseLease, CompleteRetiredLease,*)
(* MarkCompleted or RestoreLease in the meantime.                           *)
HeldLeaseOwnsSlot ==
  \A l \in held : generation[l.slot] = l.gen /\ state[l.slot] \in Occupied

(* No slot loses its lease: an occupied slot always has a lease of its      *)
(* current generation that was neither given back nor evicted.              *)
OccupiedSlotHasHolder ==
  \A s \in Slots : state[s] \in Occupied => Lease(s, generation[s]) \in held

(* A slot retired under a fence that is not due is never handed out by the  *)
(* step that finds it fenced: AcquireLease skips it even when it is the only*)
(* slot left.                                                               *)
FencedSlotNotReacquired ==
  [][\A s \in Slots : state[s] = "Retiring" /\ fence[s] # "due"
                         => generation'[s] = generation[s]]_vars

\* Leases and slots agree: a lease that was not given up names the current
\* generation of an occupied slot, and every occupied slot has such a lease.
SlotTableSafe == TypeOK /\ HeldLeaseOwnsSlot /\ OccupiedSlotHasHolder
=============================================================================
