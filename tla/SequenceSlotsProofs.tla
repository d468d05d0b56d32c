------------------------ MODULE SequenceSlotsProofs ------------------------
(***************************************************************************)
(* Proofs about SequenceSlots, for every number of slots, set of requests  *)
(* and bound on the generations.                                           *)
(*                                                                         *)
(* HeldLeaseOwnsSlot is not inductive alone: RetireLease must know that a  *)
(* lease accepted by LockAndValidateLease is the very lease the holder     *)
(* has, which needs the type of the leases, and the range checks need the  *)
(* types of the tables.  OccupiedSlotHasHolder makes the invariant exact:  *)
(* a slot is occupied if and only if its current generation is held.       *)
(***************************************************************************)
EXTENDS SequenceSlots, TLAPS

IInv == TypeOK /\ HeldLeaseOwnsSlot /\ OccupiedSlotHasHolder

(* A lease is determined by its slot and its generation. *)
LEMMA LeaseExtensional ==
  ASSUME NEW l \in Leases
  PROVE  /\ l.slot \in Slots
         /\ l.gen \in 1 .. MaxGen
         /\ l = Lease(l.slot, l.gen)
BY DEF Leases, Lease

(* The constructor establishes the invariant: every slot idle, no lease.    *)
LEMMA InitIInv == Init => IInv
BY NumSlotsAssumption, MaxGenAssumption
DEF Init, IInv, TypeOK, HeldLeaseOwnsSlot, OccupiedSlotHasHolder,
    States, Fences, Occupied, Slots

(* ResetSlotForReuse preserves the types of the three tables it writes.     *)
LEMMA ResetSlotsType ==
  ASSUME TypeOK, NEW S \in SUBSET Slots, ResetSlots(S)
  PROVE  /\ state' \in [Slots -> States]
         /\ request' \in [Slots -> Requests \cup {NoRequest}]
         /\ fence' \in [Slots -> Fences]
         /\ \A s \in Slots : state'[s] = IF s \in S THEN "Idle" ELSE state[s]
BY DEF TypeOK, ResetSlots, States, Fences

(* Resetting slots whose leases are given back in the same step keeps the   *)
(* holders and the occupied slots in correspondence.                        *)
LEMMA ResetKeepsHolders ==
  ASSUME IInv, NEW S \in SUBSET Slots, ResetSlots(S), generation' = generation,
         held' \subseteq held, \A l \in held : l.slot \notin S => l \in held',
         \A l \in held' : l.slot \notin S
  PROVE  HeldLeaseOwnsSlot' /\ OccupiedSlotHasHolder'
<1>1. \A s \in Slots : state'[s] = IF s \in S THEN "Idle" ELSE state[s]
  BY ResetSlotsType DEF IInv
<1>2. \A l \in held : l.slot \in Slots
  BY LeaseExtensional DEF IInv, TypeOK
<1>3. HeldLeaseOwnsSlot'
  BY <1>1, <1>2 DEF IInv, HeldLeaseOwnsSlot
<1>4. OccupiedSlotHasHolder'
  BY <1>1 DEF IInv, OccupiedSlotHasHolder, Occupied, Lease
<1> QED BY <1>3, <1>4

(* Moving an accepted lease's slot to Retiring takes it from exactly the    *)
(* one holder of its generation (RetireLease, first half of ReleaseLease).  *)
LEMMA RetireKeepsHolders ==
  ASSUME IInv, NEW l \in issued, ValidLease(l, Occupied),
         state' = [state EXCEPT ![l.slot] = "Retiring"],
         generation' = generation, held' = held \ {l}
  PROVE  /\ state' \in [Slots -> States]
         /\ HeldLeaseOwnsSlot'
         /\ OccupiedSlotHasHolder'
<1>1. \A m \in issued : m.slot \in Slots /\ m = Lease(m.slot, m.gen)
  BY LeaseExtensional DEF IInv, TypeOK
<1>2. state' \in [Slots -> States]
  BY <1>1 DEF IInv, TypeOK, States
<1>3. ASSUME NEW m \in held'
      PROVE  generation'[m.slot] = m.gen /\ state'[m.slot] \in Occupied
  <2>1. m \in held /\ m \in issued /\ m # l
    BY <1>3 DEF IInv, TypeOK
  <2>2. generation[m.slot] = m.gen /\ state[m.slot] \in Occupied
    BY <2>1 DEF IInv, HeldLeaseOwnsSlot
  <2>3. m.slot # l.slot
    BY <2>1, <2>2, <1>1 DEF ValidLease
  <2> QED BY <2>1, <2>2, <2>3, <1>1 DEF IInv, TypeOK
<1>4. ASSUME NEW s \in Slots, state'[s] \in Occupied
      PROVE  Lease(s, generation'[s]) \in held'
  <2>1. s # l.slot
    BY <1>4, <1>1 DEF IInv, TypeOK, Occupied
  <2> QED BY <2>1, <1>4, <1>1 DEF IInv, TypeOK, OccupiedSlotHasHolder, Lease
<1> QED BY <1>2, <1>3, <1>4 DEF HeldLeaseOwnsSlot, OccupiedSlotHasHolder

(* A transition between occupied states of one slot moves no ownership      *)
(* (MarkProcessing, MarkCompleted, RestoreLease).                           *)
LEMMA OccupiedMoveKeepsHolders ==
  ASSUME IInv, NEW s \in Slots, state[s] \in Occupied, NEW new \in Occupied,
         state' = [state EXCEPT ![s] = new],
         generation' = generation, held' = held
  PROVE  /\ state' \in [Slots -> States]
         /\ HeldLeaseOwnsSlot'
         /\ OccupiedSlotHasHolder'
<1>1. state' \in [Slots -> States]
  BY DEF IInv, TypeOK, States, Occupied
<1>2. \A t \in Slots : state'[t] \in Occupied <=> state[t] \in Occupied
  BY DEF IInv, TypeOK
<1>3. \A l \in held : l.slot \in Slots
  BY LeaseExtensional DEF IInv, TypeOK
<1> QED BY <1>1, <1>2, <1>3
        DEF IInv, HeldLeaseOwnsSlot, OccupiedSlotHasHolder

(* Every step of every operation preserves the invariant. *)
LEMMA NextIInv == IInv /\ [Next]_vars => IInv'
<1> SUFFICES ASSUME IInv, [Next]_vars
             PROVE  IInv'
  OBVIOUS
<1> USE DEF IInv
<1>t. /\ \A l \in issued : l \in Leases /\ l.slot \in Slots /\ l.gen \in 1 .. MaxGen
                           /\ l = Lease(l.slot, l.gen)
      /\ \A s \in Slots : generation[s] \in 0 .. MaxGen
  BY LeaseExtensional DEF TypeOK
<1>1. ASSUME NEW r \in Requests, NEW cap \in 0 .. NumSlots, AcquireLease(r, cap)
      PROVE  IInv'
  <2>1. PICK s \in FindFreeSlot(cap) :
          /\ generation[s] < MaxGen
          /\ generation' = [generation EXCEPT ![s] = @ + 1]
          /\ state' = [t \in Slots |-> IF t = s THEN "Prefilling"
                          ELSE IF t \in Reapable \ {s} THEN "Idle" ELSE state[t]]
          /\ request' = [t \in Slots |-> IF t = s THEN r
                          ELSE IF t \in Reapable \ {s} THEN NoRequest ELSE request[t]]
          /\ fence' = [t \in Slots |-> IF t = s \/ t \in Reapable \ {s}
                                        THEN "due" ELSE fence[t]]
          /\ issued' = issued \cup {Lease(s, generation[s] + 1)}
          /\ held' = held \cup {Lease(s, generation[s] + 1)}
    BY <1>1 DEF AcquireLease
  <2>2. s \in Slots /\ state[s] \notin Occupied
    BY DEF FindFreeSlot, FreeAfterReap, Free, Occupied, Reapable
  <2>3. \A t \in Reapable : t \in Slots /\ state[t] \notin Occupied
    BY DEF Reapable, Occupied
  <2>4. generation[s] + 1 \in 1 .. MaxGen
    BY <2>1, <2>2, <1>t, MaxGenAssumption
  <2>5. Lease(s, generation[s] + 1) \in Leases
    BY <2>2, <2>4 DEF Lease, Leases
  <2>6. TypeOK'
    <3>1. state' \in [Slots -> States] /\ fence' \in [Slots -> Fences]
      BY <2>1 DEF TypeOK, States, Fences
    <3>2. request' \in [Slots -> Requests \cup {NoRequest}]
      BY <2>1 DEF TypeOK
    <3>3. generation' \in [Slots -> 0 .. MaxGen]
      BY <2>1, <2>2, <2>4 DEF TypeOK
    <3> QED BY <3>1, <3>2, <3>3, <2>1, <2>5, <1>1 DEF TypeOK, AcquireLease
  <2>7. HeldLeaseOwnsSlot'
    <3> SUFFICES ASSUME NEW l \in held'
                 PROVE  generation'[l.slot] = l.gen /\ state'[l.slot] \in Occupied
      BY DEF HeldLeaseOwnsSlot
    <3>1. CASE l = Lease(s, generation[s] + 1)
      BY <3>1, <2>1, <2>2, <1>t DEF Lease, Occupied, TypeOK
    <3>2. CASE l \in held
      <4>1. l \in issued /\ l.slot \in Slots /\ state[l.slot] \in Occupied
             /\ generation[l.slot] = l.gen
        BY <3>2, <1>t DEF TypeOK, HeldLeaseOwnsSlot
      <4>2. l.slot # s /\ l.slot \notin Reapable
        BY <4>1, <2>2, <2>3
      <4> QED BY <4>1, <4>2, <2>1 DEF TypeOK
    <3> QED BY <3>1, <3>2, <2>1
  <2>8. OccupiedSlotHasHolder'
    <3> SUFFICES ASSUME NEW t \in Slots, state'[t] \in Occupied
                 PROVE  Lease(t, generation'[t]) \in held'
      BY DEF OccupiedSlotHasHolder
    <3>1. CASE t = s
      BY <3>1, <2>1, <2>2 DEF TypeOK
    <3>2. CASE t # s
      BY <3>2, <2>1 DEF TypeOK, OccupiedSlotHasHolder, Occupied
    <3> QED BY <3>1, <3>2
  <2> QED BY <2>6, <2>7, <2>8
<1>2. CASE ReapRetiredSlots
  <2>1. Reapable \in SUBSET Slots /\ \A l \in held : l.slot \notin Reapable
    BY DEF Reapable, HeldLeaseOwnsSlot, Occupied
  <2>2. TypeOK'
    BY <1>2, <2>1, ResetSlotsType DEF ReapRetiredSlots, TypeOK
  <2>3. HeldLeaseOwnsSlot' /\ OccupiedSlotHasHolder'
    BY <1>2, <2>1, ResetKeepsHolders DEF ReapRetiredSlots
  <2> QED BY <2>2, <2>3
<1>3. ASSUME NEW l \in issued, NEW f \in Fences, RetireLease(l, f)
      PROVE  IInv'
  <2>1. state' \in [Slots -> States] /\ HeldLeaseOwnsSlot' /\ OccupiedSlotHasHolder'
    BY <1>3, RetireKeepsHolders DEF RetireLease
  <2>2. TypeOK'
    BY <1>3, <2>1, <1>t DEF RetireLease, TypeOK
  <2> QED BY <2>1, <2>2
<1>4. ASSUME NEW l \in issued, ReleaseLease(l)
      PROVE  IInv'
  <2>1. state' \in [Slots -> States] /\ HeldLeaseOwnsSlot' /\ OccupiedSlotHasHolder'
    BY <1>4, RetireKeepsHolders DEF ReleaseLease
  <2>2. TypeOK'
    BY <1>4, <2>1, <1>t DEF ReleaseLease, TypeOK, Fences
  <2> QED BY <2>1, <2>2
<1>5. ASSUME NEW l \in releasing, ReleaseLeaseReap(l)
      PROVE  IInv'
  <2>1. Reapable \in SUBSET Slots /\ \A m \in held : m.slot \notin Reapable
    BY DEF Reapable, HeldLeaseOwnsSlot, Occupied
  <2>2. TypeOK'
    BY <1>5, <2>1, ResetSlotsType DEF ReleaseLeaseReap, TypeOK
  <2>3. HeldLeaseOwnsSlot' /\ OccupiedSlotHasHolder'
    BY <1>5, <2>1, ResetKeepsHolders DEF ReleaseLeaseReap
  <2> QED BY <2>2, <2>3
<1>6. ASSUME NEW l \in issued, CompleteRetiredLease(l)
      PROVE  IInv'
  <2>1. {l.slot} \in SUBSET Slots /\ \A m \in held : m.slot \notin {l.slot}
    BY <1>6, <1>t DEF CompleteRetiredLease, ValidLease, HeldLeaseOwnsSlot, Occupied
  <2>2. TypeOK'
    BY <1>6, <2>1, ResetSlotsType DEF CompleteRetiredLease, TypeOK
  <2>3. HeldLeaseOwnsSlot' /\ OccupiedSlotHasHolder'
    BY <1>6, <2>1, ResetKeepsHolders DEF CompleteRetiredLease
  <2> QED BY <2>2, <2>3
<1>7. ASSUME NEW l \in held, ReleaseSlot(l)
      PROVE  IInv'
  <2>1. l \in issued /\ {l.slot} \in SUBSET Slots
    BY <1>t DEF TypeOK
  <2>2. \A m \in held' : m.slot \notin {l.slot}
    BY <1>7, <2>1, <1>t DEF ReleaseSlot, HeldLeaseOwnsSlot, TypeOK
  <2>3. TypeOK'
    BY <1>7, <2>1, ResetSlotsType DEF ReleaseSlot, TypeOK
  <2>4. HeldLeaseOwnsSlot' /\ OccupiedSlotHasHolder'
    BY <1>7, <2>1, <2>2, ResetKeepsHolders DEF ReleaseSlot
  <2> QED BY <2>3, <2>4
<1>8. ASSUME NEW l \in held, MarkProcessing(l.slot)
      PROVE  IInv'
  <2>1. l.slot \in Slots /\ state[l.slot] \in Occupied
    BY <1>t DEF TypeOK, HeldLeaseOwnsSlot
  <2>2. "Decoding" \in Occupied
    BY DEF Occupied
  <2>3. state' \in [Slots -> States] /\ HeldLeaseOwnsSlot' /\ OccupiedSlotHasHolder'
    BY <1>8, <2>1, <2>2, OccupiedMoveKeepsHolders DEF MarkProcessing
  <2> QED BY <1>8, <2>3 DEF MarkProcessing, TypeOK
<1>9. ASSUME NEW l \in issued, MarkCompleted(l)
      PROVE  IInv'
  <2>1. l.slot \in Slots /\ state[l.slot] \in Occupied /\ "Completed" \in Occupied
    BY <1>9, <1>t DEF MarkCompleted, ValidLease, Occupied
  <2>2. state' \in [Slots -> States] /\ HeldLeaseOwnsSlot' /\ OccupiedSlotHasHolder'
    BY <1>9, <2>1, OccupiedMoveKeepsHolders DEF MarkCompleted
  <2> QED BY <1>9, <2>2 DEF MarkCompleted, TypeOK
<1>10. ASSUME NEW l \in issued, NEW r \in Requests, RestoreLease(l, r)
       PROVE  IInv'
  <2>1. l.slot \in Slots /\ state[l.slot] \in Occupied /\ "Prefilling" \in Occupied
    BY <1>10, <1>t DEF RestoreLease, ValidLease, Occupied
  <2>2. state' \in [Slots -> States] /\ HeldLeaseOwnsSlot' /\ OccupiedSlotHasHolder'
    BY <1>10, <2>1, OccupiedMoveKeepsHolders DEF RestoreLease
  <2> QED BY <1>10, <2>1, <2>2 DEF RestoreLease, TypeOK, Fences
<1>11. ASSUME NEW s \in Slots, FenceElapses(s)
       PROVE  IInv'
  BY <1>11 DEF FenceElapses, TypeOK, Fences, HeldLeaseOwnsSlot, OccupiedSlotHasHolder
<1>12. CASE EvictIdleSlots
  <2>1. PICK S \in SUBSET Slots :
          /\ state' = [s \in Slots |-> IF s \in S THEN "Evicted" ELSE state[s]]
          /\ held' = {l \in held : l.slot \notin S}
    BY <1>12 DEF EvictIdleSlots
  <2>2. TypeOK'
    BY <1>12, <2>1 DEF EvictIdleSlots, TypeOK, States
  <2>3. HeldLeaseOwnsSlot'
    BY <1>12, <2>1, <1>t DEF EvictIdleSlots, TypeOK, HeldLeaseOwnsSlot
  <2>4. OccupiedSlotHasHolder'
    BY <1>12, <2>1 DEF EvictIdleSlots, OccupiedSlotHasHolder, Occupied, Lease
  <2> QED BY <2>2, <2>3, <2>4
<1>13. CASE PerformGracefulDegradation
  <2>1. maxSlots' \in 1 .. NumSlots
    BY <1>13, NumSlotsAssumption, FloorAssumption DEF PerformGracefulDegradation, TypeOK
  <2> QED BY <1>13, <2>1 DEF PerformGracefulDegradation, TypeOK, HeldLeaseOwnsSlot,
                             OccupiedSlotHasHolder
<1>14. CASE UNCHANGED vars
  BY <1>14 DEF vars, TypeOK, HeldLeaseOwnsSlot, OccupiedSlotHasHolder
<1> QED BY <1>1, <1>2, <1>3, <1>4, <1>5, <1>6, <1>7, <1>8, <1>9, <1>10, <1>11, <1>12,
           <1>13, <1>14
        DEF Next

(* The slot table always has its types. *)
THEOREM SlotTypes == Spec => []TypeOK
<1>1. IInv => TypeOK
  BY DEF IInv
<1> QED BY <1>1, InitIInv, NextIInv, PTL DEF Spec

(* For any number of slots and callers, and whatever stale or duplicate     *)
(* leases are presented to the lease operations, a lease that was not given *)
(* back owns its slot: no operation on an older generation disturbs it.     *)
THEOREM HeldLeasesOwnTheirSlots == Spec => []HeldLeaseOwnsSlot
<1>1. IInv => HeldLeaseOwnsSlot
  BY DEF IInv
<1> QED BY <1>1, InitIInv, NextIInv, PTL DEF Spec

(* For any number of slots and callers, every occupied slot has a live      *)
(* lease on it.  That the lease can be released is not said: after          *)
(* PerformGracefulDegradation every release refuses a slot at or above the  *)
(* lowered limit.                                                           *)
THEOREM OccupiedSlotsAreLeased == Spec => []OccupiedSlotHasHolder
<1>1. IInv => OccupiedSlotHasHolder
  BY DEF IInv
<1> QED BY <1>1, InitIInv, NextIInv, PTL DEF Spec

\* The slot table as a whole is safe: SlotTableSafe, the invariant the run over
\* the tables checks, for any number of slots, requests and generations.
THEOREM SlotTableStaysSafe == Spec => []SlotTableSafe
<1>1. IInv => SlotTableSafe
  BY DEF IInv, SlotTableSafe
<1> QED BY <1>1, InitIInv, NextIInv, PTL DEF Spec

(* For any number of slots, a slot whose retire fence is not due keeps its  *)
(* generation in every step: AcquireLease never hands it out.               *)
THEOREM FencedSlotsAreNotReacquired == Spec => FencedSlotNotReacquired
<1> DEFINE Fenced(s) == state[s] = "Retiring" /\ fence[s] # "due"
<1>1. ASSUME TypeOK, Next, NEW s \in Slots, Fenced(s)
      PROVE  generation'[s] = generation[s]
  <2>1. ASSUME NEW r \in Requests, NEW cap \in 0 .. NumSlots, AcquireLease(r, cap)
        PROVE  generation'[s] = generation[s]
    <3>1. PICK t \in FindFreeSlot(cap) : generation' = [generation EXCEPT ![t] = @ + 1]
      BY <2>1 DEF AcquireLease
    <3>2. s # t
      BY <1>1 DEF FindFreeSlot, FreeAfterReap, Free, Reapable
    <3> QED BY <3>1, <3>2, <1>1 DEF TypeOK
  <2> QED BY <1>1, <2>1
          DEF Next, ReapRetiredSlots, RetireLease, ReleaseLease, ReleaseLeaseReap,
              CompleteRetiredLease, ReleaseSlot, MarkProcessing, MarkCompleted,
              RestoreLease, FenceElapses, EvictIdleSlots, PerformGracefulDegradation
<1>2. ASSUME TypeOK, [Next]_vars
      PROVE  [\A s \in Slots : Fenced(s) => generation'[s] = generation[s]]_vars
  BY <1>1, <1>2
<1> QED BY <1>2, SlotTypes, PTL DEF Spec, FencedSlotNotReacquired

=============================================================================
