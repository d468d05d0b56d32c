----------------------- MODULE SessionHandlesProofs -----------------------
(***************************************************************************)
(* Proofs about SessionHandles, for every set of sessions and requests and *)
(* every capacity of the table.                                            *)
(*                                                                         *)
(* SessionsSafe is not inductive.  A commit stores the sequence of the     *)
(* request over what the entry holds, so a running request and its entry   *)
(* must agree; a cold admission must create a sequence that nobody has;    *)
(* and a state that is about to be released must not be used by a request. *)
(***************************************************************************)
EXTENDS SessionHandles, FiniteSetTheorems, TLAPS

Leasing(r) == turn[r] \in {"leased", "running"}

\* A lease is of an entry in use, and exclusive.
LeaseInv(r) ==
  Leasing(r) => /\ SessionOf[r] \in inUse
                /\ \A q \in Turns \ {r} : Leasing(q) => SessionOf[q] # SessionOf[r]

\* The request may still create its sequence.
Unborn(r) == turn[r] \in {"new", "leased"} \/ (turn[r] = "stateless" /\ seq[r] = NoState)

\* The sequence of a request is live, its own, and the one its entry retains.
TurnInv(r) ==
  /\ turn[r] \in {"new", "leased", "done"} => seq[r] = NoState
  /\ Unborn(r) => r \notin liveSeqs
  /\ seq[r] # NoState =>
       /\ seq[r] \in liveSeqs \ (cleanup \cup expired)
       /\ \A q \in Turns \ {r} : seq[q] # seq[r]
       /\ turn[r] = "running" => tableState[SessionOf[r]] \in {NoState, seq[r]}

\* What is to be released is live, and is released once.
ReleaseInv == cleanup \cup expired \subseteq liveSeqs /\ cleanup \cap expired = {}

SessionIInv ==
  /\ SessionTypeOK /\ IsFiniteSet(entries)
  /\ \A r \in Turns : LeaseInv(r)
  /\ \A r \in Turns : TurnInv(r)
  /\ RetainedStateOwnedOnce /\ NoSequenceLost /\ ReleaseInv

---------------------------------------------------------------------------

(* A set of entries without one is no larger. *)
LEMMA Shrinks ==
  ASSUME NEW S, NEW e, IsFiniteSet(S)
  PROVE  /\ IsFiniteSet(S \ {e})
         /\ Cardinality(S) \in Nat /\ Cardinality(S \ {e}) \in Nat
         /\ Cardinality(S \ {e}) <= Cardinality(S)
<1>1. S \ {e} \in SUBSET S OBVIOUS
<1>2. IsFiniteSet(S \ {e}) /\ Cardinality(S \ {e}) <= Cardinality(S) BY <1>1, FS_Subset
<1> QED BY <1>2, FS_CardinalityType

(* AcquireNew keeps the invariant. *)
LEMMA AcquireNewKeeps ==
  ASSUME SessionIInv, NEW r \in Turns, AcquireNew(r)
  PROVE SessionIInv'
<1> USE SessionOfAssumption, MaxSessionsAssumption, NoStateAssumption DEF mgrVars
<1>t. SessionTypeOK /\ IsFiniteSet(entries) BY DEF SessionIInv
<1>l. \A q \in Turns : LeaseInv(q) BY DEF SessionIInv
<1>u. \A q \in Turns : TurnInv(q) BY DEF SessionIInv
<1>o. RetainedStateOwnedOnce BY DEF SessionIInv
<1>s. NoSequenceLost BY DEF SessionIInv
<1>d. ReleaseInv BY DEF SessionIInv
<1> USE DEF AcquireNew, Turn, InPhase, Step, Reordered, Full, Some, FindEvictionCandidateLocked
<1>1. SessionTypeOK' /\ IsFiniteSet(entries')
  <2> DEFINE s == SessionOf[r]
  <2>1. Cardinality(entries) \in Nat BY <1>t, FS_CardinalityType DEF SessionTypeOK
  <2>2. CASE Full
    <3>1. PICK v \in entries : entries' = (entries \ {v}) \cup {s}
      BY <1>t, <2>2 DEF SessionTypeOK
    <3>2. IsFiniteSet(entries \ {v}) /\ Cardinality(entries \ {v}) = Cardinality(entries) - 1
      BY <1>t, <3>1, FS_RemoveElement DEF SessionTypeOK
    <3>3. IsFiniteSet(entries') /\ Cardinality(entries') = Cardinality(entries)
      <4>1. s \notin entries \ {v} OBVIOUS
      <4>2. Cardinality((entries \ {v}) \cup {s}) = Cardinality(entries \ {v}) + 1
            /\ IsFiniteSet((entries \ {v}) \cup {s})
        BY <3>2, <4>1, FS_AddElement, Zenon
      <4> QED BY ONLY <2>1, <3>1, <3>2, <4>2
    <3> QED BY <1>t, <3>3 DEF SessionTypeOK
  <2>3. CASE ~Full
    <3>1. entries' = entries \cup {s} BY <1>t, <2>3 DEF SessionTypeOK
    <3>2. IsFiniteSet(entries') /\ Cardinality(entries') = Cardinality(entries) + 1
      BY <1>t, <3>1, FS_AddElement, Zenon DEF SessionTypeOK
    <3> QED BY <1>t, <2>1, <2>3, <3>2 DEF SessionTypeOK
  <2> QED BY <1>t, <2>2, <2>3 DEF SessionTypeOK
<1>2. ASSUME NEW q \in Turns PROVE LeaseInv(q)'
  BY <1>t, <1>l DEF LeaseInv, Leasing, SessionTypeOK
<1>3. ASSUME NEW q \in Turns PROVE TurnInv(q)'
  BY <1>t, <1>l, <1>u, <1>o, <1>d
     DEF LeaseInv, Leasing, TurnInv, Unborn, ReleaseInv, RetainedStateOwnedOnce, Leased,
         SessionTypeOK
<1>4. RetainedStateOwnedOnce'
  BY <1>t, <1>l, <1>u, <1>o, <1>d
     DEF LeaseInv, Leasing, TurnInv, Unborn, ReleaseInv, RetainedStateOwnedOnce, Leased,
         SessionTypeOK
<1>5. NoSequenceLost'
  BY <1>t, <1>u, <1>o, <1>s
     DEF NoSequenceLost, TurnInv, RetainedStateOwnedOnce, Leased, SessionTypeOK
<1>6. ReleaseInv'
  BY <1>t, <1>u, <1>o, <1>d
     DEF ReleaseInv, TurnInv, RetainedStateOwnedOnce, Leased, SessionTypeOK
<1> QED BY <1>1, <1>2, <1>3, <1>4, <1>5, <1>6 DEF SessionIInv

(* AcquireIdle keeps the invariant. *)
LEMMA AcquireIdleKeeps ==
  ASSUME SessionIInv, NEW r \in Turns, AcquireIdle(r)
  PROVE SessionIInv'
<1> USE SessionOfAssumption, MaxSessionsAssumption, NoStateAssumption DEF mgrVars
<1>t. SessionTypeOK /\ IsFiniteSet(entries) BY DEF SessionIInv
<1>l. \A q \in Turns : LeaseInv(q) BY DEF SessionIInv
<1>u. \A q \in Turns : TurnInv(q) BY DEF SessionIInv
<1>o. RetainedStateOwnedOnce BY DEF SessionIInv
<1>s. NoSequenceLost BY DEF SessionIInv
<1>d. ReleaseInv BY DEF SessionIInv
<1> USE DEF AcquireIdle, Turn, InPhase, Step, Reordered, Refresh, Some
<1>1. SessionTypeOK' /\ IsFiniteSet(entries') BY <1>t, FS_EmptySet DEF SessionTypeOK
<1>2. ASSUME NEW q \in Turns PROVE LeaseInv(q)'
  BY <1>t, <1>l DEF LeaseInv, Leasing, SessionTypeOK
<1>3. ASSUME NEW q \in Turns PROVE TurnInv(q)'
  BY <1>t, <1>l, <1>u, <1>o, <1>d
     DEF LeaseInv, Leasing, TurnInv, Unborn, ReleaseInv, RetainedStateOwnedOnce, Leased,
         SessionTypeOK
<1>4. RetainedStateOwnedOnce'
  BY <1>t, <1>l, <1>u, <1>o, <1>d
     DEF LeaseInv, Leasing, TurnInv, Unborn, ReleaseInv, RetainedStateOwnedOnce, Leased,
         SessionTypeOK
<1>5. NoSequenceLost'
  BY <1>t, <1>u, <1>o, <1>s
     DEF NoSequenceLost, TurnInv, RetainedStateOwnedOnce, Leased, SessionTypeOK
<1>6. ReleaseInv'
  BY <1>t, <1>u, <1>o, <1>d
     DEF ReleaseInv, TurnInv, RetainedStateOwnedOnce, Leased, SessionTypeOK
<1> QED BY <1>1, <1>2, <1>3, <1>4, <1>5, <1>6 DEF SessionIInv

(* AcquireBusy keeps the invariant. *)
LEMMA AcquireBusyKeeps ==
  ASSUME SessionIInv, NEW r \in Turns, AcquireBusy(r)
  PROVE SessionIInv'
<1> USE SessionOfAssumption, MaxSessionsAssumption, NoStateAssumption DEF mgrVars
<1>t. SessionTypeOK /\ IsFiniteSet(entries) BY DEF SessionIInv
<1>l. \A q \in Turns : LeaseInv(q) BY DEF SessionIInv
<1>u. \A q \in Turns : TurnInv(q) BY DEF SessionIInv
<1>o. RetainedStateOwnedOnce BY DEF SessionIInv
<1>s. NoSequenceLost BY DEF SessionIInv
<1>d. ReleaseInv BY DEF SessionIInv
<1> USE DEF AcquireBusy, Turn, InPhase, Step
<1>1. SessionTypeOK' /\ IsFiniteSet(entries') BY <1>t, FS_EmptySet DEF SessionTypeOK
<1>2. ASSUME NEW q \in Turns PROVE LeaseInv(q)'
  BY <1>t, <1>l DEF LeaseInv, Leasing, SessionTypeOK
<1>3. ASSUME NEW q \in Turns PROVE TurnInv(q)'
  BY <1>t, <1>l, <1>u, <1>o, <1>d
     DEF LeaseInv, Leasing, TurnInv, Unborn, ReleaseInv, RetainedStateOwnedOnce, Leased,
         SessionTypeOK
<1>4. RetainedStateOwnedOnce'
  BY <1>t, <1>l, <1>u, <1>o, <1>d
     DEF LeaseInv, Leasing, TurnInv, Unborn, ReleaseInv, RetainedStateOwnedOnce, Leased,
         SessionTypeOK
<1>5. NoSequenceLost'
  BY <1>t, <1>u, <1>o, <1>s
     DEF NoSequenceLost, TurnInv, RetainedStateOwnedOnce, Leased, SessionTypeOK
<1>6. ReleaseInv'
  BY <1>t, <1>u, <1>o, <1>d
     DEF ReleaseInv, TurnInv, RetainedStateOwnedOnce, Leased, SessionTypeOK
<1> QED BY <1>1, <1>2, <1>3, <1>4, <1>5, <1>6 DEF SessionIInv

(* AdmitWarm keeps the invariant. *)
LEMMA AdmitWarmKeeps ==
  ASSUME SessionIInv, NEW r \in Turns, AdmitWarm(r)
  PROVE SessionIInv'
<1> USE SessionOfAssumption, MaxSessionsAssumption, NoStateAssumption DEF mgrVars
<1>t. SessionTypeOK /\ IsFiniteSet(entries) BY DEF SessionIInv
<1>l. \A q \in Turns : LeaseInv(q) BY DEF SessionIInv
<1>u. \A q \in Turns : TurnInv(q) BY DEF SessionIInv
<1>o. RetainedStateOwnedOnce BY DEF SessionIInv
<1>s. NoSequenceLost BY DEF SessionIInv
<1>d. ReleaseInv BY DEF SessionIInv
<1> USE DEF AdmitWarm, InPhase, Step
<1>1. SessionTypeOK' /\ IsFiniteSet(entries') BY <1>t, FS_EmptySet DEF SessionTypeOK
<1>2. ASSUME NEW q \in Turns PROVE LeaseInv(q)'
  BY <1>t, <1>l DEF LeaseInv, Leasing, SessionTypeOK
<1>3. ASSUME NEW q \in Turns PROVE TurnInv(q)'
  BY <1>t, <1>l, <1>u, <1>o, <1>d
     DEF LeaseInv, Leasing, TurnInv, Unborn, ReleaseInv, RetainedStateOwnedOnce, Leased,
         SessionTypeOK
<1>4. RetainedStateOwnedOnce'
  BY <1>t, <1>l, <1>u, <1>o, <1>d
     DEF LeaseInv, Leasing, TurnInv, Unborn, ReleaseInv, RetainedStateOwnedOnce, Leased,
         SessionTypeOK
<1>5. NoSequenceLost'
  BY <1>t, <1>u, <1>o, <1>s
     DEF NoSequenceLost, TurnInv, RetainedStateOwnedOnce, Leased, SessionTypeOK
<1>6. ReleaseInv'
  BY <1>t, <1>u, <1>o, <1>d
     DEF ReleaseInv, TurnInv, RetainedStateOwnedOnce, Leased, SessionTypeOK
<1> QED BY <1>1, <1>2, <1>3, <1>4, <1>5, <1>6 DEF SessionIInv

(* DiscardIncompatible keeps the invariant. *)
LEMMA DiscardIncompatibleKeeps ==
  ASSUME SessionIInv, NEW r \in Turns, DiscardIncompatible(r)
  PROVE SessionIInv'
<1> USE SessionOfAssumption, MaxSessionsAssumption, NoStateAssumption DEF mgrVars
<1>t. SessionTypeOK /\ IsFiniteSet(entries) BY DEF SessionIInv
<1>l. \A q \in Turns : LeaseInv(q) BY DEF SessionIInv
<1>u. \A q \in Turns : TurnInv(q) BY DEF SessionIInv
<1>o. RetainedStateOwnedOnce BY DEF SessionIInv
<1>s. NoSequenceLost BY DEF SessionIInv
<1>d. ReleaseInv BY DEF SessionIInv
<1> USE DEF DiscardIncompatible, InPhase
<1>1. SessionTypeOK' /\ IsFiniteSet(entries') BY <1>t, FS_EmptySet DEF SessionTypeOK
<1>2. ASSUME NEW q \in Turns PROVE LeaseInv(q)'
  BY <1>t, <1>l DEF LeaseInv, Leasing, SessionTypeOK
<1>3. ASSUME NEW q \in Turns PROVE TurnInv(q)'
  BY <1>t, <1>l, <1>u, <1>o, <1>d
     DEF LeaseInv, Leasing, TurnInv, Unborn, ReleaseInv, RetainedStateOwnedOnce, Leased,
         SessionTypeOK
<1>4. RetainedStateOwnedOnce'
  BY <1>t, <1>l, <1>u, <1>o, <1>d
     DEF LeaseInv, Leasing, TurnInv, Unborn, ReleaseInv, RetainedStateOwnedOnce, Leased,
         SessionTypeOK
<1>5. NoSequenceLost'
  BY <1>t, <1>u, <1>o, <1>s
     DEF NoSequenceLost, TurnInv, RetainedStateOwnedOnce, Leased, SessionTypeOK
<1>6. ReleaseInv'
  BY <1>t, <1>u, <1>o, <1>d
     DEF ReleaseInv, TurnInv, RetainedStateOwnedOnce, Leased, SessionTypeOK
<1> QED BY <1>1, <1>2, <1>3, <1>4, <1>5, <1>6 DEF SessionIInv

(* TurnOverflows keeps the invariant. *)
LEMMA TurnOverflowsKeeps ==
  ASSUME SessionIInv, NEW r \in Turns, TurnOverflows(r)
  PROVE SessionIInv'
<1> USE SessionOfAssumption, MaxSessionsAssumption, NoStateAssumption DEF mgrVars
<1>t. SessionTypeOK /\ IsFiniteSet(entries) BY DEF SessionIInv
<1>l. \A q \in Turns : LeaseInv(q) BY DEF SessionIInv
<1>u. \A q \in Turns : TurnInv(q) BY DEF SessionIInv
<1>o. RetainedStateOwnedOnce BY DEF SessionIInv
<1>s. NoSequenceLost BY DEF SessionIInv
<1>d. ReleaseInv BY DEF SessionIInv
<1> USE DEF TurnOverflows, InPhase, Step
<1>1. SessionTypeOK' /\ IsFiniteSet(entries') BY <1>t, FS_EmptySet DEF SessionTypeOK
<1>2. ASSUME NEW q \in Turns PROVE LeaseInv(q)'
  BY <1>t, <1>l DEF LeaseInv, Leasing, SessionTypeOK
<1>3. ASSUME NEW q \in Turns PROVE TurnInv(q)'
  BY <1>t, <1>l, <1>u, <1>o, <1>d
     DEF LeaseInv, Leasing, TurnInv, Unborn, ReleaseInv, RetainedStateOwnedOnce, Leased,
         SessionTypeOK
<1>4. RetainedStateOwnedOnce'
  BY <1>t, <1>l, <1>u, <1>o, <1>d
     DEF LeaseInv, Leasing, TurnInv, Unborn, ReleaseInv, RetainedStateOwnedOnce, Leased,
         SessionTypeOK
<1>5. NoSequenceLost'
  BY <1>t, <1>u, <1>o, <1>s
     DEF NoSequenceLost, TurnInv, RetainedStateOwnedOnce, Leased, SessionTypeOK
<1>6. ReleaseInv'
  BY <1>t, <1>u, <1>o, <1>d
     DEF ReleaseInv, TurnInv, RetainedStateOwnedOnce, Leased, SessionTypeOK
<1> QED BY <1>1, <1>2, <1>3, <1>4, <1>5, <1>6 DEF SessionIInv

(* AdmitCold keeps the invariant. *)
LEMMA AdmitColdKeeps ==
  ASSUME SessionIInv, NEW r \in Turns, AdmitCold(r)
  PROVE SessionIInv'
<1> USE SessionOfAssumption, MaxSessionsAssumption, NoStateAssumption DEF mgrVars
<1>t. SessionTypeOK /\ IsFiniteSet(entries) BY DEF SessionIInv
<1>l. \A q \in Turns : LeaseInv(q) BY DEF SessionIInv
<1>u. \A q \in Turns : TurnInv(q) BY DEF SessionIInv
<1>o. RetainedStateOwnedOnce BY DEF SessionIInv
<1>s. NoSequenceLost BY DEF SessionIInv
<1>d. ReleaseInv BY DEF SessionIInv
<1> USE DEF AdmitCold, Turn, InPhase, Step
<1>1. SessionTypeOK' /\ IsFiniteSet(entries') BY <1>t, FS_EmptySet DEF SessionTypeOK
<1>2. ASSUME NEW q \in Turns PROVE LeaseInv(q)'
  BY <1>t, <1>l DEF LeaseInv, Leasing, SessionTypeOK
<1>3. ASSUME NEW q \in Turns PROVE TurnInv(q)'
  BY <1>t, <1>l, <1>u, <1>o, <1>d
     DEF LeaseInv, Leasing, TurnInv, Unborn, ReleaseInv, RetainedStateOwnedOnce, Leased,
         SessionTypeOK
<1>4. RetainedStateOwnedOnce'
  BY <1>t, <1>l, <1>u, <1>o, <1>d
     DEF LeaseInv, Leasing, TurnInv, Unborn, ReleaseInv, RetainedStateOwnedOnce, Leased,
         SessionTypeOK
<1>5. NoSequenceLost'
  BY <1>t, <1>u, <1>o, <1>s
     DEF NoSequenceLost, TurnInv, RetainedStateOwnedOnce, Leased, SessionTypeOK
<1>6. ReleaseInv'
  BY <1>t, <1>u, <1>o, <1>d
     DEF ReleaseInv, TurnInv, RetainedStateOwnedOnce, Leased, SessionTypeOK
<1> QED BY <1>1, <1>2, <1>3, <1>4, <1>5, <1>6 DEF SessionIInv

(* NotAdmitted keeps the invariant. *)
LEMMA NotAdmittedKeeps ==
  ASSUME SessionIInv, NEW r \in Turns, NotAdmitted(r)
  PROVE SessionIInv'
<1> USE SessionOfAssumption, MaxSessionsAssumption, NoStateAssumption DEF mgrVars
<1>t. SessionTypeOK /\ IsFiniteSet(entries) BY DEF SessionIInv
<1>l. \A q \in Turns : LeaseInv(q) BY DEF SessionIInv
<1>u. \A q \in Turns : TurnInv(q) BY DEF SessionIInv
<1>o. RetainedStateOwnedOnce BY DEF SessionIInv
<1>s. NoSequenceLost BY DEF SessionIInv
<1>d. ReleaseInv BY DEF SessionIInv
<1> USE DEF NotAdmitted, InPhase, Step
<1>1. SessionTypeOK' /\ IsFiniteSet(entries') BY <1>t, FS_EmptySet DEF SessionTypeOK
<1>2. ASSUME NEW q \in Turns PROVE LeaseInv(q)'
  BY <1>t, <1>l DEF LeaseInv, Leasing, SessionTypeOK
<1>3. ASSUME NEW q \in Turns PROVE TurnInv(q)'
  BY <1>t, <1>l, <1>u, <1>o, <1>d
     DEF LeaseInv, Leasing, TurnInv, Unborn, ReleaseInv, RetainedStateOwnedOnce, Leased,
         SessionTypeOK
<1>4. RetainedStateOwnedOnce'
  BY <1>t, <1>l, <1>u, <1>o, <1>d
     DEF LeaseInv, Leasing, TurnInv, Unborn, ReleaseInv, RetainedStateOwnedOnce, Leased,
         SessionTypeOK
<1>5. NoSequenceLost'
  BY <1>t, <1>u, <1>o, <1>s
     DEF NoSequenceLost, TurnInv, RetainedStateOwnedOnce, Leased, SessionTypeOK
<1>6. ReleaseInv'
  BY <1>t, <1>u, <1>o, <1>d
     DEF ReleaseInv, TurnInv, RetainedStateOwnedOnce, Leased, SessionTypeOK
<1> QED BY <1>1, <1>2, <1>3, <1>4, <1>5, <1>6 DEF SessionIInv

(* TurnPrefillFails keeps the invariant. *)
LEMMA TurnPrefillFailsKeeps ==
  ASSUME SessionIInv, NEW r \in Turns, TurnPrefillFails(r)
  PROVE SessionIInv'
<1> USE SessionOfAssumption, MaxSessionsAssumption, NoStateAssumption DEF mgrVars
<1>t. SessionTypeOK /\ IsFiniteSet(entries) BY DEF SessionIInv
<1>l. \A q \in Turns : LeaseInv(q) BY DEF SessionIInv
<1>u. \A q \in Turns : TurnInv(q) BY DEF SessionIInv
<1>o. RetainedStateOwnedOnce BY DEF SessionIInv
<1>s. NoSequenceLost BY DEF SessionIInv
<1>d. ReleaseInv BY DEF SessionIInv
<1> USE DEF TurnPrefillFails, Turn, InPhase
<1>1. SessionTypeOK' /\ IsFiniteSet(entries') BY <1>t, FS_EmptySet DEF SessionTypeOK
<1>2. ASSUME NEW q \in Turns PROVE LeaseInv(q)'
  BY <1>t, <1>l DEF LeaseInv, Leasing, SessionTypeOK
<1>3. ASSUME NEW q \in Turns PROVE TurnInv(q)'
  BY <1>t, <1>l, <1>u, <1>o, <1>d
     DEF LeaseInv, Leasing, TurnInv, Unborn, ReleaseInv, RetainedStateOwnedOnce, Leased,
         SessionTypeOK
<1>4. RetainedStateOwnedOnce'
  BY <1>t, <1>l, <1>u, <1>o, <1>d
     DEF LeaseInv, Leasing, TurnInv, Unborn, ReleaseInv, RetainedStateOwnedOnce, Leased,
         SessionTypeOK
<1>5. NoSequenceLost'
  BY <1>t, <1>u, <1>o, <1>s
     DEF NoSequenceLost, TurnInv, RetainedStateOwnedOnce, Leased, SessionTypeOK
<1>6. ReleaseInv'
  BY <1>t, <1>u, <1>o, <1>d
     DEF ReleaseInv, TurnInv, RetainedStateOwnedOnce, Leased, SessionTypeOK
<1> QED BY <1>1, <1>2, <1>3, <1>4, <1>5, <1>6 DEF SessionIInv

(* CommitLease keeps the invariant. *)
LEMMA CommitLeaseKeeps ==
  ASSUME SessionIInv, NEW r \in Turns, CommitLease(r)
  PROVE SessionIInv'
<1> USE SessionOfAssumption, MaxSessionsAssumption, NoStateAssumption DEF mgrVars
<1>t. SessionTypeOK /\ IsFiniteSet(entries) BY DEF SessionIInv
<1>l. \A q \in Turns : LeaseInv(q) BY DEF SessionIInv
<1>u. \A q \in Turns : TurnInv(q) BY DEF SessionIInv
<1>o. RetainedStateOwnedOnce BY DEF SessionIInv
<1>s. NoSequenceLost BY DEF SessionIInv
<1>d. ReleaseInv BY DEF SessionIInv
<1> USE DEF CommitLease, Turn, InPhase, Step, Refresh, Reordered
<1>1. SessionTypeOK' /\ IsFiniteSet(entries')
  <2>1. entries' = entries BY <1>t, <1>l DEF LeaseInv, Leasing, SessionTypeOK
  <2> QED BY <1>t, <2>1, Zenon DEF SessionTypeOK
<1>2. ASSUME NEW q \in Turns PROVE LeaseInv(q)'
  BY <1>t, <1>l DEF LeaseInv, Leasing, SessionTypeOK
<1>3. ASSUME NEW q \in Turns PROVE TurnInv(q)'
  BY <1>t, <1>l, <1>u, <1>o, <1>d
     DEF LeaseInv, Leasing, TurnInv, Unborn, ReleaseInv, RetainedStateOwnedOnce, Leased,
         SessionTypeOK
<1>4. RetainedStateOwnedOnce'
  BY <1>t, <1>l, <1>u, <1>o, <1>d
     DEF LeaseInv, Leasing, TurnInv, Unborn, ReleaseInv, RetainedStateOwnedOnce, Leased,
         SessionTypeOK
<1>5. NoSequenceLost'
  BY <1>t, <1>u, <1>o, <1>s
     DEF NoSequenceLost, TurnInv, RetainedStateOwnedOnce, Leased, SessionTypeOK
<1>6. ReleaseInv'
  BY <1>t, <1>u, <1>o, <1>d
     DEF ReleaseInv, TurnInv, RetainedStateOwnedOnce, Leased, SessionTypeOK
<1> QED BY <1>1, <1>2, <1>3, <1>4, <1>5, <1>6 DEF SessionIInv

(* FinishFailed keeps the invariant. *)
LEMMA FinishFailedKeeps ==
  ASSUME SessionIInv, NEW r \in Turns, FinishFailed(r)
  PROVE SessionIInv'
<1> USE SessionOfAssumption, MaxSessionsAssumption, NoStateAssumption DEF mgrVars
<1>t. SessionTypeOK /\ IsFiniteSet(entries) BY DEF SessionIInv
<1>l. \A q \in Turns : LeaseInv(q) BY DEF SessionIInv
<1>u. \A q \in Turns : TurnInv(q) BY DEF SessionIInv
<1>o. RetainedStateOwnedOnce BY DEF SessionIInv
<1>s. NoSequenceLost BY DEF SessionIInv
<1>d. ReleaseInv BY DEF SessionIInv
<1> USE DEF FinishFailed, Turn, InPhase, Step, ReleaseSessionLease, Reordered
<1>1. SessionTypeOK' /\ IsFiniteSet(entries')
  <2>1. IsFiniteSet(entries') /\ Cardinality(entries') <= MaxSessions
    <3> DEFINE rest == entries \ {SessionOf[r]}
    <3>1. /\ IsFiniteSet(rest) /\ Cardinality(rest) <= Cardinality(entries)
          /\ Cardinality(rest) \in Nat /\ Cardinality(entries) \in Nat
      BY <1>t, Shrinks, Zenon
    <3>2. entries' = rest \/ entries' = entries BY <1>t DEF SessionTypeOK
    <3> HIDE DEF rest
    <3> QED BY <1>t, <3>1, <3>2 DEF SessionTypeOK
  <2>2. older' \in [Sessions -> SUBSET entries'] BY <1>t DEF SessionTypeOK
  <2>3. inUse' \subseteq entries' /\ elapsed' \subseteq entries' /\ entries' \subseteq Sessions
    BY <1>t DEF SessionTypeOK
  <2>4. tableState' \in [Sessions -> Turns \cup {NoState}]
        /\ \A e \in Sessions \ entries' : tableState'[e] = NoState BY <1>t DEF SessionTypeOK
  <2> QED BY <1>t, <2>1, <2>2, <2>3, <2>4 DEF SessionTypeOK
<1>2. ASSUME NEW q \in Turns PROVE LeaseInv(q)'
  BY <1>t, <1>l DEF LeaseInv, Leasing, SessionTypeOK
<1>3. ASSUME NEW q \in Turns PROVE TurnInv(q)'
  BY <1>t, <1>l, <1>u, <1>o, <1>d
     DEF LeaseInv, Leasing, TurnInv, Unborn, ReleaseInv, RetainedStateOwnedOnce, Leased,
         SessionTypeOK
<1>4. RetainedStateOwnedOnce'
  BY <1>t, <1>l, <1>u, <1>o, <1>d
     DEF LeaseInv, Leasing, TurnInv, Unborn, ReleaseInv, RetainedStateOwnedOnce, Leased,
         SessionTypeOK
<1>5. NoSequenceLost'
  BY <1>t, <1>u, <1>o, <1>s
     DEF NoSequenceLost, TurnInv, RetainedStateOwnedOnce, Leased, SessionTypeOK
<1>6. ReleaseInv'
  BY <1>t, <1>u, <1>o, <1>d
     DEF ReleaseInv, TurnInv, RetainedStateOwnedOnce, Leased, SessionTypeOK
<1> QED BY <1>1, <1>2, <1>3, <1>4, <1>5, <1>6 DEF SessionIInv

(* FinishWithout keeps the invariant. *)
LEMMA FinishWithoutKeeps ==
  ASSUME SessionIInv, NEW r \in Turns, FinishWithout(r)
  PROVE SessionIInv'
<1> USE SessionOfAssumption, MaxSessionsAssumption, NoStateAssumption DEF mgrVars
<1>t. SessionTypeOK /\ IsFiniteSet(entries) BY DEF SessionIInv
<1>l. \A q \in Turns : LeaseInv(q) BY DEF SessionIInv
<1>u. \A q \in Turns : TurnInv(q) BY DEF SessionIInv
<1>o. RetainedStateOwnedOnce BY DEF SessionIInv
<1>s. NoSequenceLost BY DEF SessionIInv
<1>d. ReleaseInv BY DEF SessionIInv
<1> USE DEF FinishWithout, Turn, InPhase, Step, ReleaseSessionLease, Refresh, Reordered
<1>1. SessionTypeOK' /\ IsFiniteSet(entries')
  <2>1. IsFiniteSet(entries') /\ Cardinality(entries') <= MaxSessions
    <3> DEFINE rest == entries \ {SessionOf[r]}
    <3>1. /\ IsFiniteSet(rest) /\ Cardinality(rest) <= Cardinality(entries)
          /\ Cardinality(rest) \in Nat /\ Cardinality(entries) \in Nat
      BY <1>t, Shrinks, Zenon
    <3>2. entries' = rest \/ entries' = entries BY <1>t DEF SessionTypeOK
    <3> HIDE DEF rest
    <3> QED BY <1>t, <3>1, <3>2 DEF SessionTypeOK
  <2>2. older' \in [Sessions -> SUBSET entries'] BY <1>t DEF SessionTypeOK
  <2>3. inUse' \subseteq entries' /\ elapsed' \subseteq entries' /\ entries' \subseteq Sessions
    BY <1>t DEF SessionTypeOK
  <2>4. tableState' \in [Sessions -> Turns \cup {NoState}]
        /\ \A e \in Sessions \ entries' : tableState'[e] = NoState BY <1>t DEF SessionTypeOK
  <2> QED BY <1>t, <2>1, <2>2, <2>3, <2>4 DEF SessionTypeOK
<1>2. ASSUME NEW q \in Turns PROVE LeaseInv(q)'
  BY <1>t, <1>l DEF LeaseInv, Leasing, SessionTypeOK
<1>3. ASSUME NEW q \in Turns PROVE TurnInv(q)'
  BY <1>t, <1>l, <1>u, <1>o, <1>d
     DEF LeaseInv, Leasing, TurnInv, Unborn, ReleaseInv, RetainedStateOwnedOnce, Leased,
         SessionTypeOK
<1>4. RetainedStateOwnedOnce'
  BY <1>t, <1>l, <1>u, <1>o, <1>d
     DEF LeaseInv, Leasing, TurnInv, Unborn, ReleaseInv, RetainedStateOwnedOnce, Leased,
         SessionTypeOK
<1>5. NoSequenceLost'
  BY <1>t, <1>u, <1>o, <1>s
     DEF NoSequenceLost, TurnInv, RetainedStateOwnedOnce, Leased, SessionTypeOK
<1>6. ReleaseInv'
  BY <1>t, <1>u, <1>o, <1>d
     DEF ReleaseInv, TurnInv, RetainedStateOwnedOnce, Leased, SessionTypeOK
<1> QED BY <1>1, <1>2, <1>3, <1>4, <1>5, <1>6 DEF SessionIInv

(* FinishStateless keeps the invariant. *)
LEMMA FinishStatelessKeeps ==
  ASSUME SessionIInv, NEW r \in Turns, FinishStateless(r)
  PROVE SessionIInv'
<1> USE SessionOfAssumption, MaxSessionsAssumption, NoStateAssumption DEF mgrVars
<1>t. SessionTypeOK /\ IsFiniteSet(entries) BY DEF SessionIInv
<1>l. \A q \in Turns : LeaseInv(q) BY DEF SessionIInv
<1>u. \A q \in Turns : TurnInv(q) BY DEF SessionIInv
<1>o. RetainedStateOwnedOnce BY DEF SessionIInv
<1>s. NoSequenceLost BY DEF SessionIInv
<1>d. ReleaseInv BY DEF SessionIInv
<1> USE DEF FinishStateless, Turn, InPhase, Step
<1>1. SessionTypeOK' /\ IsFiniteSet(entries') BY <1>t, FS_EmptySet DEF SessionTypeOK
<1>2. ASSUME NEW q \in Turns PROVE LeaseInv(q)'
  BY <1>t, <1>l DEF LeaseInv, Leasing, SessionTypeOK
<1>3. ASSUME NEW q \in Turns PROVE TurnInv(q)'
  BY <1>t, <1>l, <1>u, <1>o, <1>d
     DEF LeaseInv, Leasing, TurnInv, Unborn, ReleaseInv, RetainedStateOwnedOnce, Leased,
         SessionTypeOK
<1>4. RetainedStateOwnedOnce'
  BY <1>t, <1>l, <1>u, <1>o, <1>d
     DEF LeaseInv, Leasing, TurnInv, Unborn, ReleaseInv, RetainedStateOwnedOnce, Leased,
         SessionTypeOK
<1>5. NoSequenceLost'
  BY <1>t, <1>u, <1>o, <1>s
     DEF NoSequenceLost, TurnInv, RetainedStateOwnedOnce, Leased, SessionTypeOK
<1>6. ReleaseInv'
  BY <1>t, <1>u, <1>o, <1>d
     DEF ReleaseInv, TurnInv, RetainedStateOwnedOnce, Leased, SessionTypeOK
<1> QED BY <1>1, <1>2, <1>3, <1>4, <1>5, <1>6 DEF SessionIInv

(* TtlElapses keeps the invariant. *)
LEMMA TtlElapsesKeeps ==
  ASSUME SessionIInv, NEW s \in Sessions, TtlElapses(s)
  PROVE SessionIInv'
<1> USE SessionOfAssumption, MaxSessionsAssumption, NoStateAssumption DEF mgrVars
<1>t. SessionTypeOK /\ IsFiniteSet(entries) BY DEF SessionIInv
<1>l. \A q \in Turns : LeaseInv(q) BY DEF SessionIInv
<1>u. \A q \in Turns : TurnInv(q) BY DEF SessionIInv
<1>o. RetainedStateOwnedOnce BY DEF SessionIInv
<1>s. NoSequenceLost BY DEF SessionIInv
<1>d. ReleaseInv BY DEF SessionIInv
<1> USE DEF TtlElapses
<1>1. SessionTypeOK' /\ IsFiniteSet(entries') BY <1>t, FS_EmptySet DEF SessionTypeOK
<1>2. ASSUME NEW q \in Turns PROVE LeaseInv(q)'
  BY <1>t, <1>l DEF LeaseInv, Leasing, SessionTypeOK
<1>3. ASSUME NEW q \in Turns PROVE TurnInv(q)'
  BY <1>t, <1>l, <1>u, <1>o, <1>d
     DEF LeaseInv, Leasing, TurnInv, Unborn, ReleaseInv, RetainedStateOwnedOnce, Leased,
         SessionTypeOK
<1>4. RetainedStateOwnedOnce'
  BY <1>t, <1>l, <1>u, <1>o, <1>d
     DEF LeaseInv, Leasing, TurnInv, Unborn, ReleaseInv, RetainedStateOwnedOnce, Leased,
         SessionTypeOK
<1>5. NoSequenceLost'
  BY <1>t, <1>u, <1>o, <1>s
     DEF NoSequenceLost, TurnInv, RetainedStateOwnedOnce, Leased, SessionTypeOK
<1>6. ReleaseInv'
  BY <1>t, <1>u, <1>o, <1>d
     DEF ReleaseInv, TurnInv, RetainedStateOwnedOnce, Leased, SessionTypeOK
<1> QED BY <1>1, <1>2, <1>3, <1>4, <1>5, <1>6 DEF SessionIInv

(* CollectExpired keeps the invariant. *)
LEMMA CollectExpiredKeeps ==
  ASSUME SessionIInv, CollectExpired
  PROVE SessionIInv'
<1> USE SessionOfAssumption, MaxSessionsAssumption, NoStateAssumption DEF mgrVars
<1>t. SessionTypeOK /\ IsFiniteSet(entries) BY DEF SessionIInv
<1>l. \A q \in Turns : LeaseInv(q) BY DEF SessionIInv
<1>u. \A q \in Turns : TurnInv(q) BY DEF SessionIInv
<1>o. RetainedStateOwnedOnce BY DEF SessionIInv
<1>s. NoSequenceLost BY DEF SessionIInv
<1>d. ReleaseInv BY DEF SessionIInv
<1> USE DEF CollectExpired, Some, Reordered
<1>1. SessionTypeOK' /\ IsFiniteSet(entries')
  BY <1>t, FS_Subset, FS_CardinalityType DEF SessionTypeOK
<1>2. ASSUME NEW q \in Turns PROVE LeaseInv(q)'
  BY <1>t, <1>l DEF LeaseInv, Leasing, SessionTypeOK
<1>3. ASSUME NEW q \in Turns PROVE TurnInv(q)'
  BY <1>t, <1>l, <1>u, <1>o, <1>d
     DEF LeaseInv, Leasing, TurnInv, Unborn, ReleaseInv, RetainedStateOwnedOnce, Leased,
         SessionTypeOK
<1>4. RetainedStateOwnedOnce'
  BY <1>t, <1>l, <1>u, <1>o, <1>d
     DEF LeaseInv, Leasing, TurnInv, Unborn, ReleaseInv, RetainedStateOwnedOnce, Leased,
         SessionTypeOK
<1>5. NoSequenceLost'
  BY <1>t, <1>u, <1>o, <1>s
     DEF NoSequenceLost, TurnInv, RetainedStateOwnedOnce, Leased, SessionTypeOK
<1>6. ReleaseInv'
  BY <1>t, <1>u, <1>o, <1>d
     DEF ReleaseInv, TurnInv, RetainedStateOwnedOnce, Leased, SessionTypeOK
<1> QED BY <1>1, <1>2, <1>3, <1>4, <1>5, <1>6 DEF SessionIInv

(* DrainAll keeps the invariant. *)
LEMMA DrainAllKeeps ==
  ASSUME SessionIInv, DrainAll
  PROVE SessionIInv'
<1> USE SessionOfAssumption, MaxSessionsAssumption, NoStateAssumption DEF mgrVars
<1>t. SessionTypeOK /\ IsFiniteSet(entries) BY DEF SessionIInv
<1>l. \A q \in Turns : LeaseInv(q) BY DEF SessionIInv
<1>u. \A q \in Turns : TurnInv(q) BY DEF SessionIInv
<1>o. RetainedStateOwnedOnce BY DEF SessionIInv
<1>s. NoSequenceLost BY DEF SessionIInv
<1>d. ReleaseInv BY DEF SessionIInv
<1> USE DEF DrainAll, Some, Reordered
<1>1. SessionTypeOK' /\ IsFiniteSet(entries') BY <1>t, FS_EmptySet DEF SessionTypeOK
<1>2. ASSUME NEW q \in Turns PROVE LeaseInv(q)'
  BY <1>t, <1>l DEF LeaseInv, Leasing, SessionTypeOK
<1>3. ASSUME NEW q \in Turns PROVE TurnInv(q)'
  BY <1>t, <1>l, <1>u, <1>o, <1>d
     DEF LeaseInv, Leasing, TurnInv, Unborn, ReleaseInv, RetainedStateOwnedOnce, Leased,
         SessionTypeOK
<1>4. RetainedStateOwnedOnce'
  BY <1>t, <1>l, <1>u, <1>o, <1>d
     DEF LeaseInv, Leasing, TurnInv, Unborn, ReleaseInv, RetainedStateOwnedOnce, Leased,
         SessionTypeOK
<1>5. NoSequenceLost'
  BY <1>t, <1>u, <1>o, <1>s
     DEF NoSequenceLost, TurnInv, RetainedStateOwnedOnce, Leased, SessionTypeOK
<1>6. ReleaseInv'
  BY <1>t, <1>u, <1>o, <1>d
     DEF ReleaseInv, TurnInv, RetainedStateOwnedOnce, Leased, SessionTypeOK
<1> QED BY <1>1, <1>2, <1>3, <1>4, <1>5, <1>6 DEF SessionIInv

(* ReleaseSessionState keeps the invariant. *)
LEMMA ReleaseSessionStateKeeps ==
  ASSUME SessionIInv, NEW x \in Turns, ReleaseSessionState(x)
  PROVE SessionIInv'
<1> USE SessionOfAssumption, MaxSessionsAssumption, NoStateAssumption DEF mgrVars
<1>t. SessionTypeOK /\ IsFiniteSet(entries) BY DEF SessionIInv
<1>l. \A q \in Turns : LeaseInv(q) BY DEF SessionIInv
<1>u. \A q \in Turns : TurnInv(q) BY DEF SessionIInv
<1>o. RetainedStateOwnedOnce BY DEF SessionIInv
<1>s. NoSequenceLost BY DEF SessionIInv
<1>d. ReleaseInv BY DEF SessionIInv
<1> USE DEF ReleaseSessionState
<1>1. SessionTypeOK' /\ IsFiniteSet(entries') BY <1>t, FS_EmptySet DEF SessionTypeOK
<1>2. ASSUME NEW q \in Turns PROVE LeaseInv(q)'
  BY <1>t, <1>l DEF LeaseInv, Leasing, SessionTypeOK
<1>3. ASSUME NEW q \in Turns PROVE TurnInv(q)'
  BY <1>t, <1>l, <1>u, <1>o, <1>d
     DEF LeaseInv, Leasing, TurnInv, Unborn, ReleaseInv, RetainedStateOwnedOnce, Leased,
         SessionTypeOK
<1>4. RetainedStateOwnedOnce'
  BY <1>t, <1>l, <1>u, <1>o, <1>d
     DEF LeaseInv, Leasing, TurnInv, Unborn, ReleaseInv, RetainedStateOwnedOnce, Leased,
         SessionTypeOK
<1>5. NoSequenceLost'
  BY <1>t, <1>u, <1>o, <1>s
     DEF NoSequenceLost, TurnInv, RetainedStateOwnedOnce, Leased, SessionTypeOK
<1>6. ReleaseInv'
  BY <1>t, <1>u, <1>o, <1>d
     DEF ReleaseInv, TurnInv, RetainedStateOwnedOnce, Leased, SessionTypeOK
<1> QED BY <1>1, <1>2, <1>3, <1>4, <1>5, <1>6 DEF SessionIInv

(* A step that changes nothing keeps the invariant. *)
LEMMA StutterKeeps ==
  ASSUME SessionIInv, UNCHANGED sessionVars
  PROVE SessionIInv'
<1> USE DEF SessionIInv, sessionVars, mgrVars
<1>1. SessionTypeOK' /\ IsFiniteSet(entries') BY DEF SessionTypeOK
<1>2. \A q \in Turns : LeaseInv(q)' /\ TurnInv(q)' BY DEF LeaseInv, Leasing, TurnInv, Unborn
<1>3. RetainedStateOwnedOnce' BY DEF RetainedStateOwnedOnce, Leased
<1>4. NoSequenceLost' /\ ReleaseInv' BY DEF NoSequenceLost, ReleaseInv
<1> QED BY <1>1, <1>2, <1>3, <1>4

(* Every step preserves the invariant. *)
LEMMA SessionNextIInv == SessionIInv /\ [SessionNext]_sessionVars => SessionIInv'
BY AcquireNewKeeps, AcquireIdleKeeps, AcquireBusyKeeps, AdmitWarmKeeps,
   DiscardIncompatibleKeeps, TurnOverflowsKeeps, AdmitColdKeeps, NotAdmittedKeeps,
   TurnPrefillFailsKeeps, CommitLeaseKeeps, FinishFailedKeeps, FinishWithoutKeeps,
   FinishStatelessKeeps, TtlElapsesKeeps, CollectExpiredKeeps, DrainAllKeeps,
   ReleaseSessionStateKeeps, StutterKeeps
   DEF SessionNext

(* Without sessions nothing is leased or retained. *)
LEMMA SessionInitIInv == SessionInit => SessionIInv
<1> SUFFICES ASSUME SessionInit PROVE SessionIInv OBVIOUS
<1> USE SessionOfAssumption, MaxSessionsAssumption, NoStateAssumption DEF SessionInit
<1>1. SessionTypeOK /\ IsFiniteSet(entries)
  <2>1. Cardinality(entries) = 0 /\ IsFiniteSet(entries) BY FS_EmptySet
  <2>2. tableState \in [Sessions -> Turns \cup {NoState}] /\ older \in [Sessions -> SUBSET entries]
    OBVIOUS
  <2>3. turn \in [Turns -> {"new", "leased", "running", "stateless", "done"}]
    OBVIOUS
  <2>4. seq \in [Turns -> Turns \cup {NoState}]
    OBVIOUS
  <2>5. \A s \in Sessions \ entries : tableState[s] = NoState
    OBVIOUS
  <2>6. Cardinality(entries) <= MaxSessions
    BY ONLY <2>1, MaxSessionsAssumption
  <2>7. /\ entries \subseteq Sessions /\ inUse \subseteq entries /\ elapsed \subseteq entries
        /\ liveSeqs \subseteq Turns /\ cleanup \subseteq Turns /\ expired \subseteq Turns
        /\ drainedAll \in BOOLEAN
    BY Zenon
  <2> QED BY ONLY <2>1, <2>2, <2>3, <2>4, <2>5, <2>6, <2>7 DEF SessionTypeOK
<1>2. \A r \in Turns : LeaseInv(r) /\ TurnInv(r) BY DEF LeaseInv, Leasing, TurnInv, Unborn
<1> QED BY <1>1, <1>2
       DEF SessionIInv, RetainedStateOwnedOnce, NoSequenceLost, ReleaseInv

(* The invariant bounds the number of leases by one. *)
LEMMA OneLease == SessionIInv => OneLeasePerSession
<1> SUFFICES ASSUME SessionIInv, NEW s \in Sessions
             PROVE  Cardinality(Leased(s)) <= 1 /\ (Leased(s) # {} => s \in inUse)
  BY DEF OneLeasePerSession
<1>1. CASE Leased(s) = {} BY <1>1, FS_EmptySet
<1>2. ASSUME NEW r \in Leased(s) PROVE Leased(s) = {r} /\ s \in inUse
  BY <1>2 DEF SessionIInv, LeaseInv, Leasing, Leased
<1>3. CASE Leased(s) # {}
  <2>1. PICK r : Leased(s) = {r} /\ s \in inUse BY <1>2, <1>3
  <2>2. Cardinality({r}) = 1 BY FS_Singleton
  <2> QED BY <2>1, <2>2
<1> QED BY <1>1, <1>3

(* The retained sequence of a session has one owner, the table or one turn,   *)
(* whatever the number of sessions, requests and entries: leases are          *)
(* exclusive, a retained sequence is live, and no live sequence is forgotten. *)
THEOREM SessionsStaySafe == SessionSpec => []SessionsSafe
<1>1. SessionIInv => SessionsSafe
  BY OneLease DEF SessionIInv, SessionsSafe
<1> QED BY <1>1, SessionInitIInv, SessionNextIInv, PTL DEF SessionSpec

=============================================================================
