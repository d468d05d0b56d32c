--------------------------- MODULE SlotLifecycle ---------------------------
(***************************************************************************)
(* How scheduler/scheduler.cpp uses the slot manager: AllocSeqSlot,        *)
(* FreeSeqSlot, PollDeferredSequenceRetirements, ReleaseSessionState, the  *)
(* admission part of ProcessBatch, prefix donation and donor eviction, and *)
(* KV hydration in the decode workers, together with the backend's KV      *)
(* memory behind each slot.                                                *)
(*                                                                         *)
(* Three kinds of thread run these procedures: the WorkerLoop thread, the  *)
(* decode workers and the eviction thread.  thr[t] is where thread t is in *)
(* its procedure; a step is what one lock of the code covers.  Block       *)
(* tables, tokens and radix paths are left out: a lookup is a free choice  *)
(* of donor, and the least recently used donor is a free choice of victim. *)
(***************************************************************************)
EXTENDS SequenceSlots, FiniteSets

CONSTANTS
  Worker,        \* the WorkerLoop thread
  Evictor,       \* the eviction thread
  Decoders,      \* threads that may be decode workers
  Configs,       \* the scheduler configurations:
                 \*   pool     the decode workers; {}: unified mode
                 \*   blob     the KV transport is not process-local: packets
                 \*            carry the KV, and decode workers hydrate it
                 \*   limited  the backend publishes a per-slot context limit
  MaxDonors,     \* RadixPrefixCache max_sequences_
  None

ASSUME ThreadAssumption == Worker \notin Decoders /\ Evictor \notin Decoders
                           /\ Worker # Evictor
ASSUME ConfigsAssumption ==
  Configs \subseteq [pool : SUBSET Decoders, blob : BOOLEAN, limited : BOOLEAN]
ASSUME MaxDonorsAssumption == MaxDonors \in Nat
ASSUME NoneAssumption == None \notin Slots /\ None \notin Requests /\ None \notin Leases

VARIABLES
  config,    \* config_, fixed by the constructor
  thr,       \* per thread: pc, and the lease, request, donors it works on
  phase,     \* per request: new, local or worker (the lane that decodes it),
             \* handoff (its KV blob is in transit), done
  reqLease,  \* per request: inference.sequence_id / sequence_generation
  donors,    \* slots owned by radix nodes (node sequence_id)
  session,   \* the one session entry: in-use request, retained lease
  deferred,  \* deferred_sequence_retirements_
  drained,   \* slots whose recorded backend events have all fired
  kv         \* backend KV of a slot: the generation that wrote it, 0 if clear

lifeVars == <<config, thr, phase, reqLease, donors, session, deferred, drained, kv>>
allVars == <<vars, lifeVars>>

Threads == {Worker, Evictor} \cup Decoders
Split == config.pool # {}    \* use_decode_workers_; it disables session handles

\* A split scheduler still decodes the requests of non-split backends locally.
\* A full KV channel sends a request back to the prefill queue, or fails it
\* when its retries are exhausted.
Lanes == IF Split THEN {"local", "worker"} ELSE {"local"}
Rejections == IF Split THEN {"new", "done"} ELSE {}
Outcomes == Lanes \cup Rejections

PCs == {"idle", "poll", "acquire", "dropdonor", "copy", "prefill", "hydrate",
        "free", "beginfree", "release", "reap"}
IdleThread == [pc |-> "idle", lease |-> None, req |-> None,
               cand |-> None, evicted |-> {}, poll |-> {}]

LTypeOK ==
  /\ TypeOK
  /\ config \in Configs
  /\ thr \in [Threads -> [pc : PCs, lease : Leases \cup {None},
                          req : Requests \cup {None}, cand : Slots \cup {None},
                          evicted : SUBSET Slots, poll : SUBSET Leases]]
  /\ phase \in [Requests -> {"new", "local", "worker", "handoff", "done"}]
  /\ reqLease \in [Requests -> Leases \cup {None}]
  /\ donors \subseteq Slots
  /\ session \in [inUse : Requests \cup {None}, lease : Leases \cup {None}]
  /\ deferred \subseteq issued
  /\ drained \subseteq Slots
  /\ kv \in [Slots -> 0 .. MaxGen]

LInit ==
  /\ Init
  /\ config \in Configs
  /\ thr = [t \in Threads |-> IdleThread]
  /\ phase = [r \in Requests |-> "new"]
  /\ reqLease = [r \in Requests |-> None]
  /\ donors = {}
  /\ session = [inUse |-> None, lease |-> None]
  /\ deferred = {}
  /\ drained = {}
  /\ kv = [s \in Slots |-> 0]

At(t, pc) == thr[t].pc = pc
Current(s) == Lease(s, generation[s])
Clear(s) == kv' = [kv EXCEPT ![s] = 0]
GoTo(t, rec) == thr' = [thr EXCEPT ![t] = rec]
Rest(t) == GoTo(t, IdleThread)
FreeThread(l) == [IdleThread EXCEPT !.pc = "free", !.lease = l]

---------------------------------------------------------------------------
(* FreeSeqSlot(slot, generation, backend). *)

\* Validate and retire under a pending fence; a stale lease is rejected.
FreeRetire(t) ==
  /\ At(t, "free")
  /\ \/ /\ RetireLease(thr[t].lease, "pending")
        /\ GoTo(t, [thr[t] EXCEPT !.pc = "beginfree"])
     \/ /\ ~ValidLease(thr[t].lease, Occupied)
        /\ Rest(t)
        /\ UNCHANGED vars
  /\ UNCHANGED <<config, phase, reqLease, donors, session, deferred, drained, kv>>

\* BeginFreeSequence: synchronous backends clear the KV at once and the lease
\* completes; the native one records events and the lease is deferred.
FreeBegin(t) ==
  /\ At(t, "beginfree")
  /\ LET l == thr[t].lease IN
       \/ /\ Clear(l.slot)
          /\ CompleteRetiredLease(l)
          /\ UNCHANGED <<deferred, drained>>
       \/ /\ deferred' = deferred \cup {l}
          /\ drained' = drained \ {l.slot}
          /\ UNCHANGED <<vars, kv>>
  /\ Rest(t)
  /\ UNCHANGED <<config, phase, reqLease, donors, session>>

\* FreeSeqSlot(slot, generation) without a backend: ReleaseStaleSequenceLease.
FreeNoBackend(t) ==
  /\ At(t, "release")
  /\ \/ /\ ReleaseLease(thr[t].lease)
        /\ GoTo(t, [thr[t] EXCEPT !.pc = "reap"])
     \/ /\ ~ValidLease(thr[t].lease, Occupied)
        /\ Rest(t)
        /\ UNCHANGED vars
  /\ UNCHANGED <<config, phase, reqLease, donors, session, deferred, drained, kv>>

FreeNoBackendReap(t) ==
  /\ At(t, "reap")
  /\ ReleaseLeaseReap(thr[t].lease)
  /\ Rest(t)
  /\ UNCHANGED <<config, phase, reqLease, donors, session, deferred, drained, kv>>

\* The events recorded by BeginFreeSequence fire on their streams.
StreamsDrain(s) ==
  /\ \E l \in deferred : l.slot = s
  /\ s \notin drained
  /\ drained' = drained \cup {s}
  /\ UNCHANGED <<config, vars, thr, phase, reqLease, donors, session, deferred, kv>>

---------------------------------------------------------------------------
(* PollDeferredSequenceRetirements, the first step of AllocSeqSlot and of  *)
(* every round of the eviction thread.                                     *)

ReadyRetirements == {l \in deferred : l.slot \in drained}

\* PollFreeSequence finds the events fired and clears the KV of the slot, and
\* the lease completes.
PollComplete(t) ==
  /\ At(t, "poll")
  /\ \E l \in thr[t].poll \cap deferred :
       /\ Clear(l.slot)
       /\ deferred' = deferred \ {l}
       /\ drained' = drained \ {l.slot}
       /\ CompleteRetiredLease(l)
  /\ UNCHANGED <<config, thr, phase, reqLease, donors, session>>

\* The scan is over: AllocSeqSlot goes on to AcquireLease, the eviction thread
\* to CollectExpired.
PollDone(t) ==
  /\ At(t, "poll")
  /\ thr[t].poll \cap deferred = {}
  /\ IF t # Evictor
       THEN /\ GoTo(t, [thr[t] EXCEPT !.pc = "acquire", !.poll = {}])
            /\ UNCHANGED session
       ELSE \/ /\ session.inUse = None /\ session.lease # None
               /\ GoTo(t, FreeThread(session.lease))
               /\ session' = [session EXCEPT !.lease = None]
            \/ Rest(t) /\ UNCHANGED session
  /\ UNCHANGED <<config, vars, phase, reqLease, donors, deferred, drained, kv>>

\* Mutant of EvictorWakes: the round does not poll the deferred retirements.
EvictorWakesNoPoll ==
  /\ At(Evictor, "idle")
  /\ GoTo(Evictor, [IdleThread EXCEPT !.pc = "poll"])
  /\ UNCHANGED <<config, vars, phase, reqLease, donors, session, deferred, drained, kv>>

EvictorWakes ==
  /\ At(Evictor, "idle")
  /\ GoTo(Evictor, [IdleThread EXCEPT !.pc = "poll", !.poll = ReadyRetirements])
  /\ UNCHANGED <<config, vars, phase, reqLease, donors, session, deferred, drained, kv>>

---------------------------------------------------------------------------
(* AllocSeqSlot after the poll. *)

BeginAlloc(t, r, cand) ==
  GoTo(t, [IdleThread EXCEPT !.pc = "poll", !.req = r, !.cand = cand,
                             !.poll = ReadyRetirements])

AllocAcquire(t) ==
  /\ At(t, "acquire")
  /\ AcquireLease(thr[t].req, 0)
  /\ \E s \in FindFreeSlot(0) :
       GoTo(t, [thr[t] EXCEPT !.pc = IF t = Worker THEN "copy" ELSE "hydrate",
                              !.lease = Lease(s, generation[s] + 1)])
  /\ UNCHANGED <<config, phase, reqLease, donors, session, deferred, drained, kv>>

\* EvictOneSequence: the victim's KV is cleared and its node loses the slot;
\* the callback, which releases the slot, runs next.
RetireDonor(t, d, rec) ==
  /\ donors' = donors \ {d}
  /\ Clear(d)
  /\ GoTo(t, [rec EXCEPT !.pc = "dropdonor", !.lease = Current(d),
                         !.evicted = @ \cup {d}])

\* Mutant of AllocEvict: the victim is not reported to the caller.
AllocEvictUnreported(t) ==
  /\ At(t, "acquire")
  /\ FreeAfterReap(0) = {}
  /\ \E d \in donors :
       /\ donors' = donors \ {d}
       /\ Clear(d)
       /\ GoTo(t, [thr[t] EXCEPT !.pc = "dropdonor", !.lease = Current(d)])
  /\ UNCHANGED <<config, vars, phase, reqLease, session, deferred, drained>>

AllocEvict(t) ==
  /\ At(t, "acquire")
  /\ FreeAfterReap(0) = {}
  /\ \E d \in donors : RetireDonor(t, d, thr[t])
  /\ UNCHANGED <<config, vars, phase, reqLease, session, deferred, drained>>

\* The eviction callback: FreeSeqSlot(seq_id, 0, backend), the legacy path,
\* whose ReleaseSlot names the slot only and resets it whoever has it.
DropDonor(t) ==
  /\ At(t, "dropdonor")
  /\ LET s == thr[t].lease.slot IN
       /\ ResetSlots({s})
       /\ held' = held \ {Current(s)}
  /\ UNCHANGED <<maxSlots, generation, issued, releasing>>
  /\ IF thr[t].req = None THEN Rest(t)
     ELSE GoTo(t, [thr[t] EXCEPT !.pc = "acquire", !.lease = None])
  /\ UNCHANGED <<config, phase, reqLease, donors, session, deferred, drained, kv>>

\* No slot and no donor: the request decodes without a sequence.
AllocFails(t) ==
  /\ At(t, "acquire")
  /\ FreeAfterReap(0) = {} /\ donors = {}
  /\ \E lane \in IF t = Worker THEN Outcomes ELSE {"worker"} :
       phase' = [phase EXCEPT ![thr[t].req] = lane]
  /\ Rest(t)
  /\ UNCHANGED <<config, vars, reqLease, donors, session, deferred, drained, kv>>

---------------------------------------------------------------------------
(* ProcessBatch: admission of one request by the WorkerLoop thread. *)

Busy(r) == \E t \in Threads : thr[t].req = r
OwnsSession(r) == session.inUse = r

\* Lookup picks a donor or none, then AllocSeqSlot begins.
Admit(r) ==
  /\ At(Worker, "idle") /\ phase[r] = "new"
  /\ OwnsSession(r) => session.lease = None
  /\ \E cand \in donors \cup {None} : BeginAlloc(Worker, r, cand)
  /\ UNCHANGED <<config, vars, phase, reqLease, donors, session, deferred, drained, kv>>

\* A request that decodes without a sequence: structured output, images, an
\* embedding, no ready backend, or a queued request the fairness controller
\* swapped in before its prefill.
AdmitWithoutSequence(r) ==
  /\ At(Worker, "idle") /\ phase[r] = "new" /\ ~OwnsSession(r)
  /\ phase' = [phase EXCEPT ![r] = "local"]
  /\ UNCHANGED <<config, vars, thr, reqLease, donors, session, deferred, drained, kv>>

\* The donor used by the copy: dropped when this admission retired it.
CopySource(t) == IF thr[t].cand \in thr[t].evicted THEN None ELSE thr[t].cand

\* With blocks reserved, CopySequencePrefix fills the new slot from the donor;
\* without, the slot is given back before anything was written to it.
CopyPrefix(t) ==
  /\ At(t, "copy")
  /\ \/ /\ kv' = IF CopySource(t) = None THEN kv
                 ELSE [kv EXCEPT ![thr[t].lease.slot] = thr[t].lease.gen]
        /\ GoTo(t, [thr[t] EXCEPT !.pc = "prefill", !.cand = None, !.evicted = {}])
        /\ UNCHANGED phase
     \/ /\ GoTo(t, [IdleThread EXCEPT !.pc = "release", !.lease = thr[t].lease])
        /\ \E lane \in Outcomes : phase' = [phase EXCEPT ![thr[t].req] = lane]
        /\ UNCHANGED kv
  /\ UNCHANGED <<config, vars, reqLease, donors, session, deferred, drained>>

\* ExecutePhasedPrefillStep and its fallbacks succeed, and the request goes to
\* its lane, through the transport when that carries KV blobs.
PrefillOk(t) ==
  /\ At(t, "prefill")
  /\ LET r == thr[t].req  l == thr[t].lease IN
       /\ kv' = [kv EXCEPT ![l.slot] = l.gen]
       /\ reqLease' = [reqLease EXCEPT ![r] = l]
       /\ \E lane \in Lanes :
            phase' = [phase EXCEPT ![r] = IF lane = "worker" /\ config.blob
                                            THEN "handoff" ELSE lane]
  /\ Rest(t)
  /\ UNCHANGED <<config, vars, donors, session, deferred, drained>>

\* The prefill succeeds but the KV channel rejects the packet: the slot is
\* freed before the request is queued again or failed.
EnqueueRejected(t) ==
  /\ At(t, "prefill")
  /\ LET r == thr[t].req  l == thr[t].lease IN
       /\ kv' = [kv EXCEPT ![l.slot] = l.gen]
       /\ \E p \in Rejections : phase' = [phase EXCEPT ![r] = p]
       /\ GoTo(t, FreeThread(l))
  /\ UNCHANGED <<config, vars, reqLease, donors, session, deferred, drained>>

\* Mutant of PrefillFails: only the session path frees the slot.
PrefillFailsLeak(t) ==
  /\ At(t, "prefill")
  /\ LET r == thr[t].req  l == thr[t].lease IN
       /\ kv' = [kv EXCEPT ![l.slot] = l.gen]
       /\ \E lane \in Outcomes : phase' = [phase EXCEPT ![r] = lane]
       /\ session' = IF OwnsSession(r) THEN [session EXCEPT !.lease = None] ELSE session
       /\ IF OwnsSession(r) THEN GoTo(t, FreeThread(l)) ELSE Rest(t)
  /\ UNCHANGED <<config, vars, reqLease, donors, deferred, drained>>

\* Every prefill attempt fails: a session's retained state is discarded with
\* the slot, and the request decodes without a sequence.
PrefillFails(t) ==
  /\ At(t, "prefill")
  /\ LET r == thr[t].req  l == thr[t].lease IN
       /\ kv' = [kv EXCEPT ![l.slot] = l.gen]
       /\ \E lane \in Outcomes : phase' = [phase EXCEPT ![r] = lane]
       /\ session' = IF OwnsSession(r) THEN [session EXCEPT !.lease = None] ELSE session
       /\ GoTo(t, FreeThread(l))
  /\ UNCHANGED <<config, vars, reqLease, donors, deferred, drained>>

---------------------------------------------------------------------------
(* DecodeWorkerLoop: hydration of a packet that carries a KV blob. *)

\* The decode workers run slot operations under queue_mutex_.
DecodersIdle == \A t \in Decoders : At(t, "idle")

Hydrate(t, r) ==
  /\ t \in config.pool /\ DecodersIdle /\ phase[r] = "handoff" /\ ~Busy(r)
  /\ BeginAlloc(t, r, None)
  /\ UNCHANGED <<config, vars, phase, reqLease, donors, session, deferred, drained, kv>>

\* The hydrated slot replaces the lease of the prefill; a failed hydration
\* gives the new slot back.
HydrateDone(t) ==
  /\ At(t, "hydrate")
  /\ LET r == thr[t].req  l == thr[t].lease IN
       /\ phase' = [phase EXCEPT ![r] = "worker"]
       /\ \/ /\ kv' = [kv EXCEPT ![l.slot] = l.gen]
             /\ reqLease' = [reqLease EXCEPT ![r] = l]
             /\ Rest(t)
          \/ /\ GoTo(t, [IdleThread EXCEPT !.pc = "release", !.lease = l])
             /\ UNCHANGED <<kv, reqLease>>
  /\ UNCHANGED <<config, vars, donors, session, deferred, drained>>

\* A decode worker drained the packet while another thread had the request:
\* it times out and the request decodes on the slot of its prefill.
PacketMissed(r) ==
  /\ phase[r] = "handoff" /\ ~Busy(r)
  /\ phase' = [phase EXCEPT ![r] = "worker"]
  /\ UNCHANGED <<config, vars, thr, reqLease, donors, session, deferred, drained, kv>>

\* A split scheduler requeues a yielded local request to the decode workers,
\* and ApplyFairness may take a request back from their queue.
ChangeLane(r) ==
  /\ Split /\ ~Busy(r)
  /\ \/ phase[r] = "local" /\ phase' = [phase EXCEPT ![r] = "worker"]
     \/ phase[r] \in {"worker", "handoff"} /\ phase' = [phase EXCEPT ![r] = "local"]
  /\ UNCHANGED <<config, vars, thr, reqLease, donors, session, deferred, drained, kv>>

---------------------------------------------------------------------------
(* End of a request. *)

\* MarkProcessing before every execution of a request with a sequence.
Execute(r) ==
  /\ phase[r] \in {"local", "worker"} /\ reqLease[r] # None
  /\ MarkProcessing(reqLease[r].slot)
  /\ UNCHANGED lifeVars

Finishing(t, r) ==
  /\ At(t, "idle") /\ ~Busy(r)
  /\ \/ phase[r] = "local" /\ t = Worker
     \/ phase[r] = "worker" /\ t \in config.pool /\ DecodersIdle
  /\ phase' = [phase EXCEPT ![r] = "done"]
  /\ reqLease' = [reqLease EXCEPT ![r] = None]

\* FreeSeqSlot, the end of a request that neither donates nor has a session.
FinishFree(t, r) ==
  /\ Finishing(t, r) /\ ~OwnsSession(r)
  /\ IF reqLease[r] = None THEN UNCHANGED thr ELSE GoTo(t, FreeThread(reqLease[r]))
  /\ UNCHANGED <<config, vars, donors, session, deferred, drained, kv>>

\* Insert takes the slot over; it may retire another donor, whose node the new
\* one replaces or which is over the limit.
FinishDonate(r) ==
  /\ Finishing(Worker, r) /\ ~OwnsSession(r) /\ reqLease[r] # None
  /\ \/ /\ Cardinality(donors) < MaxDonors
        /\ donors' = donors \cup {reqLease[r].slot}
        /\ UNCHANGED <<thr, kv>>
     \/ \E d \in donors :
          /\ donors' = (donors \ {d}) \cup {reqLease[r].slot}
          /\ Clear(d)
          /\ GoTo(Worker, [IdleThread EXCEPT !.pc = "dropdonor", !.lease = Current(d)])
  /\ UNCHANGED <<config, vars, session, deferred, drained>>

---------------------------------------------------------------------------
(* Session handles: the lease is taken at admission and given back by      *)
(* FinalizeSessionLease.  A request that finds the session busy is         *)
(* admitted without it, which is Admit.                                    *)

SessionAcquire(r) ==
  /\ ~Split /\ At(Worker, "idle") /\ phase[r] = "new"
  /\ session.inUse = None
  /\ LET l == session.lease IN
       \/ /\ l = None        \* cold
          /\ session' = [session EXCEPT !.inUse = r]
          /\ UNCHANGED <<vars, thr, phase>>
       \/ /\ l # None        \* warm, but expired or incompatible: released
          /\ session' = [inUse |-> r, lease |-> None]
          /\ GoTo(Worker, FreeThread(l))
          /\ UNCHANGED <<vars, phase>>
       \/ /\ l # None        \* warm: the retained slot is restored
          /\ session' = [session EXCEPT !.inUse = r]
          /\ RestoreLease(l, r)
          /\ GoTo(Worker, [IdleThread EXCEPT !.pc = "prefill", !.lease = l, !.req = r])
          /\ UNCHANGED phase
       \/ /\ l # None        \* warm, but no blocks or restore rejected
          /\ session' = [session EXCEPT !.inUse = r]
          /\ phase' = [phase EXCEPT ![r] = "local"]
          /\ UNCHANGED <<vars, thr>>
  /\ UNCHANGED <<config, reqLease, donors, deferred, drained, kv>>

\* Context overflow: the promise is set and the loop continues with the next
\* request; the session lease taken just before is not given back.
OverflowReject(r) ==
  /\ config.limited /\ At(Worker, "idle") /\ phase[r] = "new"
  /\ \/ session.inUse = None /\ ~Split /\ session' = [session EXCEPT !.inUse = r]
     \/ UNCHANGED session
  /\ phase' = [phase EXCEPT ![r] = "done"]
  /\ UNCHANGED <<config, vars, thr, reqLease, donors, deferred, drained, kv>>

\* Mutant of FinishSession: the manager keeps its copy of the retired lease.
FinishSessionKeepCopy(r) ==
  /\ Finishing(Worker, r) /\ OwnsSession(r)
  /\ LET l == reqLease[r] IN
       \/ /\ l # None
          /\ session' = [inUse |-> None, lease |-> l]
          /\ \/ MarkCompleted(l)
             \/ ~ValidLease(l, Occupied) /\ UNCHANGED vars
          /\ UNCHANGED thr
       \/ /\ l # None
          /\ session' = [session EXCEPT !.inUse = None]
          /\ GoTo(Worker, FreeThread(l))
          /\ UNCHANGED vars
       \/ /\ l = None
          /\ session' = [session EXCEPT !.inUse = None]
          /\ UNCHANGED <<vars, thr>>
  /\ UNCHANGED <<config, donors, deferred, drained, kv>>

\* FinalizeSessionLease: commit the slot to the session, or discard the
\* session's copy and free it, or, with no slot, just give the lease back.
FinishSession(r) ==
  /\ Finishing(Worker, r) /\ OwnsSession(r)
  /\ LET l == reqLease[r] IN
       \/ /\ l # None
          /\ session' = [inUse |-> None, lease |-> l]
          /\ \/ MarkCompleted(l)
             \/ ~ValidLease(l, Occupied) /\ UNCHANGED vars
          /\ UNCHANGED thr
       \/ /\ l # None
          /\ session' = [inUse |-> None, lease |-> None]
          /\ GoTo(Worker, FreeThread(l))
          /\ UNCHANGED vars
       \/ /\ l = None
          /\ session' = [session EXCEPT !.inUse = None]
          /\ UNCHANGED <<vars, thr>>
  /\ UNCHANGED <<config, donors, deferred, drained, kv>>

---------------------------------------------------------------------------
SlotProcedures(t) ==
  \/ FreeRetire(t) \/ FreeBegin(t) \/ FreeNoBackend(t) \/ FreeNoBackendReap(t)
  \/ PollComplete(t) \/ PollDone(t)
  \/ AllocAcquire(t) \/ AllocEvict(t) \/ DropDonor(t) \/ AllocFails(t)
  \/ CopyPrefix(t) \/ PrefillOk(t) \/ EnqueueRejected(t) \/ PrefillFails(t)
  \/ HydrateDone(t)

LNext ==
  \/ \E t \in Threads : SlotProcedures(t)
  \/ \E s \in Slots : StreamsDrain(s)
  \/ EvictorWakes
  \/ \E r \in Requests :
       \/ Admit(r) \/ AdmitWithoutSequence(r) \/ SessionAcquire(r)
       \/ OverflowReject(r) \/ Execute(r) \/ PacketMissed(r) \/ ChangeLane(r)
       \/ FinishDonate(r) \/ FinishSession(r)
       \/ \E t \in Decoders : Hydrate(t, r)
       \/ \E t \in Threads : FinishFree(t, r)

LSpec == LInit /\ [][LNext]_allVars

\* A thread inside a procedure keeps running, the eviction thread wakes every
\* 30 seconds, and recorded events fire.
LFairSpec ==
  /\ LSpec
  /\ \A t \in Threads : WF_allVars(SlotProcedures(t))
  /\ WF_allVars(EvictorWakes)
  /\ \A s \in Slots : WF_allVars(StreamsDrain(s))

---------------------------------------------------------------------------
(* Properties. *)

\* The owner of a slot, for the abstract specification.
SlotOwner(s) ==
  IF \E r \in Requests : reqLease[r] = Current(s)
    THEN CHOOSE r \in Requests : reqLease[r] = Current(s)
  ELSE IF s \in donors THEN "radix"
  ELSE IF state[s] = "Retiring" /\ fence[s] = "pending" THEN "draining"
  ELSE IF state[s] \notin Occupied THEN "free"
  ELSE IF \E t \in Threads : thr[t].lease = Current(s) THEN "thread"
  ELSE IF session.lease = Current(s) THEN "session"
  ELSE "lost"

Ownership == INSTANCE SlotOwnership
  WITH owner <- [s \in Slots |-> SlotOwner(s)],
       clean <- [s \in Slots |-> kv[s] = 0],
       lossy <- config.blob

(* The leases, fences, deferred retirements, donor evictions and session    *)
(* hand-offs of scheduler.cpp implement plain single ownership: every step  *)
(* moves a slot along the abstract protocol, only its owner writes or       *)
(* clears its KV, and it is clean when it becomes free.                     *)
OwnershipProtocol == Ownership!Spec

(* The KV a live sequence relies on is the KV it wrote: no stale or         *)
(* duplicate FreeSeqSlot, deferred clear, donor eviction or session release *)
(* clears or overwrites the sequence of a running request, of a radix donor *)
(* or of a retained session.                                                *)
LiveSequenceKVIntact ==
  /\ \A r \in Requests : reqLease[r] # None
       => kv[reqLease[r].slot] = reqLease[r].gen /\ reqLease[r] \in held
  /\ \A d \in donors : kv[d] = generation[d] /\ Current(d) \in held
  /\ session.inUse = None /\ session.lease # None
       => kv[session.lease.slot] = session.lease.gen /\ session.lease \in held

(* A slot handed out by AllocSeqSlot has a cleared KV sequence: it never    *)
(* still holds a previous request's positions (issue #161).                 *)
AcquiredSlotIsClear ==
  \A t \in Threads : At(t, "copy") \/ At(t, "hydrate") => kv[thr[t].lease.slot] = 0

(* The donor matched by Lookup is still a donor when CopySequencePrefix     *)
(* reads it, unless the admission itself retired it and dropped it.  Decode *)
(* workers that hydrate retire donors too, without telling the admission.   *)
DonorSurvivesUntilCopy ==
  ~config.blob =>
    \A t \in Threads : At(t, "copy") /\ CopySource(t) # None => CopySource(t) \in donors

(* A slot has one owner: no two requests, and no request and donor or idle  *)
(* session, own the same slot.                                              *)
OneOwnerPerSlot ==
  /\ \A r, q \in Requests : r # q /\ reqLease[r] # None => reqLease[r] # reqLease[q]
  /\ \A r \in Requests : reqLease[r] # None =>
       /\ reqLease[r].slot \notin donors
       /\ reqLease[r] = session.lease => session.inUse = r
  /\ session.lease # None => session.lease.slot \notin donors

(* Every lease still held is in somebody's hands: a request, a radix node,  *)
(* the session table, or a thread in the middle of a procedure with it.     *)
(* Otherwise its slot is lost for the life of the process.                  *)
HeldLeaseHasOwner ==
  \A l \in held : \/ \E r \in Requests : reqLease[r] = l
                  \/ l.slot \in donors
                  \/ session.lease = l
                  \/ \E t \in Threads : thr[t].lease = l

(* A session in use has a request in flight; otherwise it can neither be    *)
(* leased again nor expire.  The context-overflow rejection, which needs a  *)
(* limited backend, leaves it in use.                                       *)
SessionInUseHasRequest ==
  session.inUse # None /\ ~config.limited => phase[session.inUse] # "done"

(* Every slot whose release was deferred behind backend events becomes      *)
(* reusable.                                                                *)
DeferredRetirementCompletes ==
  \A s \in Slots : (\E l \in deferred : l.slot = s) ~> (state[s] # "Retiring")

\* What a request may rely on while it owns a sequence: nobody else writes or
\* clears its KV, the slot it was given starts clear, no slot has two owners and
\* a session marked in use has a request that will hand it back.
LiveSequencesSafe ==
    /\ LTypeOK
    /\ LiveSequenceKVIntact
    /\ AcquiredSlotIsClear
    /\ OneOwnerPerSlot
    /\ SessionInUseHasRequest
=============================================================================
