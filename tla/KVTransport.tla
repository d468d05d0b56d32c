---------------------------- MODULE KVTransport ----------------------------
(***************************************************************************)
(* The KV hand-off of disaggregated mode: ProcessBatch publishes a request *)
(* and its packet, runtime/disaggregated/kv_channel.cpp (alone, or as the  *)
(* control queue of shm_kv_transport.cpp) carries the packet and its       *)
(* ticket, and DecodeWorkerLoop drains it and settles the ticket.          *)
(*                                                                         *)
(* A request has at most one accepted packet, so a packet and its ticket   *)
(* are named by their request.  The order of pending_decode_ tells         *)
(* nothing about packets and tickets: a worker takes any of its requests.  *)
(* A step is one critical section of queue_mutex_ or of the channel's      *)
(* mutex.                                                                  *)
(***************************************************************************)
EXTENDS Integers, Sequences, FiniteSets, Functions

CONSTANTS
  Handoffs,
  Takers,      \* threads that may be decode workers
  ChannelConfigs,       \* the configurations to start from
  MaxBatch,      \* max_batch_size
  MaxRetries,    \* kv_enqueue_max_retries
  NoPacket

ASSUME HandoffsAssumption == IsFiniteSet(Handoffs)
ASSUME SizesAssumption == MaxBatch \in Nat \ {0} /\ MaxRetries \in Nat
ASSUME ChannelConfigsAssumption ==
  ChannelConfigs \subseteq [clients : SUBSET Handoffs, pool : SUBSET Takers, capacity : Nat \ {0},
                     blob : BOOLEAN, lossy : BOOLEAN, preempt : BOOLEAN]
\* Only a packet with a blob has a segment that could not be read.
ASSUME LossyAssumption == \A c \in ChannelConfigs : c.lossy => c.blob
ASSUME NoPacketAssumption == NoPacket \notin Handoffs

VARIABLES
  channelConfig,     \* fixed at the start: clients, the requests that come; pool, the
              \* decode workers; capacity, of the channel; blob, packets carry a
              \* serialised sequence to hydrate; lossy, reading a segment may fail;
              \* preempt, ApplyFairness may take from pending_decode_
  place,      \* where the scheduler has the request
  prefilled,  \* its packet has n_past >= 0
  retries,    \* disagg_enqueue_retries
  decode,     \* pending_decode_
  batch,      \* per decode worker
  dpc,        \* where each decode worker is
  packet,     \* the packet it has dequeued
  channel,    \* queue_
  stage       \* ticket_stages_

channelVars == <<channelConfig, place, prefilled, retries, decode, batch, dpc, packet, channel, stage>>
workerVars == <<batch, dpc, packet>>

Stages == {"none", "enqueued", "acknowledged", "committed", "timed_out"}
Settled == {"committed", "timed_out"}

ChannelTypeOK ==
  /\ channelConfig \in ChannelConfigs
  /\ place \in [Handoffs -> {"prefill", "publishing", "sent", "decode", "batch",
                             "local", "done"}]
  /\ prefilled \in [Handoffs -> BOOLEAN]
  /\ retries \in [Handoffs -> 0 .. MaxRetries + 1]
  /\ decode \subseteq Handoffs
  /\ batch \in [Takers -> SUBSET Handoffs]
  /\ \A d \in Takers : Cardinality(batch[d]) <= MaxBatch
  /\ dpc \in [Takers -> {"wait", "drain", "apply", "run"}]
  /\ packet \in [Takers -> Handoffs \cup {NoPacket}]
  /\ channel \in Seq(Handoffs) /\ Len(channel) <= channelConfig.capacity
  /\ stage \in [Handoffs -> Stages]

ChannelInit ==
  /\ channelConfig \in ChannelConfigs
  /\ place = [r \in Handoffs |-> "prefill"]
  /\ prefilled = [r \in Handoffs |-> FALSE]
  /\ retries = [r \in Handoffs |-> 0]
  /\ decode = {}
  /\ batch = [d \in Takers |-> {}]
  /\ dpc = [d \in Takers |-> "wait"]
  /\ packet = [d \in Takers |-> NoPacket]
  /\ channel = << >>
  /\ stage = [r \in Handoffs |-> "none"]

Put(r, p) == place' = [place EXCEPT ![r] = p]
PutAll(S, p) == place' = [r \in Handoffs |-> IF r \in S THEN p ELSE place[r]]
PlacedAt(p) == {r \in Handoffs : place[r] = p}

\* The requests in publishing_decode_.
Publishing == PlacedAt("publishing") \cup PlacedAt("sent")

---------------------------------------------------------------------------
(* ProcessBatch, on the WorkerLoop thread. *)

\* The request is prefilled, or was refused a slot or failed its prefill, and is
\* registered before its packet can be seen.
Register(r) ==
  /\ r \in channelConfig.clients
  /\ Publishing = {} /\ place[r] = "prefill"
  /\ \E ok \in BOOLEAN : prefilled' = [prefilled EXCEPT ![r] = ok]
  /\ Put(r, "publishing")
  /\ UNCHANGED <<channelConfig, retries, decode, workerVars, channel, stage>>

\* KVChannel::Enqueue accepts.
Enqueue(r) ==
  /\ place[r] = "publishing"
  /\ Len(channel) < channelConfig.capacity
  /\ channel' = Append(channel, r)
  /\ stage' = [stage EXCEPT ![r] = "enqueued"]
  /\ Put(r, "sent")
  /\ UNCHANGED <<channelConfig, prefilled, retries, decode, workerVars>>

\* KVChannel::Enqueue refuses: the request is prefilled again, or fails.
EnqueueRefused(r) ==
  /\ place[r] = "publishing"
  /\ Len(channel) >= channelConfig.capacity
  /\ retries' = [retries EXCEPT ![r] = @ + 1]
  /\ Put(r, IF retries[r] + 1 > MaxRetries THEN "done" ELSE "prefill")
  /\ UNCHANGED <<channelConfig, prefilled, decode, workerVars, channel, stage>>

Publish(r) ==
  /\ place[r] = "sent"
  /\ decode' = decode \cup {r}
  /\ retries' = [retries EXCEPT ![r] = 0]
  /\ Put(r, "decode")
  /\ UNCHANGED <<channelConfig, prefilled, workerVars, channel, stage>>

\* ApplyFairness swaps a queued request into the batch of this thread, which
\* runs it after the admissions of the batch.
FairnessTakes(r) ==
  /\ channelConfig.preempt /\ Publishing = {} /\ PlacedAt("local") = {}
  /\ place[r] = "decode"
  /\ decode' = decode \ {r}
  /\ Put(r, "local")
  /\ UNCHANGED <<channelConfig, prefilled, retries, workerVars, channel, stage>>

LocalEnds(r) ==
  /\ Publishing = {} /\ place[r] = "local"
  /\ \/ Put(r, "done") /\ UNCHANGED decode
     \/ Put(r, "decode") /\ decode' = decode \cup {r}
  /\ UNCHANGED <<channelConfig, prefilled, retries, workerVars, channel, stage>>

---------------------------------------------------------------------------
(* DecodeWorkerLoop. *)

Move(d, pc) == dpc' = [dpc EXCEPT ![d] = pc]
Fits(d, S) == Cardinality(batch[d]) + Cardinality(S) <= MaxBatch

\* The requests a worker takes: the front of the queue, or, beside a sticky
\* batch, the compatible ones anywhere in it.
Takes(d) ==
  {S \in SUBSET decode :
     /\ Fits(d, S)
     /\ batch[d] = {} => S = decode \/ Cardinality(S) = MaxBatch}

\* Mutant of Wake: has_work does not look at the transport.
WakeQueueOnly(d) ==
  /\ d \in channelConfig.pool /\ dpc[d] = "wait"
  /\ batch[d] # {} \/ decode # {}
  /\ \E S \in Takes(d) :
       /\ batch' = [batch EXCEPT ![d] = @ \cup S]
       /\ decode' = decode \ S
       /\ PutAll(S, "batch")
  /\ Move(d, "drain")
  /\ UNCHANGED <<channelConfig, prefilled, retries, packet, channel, stage>>

Wake(d) ==
  /\ d \in channelConfig.pool /\ dpc[d] = "wait"
  /\ batch[d] # {} \/ decode # {} \/ channel # << >>
  /\ \E S \in Takes(d) :
       /\ batch' = [batch EXCEPT ![d] = @ \cup S]
       /\ decode' = decode \ S
       /\ PutAll(S, "batch")
  /\ Move(d, "drain")
  /\ UNCHANGED <<channelConfig, prefilled, retries, packet, channel, stage>>

\* Mutant of Dequeue: the packet stays at the front of the queue.
DequeueNotPopped(d) ==
  /\ dpc[d] = "drain" /\ channel # << >>
  /\ packet' = [packet EXCEPT ![d] = Head(channel)]
  /\ stage' = [stage EXCEPT ![Head(channel)] = "acknowledged"]
  /\ Move(d, "apply")
  /\ UNCHANGED <<channelConfig, place, prefilled, retries, decode, batch, channel>>

\* TryDequeue, then UpdateTicketStage(kAcknowledged).
Dequeue(d) ==
  /\ dpc[d] = "drain" /\ channel # << >>
  /\ channel' = Tail(channel)
  /\ packet' = [packet EXCEPT ![d] = Head(channel)]
  /\ stage' = [stage EXCEPT ![Head(channel)] = "acknowledged"]
  /\ Move(d, "apply")
  /\ UNCHANGED <<channelConfig, place, prefilled, retries, decode, batch>>

Resumes(d) == IF batch[d] = {} THEN "wait" ELSE "run"

\* The segment cannot be read: TryDequeue drops the packet and returns nullopt,
\* which ends the drain.
DequeueLost(d) ==
  /\ channelConfig.lossy /\ dpc[d] = "drain" /\ channel # << >>
  /\ channel' = Tail(channel)
  /\ Move(d, Resumes(d))
  /\ UNCHANGED <<channelConfig, place, prefilled, retries, decode, batch, packet, stage>>

\* The requests try_apply_packet is offered.
Offered(d) == batch[d] \cup decode \cup Publishing

\* A matching request without a blob commits; with one, hydration may fail, and
\* n_past < 0 matches nothing.
PacketOutcomes(d) ==
  IF packet[d] \in Offered(d) /\ prefilled[packet[d]]
    THEN IF channelConfig.blob THEN Settled ELSE {"committed"}
    ELSE {"timed_out"}

Apply(d) ==
  /\ dpc[d] = "apply"
  /\ \E s \in PacketOutcomes(d) : stage' = [stage EXCEPT ![packet[d]] = s]
  /\ packet' = [packet EXCEPT ![d] = NoPacket]
  /\ Move(d, "drain")
  /\ UNCHANGED <<channelConfig, place, prefilled, retries, decode, batch, channel>>

DrainEnds(d) ==
  /\ dpc[d] = "drain" /\ channel = << >>
  /\ Move(d, Resumes(d))
  /\ UNCHANGED <<channelConfig, place, prefilled, retries, decode, batch, packet, channel, stage>>

\* A pass over the batch: each request stays in it, yields to pending_decode_ or
\* is answered.
Run(d) ==
  /\ dpc[d] = "run"
  /\ \E stay \in SUBSET batch[d] : \E yield \in SUBSET (batch[d] \ stay) :
       /\ stay = {} \/ yield = {}
       /\ batch' = [batch EXCEPT ![d] = stay]
       /\ decode' = decode \cup yield
       /\ place' = [r \in Handoffs |-> IF r \in yield THEN "decode"
                                       ELSE IF r \in batch[d] \ stay THEN "done"
                                       ELSE place[r]]
  /\ Move(d, "wait")
  /\ UNCHANGED <<channelConfig, prefilled, retries, packet, channel, stage>>

DecoderSteps(d) == Wake(d) \/ Dequeue(d) \/ DequeueLost(d) \/ Apply(d) \/ DrainEnds(d) \/ Run(d)

ChannelNext ==
  \/ \E r \in Handoffs : \/ Register(r) \/ Enqueue(r) \/ EnqueueRefused(r) \/ Publish(r)
                         \/ FairnessTakes(r) \/ LocalEnds(r)
  \/ \E d \in Takers : DecoderSteps(d)

ChannelSpec == ChannelInit /\ [][ChannelNext]_channelVars

\* Every decode worker runs, and so does the WorkerLoop thread.
ChannelFairSpec ==
  /\ ChannelSpec
  /\ \A d \in Takers : WF_channelVars(DecoderSteps(d))
  /\ \A r \in Handoffs : WF_channelVars(Enqueue(r) \/ EnqueueRefused(r) \/ Publish(r))

---------------------------------------------------------------------------
(* The ticket of a packet says where the packet is: enqueued while it is in   *)
(* the channel (or was lost with its segment), acknowledged while one decode  *)
(* worker, and one only, has dequeued it, and settled or none otherwise.      *)
TicketTracksPacket ==
  \A r \in Handoffs :
    /\ r \in Range(channel) => stage[r] = "enqueued"
    /\ stage[r] = "enqueued" => r \in Range(channel) \/ channelConfig.lossy
    /\ stage[r] = "acknowledged" <=> \E d \in Takers : packet[d] = r
    /\ \A d, e \in Takers : packet[d] = r /\ packet[e] = r => d = e
    /\ Cardinality({i \in DOMAIN channel : channel[i] = r}) <= 1

(* "Decode workers remove requests from pending_decode_ into the local batch  *)
(* before draining the transport, so we must inspect both collections or      *)
(* packets for the active batch will time out spuriously": where one worker   *)
(* owns both collections, the ticket of a request that was prefilled, and     *)
(* needs no hydration, never times out.  The batch of a second worker and the *)
(* one of ApplyFairness are not inspected.                                    *)
NoSpuriousTimeout ==
  \A d \in Takers :
    channelConfig.pool = {d} /\ ~channelConfig.blob /\ ~channelConfig.preempt =>
      \A r \in Handoffs : prefilled[r] => stage[r] # "timed_out"

(* A packet that was accepted is drained and its ticket settled, whatever      *)
(* became of the request, unless its segment cannot be read.                   *)
EveryTicketSettles ==
  \A r \in Handoffs :
    stage[r] = "enqueued" /\ ~channelConfig.lossy ~> stage[r] \in Settled

\* A ticket tells where its packet is, and a packet that a lone decode worker
\* could still take is not reported as timed out.
ChannelSafe == ChannelTypeOK /\ TicketTracksPacket /\ NoSpuriousTimeout
=============================================================================
