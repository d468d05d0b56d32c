------------------------- MODULE KVTransportProofs -------------------------
(***************************************************************************)
(* Proofs about KVTransport, for every set of requests and workers, every  *)
(* configuration and every bound.                                          *)
(*                                                                         *)
(* TicketTracksPacket needs to know that a packet is sent once: a request  *)
(* that may still publish has no ticket, and the channel has no duplicate. *)
(* NoSpuriousTimeout needs more.  A lone worker drains the channel before  *)
(* it runs its batch, so a request whose packet is on the way has not been *)
(* answered: it is being published, queued, or in a batch that has yet to  *)
(* run.                                                                    *)
(***************************************************************************)
EXTENDS KVTransport, FiniteSetTheorems, TLAPS

\* The queue and the batches hold the requests that place puts there.
PlaceInv ==
  /\ decode = PlacedAt("decode")
  /\ \A d \in Takers : /\ batch[d] \subseteq PlacedAt("batch")
                       /\ dpc[d] # "wait" \/ batch[d] # {} => d \in channelConfig.pool
  /\ \A r \in PlacedAt("batch") : \E d \in Takers : r \in batch[d]
  /\ \A d, e \in Takers : d # e => batch[d] \cap batch[e] = {}
  /\ PlacedAt("local") # {} => channelConfig.preempt

\* A packet is in one place, and its ticket says which.
PacketInv ==
  /\ \A i, j \in DOMAIN channel : channel[i] = channel[j] => i = j
  /\ \A i \in DOMAIN channel : stage[channel[i]] = "enqueued"
  /\ \A d \in Takers : packet[d] # NoPacket <=> dpc[d] = "apply"
  /\ \A d \in Takers : packet[d] # NoPacket => stage[packet[d]] = "acknowledged"
  /\ \A d, e \in Takers : packet[d] = packet[e] /\ packet[d] # NoPacket => d = e

TicketInv(r) ==
  /\ place[r] \in {"prefill", "publishing"} => stage[r] = "none"
  /\ stage[r] = "enqueued" => channelConfig.lossy \/ \E i \in DOMAIN channel : channel[i] = r
  /\ stage[r] = "acknowledged" => \E d \in Takers : packet[d] = r
  /\ place[r] # "done" => retries[r] <= MaxRetries

\* The packet of r is on the way.
Pending(r) == stage[r] \in {"enqueued", "acknowledged"}

Lone(d) == channelConfig.pool = {d} /\ ~channelConfig.blob /\ ~channelConfig.preempt

\* A lone worker has not answered a request whose packet is on the way.
LoneInv(d, r) ==
  Lone(d) /\ Pending(r) =>
    \/ place[r] \in {"sent", "decode"}
    \/ place[r] = "batch" /\ dpc[d] \in {"drain", "apply"}

ChannelIInv ==
  /\ ChannelTypeOK /\ PlaceInv /\ PacketInv
  /\ \A r \in Handoffs : TicketInv(r)
  /\ \A d \in Takers, r \in Handoffs : LoneInv(d, r)
  /\ NoSpuriousTimeout

---------------------------------------------------------------------------

(* What Tail does to the places of a sequence. *)
LEMMA TailPlaces ==
  ASSUME NEW S, NEW s \in Seq(S), s # << >>
  PROVE  /\ Head(s) = s[1] /\ 1 \in DOMAIN s /\ DOMAIN s = 1 .. Len(s) /\ Len(s) \in Nat
         /\ Tail(s) \in Seq(S) /\ DOMAIN Tail(s) = 1 .. Len(s) - 1 /\ Len(Tail(s)) = Len(s) - 1
         /\ \A i \in DOMAIN Tail(s) : i + 1 \in DOMAIN s /\ Tail(s)[i] = s[i + 1]
         /\ \A i \in DOMAIN s : i # 1 => i - 1 \in DOMAIN Tail(s) /\ Tail(s)[i - 1] = s[i]
OBVIOUS

(* What Append does to the places of a sequence. *)
LEMMA AppendPlaces ==
  ASSUME NEW S, NEW s \in Seq(S), NEW x \in S
  PROVE  /\ Append(s, x) \in Seq(S) /\ Len(s) \in Nat /\ Len(Append(s, x)) = Len(s) + 1
         /\ DOMAIN s = 1 .. Len(s) /\ DOMAIN Append(s, x) = 1 .. Len(s) + 1
         /\ Append(s, x)[Len(s) + 1] = x
         /\ \A i \in DOMAIN s : i \in DOMAIN Append(s, x) /\ Append(s, x)[i] = s[i]
         /\ \A i \in DOMAIN Append(s, x) : i = Len(s) + 1 \/ i \in DOMAIN s
OBVIOUS

(* Register keeps the invariant. *)
LEMMA RegisterKeeps ==
  ASSUME ChannelIInv, NEW r \in Handoffs, Register(r)
  PROVE ChannelIInv'
<1> USE SizesAssumption, ChannelConfigsAssumption, LossyAssumption, NoPacketAssumption
   DEF workerVars
<1>t. ChannelTypeOK BY DEF ChannelIInv
<1>p. PlaceInv BY DEF ChannelIInv
<1>k. PacketInv BY DEF ChannelIInv
<1>q. \A q \in Handoffs : TicketInv(q) BY DEF ChannelIInv
<1>l. \A e \in Takers, q \in Handoffs : LoneInv(e, q) BY DEF ChannelIInv
<1>n. NoSpuriousTimeout BY DEF ChannelIInv
<1> USE DEF Register, Put
<1>1. ChannelTypeOK' BY <1>t DEF ChannelTypeOK, Stages
<1>2. PlaceInv' BY <1>t, <1>p DEF PlaceInv, PlacedAt, ChannelTypeOK, Stages
<1>3. PacketInv' BY <1>t, <1>k, <1>q DEF PacketInv, TicketInv, ChannelTypeOK, Stages
<1>4. ASSUME NEW q \in Handoffs PROVE TicketInv(q)'
  BY <1>t, <1>k, <1>q DEF PacketInv, TicketInv, ChannelTypeOK, Stages
<1>5. ASSUME NEW e \in Takers, NEW q \in Handoffs PROVE LoneInv(e, q)'
  BY <1>t, <1>p, <1>k, <1>q, <1>l
     DEF LoneInv, Lone, Pending, PlaceInv, PlacedAt, PacketInv, TicketInv, ChannelTypeOK, Stages
<1>6. NoSpuriousTimeout'
  BY <1>t, <1>k, <1>q, <1>l, <1>n
     DEF NoSpuriousTimeout, LoneInv, Lone, Pending, PacketInv, TicketInv, ChannelTypeOK, Stages
<1> QED BY <1>1, <1>2, <1>3, <1>4, <1>5, <1>6 DEF ChannelIInv

(* Enqueue keeps the invariant. *)
LEMMA EnqueueKeeps ==
  ASSUME ChannelIInv, NEW r \in Handoffs, Enqueue(r)
  PROVE ChannelIInv'
<1> USE SizesAssumption, ChannelConfigsAssumption, LossyAssumption, NoPacketAssumption
   DEF workerVars
<1>t. ChannelTypeOK BY DEF ChannelIInv
<1>p. PlaceInv BY DEF ChannelIInv
<1>k. PacketInv BY DEF ChannelIInv
<1>q. \A q \in Handoffs : TicketInv(q) BY DEF ChannelIInv
<1>l. \A e \in Takers, q \in Handoffs : LoneInv(e, q) BY DEF ChannelIInv
<1>n. NoSpuriousTimeout BY DEF ChannelIInv
<1> USE DEF Enqueue, Put
<1>1. ChannelTypeOK' BY <1>t DEF ChannelTypeOK, Stages
<1>2. PlaceInv' BY <1>t, <1>p DEF PlaceInv, PlacedAt, ChannelTypeOK, Stages
<1>3. PacketInv' BY <1>t, <1>k, <1>q DEF PacketInv, TicketInv, ChannelTypeOK, Stages
<1>4. ASSUME NEW q \in Handoffs PROVE TicketInv(q)'
  <2>1. channel \in Seq(Handoffs) BY <1>t DEF ChannelTypeOK, Stages
  <2>2. CASE q = r
    <3>1. TicketInv(q) BY <1>q
    <3>2. stage'[q] = "enqueued" /\ place'[q] = "sent"
          /\ channel' = Append(channel, q) /\ UNCHANGED <<retries, channelConfig>>
      BY <1>t, <2>2 DEF ChannelTypeOK
    <3>3. Len(channel) + 1 \in DOMAIN channel' /\ channel'[Len(channel) + 1] = q
      BY <2>1, <3>2, AppendPlaces
    <3>4. place[q] # "done" BY <2>2
    <3> QED BY <3>1, <3>2, <3>3, <3>4 DEF TicketInv
  <2>3. CASE q # r
    <3>1. TicketInv(q) BY <1>q
    <3>2. stage'[q] = stage[q] /\ place'[q] = place[q] BY <1>t, <2>3 DEF ChannelTypeOK, Stages
    <3> QED
      BY <1>t, <1>q, <2>1, <2>3, <3>1, <3>2, AppendPlaces DEF TicketInv, ChannelTypeOK, Stages
  <2> QED BY <1>t, <2>2, <2>3 DEF ChannelTypeOK, Stages
<1>5. ASSUME NEW e \in Takers, NEW q \in Handoffs PROVE LoneInv(e, q)'
  BY <1>t, <1>p, <1>k, <1>q, <1>l
     DEF LoneInv, Lone, Pending, PlaceInv, PlacedAt, PacketInv, TicketInv, ChannelTypeOK, Stages
<1>6. NoSpuriousTimeout'
  BY <1>t, <1>n DEF NoSpuriousTimeout, ChannelTypeOK
<1> QED BY <1>1, <1>2, <1>3, <1>4, <1>5, <1>6 DEF ChannelIInv

(* EnqueueRefused keeps the invariant. *)
LEMMA EnqueueRefusedKeeps ==
  ASSUME ChannelIInv, NEW r \in Handoffs, EnqueueRefused(r)
  PROVE ChannelIInv'
<1> USE SizesAssumption, ChannelConfigsAssumption, LossyAssumption, NoPacketAssumption
   DEF workerVars
<1>t. ChannelTypeOK BY DEF ChannelIInv
<1>p. PlaceInv BY DEF ChannelIInv
<1>k. PacketInv BY DEF ChannelIInv
<1>q. \A q \in Handoffs : TicketInv(q) BY DEF ChannelIInv
<1>l. \A e \in Takers, q \in Handoffs : LoneInv(e, q) BY DEF ChannelIInv
<1>n. NoSpuriousTimeout BY DEF ChannelIInv
<1> USE DEF EnqueueRefused, Put
<1>1. ChannelTypeOK'
  <2>1. retries[r] \in 0 .. MaxRetries + 1 /\ retries[r] <= MaxRetries
    BY <1>t, <1>q DEF TicketInv, ChannelTypeOK
  <2>2. retries[r] + 1 \in 0 .. MaxRetries + 1 BY ONLY <2>1, SizesAssumption
  <2> QED BY <1>t, <2>2 DEF ChannelTypeOK
<1>2. PlaceInv' BY <1>t, <1>p DEF PlaceInv, PlacedAt, ChannelTypeOK, Stages
<1>3. PacketInv' BY <1>t, <1>k, <1>q DEF PacketInv, TicketInv, ChannelTypeOK, Stages
<1>4. ASSUME NEW q \in Handoffs PROVE TicketInv(q)'
  BY <1>t, <1>k, <1>q DEF PacketInv, TicketInv, ChannelTypeOK, Stages
<1>5. ASSUME NEW e \in Takers, NEW q \in Handoffs PROVE LoneInv(e, q)'
  BY <1>t, <1>p, <1>k, <1>q, <1>l
     DEF LoneInv, Lone, Pending, PlaceInv, PlacedAt, PacketInv, TicketInv, ChannelTypeOK, Stages
<1>6. NoSpuriousTimeout'
  BY <1>t, <1>n DEF NoSpuriousTimeout, ChannelTypeOK
<1> QED BY <1>1, <1>2, <1>3, <1>4, <1>5, <1>6 DEF ChannelIInv

(* Publish keeps the invariant. *)
LEMMA PublishKeeps ==
  ASSUME ChannelIInv, NEW r \in Handoffs, Publish(r)
  PROVE ChannelIInv'
<1> USE SizesAssumption, ChannelConfigsAssumption, LossyAssumption, NoPacketAssumption
   DEF workerVars
<1>t. ChannelTypeOK BY DEF ChannelIInv
<1>p. PlaceInv BY DEF ChannelIInv
<1>k. PacketInv BY DEF ChannelIInv
<1>q. \A q \in Handoffs : TicketInv(q) BY DEF ChannelIInv
<1>l. \A e \in Takers, q \in Handoffs : LoneInv(e, q) BY DEF ChannelIInv
<1>n. NoSpuriousTimeout BY DEF ChannelIInv
<1> USE DEF Publish, Put
<1>1. ChannelTypeOK' BY <1>t DEF ChannelTypeOK, Stages
<1>2. PlaceInv' BY <1>t, <1>p DEF PlaceInv, PlacedAt, ChannelTypeOK, Stages
<1>3. PacketInv' BY <1>t, <1>k, <1>q DEF PacketInv, TicketInv, ChannelTypeOK, Stages
<1>4. ASSUME NEW q \in Handoffs PROVE TicketInv(q)'
  BY <1>t, <1>k, <1>q DEF PacketInv, TicketInv, ChannelTypeOK, Stages
<1>5. ASSUME NEW e \in Takers, NEW q \in Handoffs PROVE LoneInv(e, q)'
  BY <1>t, <1>p, <1>k, <1>q, <1>l
     DEF LoneInv, Lone, Pending, PlaceInv, PlacedAt, PacketInv, TicketInv, ChannelTypeOK, Stages
<1>6. NoSpuriousTimeout'
  BY <1>t, <1>n DEF NoSpuriousTimeout, ChannelTypeOK
<1> QED BY <1>1, <1>2, <1>3, <1>4, <1>5, <1>6 DEF ChannelIInv

(* FairnessTakes keeps the invariant. *)
LEMMA FairnessTakesKeeps ==
  ASSUME ChannelIInv, NEW r \in Handoffs, FairnessTakes(r)
  PROVE ChannelIInv'
<1> USE SizesAssumption, ChannelConfigsAssumption, LossyAssumption, NoPacketAssumption
   DEF workerVars
<1>t. ChannelTypeOK BY DEF ChannelIInv
<1>p. PlaceInv BY DEF ChannelIInv
<1>k. PacketInv BY DEF ChannelIInv
<1>q. \A q \in Handoffs : TicketInv(q) BY DEF ChannelIInv
<1>l. \A e \in Takers, q \in Handoffs : LoneInv(e, q) BY DEF ChannelIInv
<1>n. NoSpuriousTimeout BY DEF ChannelIInv
<1> USE DEF FairnessTakes, Put
<1>1. ChannelTypeOK' BY <1>t DEF ChannelTypeOK, Stages
<1>2. PlaceInv' BY <1>t, <1>p DEF PlaceInv, PlacedAt, ChannelTypeOK, Stages
<1>3. PacketInv' BY <1>t, <1>k, <1>q DEF PacketInv, TicketInv, ChannelTypeOK, Stages
<1>4. ASSUME NEW q \in Handoffs PROVE TicketInv(q)'
  BY <1>t, <1>k, <1>q DEF PacketInv, TicketInv, ChannelTypeOK, Stages
<1>5. ASSUME NEW e \in Takers, NEW q \in Handoffs PROVE LoneInv(e, q)'
  BY <1>t, <1>p, <1>k, <1>q, <1>l
     DEF LoneInv, Lone, Pending, PlaceInv, PlacedAt, PacketInv, TicketInv, ChannelTypeOK, Stages
<1>6. NoSpuriousTimeout'
  BY <1>t, <1>n DEF NoSpuriousTimeout, ChannelTypeOK
<1> QED BY <1>1, <1>2, <1>3, <1>4, <1>5, <1>6 DEF ChannelIInv

(* LocalEnds keeps the invariant. *)
LEMMA LocalEndsKeeps ==
  ASSUME ChannelIInv, NEW r \in Handoffs, LocalEnds(r)
  PROVE ChannelIInv'
<1> USE SizesAssumption, ChannelConfigsAssumption, LossyAssumption, NoPacketAssumption
   DEF workerVars
<1>t. ChannelTypeOK BY DEF ChannelIInv
<1>p. PlaceInv BY DEF ChannelIInv
<1>k. PacketInv BY DEF ChannelIInv
<1>q. \A q \in Handoffs : TicketInv(q) BY DEF ChannelIInv
<1>l. \A e \in Takers, q \in Handoffs : LoneInv(e, q) BY DEF ChannelIInv
<1>n. NoSpuriousTimeout BY DEF ChannelIInv
<1> USE DEF LocalEnds, Put
<1>1. ChannelTypeOK'
  <2>1. place' \in [Handoffs ->
                      {"prefill", "publishing", "sent", "decode", "batch", "local", "done"}]
    <3>1. place \in [Handoffs ->
                      {"prefill", "publishing", "sent", "decode", "batch", "local", "done"}]
      BY <1>t DEF ChannelTypeOK
    <3>2. place' = [place EXCEPT ![r] = "done"] \/ place' = [place EXCEPT ![r] = "decode"]
      OBVIOUS
    <3> QED BY ONLY <3>1, <3>2
  <2>2. decode' \subseteq Handoffs BY <1>t DEF ChannelTypeOK, Stages
  <2> QED BY <1>t, <2>1, <2>2 DEF ChannelTypeOK, Stages
<1>2. PlaceInv' BY <1>t, <1>p DEF PlaceInv, PlacedAt, ChannelTypeOK, Stages
<1>3. PacketInv' BY <1>t, <1>k, <1>q DEF PacketInv, TicketInv, ChannelTypeOK, Stages
<1>4. ASSUME NEW q \in Handoffs PROVE TicketInv(q)'
  BY <1>t, <1>k, <1>q DEF PacketInv, TicketInv, ChannelTypeOK, Stages
<1>5. ASSUME NEW e \in Takers, NEW q \in Handoffs PROVE LoneInv(e, q)'
  BY <1>t, <1>p, <1>k, <1>q, <1>l
     DEF LoneInv, Lone, Pending, PlaceInv, PlacedAt, PacketInv, TicketInv, ChannelTypeOK, Stages
<1>6. NoSpuriousTimeout'
  BY <1>t, <1>n DEF NoSpuriousTimeout, ChannelTypeOK
<1> QED BY <1>1, <1>2, <1>3, <1>4, <1>5, <1>6 DEF ChannelIInv

(* Wake keeps the invariant. *)
LEMMA WakeKeeps ==
  ASSUME ChannelIInv, NEW d \in Takers, Wake(d)
  PROVE ChannelIInv'
<1> USE SizesAssumption, ChannelConfigsAssumption, LossyAssumption, NoPacketAssumption
   DEF workerVars
<1>t. ChannelTypeOK BY DEF ChannelIInv
<1>p. PlaceInv BY DEF ChannelIInv
<1>k. PacketInv BY DEF ChannelIInv
<1>q. \A q \in Handoffs : TicketInv(q) BY DEF ChannelIInv
<1>l. \A e \in Takers, q \in Handoffs : LoneInv(e, q) BY DEF ChannelIInv
<1>n. NoSpuriousTimeout BY DEF ChannelIInv
<1> USE DEF Wake, Takes, PutAll, Move
<1>1. ChannelTypeOK'
  <2>1. PICK S \in SUBSET decode : Fits(d, S) /\ batch' = [batch EXCEPT ![d] = @ \cup S]
    BY Zenon
  <2>2. IsFiniteSet(batch[d]) /\ IsFiniteSet(S)
    BY <1>t, HandoffsAssumption, FS_Subset DEF ChannelTypeOK, Stages
  <2>3. Cardinality(batch[d] \cup S) <= MaxBatch
    <3>1. Cardinality(batch[d] \cup S)
            = Cardinality(batch[d]) + Cardinality(S) - Cardinality(batch[d] \cap S)
      BY <2>2, FS_Union, Zenon
    <3>2. IsFiniteSet(batch[d] \cap S) BY <2>2, FS_Intersection, Zenon
    <3>3. /\ Cardinality(batch[d]) \in Nat /\ Cardinality(S) \in Nat
          /\ Cardinality(batch[d] \cap S) \in Nat
      BY <1>t, <2>2, <3>2, FS_CardinalityType DEF ChannelTypeOK, Stages
    <3> QED BY <1>t, <2>1, <3>1, <3>3 DEF Fits, ChannelTypeOK, Stages
  <2>4. \A e \in Takers : Cardinality(batch'[e]) <= MaxBatch
    BY <1>t, <2>1, <2>3, Zenon DEF ChannelTypeOK
  <2>5. place' \in [Handoffs -> {"prefill", "publishing", "sent", "decode", "batch",
                                 "local", "done"}] BY <1>t DEF ChannelTypeOK, Stages
  <2>6. decode' \subseteq Handoffs /\ batch' \in [Takers -> SUBSET Handoffs]
    BY <1>t, <2>1 DEF ChannelTypeOK, Stages
  <2>7. UNCHANGED <<channelConfig, prefilled, retries, packet, channel, stage>>
        /\ dpc' = [dpc EXCEPT ![d] = "drain"]
    OBVIOUS
  <2> HIDE DEF Wake
  <2> QED BY <1>t, <2>4, <2>5, <2>6, <2>7 DEF ChannelTypeOK, Stages
<1>2. PlaceInv' BY <1>t, <1>p DEF PlaceInv, PlacedAt, ChannelTypeOK, Stages
<1>3. PacketInv' BY <1>t, <1>k, <1>q DEF PacketInv, TicketInv, ChannelTypeOK, Stages
<1>4. ASSUME NEW q \in Handoffs PROVE TicketInv(q)'
  <2>1. TicketInv(q) BY <1>q
  <2>2. place'[q] = place[q] \/ (place[q] = "decode" /\ place'[q] = "batch")
    BY <1>t, <1>p DEF PlaceInv, PlacedAt, ChannelTypeOK, Stages
  <2> QED BY <1>t, <1>q, <2>1, <2>2 DEF TicketInv, ChannelTypeOK, Stages
<1>5. ASSUME NEW e \in Takers, NEW q \in Handoffs PROVE LoneInv(e, q)'
  <2>1. LoneInv(e, q) BY <1>l
  <2>2. dpc' = [dpc EXCEPT ![d] = "drain"] /\ d \in channelConfig.pool
    BY <1>t DEF ChannelTypeOK, Stages
  <2>3. place'[q] = place[q] \/ place'[q] = "batch" BY <1>t DEF ChannelTypeOK, Stages
  <2> QED BY <1>t, <1>l, <2>1, <2>2, <2>3 DEF LoneInv, Lone, Pending, ChannelTypeOK, Stages
<1>6. NoSpuriousTimeout'
  BY <1>t, <1>n DEF NoSpuriousTimeout, ChannelTypeOK
<1> QED BY <1>1, <1>2, <1>3, <1>4, <1>5, <1>6 DEF ChannelIInv

(* Dequeue keeps the invariant. *)
LEMMA DequeueKeeps ==
  ASSUME ChannelIInv, NEW d \in Takers, Dequeue(d)
  PROVE ChannelIInv'
<1> USE SizesAssumption, ChannelConfigsAssumption, LossyAssumption, NoPacketAssumption
   DEF workerVars
<1>t. ChannelTypeOK BY DEF ChannelIInv
<1>p. PlaceInv BY DEF ChannelIInv
<1>k. PacketInv BY DEF ChannelIInv
<1>q. \A q \in Handoffs : TicketInv(q) BY DEF ChannelIInv
<1>l. \A e \in Takers, q \in Handoffs : LoneInv(e, q) BY DEF ChannelIInv
<1>n. NoSpuriousTimeout BY DEF ChannelIInv
<1> USE DEF Dequeue, Move
<1>1. ChannelTypeOK' BY <1>t DEF ChannelTypeOK, Stages
<1>2. PlaceInv' BY <1>t, <1>p DEF PlaceInv, PlacedAt, ChannelTypeOK, Stages
<1>3. PacketInv'
  <2>1. channel \in Seq(Handoffs) /\ channel # << >> BY <1>t DEF ChannelTypeOK, Stages
  <2>2. \A i \in DOMAIN channel' : i + 1 \in DOMAIN channel /\ channel'[i] = channel[i + 1]
    BY <1>t, <2>1, TailPlaces DEF ChannelTypeOK, Stages
  <2>3. DOMAIN channel' \subseteq Nat \ {0} BY <1>t, <2>1, TailPlaces DEF ChannelTypeOK, Stages
  <2>4. Head(channel) = channel[1] /\ 1 \in DOMAIN channel /\ channel[1] \in Handoffs
    BY <1>t, <2>1, TailPlaces DEF ChannelTypeOK, Stages
  <2>5. \A i, j \in DOMAIN channel' : channel'[i] = channel'[j] => i = j
    BY <1>t, <1>k, <2>2, <2>3 DEF PacketInv, ChannelTypeOK, Stages
  <2>6. \A i \in DOMAIN channel' : channel'[i] # channel[1] /\ stage[channel'[i]] = "enqueued"
    BY <1>t, <1>k, <2>2, <2>3, <2>4 DEF PacketInv, ChannelTypeOK, Stages
  <2>7. \A i \in DOMAIN channel' : stage'[channel'[i]] = "enqueued"
    BY <1>t, <2>4, <2>6 DEF ChannelTypeOK, Stages
  <2>8. \A e \in Takers : packet'[e] # NoPacket <=> dpc'[e] = "apply"
    <3>1. packet' = [packet EXCEPT ![d] = channel[1]] /\ dpc' = [dpc EXCEPT ![d] = "apply"]
      BY <2>4
    <3>2. \A e \in Takers : packet[e] # NoPacket <=> dpc[e] = "apply" BY <1>k DEF PacketInv
    <3> QED BY <1>t, <2>4, <3>1, <3>2 DEF ChannelTypeOK
  <2>9. \A e \in Takers : packet[e] # channel[1]
    <3>1. stage[channel[1]] = "enqueued" BY <1>k, <2>4 DEF PacketInv
    <3>2. \A e \in Takers : packet[e] # NoPacket => stage[packet[e]] = "acknowledged"
      BY <1>k DEF PacketInv
    <3> QED BY ONLY <2>4, <3>1, <3>2, NoPacketAssumption
  <2> QED BY <1>t, <1>k, <2>4, <2>5, <2>7, <2>8, <2>9 DEF PacketInv, ChannelTypeOK, Stages
<1>4. ASSUME NEW q \in Handoffs PROVE TicketInv(q)'
  <2>1. channel \in Seq(Handoffs) /\ channel # << >> BY <1>t DEF ChannelTypeOK, Stages
  <2>2. TicketInv(q) BY <1>q
  <2>3. Head(channel) = channel[1] /\ 1 \in DOMAIN channel /\ channel[1] \in Handoffs
    BY <1>t, <2>1, TailPlaces DEF ChannelTypeOK, Stages
  <2>4. CASE q = channel[1]
    <3>1. stage'[q] = "acknowledged" /\ packet'[d] = q
      BY <1>t, <2>3, <2>4 DEF ChannelTypeOK, Stages
    <3> QED
      BY <1>t, <1>k, <1>q, <2>2, <2>3, <2>4, <3>1
         DEF TicketInv, PacketInv, ChannelTypeOK, Stages
  <2>5. CASE q # channel[1]
    <3>1. stage'[q] = stage[q] BY <1>t, <2>3, <2>5 DEF ChannelTypeOK, Stages
    <3>2. ASSUME NEW i \in DOMAIN channel, channel[i] = q
       PROVE \E j \in DOMAIN channel' : channel'[j] = q
      <4>1. i - 1 \in DOMAIN channel' /\ channel'[i - 1] = q
        BY <1>t, <2>1, <2>5, <3>2, TailPlaces DEF ChannelTypeOK, Stages
      <4> QED BY <1>t, <4>1 DEF ChannelTypeOK, Stages
    <3>3. ASSUME NEW e \in Takers, packet[e] = q PROVE packet'[e] = q
      <4>1. packet[d] = NoPacket BY <1>k DEF PacketInv
      <4>2. packet' = [packet EXCEPT ![d] = Head(channel)] OBVIOUS
      <4> QED BY ONLY <1>t, <3>3, <4>1, <4>2, NoPacketAssumption DEF ChannelTypeOK
    <3> QED BY <1>t, <1>q, <2>2, <3>1, <3>2, <3>3 DEF TicketInv, ChannelTypeOK, Stages
  <2> QED BY <1>t, <2>4, <2>5 DEF ChannelTypeOK, Stages
<1>5. ASSUME NEW e \in Takers, NEW q \in Handoffs PROVE LoneInv(e, q)'
  BY <1>t, <1>p, <1>k, <1>q, <1>l
     DEF LoneInv, Lone, Pending, PlaceInv, PlacedAt, PacketInv, TicketInv, ChannelTypeOK, Stages
<1>6. NoSpuriousTimeout'
  BY <1>t, <1>n DEF NoSpuriousTimeout, ChannelTypeOK
<1> QED BY <1>1, <1>2, <1>3, <1>4, <1>5, <1>6 DEF ChannelIInv

(* DequeueLost keeps the invariant. *)
LEMMA DequeueLostKeeps ==
  ASSUME ChannelIInv, NEW d \in Takers, DequeueLost(d)
  PROVE ChannelIInv'
<1> USE SizesAssumption, ChannelConfigsAssumption, LossyAssumption, NoPacketAssumption
   DEF workerVars
<1>t. ChannelTypeOK BY DEF ChannelIInv
<1>p. PlaceInv BY DEF ChannelIInv
<1>k. PacketInv BY DEF ChannelIInv
<1>q. \A q \in Handoffs : TicketInv(q) BY DEF ChannelIInv
<1>l. \A e \in Takers, q \in Handoffs : LoneInv(e, q) BY DEF ChannelIInv
<1>n. NoSpuriousTimeout BY DEF ChannelIInv
<1> USE DEF DequeueLost, Move, Resumes
<1>1. ChannelTypeOK' BY <1>t DEF ChannelTypeOK, Stages
<1>2. PlaceInv' BY <1>t, <1>p DEF PlaceInv, PlacedAt, ChannelTypeOK, Stages
<1>3. PacketInv'
  <2>1. channel \in Seq(Handoffs) /\ channel # << >> BY <1>t DEF ChannelTypeOK, Stages
  <2>2. \A i \in DOMAIN channel' : i + 1 \in DOMAIN channel /\ channel'[i] = channel[i + 1]
    BY <1>t, <2>1, TailPlaces DEF ChannelTypeOK, Stages
  <2>3. DOMAIN channel' \subseteq Nat BY <1>t, <2>1, TailPlaces DEF ChannelTypeOK, Stages
  <2>4. \A i, j \in DOMAIN channel' : channel'[i] = channel'[j] => i = j
    BY <1>t, <1>k, <2>2, <2>3 DEF PacketInv, ChannelTypeOK, Stages
  <2>5. \A i \in DOMAIN channel' : stage'[channel'[i]] = "enqueued"
    BY <1>t, <1>k, <2>2 DEF PacketInv, ChannelTypeOK, Stages
  <2>6. \A e \in Takers : packet'[e] # NoPacket <=> dpc'[e] = "apply"
    BY <1>t, <1>k DEF PacketInv, ChannelTypeOK, Stages
  <2> QED BY <1>t, <1>k, <2>4, <2>5, <2>6 DEF PacketInv, ChannelTypeOK, Stages
<1>4. ASSUME NEW q \in Handoffs PROVE TicketInv(q)'
  BY <1>t, <1>k, <1>q DEF PacketInv, TicketInv, ChannelTypeOK, Stages
<1>5. ASSUME NEW e \in Takers, NEW q \in Handoffs PROVE LoneInv(e, q)'
  BY <1>t, <1>p, <1>k, <1>q, <1>l
     DEF LoneInv, Lone, Pending, PlaceInv, PlacedAt, PacketInv, TicketInv, ChannelTypeOK, Stages
<1>6. NoSpuriousTimeout'
  BY <1>t, <1>n DEF NoSpuriousTimeout, ChannelTypeOK
<1> QED BY <1>1, <1>2, <1>3, <1>4, <1>5, <1>6 DEF ChannelIInv

(* Apply keeps the invariant. *)
LEMMA ApplyKeeps ==
  ASSUME ChannelIInv, NEW d \in Takers, Apply(d)
  PROVE ChannelIInv'
<1> USE SizesAssumption, ChannelConfigsAssumption, LossyAssumption, NoPacketAssumption
   DEF workerVars
<1>t. ChannelTypeOK BY DEF ChannelIInv
<1>p. PlaceInv BY DEF ChannelIInv
<1>k. PacketInv BY DEF ChannelIInv
<1>q. \A q \in Handoffs : TicketInv(q) BY DEF ChannelIInv
<1>l. \A e \in Takers, q \in Handoffs : LoneInv(e, q) BY DEF ChannelIInv
<1>n. NoSpuriousTimeout BY DEF ChannelIInv
<1> USE DEF Apply, Move, PacketOutcomes, Offered, Settled
<1>1. ChannelTypeOK' BY <1>t, <1>k DEF PacketInv, ChannelTypeOK, Stages
<1>2. PlaceInv' BY <1>t, <1>p DEF PlaceInv, PlacedAt, ChannelTypeOK, Stages
<1>3. PacketInv' BY <1>t, <1>k, <1>q DEF PacketInv, TicketInv, ChannelTypeOK, Stages
<1>4. ASSUME NEW q \in Handoffs PROVE TicketInv(q)'
  BY <1>t, <1>k, <1>q DEF PacketInv, TicketInv, ChannelTypeOK, Stages
<1>5. ASSUME NEW e \in Takers, NEW q \in Handoffs PROVE LoneInv(e, q)'
  BY <1>t, <1>p, <1>k, <1>q, <1>l
     DEF LoneInv, Lone, Pending, PlaceInv, PlacedAt, PacketInv, TicketInv, ChannelTypeOK, Stages
<1>6. NoSpuriousTimeout'
  <2> SUFFICES ASSUME NEW e \in Takers, Lone(e), NEW q \in Handoffs, prefilled[q]
               PROVE  stage'[q] # "timed_out"
    BY <1>t, <1>n DEF NoSpuriousTimeout, Lone, ChannelTypeOK, Stages
  <2>1. d = e BY <1>t, <1>p DEF PlaceInv, Lone, ChannelTypeOK, Stages
  <2>2. packet[d] \in Handoffs /\ stage[packet[d]] = "acknowledged"
    BY <1>t, <1>k DEF PacketInv, ChannelTypeOK, Stages
  <2>3. CASE q = packet[d]
    <3>1. place[q] \in {"sent", "decode", "batch"}
      BY <1>t, <1>l, <2>1, <2>2, <2>3 DEF LoneInv, Pending, ChannelTypeOK, Stages
    <3>2. place[q] = "batch" => q \in batch[d]
      <4>1. channelConfig.pool = {d} BY <2>1 DEF Lone
      <4>2. \A f \in Takers : batch[f] # {} => f \in channelConfig.pool BY <1>p DEF PlaceInv
      <4>3. place[q] = "batch" => \E f \in Takers : q \in batch[f] BY <1>p
         DEF PlaceInv, PlacedAt
      <4> QED BY ONLY <4>1, <4>2, <4>3
    <3>3. q \in Offered(d)
      BY <1>t, <1>p, <3>1, <3>2 DEF PlaceInv, PlacedAt, Publishing, ChannelTypeOK, Stages
    <3> QED BY <1>t, <2>3, <3>3 DEF Lone, ChannelTypeOK, Stages
  <2>4. CASE q # packet[d]
    BY <1>t, <1>n, <2>4 DEF NoSpuriousTimeout, Lone, ChannelTypeOK, Stages
  <2> QED BY <1>t, <2>3, <2>4 DEF ChannelTypeOK, Stages
<1> QED BY <1>1, <1>2, <1>3, <1>4, <1>5, <1>6 DEF ChannelIInv

(* DrainEnds keeps the invariant. *)
LEMMA DrainEndsKeeps ==
  ASSUME ChannelIInv, NEW d \in Takers, DrainEnds(d)
  PROVE ChannelIInv'
<1> USE SizesAssumption, ChannelConfigsAssumption, LossyAssumption, NoPacketAssumption
   DEF workerVars
<1>t. ChannelTypeOK BY DEF ChannelIInv
<1>p. PlaceInv BY DEF ChannelIInv
<1>k. PacketInv BY DEF ChannelIInv
<1>q. \A q \in Handoffs : TicketInv(q) BY DEF ChannelIInv
<1>l. \A e \in Takers, q \in Handoffs : LoneInv(e, q) BY DEF ChannelIInv
<1>n. NoSpuriousTimeout BY DEF ChannelIInv
<1> USE DEF DrainEnds, Move, Resumes
<1>1. ChannelTypeOK' BY <1>t DEF ChannelTypeOK, Stages
<1>2. PlaceInv' BY <1>t, <1>p DEF PlaceInv, PlacedAt, ChannelTypeOK, Stages
<1>3. PacketInv' BY <1>t, <1>k, <1>q DEF PacketInv, TicketInv, ChannelTypeOK, Stages
<1>4. ASSUME NEW q \in Handoffs PROVE TicketInv(q)'
  BY <1>t, <1>k, <1>q DEF PacketInv, TicketInv, ChannelTypeOK, Stages
<1>5. ASSUME NEW e \in Takers, NEW q \in Handoffs PROVE LoneInv(e, q)'
  <2> SUFFICES ASSUME Lone(e), Pending(q) PROVE FALSE
    BY <1>t, <1>l DEF LoneInv, Lone, Pending, ChannelTypeOK, Stages
  <2>1. TicketInv(q) BY <1>q
  <2>2. channelConfig \in ChannelConfigs /\ ~channelConfig.lossy
    BY <1>t DEF Lone, ChannelTypeOK, Stages
  <2>3. stage[q] = "acknowledged"
    BY <1>t, <1>q, <2>1, <2>2 DEF TicketInv, Pending, ChannelTypeOK, Stages
  <2>4. PICK f \in Takers : packet[f] = q
    BY <1>t, <1>q, <2>1, <2>3 DEF TicketInv, ChannelTypeOK, Stages
  <2>5. dpc[f] = "apply" BY <1>t, <1>k, <2>4 DEF PacketInv, ChannelTypeOK, Stages
  <2>6. f = d BY <1>t, <1>p, <2>5 DEF PlaceInv, Lone, ChannelTypeOK, Stages
  <2> QED BY <1>t, <2>5, <2>6 DEF ChannelTypeOK, Stages
<1>6. NoSpuriousTimeout'
  BY <1>t, <1>n DEF NoSpuriousTimeout, ChannelTypeOK
<1> QED BY <1>1, <1>2, <1>3, <1>4, <1>5, <1>6 DEF ChannelIInv

(* Run keeps the invariant. *)
LEMMA RunKeeps ==
  ASSUME ChannelIInv, NEW d \in Takers, Run(d)
  PROVE ChannelIInv'
<1> USE SizesAssumption, ChannelConfigsAssumption, LossyAssumption, NoPacketAssumption
   DEF workerVars
<1>t. ChannelTypeOK BY DEF ChannelIInv
<1>p. PlaceInv BY DEF ChannelIInv
<1>k. PacketInv BY DEF ChannelIInv
<1>q. \A q \in Handoffs : TicketInv(q) BY DEF ChannelIInv
<1>l. \A e \in Takers, q \in Handoffs : LoneInv(e, q) BY DEF ChannelIInv
<1>n. NoSpuriousTimeout BY DEF ChannelIInv
<1> USE DEF Run, Move
<1>1. ChannelTypeOK'
  <2>1. PICK stay \in SUBSET batch[d] : batch' = [batch EXCEPT ![d] = stay]
    BY Zenon
  <2>2. IsFiniteSet(batch[d]) BY <1>t, HandoffsAssumption, FS_Subset DEF ChannelTypeOK, Stages
  <2>3. Cardinality(stay) <= Cardinality(batch[d])
        /\ Cardinality(stay) \in Nat /\ Cardinality(batch[d]) \in Nat
    BY <1>t, <2>2, FS_Subset, FS_CardinalityType DEF ChannelTypeOK, Stages
  <2>4. \A e \in Takers : Cardinality(batch'[e]) <= MaxBatch
    BY <1>t, <2>1, <2>3 DEF ChannelTypeOK, Stages
  <2> QED BY <1>t, <2>1, <2>4 DEF ChannelTypeOK, Stages
<1>2. PlaceInv'
  <2>1. PICK stay \in SUBSET batch[d] : \E yield \in SUBSET (batch[d] \ stay) :
           /\ batch' = [batch EXCEPT ![d] = stay]
           /\ decode' = decode \cup yield
           /\ place' = [q \in Handoffs |-> IF q \in yield THEN "decode"
                                          ELSE IF q \in batch[d] \ stay THEN "done"
                                          ELSE place[q]]
    BY Zenon
  <2>2. PICK yield \in SUBSET (batch[d] \ stay) :
           /\ batch' = [batch EXCEPT ![d] = stay]
           /\ decode' = decode \cup yield
           /\ place' = [q \in Handoffs |-> IF q \in yield THEN "decode"
                                          ELSE IF q \in batch[d] \ stay THEN "done"
                                          ELSE place[q]]
    BY <2>1, Zenon
  <2>3. dpc' = [dpc EXCEPT ![d] = "wait"]
        /\ channelConfig' = channelConfig /\ dpc[d] = "run"
    OBVIOUS
  <2> HIDE DEF Run
  <2>4. batch[d] \subseteq Handoffs /\ \A q \in batch[d] : place[q] = "batch"
    BY <1>t, <1>p DEF ChannelTypeOK, PlaceInv, PlacedAt
  <2>5. \A q \in Handoffs : place'[q] = IF q \in yield THEN "decode"
                                         ELSE IF q \in batch[d] \ stay THEN "done" ELSE place[q]
    BY <2>2
  <2>6. decode' = PlacedAt("decode")' BY <1>p, <2>2, <2>4, <2>5 DEF PlaceInv, PlacedAt
  <2>7. \A e \in Takers : batch'[e] = IF e = d THEN stay ELSE batch[e] BY <1>t, <2>2
     DEF ChannelTypeOK
  <2>8. \A e \in Takers : batch'[e] \subseteq PlacedAt("batch")'
    BY <1>p, <2>4, <2>5, <2>7 DEF PlaceInv, PlacedAt
  <2>9. \A e \in Takers : dpc'[e] # "wait" \/ batch'[e] # {} => e \in channelConfig.pool
    BY <1>t, <1>p, <2>3, <2>7 DEF PlaceInv, ChannelTypeOK
  <2>10. \A q \in PlacedAt("batch")' : \E e \in Takers : q \in batch'[e]
    BY <1>p, <2>5, <2>7 DEF PlaceInv, PlacedAt
  <2>11. \A e, f \in Takers : e # f => batch'[e] \cap batch'[f] = {}
    BY <1>p, <2>7 DEF PlaceInv
  <2>12. PlacedAt("local")' # {} => channelConfig.preempt
    BY <1>p, <2>5 DEF PlaceInv, PlacedAt
  <2> QED BY <2>3, <2>6, <2>8, <2>9, <2>10, <2>11, <2>12 DEF PlaceInv
<1>3. PacketInv' BY <1>t, <1>k, <1>q DEF PacketInv, TicketInv, ChannelTypeOK, Stages
<1>4. ASSUME NEW q \in Handoffs PROVE TicketInv(q)'
  <2>1. TicketInv(q) BY <1>q
  <2>2. place'[q] = place[q] \/ (place[q] = "batch" /\ place'[q] \in {"decode", "done"})
    BY <1>t, <1>p DEF PlaceInv, PlacedAt, ChannelTypeOK, Stages
  <2> QED BY <1>t, <1>q, <2>1, <2>2 DEF TicketInv, ChannelTypeOK, Stages
<1>5. ASSUME NEW e \in Takers, NEW q \in Handoffs PROVE LoneInv(e, q)'
  <2>1. LoneInv(e, q) BY <1>l
  <2>2. place'[q] = place[q] \/ place[q] = "batch"
    BY <1>t, <1>p DEF PlaceInv, PlacedAt, ChannelTypeOK, Stages
  <2>3. Lone(e) => e = d BY <1>t, <1>p DEF Lone, PlaceInv, ChannelTypeOK, Stages
  <2> QED BY <1>t, <1>l, <2>1, <2>2, <2>3 DEF LoneInv, Lone, Pending, ChannelTypeOK, Stages
<1>6. NoSpuriousTimeout'
  BY <1>t, <1>n DEF NoSpuriousTimeout, ChannelTypeOK
<1> QED BY <1>1, <1>2, <1>3, <1>4, <1>5, <1>6 DEF ChannelIInv

(* A step that changes nothing keeps the invariant. *)
LEMMA StutterKeeps ==
  ASSUME ChannelIInv, UNCHANGED channelVars
  PROVE ChannelIInv'
<1> USE DEF ChannelIInv, channelVars
<1>1. ChannelTypeOK' BY Zenon DEF ChannelTypeOK
<1>2. PlaceInv' /\ PacketInv' BY DEF PlaceInv, PlacedAt, PacketInv
<1>3. \A q \in Handoffs : TicketInv(q)' BY DEF TicketInv
<1>4. \A e \in Takers, q \in Handoffs : LoneInv(e, q)' BY DEF LoneInv, Lone, Pending
<1>5. NoSpuriousTimeout' BY DEF NoSpuriousTimeout
<1> QED BY <1>1, <1>2, <1>3, <1>4, <1>5

(* Every step preserves the invariant. *)
LEMMA ChannelNextIInv == ChannelIInv /\ [ChannelNext]_channelVars => ChannelIInv'
BY RegisterKeeps, EnqueueKeeps, EnqueueRefusedKeeps, PublishKeeps, FairnessTakesKeeps,
   LocalEndsKeeps, WakeKeeps, DequeueKeeps, DequeueLostKeeps, ApplyKeeps, DrainEndsKeeps,
   RunKeeps, StutterKeeps
   DEF ChannelNext, DecoderSteps

(* At the start no packet was sent. *)
LEMMA ChannelInitIInv == ChannelInit => ChannelIInv
<1> SUFFICES ASSUME ChannelInit PROVE ChannelIInv OBVIOUS
<1> USE SizesAssumption, ChannelConfigsAssumption, NoPacketAssumption DEF ChannelInit
<1>1. ChannelTypeOK
  <2>1. Cardinality({}) = 0 BY FS_EmptySet
  <2>2. \A d \in Takers : batch[d] = {} /\ Cardinality(batch[d]) <= MaxBatch BY <2>1
  <2>3. /\ batch \in [Takers -> SUBSET Handoffs] /\ packet \in [Takers -> Handoffs \cup {NoPacket}]
        /\ dpc \in [Takers -> {"wait", "drain", "apply", "run"}]
    OBVIOUS
  <2>4. /\ place \in [Handoffs ->
                      {"prefill", "publishing", "sent", "decode", "batch", "local", "done"}]
        /\ prefilled \in [Handoffs -> BOOLEAN] /\ stage \in [Handoffs -> Stages]
    BY DEF Stages
  <2>5. retries \in [Handoffs -> 0 .. MaxRetries + 1] OBVIOUS
  <2>6. channel \in Seq(Handoffs) /\ Len(channel) = 0 /\ channelConfig.capacity \in Nat OBVIOUS
  <2> QED BY <2>2, <2>3, <2>4, <2>5, <2>6 DEF ChannelTypeOK
<1>2. PlaceInv BY DEF PlaceInv, PlacedAt
<1>3. PacketInv BY DEF PacketInv
<1>4. \A r \in Handoffs : TicketInv(r) /\ ~Pending(r) BY DEF TicketInv, Pending
<1> QED BY <1>1, <1>2, <1>3, <1>4 DEF ChannelIInv, LoneInv, NoSpuriousTimeout

(* A channel without duplicates has each packet once. *)
LEMMA Tracks == ChannelIInv => TicketTracksPacket
<1> SUFFICES ASSUME ChannelIInv, NEW r \in Handoffs
             PROVE  /\ r \in Range(channel) => stage[r] = "enqueued"
                    /\ stage[r] = "enqueued" => r \in Range(channel) \/ channelConfig.lossy
                    /\ stage[r] = "acknowledged" <=> \E d \in Takers : packet[d] = r
                    /\ \A d, e \in Takers : packet[d] = r /\ packet[e] = r => d = e
                    /\ Cardinality({i \in DOMAIN channel : channel[i] = r}) <= 1
  BY DEF TicketTracksPacket
<1> USE NoPacketAssumption DEF ChannelIInv
<1>1. TicketInv(r) OBVIOUS
<1>2. /\ r \in Range(channel) => stage[r] = "enqueued"
      /\ stage[r] = "enqueued" => r \in Range(channel) \/ channelConfig.lossy
  BY <1>1 DEF PacketInv, TicketInv, Range
<1>3. stage[r] = "acknowledged" <=> \E d \in Takers : packet[d] = r
  BY <1>1 DEF PacketInv, TicketInv
<1>4. \A d, e \in Takers : packet[d] = r /\ packet[e] = r => d = e
  BY DEF PacketInv
<1>5. Cardinality({i \in DOMAIN channel : channel[i] = r}) <= 1
  <2> DEFINE At == {i \in DOMAIN channel : channel[i] = r}
  <2>1. CASE At = {} BY <2>1, FS_EmptySet
  <2>2. CASE At # {}
    <3>1. PICK i : At = {i} BY <2>2 DEF PacketInv
    <3>2. Cardinality({i}) = 1 BY FS_Singleton, Zenon
    <3> QED BY <3>1, <3>2
  <2> QED BY <2>1, <2>2
<1> QED BY <1>2, <1>3, <1>4, <1>5

(* A ticket tells where its packet is, for every number of requests, decode   *)
(* workers and packets in the channel, and a lone decode worker that needs no *)
(* hydration never times out a packet of a request that was prefilled.        *)
THEOREM ChannelStaysSafe == ChannelSpec => []ChannelSafe
<1>1. ChannelIInv => ChannelSafe BY Tracks DEF ChannelIInv, ChannelSafe
<1> QED BY <1>1, ChannelInitIInv, ChannelNextIInv, PTL DEF ChannelSpec

=============================================================================
