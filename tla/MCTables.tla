------------------------------ MODULE MCTables ------------------------------
(* The tables the scheduler keeps between requests, one at a time: `focus`   *)
(* says which of them is used, and the others stay in an initial state.      *)
(* Sequence slots appear twice: under all their callers at once ("slots"),   *)
(* and as the scheduler drives them ("lifecycle").                           *)
EXTENDS SlotLifecycle, RadixCache, KVTransport, SessionHandles, PageStore

CONSTANTS d1, d2, h1, h2, h3

VARIABLE focus

---------------------------------------------------------------------------
(* SlotLifecycle: the unified scheduler with a context limit. *)

UnifiedConfig == {[pool |-> {}, blob |-> FALSE, limited |-> TRUE]}

(* RadixCache: the prompts share prefixes of two lengths, end on each        *)
(* other's edges, and leave them in the middle and at nodes.                 *)

MCPrompts == {<<1, 1>>, <<1, 1, 1>>, <<1, 1, 2>>, <<1, 2>>, <<2, 1>>}
MCFewPrompts == {<<1, 1>>, <<1, 1, 2>>, <<1, 2>>}

(* KVTransport: an in-process channel with one decode worker, and a pool of  *)
(* two that hydrates packets from segments.                                  *)

MCChannels ==
  {[clients |-> {h1, h2, h3}, pool |-> {d1}, capacity |-> 2,
    blob |-> FALSE, lossy |-> FALSE, preempt |-> FALSE],
   [clients |-> {h1, h2}, pool |-> {d1, d2}, capacity |-> 1,
    blob |-> TRUE, lossy |-> FALSE, preempt |-> TRUE],
   [clients |-> {h1, h2}, pool |-> {d1, d2}, capacity |-> 2,
    blob |-> TRUE, lossy |-> TRUE, preempt |-> FALSE]}

(* SessionHandles: request <<s, i>> is turn i of session s.  Two turns of    *)
(* one session compete for its lease, and three sessions for fewer entries.  *)

Conversations == {<<"a", 1>>, <<"a", 2>>, <<"b", 1>>, <<"c", 1>>}
SessionOfTurn == [r \in Turns |-> r[1]]

(* PageStore: both eviction policies, no file, one writer and two. *)

MCStores == {[policy |-> "clock", workers |-> 1, depth |-> 1, offload |-> FALSE],
             [policy |-> "lru", workers |-> 1, depth |-> 1, offload |-> TRUE],
             [policy |-> "clock", workers |-> 2, depth |-> 1, offload |-> TRUE]}

---------------------------------------------------------------------------
MCInit(foci) ==
  /\ focus \in foci
  /\ LInit /\ RadixInit /\ ChannelInit /\ SessionInit /\ StoreInit
  /\ focus # "channel" => channelConfig = CHOOSE c \in ChannelConfigs : TRUE
  /\ focus # "pages" => setup = CHOOSE c \in StoreConfigs : TRUE

MCNext ==
  /\ UNCHANGED focus
  /\ \/ /\ focus = "slots" /\ Next
        /\ UNCHANGED <<lifeVars, radixVars, channelVars, sessionVars, storeVars>>
     \/ /\ focus = "lifecycle" /\ LNext
        /\ UNCHANGED <<radixVars, channelVars, sessionVars, storeVars>>
     \/ /\ focus = "radix" /\ RadixNext
        /\ UNCHANGED <<allVars, channelVars, sessionVars, storeVars>>
     \/ /\ focus = "channel" /\ ChannelNext
        /\ UNCHANGED <<allVars, radixVars, sessionVars, storeVars>>
     \/ /\ focus = "sessions" /\ SessionNext
        /\ UNCHANGED <<allVars, radixVars, channelVars, storeVars>>
     \/ /\ focus = "pages" /\ StoreNext
        /\ UNCHANGED <<allVars, radixVars, channelVars, sessionVars>>

mcVars == <<focus, allVars, radixVars, channelVars, sessionVars, storeVars>>

\* For the safety properties.
MCSafety ==
  MCInit({"slots", "radix", "channel", "sessions", "pages"}) /\ [][MCNext]_mcVars

\* For progress, with the fairness of every component.
MCLive ==
  /\ MCInit({"lifecycle", "radix", "channel", "sessions", "pages"}) /\ [][MCNext]_mcVars
  /\ \A t \in Threads : WF_allVars(focus = "lifecycle" /\ SlotProcedures(t))
  /\ WF_allVars(focus = "lifecycle" /\ EvictorWakes)
  /\ \A s \in Slots : WF_allVars(focus = "lifecycle" /\ StreamsDrain(s))
  /\ WF_radixVars(focus = "radix" /\ (InsertReturns \/ \E n \in Nodes : TrimSequences(n) \/ TrimNodes(n)))
  /\ \A d \in Takers : WF_channelVars(focus = "channel" /\ DecoderSteps(d))
  /\ \A r \in Handoffs : WF_channelVars(focus = "channel" /\ (Enqueue(r) \/ EnqueueRefused(r) \/ Publish(r)))
  /\ WF_sessionVars(focus = "sessions" /\ CollectExpired)
  /\ \A x \in Turns : WF_sessionVars(focus = "sessions" /\ ReleaseSessionState(x))
  /\ WF_storeVars(focus = "pages" /\ EnqueueTask)
  /\ WF_storeVars(focus = "pages" /\ WriterStopped)
  /\ \A w \in 1 .. 2 : WF_storeVars(focus = "pages" /\ w \in DOMAIN holding /\ WriterStep(w))

\* Operations that loop or wait while they hold a mutex end: the loops of Insert
\* under the prefix cache's, the waits for the file writer under the page store's.
LocksAreReleased == InsertTerminates /\ MutexIsReleased
=============================================================================
