---------------------------- MODULE DecodeGraphs ----------------------------
(* The CUDA graphs of batched decode (LlamaForwardTyped::BatchForwardDevice  *)
(* and BatchForwardReplay in transformer_forward.cu): one captured graph per *)
(* batch width, at most kMaxDecodeGraphs of them, replaced in least recently *)
(* used order; capture starts after some warm-up calls and is given up after *)
(* some failures.  One call is one step.  What the device and the kernels    *)
(* answer is chosen per call; the layers a call computes are in ForwardPass. *)
EXTENDS Integers, Sequences, FiniteSets
LOCAL INSTANCE SequencesExt

CONSTANTS GraphWidths,       \* the batch widths decode runs at
          CaptureSafe,       \* those whose projections all have a fused kernel
          PinnedWorkspace,   \* gemm_->HasPinnedWorkspace()
          kMaxDecodeGraphs,
          GraphWarmup,       \* initial graph_warmup_remaining_
          GraphRetries       \* initial graph_retry_remaining_

ASSUME GraphBounds ==
  /\ GraphWidths \subseteq Nat \ {0} /\ CaptureSafe \subseteq GraphWidths
  /\ PinnedWorkspace \in BOOLEAN
  /\ kMaxDecodeGraphs \in Nat \ {0} /\ GraphWarmup \in Nat /\ GraphRetries \in Nat \ {0}

VARIABLES
  decode_graphs,   \* the widths with a graph, each "whole" or "partial"
  decode_graph_lru,
  graph_enabled, graph_warmup, graph_retry,
  relay,           \* the width the token relay is armed for, 0 when it is not
  graphCall,       \* the last call: what it met and what it returned
  usedSince        \* for a width, the widths whose graph ran since its own did

graphVars == <<decode_graphs, decode_graph_lru, graph_enabled, graph_warmup,
               graph_retry, relay, graphCall, usedSince>>

(* What one run of the compute section meets: every kernel launched, some    *)
(* check that returned false, or a projection that only cuBLAS can compute.  *)
Computes == {"ok", "failed", "dense"}

(* One call as it is observed: the width, whether it met a failed compute or *)
(* an aborted capture, what it returned and whether the logits are this      *)
(* step's.                                                                   *)
NoCall == [width |-> 0, via |-> "none", compute |-> "ok", returned |-> TRUE, logits |-> TRUE]

GraphsInit ==
  /\ decode_graphs = <<>> /\ decode_graph_lru = <<>>
  /\ graph_enabled = TRUE /\ graph_warmup = GraphWarmup /\ graph_retry = GraphRetries
  /\ relay = 0 /\ graphCall = NoCall
  /\ usedSince = [b \in GraphWidths |-> {}]

---------------------------------------------------------------------------
Without(f, b) == [x \in DOMAIN f \ {b} |-> f[x]]

With(f, b, v) == [x \in DOMAIN f \cup {b} |-> IF x = b THEN v ELSE f[x]]

MovedToFront(lru, b) == <<b>> \o SelectSeq(lru, LAMBDA x : x # b)

StepRan(b) == usedSince' = [x \in GraphWidths |-> IF x = b THEN {} ELSE usedSince[x] \cup {b}]

(* The end of a call.  One that returned true may arm the relay for its      *)
(* width: the executor does when the rows were one chunk and no prefill ran, *)
(* and drops it before anything else decodes.                                *)
StepReported(b, via, compute, returned, logits) ==
  /\ relay' \in {0} \cup {w \in {b} : returned}
  /\ graphCall' = [width |-> b, via |-> via, compute |-> compute, returned |-> returned, logits |-> logits]

(* A run of the compute section.  While `capturing` is set a dense           *)
(* projection without a pinned workspace aborts.                             *)
Aborts(capturing, compute) == capturing /\ compute = "dense" /\ ~PinnedWorkspace

RunComputeOk(capturing, compute) == compute # "failed" /\ ~Aborts(capturing, compute)

ShouldUseDecodeGraph(b) == graph_enabled /\ b \in CaptureSafe

Warming(b) == ShouldUseDecodeGraph(b) /\ graph_warmup > 0 /\ DOMAIN decode_graphs = {}

UseGraph(b) == ShouldUseDecodeGraph(b) /\ ~Warming(b)

(* The attempt failed: one retry less, and none left turns graphs off.       *)
AttemptFailed(enabled) ==
  /\ graph_retry' = graph_retry - 1
  /\ graph_enabled' = (enabled /\ graph_retry' > 0)
  /\ graph_warmup' = IF graph_retry' > 0 THEN 2 ELSE graph_warmup

---------------------------------------------------------------------------
(* No graph for this call: the section is launched directly, and the call    *)
(* returns true whatever the section returned.                               *)
DirectStep(b, compute) ==
  /\ ~UseGraph(b)
  /\ graph_warmup' = IF Warming(b) THEN graph_warmup - 1 ELSE graph_warmup
  /\ StepReported(b, "direct", compute, TRUE, RunComputeOk(FALSE, compute))
  /\ UNCHANGED <<decode_graphs, decode_graph_lru, graph_enabled, graph_retry, usedSince>>

ReplayStepStale(b) ==
  /\ UseGraph(b) /\ b \in DOMAIN decode_graphs
  /\ StepRan(b)
  /\ StepReported(b, "replay", "ok", TRUE, decode_graphs[b] = "whole")
  /\ UNCHANGED <<decode_graphs, decode_graph_lru, graph_enabled, graph_warmup, graph_retry>>

(* The graph of this width is launched. *)
ReplayStep(b) ==
  /\ UseGraph(b) /\ b \in DOMAIN decode_graphs
  /\ decode_graph_lru' = MovedToFront(decode_graph_lru, b)
  /\ StepRan(b)
  /\ StepReported(b, "replay", "ok", TRUE, decode_graphs[b] = "whole")
  /\ UNCHANGED <<decode_graphs, graph_enabled, graph_warmup, graph_retry>>

(* The call captures: it has no graph for the width, or launching the one it *)
(* had failed, which drops that graph and turns graphs off; the local        *)
(* use_graph keeps its value, so this call captures all the same.            *)
Captures(b, graphs, enabled) ==
  /\ UseGraph(b)
  /\ \/ b \notin DOMAIN decode_graphs /\ graphs = decode_graphs /\ enabled = graph_enabled
     \/ b \in DOMAIN decode_graphs /\ graphs = Without(decode_graphs, b) /\ enabled = FALSE

(* cudaStreamBeginCapture failed; the section is launched directly. *)
BeginCaptureFails(b, compute) ==
  \E graphs \in {decode_graphs, Without(decode_graphs, b)}, enabled \in BOOLEAN :
    /\ Captures(b, graphs, enabled)
    /\ AttemptFailed(enabled)
    /\ decode_graphs' = graphs
    /\ StepReported(b, "begin", compute, TRUE, RunComputeOk(FALSE, compute))
    /\ UNCHANGED <<decode_graph_lru, usedSince>>

(* A projection aborted the capture, or the capture could not be ended or    *)
(* instantiated: the graph is discarded and the section runs once more, with *)
(* `capturing` as it was.  A kernel that refused a shape refuses it again.   *)
CaptureDiscarded(b, compute, again) ==
  \E graphs \in {decode_graphs, Without(decode_graphs, b)}, enabled \in BOOLEAN :
    /\ Captures(b, graphs, enabled)
    /\ AttemptFailed(enabled)
    /\ decode_graphs' = graphs
    /\ (compute = "dense") = (again = "dense")
    /\ LET ok == RunComputeOk(TRUE, again)
       IN StepReported(b, IF Aborts(TRUE, compute) THEN "abort" ELSE "discard", again, ok, ok)
    /\ UNCHANGED <<decode_graph_lru, usedSince>>

(* The widths that stay when room is made for one more: the back of the list *)
(* goes while the set is full.                                               *)
Evicted(graphs, lru) ==
  LET evict[n \in 0 .. Len(lru)] ==
        LET kept == SubSeq(lru, 1, n)
        IN IF n = 0 \/ Cardinality(DOMAIN graphs \ ToSet(SubSeq(lru, n + 1, Len(lru)))) < kMaxDecodeGraphs
             THEN kept ELSE evict[n - 1]
  IN evict[Len(lru)]

(* The capture became a graph, which takes the width's place and is          *)
(* launched.  The section may have returned false: its kernels up to there   *)
(* are what the graph holds.                                                 *)
CaptureStep(b, compute, launched) ==
  \E graphs \in {decode_graphs, Without(decode_graphs, b)}, enabled \in BOOLEAN :
    /\ Captures(b, graphs, enabled)
    /\ ~Aborts(TRUE, compute)
    /\ LET lru   == Evicted(graphs, decode_graph_lru)
           gone  == ToSet(decode_graph_lru) \ ToSet(lru)
           whole == RunComputeOk(TRUE, compute)
       IN /\ decode_graphs' = With([x \in DOMAIN graphs \ gone |-> graphs[x]], b,
                                   IF whole THEN "whole" ELSE "partial")
          /\ decode_graph_lru' = MovedToFront(lru, b)
          /\ StepReported(b, "capture", compute, launched, launched /\ whole)
    /\ graph_enabled' = enabled
    /\ StepRan(b)
    /\ UNCHANGED <<graph_warmup, graph_retry>>

(* BatchForwardReplay: the rows of the last call come again, and the relay   *)
(* launches their graph with no look at graph_enabled and without moving it  *)
(* in the list.                                                              *)
RelayReplay(b) ==
  /\ relay = b /\ b \in DOMAIN decode_graphs
  /\ \E launched \in BOOLEAN :
       /\ StepReported(b, "relay", "ok", launched, launched /\ decode_graphs[b] = "whole")
       /\ IF launched THEN StepRan(b) ELSE UNCHANGED usedSince
  /\ UNCHANGED <<decode_graphs, decode_graph_lru, graph_enabled, graph_warmup, graph_retry>>

GraphsNext ==
  \E b \in GraphWidths :
    \/ ReplayStep(b) \/ RelayReplay(b)
    \/ \E compute \in Computes :
         \/ DirectStep(b, compute) \/ BeginCaptureFails(b, compute)
         \/ \E again \in Computes : CaptureDiscarded(b, compute, again)
         \/ \E launched \in BOOLEAN : CaptureStep(b, compute, launched)

GraphsSpec == GraphsInit /\ [][GraphsNext]_graphVars

---------------------------------------------------------------------------
(* The list and the set agree: no width is listed twice, every graph is      *)
(* listed, at most kMaxDecodeGraphs exist, and until graphs are turned off   *)
(* the list names nothing else.  Graphs are on only while attempts remain.   *)
GraphSetConsistent ==
  /\ Cardinality(DOMAIN decode_graphs) <= kMaxDecodeGraphs
  /\ IsInjective(decode_graph_lru)
  /\ DOMAIN decode_graphs \subseteq ToSet(decode_graph_lru)
  /\ graph_enabled => ToSet(decode_graph_lru) = DOMAIN decode_graphs /\ graph_retry > 0

(* Making room for one width costs the least recently used: every graph that *)
(* stays has run since the one that goes.  The relay's runs count although   *)
(* they leave the list alone, because the relay only repeats the last call.  *)
OldestWidthGoes ==
  \A b \in DOMAIN decode_graphs \ DOMAIN decode_graphs' :
    \/ b = graphCall'.width
    \/ DOMAIN decode_graphs' \ {graphCall'.width} \subseteq usedSince[b]

(* Graphs that were turned off stay off: no later call replays or captures,  *)
(* except the relay with a graph that is still there.                        *)
OffStaysOff ==
  ~graph_enabled => ~graph_enabled' /\ graphCall'.via \in {"direct", "relay"}

(* The cache of decode graphs: set, list, replacement and switching off.     *)
GraphsSafe ==
  /\ [](GraphSetConsistent)
  /\ [][OldestWidthGoes /\ OffStaysOff]_graphVars

(* docs/GEMV_KERNEL_ARCHITECTURE.md:270, "If any projection falls back to    *)
(* cuBLAS during capture, the graph is discarded and re-executed without     *)
(* capture": the call whose capture a projection aborted still computes.     *)
AbortedCaptureRunsDirectly == graphCall.via = "abort" => graphCall.logits

=============================================================================
