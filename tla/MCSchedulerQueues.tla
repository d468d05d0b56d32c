------------------------- MODULE MCSchedulerQueues -------------------------
(* TLC instances of SchedulerQueues: requests are numbers and a request's  *)
(* priority is its number.                                                 *)
EXTENDS SchedulerQueues

CONSTANTS d1, d2

RequestPriority == [r \in Requests |-> r]

Calm(clients, embeds, pool, stops) ==
  [clients |-> clients, embeds |-> embeds, pool |-> pool, stops |-> stops,
   faulty |-> {}, capability |-> FALSE]

\* Unified mode with an embedding and a shutdown; split mode with two workers;
\* split mode with an embedding; two workers in which everything goes wrong,
\* without and with a model that changes.
AllConfigs ==
  LET faulty == [Calm({1, 2}, {}, {d1, d2}, TRUE) EXCEPT !.faulty = {"worker", "decoder"}]
  IN {Calm({1, 2, 3}, {2}, {}, TRUE), Calm({1, 2, 3}, {}, {d1, d2}, FALSE),
      Calm({1, 2}, {1}, {d1}, FALSE), faulty, [faulty EXCEPT !.capability = TRUE]}

WorkerThrowsConfig == {[Calm({1, 2}, {}, {}, FALSE) EXCEPT !.faulty = {"worker"}]}
SplitStopsConfig == {Calm({1, 2}, {}, {d1}, TRUE)}
=============================================================================
