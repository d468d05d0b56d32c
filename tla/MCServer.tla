------------------------------ MODULE MCServer ------------------------------
(* Connections, requests and the models they ask for, one component at a    *)
(* time: `focus` says which runs; the others stay in an initial state.      *)
EXTENDS HttpServer, HttpRequests, ModelRouter

CONSTANTS p, q, x

VARIABLE focus

---------------------------------------------------------------------------
(* HttpRequests: every route with every pair of failing checks, generation  *)
(* in every mode, and a second request on a kept connection.                *)

Healthy == [transport |-> FALSE, role |-> "unified", model |-> TRUE, decoders |-> 0,
            live_decoders |-> 0, streak |-> 0, debt |-> 0, streak_limit |-> 3,
            debt_limit |-> 6, fail_closed |-> FALSE]
Environments ==
  [transport : {TRUE}, role : {"unified", "prefill", "decode"}, model : BOOLEAN, decoders : {0, 2},
   live_decoders : {0, 2}, streak : {2, 3}, debt : {5, 6}, streak_limit : {0, 3},
   debt_limit : {6}, fail_closed : BOOLEAN]
Ask == [route |-> "livez", bad |-> {}, read |-> "whole", close |-> FALSE, stream |-> FALSE,
        n |-> 1, tools |-> FALSE, usage |-> FALSE, env |-> Healthy]
Routes == {"ui", "healthz", "livez", "readyz", "options", "metrics", "guardrails", "pools",
           "rate_limit", "api_keys", "admin_models", "routing", "cache", "warm", "models",
           "tokenize", "embeddings", "generation", "nowhere"}
AllRequests ==
  {[Ask EXCEPT !.read = r] : r \in {"broken", "too_large"}}
  \cup UNION {{[Ask EXCEPT !.route = r, !.bad = {c, d}] :
                 c, d \in {RouteChecks(r)[i][1] : i \in DOMAIN RouteChecks(r)}
                          \cup {"auth", "rate"}} : r \in Routes}
  \cup {[Ask EXCEPT !.route = r, !.close = b] : r \in Routes, b \in BOOLEAN}
  \cup {[Ask EXCEPT !.route = r, !.env = e] : r \in {"readyz", "generation"},
         e \in Environments}
  \cup {[Ask EXCEPT !.route = "generation", !.stream = s, !.n = k, !.tools = t, !.usage = u] :
          s, t, u \in BOOLEAN, k \in {1, 2}}
NextRequests ==
  {[Ask EXCEPT !.route = "generation", !.stream = s] : s \in BOOLEAN}
  \cup {[Ask EXCEPT !.route = "metrics", !.bad = b] : b \in {{}, {"auth"}}}
Asked == <<AllRequests, NextRequests>>

---------------------------------------------------------------------------
(* ModelRouter: two artifacts and one name they compete for. *)

PlainP == [path |-> p, id |-> NoModel, make_default |-> TRUE]
NamedP == [path |-> p, id |-> x, make_default |-> TRUE]
NamedQ == [path |-> q, id |-> x, make_default |-> FALSE]
PlainQ == [path |-> q, id |-> NoModel, make_default |-> FALSE]
MCSpecs == {PlainP, NamedP, NamedQ, PlainQ}
MCAdmin == {NamedP, NamedQ}
MCFirst == {NamedQ}
MCSnapshots == {Missing, {PlainQ}, {NamedQ}, {PlainP}, {PlainP, NamedP}}
MCActors == {{"load", "delete"}, {"load", "default"}, {"client", "delete"}, {"client", "load"}}

\* A route that needs a backend under the narrow scope and without a fallback, and
\* generation, which does not need one.
MCOptions ==
  {[fallback |-> b, ready |-> TRUE, same_path |-> b] : b \in BOOLEAN}
  \cup {[fallback |-> TRUE, ready |-> FALSE, same_path |-> FALSE]}

---------------------------------------------------------------------------
MCInit ==
  /\ focus \in {"connections", "requests", "router"}
  /\ ServerInit /\ RequestsInit /\ RouterInit
  /\ focus # "router" => acting = CHOOSE a \in ActorSets : TRUE

MCNext ==
  /\ UNCHANGED focus
  /\ \/ focus = "connections" /\ ServerNext /\ UNCHANGED <<requestVars, routerVars>>
     \/ focus = "requests" /\ RequestsNext /\ UNCHANGED <<httpVars, routerVars>>
     \/ focus = "router" /\ RouterNext /\ UNCHANGED <<httpVars, requestVars>>

mcVars == <<focus, httpVars, requestVars, routerVars>>

MCSpec ==
  /\ MCInit /\ [][MCNext]_mcVars
  /\ WF_httpVars(focus = "connections" /\ StopSteps)
  /\ \A l \in Listeners : WF_httpVars(focus = "connections" /\ AcceptorSteps(l))
  /\ \A w \in HttpWorkers : WF_httpVars(focus = "connections" /\ WorkerSteps(w))
  /\ WF_requestVars(focus = "requests" /\ Handling)
  /\ WF_routerVars(focus = "router" /\ WatchSteps)
  /\ WF_routerVars(focus = "router" /\ AdminLoaded)
  /\ \A t \in Threads : /\ SF_routerVars(focus = "router" /\ LoadBegin(t))
                        /\ WF_routerVars(focus = "router" /\ LoadSteps(t))

\* A registry that runs reads the last edit of its file that it can open, however edits
\* and loads interleave.
RunningRegistryReadsLastEdit == focus = "router" => LastEditRead
=============================================================================
