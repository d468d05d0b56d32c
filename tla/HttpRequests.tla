---------------------------- MODULE HttpRequests ----------------------------
(***************************************************************************)
(* One connection of the HTTP server: HandleClient of                      *)
(* server/http/http_server.cpp, request after request.  A request is the   *)
(* route it names and the set of checks it fails; the handlers' early      *)
(* returns are sequences of checks with the status each one answers.  What *)
(* is sent is the sequence of status lines and stream frames.              *)
(*                                                                         *)
(* Generation waits for futures the scheduler fulfils, and a streamed one  *)
(* has its frames sent by the scheduler's decode thread through on_token.  *)
(* The handlers that change policy or models are actions of PolicyAdmin    *)
(* and ModelRouter.                                                        *)
(***************************************************************************)
EXTENDS Integers, Sequences, FiniteSets, SequencesExt

CONSTANTS
  Kinds,        \* the requests a client may send first, second, ...
  MaxTokens,    \* pieces the model may produce
  NoRequest

VARIABLES
  rq,        \* the request in HandleClient
  rpc,       \* "idle", "received", "embedding", "waiting", "closed", "terminated"
  wire,      \* what was sent for rq: statuses, "sse", frames, "done"; "cut" for a failed send
  peer,      \* "reading" or "gone"
  keep,      \* session.keep_alive
  stream,    \* [active, cancel]: stream_active and stream_cancel_flag
  futures,   \* the futures of rq: "pending", "value", "no_backend", "broken"
  pieces,    \* pieces produced so far
  cancelled, \* the flag given to the scheduler with an embedding
  gauge,     \* the connections gauge
  charged,   \* requests Admit debited, in this HandleClient
  caught,    \* the handler caught an exception, in this HandleClient
  handled    \* requests handled

requestVars == <<rq, rpc, wire, peer, keep, stream, futures, pieces, cancelled,
                 gauge, charged, caught, handled>>

---------------------------------------------------------------------------
(* The checks of the routes: <<check, status if it fails>> in the order of   *)
(* the code.                                                                 *)

\* EvaluateReadyStatus: model, decode pool and transport.
TransportDegraded(e) ==
  /\ e.transport /\ e.role # "prefill"
  /\ \/ e.streak_limit > 0 /\ e.streak >= e.streak_limit
     \/ e.debt_limit > 0 /\ e.debt >= e.debt_limit
PoolWarm(e) == e.decoders > 0 /\ e.live_decoders = e.decoders
ReadyStatus(e) ==
  /\ e.model
  /\ e.role = "decode" => PoolWarm(e)
  /\ ~TransportDegraded(e)

\* EvaluateGenerationAdmissionDecision.
Admitted(e) == e.fail_closed => ~TransportDegraded(e)

Public == {"ui", "healthz", "livez", "readyz", "options"}
SubjectChecks == << <<"auth", "401">>, <<"rate", "429">> >>
MetricsChecks == << <<"read", "403">> >>
GuardrailsChecks == << <<"part", "503">>, <<"admin", "403">> >>
PoolsChecks == << <<"admin", "403">> >>
RateLimitChecks == << <<"admin", "403">> >>
ApiKeysChecks == << <<"admin", "403">>, <<"part", "503">> >>
AdminModelsChecks == << <<"admin", "403">>, <<"part", "503">> >>
RoutingChecks == << <<"admin", "403">> >>
CacheChecks == << <<"admin", "403">> >>
WarmChecks == << <<"admin", "403">>, <<"part", "503">>, <<"body", "400">> >>
ModelsChecks == << <<"read", "403">>, <<"unknown_model", "404">> >>
TokenizeChecks ==
  << <<"read", "403">>, <<"body", "400">>, <<"unknown_model", "404">>, <<"unsupported", "422">>,
     <<"part", "503">> >>
EmbeddingChecks ==
  << <<"read", "403">>, <<"body", "400">>, <<"unknown_model", "404">>, <<"unsupported", "422">>,
     <<"part", "503">> >>
\* tools on /v1/completions; an empty prompt; the degraded transport; the selection;
\* the guardrail; several completions with stream.
GenerationChecks ==
  << <<"generate", "403">>, <<"body", "400">>, <<"tools_route", "400">>, <<"prompt", "400">>,
     <<"degraded", "503">>, <<"unknown_model", "404">>, <<"unsupported", "422">>,
     <<"blocked", "400">>, <<"multi_stream", "400">> >>

RouteChecks(route) ==
  CASE route = "metrics" -> MetricsChecks
    [] route = "guardrails" -> GuardrailsChecks
    [] route = "pools" -> PoolsChecks
    [] route = "rate_limit" -> RateLimitChecks
    [] route = "api_keys" -> ApiKeysChecks
    [] route = "admin_models" -> AdminModelsChecks
    [] route = "routing" -> RoutingChecks
    [] route = "cache" -> CacheChecks
    [] route = "warm" -> WarmChecks
    [] route = "models" -> ModelsChecks
    [] route = "tokenize" -> TokenizeChecks
    [] route = "embeddings" -> EmbeddingChecks
    [] route = "generation" -> GenerationChecks
    [] OTHER -> << >>

Checks(q) == IF q.route \in Public THEN << >> ELSE SubjectChecks \o RouteChecks(q.route)

Failing(q) ==
  q.bad \cup (IF q.route = "generation" /\ ~Admitted(q.env) THEN {"degraded"} ELSE {})
        \cup (IF q.n > 1 /\ q.stream THEN {"multi_stream"} ELSE {})

\* The status of the first failing check, or "ok".
FirstFailure(q) ==
  LET hits == SelectSeq(Checks(q), LAMBDA c : c[1] \in Failing(q))
  IN IF hits = << >> THEN "ok" ELSE hits[1][2]

\* The status of a request that passes its checks and needs no scheduler.
PlainStatus(q) ==
  CASE q.route = "readyz" -> IF ReadyStatus(q.env) THEN "200" ELSE "503"
    [] q.route = "options" -> "204"
    [] q.route = "nowhere" -> "404"
    [] OTHER -> "200"

---------------------------------------------------------------------------
RequestsInit ==
  /\ rq = NoRequest /\ rpc = "idle" /\ wire = << >> /\ peer = "reading"
  /\ keep = TRUE /\ stream = [active |-> FALSE, cancel |-> FALSE]
  /\ futures = << >> /\ pieces = 0 /\ cancelled = FALSE
  /\ gauge = 0 /\ charged = 0 /\ caught = FALSE /\ handled = 0

\* SendAll, once for each item: it arrives whole, or a peer that does not read in time
\* gets some of its bytes or none.  The result is not looked at, and the next item is tried.
\* To a peer that is gone nothing arrives.
Sent(items) ==
  IF peer = "gone" THEN {wire}
  ELSE {wire \o [i \in DOMAIN items |-> IF i \in failed THEN "cut" ELSE items[i]] :
          failed \in SUBSET DOMAIN items}

\* HandleClient returns: the guard object settles the gauge.
Return ==
  /\ rpc' = IF keep' THEN "idle" ELSE "closed"
  /\ gauge' = gauge - 1

Answer(status) == wire' \in Sent(<<status>>) /\ Return

\* The headers and the body are read; Connection: close is honoured.  A request that
\* is too large is answered with 413 and one that breaks off is not answered, and in
\* both cases keep_alive is still FALSE.
ReceiveRequest ==
  /\ rpc = "idle" /\ handled < Len(Kinds)
  /\ handled' = handled + 1 /\ gauge' = gauge + 1
  /\ \E q \in Kinds[handled + 1] :
       /\ rq' = q /\ keep' = (q.read = "whole" /\ ~q.close)
       /\ rpc' = "received"
  /\ wire' = << >> /\ stream' = [active |-> FALSE, cancel |-> FALSE]
  /\ futures' = << >> /\ pieces' = 0 /\ cancelled' = FALSE /\ charged' = 0
  /\ caught' = FALSE /\ UNCHANGED peer

\* Admit debits what it lets pass.
Charged(q) ==
  IF q.route \in Public \/ {"auth", "rate"} \cap q.bad # {} THEN 0 ELSE 1

\* A request that is answered at once: unreadable, refused, or served by its handler.
Dispatch ==
  /\ rpc = "received" /\ (rq.read # "whole" \/ FirstFailure(rq) # "ok"
                          \/ rq.route \notin {"embeddings", "generation"})
  /\ charged' = IF rq.read = "whole" THEN Charged(rq) ELSE 0
  /\ UNCHANGED keep
  /\ IF rq.read = "broken" THEN Return /\ UNCHANGED wire
     ELSE Answer(IF rq.read = "too_large" THEN "413"
                 ELSE IF FirstFailure(rq) # "ok" THEN FirstFailure(rq) ELSE PlainStatus(rq))
  /\ UNCHANGED <<rq, peer, stream, futures, pieces, cancelled, caught, handled>>

Accepted(route) ==
  rpc = "received" /\ rq.read = "whole" /\ rq.route = route /\ FirstFailure(rq) = "ok"

---------------------------------------------------------------------------
(* POST /v1/embeddings. *)

EmbeddingsStart ==
  /\ Accepted("embeddings")
  /\ futures' = <<"pending">> /\ charged' = 1 /\ rpc' = "embedding"
  /\ UNCHANGED <<rq, wire, peer, keep, stream, pieces, cancelled, gauge, caught, handled>>

\* The poll sees that the peer hung up: the work is cancelled, nothing is sent.
EmbeddingsHangUp ==
  /\ rpc = "embedding" /\ futures[1] = "pending" /\ peer = "gone"
  /\ cancelled' = TRUE /\ UNCHANGED keep /\ Return
  /\ UNCHANGED <<rq, wire, peer, stream, futures, pieces, charged, caught, handled>>


EmbeddingsEnd ==
  /\ rpc = "embedding" /\ futures[1] \in {"value", "no_backend"}
  /\ UNCHANGED keep
  /\ Answer(IF futures[1] = "value" THEN "200" ELSE "503")
  /\ UNCHANGED <<rq, peer, stream, futures, pieces, cancelled, charged, caught, handled>>

---------------------------------------------------------------------------
(* Generation. *)

\* n > 1 or best_of > 1: one request for every candidate; when one cannot be
\* submitted the answer is 500 and the earlier ones are left to run.
MultiStart ==
  /\ Accepted("generation") /\ rq.n > 1 /\ charged' = 1 /\ UNCHANGED keep
  /\ \/ /\ futures' = [i \in 1 .. rq.n |-> "pending"]
        /\ rpc' = "waiting" /\ UNCHANGED <<wire, gauge, caught>>
     \/ /\ futures' = [i \in 1 .. rq.n - 1 |-> "pending"]
        /\ Answer("500") /\ caught' = TRUE
  /\ UNCHANGED <<rq, peer, stream, pieces, cancelled, handled>>

\* Generate takes the request, or throws and the handler answers 500.
GenerateStart ==
  /\ Accepted("generation") /\ rq.n = 1 /\ ~rq.stream /\ charged' = 1 /\ UNCHANGED keep
  /\ \/ futures' = <<"pending">> /\ rpc' = "waiting" /\ UNCHANGED <<wire, gauge, caught>>
     \/ Answer("500") /\ caught' = TRUE /\ UNCHANGED futures
  /\ UNCHANGED <<rq, peer, stream, pieces, cancelled, handled>>

\* SSE consumes the connection; without headers there is no stream.  The headers are out
\* when Generate throws.
StreamStart ==
  /\ Accepted("generation") /\ rq.n = 1 /\ rq.stream /\ charged' = 1
  /\ keep' = FALSE /\ stream' = [active |-> TRUE, cancel |-> FALSE]
  /\ \/ /\ peer = "reading"
        /\ wire' = <<"sse">> /\ futures' = <<"pending">> /\ rpc' = "waiting"
        /\ UNCHANGED <<gauge, caught>>
     \/ /\ peer = "reading"
        /\ wire' \in {<<"sse">> \o answer : answer \in Sent(<<"500">>)} /\ Return
        /\ caught' = TRUE /\ UNCHANGED futures
     \/ /\ wire' = IF peer = "reading" THEN <<"cut">> ELSE << >>
        /\ Return /\ UNCHANGED <<futures, caught>>
  /\ UNCHANGED <<rq, peer, pieces, cancelled, handled>>

\* on_token, on the decode thread: with tools the piece is kept for later, otherwise
\* it is sent; a failed send ends the stream and asks for cancellation.
OnToken ==
  /\ rpc = "waiting" /\ rq.stream /\ futures = <<"pending">> /\ pieces < MaxTokens
  /\ pieces' = pieces + 1
  /\ IF ~stream.active \/ rq.tools THEN UNCHANGED <<wire, stream>>
     ELSE \/ peer = "reading" /\ wire' = Append(wire, "chunk") /\ UNCHANGED stream
          \/ /\ wire' = IF peer = "reading" THEN Append(wire, "cut") ELSE wire
             /\ stream' = [active |-> FALSE, cancel |-> TRUE]
  /\ UNCHANGED <<rq, rpc, peer, keep, futures, cancelled, gauge, charged, caught, handled>>

\* The scheduler fulfils a promise, or drops it.  A request without a backend
\* produces no pieces.
Fulfil ==
  /\ \E i \in DOMAIN futures, r \in {"value", "no_backend", "broken"} :
       /\ futures[i] = "pending"
       /\ r = "no_backend" => pieces = 0
       /\ futures' = [futures EXCEPT ![i] = r]
  /\ UNCHANGED <<rq, rpc, wire, peer, keep, stream, pieces, cancelled, gauge, charged, caught, handled>>

Ready == rpc = "waiting" /\ \A i \in DOMAIN futures : futures[i] # "pending"

\* The several completions are ranked and answered together.
MultiEnd ==
  /\ Ready /\ rq.n > 1 /\ \A i \in DOMAIN futures : futures[i] # "broken"
  /\ UNCHANGED keep /\ Answer("200")
  /\ UNCHANGED <<rq, peer, stream, futures, pieces, cancelled, charged, caught, handled>>

GenerateEnd ==
  /\ Ready /\ rq.n = 1 /\ ~rq.stream /\ futures[1] # "broken"
  /\ UNCHANGED keep /\ Answer("200")
  /\ UNCHANGED <<rq, peer, stream, futures, pieces, cancelled, charged, caught, handled>>

StreamTail(q) == (IF q.usage THEN <<"usage">> ELSE << >>) \o <<"done">>

\* Without a backend the stream is completed with the canned text or a tool call.
StreamNoBackend ==
  /\ Ready /\ rq.n = 1 /\ rq.stream /\ futures[1] = "no_backend"
  /\ wire' \in Sent((IF rq.tools THEN <<"finish">> ELSE <<"chunk", "finish">>) \o StreamTail(rq))
  /\ stream' = [stream EXCEPT !.active = FALSE]
  /\ UNCHANGED keep /\ Return
  /\ UNCHANGED <<rq, peer, futures, pieces, cancelled, charged, caught, handled>>

\* Mutant of StreamEnd: the end is sent only when something was streamed.
StreamEndNonEmpty ==
  /\ Ready /\ rq.n = 1 /\ rq.stream /\ futures[1] = "value"
  /\ wire' \in IF stream.active /\ pieces > 0 THEN Sent(<<"finish">> \o StreamTail(rq)) ELSE {wire}
  /\ stream' = [stream EXCEPT !.active = FALSE]
  /\ UNCHANGED keep /\ Return
  /\ UNCHANGED <<rq, peer, futures, pieces, cancelled, charged, caught, handled>>

\* The end of a stream that is still active: what was held back, the replay of
\* buffered pieces or the tool call, the finish frame, usage and [DONE].
StreamEnd ==
  /\ Ready /\ rq.n = 1 /\ rq.stream /\ futures[1] = "value"
  /\ IF ~stream.active THEN UNCHANGED wire
     ELSE \E held \in {<< >>, <<"chunk">>} :
            /\ (pieces = 0 => held = << >>)
            /\ wire' \in Sent(held \o <<"finish">> \o StreamTail(rq))
  /\ stream' = [stream EXCEPT !.active = FALSE]
  /\ UNCHANGED keep /\ Return
  /\ UNCHANGED <<rq, peer, futures, pieces, cancelled, charged, caught, handled>>

\* The exception handler around get and the answer: 500, streamed or not, and behind
\* whatever frames went before.
GenerateThrows ==
  /\ Ready /\ rq.n = 1 /\ UNCHANGED keep
  /\ \/ futures[1] = "broken" /\ Answer("500")
     \/ futures[1] # "broken" /\ ~rq.stream /\ Answer("500")
     \/ /\ futures[1] # "broken" /\ rq.stream /\ Return
        /\ \E before \in {<< >>, <<"chunk">>, <<"chunk", "finish">>} :
             /\ stream.active \/ before = << >>
             /\ wire' \in Sent(Append(before, "500"))
  /\ caught' = TRUE
  /\ UNCHANGED <<rq, peer, stream, futures, pieces, cancelled, charged, handled>>

\* get() of an embedding or of several completions is outside any handler: a dropped
\* promise ends the process.
UncaughtThrows ==
  /\ \/ rpc = "embedding" /\ futures[1] = "broken"
     \/ Ready /\ rq.n > 1 /\ \E i \in DOMAIN futures : futures[i] = "broken"
  /\ rpc' = "terminated" /\ gauge' = gauge - 1
  /\ UNCHANGED <<rq, wire, peer, keep, stream, futures, pieces, cancelled, charged, caught, handled>>

\* The peer goes away.
HangUp ==
  /\ peer = "reading" /\ rpc \notin {"closed", "terminated"} /\ peer' = "gone"
  /\ UNCHANGED <<rq, rpc, wire, keep, stream, futures, pieces, cancelled, gauge, charged, caught, handled>>

Handling ==
  \/ Dispatch \/ EmbeddingsStart \/ EmbeddingsHangUp \/ EmbeddingsEnd
  \/ MultiStart \/ MultiEnd \/ GenerateStart \/ GenerateEnd
  \/ StreamStart \/ StreamNoBackend \/ StreamEnd \/ GenerateThrows \/ UncaughtThrows

RequestsNext == ReceiveRequest \/ Handling \/ OnToken \/ Fulfil \/ HangUp

\* The worker runs; the scheduler may leave a promise for ever.
RequestsFairness == WF_requestVars(Handling)
RequestsSpec == RequestsInit /\ [][RequestsNext]_requestVars /\ RequestsFairness

---------------------------------------------------------------------------
(* Properties. *)

Statuses == {"200", "204", "400", "401", "403", "404", "413", "422", "429", "500", "503"}
Frames == {"chunk", "finish", "usage", "done"}

\* The request, what was sent for it and the counters keep their types.
RequestsTypeOK ==
  /\ rpc \in {"idle", "received", "embedding", "waiting", "closed", "terminated"}
  /\ wire \in Seq(Statuses \cup {"sse", "cut"} \cup Frames)
  /\ keep \in BOOLEAN /\ stream \in [active : BOOLEAN, cancel : BOOLEAN]
  /\ gauge \in Int /\ charged \in 0 .. 1

\* The connections gauge counts the HandleClient calls in progress, so it returns to
\* zero on every path out of a handler.
GaugeCountsHandlers == gauge = (IF rpc \in {"idle", "closed", "terminated"} THEN 0 ELSE 1)

HeadLines == {i \in DOMAIN wire : wire[i] \notin Frames \cup {"cut"}}
AllSent == "cut" \notin Range(wire)

\* A request gets at most one HTTP response head, also when the model fails, sends fail, the
\* peer hangs up or several completions are asked for, unless the handler caught an
\* exception when the head of a stream was out.
OneResponseHead ==
  HeadLines \subseteq {1} \/ (rq # NoRequest /\ rq.stream /\ caught)

\* The same without exception.  http_server.cpp, no_backend path: "SSE headers were
\* already sent. Complete the stream body rather than sending a second HTTP response
\* (which would corrupt the framing)."
OneResponseHeadAlways == HeadLines \subseteq {1}

\* A connection is kept for another request only after exactly one whole response
\* and never after an event stream, so the next response cannot be taken for a
\* part of this one, unless the peer was too slow for the response to be sent.
KeptAfterWholeResponse ==
  rpc = "idle" /\ rq # NoRequest /\ peer = "reading" /\ AllSent =>
    Len(wire) = 1 /\ wire[1] \in Statuses

\* The same without the exception.  The code breaks it: SendAll says that it failed, the
\* handlers do not look, and keep_alive stays set behind a part of a response.
KeptAfterWholeResponseAlways ==
  rpc = "idle" /\ rq # NoRequest /\ peer = "reading" => Len(wire) = 1 /\ wire[1] \in Statuses

\* An event stream is pieces, one finish frame, the optional usage frame and [DONE]
\* in this order, and a stream whose peer stayed and read and whose model answered is
\* complete when its connection is closed.
StreamWellFormed ==
  wire # << >> /\ wire[1] = "sse" /\ ~caught =>
    LET rank(f) == CASE f = "sse" -> 0 [] f = "chunk" -> 1 [] f = "finish" -> 2
                     [] f = "usage" -> 3 [] f = "done" -> 4
    IN /\ \A i, j \in DOMAIN wire :
            i < j /\ "cut" \notin {wire[i], wire[j]} =>
              rank(wire[i]) < rank(wire[j]) \/ (wire[i] = "chunk" /\ wire[j] = "chunk")
       /\ rpc = "closed" /\ peer = "reading" /\ AllSent => Last(wire) = "done"

\* The limiter is debited once for a request it admits, also when the request is refused
\* later, and never for one that is public, has no valid key or is answered with 429.
OnlyAdmittedCharged ==
  rpc \in {"idle", "closed"} /\ rq # NoRequest /\ rq.read = "whole" =>
    (charged = 1) <=> (rq.route \notin Public /\ rq.bad \cap {"auth", "rate"} = {})

\* After a failed send of a frame the scheduler has been asked to cancel and nothing
\* is sent on the stream again, but for the answer to an exception.
NothingAfterFailedSend ==
  [][stream.cancel /\ rpc = "waiting" /\ ~caught' => wire' = wire]_requestVars

Returned == rpc \in {"idle", "closed", "terminated"}
Waiting == rpc \in {"embedding", "waiting"}


\* What a client can rely on, whichever way its request ends: one status line, a
\* connection kept only behind a whole response, a stream that ends as its
\* protocol says, nothing behind a failed send, no charge for what was not
\* admitted; and the gauge of active requests agrees with what the handlers do.
ResponsesSafe ==
    /\ [](/\ RequestsTypeOK
          /\ GaugeCountsHandlers
          /\ OneResponseHead
          /\ KeptAfterWholeResponse
          /\ StreamWellFormed
          /\ OnlyAdmittedCharged)
    /\ NothingAfterFailedSend
=============================================================================
