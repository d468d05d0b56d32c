----------------------------- MODULE HttpServer -----------------------------
(***************************************************************************)
(* The threads of the HTTP server (server/http/http_server.cpp): Start,    *)
(* Stop, one AcceptLoop per listener, the bounded queue of accepted        *)
(* connections, and the workers that serve them with keep-alive.           *)
(*                                                                         *)
(* Waiting on queue_cv_ takes two steps: the predicate is evaluated and    *)
(* then the thread blocks, both under queue_mutex_.  Stop changes running_ *)
(* and notifies without that mutex, so it can fall between the two.        *)
(***************************************************************************)
EXTENDS Integers, Sequences, FiniteSets, Functions

CONSTANTS
  Listeners,      \* "http", and "https" when tls.port is set
  HttpWorkers,    \* worker threads
  Conns,          \* connections that clients open
  MaxPending,     \* INFERFLUX_HTTP_MAX_PENDING_CONNECTIONS
  MaxKeepAlive,   \* kMaxKeepAliveRequests
  NoConn

ASSUME ServerAssumption ==
  HttpWorkers # {} /\ MaxPending \in Nat /\ MaxKeepAlive \in Nat /\ NoConn \notin Conns

VARIABLES
  running,      \* running_
  listening,    \* the listeners whose socket is open
  acceptor,     \* listener -> "none", "accepting", "handshake", "leaving", "done"
  accepted,     \* listener -> the connection its acceptor holds
  client_queue, \* client_queue_
  worker,       \* worker -> "none", "testing", "parking", "parked", "serving", "done"
  session,      \* worker -> the connection it serves
  served,       \* worker -> requests handled on that connection
  conn,         \* connection -> "new", "open", "closed"
  stopper,      \* Stop: "idle", "closing", "notify", "joining", "draining", "returned"
  threw,        \* an accept loop left by an exception
  missed        \* notify_all fell between a worker's test and its sleep

httpVars == <<running, listening, acceptor, accepted, client_queue, worker, session,
              served, conn, stopper, threw, missed>>

ServerInit ==
  /\ running = FALSE /\ listening = {}
  /\ acceptor = [l \in Listeners |-> "none"]
  /\ accepted = [l \in Listeners |-> NoConn]
  /\ client_queue = << >>
  /\ worker = [w \in HttpWorkers |-> "none"]
  /\ session = [w \in HttpWorkers |-> NoConn]
  /\ served = [w \in HttpWorkers |-> 0]
  /\ conn = [c \in Conns |-> "new"]
  /\ stopper = "idle" /\ threw = FALSE /\ missed = FALSE

\* The thread that holds queue_mutex_ while it goes to sleep.
MutexFree == \A w \in HttpWorkers : worker[w] # "parking"

\* Start.  A listener that cannot be bound undoes the ones before it, and nothing has
\* started.
StartServer ==
  /\ ~running /\ stopper = "idle" /\ ~threw
  /\ running' = TRUE /\ listening' = Listeners
  /\ acceptor' = [l \in Listeners |-> "accepting"]
  /\ worker' = [w \in HttpWorkers |-> "testing"]
  /\ UNCHANGED <<accepted, client_queue, session, served, conn, stopper, threw, missed>>

---------------------------------------------------------------------------
(* AcceptLoop. *)

\* accept fails once the socket is closed; the loop is also left when the flag is
\* seen FALSE at its head.
AcceptEnds(l) ==
  /\ acceptor[l] = "accepting" /\ (l \notin listening \/ ~running)
  /\ acceptor' = [acceptor EXCEPT ![l] = "leaving"]
  /\ UNCHANGED <<running, listening, accepted, client_queue, worker, session, served,
                 conn, stopper, threw, missed>>

\* accept fails while the server runs: this loop ends and the others go on.
AcceptFails(l) ==
  /\ acceptor[l] = "accepting"
  /\ acceptor' = [acceptor EXCEPT ![l] = "leaving"]
  /\ UNCHANGED <<running, listening, accepted, client_queue, worker, session, served,
                 conn, stopper, threw, missed>>

\* A connection is accepted; if the server stopped meanwhile it is closed at once.
Accept(l, c) ==
  /\ acceptor[l] = "accepting" /\ l \in listening /\ conn[c] = "new"
  /\ IF running
     THEN /\ acceptor' = [acceptor EXCEPT ![l] = "handshake"]
          /\ accepted' = [accepted EXCEPT ![l] = c]
          /\ conn' = [conn EXCEPT ![c] = "open"]
     ELSE /\ acceptor' = [acceptor EXCEPT ![l] = "leaving"]
          /\ conn' = [conn EXCEPT ![c] = "closed"]
          /\ UNCHANGED accepted
  /\ UNCHANGED <<running, listening, client_queue, worker, session, served, stopper, threw,
         missed>>

\* The TLS handshake fails: the connection is closed and the loop continues.
HandshakeFails(l) ==
  /\ acceptor[l] = "handshake" /\ l = "https"
  /\ acceptor' = [acceptor EXCEPT ![l] = "accepting"]
  /\ conn' = [conn EXCEPT ![accepted[l]] = "closed"]
  /\ accepted' = [accepted EXCEPT ![l] = NoConn]
  /\ UNCHANGED <<running, listening, client_queue, worker, session, served, stopper, threw,
         missed>>

NotifyOne(ws) ==
  \/ \E w \in {v \in HttpWorkers : ws[v] = "parked"} :
       worker' = [ws EXCEPT ![w] = "testing"]
  \/ (\A w \in HttpWorkers : ws[w] # "parked") /\ worker' = ws

\* Mutant of Enqueue: the full queue drops its oldest connection without closing it.
EnqueueDropOldest(l) ==
  /\ acceptor[l] = "handshake" /\ MutexFree
  /\ acceptor' = [acceptor EXCEPT ![l] = "accepting"]
  /\ accepted' = [accepted EXCEPT ![l] = NoConn]
  /\ client_queue' = IF Len(client_queue) >= MaxPending
                     THEN Append(Tail(client_queue), accepted[l])
                     ELSE Append(client_queue, accepted[l])
  /\ NotifyOne(worker)
  /\ UNCHANGED <<running, listening, session, served, conn, stopper, threw, missed>>

\* The accepted connection is queued, or closed when the queue is full.
Enqueue(l) ==
  /\ acceptor[l] = "handshake" /\ MutexFree
  /\ acceptor' = [acceptor EXCEPT ![l] = "accepting"]
  /\ accepted' = [accepted EXCEPT ![l] = NoConn]
  /\ IF Len(client_queue) >= MaxPending
     THEN /\ conn' = [conn EXCEPT ![accepted[l]] = "closed"]
          /\ UNCHANGED <<client_queue, worker, missed>>
     ELSE /\ client_queue' = Append(client_queue, accepted[l])
          /\ NotifyOne(worker)
          /\ UNCHANGED conn
  /\ UNCHANGED <<running, listening, session, served, stopper, threw, missed>>

\* An exception leaves the loop: the flag is cleared and every listener closed.
AcceptThrows(l) ==
  /\ ~threw /\ acceptor[l] = "handshake"
  /\ threw' = TRUE /\ running' = FALSE /\ listening' = {}
  /\ acceptor' = [acceptor EXCEPT ![l] = "leaving"]
  /\ accepted' = [accepted EXCEPT ![l] = NoConn]
  /\ UNCHANGED <<client_queue, worker, session, served, conn, stopper, missed>>

\* The loop closes its own socket unless somebody else did.
AcceptDone(l) ==
  /\ acceptor[l] = "leaving"
  /\ acceptor' = [acceptor EXCEPT ![l] = "done"]
  /\ listening' = listening \ {l}
  /\ UNCHANGED <<running, accepted, client_queue, worker, session, served, conn, stopper,
         threw, missed>>

---------------------------------------------------------------------------
(* WorkerLoop. *)

\* queue_cv_.wait evaluates its predicate: take a connection, end, or go to sleep.
WorkerTests(w) ==
  /\ worker[w] = "testing" /\ MutexFree
  /\ \/ /\ client_queue # << >>
        /\ worker' = [worker EXCEPT ![w] = "serving"]
        /\ session' = [session EXCEPT ![w] = Head(client_queue)]
        /\ served' = [served EXCEPT ![w] = 0]
        /\ client_queue' = Tail(client_queue)
     \/ /\ client_queue = << >> /\ ~running
        /\ worker' = [worker EXCEPT ![w] = "done"]
        /\ UNCHANGED <<client_queue, session, served, missed>>
     \/ /\ client_queue = << >> /\ running
        /\ worker' = [worker EXCEPT ![w] = "parking"]
        /\ UNCHANGED <<client_queue, session, served, missed>>
  /\ UNCHANGED <<running, listening, acceptor, accepted, conn, stopper, threw, missed>>

WorkerParks(w) ==
  /\ worker[w] = "parking"
  /\ worker' = [worker EXCEPT ![w] = "parked"]
  /\ UNCHANGED <<running, listening, acceptor, accepted, client_queue, session, served,
                 conn, stopper, threw, missed>>

\* HandleClient answers one request; the connection stays or goes.
WorkerServes(w) ==
  /\ worker[w] = "serving" /\ running /\ served[w] < MaxKeepAlive
  /\ \E keep_alive \in BOOLEAN :
       served' = [served EXCEPT ![w] = IF keep_alive THEN @ + 1 ELSE MaxKeepAlive]
  /\ UNCHANGED <<running, listening, acceptor, accepted, client_queue, worker, session,
                 conn, stopper, threw, missed>>

WorkerCloses(w) ==
  /\ worker[w] = "serving" /\ (~running \/ served[w] >= MaxKeepAlive)
  /\ worker' = [worker EXCEPT ![w] = "testing"]
  /\ session' = [session EXCEPT ![w] = NoConn]
  /\ conn' = [conn EXCEPT ![session[w]] = "closed"]
  /\ UNCHANGED <<running, listening, acceptor, accepted, client_queue, served, stopper, threw,
         missed>>

---------------------------------------------------------------------------
(* Stop. *)

\* Stop returns at once when the flag is already clear.
StopCalled ==
  /\ stopper = "idle" /\ \A w \in HttpWorkers : worker[w] # "none"
  /\ IF running THEN running' = FALSE /\ stopper' = "closing"
     ELSE stopper' = "returned" /\ UNCHANGED running
  /\ UNCHANGED <<listening, acceptor, accepted, client_queue, worker, session, served, conn,
         threw, missed>>

StopCloses ==
  /\ stopper = "closing"
  /\ listening' = {} /\ stopper' = "notify"
  /\ UNCHANGED <<running, acceptor, accepted, client_queue, worker, session, served, conn,
         threw, missed>>

\* Mutant of StopNotifies: one worker is woken.
StopNotifiesOne ==
  /\ stopper = "notify" /\ NotifyOne(worker) /\ stopper' = "joining"
  /\ missed' = (\E w \in HttpWorkers : worker[w] = "parking")
  /\ UNCHANGED <<running, listening, acceptor, accepted, client_queue, session, served, conn,
         threw>>

\* notify_all, without queue_mutex_.
StopNotifies ==
  /\ stopper = "notify"
  /\ worker' = [w \in HttpWorkers |-> IF worker[w] = "parked" THEN "testing" ELSE worker[w]]
  /\ stopper' = "joining"
  /\ missed' = (\E w \in HttpWorkers : worker[w] = "parking")
  /\ UNCHANGED <<running, listening, acceptor, accepted, client_queue, session, served, conn,
         threw>>

StopJoins ==
  /\ stopper = "joining"
  /\ \A l \in Listeners : acceptor[l] = "done"
  /\ \A w \in HttpWorkers : worker[w] = "done"
  /\ stopper' = "draining"
  /\ UNCHANGED <<running, listening, acceptor, accepted, client_queue, worker, session,
                 served, conn, threw, missed>>

\* Connections still queued are closed.
StopDrains ==
  /\ stopper = "draining"
  /\ conn' = [c \in Conns |-> IF c \in Range(client_queue) THEN "closed" ELSE conn[c]]
  /\ client_queue' = << >> /\ stopper' = "returned"
  /\ UNCHANGED <<running, listening, acceptor, accepted, worker, session, served, threw,
         missed>>

StopSteps == StopCloses \/ StopNotifies \/ StopJoins \/ StopDrains
AcceptorSteps(l) ==
  AcceptEnds(l) \/ HandshakeFails(l) \/ Enqueue(l) \/ AcceptThrows(l) \/ AcceptDone(l)
WorkerSteps(w) == WorkerTests(w) \/ WorkerParks(w) \/ WorkerServes(w) \/ WorkerCloses(w)

ServerNext ==
  \/ StartServer \/ StopCalled \/ StopSteps
  \/ \E l \in Listeners : AcceptorSteps(l) \/ AcceptFails(l) \/ \E c \in Conns : Accept(l, c)
  \/ \E w \in HttpWorkers : WorkerSteps(w)

\* Threads are scheduled; HandleClient ends because sockets have deadlines.  accept may
\* wait, and work, for ever.
ServerFairness ==
  /\ WF_httpVars(StopSteps)
  /\ \A l \in Listeners : WF_httpVars(AcceptorSteps(l))
  /\ \A w \in HttpWorkers : WF_httpVars(WorkerSteps(w))

ServerSpec == ServerInit /\ [][ServerNext]_httpVars /\ ServerFairness

---------------------------------------------------------------------------
(* Properties. *)

\* Thread positions, queue and connections keep their types.
ServerTypeOK ==
  /\ running \in BOOLEAN /\ threw \in BOOLEAN /\ listening \subseteq Listeners
  /\ acceptor \in [Listeners -> {"none", "accepting", "handshake", "leaving", "done"}]
  /\ accepted \in [Listeners -> Conns \cup {NoConn}]
  /\ client_queue \in Seq(Conns) /\ Len(client_queue) <= MaxPending
  /\ worker \in [HttpWorkers -> {"none", "testing", "parking", "parked", "serving", "done"}]
  /\ session \in [HttpWorkers -> Conns \cup {NoConn}]
  /\ served \in [HttpWorkers -> 0 .. MaxKeepAlive]
  /\ conn \in [Conns -> {"new", "open", "closed"}]
  /\ stopper \in {"idle", "closing", "notify", "joining", "draining", "returned"}

\* A connection that is open has exactly one owner: the acceptor that accepted it,
\* its one place in client_queue_, or the worker that serves it; one that is closed or not
\* yet accepted has none.  So every accepted descriptor is closed exactly once
\* (an acceptor that left by an exception takes its connection with it).
OpenConnOwnedOnce ==
  ~threw => \A c \in Conns :
    Cardinality({l \in Listeners : accepted[l] = c})
      + Cardinality({i \in DOMAIN client_queue : client_queue[i] = c})
      + Cardinality({w \in HttpWorkers : session[w] = c})
    = (IF conn[c] = "open" THEN 1 ELSE 0)

\* When Stop has returned the threads have ended, no socket listens and no accepted
\* connection is left open, if no accept loop failed.
StopLeavesNothing ==
  stopper = "returned" /\ ~threw =>
    /\ \A w \in HttpWorkers : worker[w] = "done"
    /\ \A l \in Listeners : acceptor[l] = "done"
    /\ listening = {} /\ \A c \in Conns : conn[c] # "open"

\* The same after an accept loop failed.  http_server.cpp, AcceptLoop: "Unblock the
\* sibling acceptor(s) so Stop() can join cleanly instead of leaving a half-dead
\* server."
StopJoinsAfterFailure ==
  stopper = "returned" => \A w \in HttpWorkers : worker[w] = "done"

\* A call of Stop returns, unless its wake-up was missed by a worker that was just
\* going to sleep: nothing else keeps it waiting, whatever is accepted, queued or
\* served at that time.
StopReturns ==
  (stopper = "closing") ~> (stopper = "returned" \/ missed)

\* While the server runs, a connection that was accepted is eventually closed.
AcceptedIsClosed ==
  \A c \in Conns : (conn[c] = "open") ~> (conn[c] = "closed" \/ missed \/ threw)

\* An accepted connection that is open is in exactly one place, the acceptor's
\* hands, the queue or one worker, and none is left when Stop has returned.
ConnectionsSafe == ServerTypeOK /\ OpenConnOwnedOnce /\ StopLeavesNothing

\* Connections end: one that was accepted is closed while the server runs, and a
\* call of Stop returns.
ConnectionsEnd == AcceptedIsClosed /\ StopReturns
=============================================================================
