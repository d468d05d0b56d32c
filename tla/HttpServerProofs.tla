-------------------------- MODULE HttpServerProofs --------------------------
(***************************************************************************)
(* Proofs about HttpServer, for every number of listeners, workers and     *)
(* connections and every bound of the queue.                               *)
(*                                                                         *)
(* The owners of a connection are counted in OpenConnOwnedOnce; what is    *)
(* inductive is that two places never hold the same connection and that    *)
(* what they hold is open.  That Stop leaves nothing needs the history of  *)
(* the flag: while no accept loop has failed, a server that was started    *)
(* runs until Stop clears the flag, so the Stop that returns at once has   *)
(* nothing to stop.                                                        *)
(***************************************************************************)
EXTENDS HttpServer, TLAPS

Queued(c) == \E i \in DOMAIN client_queue : client_queue[i] = c

\* A thread holds a connection in one of its positions only.
HoldInv ==
  /\ \A l \in Listeners : accepted[l] # NoConn <=> acceptor[l] = "handshake"
  /\ \A w \in HttpWorkers : session[w] # NoConn <=> worker[w] = "serving"

\* What is held is open, and held once.
OwnerInv ==
  /\ \A l \in Listeners : accepted[l] # NoConn =>
       /\ conn[accepted[l]] = "open" /\ ~Queued(accepted[l])
       /\ \A m \in Listeners \ {l} : accepted[m] # accepted[l]
       /\ \A w \in HttpWorkers : session[w] # accepted[l]
  /\ \A i \in DOMAIN client_queue :
       /\ conn[client_queue[i]] = "open"
       /\ \A j \in DOMAIN client_queue : client_queue[i] = client_queue[j] => i = j
       /\ \A w \in HttpWorkers : session[w] # client_queue[i]
  /\ \A w \in HttpWorkers : session[w] # NoConn =>
       /\ conn[session[w]] = "open"
       /\ \A v \in HttpWorkers \ {w} : session[v] # session[w]

\* No open connection is forgotten, unless an accept loop has failed.
Owned(c) ==
  \/ \E l \in Listeners : accepted[l] = c
  \/ Queued(c)
  \/ \E w \in HttpWorkers : session[w] = c
OpenInv == ~threw => \A c \in Conns : conn[c] = "open" => Owned(c)

Fresh == (\A w \in HttpWorkers : worker[w] = "none") /\ (\A l \in Listeners : acceptor[l] = "none")

\* How far Stop is.
StopInv ==
  /\ Fresh \/ ((\A w \in HttpWorkers : worker[w] # "none")
              /\ (\A l \in Listeners : acceptor[l] # "none"))
  /\ Fresh => stopper = "idle" /\ client_queue = << >>
  /\ stopper = "idle" /\ ~threw => (Fresh \/ running)
  /\ stopper \in {"notify", "joining", "draining"} => listening = {}
  /\ stopper = "draining" => /\ \A w \in HttpWorkers : worker[w] = "done"
                             /\ \A l \in Listeners : acceptor[l] = "done"
  /\ stopper = "returned" /\ ~threw => /\ \A w \in HttpWorkers : worker[w] = "done"
                                       /\ \A l \in Listeners : acceptor[l] = "done"
                                       /\ listening = {} /\ client_queue = << >>

ServerIInv == ServerTypeOK /\ HoldInv /\ OwnerInv /\ OpenInv /\ StopInv

---------------------------------------------------------------------------
(* What Tail does to the places of a sequence. *)
LEMMA TailPlaces ==
  ASSUME NEW S, NEW s \in Seq(S), s # << >>
  PROVE  /\ Head(s) = s[1] /\ 1 \in DOMAIN s /\ DOMAIN s = 1 .. Len(s) /\ Len(s) \in Nat
         /\ Tail(s) \in Seq(S) /\ DOMAIN Tail(s) = 1 .. Len(s) - 1 /\ Len(Tail(s)) = Len(s) - 1
         /\ \A i \in DOMAIN Tail(s) : i + 1 \in DOMAIN s /\ Tail(s)[i] = s[i + 1]
         /\ \A i \in DOMAIN s : i # 1 => i - 1 \in DOMAIN Tail(s) /\ Tail(s)[i - 1] = s[i]
OBVIOUS

(* What Append does to the places of a sequence. *)
LEMMA AppendPlaces ==
  ASSUME NEW S, NEW s \in Seq(S), NEW x \in S
  PROVE  /\ Append(s, x) \in Seq(S) /\ Len(s) \in Nat /\ Len(Append(s, x)) = Len(s) + 1
         /\ DOMAIN s = 1 .. Len(s) /\ DOMAIN Append(s, x) = 1 .. Len(s) + 1
         /\ Append(s, x)[Len(s) + 1] = x
         /\ \A i \in DOMAIN s : i \in DOMAIN Append(s, x) /\ Append(s, x)[i] = s[i]
         /\ \A i \in DOMAIN Append(s, x) : i = Len(s) + 1 \/ i \in DOMAIN s
OBVIOUS

(* StartServer keeps the invariant. *)
LEMMA StartServerKeeps ==
  ASSUME ServerIInv, StartServer
  PROVE ServerIInv'
<1> USE ServerAssumption DEF ServerIInv, ServerTypeOK
<1> USE DEF StartServer
<1>1. ServerTypeOK' BY DEF HoldInv
<1>2. HoldInv' BY DEF HoldInv, StopInv, Fresh
<1>3. OwnerInv' BY DEF OwnerInv, HoldInv, Queued
<1>4. OpenInv' BY Zenon DEF OpenInv, Owned, Queued, HoldInv, OwnerInv
<1>5. StopInv' BY DEF StopInv, Fresh
<1> QED BY <1>1, <1>2, <1>3, <1>4, <1>5

(* StopCalled keeps the invariant. *)
LEMMA StopCalledKeeps ==
  ASSUME ServerIInv, StopCalled
  PROVE ServerIInv'
<1> USE ServerAssumption DEF ServerIInv, ServerTypeOK
<1> USE DEF StopCalled
<1>1. ServerTypeOK' BY Zenon DEF HoldInv
<1>2. HoldInv' BY DEF HoldInv, StopInv, Fresh
<1>3. OwnerInv' BY DEF OwnerInv, HoldInv, Queued
<1>4. OpenInv' BY DEF OpenInv, Owned, Queued, HoldInv, OwnerInv
<1>5. StopInv' BY DEF StopInv, Fresh
<1> QED BY <1>1, <1>2, <1>3, <1>4, <1>5

(* StopCloses keeps the invariant. *)
LEMMA StopClosesKeeps ==
  ASSUME ServerIInv, StopCloses
  PROVE ServerIInv'
<1> USE ServerAssumption DEF ServerIInv, ServerTypeOK
<1> USE DEF StopCloses
<1>1. ServerTypeOK' BY DEF HoldInv
<1>2. HoldInv' BY DEF HoldInv, StopInv, Fresh
<1>3. OwnerInv' BY DEF OwnerInv, HoldInv, Queued
<1>4. OpenInv' BY DEF OpenInv, Owned, Queued, HoldInv, OwnerInv
<1>5. StopInv' BY DEF StopInv, Fresh
<1> QED BY <1>1, <1>2, <1>3, <1>4, <1>5

(* StopNotifies keeps the invariant. *)
LEMMA StopNotifiesKeeps ==
  ASSUME ServerIInv, StopNotifies
  PROVE ServerIInv'
<1> USE ServerAssumption DEF ServerIInv, ServerTypeOK
<1> USE DEF StopNotifies
<1>1. ServerTypeOK' BY DEF HoldInv
<1>2. HoldInv' BY DEF HoldInv, StopInv, Fresh
<1>3. OwnerInv' BY DEF OwnerInv, HoldInv, Queued
<1>4. OpenInv' BY DEF OpenInv, Owned, Queued, HoldInv, OwnerInv
<1>5. StopInv' BY DEF StopInv, Fresh
<1> QED BY <1>1, <1>2, <1>3, <1>4, <1>5

(* StopJoins keeps the invariant. *)
LEMMA StopJoinsKeeps ==
  ASSUME ServerIInv, StopJoins
  PROVE ServerIInv'
<1> USE ServerAssumption DEF ServerIInv, ServerTypeOK
<1> USE DEF StopJoins
<1>1. ServerTypeOK' BY DEF HoldInv
<1>2. HoldInv' BY DEF HoldInv, StopInv, Fresh
<1>3. OwnerInv' BY DEF OwnerInv, HoldInv, Queued
<1>4. OpenInv' BY DEF OpenInv, Owned, Queued, HoldInv, OwnerInv
<1>5. StopInv' BY DEF StopInv, Fresh
<1> QED BY <1>1, <1>2, <1>3, <1>4, <1>5

(* StopDrains keeps the invariant. *)
LEMMA StopDrainsKeeps ==
  ASSUME ServerIInv, StopDrains
  PROVE ServerIInv'
<1> USE ServerAssumption DEF ServerIInv, ServerTypeOK
<1> USE DEF StopDrains
<1>1. ServerTypeOK' BY DEF HoldInv
<1>2. HoldInv' BY DEF HoldInv, StopInv, Fresh
<1>a. \A d : d \in Range(client_queue) <=> Queued(d) BY DEF Range, Queued
<1>b. DOMAIN client_queue' = {} OBVIOUS
<1>c. (\A l \in Listeners : accepted[l] = NoConn) /\ (\A v \in HttpWorkers : session[v] = NoConn)
  BY DEF HoldInv, StopInv
<1>3. OwnerInv' BY <1>b, <1>c DEF OwnerInv, HoldInv, Queued
<1>4. OpenInv'
  <2> SUFFICES ASSUME ~threw, NEW d \in Conns, conn'[d] = "open" PROVE Owned(d)'
    BY DEF OpenInv
  <2>1. conn[d] = "open" /\ ~Queued(d) BY <1>a
  <2>2. Owned(d) BY <2>1 DEF OpenInv
  <2> QED BY <2>1, <2>2 DEF Owned
<1>5. StopInv' BY DEF StopInv, Fresh
<1> QED BY <1>1, <1>2, <1>3, <1>4, <1>5

(* AcceptEnds keeps the invariant. *)
LEMMA AcceptEndsKeeps ==
  ASSUME ServerIInv, NEW l \in Listeners, AcceptEnds(l)
  PROVE ServerIInv'
<1> USE ServerAssumption DEF ServerIInv, ServerTypeOK
<1> USE DEF AcceptEnds
<1>1. ServerTypeOK' BY DEF HoldInv
<1>2. HoldInv' BY DEF HoldInv, StopInv, Fresh
<1>3. OwnerInv' BY DEF OwnerInv, HoldInv, Queued
<1>4. OpenInv' BY DEF OpenInv, Owned, Queued, HoldInv, OwnerInv
<1>5. StopInv' BY DEF StopInv, Fresh
<1> QED BY <1>1, <1>2, <1>3, <1>4, <1>5

(* AcceptFails keeps the invariant. *)
LEMMA AcceptFailsKeeps ==
  ASSUME ServerIInv, NEW l \in Listeners, AcceptFails(l)
  PROVE ServerIInv'
<1> USE ServerAssumption DEF ServerIInv, ServerTypeOK
<1> USE DEF AcceptFails
<1>1. ServerTypeOK' BY DEF HoldInv
<1>2. HoldInv' BY DEF HoldInv, StopInv, Fresh
<1>3. OwnerInv' BY DEF OwnerInv, HoldInv, Queued
<1>4. OpenInv' BY DEF OpenInv, Owned, Queued, HoldInv, OwnerInv
<1>5. StopInv' BY DEF StopInv, Fresh
<1> QED BY <1>1, <1>2, <1>3, <1>4, <1>5

(* HandshakeFails keeps the invariant. *)
LEMMA HandshakeFailsKeeps ==
  ASSUME ServerIInv, NEW l \in Listeners, HandshakeFails(l)
  PROVE ServerIInv'
<1> USE ServerAssumption DEF ServerIInv, ServerTypeOK
<1> USE DEF HandshakeFails
<1>1. ServerTypeOK' BY DEF HoldInv
<1>2. HoldInv' BY DEF HoldInv, StopInv, Fresh
<1>3. OwnerInv' BY DEF OwnerInv, HoldInv, Queued
<1>4. OpenInv' BY DEF OpenInv, Owned, Queued, HoldInv, OwnerInv
<1>5. StopInv' BY DEF StopInv, Fresh
<1> QED BY <1>1, <1>2, <1>3, <1>4, <1>5

(* Enqueue keeps the invariant. *)
LEMMA EnqueueKeeps ==
  ASSUME ServerIInv, NEW l \in Listeners, Enqueue(l)
  PROVE ServerIInv'
<1> USE ServerAssumption DEF ServerIInv, ServerTypeOK
<1> USE DEF Enqueue, NotifyOne
<1>a. accepted[l] \in Conns /\ conn[accepted[l]] = "open" /\ ~Queued(accepted[l])
  BY DEF HoldInv, OwnerInv
<1>b. worker' \in [HttpWorkers -> {"none", "testing", "parking", "parked", "serving", "done"}]
  BY Zenon
<1>1. ServerTypeOK'
  <2>1. CASE Len(client_queue) >= MaxPending BY <2>1, <1>a
  <2>2. CASE ~(Len(client_queue) >= MaxPending)
    <3>1. client_queue' = Append(client_queue, accepted[l]) /\ UNCHANGED conn BY <2>2
    <3>2. client_queue' \in Seq(Conns) /\ Len(client_queue') <= MaxPending
      BY ONLY <2>2, <3>1, <1>a, client_queue \in Seq(Conns), MaxPending \in Nat, AppendPlaces
    <3> QED BY <3>1, <3>2, <1>b
  <2> QED BY <2>1, <2>2
<1>2. HoldInv' BY DEF HoldInv, StopInv, Fresh
<1>3. OwnerInv'
  <2>1. CASE Len(client_queue) >= MaxPending BY <2>1, <1>a DEF OwnerInv, HoldInv, Queued
  <2>2. CASE ~(Len(client_queue) >= MaxPending)
    <3>1. client_queue' = Append(client_queue, accepted[l]) /\ UNCHANGED conn BY <2>2
    <3>2. \A d : Queued(d)' <=> (Queued(d) \/ d = accepted[l])
      BY ONLY <3>1, <1>a, client_queue \in Seq(Conns), AppendPlaces DEF Queued
    <3>3. \A m \in Listeners : accepted'[m] = IF m = l THEN NoConn ELSE accepted[m] OBVIOUS
    <3>4. (\A m \in Listeners : accepted[m] # NoConn =>
             /\ conn[accepted[m]] = "open" /\ ~Queued(accepted[m])
             /\ \A k \in Listeners \ {m} : accepted[k] # accepted[m]
             /\ \A w \in HttpWorkers : session[w] # accepted[m])'
      BY <3>1, <3>2, <3>3, <1>a DEF OwnerInv
    <3>5. (\A i \in DOMAIN client_queue :
             /\ conn[client_queue[i]] = "open"
             /\ \A j \in DOMAIN client_queue : client_queue[i] = client_queue[j] => i = j
             /\ \A w \in HttpWorkers : session[w] # client_queue[i])'
      <4>1. \A i \in DOMAIN client_queue : client_queue[i] # accepted[l] BY <1>a DEF Queued
      <4>2. \A w \in HttpWorkers : session[w] # accepted[l] BY <1>a DEF OwnerInv
      <4> HIDE DEF ServerIInv, ServerTypeOK
      <4>3. UNCHANGED <<conn, session>> BY <3>1
      <4>4. client_queue \in Seq(Conns) BY DEF ServerIInv, ServerTypeOK
      <4>5. \A i \in DOMAIN client_queue :
              /\ conn[client_queue[i]] = "open"
              /\ \A j \in DOMAIN client_queue : client_queue[i] = client_queue[j] => i = j
              /\ \A w \in HttpWorkers : session[w] # client_queue[i]
        BY DEF OwnerInv, ServerIInv
      <4> QED BY <4>1, <4>2, <4>3, <4>4, <4>5, <3>1, <1>a, AppendPlaces
    <3>6. (\A w \in HttpWorkers : session[w] # NoConn =>
             /\ conn[session[w]] = "open"
             /\ \A v \in HttpWorkers \ {w} : session[v] # session[w])'
      BY <3>1 DEF OwnerInv
    <3> QED BY <3>4, <3>5, <3>6 DEF OwnerInv
  <2> QED BY <2>1, <2>2
<1>4. OpenInv'
  <2> SUFFICES ASSUME ~threw, NEW d \in Conns, conn'[d] = "open" PROVE Owned(d)'
    BY DEF OpenInv
  <2>0. \A m \in Listeners : m # l => accepted'[m] = accepted[m] OBVIOUS
  <2>1. CASE Len(client_queue) >= MaxPending
    <3>1. conn[d] = "open" /\ d # accepted[l] BY <2>1, <1>a
    <3>2. Owned(d) BY <3>1 DEF OpenInv
    <3> QED BY <3>1, <3>2, <2>0, <2>1 DEF Owned, Queued
  <2>2. CASE ~(Len(client_queue) >= MaxPending)
    <3>1. client_queue' = Append(client_queue, accepted[l]) /\ UNCHANGED conn BY <2>2
    <3>2. \A e : Queued(e)' <=> (Queued(e) \/ e = accepted[l])
      BY ONLY <3>1, <1>a, client_queue \in Seq(Conns), AppendPlaces DEF Queued
    <3>3. Owned(d) BY <3>1 DEF OpenInv
    <3> QED BY <3>2, <3>3, <2>0 DEF Owned
  <2> QED BY <2>1, <2>2
<1>5. StopInv' BY DEF StopInv, Fresh
<1> QED BY <1>1, <1>2, <1>3, <1>4, <1>5

(* AcceptThrows keeps the invariant. *)
LEMMA AcceptThrowsKeeps ==
  ASSUME ServerIInv, NEW l \in Listeners, AcceptThrows(l)
  PROVE ServerIInv'
<1> USE ServerAssumption DEF ServerIInv, ServerTypeOK
<1> USE DEF AcceptThrows
<1>1. ServerTypeOK' BY Zenon DEF HoldInv
<1>2. HoldInv' BY DEF HoldInv, StopInv, Fresh
<1>3. OwnerInv' BY DEF OwnerInv, HoldInv, Queued
<1>4. OpenInv' BY DEF OpenInv, Owned, Queued, HoldInv, OwnerInv
<1>5. StopInv' BY DEF StopInv, Fresh
<1> QED BY <1>1, <1>2, <1>3, <1>4, <1>5

(* AcceptDone keeps the invariant. *)
LEMMA AcceptDoneKeeps ==
  ASSUME ServerIInv, NEW l \in Listeners, AcceptDone(l)
  PROVE ServerIInv'
<1> USE ServerAssumption DEF ServerIInv, ServerTypeOK
<1> USE DEF AcceptDone
<1>1. ServerTypeOK' BY DEF HoldInv
<1>2. HoldInv' BY DEF HoldInv, StopInv, Fresh
<1>3. OwnerInv' BY DEF OwnerInv, HoldInv, Queued
<1>4. OpenInv' BY DEF OpenInv, Owned, Queued, HoldInv, OwnerInv
<1>5. StopInv' BY DEF StopInv, Fresh
<1> QED BY <1>1, <1>2, <1>3, <1>4, <1>5

(* Accept keeps the invariant. *)
LEMMA AcceptKeeps ==
  ASSUME ServerIInv, NEW l \in Listeners, NEW c \in Conns, Accept(l, c)
  PROVE ServerIInv'
<1> USE ServerAssumption DEF ServerIInv, ServerTypeOK
<1> USE DEF Accept
<1>a. /\ \/ acceptor' = [acceptor EXCEPT ![l] = "handshake"]
         \/ acceptor' = [acceptor EXCEPT ![l] = "leaving"]
      /\ conn' = [conn EXCEPT ![c] = "open"] \/ conn' = [conn EXCEPT ![c] = "closed"]
      /\ accepted' = [accepted EXCEPT ![l] = c] \/ accepted' = accepted
  OBVIOUS
<1>b. accepted[l] = NoConn BY DEF HoldInv
<1>c. conn' \in [Conns -> {"new", "open", "closed"}] BY <1>a
<1>d. accepted' \in [Listeners -> Conns \cup {NoConn}] BY <1>a
<1>e. acceptor' \in [Listeners -> {"none", "accepting", "handshake", "leaving", "done"}]
   BY <1>a, Zenon
<1>1. ServerTypeOK' BY <1>c, <1>d, <1>e
<1>2. HoldInv' BY DEF HoldInv, StopInv, Fresh
<1>3. OwnerInv' BY DEF OwnerInv, HoldInv, Queued
<1>4. OpenInv'
  <2> SUFFICES ASSUME ~threw, NEW d \in Conns, conn'[d] = "open" PROVE Owned(d)'
    BY DEF OpenInv
  <2>1. CASE d = c
    <3>1. accepted'[l] = c BY <2>1
    <3> QED BY <3>1, <2>1 DEF Owned
  <2>2. CASE d # c
    <3>1. Owned(d) BY <2>2 DEF OpenInv
    <3>2. \A m \in Listeners : accepted[m] = d => accepted'[m] = d BY <1>a, <1>b
    <3> QED BY <3>1, <3>2 DEF Owned, Queued
  <2> QED BY <2>1, <2>2
<1>5. StopInv' BY DEF StopInv, Fresh
<1> QED BY <1>1, <1>2, <1>3, <1>4, <1>5

(* WorkerTests keeps the invariant. *)
LEMMA WorkerTestsKeeps ==
  ASSUME ServerIInv, NEW w \in HttpWorkers, WorkerTests(w)
  PROVE ServerIInv'
<1> USE ServerAssumption DEF ServerIInv, ServerTypeOK
<1> USE DEF WorkerTests
<1> DEFINE Takes == client_queue # << >>
<1>a. CASE Takes
  <2>1. /\ worker' = [worker EXCEPT ![w] = "serving"]
        /\ session' = [session EXCEPT ![w] = client_queue[1]]
        /\ served' = [served EXCEPT ![w] = 0]
        /\ client_queue' = Tail(client_queue) /\ 1 \in DOMAIN client_queue
        /\ client_queue[1] \in Conns
    BY <1>a, TailPlaces
  <2>2. \A d : Queued(d) <=> Queued(d)' \/ d = client_queue[1]
    <3>1. ASSUME NEW d, Queued(d), d # client_queue[1] PROVE Queued(d)'
      <4>1. PICK i \in DOMAIN client_queue : client_queue[i] = d BY <3>1 DEF Queued
      <4>2. i - 1 \in DOMAIN client_queue' /\ client_queue'[i - 1] = d
        BY <4>1, <3>1, <1>a, <2>1, TailPlaces
      <4> QED BY <4>2 DEF Queued
    <3>2. ASSUME NEW d, Queued(d)' PROVE Queued(d)
      <4>1. PICK i \in DOMAIN client_queue' : client_queue'[i] = d BY <3>2 DEF Queued
      <4>2. i + 1 \in DOMAIN client_queue /\ client_queue[i + 1] = d
        BY <4>1, <1>a, <2>1, TailPlaces
      <4> QED BY <4>2 DEF Queued
    <3>3. Queued(client_queue[1]) BY <2>1 DEF Queued
    <3> QED BY <3>1, <3>2, <3>3
  <2>3. ServerTypeOK'
    <3>1. client_queue' \in Seq(Conns) /\ Len(client_queue') <= MaxPending
      BY <1>a, <2>1, TailPlaces
    <3>2. 0 \in 0 .. MaxKeepAlive OBVIOUS
    <3> QED BY <2>1, <3>1, <3>2
  <2>4. HoldInv' BY <2>1 DEF HoldInv
  <2>5. OwnerInv'
    <3>1. \A i \in DOMAIN client_queue :
            /\ conn[client_queue[i]] = "open"
            /\ \A j \in DOMAIN client_queue : client_queue[i] = client_queue[j] => i = j
            /\ \A v \in HttpWorkers : session[v] # client_queue[i]
      BY DEF OwnerInv
    <3>2. \A v \in HttpWorkers : session'[v] = IF v = w THEN client_queue[1] ELSE session[v]
      BY <2>1
    <3>3. UNCHANGED <<conn, accepted>> OBVIOUS
    <3>4. Queued(client_queue[1]) BY <2>2
    <3>5. (\A l \in Listeners : accepted[l] # NoConn =>
             /\ conn[accepted[l]] = "open" /\ ~Queued(accepted[l])
             /\ \A m \in Listeners \ {l} : accepted[m] # accepted[l]
             /\ \A v \in HttpWorkers : session[v] # accepted[l])'
      BY <3>2, <3>3, <3>4, <2>2 DEF OwnerInv
    <3>6. (\A i \in DOMAIN client_queue :
            /\ conn[client_queue[i]] = "open"
            /\ \A j \in DOMAIN client_queue : client_queue[i] = client_queue[j] => i = j
            /\ \A v \in HttpWorkers : session[v] # client_queue[i])'
      BY ONLY <3>1, <3>2, <3>3, <2>1, <1>a, client_queue \in Seq(Conns), TailPlaces
         DEF Takes
    <3>7. (\A v \in HttpWorkers : session[v] # NoConn =>
             /\ conn[session[v]] = "open"
             /\ \A u \in HttpWorkers \ {v} : session[u] # session[v])'
      BY <3>1, <3>2, <3>3, <2>1 DEF OwnerInv
    <3> QED BY <3>5, <3>6, <3>7 DEF OwnerInv
  <2>6. OpenInv'
    <3> SUFFICES ASSUME ~threw, NEW d \in Conns, conn[d] = "open" PROVE Owned(d)'
      BY DEF OpenInv
    <3>1. Owned(d) BY DEF OpenInv
    <3>2. \A v \in HttpWorkers : session[v] = d => session'[v] = d BY <2>1, Zenon DEF HoldInv
    <3>3. session'[w] = client_queue[1] BY <2>1
    <3> QED BY <3>1, <3>2, <3>3, <2>2 DEF Owned
  <2>7. StopInv' BY <2>1, <1>a DEF StopInv, Fresh
  <2> QED BY <2>3, <2>4, <2>5, <2>6, <2>7
<1>b. CASE ~Takes
  <2>1. /\ UNCHANGED <<client_queue, session, served>>
        /\ \E pc \in {"done", "parking"} : worker' = [worker EXCEPT ![w] = pc]
    BY <1>b
  <2>2. ServerTypeOK' BY <2>1
  <2>3. HoldInv' BY <2>1 DEF HoldInv
  <2>4. OwnerInv' BY <2>1 DEF OwnerInv, Queued
  <2>5. OpenInv' BY <2>1, Zenon DEF OpenInv, Owned, Queued
  <2>6. StopInv' BY <2>1 DEF StopInv, Fresh
  <2> QED BY <2>2, <2>3, <2>4, <2>5, <2>6
<1> QED BY <1>a, <1>b

(* WorkerParks keeps the invariant. *)
LEMMA WorkerParksKeeps ==
  ASSUME ServerIInv, NEW w \in HttpWorkers, WorkerParks(w)
  PROVE ServerIInv'
<1> USE ServerAssumption DEF ServerIInv, ServerTypeOK
<1> USE DEF WorkerParks
<1>1. ServerTypeOK' BY DEF HoldInv
<1>2. HoldInv' BY DEF HoldInv, StopInv, Fresh
<1>3. OwnerInv' BY DEF OwnerInv, HoldInv, Queued
<1>4. OpenInv' BY ZenonT(30) DEF OpenInv, Owned, Queued, HoldInv, OwnerInv
<1>5. StopInv' BY DEF StopInv, Fresh
<1> QED BY <1>1, <1>2, <1>3, <1>4, <1>5

(* WorkerServes keeps the invariant. *)
LEMMA WorkerServesKeeps ==
  ASSUME ServerIInv, NEW w \in HttpWorkers, WorkerServes(w)
  PROVE ServerIInv'
<1> USE ServerAssumption DEF ServerIInv, ServerTypeOK
<1> USE DEF WorkerServes
<1>1. ServerTypeOK' BY DEF HoldInv
<1>2. HoldInv' BY DEF HoldInv, StopInv, Fresh
<1>3. OwnerInv' BY DEF OwnerInv, HoldInv, Queued
<1>4. OpenInv' BY ZenonT(30) DEF OpenInv, Owned, Queued, HoldInv, OwnerInv
<1>5. StopInv' BY DEF StopInv, Fresh
<1> QED BY <1>1, <1>2, <1>3, <1>4, <1>5

(* WorkerCloses keeps the invariant. *)
LEMMA WorkerClosesKeeps ==
  ASSUME ServerIInv, NEW w \in HttpWorkers, WorkerCloses(w)
  PROVE ServerIInv'
<1> USE ServerAssumption DEF ServerIInv, ServerTypeOK
<1> USE DEF WorkerCloses
<1>1. ServerTypeOK' BY DEF HoldInv
<1>2. HoldInv' BY DEF HoldInv, StopInv, Fresh
<1>3. OwnerInv' BY DEF OwnerInv, HoldInv, Queued
<1>4. OpenInv' BY DEF OpenInv, Owned, Queued, HoldInv, OwnerInv
<1>5. StopInv' BY DEF StopInv, Fresh
<1> QED BY <1>1, <1>2, <1>3, <1>4, <1>5

(* A step that changes nothing keeps the invariant. *)
LEMMA StutterKeeps ==
  ASSUME ServerIInv, UNCHANGED httpVars
  PROVE ServerIInv'
<1> USE DEF ServerIInv, httpVars
<1>1. ServerTypeOK' BY Zenon DEF ServerTypeOK
<1>2. HoldInv' /\ OwnerInv' BY DEF HoldInv, OwnerInv, Queued
<1>3. OpenInv' BY DEF OpenInv, Owned, Queued
<1>4. StopInv' BY DEF StopInv, Fresh
<1> QED BY <1>1, <1>2, <1>3, <1>4

(* Every step preserves the invariant. *)
LEMMA ServerNextIInv == ServerIInv /\ [ServerNext]_httpVars => ServerIInv'
BY StartServerKeeps, StopCalledKeeps, StopClosesKeeps, StopNotifiesKeeps, StopJoinsKeeps,
   StopDrainsKeeps, AcceptEndsKeeps, AcceptFailsKeeps, HandshakeFailsKeeps, EnqueueKeeps,
          AcceptThrowsKeeps,
   AcceptDoneKeeps, AcceptKeeps, WorkerTestsKeeps, WorkerParksKeeps, WorkerServesKeeps,
   WorkerClosesKeeps, StutterKeeps
   DEF ServerNext, StopSteps, AcceptorSteps, WorkerSteps

(* The initial state satisfies the invariant. *)
LEMMA ServerInitIInv == ServerInit => ServerIInv
<1> SUFFICES ASSUME ServerInit PROVE ServerIInv OBVIOUS
<1> USE ServerAssumption DEF ServerInit
<1>1. ServerTypeOK
  <2>1. client_queue \in Seq(Conns) /\ Len(client_queue) <= MaxPending OBVIOUS
  <2>2. served \in [HttpWorkers -> 0 .. MaxKeepAlive] OBVIOUS
  <2> QED BY <2>1, <2>2, Zenon DEF ServerTypeOK
<1>2. HoldInv BY DEF HoldInv
<1>3. OwnerInv
  <2>1. DOMAIN client_queue = {} OBVIOUS
  <2> QED BY <2>1 DEF OwnerInv
<1>4. OpenInv BY DEF OpenInv
<1>5. StopInv BY DEF StopInv, Fresh
<1> QED BY <1>1, <1>2, <1>3, <1>4, <1>5 DEF ServerIInv

(* What Cardinality counts, for the two sizes that occur here. *)
LEMMA NoneOrOne == Cardinality({}) = 0 /\ \A x : Cardinality({x}) = 1
<1> DEFINE Counts(S, f) == f = [T \in SUBSET S |-> IF T = {} THEN 0
                                                     ELSE 1 + f[T \ {CHOOSE y : y \in T}]]
<1>1. \A S : Cardinality(S) = (CHOOSE f : Counts(S, f))[S] BY DEF Cardinality
<1>2. Cardinality({}) = 0
  <2>1. Counts({}, [T \in SUBSET {} |-> 0]) BY Zenon
  <2>2. Counts({}, CHOOSE f : Counts({}, f)) BY <2>1, Zenon
  <2> DEFINE g == CHOOSE f : Counts({}, f)
  <2>3. g = [T \in SUBSET {} |-> IF T = {} THEN 0 ELSE 1 + g[T \ {CHOOSE y : y \in T}]]
     BY <2>2, Zenon
  <2> HIDE DEF g
  <2>4. g[{}] = 0 BY <2>3, Zenon
  <2> QED BY <1>1, <2>4, Zenon DEF g
<1>3. ASSUME NEW x PROVE Cardinality({x}) = 1
  <2> DEFINE h == [T \in SUBSET {x} |-> IF T = {} THEN 0 ELSE 1]
  <2>0. (CHOOSE y : y \in {x}) = x BY Zenon
  <2>1. Counts({x}, h)
    <3>1. ASSUME NEW T \in SUBSET {x}
          PROVE (IF T = {} THEN 0 ELSE 1) = IF T = {} THEN 0 ELSE 1 + h[T \ {CHOOSE y : y \in T}]
      <4>1. CASE T = {} BY <4>1
      <4>2. CASE T # {}
        <5>1. T = {x} BY <4>2
        <5>2. T \ {CHOOSE y : y \in T} = {} BY <2>0, <5>1
        <5>3. h[{}] = 0 OBVIOUS
        <5>4. 1 + h[T \ {CHOOSE y : y \in T}] = 1 BY <5>2, <5>3
        <5> QED BY <4>2, <5>4
      <4> QED BY <4>1, <4>2
    <3> QED BY <3>1, Zenon
  <2>2. Counts({x}, CHOOSE f : Counts({x}, f)) BY <2>1, Zenon
  <2> DEFINE g == CHOOSE f : Counts({x}, f)
  <2>3. g = [T \in SUBSET {x} |-> IF T = {} THEN 0 ELSE 1 + g[T \ {CHOOSE y : y \in T}]]
     BY <2>2, Zenon
  <2>9. Cardinality({x}) = g[{x}] BY <1>1, Zenon
  <2> HIDE DEF g
  <2>4. g[{}] = 0 BY <2>3
  <2>5. {x} # {} /\ {x} \ {CHOOSE y : y \in {x}} = {} BY <2>0
  <2>6. g[{x}] = IF {x} = {} THEN 0 ELSE 1 + g[{x} \ {CHOOSE y : y \in {x}}] BY <2>3, Zenon
  <2>7. g[{x}] = 1 + g[{}] BY <2>5, <2>6, Zenon
  <2> QED BY <2>4, <2>7, <2>9
<1> QED BY <1>2, <1>3

(* A set with at most one member has cardinality one if it has one, else zero. *)
LEMMA AtMostOne ==
  ASSUME NEW S, \A x, y \in S : x = y
  PROVE  Cardinality(S) = IF S = {} THEN 0 ELSE 1
<1>1. CASE S = {} BY <1>1, NoneOrOne
<1>2. CASE S # {}
  <2>1. PICK x : S = {x} BY <1>2
  <2>2. Cardinality({x}) = 1 BY NoneOrOne, Zenon
  <2> QED BY <2>1, <2>2
<1> QED BY <1>1, <1>2

(* Three places that exclude each other hold a connection once between them. *)
LEMMA OwnedOnce == ServerIInv => OpenConnOwnedOnce
<1> SUFFICES ASSUME ServerIInv, ~threw, NEW c \in Conns
             PROVE  Cardinality({l \in Listeners : accepted[l] = c})
                      + Cardinality({i \in DOMAIN client_queue : client_queue[i] = c})
                      + Cardinality({w \in HttpWorkers : session[w] = c})
                    = (IF conn[c] = "open" THEN 1 ELSE 0)
  BY Zenon DEF OpenConnOwnedOnce
<1> DEFINE A == {l \in Listeners : accepted[l] = c}
           Q == {i \in DOMAIN client_queue : client_queue[i] = c}
           W == {w \in HttpWorkers : session[w] = c}
<1>0. c # NoConn BY ServerAssumption
<1>1. /\ \A x, y \in A : x = y
      /\ \A x, y \in Q : x = y
      /\ \A x, y \in W : x = y
  BY <1>0 DEF ServerIInv, OwnerInv
<1>2. /\ (A = {} \/ Q = {}) /\ (A = {} \/ W = {}) /\ (Q = {} \/ W = {})
      /\ (A # {} \/ Q # {} \/ W # {}) <=> conn[c] = "open"
  BY <1>0 DEF ServerIInv, OwnerInv, OpenInv, Owned, Queued
<1> HIDE DEF A, Q, W
<1>3. /\ Cardinality(A) = IF A = {} THEN 0 ELSE 1
      /\ Cardinality(Q) = IF Q = {} THEN 0 ELSE 1
      /\ Cardinality(W) = IF W = {} THEN 0 ELSE 1
  BY ONLY <1>1, AtMostOne
<1>4. Cardinality(A) + Cardinality(Q) + Cardinality(W) = IF conn[c] = "open" THEN 1 ELSE 0
  BY ONLY <1>2, <1>3
<1> QED BY <1>4 DEF A, Q, W

(* However the accept loops, the workers and Stop interleave, every open          *)
(* connection is in exactly one of an acceptor's hands, client_queue_ and a       *)
(* worker's session, and a Stop that has returned leaves no thread, no listening  *)
(* socket and no open connection (unless an accept loop failed before).           *)
THEOREM ConnectionsStaySafe == ServerSpec => []ConnectionsSafe
<1>1. ServerIInv => ConnectionsSafe
  <2> SUFFICES ASSUME ServerIInv PROVE ConnectionsSafe OBVIOUS
  <2>1. OpenConnOwnedOnce BY OwnedOnce
  <2>2. StopLeavesNothing
    <3> SUFFICES ASSUME stopper = "returned", ~threw PROVE StopLeavesNothing
      BY DEF StopLeavesNothing
    <3>1. /\ \A w \in HttpWorkers : worker[w] = "done" /\ session[w] = NoConn
          /\ \A l \in Listeners : acceptor[l] = "done" /\ accepted[l] = NoConn
          /\ listening = {} /\ client_queue = << >>
      BY DEF ServerIInv, StopInv, HoldInv
    <3>2. DOMAIN client_queue = {} BY <3>1
    <3>3. \A c \in Conns : conn[c] # "open"
      BY <3>1, <3>2, ServerAssumption DEF ServerIInv, OpenInv, Owned, Queued
    <3> QED BY <3>1, <3>3 DEF StopLeavesNothing
  <2> QED BY <2>1, <2>2 DEF ServerIInv, ConnectionsSafe
<1> QED BY ServerInitIInv, ServerNextIInv, <1>1, PTL DEF ServerSpec
=============================================================================
