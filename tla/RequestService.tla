--------------------------- MODULE RequestService --------------------------
(***************************************************************************)
(* What Scheduler::Generate promises its caller: a submitted request is    *)
(* answered, once.  The queues, workers and shutdown of SchedulerQueues    *)
(* implement this.                                                         *)
(***************************************************************************)
CONSTANT Requests

VARIABLE status   \* per request: "idle", "waiting" or "answered"

Init == status = [r \in Requests |-> "idle"]

Move(r, from, to) ==
  status[r] = from /\ status' = [status EXCEPT ![r] = to]

\* An embedding that a split scheduler does not serve is refused at once.
Submit(r) == Move(r, "idle", "waiting") \/ Move(r, "idle", "answered")

\* One step of the implementation may answer several requests.
AnswerSome ==
  \E S \in SUBSET {r \in Requests : status[r] = "waiting"} :
    /\ S # {}
    /\ status' = [r \in Requests |-> IF r \in S THEN "answered" ELSE status[r]]

Next == AnswerSome \/ \E r \in Requests : Submit(r)

Spec == Init /\ [][Next]_status

EveryoneAnswered == \A r \in Requests : status[r] = "waiting" ~> status[r] = "answered"
=============================================================================
