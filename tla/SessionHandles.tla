--------------------------- MODULE SessionHandles ---------------------------
(***************************************************************************)
(* scheduler/session_handle_manager.cpp, the retained sequences of client  *)
(* sessions, under the callers of scheduler.cpp that lease and commit them:*)
(* ProcessBatch, FinalizeSessionLease, the eviction thread and ~Scheduler.  *)
(* Sessions are off with decode workers, so one worker thread leases,      *)
(* admits and finishes every request.                                      *)
(*                                                                         *)
(* A retained sequence is named by the request that first computed it.     *)
(* Of last_access only the order matters: older names, for each entry, the *)
(* ones accessed before it.  Every operation that sets expires_at sets     *)
(* last_access with it, so the entries whose TTL has elapsed are the       *)
(* oldest.                                                                 *)
(***************************************************************************)
EXTENDS Integers, FiniteSets

CONSTANTS
  Sessions,
  Turns,
  SessionOf,     \* per request: inference.session_id
  MaxSessions,
  NoState

ASSUME SessionOfAssumption == SessionOf \in [Turns -> Sessions]
ASSUME MaxSessionsAssumption == MaxSessions \in Nat \ {0}
ASSUME NoStateAssumption == NoState \notin Turns /\ NoState \notin Sessions

VARIABLES
  entries,   \* the sessions in entries_
  inUse,     \* those whose entry is in_use
  tableState,     \* per session: the retained sequence, None without has_state
  older,     \* per entry: the entries with an earlier last_access
  elapsed,   \* the sessions whose expires_at has passed
  turn,     \* per request: how far the scheduler is with it
  seq,       \* per request: inference.sequence_id
  liveSeqs,      \* sequences that have not been freed
  cleanup,   \* states the worker (at the end, ~Scheduler) is about to release
  expired,   \* states the eviction thread is about to release
  drainedAll    \* ~Scheduler has called DrainAll

mgrVars == <<entries, inUse, tableState, older, elapsed>>
sessionVars == <<mgrVars, turn, seq, liveSeqs, cleanup, expired, drainedAll>>

SessionTypeOK ==
  /\ entries \subseteq Sessions /\ inUse \subseteq entries
  /\ Cardinality(entries) <= MaxSessions
  /\ tableState \in [Sessions -> Turns \cup {NoState}]
  /\ \A s \in Sessions \ entries : tableState[s] = NoState
  /\ older \in [Sessions -> SUBSET entries]
  /\ elapsed \subseteq entries
  /\ turn \in [Turns -> {"new", "leased", "running", "stateless", "done"}]
  /\ seq \in [Turns -> Turns \cup {NoState}]
  /\ liveSeqs \subseteq Turns /\ cleanup \subseteq Turns
  /\ expired \subseteq Turns /\ drainedAll \in BOOLEAN

SessionInit ==
  /\ entries = {} /\ inUse = {} /\ elapsed = {}
  /\ tableState = [s \in Sessions |-> NoState]
  /\ older = [s \in Sessions |-> {}]
  /\ turn = [r \in Turns |-> "new"]
  /\ seq = [r \in Turns |-> NoState]
  /\ liveSeqs = {} /\ cleanup = {} /\ expired = {} /\ drainedAll = FALSE

Some(x) == {x} \ {NoState}
\* The order of last_access without the entries of out, and with s, if any, as
\* the latest.
Reordered(out, s) ==
  older' = [e \in Sessions |-> IF e \in s THEN entries \ (out \cup s)
                              ELSE IF e \in out THEN {} ELSE older[e] \ (out \cup s)]
Step(r, p) == turn' = [turn EXCEPT ![r] = p]

\* An access: last_access is now, and expires_at lies ahead.
Refresh(s) == Reordered({}, {s}) /\ elapsed' = elapsed \ {s}

\* The worker is at request r: it has released what it took from the manager.
InPhase(r, p) == turn[r] = p /\ cleanup = {} /\ UNCHANGED <<expired, drainedAll>>

\* It is between requests: none is half admitted.
Turn(r, p) == InPhase(r, p) /\ \A q \in Turns \ {r} : turn[q] # "leased"

---------------------------------------------------------------------------
(* AcquireLease, as ProcessBatch calls it for request r. *)

FindEvictionCandidateLocked ==
  {s \in entries \ inUse : older[s] \subseteq inUse}

Full == Cardinality(entries) >= MaxSessions

\* A session with no entry, with room for one or an idle entry to evict.
AcquireNew(r) ==
  LET s == SessionOf[r] IN
  /\ Turn(r, "new") /\ ~drainedAll /\ s \notin entries
  /\ \E out \in IF Full THEN {{v} : v \in FindEvictionCandidateLocked} ELSE {{}} :
       /\ entries' = (entries \ out) \cup {s}
       /\ inUse' = (inUse \ out) \cup {s}
       /\ Reordered(out, {s})
       /\ elapsed' = elapsed \ out
       /\ tableState' = [e \in Sessions |-> IF e \in out THEN NoState ELSE tableState[e]]
       /\ cleanup' = cleanup \cup UNION {Some(tableState[v]) : v \in out}
  /\ Step(r, "leased")
  /\ UNCHANGED <<seq, liveSeqs>>

\* An idle entry; an expired state is handed out for release first.
AcquireIdle(r) ==
  LET s == SessionOf[r]
      stale == IF s \in elapsed THEN Some(tableState[s]) ELSE {} IN
  /\ Turn(r, "new") /\ ~drainedAll /\ s \in entries \ inUse
  /\ inUse' = inUse \cup {s}
  /\ Refresh(s)
  /\ tableState' = IF stale # {} THEN [tableState EXCEPT ![s] = NoState] ELSE tableState
  /\ cleanup' = cleanup \cup stale
  /\ Step(r, "leased")
  /\ UNCHANGED <<entries, seq, liveSeqs>>

\* kBusy: the session is leased, or every entry is and there is no room.
AcquireBusy(r) ==
  LET s == SessionOf[r] IN
  /\ Turn(r, "new") /\ ~drainedAll
  /\ \/ s \in inUse
     \/ s \notin entries /\ Full /\ FindEvictionCandidateLocked = {}
  /\ Step(r, "stateless")
  /\ UNCHANGED <<mgrVars, seq, liveSeqs, cleanup>>

---------------------------------------------------------------------------
(* ProcessBatch between the lease and the execution. *)

\* The retained sequence is restored and prefilled; the manager keeps its copy.
AdmitWarm(r) ==
  /\ InPhase(r, "leased") /\ tableState[SessionOf[r]] # NoState
  /\ seq' = [seq EXCEPT ![r] = tableState[SessionOf[r]]]
  /\ Step(r, "running")
  /\ UNCHANGED <<mgrVars, liveSeqs, cleanup>>

\* Another model or another prompt: ReleaseSessionState and DiscardLeasedState.
DiscardIncompatible(r) ==
  /\ InPhase(r, "leased") /\ tableState[SessionOf[r]] # NoState
  /\ cleanup' = {tableState[SessionOf[r]]}
  /\ tableState' = [tableState EXCEPT ![SessionOf[r]] = NoState]
  /\ UNCHANGED <<entries, inUse, older, elapsed, turn, seq, liveSeqs>>

\* Context overflow: the request is answered and left, its lease still held.
TurnOverflows(r) ==
  /\ InPhase(r, "leased")
  /\ Step(r, "done")
  /\ UNCHANGED <<mgrVars, seq, liveSeqs, cleanup>>

\* No retained state: a sequence of its own.
AdmitCold(r) ==
  /\ \/ InPhase(r, "leased") /\ tableState[SessionOf[r]] = NoState /\ Step(r, "running")
     \/ Turn(r, "stateless") /\ seq[r] = NoState /\ UNCHANGED turn
  /\ seq' = [seq EXCEPT ![r] = r] /\ liveSeqs' = liveSeqs \cup {r}
  /\ UNCHANGED <<mgrVars, cleanup>>

\* No slot, no blocks, or RestoreLease failed: it runs without a sequence and a
\* retained one stays where it is.
NotAdmitted(r) ==
  /\ InPhase(r, "leased")
  /\ Step(r, "running")
  /\ UNCHANGED <<mgrVars, seq, liveSeqs, cleanup>>

\* Every prefill attempt failed: a reused state is discarded, the slot freed.
TurnPrefillFails(r) ==
  /\ Turn(r, "running") /\ seq[r] # NoState
  /\ tableState' = IF tableState[SessionOf[r]] = seq[r]
                THEN [tableState EXCEPT ![SessionOf[r]] = NoState] ELSE tableState
  /\ liveSeqs' = liveSeqs \ {seq[r]}
  /\ seq' = [seq EXCEPT ![r] = NoState]
  /\ UNCHANGED <<entries, inUse, older, elapsed, turn, cleanup>>

---------------------------------------------------------------------------
(* The end of a request: FinalizeSessionLease; a stateless one frees its      *)
(* sequence or donates it to the prefix cache, out of this module either way. *)

CommitLease(r) ==
  LET s == SessionOf[r] IN
  /\ Turn(r, "running") /\ seq[r] # NoState
  /\ tableState' = [tableState EXCEPT ![s] = seq[r]]
  /\ entries' = entries \cup {s} /\ inUse' = inUse \ {s}
  /\ Refresh(s)
  /\ seq' = [seq EXCEPT ![r] = NoState] /\ Step(r, "done")
  /\ UNCHANGED <<liveSeqs, cleanup>>

\* ReleaseLease: an entry without state goes.
ReleaseSessionLease(s, kept) ==
  /\ inUse' = inUse \ {s}
  /\ IF kept THEN Refresh(s) /\ UNCHANGED entries
     ELSE /\ entries' = entries \ {s}
          /\ Reordered({s}, {}) /\ elapsed' = elapsed \ {s}

\* Mutant of FinishFailed: the manager keeps its copy of a freed sequence.
FinishFailedKeepsCopy(r) ==
  LET s == SessionOf[r] IN
  /\ Turn(r, "running") /\ seq[r] # NoState
  /\ liveSeqs' = liveSeqs \ {seq[r]}
  /\ ReleaseSessionLease(s, tableState[s] # NoState)
  /\ seq' = [seq EXCEPT ![r] = NoState] /\ Step(r, "done")
  /\ UNCHANGED <<tableState, cleanup>>

\* The request had a sequence and is not committed: DiscardLeasedState,
\* FreeSeqSlot, ReleaseLease.
FinishFailed(r) ==
  LET s == SessionOf[r] IN
  /\ Turn(r, "running") /\ seq[r] # NoState
  /\ tableState' = [tableState EXCEPT ![s] = NoState]
  /\ liveSeqs' = liveSeqs \ {seq[r]}
  /\ ReleaseSessionLease(s, FALSE)
  /\ seq' = [seq EXCEPT ![r] = NoState] /\ Step(r, "done")
  /\ UNCHANGED cleanup

\* The request ran without a sequence: ReleaseLease only.
FinishWithout(r) ==
  LET s == SessionOf[r] IN
  /\ Turn(r, "running") /\ seq[r] = NoState
  /\ ReleaseSessionLease(s, tableState[s] # NoState)
  /\ Step(r, "done")
  /\ UNCHANGED <<tableState, seq, liveSeqs, cleanup>>

FinishStateless(r) ==
  /\ Turn(r, "stateless")
  /\ liveSeqs' = liveSeqs \ {seq[r]}
  /\ seq' = [seq EXCEPT ![r] = NoState] /\ Step(r, "done")
  /\ UNCHANGED <<mgrVars, cleanup>>

---------------------------------------------------------------------------
(* Time, and the eviction thread. *)

\* The TTL of the oldest entry that has not expired elapses.
TtlElapses(s) ==
  /\ s \in entries \ elapsed
  /\ older[s] \subseteq elapsed
  /\ elapsed' = elapsed \cup {s}
  /\ UNCHANGED <<entries, inUse, tableState, older, turn, seq, liveSeqs>>
  /\ UNCHANGED <<cleanup, expired, drainedAll>>

\* Mutant of CollectExpired: the loop stops at an entry in use.
CollectExpiredBreaks ==
  LET out == IF inUse = {} THEN elapsed ELSE {} IN
  /\ out # {} /\ expired = {} /\ ~drainedAll
  /\ entries' = entries \ out /\ elapsed' = elapsed \ out
  /\ Reordered(out, {})
  /\ tableState' = [e \in Sessions |-> IF e \in out THEN NoState ELSE tableState[e]]
  /\ expired' = UNION {Some(tableState[v]) : v \in out}
  /\ UNCHANGED <<inUse, turn, seq, liveSeqs, cleanup, drainedAll>>

CollectExpired ==
  LET out == elapsed \ inUse IN
  /\ out # {} /\ expired = {} /\ ~drainedAll
  /\ entries' = entries \ out /\ elapsed' = elapsed \ out
  /\ Reordered(out, {})
  /\ tableState' = [e \in Sessions |-> IF e \in out THEN NoState ELSE tableState[e]]
  /\ expired' = UNION {Some(tableState[v]) : v \in out}
  /\ UNCHANGED <<inUse, turn, seq, liveSeqs, cleanup, drainedAll>>

ReleaseSessionState(x) ==
  /\ \/ cleanup' = cleanup \ {x} /\ x \in cleanup /\ UNCHANGED expired
     \/ expired' = expired \ {x} /\ x \in expired /\ UNCHANGED cleanup
  /\ liveSeqs' = liveSeqs \ {x}
  /\ UNCHANGED <<mgrVars, turn, seq, drainedAll>>

\* ~Scheduler, once the eviction thread and the worker have been joined.
DrainAll ==
  /\ ~drainedAll /\ cleanup = {} /\ expired = {}
  /\ \A r \in Turns : turn[r] \in {"new", "done"}
  /\ drainedAll' = TRUE
  /\ cleanup' = UNION {Some(tableState[s]) : s \in entries}
  /\ entries' = {} /\ inUse' = {} /\ elapsed' = {} /\ Reordered(entries, {})
  /\ tableState' = [s \in Sessions |-> NoState]
  /\ UNCHANGED <<turn, seq, liveSeqs, expired>>

SessionNext ==
  \/ \E r \in Turns :
       \/ AcquireNew(r) \/ AcquireIdle(r) \/ AcquireBusy(r)
       \/ AdmitWarm(r) \/ DiscardIncompatible(r) \/ TurnOverflows(r)
       \/ AdmitCold(r) \/ NotAdmitted(r)
       \/ TurnPrefillFails(r) \/ CommitLease(r) \/ FinishFailed(r) \/ FinishWithout(r)
       \/ FinishStateless(r)
  \/ \E s \in Sessions : TtlElapses(s)
  \/ CollectExpired \/ DrainAll
  \/ \E x \in Turns : ReleaseSessionState(x)

SessionSpec == SessionInit /\ [][SessionNext]_sessionVars

\* The eviction thread wakes every 30 seconds and releases what it collects.
SessionFairSpec ==
  /\ SessionSpec /\ WF_sessionVars(CollectExpired)
  /\ \A x \in Turns : WF_sessionVars(ReleaseSessionState(x))

---------------------------------------------------------------------------
Leased(s) == {r \in Turns : SessionOf[r] = s /\ turn[r] \in {"leased", "running"}}

(* A lease is exclusive and is not taken away: a session has at most one       *)
(* request that leased it, which finds its entry in use whatever the eviction  *)
(* of AcquireLease and CollectExpired did meanwhile.                           *)
OneLeasePerSession ==
  \A s \in Sessions : /\ Cardinality(Leased(s)) <= 1
                     /\ Leased(s) # {} => s \in inUse

(* A retained sequence has not been freed, nor is its release on the way, and  *)
(* only the request that leased its session may be using it.                   *)
RetainedStateOwnedOnce ==
  \A s \in Sessions : tableState[s] # NoState =>
    /\ tableState[s] \in liveSeqs \ (cleanup \cup expired)
    /\ \A t \in Sessions \ {s} : tableState[t] # tableState[s]
    /\ \A r \in Turns : seq[r] = tableState[s] => r \in Leased(s)

(* A sequence that has not been freed is retained by a session, in use by a    *)
(* request, or about to be given to ReleaseSessionState.  None is forgotten,   *)
(* and after DrainAll all are freed.                                           *)
NoSequenceLost ==
  \A x \in liveSeqs : \/ x \in cleanup \cup expired
                  \/ \E s \in Sessions : tableState[s] = x
                  \/ \E r \in Turns : seq[r] = x

(* An idle session loses its KV state after the TTL: it is collected unless a   *)
(* new turn of the conversation leases it.                                      *)
IdleSessionExpires ==
  \A s \in Sessions : s \in elapsed \ inUse ~> s \notin elapsed \/ s \in inUse

\* The retained sequence of a session has one owner, the table or one turn, from
\* its commit to its release, through expiry, eviction at the cap and teardown.
SessionsSafe ==
    /\ SessionTypeOK
    /\ OneLeasePerSession
    /\ RetainedStateOwnedOnce
    /\ NoSequenceLost
=============================================================================
