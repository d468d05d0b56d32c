----------------------------- MODULE RateLimiter -----------------------------
(***************************************************************************)
(* The request limiter of server/auth/rate_limiter.cpp: one principal has  *)
(* an aggregate bucket and a bucket for each endpoint class.  Tokens are   *)
(* counted in sixtieths, so that a second refills requests_per_minute of   *)
(* them; time advances in steps of Tick seconds.  `kept' is the same       *)
(* limiter without eviction, to compare against.                           *)
(***************************************************************************)
EXTENDS Integers, FiniteSets, TLC, Functions, FiniteSetsExt

CONSTANTS
  Principals,    \* the keys Admit is called with
  LimiterConfigs,\* [limit, endpoints]: requests per minute; class -> [rpm, burst] or NoPolicy
  NewLimits,     \* limits an operator may set
  Tick,          \* seconds in a step of the clock
  MaxNow,        \* steps of the clock in a behaviour
  NoPolicy

VARIABLES
  limit,         \* tokens_per_minute_
  endpoints,     \* endpoints_
  entries,       \* entries_: principal -> [last, buckets]
  kept,          \* entries_ if nothing were evicted
  last_eviction, \* last_eviction_
  now,           \* the clock, in steps
  recent,        \* admissions of the last minute: principal -> class -> set of <<step, number>>
  decision       \* the last answer of Admit, compared with the one kept gives

limiterVars == <<limit, endpoints, entries, kept, last_eviction, now, recent, decision>>

Classes == {"generation", "embeddings"}
Buckets == {"aggregate"} \cup Classes
Minute == 60 \div Tick

EndpointsEnabled(ends) == \E c \in Classes : ends[c] # NoPolicy

\* ValidateEndpointRateLimits and the constructor's condition.
ValidConfig(c) ==
  /\ \A k \in Classes : c.endpoints[k] # NoPolicy =>
       0 < c.endpoints[k].burst /\ c.endpoints[k].burst <= c.endpoints[k].rpm
  /\ EndpointsEnabled(c.endpoints) => c.limit > 0

ASSUME LimiterConfigsAssumption == \A c \in LimiterConfigs : ValidConfig(c)
ASSUME TickAssumption == Tick \in Nat \ {0} /\ Tick * Minute = 60

NoDecision == [allowed |-> TRUE, same |-> TRUE, retry |-> 0, who |-> NoPolicy, class |-> "other"]

LimiterInit ==
  /\ \E c \in LimiterConfigs : limit = c.limit /\ endpoints = c.endpoints
  /\ entries = << >> /\ kept = << >> /\ last_eviction = 0 /\ now = 0
  /\ recent = [p \in Principals |-> {}] /\ decision = NoDecision

BucketPolicy == [b \in Buckets |-> IF b = "aggregate" THEN [rpm |-> limit, burst |-> limit]
                               ELSE endpoints[b]]
Applies(b, class) == BucketPolicy[b] # NoPolicy /\ b \in {"aggregate", class}

\* Mutant of Evicted: a principal is dropped after one idle step.
EvictedEarly(table) == Restrict(table, {p \in DOMAIN table : now - table[p].last < 1})

\* EvictStaleLocked: at most once a minute, principals idle for over two minutes go.
Evicted(table) ==
  IF now - last_eviction < Minute THEN table
  ELSE Restrict(table, {p \in DOMAIN table : now - table[p].last <= 2 * Minute})

Fresh == [last |-> now,
          buckets |-> [b \in Buckets |->
            [tokens |-> IF BucketPolicy[b] = NoPolicy THEN 0 ELSE 60 * BucketPolicy[b].burst, last |-> now]]]
Entry(table, p) == IF p \in DOMAIN table THEN [table[p] EXCEPT !.last = now] ELSE Fresh

\* The refill of the buckets the class is charged to.
Refilled(e, class) ==
  [e EXCEPT !.buckets = [b \in Buckets |->
     IF ~Applies(b, class) THEN @[b]
     ELSE [tokens |-> Min({60 * BucketPolicy[b].burst,
                           @[b].tokens + (now - @[b].last) * Tick * BucketPolicy[b].rpm}),
           last |-> now]]]

Short(e, class) == {b \in Buckets : Applies(b, class) /\ e.buckets[b].tokens < 60}

Debited(e, class) ==
  IF Short(e, class) # {} THEN e
  ELSE [e EXCEPT !.buckets = [b \in Buckets |->
          IF Applies(b, class) THEN [@[b] EXCEPT !.tokens = @ - 60] ELSE @[b]]]

\* The longest wait of the buckets that are short, in whole seconds rounded up.
RetryAfter(e, class) ==
  Max({(60 - e.buckets[b].tokens + BucketPolicy[b].rpm - 1) \div BucketPolicy[b].rpm :
         b \in Short(e, class)} \cup {0})

Within(set) == {a \in set : now - a[1] < Minute}

\* Admit: one critical section.
AdmitRequest(p, class) ==
  /\ limit > 0
  /\ LET swept == Evicted(entries)
         mine == Refilled(Entry(swept, p), class)
         ref == Refilled(Entry(kept, p), class)
         ok == Short(mine, class) = {}
     IN /\ entries' = (p :> Debited(mine, class)) @@ swept
        /\ kept' = (p :> Debited(ref, class)) @@ kept
        /\ last_eviction' = IF now - last_eviction < Minute THEN last_eviction ELSE now
        /\ decision' = [allowed |-> ok, same |-> ok = (Short(ref, class) = {}),
                        retry |-> RetryAfter(mine, class), who |-> p, class |-> class]
        /\ recent' = [recent EXCEPT ![p] =
                        IF ok THEN Within(@) \cup {<<now, class, Cardinality(@)>>} ELSE Within(@)]
  /\ UNCHANGED <<limit, endpoints, now>>

\* UpdateLimit from the admin API; zero is refused while endpoint policies exist.
UpdateLimit(n) ==
  /\ EndpointsEnabled(endpoints) => n > 0
  /\ LET reset(table) ==
           IF ~EndpointsEnabled(endpoints) THEN << >>
           ELSE [p \in DOMAIN table |->
                   [table[p] EXCEPT !.buckets["aggregate"] = [tokens |-> 60 * n, last |-> now]]]
     IN entries' = reset(entries) /\ kept' = reset(kept)
  /\ limit' = n /\ recent' = [p \in Principals |-> {}] /\ decision' = NoDecision
  /\ UNCHANGED <<endpoints, last_eviction, now>>

TimePasses ==
  /\ now < MaxNow /\ now' = now + 1 /\ decision' = NoDecision
  /\ UNCHANGED <<limit, endpoints, entries, kept, last_eviction, recent>>

LimiterNext ==
  \/ \E p \in Principals, class \in Classes \cup {"other"} : AdmitRequest(p, class)
  \/ \E n \in NewLimits : UpdateLimit(n)
  \/ TimePasses

LimiterSpec == LimiterInit /\ [][LimiterNext]_limiterVars

---------------------------------------------------------------------------
\* Every bucket in use holds between nothing and its burst, whatever the limit was
\* changed to and however long it was idle.
TokensBounded ==
  \A p \in DOMAIN entries : \A b \in Buckets :
    0 <= entries[p].buckets[b].tokens
      /\ (BucketPolicy[b] # NoPolicy => entries[p].buckets[b].tokens <= 60 * BucketPolicy[b].burst)

\* EvictStaleLocked: "After two idle minutes, removing the principal is equivalent to
\* retaining its full buckets."  No answer of Admit is changed by eviction.
EvictionChangesNothing == decision.same

\* A minute admits a principal at most a full bucket and what refills between the first
\* request of the minute and the last: nearly twice the limit.  No class gets more than
\* the burst and the refill of its own policy.
AdmittedWithinMinute ==
  \A p \in Principals :
    LET w == Within(recent[p])
        Bounded(set, policy) ==
          60 * Cardinality(set) <= 60 * policy.burst + (Minute - 1) * Tick * policy.rpm
    IN /\ Bounded(w, BucketPolicy["aggregate"])
       /\ \A c \in Classes : endpoints[c] # NoPolicy =>
            Bounded({a \in w : a[2] = c}, endpoints[c])

\* A caller that waits as long as Retry-After says, and does nothing else, is admitted.
RetryAfterSuffices ==
  ~decision.allowed =>
    LET e == entries[decision.who]
    IN \A b \in Buckets : Applies(b, decision.class) =>
         e.buckets[b].tokens + decision.retry * BucketPolicy[b].rpm >= 60

\* "A rejected endpoint request must not consume the shared request allowance": no
\* bucket is lower after a refusal.
RefusalDebitsNothing ==
  [][decision' # decision /\ ~decision'.allowed /\ decision'.who \in DOMAIN entries =>
       \A b \in Buckets : entries'[decision'.who].buckets[b].tokens
                            >= entries[decision'.who].buckets[b].tokens]_limiterVars

\* No caller gets more in a minute than a full bucket and the refill, forgetting an
\* idle caller changes no decision, a refused caller that waits as told is admitted,
\* and a refusal costs nothing.
LimiterSafe ==
    /\ [](/\ TokensBounded
          /\ EvictionChangesNothing
          /\ AdmittedWithinMinute
          /\ RetryAfterSuffices)
    /\ RefusalDebitsNothing
=============================================================================
