----------------------------- MODULE Readiness ------------------------------
(***************************************************************************)
(* readinessHandler of cmd/server/main.go: concurrent requests that ping   *)
(* Postgres and each Redis server in turn and share a cached answer.  The  *)
(* time of a request is taken before it looks at the cache, and a request  *)
(* that pings stores its answer when it is done, whatever others stored in *)
(* between.                                                                *)
(*                                                                         *)
(* Times are kept as ages.  MaxAge bounds how long a request takes and     *)
(* MaxChanges how often a dependency goes down or comes back.              *)
(***************************************************************************)
EXTENDS Integers, FiniteSets

CONSTANTS
    Request,
    Servers,       \* the number of Redis servers
    TTL,           \* readinessCacheTTL
    PingTimeout,   \* of the context of the pings
    MaxAge, MaxChanges

ASSUME ReadyAssumption ==
    /\ Servers \in Nat /\ TTL \in Nat \ {0} /\ PingTimeout \in Nat
    /\ MaxAge \in Nat /\ MaxChanges \in Nat

\* The order of the pings.
Postgres == 0
Redis == 1..Servers
Dependency == 0..Servers

VARIABLES
    alive,     \* the dependencies that answer
    since,     \* how long ago each was last alive, counted to TTL
    snapshot,  \* the cached status, and the time left until it expires
    req,       \* the requests
    changes

readyVars == <<alive, since, snapshot, req, changes>>

\* seen is history: what was alive from TTL before the request until its answer.
NewRequest == [pc |-> "idle", age |-> 0, next |-> 0, ok |-> {}, answer |-> "none", seen |-> {}]

ReadyInit ==
    /\ alive = Dependency /\ since = [d \in Dependency |-> 0]
    /\ snapshot = [status |-> "none", left |-> 0]
    /\ req = [r \in Request |-> NewRequest]
    /\ changes = 0

Answered(q, status) == [NewRequest EXCEPT !.answer = status, !.seen = q.seen]

Busy(r) == req[r].pc # "idle"

Ask(r) ==
    /\ ~Busy(r)
    /\ req' = [req EXCEPT ![r] =
         [NewRequest EXCEPT !.pc = "look", !.seen = {d \in Dependency : since[d] < TTL}]]
    /\ UNCHANGED <<alive, since, snapshot, changes>>

\* The cached answer, if it has not expired at the time of the request.
Look(r) ==
    /\ req[r].pc = "look"
    /\ IF snapshot.status # "none" /\ snapshot.left + req[r].age > 0
       THEN req' = [req EXCEPT ![r] = Answered(req[r], snapshot.status)]
       ELSE req' = [req EXCEPT ![r].pc = "ping"]
    /\ UNCHANGED <<alive, since, snapshot, changes>>

\* The next ping.  All fail once the context has expired.
Ping(r) ==
    /\ req[r].pc = "ping" /\ req[r].next \in Dependency
    /\ req' = [req EXCEPT
         ![r].next = @ + 1,
         ![r].ok = @ \cup IF req[r].age < PingTimeout THEN alive \cap {req[r].next} ELSE {}]
    /\ UNCHANGED <<alive, since, snapshot, changes>>

Status(ok) ==
    IF Postgres \in ok /\ Cardinality(ok \cap Redis) >= Cardinality(Redis) \div 2 + 1
    THEN "ready" ELSE "not_ready"

\* Plausible bug: the answer is cached from the time it is stored.
StoreFromNow(r) ==
    /\ req[r].pc = "ping" /\ req[r].next \notin Dependency
    /\ LET status == Status(req[r].ok)
       IN /\ snapshot' = [status |-> status, left |-> TTL]
          /\ req' = [req EXCEPT ![r] = Answered(req[r], status)]
    /\ UNCHANGED <<alive, since, changes>>

\* The answer, cached from the time of the request.
Store(r) ==
    /\ req[r].pc = "ping" /\ req[r].next \notin Dependency
    /\ LET status == Status(req[r].ok)
       IN /\ snapshot' = [status |-> status, left |-> TTL - req[r].age]
          /\ req' = [req EXCEPT ![r] = Answered(req[r], status)]
    /\ UNCHANGED <<alive, since, changes>>

Down(d) ==
    /\ d \in alive /\ changes < MaxChanges /\ changes' = changes + 1
    /\ alive' = alive \ {d}
    /\ UNCHANGED <<since, snapshot, req>>

Recover(d) ==
    /\ d \notin alive /\ changes < MaxChanges /\ changes' = changes + 1
    /\ alive' = alive \cup {d} /\ since' = [since EXCEPT ![d] = 0]
    /\ req' = [r \in Request |->
         IF Busy(r) THEN [req[r] EXCEPT !.seen = @ \cup {d}] ELSE req[r]]
    /\ UNCHANGED snapshot

TimePasses ==
    /\ \A r \in Request : Busy(r) => req[r].age < MaxAge
    /\ since' = [d \in Dependency |->
         IF d \in alive THEN 0 ELSE IF since[d] < TTL THEN since[d] + 1 ELSE TTL]
    /\ snapshot' = [snapshot EXCEPT !.left = IF @ > -MaxAge THEN @ - 1 ELSE @]
    /\ req' = [r \in Request |-> IF Busy(r) THEN [req[r] EXCEPT !.age = @ + 1] ELSE req[r]]
    /\ UNCHANGED <<alive, changes>>

ReadyNext ==
    \/ \E r \in Request : Ask(r) \/ Look(r) \/ Ping(r) \/ Store(r)
    \/ \E d \in Dependency : Down(d) \/ Recover(d)
    \/ TimePasses

ReadySpec == ReadyInit /\ [][ReadyNext]_readyVars

-----------------------------------------------------------------------------

\* An answer "ready" is no older than its cache time: Postgres, and each of a
\* majority of the Redis servers, was alive at some time from readinessCacheTTL before
\* the request until the answer, whichever request pinged and however slow requests
\* overwrite each other's answers (main.go:480, "verifies the service can actually
\* serve traffic by pinging each downstream").
ReadyIsRecent ==
    \A r \in Request : req[r].answer = "ready" =>
      /\ Postgres \in req[r].seen
      /\ 2 * Cardinality(req[r].seen \cap Redis) > Cardinality(Redis)

=============================================================================
