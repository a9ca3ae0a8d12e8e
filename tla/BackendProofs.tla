--------------------------- MODULE BackendProofs ----------------------------
(***************************************************************************)
(* What the server asks of Redis, Kafka and Postgres: the lock of          *)
(* redlock.go, for any number of callers and servers, attempts, failed     *)
(* calls and crashes; the consumer of the jobs topic, for every number of  *)
(* messages and of sessions; and the readiness probe, for every number of  *)
(* requests and of servers.                                                *)
(***************************************************************************)
EXTENDS Redlock, KafkaConsumer, Readiness, FiniteSetTheorems, TLAPS

(***************************************************************************)
(* The readiness probe.                                                    *)
(*                                                                         *)
(* The argument: what a request has pinged was alive since the request     *)
(* began, so any request that began less than TTL later, before or after,  *)
(* counts it as seen.  The cache passes this on, as it expires TTL after   *)
(* the time of the request that stored it.                                 *)
(***************************************************************************)

\* A request and the cached answer have the fields the handler gives them.
RequestOK(q) ==
    /\ DOMAIN q = {"pc", "age", "next", "ok", "answer", "seen"}
    /\ q.pc \in {"idle", "look", "ping"} /\ q.age \in 0..MaxAge /\ q.next \in Nat
    /\ q.ok \subseteq Dependency /\ q.seen \subseteq Dependency
    /\ q.answer \in {"none", "ready", "not_ready"}

SnapshotOK(s) ==
    /\ DOMAIN s = {"status", "left"}
    /\ s.status \in {"none", "ready", "not_ready"} /\ s.left \in Int

\* The type of the probe's state.
ReadyType ==
    /\ alive \subseteq Dependency /\ since \in [Dependency -> 0..TTL]
    /\ SnapshotOK(snapshot)
    /\ req = [r \in Request |-> req[r]] /\ \A r \in Request : RequestOK(req[r])

\* What is alive is alive now, and a request has seen what was alive less than
\* TTL ago.
SeenRecent ==
    /\ \A d \in alive : since[d] = 0
    /\ \A r \in Request : Busy(r) => \A d \in Dependency : since[d] < TTL => d \in req[r].seen

\* A request that is being served has no answer, an idle one no pings.
Serving == \A r \in Request : IF Busy(r) THEN req[r].answer = "none" ELSE req[r].ok = {}

\* What a request pinged was alive since it began, and was seen by every request
\* that began less than TTL after it.
PingedRecent ==
    \A r \in Request : \A d \in req[r].ok :
      /\ since[d] <= req[r].age
      /\ \A q \in Request : Busy(q) /\ req[r].age < TTL + req[q].age => d \in req[q].seen

\* The same of the pings that the cached answer comes from.
Supports(ok) ==
    /\ ok \subseteq Dependency /\ Status(ok) = "ready"
    /\ \A d \in ok :
         /\ since[d] + snapshot.left <= TTL
         /\ \A q \in Request : Busy(q) /\ snapshot.left + req[q].age > 0 => d \in req[q].seen

SnapshotRecent == snapshot.status = "ready" => \E ok \in SUBSET Dependency : Supports(ok)

\* The inductive invariant.
ReadyInv ==
    ReadyType /\ SeenRecent /\ Serving /\ PingedRecent /\ SnapshotRecent /\ ReadyIsRecent

\* The constants are numbers, and there is a Postgres.
LEMMA ReadyConstants ==
    /\ TTL \in Nat /\ TTL > 0 /\ MaxAge \in Nat /\ PingTimeout \in Nat
    /\ Servers \in Nat /\ Postgres \in Dependency
<1>1. TTL \in Nat \ {0} /\ MaxAge \in Nat /\ PingTimeout \in Nat /\ Servers \in Nat
  BY ReadyAssumption, Zenon
<1>2. QED
  BY <1>1 DEF Postgres, Dependency

\* What holds of the pings that make a status "ready" holds of what includes them.
LEMMA EnoughSeen ==
    ASSUME NEW ok, NEW seen \in SUBSET Dependency, ok \subseteq seen, Status(ok) = "ready"
    PROVE  Postgres \in seen /\ 2 * Cardinality(seen \cap Redis) > Cardinality(Redis)
<1>1. IsFiniteSet(Redis)
  BY FS_Interval, ReadyConstants DEF Redis
<1>2. IsFiniteSet(seen \cap Redis) /\ seen \cap Redis \subseteq Redis
  BY <1>1, FS_Subset
<1>3. /\ ok \cap Redis \subseteq seen \cap Redis /\ IsFiniteSet(ok \cap Redis)
      /\ Cardinality(ok \cap Redis) <= Cardinality(seen \cap Redis)
  BY <1>2, FS_Subset
<1>4. /\ Cardinality(Redis) \in Nat /\ Cardinality(ok \cap Redis) \in Nat
      /\ Cardinality(seen \cap Redis) \in Nat
  BY <1>1, <1>2, <1>3, FS_CardinalityType
<1>5. Postgres \in ok /\ Cardinality(ok \cap Redis) >= Cardinality(Redis) \div 2 + 1
  BY DEF Status
<1>6. QED
  BY <1>3, <1>4, <1>5

\* The probe that nobody has asked satisfies the invariant.
LEMMA ReadyStarts == ReadyInit => ReadyInv
<1> SUFFICES ASSUME ReadyInit PROVE ReadyInv
  OBVIOUS
<1> USE ReadyConstants
<1>1. \A r \in Request : /\ req[r].pc = "idle" /\ req[r].ok = {} /\ req[r].answer = "none"
  BY DEF ReadyInit, NewRequest
<1>2. ReadyType
  BY DEF ReadyInit, ReadyType, NewRequest, RequestOK, SnapshotOK
<1>3. QED
  BY <1>1, <1>2
     DEF ReadyInit, ReadyInv, SeenRecent, Serving, PingedRecent, SnapshotRecent, ReadyIsRecent, Busy

\* A step of one request that leaves the cache and the dependencies as they are
\* keeps what concerns the others: what it pinged is old enough, and what it has
\* seen covers what the others pinged.
LEMMA RequestMoves ==
    ASSUME ReadyInv, NEW r \in Request, NEW new, RequestOK(new), req' = [req EXCEPT ![r] = new],
           UNCHANGED <<alive, since, snapshot>>,
           new.pc # "idle" => /\ new.answer = "none"
                              /\ \A d \in Dependency : since[d] < TTL => d \in new.seen
                              /\ \/ new.age = 0
                                 \/ Busy(r) /\ new.age = req[r].age /\ new.seen = req[r].seen,
           new.pc = "idle" => new.ok = {},
           \A d \in new.ok : (d \in req[r].ok /\ new.age = req[r].age) \/ since[d] = 0,
           new.answer = "ready" =>
             Postgres \in new.seen /\ 2 * Cardinality(new.seen \cap Redis) > Cardinality(Redis)
    PROVE  ReadyInv'
<1> USE ReadyConstants
<1>a. req'[r] = new /\ \A q \in Request : q # r => req'[q] = req[q]
  BY DEF ReadyInv, ReadyType
<1>t. ReadyType'
  <2>1. req' = [q \in Request |-> req'[q]]
    BY DEF ReadyInv, ReadyType
  <2>2. QED
    BY <1>a, <2>1 DEF ReadyInv, ReadyType, SnapshotOK
<1>1. SeenRecent' /\ Serving'
  BY <1>a DEF ReadyInv, SeenRecent, Serving, Busy
<1>2. ReadyIsRecent'
  BY <1>a, Zenon DEF ReadyInv, ReadyIsRecent
<1>3. \A q \in Request : req'[q].age \in Nat /\ req[q].age \in Nat /\ req'[q].ok \subseteq Dependency
  BY <1>a, <1>t DEF ReadyInv, ReadyType, RequestOK
<1>4. \A d \in Dependency : since[d] \in Nat /\ since[d] <= TTL
  BY DEF ReadyInv, ReadyType
<1>5. ASSUME NEW p \in Request, NEW d \in req'[p].ok,
             NEW q \in Request, Busy(q)', req'[p].age < TTL + req'[q].age
      PROVE  since[d] <= req'[p].age /\ d \in req'[q].seen
  <2>1. CASE since[d] = 0
    BY <1>1, <1>3, <1>5, <2>1 DEF SeenRecent
  <2>2. CASE d \in req[p].ok /\ req'[p].age = req[p].age /\ req'[q].age # 0
    BY <1>a, <1>3, <1>5, <2>2 DEF ReadyInv, PingedRecent, Busy
  <2>3. CASE d \in req[p].ok /\ req'[p].age = req[p].age /\ req'[q].age = 0
    <3>1. since[d] <= req[p].age
      BY <2>3 DEF ReadyInv, PingedRecent
    <3>2. since[d] < TTL
      BY <1>3, <1>4, <1>5, <2>3, <3>1
    <3>3. QED
      BY <1>1, <1>3, <1>5, <2>3, <3>1, <3>2 DEF SeenRecent
  <2>4. QED
    BY <1>a, <1>5, <2>1, <2>2, <2>3
<1>6. ASSUME NEW p \in Request, NEW d \in req'[p].ok PROVE since[d] <= req'[p].age
  BY <1>a, <1>3, <1>4, <1>6 DEF ReadyInv, PingedRecent
<1>7. PingedRecent'
  BY <1>5, <1>6 DEF PingedRecent
<1>8. ASSUME NEW ok \in SUBSET Dependency, Supports(ok) PROVE Supports(ok)'
  <2>1. snapshot.left \in Int
    BY DEF ReadyInv, ReadyType, SnapshotOK
  <2>2. ASSUME NEW d \in ok, NEW q \in Request, Busy(q)', snapshot.left + req'[q].age > 0
        PROVE  d \in req'[q].seen
    <3>1. CASE req'[q].age = 0
      <4>1. since[d] < TTL
        BY <1>4, <1>8, <2>1, <2>2, <3>1 DEF Supports
      <4>2. QED
        BY <1>1, <1>8, <2>2, <4>1 DEF SeenRecent
    <3>2. CASE req'[q].age # 0
      BY <1>a, <1>8, <2>2, <3>2 DEF Supports, Busy
    <3>3. QED
      BY <3>1, <3>2
  <2>3. QED
    BY <1>8, <2>2 DEF Supports, Status, Postgres, Redis
<1>9. SnapshotRecent'
  BY <1>8 DEF ReadyInv, SnapshotRecent
<1>10. QED
  BY <1>t, <1>1, <1>2, <1>7, <1>9 DEF ReadyInv

\* A request begins.
LEMMA AskKeeps == ASSUME ReadyInv, NEW r \in Request, Ask(r) PROVE ReadyInv'
<1> DEFINE recent == {d \in Dependency : since[d] < TTL}
           new == [NewRequest EXCEPT !.pc = "look", !.seen = recent]
<1>1. recent \subseteq Dependency /\ \A d \in Dependency : since[d] < TTL => d \in recent
  OBVIOUS
<1>2. req' = [req EXCEPT ![r] = new] /\ UNCHANGED <<alive, since, snapshot>>
  BY DEF Ask
<1> HIDE DEF recent
<1>3. /\ DOMAIN new = {"pc", "age", "next", "ok", "answer", "seen"}
      /\ new.pc = "look" /\ new.age = 0 /\ new.next = 0 /\ new.ok = {} /\ new.answer = "none"
      /\ new.seen = recent
  BY DEF NewRequest
<1> HIDE DEF new
<1>4. RequestOK(new)
  BY <1>1, <1>3, ReadyConstants DEF RequestOK
<1>5. QED
  BY <1>1, <1>2, <1>3, <1>4, RequestMoves, Zenon

\* A request takes the answer of the cache, or goes on to ping.
LEMMA LookKeeps == ASSUME ReadyInv, NEW r \in Request, Look(r) PROVE ReadyInv'
<1> USE ReadyConstants
<1>1. RequestOK(req[r]) /\ SnapshotOK(snapshot)
  BY DEF ReadyInv, ReadyType
<1>2. /\ Busy(r) /\ req[r].answer = "none"
      /\ \A d \in Dependency : since[d] < TTL => d \in req[r].seen
      /\ UNCHANGED <<alive, since, snapshot>>
  BY DEF Look, Busy, ReadyInv, Serving, SeenRecent
<1>3. CASE snapshot.status # "none" /\ snapshot.left + req[r].age > 0
  <2> DEFINE new == [pc |-> "idle", age |-> 0, next |-> 0, ok |-> {}, answer |-> snapshot.status,
                     seen |-> req[r].seen]
  <2>1. req' = [req EXCEPT ![r] = new]
    BY <1>3, Zenon DEF Look, Answered, NewRequest
  <2>2. RequestOK(new)
    BY <1>1 DEF RequestOK, SnapshotOK
  <2>3. /\ new.pc = "idle" /\ new.ok = {} /\ new.answer = snapshot.status
        /\ new.seen = req[r].seen
    OBVIOUS
  <2> HIDE DEF new
  <2>4. ASSUME snapshot.status = "ready"
        PROVE  /\ Postgres \in req[r].seen
               /\ 2 * Cardinality(req[r].seen \cap Redis) > Cardinality(Redis)
    <3>1. PICK ok \in SUBSET Dependency : Supports(ok)
      BY <2>4 DEF ReadyInv, SnapshotRecent
    <3>2. ok \subseteq req[r].seen /\ Status(ok) = "ready" /\ req[r].seen \in SUBSET Dependency
      BY <1>1, <1>2, <1>3, <3>1 DEF Supports, RequestOK
    <3>3. QED
      BY <3>2, EnoughSeen, Zenon
  <2>5. QED
    BY <1>2, <2>1, <2>2, <2>3, <2>4, RequestMoves, Zenon
<1>4. CASE ~(snapshot.status # "none" /\ snapshot.left + req[r].age > 0)
  <2> DEFINE new == [req[r] EXCEPT !.pc = "ping"]
  <2>1. req' = [req EXCEPT ![r] = new]
    BY <1>4 DEF Look
  <2>2. RequestOK(new)
    BY <1>1 DEF RequestOK
  <2>3. /\ new.pc = "ping" /\ new.age = req[r].age /\ new.ok = req[r].ok
        /\ new.answer = "none" /\ new.seen = req[r].seen
    BY <1>1, <1>2 DEF RequestOK
  <2> HIDE DEF new
  <2>4. QED
    BY <1>2, <2>1, <2>2, <2>3, RequestMoves, Zenon
<1>5. QED
  BY <1>3, <1>4

\* A ping counts what is alive now.
LEMMA PingKeeps == ASSUME ReadyInv, NEW r \in Request, Ping(r) PROVE ReadyInv'
<1> USE ReadyConstants
<1>1. RequestOK(req[r])
  BY DEF ReadyInv, ReadyType
<1>2. /\ Busy(r) /\ req[r].pc = "ping" /\ req[r].answer = "none"
      /\ \A d \in Dependency : since[d] < TTL => d \in req[r].seen
      /\ UNCHANGED <<alive, since, snapshot>>
  BY DEF Ping, Busy, ReadyInv, Serving, SeenRecent
<1> DEFINE pinged == IF req[r].age < PingTimeout THEN alive \cap {req[r].next} ELSE {}
           new == [req[r] EXCEPT !.next = @ + 1, !.ok = @ \cup pinged]
<1>3. req' = [req EXCEPT ![r] = new]
  BY Zenon DEF Ping
<1>4. \A d \in pinged : d \in Dependency /\ since[d] = 0
  BY DEF ReadyInv, SeenRecent, ReadyType
<1> HIDE DEF pinged
<1>5. RequestOK(new)
  BY <1>1, <1>4 DEF RequestOK
<1>6. /\ new.pc = "ping" /\ new.age = req[r].age /\ new.ok = req[r].ok \cup pinged
      /\ new.answer = "none" /\ new.seen = req[r].seen
  BY <1>1, <1>2 DEF RequestOK
<1> HIDE DEF new
<1>7. QED
  BY <1>2, <1>3, <1>4, <1>5, <1>6, RequestMoves, Zenon

\* A request stores its answer, from its own time on, and returns it.
LEMMA StoreKeeps == ASSUME ReadyInv, NEW r \in Request, Store(r) PROVE ReadyInv'
<1> USE ReadyConstants
<1> DEFINE status == Status(req[r].ok)
<1>1. \A q \in Request : q # r => req'[q] = req[q]
  BY DEF Store, ReadyInv, ReadyType
<1>2. req[r].pc = "ping" /\ Busy(r) /\ req[r].seen \subseteq Dependency
      /\ req[r].ok \subseteq Dependency /\ req[r].age \in Nat
  BY DEF Store, Busy, ReadyInv, ReadyType, RequestOK
<1>3. /\ req'[r].pc = "idle" /\ req'[r].ok = {} /\ req'[r].answer = status
      /\ req'[r].seen = req[r].seen
      /\ snapshot'.status = status /\ snapshot'.left = TTL - req[r].age
      /\ alive' = alive /\ since' = since
  BY Zenon DEF Store, Answered, NewRequest, ReadyInv, ReadyType
<1>4. status \in {"ready", "not_ready"}
  BY DEF Status
<1>5. ReadyType'
  <2>1. RequestOK(req'[r])
    <3>1. req'[r] = [pc |-> "idle", age |-> 0, next |-> 0, ok |-> {}, answer |-> status,
                     seen |-> req[r].seen]
      BY Zenon DEF Store, Answered, NewRequest, ReadyInv, ReadyType
    <3>2. QED
      BY <1>2, <1>4, <3>1 DEF RequestOK
  <2>2. SnapshotOK(snapshot')
    BY <1>2, <1>4 DEF Store, SnapshotOK
  <2>3. req' = [q \in Request |-> req'[q]]
    BY DEF Store, ReadyInv, ReadyType
  <2>4. QED
    BY <1>1, <1>3, <2>1, <2>2, <2>3 DEF ReadyInv, ReadyType
<1>6. SeenRecent' /\ Serving' /\ PingedRecent'
  BY <1>1, <1>3 DEF ReadyInv, SeenRecent, Serving, PingedRecent, Busy
<1>7. \A d \in req[r].ok : d \in req[r].seen
  BY <1>2 DEF ReadyInv, PingedRecent
<1>8. ReadyIsRecent'
  <2>1. status = "ready" => /\ Postgres \in req[r].seen
                            /\ 2 * Cardinality(req[r].seen \cap Redis) > Cardinality(Redis)
    BY <1>2, <1>7, EnoughSeen, Zenon
  <2>2. QED
    BY <1>1, <1>3, <2>1, Zenon DEF ReadyInv, ReadyIsRecent
<1>9. ASSUME NEW ok, ok = req[r].ok, status = "ready" PROVE Supports(ok)'
  <2>1. \A d \in req[r].ok : since[d] \in Nat /\ since[d] <= req[r].age
    BY <1>2 DEF ReadyInv, PingedRecent, ReadyType
  <2>2. \A d \in req[r].ok : since'[d] + snapshot'.left <= TTL
    BY <1>2, <1>3, <2>1
  <2>3. ASSUME NEW d \in req[r].ok, NEW q \in Request, Busy(q)', snapshot'.left + req'[q].age > 0
        PROVE  d \in req'[q].seen
    <3>1. q # r /\ req'[q] = req[q] /\ Busy(q) /\ req[q].age \in Nat
      BY <1>1, <1>3, <2>3 DEF Busy, ReadyInv, ReadyType, RequestOK
    <3>2. req[r].age < TTL + req[q].age
      BY <1>2, <1>3, <2>3, <3>1
    <3>3. QED
      BY <2>3, <3>1, <3>2 DEF ReadyInv, PingedRecent
  <2>4. QED
    BY <1>2, <1>9, <2>2, <2>3 DEF Supports, Status, Postgres, Redis
<1>10. SnapshotRecent'
  BY <1>2, <1>3, <1>9 DEF SnapshotRecent
<1>11. QED
  BY <1>5, <1>6, <1>8, <1>10 DEF ReadyInv

\* A dependency goes down: it was alive until now.
LEMMA DownKeeps == ASSUME ReadyInv, NEW d \in Dependency, Down(d) PROVE ReadyInv'
  BY Zenon DEF Down, ReadyInv, ReadyType, SeenRecent, Serving, PingedRecent, SnapshotRecent, Supports,
         ReadyIsRecent, Busy, Status, Postgres, Redis

\* A dependency comes back: every request that is being served has seen it.
LEMMA RecoverKeeps == ASSUME ReadyInv, NEW e \in Dependency, Recover(e) PROVE ReadyInv'
<1> USE ReadyConstants
<1>2. /\ \A r \in Request : /\ Busy(r)' <=> Busy(r)
                            /\ ~Busy(r) => req'[r] = req[r]
                            /\ req'[r].age = req[r].age /\ req'[r].ok = req[r].ok
                            /\ req'[r].answer = req[r].answer
                            /\ Busy(r) => req'[r].seen = req[r].seen \cup {e}
      /\ \A d \in Dependency : since'[d] = IF d = e THEN 0 ELSE since[d]
      /\ alive' = alive \cup {e} /\ snapshot' = snapshot
  BY DEF Recover, Busy, ReadyInv, ReadyType, RequestOK
<1>1. ReadyType'
  <2>1. \A r \in Request : RequestOK(req'[r])
    BY DEF Recover, ReadyInv, ReadyType, RequestOK
  <2>2. req' = [r \in Request |-> req'[r]] /\ since' \in [Dependency -> 0..TTL]
    BY DEF Recover, ReadyInv, ReadyType
  <2>3. QED
    BY <1>2, <2>1, <2>2 DEF ReadyInv, ReadyType
<1>3. /\ \A d \in Dependency : since[d] \in Nat
      /\ \A r \in Request : req[r].age \in Nat /\ req[r].ok \subseteq Dependency
      /\ snapshot.left \in Int /\ alive \subseteq Dependency
  BY DEF ReadyInv, ReadyType, RequestOK, SnapshotOK
<1>4. SeenRecent' /\ Serving'
  BY <1>2, <1>3 DEF ReadyInv, SeenRecent, Serving
<1>5. PingedRecent'
  BY <1>2, <1>3 DEF ReadyInv, PingedRecent
<1>6. ASSUME NEW ok \in SUBSET Dependency, Supports(ok) PROVE Supports(ok)'
  <2>1. \A d \in ok : since'[d] + snapshot'.left <= TTL
    BY <1>2, <1>3, <1>6 DEF Supports
  <2>2. QED
    BY <1>2, <1>6, <2>1 DEF Supports, Status, Postgres, Redis
<1>7. SnapshotRecent' /\ ReadyIsRecent'
  BY <1>2, <1>6 DEF ReadyInv, SnapshotRecent, ReadyIsRecent, Serving
<1>8. QED
  BY <1>1, <1>4, <1>5, <1>7 DEF ReadyInv

\* Time passes: what was alive, requests and the cache grow older together.
LEMMA TimeKeeps == ASSUME ReadyInv, TimePasses PROVE ReadyInv'
<1> USE ReadyConstants
<1>1. /\ \A r \in Request : /\ Busy(r)' <=> Busy(r)
                            /\ ~Busy(r) => req'[r] = req[r]
                            /\ Busy(r) => req'[r].age = req[r].age + 1 /\ req'[r].age <= MaxAge
                            /\ req'[r].ok = req[r].ok /\ req'[r].answer = req[r].answer
                            /\ req'[r].seen = req[r].seen
      /\ alive' = alive /\ snapshot'.status = snapshot.status
  BY DEF TimePasses, Busy, ReadyInv, ReadyType, RequestOK, SnapshotOK
<1>2. /\ \A d \in Dependency : since[d] \in Nat /\ since[d] <= TTL
      /\ \A r \in Request : req[r].age \in Nat /\ req[r].ok \subseteq Dependency
      /\ snapshot.left \in Int /\ alive \subseteq Dependency
  BY DEF ReadyInv, ReadyType, RequestOK, SnapshotOK
<1>3. /\ \A d \in Dependency : since'[d] = IF d \in alive THEN 0
                                           ELSE IF since[d] < TTL THEN since[d] + 1 ELSE TTL
      /\ snapshot'.left = IF snapshot.left > -MaxAge THEN snapshot.left - 1 ELSE snapshot.left
  BY DEF TimePasses, ReadyInv, ReadyType, SnapshotOK
<1>4. ReadyType'
  <2>1. since' \in [Dependency -> 0..TTL]
    BY <1>2 DEF TimePasses
  <2>2. SnapshotOK(snapshot')
    BY <1>2 DEF TimePasses, ReadyInv, ReadyType, SnapshotOK
  <2>3. \A r \in Request : RequestOK(req'[r])
    BY <1>2 DEF TimePasses, Busy, ReadyInv, ReadyType, RequestOK
  <2>4. req' = [r \in Request |-> req'[r]]
    BY DEF TimePasses
  <2>5. QED
    BY <1>1, <2>1, <2>2, <2>3, <2>4 DEF ReadyInv, ReadyType
<1>5. \A d \in Dependency : since'[d] \in Nat /\ since'[d] <= TTL /\ since'[d] <= since[d] + 1
                            /\ (since'[d] < TTL => since[d] < TTL)
  BY <1>2, <1>3 DEF ReadyInv, SeenRecent
<1>6. SeenRecent' /\ Serving' /\ ReadyIsRecent'
  BY <1>1, <1>2, <1>3, <1>5, Zenon DEF ReadyInv, SeenRecent, Serving, ReadyIsRecent
<1>7. PingedRecent'
  <2> SUFFICES ASSUME NEW r \in Request, NEW d \in req'[r].ok
               PROVE  /\ since'[d] <= req'[r].age
                      /\ \A q \in Request :
                           Busy(q)' /\ req'[r].age < TTL + req'[q].age => d \in req'[q].seen
    BY DEF PingedRecent
  <2>1. d \in req[r].ok /\ Busy(r) /\ d \in Dependency /\ req'[r].age = req[r].age + 1
    BY <1>1, <1>2 DEF ReadyInv, Serving
  <2>2. /\ since[d] <= req[r].age
        /\ \A q \in Request : Busy(q) /\ req[r].age < TTL + req[q].age => d \in req[q].seen
    BY <2>1 DEF ReadyInv, PingedRecent
  <2>3. QED
    BY <1>1, <1>2, <1>5, <2>1, <2>2
<1>8. ASSUME NEW ok \in SUBSET Dependency, Supports(ok) PROVE Supports(ok)'
  <2>1. \A d \in ok : since'[d] + snapshot'.left <= TTL
    BY <1>2, <1>3, <1>5, <1>8 DEF Supports
  <2>2. ASSUME NEW q \in Request, Busy(q), snapshot'.left + req'[q].age > 0
        PROVE  snapshot.left + req[q].age > 0
    BY <1>1, <1>2, <1>3, <2>2
  <2>3. QED
    BY <1>1, <1>8, <2>1, <2>2 DEF Supports, Status, Postgres, Redis
<1>9. SnapshotRecent'
  BY <1>1, <1>8 DEF ReadyInv, SnapshotRecent
<1>10. QED
  BY <1>4, <1>6, <1>7, <1>9 DEF ReadyInv

\* An answer "ready" is never older than its cache time, for any number of
\* requests and of Redis servers and for every TTL, timeout and duration of a
\* request: a slow request that overwrites a later answer brings the earlier
\* expiry with it.
THEOREM ReadyAnswersAreRecent == ReadySpec => []ReadyIsRecent
<1>1. ReadyInv /\ [ReadyNext]_readyVars => ReadyInv'
  <2> SUFFICES ASSUME ReadyInv, [ReadyNext]_readyVars PROVE ReadyInv'
    OBVIOUS
  <2>1. CASE UNCHANGED readyVars
    BY <2>1, Zenon DEF readyVars, ReadyInv, ReadyType, SeenRecent, Serving, PingedRecent, SnapshotRecent,
                Supports, ReadyIsRecent, Busy, Status, Postgres, Redis
  <2>2. QED
    BY <2>1, AskKeeps, LookKeeps, PingKeeps, StoreKeeps, DownKeeps, RecoverKeeps, TimeKeeps
       DEF ReadyNext
<1>2. ReadyInv => ReadyIsRecent
  BY DEF ReadyInv
<1>3. QED
  BY <1>1, <1>2, ReadyStarts, PTL DEF ReadySpec

-----------------------------------------------------------------------------
(***************************************************************************)
(* The consumer's offsets.                                                 *)
(***************************************************************************)

\* Every message below an offset was given to Handle or is from before the
\* group's first commit, and the last of them was dispatched or is from then.
Covered(o) ==
    o # NoOffset =>
      /\ \A m \in 0..(o - 1) : m \in handled \cup skipped
      /\ o > 0 => o - 1 \in settled \cup skipped

\* The mark is covered as the committed offset is, also while no session has the
\* partition; and what the session has read is covered up to the message at hand.
ConsumerInv ==
    /\ ConsumerTypeOK
    /\ Covered(committed) /\ Covered(mark)
    /\ msg # NoMessage => up /\ msg = pos - 1 /\ pos > 0
    /\ up => \A m \in 0..(pos - 1) : m \in handled \cup skipped \cup {msg}

\* The invariant holds before the first message.
LEMMA ConsumerStarts == ConsumerInit => ConsumerInv
<1> SUFFICES ASSUME ConsumerInit PROVE ConsumerInv
  OBVIOUS
<1> USE ConsumerAssumption
<1>1. ConsumerTypeOK
  <2>1. log \in 0..MaxMessages /\ sessions \in 0..MaxSessions /\ pos \in 0..log
    BY DEF ConsumerInit
  <2>2. QED
    BY <2>1, Zenon DEF ConsumerInit, ConsumerTypeOK
<1>2. QED
  BY <1>1 DEF ConsumerInit, ConsumerInv, Covered

\* Each step of the topic, the session or the consumer keeps the invariant.
LEMMA ConsumerSteps == ConsumerInv /\ [ConsumerNext]_consumerVars => ConsumerInv'
<1> SUFFICES ASSUME ConsumerInv, [ConsumerNext]_consumerVars PROVE ConsumerInv'
  OBVIOUS
<1> USE ConsumerAssumption
<1>1. CASE SendMessage
  BY <1>1 DEF SendMessage, ConsumerInv, ConsumerTypeOK, Covered, Message
<1>2. CASE Join
  <2>1. ConsumerTypeOK'
    <3>1. skipped' \subseteq Message
      <4>1. 0..(log - 1) \subseteq Message
        BY DEF ConsumerInv, ConsumerTypeOK, Message
      <4>2. QED
        BY <1>2, <4>1 DEF Join, ConsumerInv, ConsumerTypeOK
    <3>2. pos' \in 0..log' /\ log' = log /\ sessions' \in 0..MaxSessions /\ up' = TRUE
      BY <1>2 DEF Join, ConsumerInv, ConsumerTypeOK
    <3>3. QED
      BY <1>2, <3>1, <3>2 DEF Join, ConsumerInv, ConsumerTypeOK
  <2>2. Covered(committed)' /\ mark' = committed'
    BY <1>2 DEF Join, ConsumerInv, Covered
  <2>3. \A m \in 0..(pos' - 1) : m \in handled' \cup skipped'
    BY <1>2 DEF Join, ConsumerInv, ConsumerTypeOK, Covered
  <2>4. msg' = NoMessage
    BY <1>2 DEF Join, ConsumerInv
  <2>5. QED
    BY <2>1, <2>2, <2>3, <2>4 DEF ConsumerInv, Covered
<1>3. CASE Receive
  <2>1. msg' = pos /\ pos' = pos + 1 /\ pos \in Nat /\ pos < log /\ up'
    BY <1>3 DEF Receive, ConsumerInv, ConsumerTypeOK
  <2>2. ConsumerTypeOK'
    BY <1>3, <2>1 DEF Receive, ConsumerInv, ConsumerTypeOK, Message
  <2>3. Covered(committed)' /\ Covered(mark)'
    BY <1>3 DEF Receive, ConsumerInv, Covered
  <2>4. \A m \in 0..(pos' - 1) : m \in handled' \cup skipped' \cup {msg'}
    <3>1. \A m \in 0..(pos - 1) : m \in handled \cup skipped
      BY <1>3 DEF Receive, ConsumerInv, ConsumerTypeOK
    <3>2. QED
      BY <1>3, <2>1, <3>1 DEF Receive
  <2>5. QED
    BY <2>1, <2>2, <2>3, <2>4 DEF ConsumerInv
<1>4. CASE HandleOk
  <2>1. msg \in Nat /\ msg = pos - 1 /\ pos \in Nat /\ pos <= log /\ msg' = NoMessage
    BY <1>4 DEF HandleOk, ConsumerInv, ConsumerTypeOK, Message
  <2>2. ConsumerTypeOK'
    BY <1>4, <2>1 DEF HandleOk, ConsumerInv, ConsumerTypeOK, Message
  <2>3. \A m \in 0..(pos' - 1) : m \in handled' \cup skipped'
    BY <1>4 DEF HandleOk, ConsumerInv
  <2>4. Covered(committed)'
    BY <1>4 DEF HandleOk, ConsumerInv, Covered
  <2>5. Covered(mark)'
    <3>1. mark' = mark \/ mark' = msg + 1
      BY <1>4 DEF HandleOk
    <3>2. CASE mark' = mark
      BY <1>4, <3>2 DEF HandleOk, ConsumerInv, Covered
    <3>3. CASE mark' = msg + 1
      <4>1. mark' - 1 = msg /\ mark' = pos' /\ msg \in settled'
        BY <1>4, <2>1, <3>3 DEF HandleOk
      <4>2. QED
        BY <2>3, <4>1 DEF Covered
    <3>4. QED
      BY <3>1, <3>2, <3>3
  <2>6. QED
    BY <2>1, <2>2, <2>3, <2>4, <2>5 DEF ConsumerInv
<1>5. CASE HandleFull
  <2>1. ConsumerTypeOK'
    BY <1>5 DEF HandleFull, ConsumerInv, ConsumerTypeOK
  <2>2. Covered(committed)' /\ Covered(mark)'
    BY <1>5 DEF HandleFull, ConsumerInv, Covered
  <2>3. \A m \in 0..(pos' - 1) : m \in handled' \cup skipped'
    BY <1>5 DEF HandleFull, ConsumerInv
  <2>4. QED
    BY <1>5, <2>1, <2>2, <2>3 DEF HandleFull, ConsumerInv
<1>6. CASE Commit
  BY <1>6 DEF Commit, ConsumerInv, ConsumerTypeOK, Covered
<1>7. CASE Leave
  BY <1>7, Zenon DEF Leave, ConsumerInv, ConsumerTypeOK, Covered
<1>8. CASE SessionLost
  BY <1>8, Zenon DEF SessionLost, ConsumerInv, ConsumerTypeOK, Covered
<1>9. CASE UNCHANGED consumerVars
  BY <1>9 DEF consumerVars, ConsumerInv, ConsumerTypeOK, Covered
<1>10. QED
  BY <1>1, <1>2, <1>3, <1>4, <1>5, <1>6, <1>7, <1>8, <1>9 DEF ConsumerNext

\* Over any number of sessions, rebalances and crashes, the committed offset of
\* the partition leaves no message behind that ConsumeClaim did not give to
\* Handle, except the ones from before the group's first commit.
THEOREM OffsetsSound == ConsumerSpec => [](ConsumerTypeOK /\ CommittedWasHandled)
<1>1. ConsumerInv => ConsumerTypeOK /\ CommittedWasHandled
  BY DEF ConsumerInv, Covered, CommittedWasHandled
<1>2. QED
  BY ConsumerStarts, ConsumerSteps, <1>1, PTL DEF ConsumerSpec

-----------------------------------------------------------------------------
(***************************************************************************)
(* The lock excludes until a server forgets its keys.                      *)
(*                                                                         *)
(* The argument: a caller counts a server only when it wrote that server's *)
(* key, nobody else deletes the key and it does not expire while the       *)
(* attempt is valid, so a valid lock has a quorum of keys.  Two quorums    *)
(* would need more servers than there are.                                 *)
(***************************************************************************)

\* Inductive: no more servers are counted than the loop has passed.
Counted == \A c \in Client : pc[c] = "set" => acquired[c] < at[c]

\* Types, and the servers a caller has visited.
LockType == TypeOK /\ Counted

\* The inductive invariant.
LockInv == LockType /\ QuorumKept

-----------------------------------------------------------------------------

\* Keys are told apart by their caller and attempt, and from a free key.
LEMMA KeyFacts ==
    ASSUME TypeOK, NEW c \in Client
    PROVE  /\ Value(c) \in Client \X (1..RetryCount)
           /\ Value(c) # Free /\ Value(c) # Gone
           /\ Own(c, Value(c)) /\ ~Own(c, Free) /\ ~Own(c, Gone)
           /\ \A d \in Client : d # c => ~Own(d, Value(c)) /\ Value(d) # Value(c)
BY RedlockAssumption DEF TypeOK, Value, Own

\* A set of servers is finite and no larger than one that includes it.
LEMMA ServerSets ==
    ASSUME NEW S \in SUBSET Node, NEW T \in SUBSET Node, S \subseteq T
    PROVE  /\ IsFiniteSet(S) /\ IsFiniteSet(T)
           /\ Cardinality(S) \in Nat /\ Cardinality(T) \in Nat
           /\ Cardinality(S) <= Cardinality(T)
<1>1. IsFiniteSet(Node)
  BY FS_Interval, RedlockAssumption DEF Node
<1>2. IsFiniteSet(S) /\ IsFiniteSet(T)
  BY <1>1, FS_Subset
<1> QED
  BY <1>2, FS_Subset, FS_CardinalityType

\* Two disjoint sets of servers cannot both be quorums.
LEMMA QuorumsMeet ==
    ASSUME NEW S \in SUBSET Node, NEW T \in SUBSET Node,
           Cardinality(S) >= Quorum, Cardinality(T) >= Quorum
    PROVE  S \cap T # {}
<1>1. SUFFICES ASSUME S \cap T = {} PROVE FALSE
  OBVIOUS
<1>2. Cardinality(Node) = Nodes
  BY FS_Interval, RedlockAssumption DEF Node
<1>3. IsFiniteSet(S) /\ IsFiniteSet(T) /\ Cardinality(S) \in Nat /\ Cardinality(T) \in Nat
  BY ServerSets
<1>4. Cardinality(S \cup T) = Cardinality(S) + Cardinality(T)
  <2>1. Cardinality(S \cup T) = Cardinality(S) + Cardinality(T) - Cardinality(S \cap T)
    BY <1>3, FS_Union
  <2>2. Cardinality(S \cap T) = 0
    BY <1>1, FS_EmptySet
  <2> QED
    BY <1>3, <2>1, <2>2
<1>5. Cardinality(S \cup T) <= Nodes
  <2>1. S \cup T \in SUBSET Node /\ Node \in SUBSET Node
    OBVIOUS
  <2>2. Cardinality(S \cup T) <= Cardinality(Node)
    BY <2>1, ServerSets
  <2> QED
    BY <1>2, <2>2
<1> QED
  BY <1>3, <1>4, <1>5, RedlockAssumption

-----------------------------------------------------------------------------
(***************************************************************************)
(* Types.                                                                  *)
(***************************************************************************)

\* A failure leaves a budget.
LEMMA FaultType ==
    ASSUME TypeOK, NEW k, Fault(k) PROVE faults' \in [left : 0..MaxFaults, forgot : SUBSET Node]
BY RedlockAssumption DEF TypeOK, Fault, CanFail

\* A caller's variables are reset, at the beginning and at the end of an attempt.
LEMMA ResetType ==
    ASSUME LockType, NEW c \in Client, NEW l \in PC, NEW a \in 1..RetryCount,
           pc' = [pc EXCEPT ![c] = l], at' = [at EXCEPT ![c] = 1],
           attempt' = [attempt EXCEPT ![c] = a], acquired' = [acquired EXCEPT ![c] = 0],
           late' = [late EXCEPT ![c] = FALSE],
           key' \in [Node -> {Free, Gone} \cup (Client \X (1..RetryCount))],
           faults' \in [left : 0..MaxFaults, forgot : SUBSET Node]
    PROVE  LockType'
<1>1. 0 \in 0..Nodes /\ 1 \in 1..(Nodes + 1)
  BY RedlockAssumption
<1>2. pc' \in [Client -> PC] /\ attempt' \in [Client -> 1..RetryCount]
  BY DEF LockType, TypeOK
<1>3. at' \in [Client -> 1..(Nodes + 1)] /\ acquired' \in [Client -> 0..Nodes]
  BY <1>1 DEF LockType, TypeOK
<1>4. late' \in [Client -> BOOLEAN]
  BY DEF LockType, TypeOK
<1>5. Counted'
  BY DEF LockType, TypeOK, Counted
<1> QED
  BY <1>2, <1>3, <1>4, <1>5 DEF LockType, TypeOK

\* A caller goes through the servers once more, to delete its keys.
LEMMA RewindType ==
    ASSUME LockType, NEW c \in Client, NEW l \in PC \ {"set"},
           pc' = [pc EXCEPT ![c] = l], at' = [at EXCEPT ![c] = 1],
           UNCHANGED <<key, attempt, acquired, late, faults>>
    PROVE  LockType'
<1>1. 1 \in 1..(Nodes + 1)
  BY RedlockAssumption
<1>2. pc' \in [Client -> PC]
  BY DEF LockType, TypeOK
<1>3. at' \in [Client -> 1..(Nodes + 1)]
  BY <1>1 DEF LockType, TypeOK
<1>4. Counted'
  BY DEF LockType, TypeOK, Counted
<1> QED
  BY <1>2, <1>3, <1>4 DEF LockType, TypeOK

\* Every step keeps the types and counts no server it has not passed.
LEMMA LockTypeStep == LockType /\ [Next]_vars => LockType'
<1> SUFFICES ASSUME LockType, [Next]_vars PROVE LockType'
  OBVIOUS
<1> USE RedlockAssumption DEF LockType, TypeOK, Counted, Node, PC
<1>1. ASSUME NEW c \in Client, Start(c) PROVE LockType'
  <2>1. BeginAttempt(c, 1) /\ "set" \in PC /\ 1 \in 1..RetryCount
    BY <1>1 DEF Start
  <2>2. /\ key' \in [Node -> {Free, Gone} \cup (Client \X (1..RetryCount))]
        /\ faults' \in [left : 0..MaxFaults, forgot : SUBSET Node]
    BY <1>1 DEF Start
  <2> HIDE DEF LockType, TypeOK, Counted, Node, PC
  <2> QED
    BY <2>1, <2>2, ResetType, Zenon DEF BeginAttempt
<1>2. ASSUME NEW c \in Client, SetNX(c) PROVE LockType'
  <2>1. Value(c) \in Client \X (1..RetryCount)
    BY KeyFacts
  <2>2. key' \in [Node -> {Free, Gone} \cup (Client \X (1..RetryCount))]
    <3>1. key' = key \/ key' = [key EXCEPT ![at[c]] = Value(c)]
      BY <1>2 DEF SetNX
    <3> QED
      BY <2>1, <3>1, Zenon
  <2>3. at[c] \in 1..Nodes /\ acquired[c] < at[c]
    BY <1>2 DEF SetNX
  <2>4. acquired' \in [Client -> 0..Nodes] /\ at' \in [Client -> 1..(Nodes + 1)]
    <3>1. acquired' = acquired \/ acquired' = [acquired EXCEPT ![c] = acquired[c] + 1]
      BY <1>2 DEF SetNX
    <3>2. at' = [at EXCEPT ![c] = at[c] + 1]
      BY <1>2 DEF SetNX
    <3>3. acquired[c] + 1 \in 0..Nodes /\ at[c] + 1 \in 1..(Nodes + 1)
      BY <2>3
    <3>4. acquired' \in [Client -> 0..Nodes]
      BY <3>1, <3>3
    <3>5. at' \in [Client -> 1..(Nodes + 1)]
      BY <3>2, <3>3
    <3> QED
      BY <3>4, <3>5
  <2>5. Counted'
    BY <1>2, <2>3 DEF SetNX
  <2> QED
    BY <1>2, <2>2, <2>4, <2>5, Zenon DEF SetNX
<1>3. ASSUME NEW c \in Client, SetNXFails(c) PROVE LockType'
  <2>1. Value(c) \in Client \X (1..RetryCount)
    BY KeyFacts, Zenon
  <2>2. key' \in [Node -> {Free, Gone} \cup (Client \X (1..RetryCount))]
    BY <1>3, <2>1, Zenon DEF SetNXFails
  <2>3. faults' \in [left : 0..MaxFaults, forgot : SUBSET Node]
    BY <1>3, FaultType DEF SetNXFails
  <2>4. at' \in [Client -> 1..(Nodes + 1)] /\ Counted'
    BY <1>3 DEF SetNXFails
  <2> QED
    BY <1>3, <2>2, <2>3, <2>4, Zenon DEF SetNXFails
<1>4. ASSUME NEW c \in Client, Won(c) PROVE LockType'
  BY <1>4 DEF Won
<1>5. ASSUME NEW c \in Client, Lost(c) PROVE LockType'
  BY <1>5, RewindType DEF Lost
<1>6. ASSUME NEW c \in Client, ReleaseNode(c) PROVE LockType'
  <2>1. Deletes(c, at[c]) \in [Node -> {Free, Gone} \cup (Client \X (1..RetryCount))]
    BY Zenon DEF Deletes
  <2>2. key' \in [Node -> {Free, Gone} \cup (Client \X (1..RetryCount))]
    BY <1>6, <2>1 DEF ReleaseNode
  <2>3. faults' \in [left : 0..MaxFaults, forgot : SUBSET Node]
    BY <1>6, FaultType DEF ReleaseNode
  <2>4. at' \in [Client -> 1..(Nodes + 1)] /\ Counted'
    BY <1>6 DEF ReleaseNode
  <2> QED
    BY <1>6, <2>2, <2>3, <2>4, Zenon DEF ReleaseNode
<1>7. ASSUME NEW c \in Client, Retry(c) PROVE LockType'
  <2>1. attempt[c] + 1 \in 1..RetryCount
    BY <1>7 DEF Retry
  <2>2. BeginAttempt(c, attempt[c] + 1) /\ "set" \in PC
    BY <1>7 DEF Retry
  <2>3. /\ key' \in [Node -> {Free, Gone} \cup (Client \X (1..RetryCount))]
        /\ faults' \in [left : 0..MaxFaults, forgot : SUBSET Node]
    BY <1>7 DEF Retry
  <2> HIDE DEF LockType, TypeOK, Counted, Node, PC
  <2> QED
    BY <2>1, <2>2, <2>3, ResetType, Zenon DEF BeginAttempt
<1>8. ASSUME NEW c \in Client, EndCall(c), UNCHANGED faults \/ \E k \in FaultKinds : Fault(k)
      PROVE LockType'
  <2>1. faults' \in [left : 0..MaxFaults, forgot : SUBSET Node]
    BY <1>8, FaultType
  <2>2. key' \in [Node -> {Free, Gone} \cup (Client \X (1..RetryCount))]
    BY <1>8 DEF EndCall
  <2>3. "idle" \in PC /\ 1 \in 1..RetryCount
    OBVIOUS
  <2> HIDE DEF LockType, TypeOK, Counted, Node, PC
  <2> QED
    BY <1>8, <2>1, <2>2, <2>3, ResetType, Zenon DEF EndCall
<1>9. ASSUME NEW c \in Client, GiveUp(c) \/ Released(c) \/ Crash(c) PROVE LockType'
  BY <1>8, <1>9, Zenon DEF GiveUp, Released, Crash, Fault, CanFail
<1>10. ASSUME NEW c \in Client, Release(c) PROVE LockType'
  BY <1>10, RewindType DEF Release
<1>11. ASSUME NEW c \in Client, Late(c) PROVE LockType'
  BY <1>11, Zenon DEF Late
<1>12. ASSUME NEW n \in Node, Expires(n) \/ Forget(n) PROVE LockType'
  <2>1. faults' \in [left : 0..MaxFaults, forgot : SUBSET Node]
    BY <1>12 DEF Expires, Forget, CanFail
  <2> QED
    BY <1>12, <2>1 DEF Expires, Forget
<1>13. CASE UNCHANGED vars
  BY <1>13 DEF vars
<1> QED
  BY <1>1, <1>2, <1>3, <1>4, <1>5, <1>6, <1>7, <1>9, <1>10, <1>11, <1>12, <1>13, Zenon
  DEF Next, ClientStep

-----------------------------------------------------------------------------
(***************************************************************************)
(* The quorum.                                                             *)
(***************************************************************************)

\* One step of the callers or servers takes no key from a valid attempt.
SafeStep ==
    \A c \in Client, n \in Node :
      /\ pc[c] \in {"set", "held"} /\ pc'[c] # "idle" /\ ~late[c]
      /\ key[n] = Value(c) /\ n \notin faults'.forgot
      => key'[n] = key[n]

\* No server's memory comes back.
LEMMA ForgotGrows == LockType /\ [Next]_vars => faults.forgot \subseteq faults'.forgot
<1> SUFFICES ASSUME LockType, [Next]_vars PROVE faults.forgot \subseteq faults'.forgot
  OBVIOUS
<1> USE DEF LockType, TypeOK
<1>1. ASSUME NEW k, Fault(k) PROVE faults'.forgot = faults.forgot
  BY <1>1 DEF Fault
<1>2. ASSUME NEW n \in Node, Forget(n) PROVE faults.forgot \subseteq faults'.forgot
  BY <1>2 DEF Forget
<1>3. ASSUME NEW c \in Client, ClientStep(c) PROVE faults.forgot \subseteq faults'.forgot
  BY <1>1, <1>3 DEF ClientStep, SetNX, SetNXFails, Won, Lost, ReleaseNode, Retry, GiveUp, Released
<1> QED
  BY <1>1, <1>2, <1>3 DEF Next, Start, Release, Late, Crash, Expires, vars

\* No step takes a key from a caller that is collecting keys or holds a valid lock.
LEMMA KeysSafe == LockType /\ [Next]_vars => SafeStep
<1> SUFFICES ASSUME LockType, [Next]_vars,
                    NEW c \in Client, NEW n \in Node,
                    pc[c] \in {"set", "held"}, pc'[c] # "idle", ~late[c],
                    key[n] = Value(c), n \notin faults'.forgot
             PROVE  key'[n] = key[n]
  BY DEF SafeStep
<1> USE DEF LockType, TypeOK
<1>1. /\ Value(c) # Free /\ Value(c) # Gone
      /\ \A d \in Client : d # c => ~Own(d, Value(c)) /\ Value(d) # Value(c)
  BY KeyFacts
<1>2. ASSUME NEW d \in Client, SetNX(d) \/ SetNXFails(d) PROVE key'[n] = key[n]
  BY <1>1, <1>2 DEF SetNX, SetNXFails
<1>3. ASSUME NEW d \in Client, ReleaseNode(d) PROVE key'[n] = key[n]
  BY <1>1, <1>3 DEF ReleaseNode, Deletes
<1>4. ASSUME NEW d \in Client, EndCall(d) PROVE key'[n] = key[n]
  BY <1>1, <1>4, Zenon DEF EndCall
<1>5. ASSUME NEW m \in Node, Expires(m) PROVE key'[n] = key[n]
  <2>1. ~Expirable(key[n])
    BY <1>1 DEF Expirable
  <2> QED
    BY <1>5, <2>1 DEF Expires
<1>6. ASSUME NEW m \in Node, Forget(m) PROVE key'[n] = key[n]
  BY <1>6 DEF Forget
<1> QED
  BY <1>2, <1>3, <1>4, <1>5, <1>6
  DEF Next, ClientStep, Start, Won, Lost, Retry, GiveUp, Release, Released, Late, Crash, vars

\* A caller that stays in the same attempt keeps its keys, counted.
LEMMA KeepsKeys ==
    ASSUME LockType, LockType', SafeStep, NEW c \in Client,
           pc[c] \in {"set", "held"}, pc'[c] # "idle", ~late[c],
           attempt'[c] = attempt[c], faults'.forgot = {}
    PROVE  /\ Keys(c) \subseteq Keys(c)'
           /\ Cardinality(Keys(c)) \in Nat /\ Cardinality(Keys(c)') \in Nat
           /\ Cardinality(Keys(c)) <= Cardinality(Keys(c)')
<1>1. Keys(c) \in SUBSET Node /\ Keys(c)' \in SUBSET Node
  BY DEF Keys, Node
<1>2. Keys(c) \subseteq Keys(c)'
  BY Zenon DEF Keys, Value, SafeStep, Node
<1> QED
  BY <1>1, <1>2, ServerSets

\* A key that is written and counted is one more than before.
LEMMA CountsNewKey ==
    ASSUME LockType, LockType', SafeStep, NEW c \in Client, SetNX(c), ~late[c],
           key[at[c]] = Free, faults'.forgot = {}, Cardinality(Keys(c)) >= acquired[c]
    PROVE  Cardinality(Keys(c)') >= acquired[c]'
<1> DEFINE n == at[c]
<1>1. n \in Node /\ key'[n] = Value(c) /\ attempt' = attempt /\ acquired'[c] = acquired[c] + 1
  BY DEF SetNX, LockType, TypeOK
<1>2. Value(c) # Free
  BY KeyFacts DEF LockType
<1>3. n \notin Keys(c)
  BY <1>2 DEF Keys
<1>4. Keys(c) \cup {n} \subseteq Keys(c)' /\ Keys(c) \cup {n} \in SUBSET Node /\ Keys(c)' \in SUBSET Node
  <2>1. Keys(c) \subseteq Keys(c)'
    BY KeepsKeys DEF SetNX, LockType, TypeOK
  <2>2. n \in Keys(c)'
    BY <1>1 DEF Keys, Value, Node
  <2> QED
    BY <1>1, <2>1, <2>2 DEF Keys, Node
<1>5. IsFiniteSet(Keys(c)) /\ Cardinality(Keys(c)) \in Nat
  BY <1>4, ServerSets DEF Keys
<1>6. Cardinality(Keys(c) \cup {n}) = Cardinality(Keys(c)) + 1
  BY <1>3, <1>5, FS_AddElement, Zenon
<1>7. Cardinality(Keys(c)') \in Nat /\ Cardinality(Keys(c) \cup {n}) <= Cardinality(Keys(c)')
  BY <1>4, ServerSets
<1>8. acquired[c] \in Nat
  BY DEF LockType, TypeOK
<1> HIDE DEF n
<1> QED
  BY <1>1, <1>5, <1>6, <1>7, <1>8

\* Every step keeps the quorum of every valid lock.
LEMMA QuorumStep ==
    ASSUME LockInv, LockType', [Next]_vars PROVE QuorumKept'
<1> DEFINE Q(c) == /\ pc[c] = "set" /\ ~late[c] => Cardinality(Keys(c)) >= acquired[c]
                   /\ Valid(c) => Cardinality(Keys(c)) >= Quorum
<1>1. SUFFICES ASSUME faults'.forgot = {}, NEW c \in Client PROVE Q(c)'
  BY DEF QuorumKept
<1>2. Q(c) /\ LockType
  BY <1>1, ForgotGrows DEF LockInv, QuorumKept
<1>3. SafeStep
  BY <1>2, KeysSafe
<1>4. Quorum \in Nat /\ acquired[c] \in Nat /\ pc[c] \in PC
  BY <1>2, RedlockAssumption DEF LockType, TypeOK
\* A step that leaves the caller where it is, or moves it out of its attempt.
<1>5. ASSUME pc'[c] = pc[c], attempt'[c] = attempt[c], acquired'[c] = acquired[c],
             ~late'[c] => ~late[c]
      PROVE  Q(c)'
  <2>1. CASE pc[c] \in {"set", "held"} /\ ~late[c]
    <3>1. Cardinality(Keys(c)) \in Nat /\ Cardinality(Keys(c)') \in Nat
          /\ Cardinality(Keys(c)) <= Cardinality(Keys(c)')
      BY <1>1, <1>2, <1>3, <1>5, <2>1, KeepsKeys
    <3> QED
      BY <1>2, <1>4, <1>5, <3>1 DEF Valid
  <2>2. CASE ~(pc[c] \in {"set", "held"} /\ ~late[c])
    BY <1>5, <2>2 DEF Valid
  <2> QED
    BY <2>1, <2>2
<1>6. ASSUME pc'[c] \notin {"set", "held"} PROVE Q(c)'
  BY <1>6 DEF Valid
\* The first step of an attempt has counted nothing.
<1>7. ASSUME BeginAttempt(c, attempt'[c]) PROVE Q(c)'
  <2>1. acquired'[c] = 0 /\ pc'[c] = "set"
    BY <1>2, <1>7 DEF BeginAttempt, LockType, TypeOK
  <2>2. Keys(c)' \in SUBSET Node
    BY DEF Keys, Node
  <2>3. Cardinality(Keys(c)') \in Nat
    BY <2>2, ServerSets
  <2> QED
    BY <2>1, <2>3 DEF Valid
<1>8. ASSUME NEW d \in Client, Start(d) \/ Retry(d) PROVE Q(c)'
  <2>1. CASE d = c
    <3>1. BeginAttempt(c, attempt'[c])
      BY <1>2, <1>8, <2>1 DEF Start, Retry, BeginAttempt, LockType, TypeOK
    <3> QED
      BY <1>7, <3>1
  <2>2. CASE d # c
    <3>1. pc'[c] = pc[c] /\ attempt'[c] = attempt[c] /\ acquired'[c] = acquired[c]
          /\ late'[c] = late[c]
      BY <1>2, <1>8, <2>2 DEF Start, Retry, BeginAttempt, LockType, TypeOK
    <3> QED
      BY <1>5, <3>1
  <2> QED
    BY <2>1, <2>2
<1>9. ASSUME NEW d \in Client, SetNX(d) PROVE Q(c)'
  <2>1. CASE d = c /\ key[at[c]] = Free
    <3>1. pc[c] = "set" /\ pc'[c] = "set" /\ late'[c] = late[c]
      BY <1>9, <2>1 DEF SetNX
    <3>2. CASE ~late[c]
      <4>1. Cardinality(Keys(c)') >= acquired[c]'
        BY <1>1, <1>2, <1>3, <1>9, <2>1, <3>1, <3>2, CountsNewKey
      <4> QED
        BY <3>1, <4>1 DEF Valid
    <3> QED
      BY <3>1, <3>2 DEF Valid
  <2>2. CASE ~(d = c /\ key[at[c]] = Free)
    <3>1. pc'[c] = pc[c] /\ attempt'[c] = attempt[c] /\ acquired'[c] = acquired[c]
          /\ late'[c] = late[c]
      BY <1>2, <1>9, <2>2 DEF SetNX, LockType, TypeOK
    <3> QED
      BY <1>5, <3>1
  <2> QED
    BY <2>1, <2>2, Zenon
<1>10. ASSUME NEW d \in Client, SetNXFails(d) \/ ReleaseNode(d) PROVE Q(c)'
  BY <1>5, <1>10 DEF SetNXFails, ReleaseNode
<1>11. ASSUME NEW d \in Client, Won(d) PROVE Q(c)'
  <2>1. CASE d = c
    <3>1. /\ pc[c] = "set" /\ pc'[c] = "held" /\ ~late[c] /\ acquired[c] >= Quorum
          /\ attempt' = attempt
      BY <1>2, <1>11, <2>1 DEF Won, Wins, LockType, TypeOK
    <3>2. Cardinality(Keys(c)) \in Nat /\ Cardinality(Keys(c)') \in Nat
          /\ Cardinality(Keys(c)) <= Cardinality(Keys(c)')
      BY <1>1, <1>2, <1>3, <3>1, KeepsKeys
    <3> QED
      BY <1>2, <1>4, <3>1, <3>2
  <2>2. CASE d # c
    BY <1>2, <1>5, <1>11, <2>2 DEF Won, LockType, TypeOK
  <2> QED
    BY <2>1, <2>2
<1>12. ASSUME NEW d \in Client, Lost(d) \/ Release(d) \/ EndCall(d) PROVE Q(c)'
  <2>1. CASE d = c
    BY <1>2, <1>6, <1>12, <2>1 DEF Lost, Release, EndCall, LockType, TypeOK
  <2>2. CASE d # c
    BY <1>2, <1>5, <1>12, <2>2 DEF Lost, Release, EndCall, LockType, TypeOK
  <2> QED
    BY <2>1, <2>2
<1>13. ASSUME NEW d \in Client, Late(d) PROVE Q(c)'
  BY <1>2, <1>5, <1>13 DEF Late, LockType, TypeOK
<1>14. ASSUME NEW n \in Node, Expires(n) \/ Forget(n) PROVE Q(c)'
  BY <1>5, <1>14 DEF Expires, Forget
<1>15. CASE UNCHANGED vars
  BY <1>5, <1>15 DEF vars
<1> HIDE DEF Q
<1> QED
  BY <1>8, <1>9, <1>10, <1>11, <1>12, <1>13, <1>14, <1>15
  DEF Next, ClientStep, GiveUp, Released, Crash

\* Initially nobody has anything.
LEMMA LockInit == Init => LockInv
<1> SUFFICES ASSUME Init PROVE LockInv
  OBVIOUS
<1>1. LockType
  BY RedlockAssumption DEF Init, LockType, TypeOK, Counted, PC, Node
<1>2. QuorumKept
  BY DEF Init, QuorumKept, Valid
<1> QED
  BY <1>1, <1>2 DEF LockInv

\* Valid locks are backed by quorums, and quorums meet.
LEMMA QuorumsExclude == LockInv => MutualExclusion
<1> SUFFICES ASSUME LockInv, faults.forgot = {}, NEW c \in Client, NEW d \in Client,
                    Valid(c), Valid(d), c # d
             PROVE  FALSE
  BY DEF MutualExclusion
<1>1. Keys(c) \in SUBSET Node /\ Keys(d) \in SUBSET Node
  BY DEF Keys
<1>2. Cardinality(Keys(c)) >= Quorum /\ Cardinality(Keys(d)) >= Quorum
  BY DEF LockInv, QuorumKept
<1>3. PICK n \in Node : n \in Keys(c) /\ n \in Keys(d)
  BY <1>1, <1>2, QuorumsMeet
<1>4. Value(c) # Value(d)
  BY KeyFacts DEF LockInv, LockType
<1> QED
  BY <1>3, <1>4 DEF Keys

-----------------------------------------------------------------------------

\* Until a server forgets its keys, a valid lock keeps its quorum, and two
\* callers never both hold a valid lock, whatever calls to the servers fail and
\* whoever crashes.
THEOREM LockExcludes == Spec => [](TypeOK /\ QuorumKept /\ MutualExclusion)
<1>1. LockInv /\ [Next]_vars => LockInv'
  BY LockTypeStep, QuorumStep DEF LockInv
<1>2. LockInv => TypeOK /\ QuorumKept /\ MutualExclusion
  BY QuorumsExclude DEF LockInv, LockType
<1> QED
  BY LockInit, <1>1, <1>2, PTL DEF Spec

\* No release and no expiry takes a key from a valid attempt of another caller.
THEOREM KeysStaySafe == Spec => KeysAreSafe
<1>1. Init => LockType
  BY LockInit DEF LockInv
<1>2. LockType /\ [Next]_vars => [SafeStep]_vars
  BY KeysSafe
<1> QED
  BY <1>1, <1>2, LockTypeStep, PTL DEF Spec, KeysAreSafe, SafeStep

\* A lock that becomes valid does not end another caller's: only Won makes one
\* valid, and it moves its own caller alone.
LEMMA WonAlone ==
    ASSUME LockType, [Next]_vars, NEW c \in Client, NEW d \in Client,
           Valid(c), ~Valid(d), Valid(d)'
    PROVE  Valid(c)'
<1> USE DEF LockType, TypeOK, Valid
<1>1. c # d
  OBVIOUS
<1>2. ASSUME NEW e \in Client, Start(e) \/ Retry(e) PROVE FALSE
  BY <1>2 DEF Start, Retry, BeginAttempt
<1>3. ASSUME NEW e \in Client, SetNX(e) \/ SetNXFails(e) \/ ReleaseNode(e) PROVE FALSE
  BY <1>3 DEF SetNX, SetNXFails, ReleaseNode
<1>4. ASSUME NEW e \in Client, Lost(e) \/ Release(e) \/ EndCall(e) PROVE FALSE
  BY <1>4 DEF Lost, Release, EndCall
<1>5. ASSUME NEW e \in Client, Late(e) PROVE FALSE
  BY <1>5 DEF Late
<1>6. ASSUME NEW n \in Node, Expires(n) \/ Forget(n) PROVE FALSE
  BY <1>6 DEF Expires, Forget
<1>7. ASSUME NEW e \in Client, Won(e) PROVE Valid(c)'
  BY <1>1, <1>7 DEF Won
<1>8. CASE UNCHANGED vars
  BY <1>8 DEF vars
<1> HIDE DEF LockType, TypeOK, Valid
<1> QED
  BY <1>2, <1>3, <1>4, <1>5, <1>6, <1>7, <1>8, Zenon DEF Next, ClientStep, GiveUp, Released, Crash

\* The holder is a caller whose lock is valid, or nobody when none is.
LEMMA HolderFacts ==
    /\ Holder = Nobody \/ (Holder \in Client /\ Valid(Holder))
    /\ Holder = Nobody => \A c \in Client : ~Valid(c)
BY RedlockAssumption DEF Holder

\* The same in the next state.
LEMMA NextHolderFacts ==
    \/ Holder' = Nobody
    \/ \E d \in Client : Holder' = d /\ Valid(d)'
BY RedlockAssumption DEF Holder

\* Every step is a step of the abstract lock, or leaves its holder alone: the
\* lock does not pass from one caller to another without having ended.
LEMMA LockStep ==
    ASSUME LockInv, LockInv', [Next]_vars
    PROVE  [faults'.forgot = {} => Lock!Next]_Holder
<1>1. SUFFICES ASSUME faults'.forgot = {}, Holder' # Holder PROVE Lock!Next
  OBVIOUS
<1>2. MutualExclusion /\ MutualExclusion' /\ LockType
  <2>1. MutualExclusion'
    BY QuorumsExclude, PTL
  <2> QED
    BY <2>1, QuorumsExclude DEF LockInv
<1>3. faults.forgot = {}
  BY <1>1, <1>2, ForgotGrows
<1>4. CASE Holder = Nobody
  <2>1. PICK d \in Client : Holder' = d
    BY <1>1, <1>4, NextHolderFacts
  <2>2. Lock!Acquire(d)
    BY <1>4, <2>1 DEF Lock!Acquire
  <2> QED
    BY <2>2 DEF Lock!Next
<1>5. CASE Holder # Nobody
  <2>1. PICK c \in Client : Holder = c /\ Valid(c)
    BY <1>5, HolderFacts
  <2>2. Holder' = Nobody
    <3>1. SUFFICES ASSUME NEW d \in Client, Holder' = d, Valid(d)' PROVE FALSE
      BY NextHolderFacts
    <3>2. c # d
      BY <1>1, <2>1, <3>1
    <3>3. ~Valid(d)
      BY <1>2, <1>3, <2>1, <3>2 DEF MutualExclusion
    <3>4. Valid(c)'
      BY <1>2, <2>1, <3>1, <3>3, WonAlone
    <3> QED
      BY <1>1, <1>2, <3>1, <3>2, <3>4 DEF MutualExclusion
  <2>3. Lock!End(c)
    BY <2>1, <2>2 DEF Lock!End
  <2> QED
    BY <2>3 DEF Lock!Next
<1> QED
  BY <1>4, <1>5

\* Until a server forgets its keys, the quorum protocol implements the lock of
\* ExecutionLock: one holder at a time, and a new one only after the last one
\* released it, crashed or let its validity run out.
THEOREM LockIsImplemented == Spec => ImplementsLock
<1>1. LockInv /\ [Next]_vars => LockInv'
  BY LockTypeStep, QuorumStep DEF LockInv
<1>2. Init => Lock!Init
  <2> SUFFICES ASSUME Init PROVE Lock!Init
    OBVIOUS
  <2>1. \A c \in Client : ~Valid(c)
    BY DEF Init, Valid
  <2> QED
    BY <2>1 DEF Lock!Init, Holder
<1>3. LockInv /\ LockInv' /\ [Next]_vars => [faults'.forgot = {} => Lock!Next]_Holder
  BY LockStep
<1> QED
  BY LockInit, <1>1, <1>2, <1>3, PTL DEF Spec, ImplementsLock

=============================================================================
