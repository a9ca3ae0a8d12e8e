------------------------- MODULE ConduitTokenProofs -------------------------
(***************************************************************************)
(* Where the lease tokens of Conduit are.  A claim is in one place at a    *)
(* time because most steps only make copies disappear and the others move   *)
(* or make one; a token stays with one row, a claim that is being recorded *)
(* is on no row yet, and a transition that was checked stays allowed,      *)
(* because of the moves of ConduitMoveProofs.  Without crashes, shutdowns  *)
(* and failing statements, a failed run is on its way to the next one and  *)
(* a success is recorded.                                                  *)
(***************************************************************************)
EXTENDS ConduitMoveProofs

(***************************************************************************)
(* One holder for each token.                                              *)
(***************************************************************************)

\* The copies of claimed jobs stay where they are or disappear, and keep their
\* job and token.
CopiesShrink ==
    /\ \A w \in Worker :
         cur'[w] # NoJob => /\ cur[w] # NoJob
                            /\ cur'[w].id = cur[w].id /\ cur'[w].token = cur[w].token
    /\ \A i \in Instance :
         /\ rcur'[i] # NoJob => rcur'[i] = rcur[i]
         /\ \A n \in DOMAIN queue'[i] : queue'[i][n].token \in Token =>
              n \in DOMAIN queue[i] /\ queue'[i][n] = queue[i][n]

\* Fewer copies: still one holder for each token.
LEMMA HoldersShrink == TypeOK /\ OneHolder /\ CopiesShrink => OneHolder'
<1> SUFFICES ASSUME TypeOK, OneHolder, CopiesShrink, NEW t \in Token
             PROVE  /\ \A w, v \in Worker : Uses(cur[w], t)' /\ Uses(cur[v], t)' => w = v
                    /\ \A i, k \in Instance : Uses(rcur[i], t)' /\ Uses(rcur[k], t)' => i = k
                    /\ \A i, k \in Instance : \A m \in DOMAIN queue'[i], n \in DOMAIN queue'[k] :
                         queue'[i][m].token = t /\ queue'[k][n].token = t => i = k /\ m = n
                    /\ \A w \in Worker, i \in Instance : Uses(cur[w], t)' =>
                         /\ ~Uses(rcur[i], t)'
                         /\ \A n \in DOMAIN queue'[i] : queue'[i][n].token # t
                    /\ \A i, k \in Instance : Uses(rcur[i], t)' =>
                         \A n \in DOMAIN queue'[k] : queue'[k][n].token # t
  BY DEF OneHolder
<1>1. \A w \in Worker : Uses(cur[w], t)' => Uses(cur[w], t)
  BY DEF CopiesShrink, Uses
<1>2. \A i \in Instance : Uses(rcur[i], t)' => Uses(rcur[i], t)
  BY DEF CopiesShrink, Uses
<1>3. \A i \in Instance : \A n \in DOMAIN queue'[i] : queue'[i][n].token = t =>
        n \in DOMAIN queue[i] /\ queue'[i][n] = queue[i][n]
  BY DEF CopiesShrink
<1>4. QED
  BY <1>1, <1>2, <1>3 DEF OneHolder

\* A reconciler gets a copy with a fresh token.
LEMMA ClaimHolder ==
    ASSUME TypeOK, ClaimInv, NEW s \in Instance, Claim(s)
    PROVE  OneHolder'
<1> TableType /\ ReconcilerType
  BY DEF TypeOK
<1>1. PICK j \in Job, t \in Token :
        /\ Fresh(t)
        /\ rcur' = rcur \/ rcur' = [rcur EXCEPT ![s] = CopyOf(j, ClaimRow(rows[j], t))]
  BY DEF Claim
<1>2. CopyOf(j, ClaimRow(rows[j], t)).token = t
  BY ClaimFields DEF CopyOf, TableType
<1>3. UNCHANGED <<cur, queue>>
  BY DEF Claim, workerVars
<1>4. /\ \A w \in Worker : ~Uses(cur[w], t)
      /\ \A i \in Instance : ~Uses(rcur[i], t)
      /\ \A i \in Instance : \A n \in DOMAIN queue[i] : queue[i][n].token # t
  BY <1>1 DEF Fresh, Uses
<1>5. \A i \in Instance : \A u : Uses(rcur[i], u)' => Uses(rcur[i], u) \/ (i = s /\ u = t)
  BY <1>1, <1>2 DEF Uses, ReconcilerType
<1>6. QED
  <2> SUFFICES ASSUME NEW u \in Token
               PROVE  /\ \A w, v \in Worker : Uses(cur[w], u) /\ Uses(cur[v], u) => w = v
                      /\ \A i, k \in Instance : Uses(rcur[i], u)' /\ Uses(rcur[k], u)' => i = k
                      /\ \A i, k \in Instance : \A m \in DOMAIN queue[i], n \in DOMAIN queue[k] :
                           queue[i][m].token = u /\ queue[k][n].token = u => i = k /\ m = n
                      /\ \A w \in Worker, i \in Instance : Uses(cur[w], u) =>
                           /\ ~Uses(rcur[i], u)'
                           /\ \A n \in DOMAIN queue[i] : queue[i][n].token # u
                      /\ \A i, k \in Instance : Uses(rcur[i], u)' =>
                           \A n \in DOMAIN queue[k] : queue[k][n].token # u
    BY <1>3 DEF OneHolder, Uses
  <2>1. CASE u = t
    BY <1>4, <1>5, <2>1
  <2>2. CASE u # t
    BY <1>5, <2>2, Zenon DEF OneHolder, ClaimInv
  <2>3. QED
    BY <2>1, <2>2

\* The reconciler's claim moves to the end of its instance's queue.
LEMMA SubmitHolder ==
    ASSUME TypeOK, ClaimInv, NEW s \in Instance, Submit(s)
    PROVE  OneHolder'
<1> TableType /\ WorkerType /\ ReconcilerType /\ QueueType
  BY DEF TypeOK
<1> DEFINE c == rcur[s]
<1>1. c \in Copy /\ c # NoJob
  BY DEF Submit, ReconcilerType
<1>2. /\ queue' = [queue EXCEPT ![s] = Append(queue[s], c)]
      /\ rcur' = [rcur EXCEPT ![s] = NoJob]
      /\ UNCHANGED <<rows, cancel, pc, cur>>
  BY DEF Submit, workerVars
<1>3. /\ \A n \in DOMAIN Append(queue[s], c) :
           \/ n \in DOMAIN queue[s] /\ Append(queue[s], c)[n] = queue[s][n]
           \/ n = Len(queue[s]) + 1 /\ Append(queue[s], c)[n] = c
      /\ Len(queue[s]) + 1 \notin DOMAIN queue[s]
  BY <1>1, AppendEntries DEF QueueType
<1> HIDE DEF c
<1>4. \A i \in Instance : \A n \in DOMAIN queue'[i] :
        \/ n \in DOMAIN queue[i] /\ queue'[i][n] = queue[i][n]
        \/ i = s /\ n = Len(queue[s]) + 1 /\ queue'[i][n] = c
  BY <1>2, <1>3 DEF QueueType
<1>5. \A i \in Instance : \A u : Uses(rcur[i], u)' => i # s /\ Uses(rcur[i], u) /\ rcur'[i] = rcur[i]
  BY <1>2 DEF Uses, ReconcilerType
<1>6. \A u : c.token = u => Uses(rcur[s], u)
  BY <1>1 DEF Uses, c
<1>7. QED
  <2> SUFFICES ASSUME NEW u \in Token
               PROVE  /\ \A w, v \in Worker : Uses(cur[w], u) /\ Uses(cur[v], u) => w = v
                      /\ \A i, k \in Instance : Uses(rcur[i], u)' /\ Uses(rcur[k], u)' => i = k
                      /\ \A i, k \in Instance : \A m \in DOMAIN queue'[i], n \in DOMAIN queue'[k] :
                           queue'[i][m].token = u /\ queue'[k][n].token = u => i = k /\ m = n
                      /\ \A w \in Worker, i \in Instance : Uses(cur[w], u) =>
                           /\ ~Uses(rcur[i], u)'
                           /\ \A n \in DOMAIN queue'[i] : queue'[i][n].token # u
                      /\ \A i, k \in Instance : Uses(rcur[i], u)' =>
                           \A n \in DOMAIN queue'[k] : queue'[k][n].token # u
    BY <1>2 DEF OneHolder, Uses
  <2>1. CASE c.token = u
    <3>1. /\ Uses(rcur[s], u)
          /\ \A w \in Worker : ~Uses(cur[w], u)
          /\ \A i \in Instance : Uses(rcur[i], u) => i = s
          /\ \A i \in Instance : \A n \in DOMAIN queue[i] : queue[i][n].token # u
      BY <1>6, <2>1 DEF ClaimInv, OneHolder
    <3>2. \A i \in Instance : ~Uses(rcur[i], u)'
      BY <1>5, <3>1
    <3>3. \A i \in Instance : \A n \in DOMAIN queue'[i] : queue'[i][n].token = u =>
            i = s /\ n = Len(queue[s]) + 1
      BY <1>4, <3>1
    <3>4. QED
      BY <3>1, <3>2, <3>3
  <2>2. CASE c.token # u
    <3>1. \A i \in Instance : \A n \in DOMAIN queue'[i] : queue'[i][n].token = u =>
            n \in DOMAIN queue[i] /\ queue'[i][n] = queue[i][n]
      BY <1>4, <2>2
    <3>2. \A i \in Instance : Uses(rcur[i], u)' => Uses(rcur[i], u)
      BY <1>5
    <3>3. QED
      BY <3>1, <3>2 DEF ClaimInv, OneHolder
  <2>3. QED
    BY <2>1, <2>2

\* The first job of a queue moves to a free worker.
LEMMA TakeHolder ==
    ASSUME TypeOK, ClaimInv, NEW x \in Worker, Take(x)
    PROVE  OneHolder'
<1> TableType /\ WorkerType /\ ReconcilerType /\ QueueType
  BY DEF TypeOK
<1> DEFINE s == Home[x]
           q == queue[s]
<1>1. s \in Instance /\ q \in Seq(Copy) /\ q # << >> /\ cur[x] = NoJob
  BY ConduitAssumption DEF Take, QueueType, WorkerType
<1>2. /\ pc' = [pc EXCEPT ![x] = "start"]
      /\ cur' = [cur EXCEPT ![x] = Head(q)]
      /\ queue' = [queue EXCEPT ![s] = Tail(q)]
      /\ UNCHANGED <<rows, cancel, rcur>>
  BY DEF Take, recVars
<1>3. Head(q) \in Copy /\ Head(q) = q[1] /\ 1 \in DOMAIN q
  BY <1>1, TailFacts
<1>4. \A n \in DOMAIN Tail(q) : n \in Nat \ {0} /\ n + 1 \in DOMAIN q /\ Tail(q)[n] = q[n + 1]
  BY <1>1, TailFacts
<1> DEFINE c == Head(q)
<1>5. c # NoJob
  BY <1>3, CopyIsJob
<1> HIDE DEF s
<1> DEFINE from(i, n) == IF i = s THEN n + 1 ELSE n
<1>6. \A i \in Instance : \A n \in DOMAIN queue'[i] :
        from(i, n) \in DOMAIN queue[i] /\ queue'[i][n] = queue[i][from(i, n)]
  BY <1>1, <1>2, <1>4 DEF QueueType
<1>7. \A i \in Instance : \A n, m \in DOMAIN queue'[i] : from(i, n) = from(i, m) => n = m
  BY <1>1, <1>2, <1>4 DEF QueueType
<1>8. \A n \in DOMAIN queue'[s] : from(s, n) # 1
  BY <1>1, <1>2, <1>4 DEF QueueType
<1> HIDE DEF from, c
<1>9. \A w \in Worker : \A u : Uses(cur[w], u)' =>
        \/ w = x /\ c.token = u
        \/ w # x /\ Uses(cur[w], u) /\ cur'[w] = cur[w]
  BY <1>2 DEF Uses, WorkerType, c
<1>10. s \in Instance /\ 1 \in DOMAIN queue[s] /\ queue[s][1] = c /\ cur'[x] = c
  BY <1>1, <1>2, <1>3 DEF c, WorkerType
<1>11. QED
  <2>0. rcur' = rcur
    BY <1>2
  <2> SUFFICES ASSUME NEW u \in Token
               PROVE  /\ \A w, v \in Worker : Uses(cur[w], u)' /\ Uses(cur[v], u)' => w = v
                      /\ \A i, k \in Instance : Uses(rcur[i], u) /\ Uses(rcur[k], u) => i = k
                      /\ \A i, k \in Instance : \A m \in DOMAIN queue'[i], n \in DOMAIN queue'[k] :
                           queue'[i][m].token = u /\ queue'[k][n].token = u => i = k /\ m = n
                      /\ \A w \in Worker, i \in Instance : Uses(cur[w], u)' =>
                           /\ ~Uses(rcur[i], u)
                           /\ \A n \in DOMAIN queue'[i] : queue'[i][n].token # u
                      /\ \A i, k \in Instance : Uses(rcur[i], u) =>
                           \A n \in DOMAIN queue'[k] : queue'[k][n].token # u
    BY <2>0 DEF OneHolder, Uses
  <2>1. /\ \A i, k \in Instance : Uses(rcur[i], u) /\ Uses(rcur[k], u) => i = k
        /\ \A i, k \in Instance : Uses(rcur[i], u) =>
             \A n \in DOMAIN queue[k] : queue[k][n].token # u
        /\ \A i, k \in Instance : \A m \in DOMAIN queue[i], n \in DOMAIN queue[k] :
             queue[i][m].token = u /\ queue[k][n].token = u => i = k /\ m = n
    BY DEF ClaimInv, OneHolder
  <2>2. \A i, k \in Instance : \A m \in DOMAIN queue'[i], n \in DOMAIN queue'[k] :
          queue'[i][m].token = u /\ queue'[k][n].token = u => i = k /\ m = n
    BY <1>6, <1>7, <2>1
  <2>3. \A i, k \in Instance : Uses(rcur[i], u) =>
          \A n \in DOMAIN queue'[k] : queue'[k][n].token # u
    BY <1>6, <2>1
  <2>4. CASE c.token = u
    <3>1. /\ \A w \in Worker : ~Uses(cur[w], u)
          /\ \A i \in Instance : ~Uses(rcur[i], u)
          /\ \A i \in Instance : \A n \in DOMAIN queue[i] :
               queue[i][n].token = u => i = s /\ n = 1
      BY <1>10, <2>4 DEF ClaimInv, OneHolder
    <3>2. \A i \in Instance : \A n \in DOMAIN queue'[i] : queue'[i][n].token # u
      BY <1>6, <1>8, <3>1
    <3>3. QED
      BY <1>9, <2>1, <2>2, <2>3, <3>1, <3>2
  <2>5. CASE c.token # u
    <3>1. \A w \in Worker : Uses(cur[w], u)' => Uses(cur[w], u)
      BY <1>9, <2>5
    <3>2. /\ \A w, v \in Worker : Uses(cur[w], u) /\ Uses(cur[v], u) => w = v
          /\ \A w \in Worker, i \in Instance : Uses(cur[w], u) =>
               /\ ~Uses(rcur[i], u)
               /\ \A n \in DOMAIN queue[i] : queue[i][n].token # u
      BY DEF ClaimInv, OneHolder
    <3>3. QED
      BY <1>6, <2>1, <2>2, <2>3, <3>1, <3>2
  <2>6. QED
    BY <2>4, <2>5

\* A worker draws a token for a delivered job.
LEMMA DrawHolder ==
    ASSUME TypeOK, ClaimInv, NEW x \in Worker, ClaimDelivered(x)
    PROVE  OneHolder'
<1> TableType /\ WorkerType /\ ReconcilerType /\ QueueType
  BY DEF TypeOK
<1>1. PICK t \in Token : Fresh(t) /\ cur' = [cur EXCEPT ![x] = ClaimedByWorker(cur[x], t)]
  BY DEF ClaimDelivered
<1>2. /\ pc[x] = "start" /\ pc' = [pc EXCEPT ![x] = "get"]
      /\ UNCHANGED <<rows, cancel, queue, rcur>>
  BY DEF ClaimDelivered, Acquire, recVars
<1>3. cur[x] \in Copy /\ cur'[x] = ClaimedByWorker(cur[x], t)
  BY <1>1, <1>2 DEF WorkerType
<1>4. cur'[x].token = t /\ cur'[x].id = cur[x].id /\ cur'[x].state = "RUNNING"
  BY <1>3, WorkerClaimFields
<1>5. /\ \A w \in Worker : ~Uses(cur[w], t)
      /\ \A i \in Instance : \A n \in DOMAIN queue[i] : queue[i][n].token # t
      /\ \A i \in Instance : ~Uses(rcur[i], t)
      /\ \A k \in Job : rows[k].token # t
  BY <1>1 DEF Fresh, Uses
<1>6. \A w \in Worker : w # x => cur'[w] = cur[w] /\ pc'[w] = pc[w]
  BY <1>1, <1>2 DEF WorkerType
<1>7. QED
  <2> SUFFICES ASSUME NEW u \in Token
               PROVE  /\ \A w, v \in Worker : Uses(cur[w], u)' /\ Uses(cur[v], u)' => w = v
                      /\ \A i, k \in Instance : Uses(rcur[i], u) /\ Uses(rcur[k], u) => i = k
                      /\ \A i, k \in Instance : \A m \in DOMAIN queue[i], n \in DOMAIN queue[k] :
                           queue[i][m].token = u /\ queue[k][n].token = u => i = k /\ m = n
                      /\ \A w \in Worker, i \in Instance : Uses(cur[w], u)' =>
                           /\ ~Uses(rcur[i], u)
                           /\ \A n \in DOMAIN queue[i] : queue[i][n].token # u
                      /\ \A i, k \in Instance : Uses(rcur[i], u) =>
                           \A n \in DOMAIN queue[k] : queue[k][n].token # u
    BY <1>2 DEF OneHolder, Uses
  <2>1. CASE u = t
    <3>1. \A w \in Worker : Uses(cur[w], u)' => w = x
      BY <1>5, <1>6, <2>1 DEF Uses
    <3>2. QED
      BY <1>5, <2>1, <3>1
  <2>2. CASE u # t
    <3>1. \A w \in Worker : Uses(cur[w], u)' => Uses(cur[w], u)
      BY <1>4, <1>6, <2>2 DEF Uses
    <3>2. QED
      BY <3>1 DEF ClaimInv, OneHolder
  <2>3. QED
    BY <2>1, <2>2

\* Every other step makes copies disappear at most.
LEMMA CopiesFrame ==
    ASSUME TypeOK, Next
    PROVE  \/ CopiesShrink
           \/ \E i \in Instance : Claim(i) \/ Submit(i)
           \/ \E w \in Worker : Take(w) \/ ClaimDelivered(w)
<1> USE DEF workerVars, recVars
<1> WorkerType /\ ReconcilerType /\ QueueType
  BY DEF TypeOK
<1>1. CASE UNCHANGED <<cur, rcur, queue>>
  BY <1>1 DEF CopiesShrink
<1>2. ASSUME NEW i \in Instance, NEW j \in Job, Deliver(i, j) PROVE CopiesShrink
  <2> DEFINE c == CopyOf(j, CreateRow(TRUE))
  <2>1. c \in Copy /\ c.token \notin Token
    BY MessageType, NewRowFields, JobStoreAssumption, Zenon DEF CopyOf
  <2>2. queue' = [queue EXCEPT ![i] = Append(queue[i], c)] /\ cur' = cur /\ rcur' = rcur
    BY <1>2 DEF Deliver
  <2>3. \A n \in DOMAIN Append(queue[i], c) :
          \/ n \in DOMAIN queue[i] /\ Append(queue[i], c)[n] = queue[i][n]
          \/ Append(queue[i], c)[n] = c
    BY <2>1, AppendEntries, Zenon DEF QueueType
  <2> HIDE DEF c
  <2>4. QED
    BY <2>1, <2>2, <2>3 DEF CopiesShrink, QueueType
<1>3. ASSUME NEW i \in Instance, SubmitRejected(i) PROVE CopiesShrink
  BY <1>3 DEF SubmitRejected, CopiesShrink, ReconcilerType
<1>4. ASSUME NEW i \in Instance, Restart(i) PROVE CopiesShrink
  BY <1>4, EmptyFacts DEF Restart, CopiesShrink, ReconcilerType, QueueType
<1>5. ASSUME NEW w \in Worker, \/ LeaveForReconciler(w) \/ BreakerOpen(w) \/ LockBusy(w)
                               \/ ReleaseClaim(w) \/ Unlock(w)
      PROVE  CopiesShrink
  <2>1. cur' = cur \/ cur' = [cur EXCEPT ![w] = NoJob]
    BY <1>5, Zenon DEF LeaveForReconciler, BreakerOpen, LockBusy, ReleaseClaim, Unlock, GiveUp, Goto, Return
  <2>2. UNCHANGED <<rcur, queue>>
    BY <1>5 DEF LeaveForReconciler, BreakerOpen, LockBusy, ReleaseClaim, Unlock
  <2>3. QED
    BY <2>1, <2>2 DEF CopiesShrink, WorkerType
<1>6. ASSUME NEW w \in Worker, \/ RunClaimed(w) \/ CheckTransition(w) \/ MarkRunning(w) \/ MarkEnded(w)
                               \/ WriteFails(w) \/ HandlerPanics(w) \/ RenewLease(w)
      PROVE  UNCHANGED <<cur, rcur, queue>>
  BY <1>6 DEF RunClaimed, CheckTransition, MarkRunning, MarkEnded, WriteFails, HandlerPanics,
       RenewLease, Goto
<1>7. ASSUME NEW w \in Worker, MarkFailed(w) \/ HandlerSucceeds(w) \/ HandlerFails(w)
      PROVE  CopiesShrink
  <2>1. pc[w] \in {"put", "exec"} /\ UNCHANGED <<rcur, queue>>
    BY <1>7, Zenon DEF MarkFailed, HandlerSucceeds, HandlerFails, HandlerReturns
  <2>2. /\ pc'[w] = "get" /\ \A v \in Worker : v # w => cur'[v] = cur[v]
    BY <1>7 DEF MarkFailed, HandlerSucceeds, HandlerFails, HandlerReturns, WorkerType
  <2>3. RunChangesCopy(w)
    BY <2>1, <2>2, WorkerMoves DEF WorkerMove, RunGoesOn
  <2>4. cur[w] # NoJob /\ cur'[w].id = cur[w].id /\ cur'[w].token = cur[w].token
    BY <2>1, <2>3, CopyChanges DEF ChangedCopy
  <2>5. QED
    BY <2>1, <2>2, <2>4 DEF CopiesShrink
<1>8. ASSUME NEW j \in Job, \/ Enqueue(j) \/ CancelRead(j) \/ CancelWrite(j)
                            \/ BecomeDue(j) \/ LeaseExpires(j) \/ LockExpires(j)
      PROVE  UNCHANGED <<cur, rcur, queue>>
  BY <1>8 DEF Enqueue, CancelRead, CancelWrite, BecomeDue, LeaseExpires, LockExpires
<1>9. ASSUME NEW i \in Instance, Requeue(i) \/ ClaimNone(i) \/ Terminate(i)
      PROVE  UNCHANGED <<cur, rcur, queue>>
  BY <1>9 DEF Requeue, ClaimNone, Terminate
<1>10. QED
  BY <1>1, <1>2, <1>3, <1>4, <1>5, <1>6, <1>7, <1>8, <1>9
     DEF Next, WorkerStep, ReconcilerStep, Crash, Exit

\* A claim stays in one place.
LEMMA HolderStep == ASSUME TypeOK, ClaimInv, Next PROVE OneHolder'
<1>1. OneHolder
  BY DEF ClaimInv
<1>2. QED
  BY <1>1, CopiesFrame, HoldersShrink, ClaimHolder, SubmitHolder, TakeHolder, DrawHolder

-----------------------------------------------------------------------------
(***************************************************************************)
(* Where the copies of a state come from.                                  *)
(***************************************************************************)

\* On the way to a handler, with one, or on the way back untouched.
Active == {"start", "release", "exec"}

WorkerOrigin ==
    \A w \in Worker : cur'[w] # NoJob =>
      \/ /\ cur[w] # NoJob /\ cur'[w].id = cur[w].id /\ cur'[w].token = cur[w].token
         /\ pc'[w] \in Active => pc[w] \in Active \/ Kept(cur[w])'
      \/ \E n \in DOMAIN queue[Home[w]] : queue[Home[w]][n] = cur'[w]
      \/ pc'[w] = "get" /\ Fresh(cur'[w].token) /\ rows' = rows

ReconcilerOrigin ==
    \A i \in Instance : rcur'[i] # NoJob =>
      rcur'[i] = rcur[i] \/ (Kept(rcur[i])' /\ Fresh(rcur'[i].token))

QueueOrigin ==
    \A i \in Instance : \A n \in DOMAIN queue'[i] : queue'[i][n].token \in Token =>
      \/ \E m \in DOMAIN queue[i] : queue[i][m] = queue'[i][n]
      \/ rcur[i] # NoJob /\ rcur[i] = queue'[i][n]

Origins == WorkerOrigin /\ ReconcilerOrigin /\ QueueOrigin

\* Every copy of the next state was held before, or is of a fresh claim.
LEMMA OriginsStep == ASSUME TypeOK, ClaimInv, Next PROVE Origins
<1> WorkerType /\ NoToken \notin Token
  BY JobStoreAssumption DEF TypeOK
<1>1. ReconcilerOrigin
  BY CopyMoves DEF ReconcilerMove, ReconcilerOrigin, RowClaimed, Kept
<1>2. QueueOrigin
  <2>1. \A j \in Job : CopyOf(j, CreateRow(TRUE)).token = NoToken
    BY DEF CopyOf, CreateRow
  <2>2. QED
    BY <2>1, CopyMoves, Zenon DEF QueueMove, QueueOrigin
<1>3. WorkerOrigin
  <2> SUFFICES ASSUME NEW w \in Worker, cur'[w] # NoJob
               PROVE  \/ /\ cur[w] # NoJob /\ cur'[w].id = cur[w].id /\ cur'[w].token = cur[w].token
                         /\ pc'[w] \in Active => pc[w] \in Active \/ Kept(cur[w])'
                      \/ \E n \in DOMAIN queue[Home[w]] : queue[Home[w]][n] = cur'[w]
                      \/ pc'[w] = "get" /\ Fresh(cur'[w].token) /\ rows' = rows
    BY DEF WorkerOrigin
  <2>1. WorkerMove(w)
    BY WorkerMoves
  <2>2. CASE RunGoesOn(w)
    <3>1. cur[w] # NoJob /\ cur'[w] = cur[w]
      BY <2>2 DEF RunGoesOn, WorkerType
    <3>2. pc'[w] \in Active => pc[w] \in Active \/ (pc[w] = "put" /\ cur[w].state = "RUNNING" /\ Write(w))
      BY <2>2 DEF RunGoesOn, Active
    <3>3. pc[w] = "put" /\ cur[w].state = "RUNNING" /\ Write(w) => Kept(cur[w])'
      <4>1. pc[w] = "put" /\ cur[w].state = "RUNNING" /\ Write(w)
            => rows'[cur[w].id].state = "RUNNING" /\ rows'[cur[w].id].token = cur[w].token
        BY WriteEffect
      <4>2. QED
        BY <3>1, <4>1 DEF Kept
    <3>4. QED
      BY <3>1, <3>2, <3>3
  <2>3. CASE RunChangesCopy(w)
    <3>1. cur[w] # NoJob /\ pc'[w] = "get" /\ cur'[w].id = cur[w].id /\ ChangedCopy(w)
      BY <2>3, CopyChanges
    <3>2. QED
      BY <3>1 DEF ChangedCopy, Active
  <2>4. QED
    BY <2>1, <2>2, <2>3 DEF WorkerMove
<1>4. QED
  BY <1>1, <1>2, <1>3 DEF Origins

-----------------------------------------------------------------------------
(***************************************************************************)
(* One row for each token.                                                 *)
(***************************************************************************)

\* The token of a row of the next state: the one it had, or one that no row had,
\* put there by a claim or by the worker that holds it.
LEMMA RowTokens ==
    ASSUME TypeOK, ClaimInv, Next, NEW j \in Job, rows'[j].token \in Token,
           rows'[j].token # rows[j].token
    PROVE  /\ \A k \in Job \ {j} : rows'[k] = rows[k]
           /\ \A k \in Job : rows[k].token # rows'[j].token
           /\ \/ Fresh(rows'[j].token)
              \/ \E v \in Worker : Uses(cur[v], rows'[j].token) /\ cur[v].id = j
<1> NoToken \notin Token /\ WorkerType
  BY JobStoreAssumption DEF TypeOK
<1>1. /\ ~RowSame(j) /\ ~RowRecovered(j) /\ rows'[j] # rows[j] /\ ~RowNew(j)
      /\ ~RowCancelled(j) /\ \A v \in Worker : ~RowReleased(j, v)
  BY DEF RowSame, RowRecovered, RowNew, RowCancelled, RowReleased
<1>2. RowChanged(j) /\ \A k \in Job \ {j} : rows'[k] = rows[k]
  BY <1>1, TableMoves DEF TableMove
<1>3. ASSUME NEW t \in Token, RowClaimed(j, t)
      PROVE  Fresh(rows'[j].token) /\ \A k \in Job : rows[k].token # rows'[j].token
  BY <1>3 DEF RowClaimed, Fresh
<1>4. ASSUME NEW v \in Worker, RowWritten(j, v)
      PROVE  /\ Uses(cur[v], rows'[j].token) /\ cur[v].id = j
             /\ \A k \in Job : rows[k].token # rows'[j].token
  BY <1>4 DEF RowWritten, Uses, WorkerType
<1>5. QED
  BY <1>1, <1>2, <1>3, <1>4 DEF RowChanged

\* Whoever has token t has a copy of job j.
AtHome(t, j) ==
    /\ \A w \in Worker : Uses(cur[w], t) => cur[w].id = j
    /\ \A i \in Instance :
         /\ Uses(rcur[i], t) => rcur[i].id = j
         /\ \A n \in DOMAIN queue[i] : queue[i][n].token = t => queue[i][n].id = j

\* Whoever has the row's next token now has a copy of the row's job.
LEMMA OldHomes ==
    ASSUME TypeOK, ClaimInv, Next, NEW j \in Job, rows'[j].token \in Token
    PROVE  AtHome(rows'[j].token, j)
<1>1. CASE rows'[j].token = rows[j].token
  <2>1. rows[j].token \in Token
    BY <1>1
  <2>2. AtHome(rows[j].token, j)
    BY <2>1 DEF ClaimInv, TokenHome, AtHome
  <2>3. QED
    BY <1>1, <2>2
<1>2. CASE Fresh(rows'[j].token)
  BY <1>2 DEF Fresh, Uses, AtHome
<1>3. ASSUME NEW v \in Worker, Uses(cur[v], rows'[j].token), cur[v].id = j
      PROVE  AtHome(rows'[j].token, j)
  BY <1>3 DEF ClaimInv, OneHolder, AtHome
<1>4. QED
  BY <1>1, <1>2, <1>3, RowTokens

\* A token stays with its row.
LEMMA HomeStep == ASSUME TypeOK, ClaimInv, Next PROVE TokenHome'
<1> WorkerType' /\ ReconcilerType' /\ Origins /\ ConduitAssumption
  BY TypeStep, OriginsStep, ConduitAssumption DEF TypeOK
<1>1. ASSUME NEW j \in Job, NEW k \in Job, rows'[j].token \in Token, rows'[k].token = rows'[j].token
      PROVE  j = k
  <2>1. CASE rows'[j].token = rows[j].token /\ rows'[k].token = rows[k].token
    BY <1>1, <2>1 DEF ClaimInv, TokenHome
  <2>2. CASE rows'[j].token # rows[j].token
    BY <1>1, <2>2, RowTokens
  <2>3. CASE rows'[k].token # rows[k].token
    BY <1>1, <2>3, RowTokens
  <2>4. QED
    BY <2>1, <2>2, <2>3
<1>2. ASSUME NEW j \in Job, rows'[j].token \in Token
      PROVE  /\ \A w \in Worker : Uses(cur[w], rows[j].token)' => cur'[w].id = j
             /\ \A i \in Instance :
                  /\ Uses(rcur[i], rows[j].token)' => rcur'[i].id = j
                  /\ \A n \in DOMAIN queue'[i] :
                       queue'[i][n].token = rows'[j].token => queue'[i][n].id = j
  <2>1. /\ \A w \in Worker : Uses(cur[w], rows'[j].token) => cur[w].id = j
        /\ \A i \in Instance :
             /\ Uses(rcur[i], rows'[j].token) => rcur[i].id = j
             /\ \A n \in DOMAIN queue[i] : queue[i][n].token = rows'[j].token => queue[i][n].id = j
    BY <1>2, OldHomes DEF AtHome
  <2>2. ASSUME NEW w \in Worker, Uses(cur[w], rows[j].token)' PROVE cur'[w].id = j
    <3>1. cur'[w] # NoJob /\ cur'[w].token = rows'[j].token
      BY <2>2 DEF Uses
    <3>2. ~(Fresh(cur'[w].token) /\ rows' = rows)
      BY <3>1 DEF Fresh
    <3>3. Home[w] \in Instance
      BY DEF ConduitAssumption
    <3>4. QED
      BY <2>1, <3>1, <3>2, <3>3 DEF Origins, WorkerOrigin, Uses
  <2>3. ASSUME NEW i \in Instance, Uses(rcur[i], rows[j].token)' PROVE rcur'[i].id = j
    <3>1. rcur'[i] # NoJob /\ rcur'[i].token = rows'[j].token /\ rcur'[i].id \in Job
      BY <2>3, CopyIsJob DEF Uses, ReconcilerType
    <3>2. CASE rcur'[i] = rcur[i]
      BY <2>1, <3>1, <3>2 DEF Uses
    <3>3. CASE Kept(rcur[i])'
      <4>1. rows'[rcur'[i].id].token = rows'[j].token
        BY <3>1, <3>3 DEF Kept
      <4>2. QED
        BY <1>1, <1>2, <3>1, <4>1
    <3>4. QED
      BY <3>1, <3>2, <3>3 DEF Origins, ReconcilerOrigin
  <2>4. ASSUME NEW i \in Instance, NEW n \in DOMAIN queue'[i], queue'[i][n].token = rows'[j].token
        PROVE  queue'[i][n].id = j
    BY <1>2, <2>1, <2>4 DEF Origins, QueueOrigin, Uses
  <2>5. QED
    BY <2>2, <2>3, <2>4
<1>3. QED
  BY <1>1, <1>2 DEF TokenHome

-----------------------------------------------------------------------------
(***************************************************************************)
(* UpdateJob's two statements.                                             *)
(***************************************************************************)

\* Until UpdateJob records a worker's claim, no row carries it.
LEMMA PendingStep == ASSUME TypeOK, ClaimInv, Next PROVE NotYetClaimed'
<1> SUFFICES ASSUME NEW w \in Worker, pc'[w] \in {"get", "put"}, cur'[w].state = "RUNNING",
                    NEW j \in Job, rows'[j].token = cur'[w].token
             PROVE  FALSE
  BY DEF NotYetClaimed
<1> NoToken \notin Token /\ WorkerType
  BY JobStoreAssumption DEF TypeOK
<1>1. WorkerMove(w) /\ RowMove(j) /\ CopyShape
  BY WorkerMoves, RowMoves DEF ClaimInv
<1>2. ~RunChangesCopy(w)
  <2>1. ASSUME RunChangesCopy(w) PROVE FALSE
    <3>1. Fresh(cur'[w].token) /\ rows' = rows
      BY <2>1, CopyChanges DEF ChangedCopy
    <3>2. QED
      BY <3>1 DEF Fresh
  <2>2. QED
    BY <2>1
<1>3. cur'[w] = cur[w] /\ pc[w] \in {"get", "put"} /\ (pc[w] = "put" => pc'[w] = "put")
  BY <1>1, <1>2 DEF WorkerMove, RunGoesOn
<1>4. /\ cur[w].token \in Token /\ cur[w] # NoJob
      /\ \A k \in Job : rows[k].token # cur[w].token
  BY <1>3 DEF ClaimInv, CopyShape, NotYetClaimed, WorkerType
<1>5. ~RowSame(j) /\ ~RowNew(j) /\ ~RowCancelled(j) /\ ~RowRecovered(j)
  BY <1>3, <1>4 DEF RowSame, RowNew, RowCancelled, RowRecovered
<1>6. \A t \in Token : ~RowClaimed(j, t)
  BY <1>3, <1>4 DEF RowClaimed, Fresh
<1>7. ASSUME NEW v \in Worker, RowReleased(j, v) \/ RowWritten(j, v) PROVE FALSE
  <2>1. RowWritten(j, v)
    BY <1>3, <1>4, <1>7 DEF RowReleased
  <2>2. pc[v] = "put" /\ pc'[v] # "put" /\ cur[v].token = cur[w].token
    BY <1>3, <1>4, <2>1 DEF RowWritten
  <2>3. v = w
    BY <1>3, <1>4, <2>2, SameWorker
  <2>4. QED
    BY <1>3, <2>2, <2>3
<1>8. QED
  BY <1>1, <1>5, <1>6, <1>7 DEF RowMove, RowChanged

\* A transition that was checked stays allowed while the row has the token.
LEMMA CheckedStep == ASSUME TypeOK, ClaimInv, Next PROVE CheckedWrite'
<1> SUFFICES ASSUME NEW w \in Worker, pc'[w] = "put", cur'[w].state # "RUNNING",
                    rows'[cur'[w].id].token = cur'[w].token, cancel'[cur'[w].id] # "done"
             PROVE  CanTransition(rows'[cur'[w].id].state, cur'[w].state)
  BY DEF CheckedWrite
<1> NoToken \notin Token /\ WorkerType
  BY JobStoreAssumption DEF TypeOK
<1>1. WorkerMove(w)
  BY WorkerMoves
<1>2. /\ cur'[w] = cur[w] /\ pc[w] \in {"get", "put"}
      /\ pc[w] = "get" => CanTransition(rows[cur[w].id].state, cur[w].state)
  BY <1>1 DEF WorkerMove, RunGoesOn, RunChangesCopy, CheckRefuses
<1> DEFINE j == cur[w].id
<1>3. j \in Job /\ cur[w].token \in Token
  BY <1>2, CopyIsJob DEF ClaimInv, CopyShape, WorkerType
<1>4. RowMove(j) /\ (cancel[j] = "done" => cancel'[j] = "done")
  BY <1>3, RowMoves, CancelStays
<1>5. ~RowNew(j) /\ ~RowCancelled(j) /\ ~RowRecovered(j)
  BY <1>2, <1>3 DEF RowNew, RowCancelled, RowRecovered
<1>6. \A t \in Token : ~RowClaimed(j, t)
  BY <1>2, <1>3 DEF RowClaimed, Fresh, WorkerType
<1>7. ASSUME NEW v \in Worker, RowReleased(j, v) \/ RowWritten(j, v) PROVE FALSE
  <2>1. RowWritten(j, v)
    BY <1>2, <1>3, <1>7 DEF RowReleased
  <2>2. pc[v] = "put" /\ pc'[v] # "put" /\ cur[v].token = cur[w].token
    BY <1>2, <1>3, <2>1 DEF RowWritten
  <2>3. v = w
    BY <1>2, <1>3, <2>2, SameWorker
  <2>4. QED
    BY <2>2, <2>3
<1>8. RowSame(j)
  BY <1>4, <1>5, <1>6, <1>7 DEF RowMove, RowChanged
<1>9. rows'[j].state = rows[j].state /\ rows[j].token = cur[w].token
  BY <1>2, <1>8 DEF RowSame
<1>10. CanTransition(rows[j].state, cur[w].state)
  BY <1>2, <1>4, <1>9 DEF ClaimInv, CheckedWrite
<1>11. QED
  BY <1>2, <1>9, <1>10

-----------------------------------------------------------------------------
(***************************************************************************)
(* The inductive invariant of the claim protocol.                          *)
(***************************************************************************)

\* ClaimInv is inductive, relative to the types.
LEMMA ClaimStep == TypeOK /\ ClaimInv /\ [Next]_vars => ClaimInv'
<1>1. TypeOK /\ ClaimInv /\ Next => ClaimInv'
  BY HolderStep, HomeStep, PendingStep, CheckedStep, RowStep, CopyShapeStep DEF RowInv, ClaimInv
<1>2. QED
  BY <1>1, ClaimStutters

\* In every deployment and whatever fails, the claims of the table and the
\* copies in queues, reconcilers and workers agree: ClaimInv of Conduit.
THEOREM ClaimsCorrect == Spec => []ClaimInv
  BY TypeCorrect, ClaimInit, ClaimStep, PTL DEF Spec

\* No two processes ever hold the same claim: the tokens of ClaimNextJob and
\* of jobWorker.Run are in one place at a time.
THEOREM ClaimHasOneHolder == Spec => []OneHolder
<1>1. ClaimInv => OneHolder
  BY DEF ClaimInv
<1>2. QED
  BY <1>1, ClaimsCorrect, PTL

-----------------------------------------------------------------------------
(***************************************************************************)
(* What a worker gets done as long as nothing fails under it.              *)
(***************************************************************************)

\* Without SIGTERM no context is cancelled.
ContextsLive == "term" \notin faults.seen => \A i \in Instance : ~ctxDone[i]

\* scanJob can read the rows of the claims that are being worked on.
KeyRead ==
    NullScan =>
      /\ \A w \in Worker :
           /\ pc[w] \in {"start", "release", "exec"} /\ cur[w].token \in Token => HasKey[cur[w].id]
           /\ pc[w] \in {"get", "put"} /\ cur[w].state # "RUNNING" => HasKey[cur[w].id]
           /\ pc[w] = "put" => cur[w].state # "RUNNING"
      /\ \A i \in Instance :
           /\ rcur[i] # NoJob => HasKey[rcur[i].id]
           /\ \A n \in DOMAIN queue[i] : queue[i][n].token \in Token => HasKey[queue[i][n].id]

\* A worker that is done with a job whose handler succeeded has no claim left.
SuccessSettled ==
    \A w \in Worker :
      /\ pc[w] = "unlock" /\ cur[w].state = "COMPLETED"
      /\ faults.seen \cap {"crash", "db"} = {} /\ ~ctxDone[Home[w]]
      => ~OwnsClaim(rows[cur[w].id], cur[w])

CalmInv == ContextsLive /\ KeyRead /\ FailedIsBeingRetried /\ SuccessSettled

\* What a step does to the context of an instance.
LEMMA ContextMoves ==
    ASSUME TypeOK, Next, NEW x \in Instance
    PROVE  \/ ctxDone'[x] = ctxDone[x]
           \/ ctxDone'[x] /\ "term" \in faults'.seen
           \/ ~ctxDone'[x] /\ \A w \in Worker : Home[w] = x => pc'[w] = "idle"
<1> ctxDone \in [Instance -> BOOLEAN]
  BY DEF TypeOK, EnvType
<1>1. ASSUME NEW i \in Instance, Terminate(i)
      PROVE  ctxDone'[x] = ctxDone[x] \/ (ctxDone'[x] /\ "term" \in faults'.seen)
  <2>1. "term" \in faults'.seen /\ ctxDone' = [ctxDone EXCEPT ![i] = TRUE]
    BY <1>1, FaultSeen DEF Terminate, Watched
  <2>2. QED
    BY <2>1, Zenon
<1>2. ASSUME NEW i \in Instance, Restart(i), i # x PROVE ctxDone'[x] = ctxDone[x]
  BY <1>2 DEF Restart
<1>3. ASSUME Restart(x) PROVE ~ctxDone'[x] /\ \A w \in Worker : Home[w] = x => pc'[w] = "idle"
  BY <1>3 DEF Restart
<1>4. QED
  BY <1>1, <1>2, <1>3, ContextFrame

\* A claim a worker has when the step is over was the row's claim before, unless
\* the worker recorded it.
LEMMA OwnedBefore ==
    ASSUME TypeOK, ClaimInv, Next, NEW w \in Worker, cur[w] # NoJob, cur[w].token \in Token,
           ~(pc[w] = "put" /\ cur[w].state = "RUNNING"),
           rows'[cur[w].id].state = "RUNNING", rows'[cur[w].id].token = cur[w].token
    PROVE  OwnsClaim(rows[cur[w].id], cur[w])
<1> DEFINE j == cur[w].id
<1>1. j \in Job /\ RowMove(j)
  BY CopyIsJob, RowMoves DEF TypeOK, WorkerType
<1>2. ~RowNew(j) /\ ~RowCancelled(j) /\ ~RowRecovered(j)
  BY DEF RowNew, RowCancelled, RowRecovered
<1>3. \A t \in Token : ~RowClaimed(j, t)
  BY Zenon DEF RowClaimed, Fresh
<1>4. \A v \in Worker : ~RowReleased(j, v)
  BY DEF RowReleased
<1>5. ASSUME NEW v \in Worker, RowWritten(j, v) PROVE FALSE
  <2>1. pc[v] = "put" /\ cur[v].state = "RUNNING" /\ cur[v].token = cur[w].token
    BY <1>5 DEF RowWritten
  <2>2. cur[v] # NoJob
    BY <2>1 DEF TypeOK, WorkerType
  <2>3. v = w
    BY <2>1, <2>2 DEF ClaimInv, OneHolder, Uses
  <2>4. QED
    BY <2>1, <2>3
<1>6. RowSame(j)
  BY <1>1, <1>2, <1>3, <1>4, <1>5 DEF RowMove, RowChanged
<1>7. QED
  BY <1>6 DEF RowSame, OwnsClaim

\* Only jobs whose rows can be read get past a claim.
LEMMA KeyStep == TypeOK /\ ClaimInv /\ KeyRead /\ Next => KeyRead'
<1> SUFFICES ASSUME TypeOK, ClaimInv, KeyRead, Next, NullScan PROVE KeyRead'
  BY DEF KeyRead
<1> WorkerType /\ ReconcilerType /\ QueueType /\ ConduitAssumption /\ NoToken \notin Token
  BY ConduitAssumption, JobStoreAssumption DEF TypeOK
<1>1. ASSUME NEW i \in Instance, rcur'[i] # NoJob PROVE HasKey[rcur'[i].id]
  BY <1>1, CopyMoves DEF ReconcilerMove, KeyRead
<1>2. ASSUME NEW i \in Instance, NEW n \in DOMAIN queue'[i], queue'[i][n].token \in Token
      PROVE  HasKey[queue'[i][n].id]
  <2>1. \A j \in Job : CopyOf(j, CreateRow(TRUE)).token = NoToken
    BY DEF CopyOf, CreateRow
  <2>0. QueueMove(i)
    BY CopyMoves
  <2>2. \/ \E m \in DOMAIN queue[i] : queue'[i][n] = queue[i][m]
        \/ rcur[i] # NoJob /\ queue'[i][n] = rcur[i]
    BY <1>2, <2>0, <2>1 DEF QueueMove
  <2>3. QED
    BY <1>2, <2>2, Zenon DEF KeyRead
<1>3. ASSUME NEW w \in Worker
      PROVE  /\ pc'[w] \in {"start", "release", "exec"} /\ cur'[w].token \in Token => HasKey[cur'[w].id]
             /\ pc'[w] \in {"get", "put"} /\ cur'[w].state # "RUNNING" => HasKey[cur'[w].id]
             /\ pc'[w] = "put" => cur'[w].state # "RUNNING"
  <2> DEFINE Goal == /\ pc'[w] \in {"start", "release", "exec"} /\ cur'[w].token \in Token => HasKey[cur'[w].id]
                     /\ pc'[w] \in {"get", "put"} /\ cur'[w].state # "RUNNING" => HasKey[cur'[w].id]
                     /\ pc'[w] = "put" => cur'[w].state # "RUNNING"
  <2>1. WorkerMove(w) /\ Home[w] \in Instance
    BY WorkerMoves DEF ConduitAssumption
  <2>2. CASE pc'[w] = pc[w] /\ cur'[w] = cur[w]
    BY <2>2, Zenon DEF KeyRead
  <2>3. CASE pc'[w] = "idle"
    BY <2>3
  <2>4. CASE pc'[w] = "start" /\ \E n \in DOMAIN queue[Home[w]] : cur'[w] = queue[Home[w]][n]
    BY <2>1, <2>4 DEF KeyRead
  <2>5. CASE RunGoesOn(w)
    <3>1. CASE pc[w] = "start" /\ pc'[w] \in {"release", "exec"}
      BY <2>5, <3>1 DEF RunGoesOn, KeyRead
    <3>2. CASE pc[w] = "get" /\ pc'[w] = "put" /\ ~CheckRefuses(w)
      <4>1. cur[w].id \in Job /\ cur'[w] = cur[w]
        BY <2>5, <3>2, CopyIsJob DEF RunGoesOn, WorkerType
      <4>2. cur[w].state # "RUNNING"
        BY <3>2, <4>1 DEF CheckRefuses, ScanFails, CanTransition, ClaimInv, ClaimMatchesState
      <4>3. QED
        BY <3>2, <4>1, <4>2 DEF KeyRead
    <3>3. CASE pc'[w] = "unlock"
      BY <3>3
    <3>4. ~(pc[w] = "put" /\ cur[w].state = "RUNNING")
      BY DEF KeyRead
    <3>5. QED
      BY <2>5, <3>1, <3>2, <3>3, <3>4 DEF RunGoesOn
  <2>6. CASE RunChangesCopy(w)
    <3>1. pc'[w] = "get" /\ cur'[w].id = cur[w].id /\ ChangedCopy(w)
      BY <2>6, CopyChanges
    <3>2. pc[w] = "exec" => cur[w].token \in Token
      BY DEF ClaimInv, CopyShape, Claimed
    <3>3. QED
      BY <3>1, <3>2 DEF ChangedCopy, KeyRead
  <2>7. QED
    BY <2>1, <2>2, <2>3, <2>4, <2>5, <2>6 DEF WorkerMove
<1>4. QED
  BY <1>1, <1>2, <1>3 DEF KeyRead

\* A worker that has lost neither its context nor its process, and that no
\* statement failed, gets from FAILED to PENDING.
LEMMA FailedStep ==
    TypeOK /\ ClaimInv /\ ContextsLive /\ KeyRead /\ FailedIsBeingRetried /\ Next
    => FailedIsBeingRetried'
<1> SUFFICES ASSUME TypeOK, ClaimInv, ContextsLive, KeyRead, FailedIsBeingRetried, Next,
                    faults'.seen \cap {"crash", "term", "db"} = {},
                    NEW j \in Job, rows'[j].state = "FAILED"
             PROVE  \E w \in Worker : /\ pc'[w] \in {"get", "put"} /\ cur'[w].state = "PENDING"
                                      /\ cur'[w].token = rows'[j].token
  BY DEF FailedIsBeingRetried
<1> WorkerType /\ ConduitAssumption /\ NoToken \notin Token
  BY ConduitAssumption, JobStoreAssumption DEF TypeOK
<1>1. faults.seen \cap {"crash", "term", "db"} = {} /\ \A w \in Worker : ~Troubled(w)
  BY SeenGrows DEF ContextsLive, Troubled, ConduitAssumption
<1>2. RowMove(j) /\ ~RowNew(j) /\ ~RowCancelled(j) /\ ~RowRecovered(j)
  BY RowMoves DEF RowNew, RowCancelled, RowRecovered
<1>3. /\ \A t \in Token : ~RowClaimed(j, t)
      /\ \A w \in Worker : ~RowReleased(j, w)
  BY DEF RowClaimed, RowReleased
<1>4. CASE RowSame(j)
  <2>1. PICK w \in Worker : /\ pc[w] \in {"get", "put"} /\ cur[w].state = "PENDING"
                            /\ cur[w].token = rows[j].token
    BY <1>1, <1>4 DEF RowSame, FailedIsBeingRetried
  <2>2. /\ rows[j].state = "FAILED" /\ rows[j].token \in Token /\ rows'[j].token = rows[j].token
        /\ cur[w] # NoJob
    BY <1>4, <2>1 DEF RowSame, ClaimInv, ClaimMatchesState, TypeOK, TableType, Row, WorkerType
  <2>3. cur[w].id = j
    BY <2>1, <2>2 DEF ClaimInv, TokenHome, Uses
  <2>4. ~CheckRefuses(w)
    BY <2>1, <2>2, <2>3 DEF CheckRefuses, ScanFails, CanTransition, KeyRead
  <2>5. ~WriteEnds(w)
    <3>1. UpdateJobWhere(rows[j], cur[w])
      BY <2>1 DEF UpdateJobWhere
    <3>2. UpdateRow(rows[j], cur[w]).state = "PENDING"
      BY <2>1 DEF UpdateRow
    <3>3. Write(w) => rows'[j] = UpdateRow(rows[j], cur[w])
      BY <2>3 DEF Write, TypeOK, TableType
    <3>4. QED
      BY <2>3, <3>1, <3>2, <3>3 DEF WriteEnds
  <2>6. WorkerMove(w)
    BY WorkerMoves
  <2>7. pc'[w] \in {"get", "put"} /\ cur'[w] = cur[w]
    BY <1>1, <2>1, <2>4, <2>5, <2>6 DEF WorkerMove, RunGoesOn, RunChangesCopy
  <2>8. QED
    BY <2>1, <2>2, <2>7
<1>5. ASSUME NEW w \in Worker, RowWritten(j, w)
      PROVE  /\ pc'[w] \in {"get", "put"} /\ cur'[w].state = "PENDING"
             /\ cur'[w].token = rows'[j].token
  <2>1. /\ pc[w] = "put" /\ cur[w].id = j /\ cur[w].state = "FAILED"
        /\ rows'[j].token = cur[w].token /\ rows[j].token = cur[w].token
        /\ pc'[w] \in {"get", "unlock"}
    BY <1>5 DEF RowWritten
  <2>2. ~WriteEnds(w)
    BY <2>1 DEF WriteEnds, UpdateJobWhere
  <2>3. WorkerMove(w) /\ cur[w] # NoJob
    BY <2>1, WorkerMoves DEF WorkerType
  <2>4. RunChangesCopy(w)
    BY <1>1, <2>1, <2>2, <2>3 DEF WorkerMove, RunGoesOn
  <2>5. pc'[w] = "get" /\ ChangedCopy(w)
    BY <2>4, CopyChanges
  <2>6. QED
    BY <2>1, <2>5 DEF ChangedCopy
<1>6. QED
  BY <1>2, <1>3, <1>4, <1>5 DEF RowMove, RowChanged

\* A worker that is done after a success has recorded it, or has lost the claim.
LEMMA SettledStep == TypeOK /\ ClaimInv /\ KeyRead /\ SuccessSettled /\ Next => SuccessSettled'
<1> SUFFICES ASSUME TypeOK, ClaimInv, KeyRead, SuccessSettled, Next, NEW w \in Worker,
                    pc'[w] = "unlock", cur'[w].state = "COMPLETED",
                    faults'.seen \cap {"crash", "db"} = {}, ~ctxDone'[Home[w]],
                    rows'[cur'[w].id].state = "RUNNING",
                    rows'[cur'[w].id].token = cur'[w].token
             PROVE  FALSE
  BY DEF SuccessSettled, OwnsClaim
<1> WorkerType /\ ConduitAssumption /\ NoToken \notin Token
  BY ConduitAssumption, JobStoreAssumption DEF TypeOK
<1>1. faults.seen \cap {"crash", "db"} = {}
  BY SeenGrows
<1>2. ~ctxDone[Home[w]]
  BY ContextMoves DEF ConduitAssumption, TypeOK, EnvType
<1>3. ~Troubled(w)
  BY <1>1, <1>2 DEF Troubled
<1>4. /\ cur'[w] = cur[w] /\ cur[w] # NoJob
      /\ \/ pc[w] = "unlock" \/ pc[w] = "exec"
         \/ pc[w] = "get" /\ CheckRefuses(w)
         \/ pc[w] = "put" /\ WriteEnds(w)
  BY <1>3, WorkerMoves DEF WorkerMove, RunGoesOn, RunChangesCopy, WorkerType
<1>5. pc[w] # "exec"
  BY <1>4 DEF ClaimInv, CopyShape, Claimed
<1>6. cur[w].token \in Token /\ cur[w].id \in Job
  BY <1>4, <1>5, CopyIsJob DEF ClaimInv, CopyShape, WorkerType
<1>7. OwnsClaim(rows[cur[w].id], cur[w])
  BY <1>4, <1>6, OwnedBefore
<1>8. CASE pc[w] = "unlock"
  BY <1>1, <1>2, <1>4, <1>7, <1>8 DEF SuccessSettled
<1>9. CASE pc[w] = "get"
  <2>1. rows[cur[w].id].state = "RUNNING" /\ rows[cur[w].id].token # NoToken
    BY <1>6, <1>7 DEF OwnsClaim
  <2>2. NullScan => HasKey[cur[w].id]
    BY <1>4, <1>9 DEF KeyRead
  <2>3. cur[w].state = "COMPLETED" /\ CheckRefuses(w)
    BY <1>4, <1>9
  <2>4. QED
    BY <2>1, <2>2, <2>3 DEF CheckRefuses, ScanFails, CanTransition
<1>10. CASE pc[w] = "put"
  <2>1. Write(w)
    BY <1>4, <1>7, <1>10 DEF WriteEnds, UpdateJobWhere, OwnsClaim
  <2>2. rows'[cur[w].id].state = "COMPLETED"
    BY <1>4, <1>10, <2>1, WriteEffect, Zenon
  <2>3. QED
    BY <1>4, <2>2
<1>11. QED
  BY <1>4, <1>5, <1>8, <1>9, <1>10

\* The invariant is kept by every step.
LEMMA CalmStep == TypeOK /\ ClaimInv /\ CalmInv /\ [Next]_vars => CalmInv'
<1>1. TypeOK /\ ClaimInv /\ CalmInv /\ Next => CalmInv'
  <2>1. TypeOK /\ ContextsLive /\ Next => ContextsLive'
    BY ContextMoves, SeenGrows DEF ContextsLive
  <2>2. QED
    BY <2>1, KeyStep, FailedStep, SettledStep DEF CalmInv
<1>2. CalmInv /\ UNCHANGED vars => CalmInv'
  <2> SUFFICES ASSUME CalmInv, UNCHANGED vars PROVE CalmInv'
    OBVIOUS
  <2> UNCHANGED <<rows, queue, pc, cur, rcur, ctxDone, faults>>
    BY DEF vars, workerVars, recVars
  <2>1. ContextsLive' /\ KeyRead'
    BY DEF CalmInv, ContextsLive, KeyRead
  <2>2. FailedIsBeingRetried' /\ SuccessSettled'
    BY Zenon DEF CalmInv, FailedIsBeingRetried, SuccessSettled
  <2>3. QED
    BY <2>1, <2>2 DEF CalmInv
<1>3. QED
  BY <1>1, <1>2

\* It holds before any job is inserted.
LEMMA CalmInit == Init => CalmInv
<1> SUFFICES ASSUME Init PROVE CalmInv
  OBVIOUS
<1>1. /\ \A j \in Job : rows[j].state = "ABSENT"
      /\ \A w \in Worker : pc[w] = "idle"
      /\ \A i \in Instance : rcur[i] = NoJob /\ DOMAIN queue[i] = {} /\ ~ctxDone[i]
  BY EmptyFacts DEF Init, AbsentRow
<1>2. QED
  BY <1>1 DEF CalmInv, ContextsLive, KeyRead, FailedIsBeingRetried, SuccessSettled

\* CalmInv is an invariant.
LEMMA CalmCorrect == Spec => []CalmInv
  BY CalmInit, CalmStep, TypeCorrect, ClaimsCorrect, PTL DEF Spec

\* Without a crash, a shutdown or a failing statement, whoever recorded FAILED is
\* on the way to PENDING.
THEOREM FailedIsRetried == Spec => []FailedIsBeingRetried
<1>1. CalmInv => FailedIsBeingRetried
  BY DEF CalmInv
<1>2. QED
  BY <1>1, CalmCorrect, PTL

\* A worker leaves Run after a success only with the completion recorded or the
\* claim lost, as long as its context lives and no statement or process failed.
THEOREM SuccessRecorded == Spec => SuccessIsRecorded
<1>1. CalmInv /\ [Next]_vars =>
        [\A w \in Worker :
           /\ pc[w] = "unlock" /\ pc'[w] = "idle" /\ cur[w].state = "COMPLETED"
           /\ faults'.seen \cap {"crash", "db"} = {} /\ ~ctxDone[Home[w]]
           => ~OwnsClaim(rows[cur[w].id], cur[w])]_vars
  BY SeenGrows, Zenon DEF CalmInv, SuccessSettled
<1>2. QED
  BY <1>1, CalmCorrect, PTL DEF Spec, SuccessIsRecorded

=============================================================================
