------------------------- MODULE ConduitTypeProofs --------------------------
(***************************************************************************)
(* The type invariant of Conduit, for every set of jobs, instances and     *)
(* workers and every choice of the faults, and the lemmas on rows, copies  *)
(* and queues the other proofs use.                                        *)
(***************************************************************************)
EXTENDS Conduit, TLAPS

(***************************************************************************)
(* Sequences, rows and copies.                                             *)
(***************************************************************************)

\* What Append does to the entries of a pool queue.
LEMMA AppendFacts ==
    ASSUME NEW S, NEW q \in Seq(S), NEW e \in S
    PROVE  /\ Append(q, e) \in Seq(S)
           /\ DOMAIN q = 1..Len(q) /\ Len(q) \in Nat
           /\ DOMAIN Append(q, e) = 1..(Len(q) + 1)
           /\ \A n \in 1..Len(q) : Append(q, e)[n] = q[n]
           /\ Append(q, e)[Len(q) + 1] = e
  OBVIOUS

\* What taking the first entry does.
LEMMA TailFacts ==
    ASSUME NEW S, NEW q \in Seq(S), q # << >>
    PROVE  /\ Head(q) \in S /\ Head(q) = q[1] /\ 1 \in DOMAIN q
           /\ Tail(q) \in Seq(S)
           /\ \A n \in DOMAIN Tail(q) : n + 1 \in DOMAIN q /\ Tail(q)[n] = q[n + 1]
           /\ \A n \in DOMAIN Tail(q) : n \in Nat \ {0}
  OBVIOUS

\* The empty queue.
LEMMA EmptyFacts == \A S : << >> \in Seq(S) /\ DOMAIN << >> = {}
  OBVIOUS

\* Counting an attempt stays below the cap.
LEMMA AttemptType == \A n \in 0..AttemptCap : NextAttempt(n) \in 0..AttemptCap
  BY JobStoreAssumption DEF NextAttempt

\* Every statement of the store yields a row.
LEMMA NewRowType == AbsentRow \in Row /\ \A due \in BOOLEAN : CreateRow(due) \in Row
  BY JobStoreAssumption DEF Row, JobState, Lease, AbsentRow, CreateRow

\* Cancel, renewal, release and the passing of time give rows.
LEMMA SimpleRowType ==
    \A row \in Row :
      /\ CancelRow(row) \in Row /\ RenewRow(row) \in Row /\ ReleaseRow(row) \in Row
      /\ [row EXCEPT !.due = TRUE] \in Row /\ [row EXCEPT !.lease = "past"] \in Row
  BY Zenon DEF Row, JobState, Lease, CancelRow, RenewRow, ReleaseRow

\* A claim gives a row.
LEMMA ClaimRowType == \A row \in Row, t \in Token : ClaimRow(row, t) \in Row
  BY AttemptType, Zenon DEF Row, JobState, Lease, ClaimRow

\* Recovery gives a row, whatever the retry budget.
LEMMA RequeueRowType == \A row \in Row, max \in Nat : RequeueRow(row, max) \in Row
  BY Zenon DEF Row, JobState, Lease, RequeueRow

\* UpdateJob gives a row.
LEMMA UpdateRowType == \A row \in Row, c \in Copy : UpdateRow(row, c) \in Row
  BY DEF Row, Copy, JobState, Lease, UpdateRow

\* What is made of rows and of other copies are copies.
LEMMA CopyIsJob == \A c \in Copy : c.id \in Job /\ c # NoJob
  BY NoJobAssumption DEF Copy

\* The job in a Kafka message is a copy.
LEMMA MessageType == \A j \in Job : CopyOf(j, CreateRow(TRUE)) \in Copy
  BY JobStoreAssumption DEF Copy, JobState, Lease, CopyOf, CreateRow

\* The job ClaimNextJob returns is a copy.
LEMMA ClaimCopyType ==
    \A j \in Job, row \in Row, t \in Token : CopyOf(j, ClaimRow(row, t)) \in Copy
  BY AttemptType DEF Copy, Row, JobState, Lease, CopyOf, ClaimRow

\* A worker's own claim is a copy.
LEMMA DeliveredType == \A c \in Copy, t \in Token : ClaimedByWorker(c, t) \in Copy
  BY AttemptType, Zenon DEF Copy, JobState, Lease, ClaimedByWorker

\* A rescheduled job is a copy.
LEMMA RetryType == \A c \in Copy : Rescheduled(c) \in Copy
  BY Zenon DEF Copy, JobState, Lease, Rescheduled

\* A job with its result is a copy.
LEMMA ResultType == \A c \in Copy, s \in JobState : WithResult(c, s) \in Copy
<1> SUFFICES ASSUME NEW c \in Copy, NEW s \in JobState PROVE WithResult(c, s) \in Copy
  OBVIOUS
<1>1. CASE s = "FAILED"
  BY <1>1, Zenon DEF Copy, WithResult
<1>2. CASE s # "FAILED"
  BY <1>2, Zenon DEF Copy, Lease, WithResult
<1>3. QED
  BY <1>1, <1>2

(***************************************************************************)
(* What the statements leave in a row, and the steps of Run in a copy.     *)
(***************************************************************************)

\* CreateJob's row is PENDING and unclaimed.
LEMMA NewRowFields ==
    \A d \in BOOLEAN : /\ CreateRow(d).state = "PENDING"
                       /\ CreateRow(d).token = NoToken
                       /\ CreateRow(d).lease = "null"
  BY DEF CreateRow

\* CancelJob changes the state alone.
LEMMA CancelFields ==
    \A row \in Row : /\ CancelRow(row).state = "DEAD"
                     /\ CancelRow(row).token = row.token
                     /\ CancelRow(row).lease = row.lease
                     /\ CancelRow(row).attempt = row.attempt
  BY DEF Row, CancelRow

\* A claimed row has the claim's token and a lease.
LEMMA ClaimFields ==
    \A row \in Row, t \in Token : /\ ClaimRow(row, t).state = "RUNNING"
                                  /\ ClaimRow(row, t).token = t
                                  /\ ClaimRow(row, t).lease = "future"
                                  /\ ClaimRow(row, t).attempt = NextAttempt(row.attempt)
  BY DEF Row, ClaimRow

\* RenewLease moves the lease alone.
LEMMA RenewFields ==
    \A row \in Row : /\ RenewRow(row).state = row.state
                     /\ RenewRow(row).token = row.token
                     /\ RenewRow(row).lease = "future"
                     /\ RenewRow(row).attempt = row.attempt
  BY DEF Row, RenewRow

\* ReleaseClaim makes the row PENDING and unclaimed.
LEMMA ReleaseFields ==
    \A row \in Row : /\ ReleaseRow(row).state = "PENDING"
                     /\ ReleaseRow(row).token = NoToken
                     /\ ReleaseRow(row).lease = "null"
                     /\ ReleaseRow(row).attempt = row.attempt
  BY DEF Row, ReleaseRow

\* Recovery takes the claim off the row, and waits again or gives the job up
\* when its retries are spent.
LEMMA RequeueFields ==
    \A row \in Row, m \in Nat :
      /\ RequeueRow(row, m).token = NoToken /\ RequeueRow(row, m).lease = "null"
      /\ RequeueRow(row, m).attempt = row.attempt
      /\ \/ RequeueRow(row, m).state = "DEAD"
         \/ RequeueRow(row, m).state = "PENDING" /\ (m > 0 => row.attempt < m)
  BY DEF Row, RequeueRow

\* UpdateJob takes everything from the copy, and drops the token of a job
\* that is not being run any more.
LEMMA UpdateFields ==
    \A row \in Row, job \in Copy :
      /\ UpdateRow(row, job).state = job.state
      /\ UpdateRow(row, job).lease = job.lease
      /\ UpdateRow(row, job).token =
           IF job.state \in {"COMPLETED", "DEAD", "PENDING"} THEN NoToken ELSE job.token
  BY DEF Row, UpdateRow

\* A copy of a row names the row's job, state, token and lease.
LEMMA CopyFields ==
    \A j \in Job, row \in Row :
      /\ CopyOf(j, row).id = j /\ CopyOf(j, row).state = row.state
      /\ CopyOf(j, row).token = row.token /\ CopyOf(j, row).lease = row.lease
  BY DEF CopyOf

\* The worker's own claim, in its copy.
LEMMA WorkerClaimFields ==
    \A job \in Copy, t \in Token :
      /\ ClaimedByWorker(job, t).id = job.id /\ ClaimedByWorker(job, t).state = "RUNNING"
      /\ ClaimedByWorker(job, t).token = t /\ ClaimedByWorker(job, t).lease = "future"
  BY DEF Copy, ClaimedByWorker

\* The second write of scheduleRetry keeps job and token.
LEMMA RetryFields ==
    \A job \in Copy :
      /\ Rescheduled(job).id = job.id /\ Rescheduled(job).state = "PENDING"
      /\ Rescheduled(job).token = job.token /\ Rescheduled(job).lease = "null"
  BY DEF Copy, Rescheduled

\* A result keeps job and token; only a failure keeps the lease.
LEMMA ResultFields ==
    \A job \in Copy, s \in JobState :
      /\ WithResult(job, s).id = job.id /\ WithResult(job, s).state = s
      /\ WithResult(job, s).token = job.token
      /\ WithResult(job, s).lease = IF s = "FAILED" THEN job.lease ELSE "null"
  BY DEF Copy, WithResult

\* The entries of a queue after SubmitBlocking.
LEMMA AppendEntries ==
    ASSUME NEW S, NEW q \in Seq(S), NEW e \in S
    PROVE  /\ \A n \in DOMAIN Append(q, e) :
                \/ n \in DOMAIN q /\ Append(q, e)[n] = q[n]
                \/ n = Len(q) + 1 /\ Append(q, e)[n] = e
           /\ Len(q) + 1 \notin DOMAIN q
<1>1. DOMAIN q = 1..Len(q) /\ Len(q) \in Nat /\ DOMAIN Append(q, e) = 1..(Len(q) + 1)
  BY AppendFacts
<1>2. \A n \in 1..Len(q) : Append(q, e)[n] = q[n]
  BY AppendFacts
<1>3. Append(q, e)[Len(q) + 1] = e
  BY AppendFacts
<1>4. QED
  BY <1>1, <1>2, <1>3

(***************************************************************************)
(* Who changes what.                                                       *)
(***************************************************************************)

\* The actions that write the jobs table.
RowWriter ==
    \/ \E j \in Job : Enqueue(j) \/ CancelWrite(j) \/ BecomeDue(j) \/ LeaseExpires(j)
    \/ \E i \in Instance : Requeue(i) \/ Claim(i) \/ ClaimNone(i)
    \/ \E w \in Worker : \/ ReleaseClaim(w) \/ RenewLease(w) \/ MarkRunning(w) \/ MarkFailed(w)
                         \/ MarkEnded(w) \/ WriteFails(w)

\* No other action does.
LEMMA RowsFrame == Next => rows' = rows \/ RowWriter
<1> SUFFICES ASSUME Next PROVE rows' = rows \/ RowWriter
  OBVIOUS
<1>1. ASSUME NEW j \in Job, CancelRead(j) \/ LockExpires(j) PROVE rows' = rows
  BY <1>1 DEF CancelRead, LockExpires
<1>2. ASSUME NEW i \in Instance, NEW j \in Job, Deliver(i, j) PROVE rows' = rows
  BY <1>2 DEF Deliver
<1>3. ASSUME NEW i \in Instance, \/ Submit(i) \/ SubmitRejected(i)
                                 \/ Crash(i) \/ Terminate(i) \/ Exit(i)
      PROVE  rows' = rows
  BY <1>3 DEF Submit, SubmitRejected, Crash, Terminate, Exit, Restart
<1>4. ASSUME NEW w \in Worker,
             \/ Take(w) \/ LeaveForReconciler(w) \/ BreakerOpen(w) \/ LockBusy(w)
             \/ RunClaimed(w) \/ ClaimDelivered(w) \/ CheckTransition(w)
             \/ HandlerSucceeds(w) \/ HandlerFails(w) \/ HandlerPanics(w) \/ Unlock(w)
      PROVE  rows' = rows
  BY <1>4 DEF Take, LeaveForReconciler, BreakerOpen, LockBusy, RunClaimed, ClaimDelivered,
       CheckTransition, HandlerSucceeds, HandlerFails, HandlerReturns, HandlerPanics, Unlock
<1>5. QED
  BY <1>1, <1>2, <1>3, <1>4 DEF Next, WorkerStep, ReconcilerStep, RowWriter

\* Only the workers' own steps and the end of their process touch the workers.
LEMMA WorkerFrame ==
    Next => \/ UNCHANGED workerVars
            \/ \E i \in Instance : Restart(i) /\ (Fault("crash") \/ ctxDone[i])
            \/ \E w \in Worker : WorkerStep(w) \/ RenewLease(w)
<1>1. ASSUME NEW j \in Job, \/ Enqueue(j) \/ CancelRead(j) \/ CancelWrite(j)
                            \/ BecomeDue(j) \/ LeaseExpires(j) \/ LockExpires(j)
      PROVE  UNCHANGED workerVars
  BY <1>1 DEF Enqueue, CancelRead, CancelWrite, BecomeDue, LeaseExpires, LockExpires
<1>2. ASSUME NEW i \in Instance, NEW j \in Job, Deliver(i, j) PROVE UNCHANGED workerVars
  BY <1>2 DEF Deliver
<1>3. ASSUME NEW i \in Instance, ReconcilerStep(i) \/ Terminate(i) PROVE UNCHANGED workerVars
  BY <1>3 DEF ReconcilerStep, Requeue, Claim, ClaimNone, Submit, SubmitRejected, Terminate
<1>4. ASSUME NEW i \in Instance, Crash(i) \/ Exit(i)
      PROVE  Restart(i) /\ (Fault("crash") \/ ctxDone[i])
  BY <1>4 DEF Crash, Exit
<1>5. QED
  BY <1>1, <1>2, <1>3, <1>4 DEF Next

\* A step of worker w leaves the other workers alone.
LEMMA OneWorker ==
    ASSUME WorkerType, NEW w \in Worker, WorkerStep(w) \/ RenewLease(w), NEW x \in Worker, x # w
    PROVE  pc'[x] = pc[x] /\ cur'[x] = cur[x]
<1>1. (\E l : pc' = [pc EXCEPT ![w] = l]) \/ pc' = pc
  BY Zenon DEF WorkerStep, Take, LeaveForReconciler, BreakerOpen, LockBusy, GiveUp, Goto, Return,
       RunClaimed, ClaimDelivered, ReleaseClaim, CheckTransition, MarkRunning, StartHandler,
       MarkFailed, MarkEnded, WriteFails, HandlerSucceeds, HandlerFails, HandlerReturns,
       HandlerPanics, Unlock, RenewLease
<1>2. (\E c : cur' = [cur EXCEPT ![w] = c]) \/ cur' = cur
  BY DEF WorkerStep, Take, LeaveForReconciler, BreakerOpen, LockBusy, GiveUp, Goto, Return,
       RunClaimed, ClaimDelivered, ReleaseClaim, CheckTransition, MarkRunning, StartHandler,
       MarkFailed, MarkEnded, WriteFails, HandlerSucceeds, HandlerFails, HandlerReturns,
       HandlerPanics, Unlock, RenewLease
<1>3. QED
  BY <1>1, <1>2 DEF WorkerType

\* Only these actions touch reconcilers and queues.
LEMMA CopyFrame ==
    Next => \/ UNCHANGED <<recVars, queue>>
            \/ \E i \in Instance, j \in Job : Deliver(i, j)
            \/ \E i \in Instance : ReconcilerStep(i) \/ Restart(i)
            \/ \E w \in Worker : Take(w)
<1>1. ASSUME NEW j \in Job, \/ Enqueue(j) \/ CancelRead(j) \/ CancelWrite(j)
                            \/ BecomeDue(j) \/ LeaseExpires(j) \/ LockExpires(j)
      PROVE  UNCHANGED <<recVars, queue>>
  BY <1>1 DEF Enqueue, CancelRead, CancelWrite, BecomeDue, LeaseExpires, LockExpires
<1>2. ASSUME NEW w \in Worker,
             \/ LeaveForReconciler(w) \/ BreakerOpen(w) \/ LockBusy(w) \/ RunClaimed(w)
             \/ ClaimDelivered(w) \/ ReleaseClaim(w) \/ CheckTransition(w)
      PROVE  UNCHANGED <<recVars, queue>>
  BY <1>2 DEF LeaveForReconciler, BreakerOpen, LockBusy, RunClaimed, ClaimDelivered,
       ReleaseClaim, CheckTransition
<1>3. ASSUME NEW w \in Worker,
             \/ MarkRunning(w) \/ MarkFailed(w) \/ MarkEnded(w) \/ WriteFails(w)
             \/ HandlerSucceeds(w) \/ HandlerFails(w) \/ HandlerPanics(w) \/ Unlock(w)
             \/ RenewLease(w)
      PROVE  UNCHANGED <<recVars, queue>>
  BY <1>3 DEF MarkRunning, MarkFailed, MarkEnded, WriteFails, HandlerSucceeds, HandlerFails,
       HandlerReturns, HandlerPanics, Unlock, RenewLease
<1>4. ASSUME NEW i \in Instance, Terminate(i) PROVE UNCHANGED <<recVars, queue>>
  BY <1>4 DEF Terminate
<1>5. QED
  BY <1>1, <1>2, <1>3, <1>4 DEF Next, WorkerStep, Crash, Exit

(***************************************************************************)
(* The type invariant, one part at a time.                                 *)
(***************************************************************************)

\* The initial state is well typed.
LEMMA TypeInit == Init => TypeOK
<1> SUFFICES ASSUME Init PROVE TypeOK
  OBVIOUS
<1> USE ConduitAssumption
<1>1. TableType
  BY NewRowType, JobStoreAssumption DEF Init, TableType
<1>2. WorkerType /\ ReconcilerType /\ QueueType /\ EnvType
  BY EmptyFacts DEF Init, WorkerType, ReconcilerType, QueueType, EnvType, WorkerPC, RecPC
<1>3. QED
  BY <1>1, <1>2 DEF TypeOK

\* The jobs table.
LEMMA RowsType == TypeOK /\ Next => rows' \in [Job -> Row]
<1> SUFFICES ASSUME TypeOK, Next PROVE rows' \in [Job -> Row]
  OBVIOUS
<1> rows \in [Job -> Row] /\ WorkerType /\ ConduitAssumption
  BY ConduitAssumption DEF TypeOK, TableType
<1>1. ASSUME NEW j \in Job, Enqueue(j) \/ CancelWrite(j) \/ BecomeDue(j) \/ LeaseExpires(j)
      PROVE  rows' \in [Job -> Row]
  <2>1. CASE Enqueue(j)
    BY <2>1, NewRowType DEF Enqueue
  <2>2. CASE CancelWrite(j)
    BY <2>2, SimpleRowType, Zenon DEF CancelWrite
  <2>3. CASE BecomeDue(j)
    BY <2>3, SimpleRowType, Zenon DEF BecomeDue
  <2>4. CASE LeaseExpires(j)
    BY <2>4, SimpleRowType, Zenon DEF LeaseExpires
  <2>5. QED
    BY <1>1, <2>1, <2>2, <2>3, <2>4
<1>2. ASSUME NEW i \in Instance, Requeue(i) PROVE rows' \in [Job -> Row]
  <2>1. CASE RequeueExpiredRunning
    BY <2>1, RequeueRowType DEF RequeueExpiredRunning, ConduitAssumption
  <2>2. QED
    BY <1>2, <2>1 DEF Requeue
<1>3. ASSUME NEW i \in Instance, Claim(i) \/ ClaimNone(i) PROVE rows' \in [Job -> Row]
  BY <1>3, ClaimRowType DEF Claim, ClaimNone
<1>4. ASSUME NEW w \in Worker, ReleaseClaim(w) \/ RenewLease(w) PROVE rows' \in [Job -> Row]
  <2>1. cur[w].id \in Job
    BY <1>4, CopyIsJob DEF ReleaseClaim, RenewLease, WorkerType
  <2>2. ReleaseRow(rows[cur[w].id]) \in Row /\ RenewRow(rows[cur[w].id]) \in Row
    BY <2>1, SimpleRowType, Zenon
  <2>3. \/ rows' = rows
        \/ rows' = [rows EXCEPT ![cur[w].id] = ReleaseRow(rows[cur[w].id])]
        \/ rows' = [rows EXCEPT ![cur[w].id] = RenewRow(rows[cur[w].id])]
    BY <1>4 DEF ReleaseClaim, RenewLease
  <2>4. QED
    BY <2>1, <2>2, <2>3
<1>5. ASSUME NEW w \in Worker, MarkRunning(w) \/ MarkFailed(w) \/ MarkEnded(w) \/ WriteFails(w)
      PROVE  rows' \in [Job -> Row]
  <2>1. pc[w] = "put" /\ (rows' = rows \/ Write(w))
    BY <1>5 DEF MarkRunning, MarkFailed, MarkEnded, WriteFails
  <2>2. cur[w] \in Copy /\ cur[w].id \in Job
    BY <2>1, CopyIsJob DEF WorkerType
  <2>3. QED
    BY <2>1, <2>2, UpdateRowType DEF Write
<1>6. QED
  BY <1>1, <1>2, <1>3, <1>4, <1>5, RowsFrame DEF RowWriter

\* What is counted per job.
LEMMA CountsType ==
    TypeOK /\ Next => /\ inbox' \in [Job -> Nat] /\ runs' \in [Job -> 0..AttemptCap]
                     /\ cancel' \in [Job -> {"none", "checked", "done"}]
<1> DEFINE Goal == /\ inbox' \in [Job -> Nat] /\ runs' \in [Job -> 0..AttemptCap]
                   /\ cancel' \in [Job -> {"none", "checked", "done"}]
<1> SUFFICES ASSUME TypeOK, Next PROVE Goal
  OBVIOUS
<1> TableType /\ WorkerType /\ ConduitAssumption
  BY ConduitAssumption DEF TypeOK
<1>1. ASSUME NEW j \in Job, \/ Enqueue(j) \/ CancelRead(j) \/ CancelWrite(j)
                            \/ BecomeDue(j) \/ LeaseExpires(j) \/ LockExpires(j)
      PROVE  Goal
  BY <1>1 DEF Enqueue, CancelRead, CancelWrite, BecomeDue, LeaseExpires, LockExpires,
       TableType, ConduitAssumption
<1>2. ASSUME NEW i \in Instance, NEW j \in Job, Deliver(i, j) PROVE Goal
  BY <1>2 DEF Deliver, TableType
<1>3. ASSUME NEW i \in Instance, ReconcilerStep(i) \/ Crash(i) \/ Terminate(i) \/ Exit(i)
      PROVE  UNCHANGED <<inbox, cancel, runs>>
  BY <1>3, Zenon DEF ReconcilerStep, Requeue, Claim, ClaimNone, Submit, SubmitRejected, Crash,
       Terminate, Exit, Restart
<1>4. ASSUME NEW w \in Worker, RunClaimed(w) \/ MarkRunning(w) PROVE Goal
  <2>1. pc[w] # "idle" /\ StartHandler(w) /\ UNCHANGED <<inbox, cancel>>
    BY <1>4 DEF RunClaimed, Acquire, MarkRunning
  <2>2. QED
    BY <2>1, AttemptType, CopyIsJob DEF StartHandler, TableType, WorkerType
<1>5. ASSUME NEW w \in Worker,
             \/ Take(w) \/ LeaveForReconciler(w) \/ BreakerOpen(w) \/ LockBusy(w)
             \/ ClaimDelivered(w) \/ ReleaseClaim(w) \/ CheckTransition(w)
      PROVE  UNCHANGED <<inbox, cancel, runs>>
  BY <1>5 DEF Take, LeaveForReconciler, BreakerOpen, LockBusy, ClaimDelivered, ReleaseClaim,
       CheckTransition
<1>6. ASSUME NEW w \in Worker,
             \/ MarkFailed(w) \/ MarkEnded(w) \/ WriteFails(w) \/ HandlerSucceeds(w)
             \/ HandlerFails(w) \/ HandlerPanics(w) \/ Unlock(w) \/ RenewLease(w)
      PROVE  UNCHANGED <<inbox, cancel, runs>>
  BY <1>6 DEF MarkFailed, MarkEnded, WriteFails, HandlerSucceeds, HandlerFails, HandlerReturns,
       HandlerPanics, Unlock, RenewLease
<1>7. QED
  BY <1>1, <1>2, <1>3, <1>4, <1>5, <1>6 DEF Next, WorkerStep, TableType

\* A worker in Run goes on with a copy, its renewal running or not.
LEMMA MoveType ==
    ASSUME WorkerType, NEW w \in Worker, NEW l \in WorkerPC \ {"idle"}, NEW c \in Copy,
           pc' = [pc EXCEPT ![w] = l], cur' = [cur EXCEPT ![w] = c],
           renew' = renew \/ renew' = [renew EXCEPT ![w] = TRUE]
    PROVE  WorkerType'
  BY CopyIsJob, Zenon DEF WorkerType

\* Run returns.
LEMMA ReturnType == ASSUME WorkerType, NEW w \in Worker, Return(w) PROVE WorkerType'
  BY DEF WorkerType, Return, WorkerPC

\* A worker in Run goes on with its own copy.
LEMMA GotoType ==
    ASSUME WorkerType, NEW w \in Worker, pc[w] # "idle", NEW l \in WorkerPC \ {"idle"}, Goto(w, l)
    PROVE  WorkerType'
  BY DEF WorkerType, Goto

\* The workers.
LEMMA WorkersType == TypeOK /\ Next => WorkerType'
<1> SUFFICES ASSUME TypeOK, Next PROVE WorkerType'
  OBVIOUS
<1> WorkerType /\ QueueType /\ ConduitAssumption
  BY ConduitAssumption DEF TypeOK
<1>1. CASE UNCHANGED workerVars
  BY <1>1 DEF workerVars, WorkerType
<1>2. ASSUME NEW i \in Instance, Restart(i) PROVE WorkerType'
  BY <1>2, Zenon DEF Restart, WorkerType, WorkerPC
<1>3. ASSUME NEW w \in Worker, Take(w) PROVE WorkerType'
  <2>1. Head(queue[Home[w]]) \in Copy
    BY <1>3, TailFacts DEF Take, QueueType, ConduitAssumption
  <2>2. QED
    BY <1>3, <2>1, MoveType, Zenon DEF Take, WorkerPC
<1>4. ASSUME NEW w \in Worker, LeaveForReconciler(w) \/ ReleaseClaim(w) \/ Unlock(w) PROVE WorkerType'
  BY <1>4, ReturnType DEF LeaveForReconciler, ReleaseClaim, Unlock
<1>5. ASSUME NEW w \in Worker, BreakerOpen(w) \/ LockBusy(w) PROVE WorkerType'
  BY <1>5, ReturnType, GotoType DEF BreakerOpen, LockBusy, GiveUp, WorkerPC
<1>6. ASSUME NEW w \in Worker, CheckTransition(w) \/ MarkEnded(w) \/ WriteFails(w) \/ HandlerPanics(w)
      PROVE  WorkerType'
  BY <1>6, GotoType DEF CheckTransition, MarkEnded, WriteFails, HandlerPanics, WorkerPC
<1>7. ASSUME NEW w \in Worker, RunClaimed(w) \/ MarkRunning(w) PROVE WorkerType'
  BY <1>7, Zenon DEF RunClaimed, Acquire, MarkRunning, StartHandler, WorkerType, WorkerPC
<1>8. ASSUME NEW w \in Worker, ClaimDelivered(w) PROVE WorkerType'
  <2>1. PICK t \in Token : cur' = [cur EXCEPT ![w] = ClaimedByWorker(cur[w], t)]
    BY <1>8, Zenon DEF ClaimDelivered
  <2>2. cur[w] \in Copy /\ renew' = renew /\ pc' = [pc EXCEPT ![w] = "get"]
    BY <1>8 DEF ClaimDelivered, Acquire, WorkerType
  <2>3. ClaimedByWorker(cur[w], t) \in Copy
    BY <2>2, DeliveredType
  <2>4. QED
    BY <2>1, <2>2, <2>3, MoveType, Zenon DEF WorkerPC
<1>9. ASSUME NEW w \in Worker, MarkFailed(w) PROVE WorkerType'
  <2>1. Rescheduled(cur[w]) \in Copy
    BY <1>9, RetryType DEF MarkFailed, WorkerType
  <2>2. QED
    BY <1>9, <2>1, MoveType, Zenon DEF MarkFailed, WorkerPC
<1>10. ASSUME NEW w \in Worker, HandlerSucceeds(w) \/ HandlerFails(w) PROVE WorkerType'
  <2>1. PICK s \in JobState : HandlerReturns(w, s)
    BY <1>10 DEF HandlerSucceeds, HandlerFails, JobState
  <2>2. WithResult(cur[w], s) \in Copy
    BY <2>1, ResultType DEF HandlerReturns, WorkerType
  <2>3. QED
    BY <2>1, <2>2, MoveType, Zenon DEF HandlerReturns, WorkerPC
<1>11. ASSUME NEW w \in Worker, RenewLease(w) PROVE WorkerType'
  BY <1>11, Zenon DEF RenewLease, WorkerType
<1>12. QED
  BY <1>1, <1>2, <1>3, <1>4, <1>5, <1>6, <1>7, <1>8, <1>9, <1>10, <1>11, WorkerFrame DEF WorkerStep

\* The reconcilers and the queues.
LEMMA CopiesType == TypeOK /\ Next => ReconcilerType' /\ QueueType'
<1> SUFFICES ASSUME TypeOK, Next PROVE ReconcilerType' /\ QueueType'
  OBVIOUS
<1> TableType /\ ReconcilerType /\ QueueType /\ ConduitAssumption
  BY ConduitAssumption DEF TypeOK
<1>1. CASE UNCHANGED <<recVars, queue>>
  BY <1>1 DEF recVars, ReconcilerType, QueueType
<1>2. ASSUME NEW i \in Instance, NEW j \in Job, Deliver(i, j) PROVE ReconcilerType' /\ QueueType'
  <2> DEFINE c == CopyOf(j, CreateRow(TRUE))
  <2>1. c \in Copy /\ queue' = [queue EXCEPT ![i] = Append(queue[i], c)] /\ UNCHANGED recVars
    BY <1>2, MessageType, Zenon DEF Deliver
  <2> HIDE DEF c
  <2>2. Append(queue[i], c) \in Seq(Copy)
    BY <2>1, AppendFacts DEF QueueType
  <2>3. QED
    BY <2>1, <2>2 DEF QueueType, recVars, ReconcilerType
<1>3. ASSUME NEW i \in Instance, Requeue(i) \/ ClaimNone(i) \/ SubmitRejected(i)
      PROVE  ReconcilerType' /\ QueueType'
  <2>1. /\ queue' = queue
        /\ rn' = rn \/ rn' = [rn EXCEPT ![i] = 0]
        /\ \E l \in {"idle", "claim"} : rpc' = [rpc EXCEPT ![i] = l]
        /\ rcur' = [rcur EXCEPT ![i] = NoJob] \/ (rcur' = rcur /\ rpc[i] # "submit")
    BY <1>3 DEF Requeue, ClaimNone, SubmitRejected
  <2>2. ReconcilerType'
    BY <2>1 DEF ReconcilerType, RecPC
  <2>3. QED
    BY <2>1, <2>2 DEF QueueType
<1>4. ASSUME NEW i \in Instance, Claim(i) PROVE ReconcilerType' /\ QueueType'
  <2>1. PICK j \in Job, t \in Token :
          IF ScanFails(j, ClaimRow(rows[j], t))
          THEN /\ rpc' = [rpc EXCEPT ![i] = "idle"]
               /\ UNCHANGED rcur
          ELSE /\ rpc' = [rpc EXCEPT ![i] = "submit"]
               /\ rcur' = [rcur EXCEPT ![i] = CopyOf(j, ClaimRow(rows[j], t))]
    BY <1>4 DEF Claim
  <2>2. CopyOf(j, ClaimRow(rows[j], t)) \in Copy
    BY ClaimCopyType DEF TableType
  <2>3. UNCHANGED <<rn, queue>> /\ rpc[i] = "claim"
    BY <1>4 DEF Claim
  <2>4. ReconcilerType'
    BY <2>1, <2>2, <2>3, CopyIsJob DEF ReconcilerType, RecPC
  <2>5. QED
    BY <2>3, <2>4 DEF QueueType
<1>5. ASSUME NEW i \in Instance, Submit(i) PROVE ReconcilerType' /\ QueueType'
  <2>1. Append(queue[i], rcur[i]) \in Seq(Copy)
    BY <1>5, AppendFacts DEF Submit, ReconcilerType, QueueType
  <2>2. QED
    BY <1>5, <2>1 DEF Submit, ReconcilerType, RecPC, QueueType
<1>6. ASSUME NEW i \in Instance, Restart(i) PROVE ReconcilerType' /\ QueueType'
  BY <1>6, EmptyFacts DEF Restart, ReconcilerType, RecPC, QueueType
<1>7. ASSUME NEW w \in Worker, Take(w) PROVE ReconcilerType' /\ QueueType'
  <2>1. Tail(queue[Home[w]]) \in Seq(Copy)
    BY <1>7, TailFacts DEF Take, QueueType, ConduitAssumption
  <2>2. QED
    BY <1>7, <2>1 DEF Take, recVars, ReconcilerType, QueueType
<1>8. QED
  BY <1>1, <1>2, <1>3, <1>4, <1>5, <1>6, <1>7, CopyFrame DEF ReconcilerStep

\* The record of faults stays, or one fault is spent.
Budget == faults' = faults \/ \E k \in AllFaults : Fault(k)

\* A step changes the record of faults only by spending one.
LEMMA StepBudget == ConduitAssumption /\ Next => Budget
<1> SUFFICES ASSUME ConduitAssumption, Next PROVE Budget
  OBVIOUS
<1> USE DEF ConduitAssumption, AllFaults, Budget
<1>1. ASSUME NEW j \in Job, \/ Enqueue(j) \/ CancelRead(j) \/ CancelWrite(j)
                            \/ BecomeDue(j) \/ LeaseExpires(j) \/ LockExpires(j)
      PROVE  Budget
  BY <1>1 DEF Enqueue, CancelRead, CancelWrite, BecomeDue, LeaseExpires, LockExpires
<1>2. ASSUME NEW i \in Instance, NEW j \in Job, Deliver(i, j) PROVE Budget
  BY <1>2 DEF Deliver
<1>3. ASSUME NEW i \in Instance, ReconcilerStep(i) \/ Crash(i) \/ Terminate(i) \/ Exit(i)
      PROVE  Budget
  BY <1>3 DEF ReconcilerStep, Requeue, Claim, ClaimNone, Submit, SubmitRejected, Crash,
       Terminate, Exit, Answers, Fails
<1>4. ASSUME NEW w \in Worker,
             \/ Take(w) \/ LeaveForReconciler(w) \/ BreakerOpen(w) \/ LockBusy(w)
             \/ RunClaimed(w) \/ ClaimDelivered(w) \/ ReleaseClaim(w) \/ CheckTransition(w)
      PROVE  Budget
  BY <1>4 DEF Take, LeaveForReconciler, BreakerOpen, LockBusy, RunClaimed, ClaimDelivered,
       Acquire, ReleaseClaim, CheckTransition, Answers, Fails
<1>5. ASSUME NEW w \in Worker,
             \/ MarkRunning(w) \/ MarkFailed(w) \/ MarkEnded(w) \/ WriteFails(w)
             \/ HandlerSucceeds(w) \/ HandlerFails(w) \/ HandlerPanics(w) \/ Unlock(w)
             \/ RenewLease(w)
      PROVE  Budget
  BY <1>5 DEF MarkRunning, MarkFailed, MarkEnded, WriteFails, HandlerSucceeds, HandlerFails,
       HandlerReturns, HandlerPanics, Unlock, RenewLease, Answers, Fails
<1>6. QED
  BY <1>1, <1>2, <1>3, <1>4, <1>5 DEF Next, WorkerStep

\* What has been seen stays seen.
LEMMA SeenGrows == Next => faults.seen \subseteq faults'.seen
  BY StepBudget, ConduitAssumption DEF Budget, Fault

\* A fault of a watched kind is seen.
LEMMA FaultSeen == \A k \in Watched : Fault(k) => k \in faults'.seen
  BY DEF Fault

\* The locks.
LEMMA LocksType == TypeOK /\ Next => lock' \in [Job -> Worker \cup {NoWorker, Orphan}]
<1> DEFINE Goal == lock' \in [Job -> Worker \cup {NoWorker, Orphan}]
<1> SUFFICES ASSUME TypeOK, Next PROVE Goal
  OBVIOUS
<1> lock \in [Job -> Worker \cup {NoWorker, Orphan}] /\ WorkerType
  BY DEF TypeOK, EnvType
<1>1. ASSUME NEW j \in Job, \/ Enqueue(j) \/ CancelRead(j) \/ CancelWrite(j)
                            \/ BecomeDue(j) \/ LeaseExpires(j) \/ LockExpires(j)
      PROVE  Goal
  BY <1>1 DEF Enqueue, CancelRead, CancelWrite, BecomeDue, LeaseExpires, LockExpires
<1>2. ASSUME NEW i \in Instance, NEW j \in Job, Deliver(i, j) PROVE Goal
  BY <1>2 DEF Deliver
<1>3. ASSUME NEW i \in Instance, ReconcilerStep(i) \/ Crash(i) \/ Terminate(i) \/ Exit(i)
      PROVE  Goal
  BY <1>3, Zenon DEF ReconcilerStep, Requeue, Claim, ClaimNone, Submit, SubmitRejected, Crash,
       Terminate, Exit, Restart
<1>4. ASSUME NEW w \in Worker, LockBusy(w) \/ RunClaimed(w) \/ ClaimDelivered(w) \/ Unlock(w)
      PROVE  Goal
  <2>1. cur[w].id \in Job
    BY <1>4, CopyIsJob DEF LockBusy, RunClaimed, ClaimDelivered, Acquire, Unlock, WorkerType
  <2>2. \/ lock' = lock \/ lock' = [lock EXCEPT ![cur[w].id] = Orphan]
        \/ lock' = [lock EXCEPT ![cur[w].id] = w]
        \/ lock' = LockAfterRelease(w, NoWorker) \/ lock' = LockAfterRelease(w, Orphan)
    BY <1>4 DEF LockBusy, RunClaimed, ClaimDelivered, Acquire, Unlock
  <2>3. QED
    BY <2>1, <2>2 DEF LockAfterRelease
<1>5. ASSUME NEW w \in Worker,
             \/ Take(w) \/ LeaveForReconciler(w) \/ BreakerOpen(w) \/ ReleaseClaim(w)
             \/ CheckTransition(w) \/ MarkRunning(w) \/ MarkFailed(w) \/ MarkEnded(w)
             \/ WriteFails(w) \/ HandlerSucceeds(w) \/ HandlerFails(w) \/ HandlerPanics(w)
             \/ RenewLease(w)
      PROVE  lock' = lock
  BY <1>5 DEF Take, LeaveForReconciler, BreakerOpen, ReleaseClaim, CheckTransition,
       MarkRunning, MarkFailed, MarkEnded, WriteFails, HandlerSucceeds, HandlerFails,
       HandlerReturns, HandlerPanics, RenewLease
<1>6. QED
  BY <1>1, <1>2, <1>3, <1>4, <1>5 DEF Next, WorkerStep

\* Only SIGTERM and the start of a process touch its context.
LEMMA ContextFrame == Next => ctxDone' = ctxDone \/ \E i \in Instance : Terminate(i) \/ Restart(i)
<1> USE DEF workerVars, recVars
<1>1. ASSUME NEW j \in Job, \/ Enqueue(j) \/ CancelRead(j) \/ CancelWrite(j)
                            \/ BecomeDue(j) \/ LeaseExpires(j) \/ LockExpires(j)
      PROVE  ctxDone' = ctxDone
  BY <1>1 DEF Enqueue, CancelRead, CancelWrite, BecomeDue, LeaseExpires, LockExpires
<1>2. ASSUME NEW i \in Instance, NEW j \in Job, Deliver(i, j) PROVE ctxDone' = ctxDone
  BY <1>2 DEF Deliver
<1>3. ASSUME NEW i \in Instance, ReconcilerStep(i) PROVE ctxDone' = ctxDone
  BY <1>3 DEF ReconcilerStep, Requeue, Claim, ClaimNone, Submit, SubmitRejected
<1>4. ASSUME NEW w \in Worker, WorkerStep(w) \/ RenewLease(w) PROVE ctxDone' = ctxDone
  BY <1>4, Zenon DEF WorkerStep, Take, LeaveForReconciler, BreakerOpen, LockBusy, RunClaimed,
       ClaimDelivered, ReleaseClaim, CheckTransition, MarkRunning, MarkFailed, MarkEnded,
       WriteFails, HandlerSucceeds, HandlerFails, HandlerReturns, HandlerPanics, Unlock, RenewLease
<1>5. QED
  BY <1>1, <1>2, <1>3, <1>4 DEF Next, Crash, Exit

\* The type invariant is inductive.
LEMMA TypeStep == TypeOK /\ [Next]_vars => TypeOK'
<1>1. TypeOK /\ Next => TypeOK'
  <2> SUFFICES ASSUME TypeOK, Next PROVE TypeOK'
    OBVIOUS
  <2>1. faults' \in [left : 0..MaxFaults, seen : SUBSET Watched]
    BY StepBudget, ConduitAssumption DEF Budget, Fault, TypeOK, EnvType
  <2>2. ctxDone' \in [Instance -> BOOLEAN]
    BY ContextFrame, Zenon DEF Terminate, Restart, TypeOK, EnvType
  <2>3. TableType' /\ EnvType'
    BY <2>1, <2>2, RowsType, CountsType, LocksType DEF TableType, EnvType
  <2>4. QED
    BY <2>3, WorkersType, CopiesType DEF TypeOK
<1>2. TypeOK /\ UNCHANGED vars => TypeOK'
  BY DEF vars, workerVars, recVars, TypeOK, TableType, WorkerType, ReconcilerType, QueueType, EnvType
<1>3. QED
  BY <1>1, <1>2

\* The type invariant holds in every reachable state: TypeOK of Conduit.
THEOREM TypeCorrect == Spec => []TypeOK
  BY TypeInit, TypeStep, PTL DEF Spec

-----------------------------------------------------------------------------
(***************************************************************************)
(* The workers: every step moves every worker along jobWorker.Run.         *)
(***************************************************************************)

\* A reason for a call of a worker to fail or for the worker to be gone: the
\* context is cancelled, the process died or a statement reported an error.
Troubled(w) == ctxDone[Home[w]] \/ faults'.seen \cap {"crash", "db"} # {}

\* UpdateJob ends in an error, or records the last state of a run.
CheckRefuses(w) ==
    \/ ScanFails(cur[w].id, rows[cur[w].id])
    \/ ~CanTransition(rows[cur[w].id].state, cur[w].state)

WriteEnds(w) ==
    \/ ~UpdateJobWhere(rows[cur[w].id], cur[w])
    \/ cur[w].state \in {"COMPLETED", "DEAD", "PENDING"} /\ Write(w)

\* The steps of Run that keep the copy.
RunGoesOn(w) ==
    /\ cur'[w] = cur[w]
    /\ \/ pc[w] = "start" /\ pc'[w] = "release" /\ cur[w].state = "RUNNING"
       \/ pc[w] = "start" /\ pc'[w] = "exec" /\ cur[w].state = "RUNNING" /\ Acquire(w)
       \/ pc[w] = "get" /\ pc'[w] = "put" /\ ~CheckRefuses(w)
       \/ pc[w] = "get" /\ pc'[w] = "unlock" /\ (Troubled(w) \/ CheckRefuses(w))
       \/ pc[w] = "put" /\ pc'[w] = "unlock" /\ (Troubled(w) \/ WriteEnds(w))
       \/ pc[w] = "put" /\ pc'[w] = "exec" /\ cur[w].state = "RUNNING" /\ Write(w)
       \/ pc[w] = "exec" /\ pc'[w] = "unlock"

\* The steps of Run that change it.
RunChangesCopy(w) ==
    \/ /\ pc[w] = "start" /\ pc'[w] = "get" /\ cur[w].state # "RUNNING" /\ Acquire(w)
       /\ rows' = rows
       /\ \E t \in Token : Fresh(t) /\ cur'[w] = ClaimedByWorker(cur[w], t)
    \/ /\ pc[w] = "put" /\ pc'[w] = "get" /\ cur[w].state = "FAILED" /\ Write(w)
       /\ cur'[w] = Rescheduled(cur[w])
    \/ /\ pc[w] = "exec" /\ pc'[w] = "get"
       /\ \E s \in {"COMPLETED", "FAILED", "DEAD"} :
            /\ s = "FAILED" => ShouldRetry(cur[w], FALSE)
            /\ cur'[w] = WithResult(cur[w], s)

\* What a step does to a worker.
WorkerMove(w) ==
    \/ pc'[w] = pc[w] /\ cur'[w] = cur[w]
    \/ /\ pc'[w] = "idle" /\ cur'[w] = NoJob
       /\ pc[w] \in {"start", "release", "unlock"} \/ Troubled(w)
    \/ /\ pc[w] = "idle" /\ pc'[w] = "start"
       /\ \E n \in DOMAIN queue[Home[w]] : cur'[w] = queue[Home[w]][n]
    \/ RunGoesOn(w)
    \/ RunChangesCopy(w)

\* Every step moves every worker along Run, or not at all.
LEMMA WorkerMoves == ASSUME TypeOK, Next, NEW x \in Worker PROVE WorkerMove(x)
<1> USE DEF workerVars, recVars
<1> WorkerType /\ QueueType /\ ConduitAssumption
  BY ConduitAssumption DEF TypeOK
<1>a. Fault("crash") => "crash" \in faults'.seen
  BY FaultSeen DEF Watched
<1>b. \A w \in Worker : Fails(Home[w], "db") => Troubled(w)
  BY FaultSeen DEF Watched, Fails, Troubled
<1>1. CASE pc'[x] = pc[x] /\ cur'[x] = cur[x]
  BY <1>1 DEF WorkerMove
<1>2. ASSUME NEW i \in Instance, Restart(i), Fault("crash") \/ ctxDone[i] PROVE WorkerMove(x)
  <2>1. /\ pc'[x] = IF Home[x] = i THEN "idle" ELSE pc[x]
        /\ cur'[x] = IF Home[x] = i THEN NoJob ELSE cur[x]
    BY <1>2 DEF Restart
  <2>2. Home[x] = i => Troubled(x)
    BY <1>a, <1>2 DEF Troubled
  <2>3. QED
    BY <2>1, <2>2 DEF WorkerMove
<1>3. ASSUME Take(x) PROVE WorkerMove(x)
  <2> DEFINE q == queue[Home[x]]
  <2>1. q \in Seq(Copy) /\ q # << >> /\ pc[x] = "idle" /\ pc'[x] = "start" /\ cur'[x] = Head(q)
    BY <1>3 DEF Take, QueueType, WorkerType, ConduitAssumption
  <2>2. Head(q) = q[1] /\ 1 \in DOMAIN q
    BY <2>1, TailFacts
  <2>3. QED
    BY <2>1, <2>2 DEF WorkerMove
<1>4. ASSUME LeaveForReconciler(x) \/ ReleaseClaim(x) \/ Unlock(x) PROVE WorkerMove(x)
  <2>1. pc[x] \in {"start", "release", "unlock"} /\ pc'[x] = "idle" /\ cur'[x] = NoJob
    BY <1>4 DEF LeaveForReconciler, ReleaseClaim, Unlock, Return, WorkerType
  <2>2. QED
    BY <2>1 DEF WorkerMove
<1>5. ASSUME BreakerOpen(x) \/ LockBusy(x) PROVE WorkerMove(x)
  <2>1. pc[x] = "start" /\ GiveUp(x)
    BY <1>5 DEF BreakerOpen, LockBusy
  <2>2. CASE cur[x].state = "RUNNING" /\ Goto(x, "release")
    BY <2>1, <2>2, Zenon DEF Goto, WorkerType, WorkerMove, RunGoesOn
  <2>3. CASE Return(x)
    BY <2>1, <2>3 DEF Return, WorkerType, WorkerMove
  <2>4. QED
    BY <2>1, <2>2, <2>3 DEF GiveUp
<1>6. ASSUME RunClaimed(x) \/ MarkRunning(x) PROVE WorkerMove(x)
  <2>1. /\ \/ pc[x] = "start" /\ Acquire(x)
           \/ pc[x] = "put" /\ Write(x)
        /\ cur[x].state = "RUNNING" /\ pc'[x] = "exec" /\ cur'[x] = cur[x]
    BY <1>6 DEF RunClaimed, MarkRunning, Acquire, StartHandler, WorkerType
  <2>2. QED
    BY <2>1, Zenon DEF WorkerMove, RunGoesOn
<1>7. ASSUME ClaimDelivered(x) PROVE WorkerMove(x)
  <2>1. PICK t \in Token : Fresh(t) /\ cur' = [cur EXCEPT ![x] = ClaimedByWorker(cur[x], t)]
    BY <1>7 DEF ClaimDelivered
  <2>2. /\ Acquire(x) /\ pc[x] = "start" /\ pc'[x] = "get" /\ cur[x].state # "RUNNING"
        /\ rows' = rows
    BY <1>7 DEF ClaimDelivered, Acquire, WorkerType
  <2>3. cur'[x] = ClaimedByWorker(cur[x], t)
    BY <2>1 DEF WorkerType
  <2>4. QED
    BY <2>1, <2>2, <2>3, Zenon DEF WorkerMove, RunChangesCopy
<1>8. ASSUME CheckTransition(x) PROVE WorkerMove(x)
  <2>1. /\ pc[x] = "get" /\ cur'[x] = cur[x]
        /\ \/ pc'[x] = "put" /\ ~CheckRefuses(x)
           \/ pc'[x] = "unlock" /\ (CheckRefuses(x) \/ Fails(Home[x], "db"))
    BY <1>8 DEF CheckTransition, Goto, WorkerType, CheckRefuses
  <2>2. QED
    BY <1>b, <2>1, Zenon DEF WorkerMove, RunGoesOn
<1>9. ASSUME MarkFailed(x) PROVE WorkerMove(x)
  <2>1. /\ pc[x] = "put" /\ pc'[x] = "get" /\ cur[x].state = "FAILED" /\ Write(x)
        /\ cur'[x] = Rescheduled(cur[x])
    BY <1>9 DEF MarkFailed, WorkerType
  <2>2. QED
    BY <2>1 DEF WorkerMove, RunChangesCopy
<1>10. ASSUME MarkEnded(x) \/ WriteFails(x) PROVE WorkerMove(x)
  <2>1. /\ pc[x] = "put" /\ pc'[x] = "unlock" /\ cur'[x] = cur[x]
        /\ WriteEnds(x) \/ Fails(Home[x], "db")
    BY <1>10 DEF MarkEnded, WriteFails, Goto, WorkerType, WriteEnds
  <2>2. QED
    BY <1>b, <2>1 DEF WorkerMove, RunGoesOn
<1>11. ASSUME HandlerSucceeds(x) \/ HandlerFails(x) PROVE WorkerMove(x)
  <2>1. PICK s \in {"COMPLETED", "FAILED", "DEAD"} :
          HandlerReturns(x, s) /\ (s = "FAILED" => ShouldRetry(cur[x], FALSE))
    BY <1>11 DEF HandlerSucceeds, HandlerFails, ShouldRetry
  <2>2. pc[x] = "exec" /\ pc'[x] = "get" /\ cur'[x] = WithResult(cur[x], s)
    BY <2>1 DEF HandlerReturns, WorkerType
  <2>3. QED
    BY <2>1, <2>2 DEF WorkerMove, RunChangesCopy
<1>12. ASSUME HandlerPanics(x) PROVE WorkerMove(x)
  <2>1. pc[x] = "exec" /\ pc'[x] = "unlock" /\ cur'[x] = cur[x]
    BY <1>12 DEF HandlerPanics, Goto, WorkerType
  <2>2. QED
    BY <2>1, Zenon DEF WorkerMove, RunGoesOn
<1>13. ASSUME RenewLease(x) PROVE pc'[x] = pc[x] /\ cur'[x] = cur[x]
  BY <1>13 DEF RenewLease
<1>14. ASSUME NEW w \in Worker, WorkerStep(w) \/ RenewLease(w) PROVE WorkerMove(x)
  <2>1. CASE x # w
    BY <1>1, <1>14, <2>1, OneWorker
  <2>2. CASE x = w
    BY <1>1, <1>3, <1>4, <1>5, <1>6, <1>7, <1>8, <1>9, <1>10, <1>11, <1>12, <1>13, <1>14, <2>2
       DEF WorkerStep
  <2>3. QED
    BY <2>1, <2>2
<1>15. QED
  BY <1>1, <1>2, <1>14, WorkerFrame, Zenon

\* What the copy is then: a claim of the worker's own, a retry, or a result.
ChangedCopy(w) ==
    \/ /\ pc[w] = "start" /\ cur'[w].state = "RUNNING" /\ cur'[w].lease = "future"
       /\ cur'[w].token \in Token /\ Fresh(cur'[w].token) /\ rows' = rows
    \/ /\ pc[w] = "put" /\ cur[w].state = "FAILED" /\ cur'[w].state = "PENDING"
       /\ cur'[w].lease = "null" /\ cur'[w].token = cur[w].token
    \/ /\ pc[w] = "exec" /\ cur'[w].state \in {"COMPLETED", "FAILED", "DEAD"}
       /\ cur'[w].lease = IF cur'[w].state = "FAILED" THEN cur[w].lease ELSE "null"
       /\ cur'[w].token = cur[w].token

\* Run changes a copy in one of these ways, and stays with its job.
LEMMA CopyChanges ==
    ASSUME WorkerType, NEW w \in Worker, RunChangesCopy(w)
    PROVE  cur[w] # NoJob /\ pc'[w] = "get" /\ cur'[w].id = cur[w].id /\ ChangedCopy(w)
<1>1. cur[w] \in Copy /\ cur[w] # NoJob /\ pc'[w] = "get"
  BY Zenon DEF RunChangesCopy, WorkerType
<1>2. ASSUME NEW t \in Token, pc[w] = "start", Fresh(t), cur'[w] = ClaimedByWorker(cur[w], t),
             rows' = rows
      PROVE  cur'[w].id = cur[w].id /\ ChangedCopy(w)
  <2>1. /\ ClaimedByWorker(cur[w], t).id = cur[w].id
        /\ ClaimedByWorker(cur[w], t).state = "RUNNING"
        /\ ClaimedByWorker(cur[w], t).lease = "future"
        /\ ClaimedByWorker(cur[w], t).token = t
    BY <1>1, WorkerClaimFields, Zenon
  <2>2. /\ cur'[w].id = cur[w].id /\ cur'[w].state = "RUNNING" /\ cur'[w].lease = "future"
        /\ cur'[w].token = t
    BY <1>2, <2>1
  <2>3. QED
    BY <1>2, <2>2 DEF ChangedCopy
<1>3. ASSUME pc[w] = "put", cur[w].state = "FAILED", cur'[w] = Rescheduled(cur[w])
      PROVE  cur'[w].id = cur[w].id /\ ChangedCopy(w)
  <2>1. /\ cur'[w].id = cur[w].id /\ cur'[w].state = "PENDING" /\ cur'[w].lease = "null"
        /\ cur'[w].token = cur[w].token
    BY <1>1, <1>3, RetryFields
  <2>2. QED
    BY <1>3, <2>1 DEF ChangedCopy
<1>4. ASSUME NEW s \in {"COMPLETED", "FAILED", "DEAD"}, pc[w] = "exec",
             cur'[w] = WithResult(cur[w], s)
      PROVE  cur'[w].id = cur[w].id /\ ChangedCopy(w)
  <2>1. /\ cur'[w].id = cur[w].id /\ cur'[w].state = s /\ cur'[w].token = cur[w].token
        /\ cur'[w].lease = IF s = "FAILED" THEN cur[w].lease ELSE "null"
    BY <1>1, <1>4, ResultFields DEF JobState
  <2>2. QED
    BY <1>4, <2>1 DEF ChangedCopy
<1>5. QED
  BY <1>1, <1>2, <1>3, <1>4 DEF RunChangesCopy

-----------------------------------------------------------------------------
(***************************************************************************)
(* The execution lock.                                                     *)
(***************************************************************************)

\* A lock that has an owner changes hands only when it runs out or its owner is
\* done with it.
LockMove(j) ==
    \/ lock'[j] = lock[j]
    \/ lock[j] \notin Worker
    \/ "ttl" \in faults'.seen
    \/ pc'[lock[j]] = "idle"

\* Every step moves every lock in one of these ways.
LEMMA LockMoves == ASSUME TypeOK, Next, NEW j \in Job PROVE LockMove(j)
<1> USE DEF workerVars, recVars
<1> WorkerType /\ lock \in [Job -> Worker \cup {NoWorker, Orphan}] /\ ConduitAssumption
  BY ConduitAssumption DEF TypeOK, EnvType
<1>1. CASE lock'[j] = lock[j]
  BY <1>1 DEF LockMove
<1>2. ASSUME NEW k \in Job, LockExpires(k) PROVE LockMove(j)
  <2>1. lock'[j] = lock[j] \/ (k = j /\ (lock[j] = Orphan \/ Fault("ttl")))
    BY <1>2 DEF LockExpires
  <2>2. Fault("ttl") => "ttl" \in faults'.seen
    BY FaultSeen DEF Watched
  <2>3. QED
    BY <2>1, <2>2 DEF LockMove, ConduitAssumption
<1>3. ASSUME NEW i \in Instance, Restart(i) PROVE LockMove(j)
  BY <1>3, Zenon DEF Restart, LockMove
<1>4. ASSUME NEW w \in Worker, LockBusy(w) \/ RunClaimed(w) \/ ClaimDelivered(w) PROVE LockMove(j)
  <2>1. \/ lock' = lock
        \/ /\ lock[cur[w].id] = NoWorker
           /\ \E g : lock' = [lock EXCEPT ![cur[w].id] = g]
    BY <1>4, Zenon DEF LockBusy, RunClaimed, ClaimDelivered, Acquire
  <2>2. lock'[j] = lock[j] \/ lock[j] = NoWorker
    BY <2>1
  <2>3. QED
    BY <2>2 DEF LockMove, ConduitAssumption
<1>5. ASSUME NEW w \in Worker, Unlock(w) PROVE LockMove(j)
  <2>1. pc'[w] = "idle" /\ \E g : lock' = LockAfterRelease(w, g)
    BY <1>5 DEF Unlock, Return, WorkerType
  <2>2. lock'[j] = lock[j] \/ lock[j] = w
    BY <2>1 DEF LockAfterRelease
  <2>3. QED
    BY <2>1, <2>2, Zenon DEF LockMove
<1>6. QED
  <2>1. ASSUME NEW k \in Job, \/ Enqueue(k) \/ CancelRead(k) \/ CancelWrite(k)
                              \/ BecomeDue(k) \/ LeaseExpires(k)
        PROVE  lock' = lock
    BY <2>1 DEF Enqueue, CancelRead, CancelWrite, BecomeDue, LeaseExpires
  <2>2. ASSUME NEW i \in Instance, NEW k \in Job, Deliver(i, k) PROVE lock' = lock
    BY <2>2 DEF Deliver
  <2>3. ASSUME NEW i \in Instance, ReconcilerStep(i) \/ Terminate(i) PROVE lock' = lock
    BY <2>3 DEF ReconcilerStep, Requeue, Claim, ClaimNone, Submit, SubmitRejected, Terminate
  <2>4. ASSUME NEW w \in Worker,
               \/ Take(w) \/ LeaveForReconciler(w) \/ BreakerOpen(w) \/ ReleaseClaim(w)
               \/ CheckTransition(w) \/ MarkRunning(w) \/ MarkFailed(w) \/ MarkEnded(w)
               \/ WriteFails(w) \/ HandlerSucceeds(w) \/ HandlerFails(w) \/ HandlerPanics(w)
               \/ RenewLease(w)
        PROVE  lock' = lock
    BY <2>4, Zenon DEF Take, LeaveForReconciler, BreakerOpen, ReleaseClaim, CheckTransition,
         MarkRunning, MarkFailed, MarkEnded, WriteFails, HandlerSucceeds, HandlerFails,
         HandlerReturns, HandlerPanics, RenewLease
  <2>5. QED
    BY <1>1, <1>2, <1>3, <1>4, <1>5, <2>1, <2>2, <2>3, <2>4 DEF Next, WorkerStep, Crash, Exit

-----------------------------------------------------------------------------
(***************************************************************************)
(* UpdateJob's second statement.                                           *)
(***************************************************************************)

\* What an UpdateJob that finds its row does to the row: it records a new claim
\* on a free row, or it writes a row that carries the writer's token.
LEMMA WriteEffect ==
    ASSUME TypeOK, ClaimInv, NEW w \in Worker, pc[w] = "put", Write(w)
    PROVE  /\ cur[w] \in Copy /\ cur[w].id \in Job /\ cur[w].token \in Token
           /\ \A k \in Job : k # cur[w].id => rows'[k] = rows[k]
           /\ rows'[cur[w].id].state = cur[w].state
           /\ rows'[cur[w].id].lease = cur[w].lease
           /\ rows'[cur[w].id].token =
                IF cur[w].state \in {"COMPLETED", "DEAD", "PENDING"} THEN NoToken ELSE cur[w].token
           /\ \/ /\ cur[w].state = "RUNNING" /\ rows[cur[w].id].state = "PENDING"
                 /\ \A k \in Job : rows[k].token # cur[w].token
              \/ cur[w].state # "RUNNING" /\ rows[cur[w].id].token = cur[w].token
<1> TableType /\ WorkerType
  BY DEF TypeOK
<1>1. cur[w] \in Copy /\ cur[w].id \in Job
  BY CopyIsJob DEF WorkerType
<1>2. cur[w].token \in Token
  BY DEF ClaimInv, CopyShape
<1>3. rows' = [rows EXCEPT ![cur[w].id] = UpdateRow(rows[cur[w].id], cur[w])]
  BY DEF Write
<1>4. cur[w].token # NoToken
  BY <1>2, JobStoreAssumption
<1>5. cur[w].state = "RUNNING" => \A k \in Job : rows[k].token # cur[w].token
  BY DEF ClaimInv, NotYetClaimed
<1>6. \/ rows[cur[w].id].token = cur[w].token
      \/ rows[cur[w].id].state = "PENDING" /\ cur[w].state = "RUNNING"
  BY <1>4 DEF Write, UpdateJobWhere
<1>7. /\ rows'[cur[w].id] = UpdateRow(rows[cur[w].id], cur[w])
      /\ \A k \in Job : k # cur[w].id => rows'[k] = rows[k]
  BY <1>1, <1>3 DEF TableType
<1>8. /\ UpdateRow(rows[cur[w].id], cur[w]).state = cur[w].state
      /\ UpdateRow(rows[cur[w].id], cur[w]).lease = cur[w].lease
      /\ UpdateRow(rows[cur[w].id], cur[w]).token =
           IF cur[w].state \in {"COMPLETED", "DEAD", "PENDING"} THEN NoToken ELSE cur[w].token
  BY <1>1, UpdateFields DEF TableType
<1>9. QED
  BY <1>1, <1>2, <1>5, <1>6, <1>7, <1>8

-----------------------------------------------------------------------------
(***************************************************************************)
(* The claims at first, in a step that changes nothing, and of workers.    *)
(***************************************************************************)

\* The invariant holds before any job is inserted.
LEMMA ClaimInit == Init => ClaimInv
<1> SUFFICES ASSUME Init PROVE ClaimInv
  OBVIOUS
<1>1. /\ \A j \in Job : /\ rows[j].state = "ABSENT" /\ rows[j].token = NoToken
                        /\ rows[j].lease = "null"
      /\ \A w \in Worker : cur[w] = NoJob /\ pc[w] = "idle"
      /\ \A i \in Instance : rcur[i] = NoJob /\ DOMAIN queue[i] = {}
  BY EmptyFacts DEF Init, AbsentRow
<1>2. CopyShape /\ OneHolder
  BY <1>1 DEF CopyShape, OneHolder, Uses
<1>3. ClaimMatchesState /\ TokenHome /\ NotYetClaimed /\ CheckedWrite /\ DeadIsUnowned
  BY <1>1, JobStoreAssumption
     DEF ClaimMatchesState, TokenHome, NotYetClaimed, CheckedWrite, DeadIsUnowned
<1>4. QED
  BY <1>2, <1>3 DEF ClaimInv

\* A step that changes nothing keeps the claims.
LEMMA ClaimStutters == ClaimInv /\ UNCHANGED vars => ClaimInv'
<1> SUFFICES ASSUME ClaimInv, UNCHANGED vars PROVE ClaimInv'
  OBVIOUS
<1> UNCHANGED <<rows, cancel, queue, pc, cur, rcur>>
  BY DEF vars, workerVars, recVars
<1>1. CopyShape' /\ ClaimMatchesState' /\ DeadIsUnowned'
  BY DEF ClaimInv, CopyShape, ClaimMatchesState, DeadIsUnowned
<1>2. OneHolder'
  BY DEF ClaimInv, OneHolder, Uses
<1>3. TokenHome'
  BY DEF ClaimInv, TokenHome, Uses
<1>4. NotYetClaimed' /\ CheckedWrite'
  BY DEF ClaimInv, NotYetClaimed, CheckedWrite
<1>5. QED
  BY <1>1, <1>2, <1>3, <1>4 DEF ClaimInv

\* Two workers with one token are the same.
LEMMA SameWorker ==
    ASSUME TypeOK, ClaimInv, NEW w \in Worker, NEW v \in Worker, pc[w] # "idle", pc[v] # "idle",
           cur[w].token \in Token, cur[v].token = cur[w].token
    PROVE  v = w
<1>1. cur[w] # NoJob /\ cur[v] # NoJob
  BY DEF TypeOK, WorkerType
<1>2. Uses(cur[w], cur[w].token) /\ Uses(cur[v], cur[w].token)
  BY <1>1 DEF Uses
<1>3. QED
  BY <1>2 DEF ClaimInv, OneHolder

=============================================================================
