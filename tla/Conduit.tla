------------------------------ MODULE Conduit -------------------------------
(***************************************************************************)
(* The life of a job in a Conduit deployment: the service inserts it, the  *)
(* Kafka consumer or the reconciler of some instance puts a copy of it in  *)
(* that instance's worker pool, a worker runs it under the execution lock, *)
(* and the outcome is written back to the jobs table.  Clients may cancel. *)
(*                                                                         *)
(* Every process works on a COPY of the row (models.Job is passed by       *)
(* value), so the copy in a pool queue, in a reconciler's hand or in a     *)
(* worker can be older than the row.  The lease token in the copy is what  *)
(* ties it to one claim of the row.                                        *)
(*                                                                         *)
(* Steps are store statements, lock calls and channel operations.  The     *)
(* circuit breaker and the quorum of Redis nodes appear by their answers.  *)
(* What the environment may do wrong is drawn from FaultKinds and counted  *)
(* by the budget MaxFaults:                                                *)
(*   crash    the process of an instance dies and is started again         *)
(*   term     SIGTERM: the context of main.run is cancelled                *)
(*   db       a statement reports an error, whether or not it took effect  *)
(*   redis    a lock call reports an error                                 *)
(*   breaker  breaker.Allow answers false                                  *)
(*   lapse    a lease runs out while a live process holds the claim (it    *)
(*            waits in a queue, or its renewal failed or came too late)    *)
(*   ttl      the execution lock runs out while its owner is alive         *)
(*   panic    a task handler panics                                        *)
(*   skew     the clocks of PostgreSQL and of the worker differ            *)
(***************************************************************************)
EXTENDS JobStore, Sequences, FiniteSets

CONSTANTS
    Job, Instance, Worker,
    Home,               \* the instance a worker slot belongs to
    NoJob, NoWorker,
    Orphan,             \* holder of a lock whose owner is gone
    PoolCapacity,       \* jobs waiting in a pool: the channel and the
                        \* one the dispatcher holds
    BatchSize,          \* ReconcilerConfig.BatchSize
    MaxRetries,         \* Task.MaxRetries of each job
    EngineMaxAttempts,  \* retry.Config.MaxAttempts
    HasKey,             \* whether the job has an idempotency key
    NullScan,           \* whether scanning NULL into a Go string fails
    Cancellable,        \* the jobs some client cancels
    MaxDeliveries,      \* how often Kafka hands out one message
    FaultKinds, MaxFaults

AllFaults == {"crash", "term", "db", "redis", "breaker", "lapse",
              "ttl", "panic", "skew"}

\* The kinds of fault whose absence some property asks for.
Watched == {"crash", "term", "db", "lapse", "ttl"}

ASSUME ConduitAssumption ==
    /\ Home \in [Worker -> Instance]
    /\ NoWorker \notin Worker /\ Orphan \notin Worker /\ Orphan # NoWorker
    /\ PoolCapacity \in Nat \ {0} /\ BatchSize \in Nat \ {0}
    /\ MaxRetries \in [Job -> Nat] /\ EngineMaxAttempts \in Nat
    /\ HasKey \in [Job -> BOOLEAN] /\ NullScan \in BOOLEAN
    /\ Cancellable \subseteq Job
    /\ MaxDeliveries \in Nat
    /\ FaultKinds \subseteq AllFaults /\ MaxFaults \in Nat

\* models.Job as it travels through Kafka, the pool queue and a worker.
Copy == [id : Job, state : JobState, attempt : 0..AttemptCap, due : BOOLEAN,
         lease : Lease, token : Token \cup {NoToken}]

ASSUME NoJobAssumption == NoJob \notin Copy

VARIABLES
    rows,     \* the jobs table
    inbox,    \* deliveries of a job's message Kafka may still make
    cancel,   \* progress of the client's CancelJob call
    queue,    \* Pool.jobs of each instance
    pc,       \* where each worker is in jobWorker.Run
    cur,      \* the job argument of Run
    renew,    \* whether the worker's lease renewal goroutine is running
    lock,     \* the holder of the execution lock of a job
    rpc,      \* where each reconciler is in reconcile
    rcur,     \* the job it has claimed and not yet submitted
    rn,       \* its variable claimed
    ctxDone,  \* whether the context of the instance is cancelled
    faults,   \* what is left of the fault budget, and what has happened
    runs      \* history: how often a handler was started for a job

workerVars == <<pc, cur, renew>>
recVars == <<rpc, rcur, rn>>
vars == <<rows, inbox, cancel, queue, workerVars, lock, recVars, ctxDone,
          faults, runs>>

WorkerPC == {"idle", "start", "release", "get", "put", "exec", "unlock"}
RecPC == {"idle", "claim", "submit"}

Init ==
    /\ rows = [j \in Job |-> AbsentRow]
    /\ inbox = [j \in Job |-> 0]
    /\ cancel = [j \in Job |-> "none"]
    /\ queue = [i \in Instance |-> << >>]
    /\ pc = [w \in Worker |-> "idle"]
    /\ cur = [w \in Worker |-> NoJob]
    /\ renew = [w \in Worker |-> FALSE]
    /\ lock = [j \in Job |-> NoWorker]
    /\ rpc = [i \in Instance |-> "idle"]
    /\ rcur = [i \in Instance |-> NoJob]
    /\ rn = [i \in Instance |-> 0]
    /\ ctxDone = [i \in Instance |-> FALSE]
    /\ faults = [left |-> MaxFaults, seen |-> {}]
    /\ runs = [j \in Job |-> 0]

-----------------------------------------------------------------------------
(***************************************************************************)
(* The environment's part of a call.                                       *)
(***************************************************************************)

Fault(k) ==
    /\ k \in FaultKinds /\ faults.left > 0
    /\ faults' = [left |-> faults.left - 1, seen |-> faults.seen \cup ({k} \cap Watched)]

\* A call of instance i on PostgreSQL or Redis that answers, and one that
\* returns an error: every call does once the context is cancelled.
Answers(i) == ~ctxDone[i] /\ UNCHANGED faults
Fails(i, k) == IF ctxDone[i] THEN UNCHANGED faults ELSE Fault(k)

\* scanJob reads idempotency_key and lease_token into plain strings.
ScanFails(j, row) == NullScan /\ (row.token = NoToken \/ ~HasKey[j])

CopyOf(j, row) ==
    [id |-> j, state |-> row.state, attempt |-> row.attempt, due |-> row.due,
     lease |-> row.lease, token |-> row.token]

\* newLeaseToken and newWorkerLeaseToken draw 128 random bits: a token that
\* no row and no copy holds.
Fresh(t) ==
    /\ \A j \in Job : rows[j].token # t
    /\ \A w \in Worker : cur[w] # NoJob => cur[w].token # t
    /\ \A i \in Instance :
         /\ rcur[i] # NoJob => rcur[i].token # t
         /\ \A n \in DOMAIN queue[i] : queue[i][n].token # t

\* Some live process still has the current claim of row j in its memory.
Held(j) ==
    \/ \E w \in Worker : cur[w] # NoJob /\ cur[w].token = rows[j].token
    \/ \E i \in Instance :
         \/ rcur[i] # NoJob /\ rcur[i].token = rows[j].token
         \/ \E n \in DOMAIN queue[i] : queue[i][n].token = rows[j].token

-----------------------------------------------------------------------------
(***************************************************************************)
(* Clients.                                                                *)
(***************************************************************************)

\* JobService.Enqueue: the insert, and the message if the job is due.  The
\* publish runs in a goroutine of its own; a message that never arrives is
\* one that Deliver never takes.
Enqueue(j) ==
    /\ rows[j].state = "ABSENT"
    /\ \E due \in BOOLEAN :
         /\ rows' = [rows EXCEPT ![j] = CreateRow(due)]
         /\ inbox' = [inbox EXCEPT ![j] = IF due THEN MaxDeliveries ELSE 0]
    /\ UNCHANGED <<cancel, queue, workerVars, lock, recVars, ctxDone, faults, runs>>

\* CancelJob, first statement: GetJob and the transition check.
CancelRead(j) ==
    /\ j \in Cancellable /\ cancel[j] = "none"
    /\ rows[j].state # "ABSENT" /\ ~ScanFails(j, rows[j])
    /\ CanTransition(rows[j].state, "DEAD")
    /\ cancel' = [cancel EXCEPT ![j] = "checked"]
    /\ UNCHANGED <<rows, inbox, queue, workerVars, lock, recVars, ctxDone, faults, runs>>

\* CancelJob, second statement.
CancelWrite(j) ==
    /\ cancel[j] = "checked"
    /\ rows' = [rows EXCEPT ![j] = CancelRow(rows[j])]
    /\ cancel' = [cancel EXCEPT ![j] = "done"]
    /\ UNCHANGED <<inbox, queue, workerVars, lock, recVars, ctxDone, faults, runs>>

-----------------------------------------------------------------------------
(***************************************************************************)
(* The pool's two producers: the Kafka consumer and the reconciler.        *)
(***************************************************************************)

\* kafkaJobHandler.Handle and Pool.Submit.  The message is the job as it was
\* when Enqueue inserted it.
Deliver(i, j) ==
    /\ inbox[j] > 0 /\ ~ctxDone[i] /\ Len(queue[i]) < PoolCapacity
    /\ queue' = [queue EXCEPT ![i] = Append(@, CopyOf(j, CreateRow(TRUE)))]
    /\ inbox' = [inbox EXCEPT ![j] = @ - 1]
    /\ UNCHANGED <<rows, cancel, workerVars, lock, recVars, ctxDone, faults, runs>>

\* One statement over at most BatchSize rows.
RequeueExpiredRunning ==
    LET expired == {j \in Job : RequeueWhere(rows[j])}
    IN \E S \in SUBSET expired :
         /\ Cardinality(S) <= BatchSize
         /\ S = expired \/ Cardinality(S) = BatchSize
         /\ rows' = [j \in Job |-> IF j \in S THEN RequeueRow(rows[j], MaxRetries[j])
                                              ELSE rows[j]]

\* reconcile begins with it; an error is logged and the claim loop follows
\* all the same.
Requeue(i) ==
    /\ rpc[i] = "idle" /\ ~ctxDone[i]
    /\ rpc' = [rpc EXCEPT ![i] = "claim"]
    /\ rn' = [rn EXCEPT ![i] = 0]
    /\ \/ UNCHANGED faults /\ RequeueExpiredRunning
       \/ Fault("db") /\ (UNCHANGED rows \/ RequeueExpiredRunning)
    /\ UNCHANGED <<inbox, cancel, queue, workerVars, lock, rcur, ctxDone, runs>>

\* reconcile: ClaimNextJob returns a job.
Claim(i) ==
    /\ rpc[i] = "claim" /\ Answers(i)
    /\ \E j \in Job, t \in Token :
         /\ ClaimWhere(rows[j]) /\ Fresh(t)
         /\ rows' = [rows EXCEPT ![j] = ClaimRow(rows[j], t)]
         /\ IF ScanFails(j, ClaimRow(rows[j], t))
            THEN /\ rpc' = [rpc EXCEPT ![i] = "idle"]
                 /\ UNCHANGED rcur
            ELSE /\ rpc' = [rpc EXCEPT ![i] = "submit"]
                 /\ rcur' = [rcur EXCEPT ![i] = CopyOf(j, ClaimRow(rows[j], t))]
    /\ UNCHANGED <<inbox, cancel, queue, workerVars, lock, rn, ctxDone, runs>>

\* reconcile: no due row, or an error, in which case the row may have been
\* claimed for nobody.
ClaimNone(i) ==
    /\ rpc[i] = "claim"
    /\ \/ /\ Answers(i) /\ \A j \in Job : ~ClaimWhere(rows[j])
          /\ UNCHANGED rows
       \/ /\ Fails(i, "db")
          /\ \/ UNCHANGED rows
             \/ \E j \in Job, t \in Token :
                  /\ ClaimWhere(rows[j]) /\ Fresh(t)
                  /\ rows' = [rows EXCEPT ![j] = ClaimRow(rows[j], t)]
    /\ rpc' = [rpc EXCEPT ![i] = "idle"]
    /\ UNCHANGED <<inbox, cancel, queue, workerVars, lock, rcur, rn, ctxDone, runs>>

\* reconcile: SubmitBlocking succeeds, and the loop goes on up to BatchSize.
Submit(i) ==
    /\ rpc[i] = "submit" /\ Len(queue[i]) < PoolCapacity
    /\ queue' = [queue EXCEPT ![i] = Append(@, rcur[i])]
    /\ rcur' = [rcur EXCEPT ![i] = NoJob]
    /\ rn' = [rn EXCEPT ![i] = @ + 1]
    /\ rpc' = [rpc EXCEPT ![i] = IF rn[i] + 1 < BatchSize THEN "claim" ELSE "idle"]
    /\ UNCHANGED <<rows, inbox, cancel, workerVars, lock, ctxDone, faults, runs>>

\* reconcile: SubmitBlocking gives up because the context is cancelled; the
\* ReleaseClaim that follows is called with the same context.
SubmitRejected(i) ==
    /\ rpc[i] = "submit" /\ ctxDone[i]
    /\ rcur' = [rcur EXCEPT ![i] = NoJob]
    /\ rpc' = [rpc EXCEPT ![i] = "idle"]
    /\ UNCHANGED <<rows, inbox, cancel, queue, workerVars, lock, rn, ctxDone, faults, runs>>

-----------------------------------------------------------------------------
(***************************************************************************)
(* jobWorker.Run.                                                          *)
(***************************************************************************)

\* Run returns and the pool's goroutine frees its slot.
Return(w) ==
    /\ pc' = [pc EXCEPT ![w] = "idle"]
    /\ cur' = [cur EXCEPT ![w] = NoJob]
    /\ renew' = [renew EXCEPT ![w] = FALSE]

Goto(w, l) == pc' = [pc EXCEPT ![w] = l] /\ UNCHANGED <<cur, renew>>

\* Plausible bug: the job stays in the queue while it runs.
TakePeeks(w) ==
    /\ pc[w] = "idle" /\ queue[Home[w]] # << >>
    /\ pc' = [pc EXCEPT ![w] = "start"]
    /\ cur' = [cur EXCEPT ![w] = Head(queue[Home[w]])]
    /\ UNCHANGED <<queue, rows, inbox, cancel, renew, lock, recVars, ctxDone, faults, runs>>

\* Pool.Start: a job leaves the queue for a free slot.
Take(w) ==
    /\ pc[w] = "idle" /\ queue[Home[w]] # << >>
    /\ pc' = [pc EXCEPT ![w] = "start"]
    /\ cur' = [cur EXCEPT ![w] = Head(queue[Home[w]])]
    /\ queue' = [queue EXCEPT ![Home[w]] = Tail(@)]
    /\ UNCHANGED <<rows, inbox, cancel, renew, lock, recVars, ctxDone, faults, runs>>

\* The copy is not due by the worker's clock: Run gives up without releasing
\* the claim.  Both producers hand out due jobs only, so the clocks differ.
LeaveForReconciler(w) ==
    /\ pc[w] = "start" /\ Fault("skew")
    /\ Return(w)
    /\ UNCHANGED <<rows, inbox, cancel, queue, lock, recVars, ctxDone, runs>>

\* releaseClaim applies to claimed copies only.
GiveUp(w) ==
    IF cur[w].state = "RUNNING" /\ cur[w].token # NoToken
    THEN Goto(w, "release") ELSE Return(w)

BreakerOpen(w) ==
    /\ pc[w] = "start" /\ Fault("breaker")
    /\ GiveUp(w)
    /\ UNCHANGED <<rows, inbox, cancel, queue, lock, recVars, ctxDone, runs>>

\* lockMgr.Acquire fails: someone holds the lock, or Redis does not answer
\* (and may have kept the keys).
LockBusy(w) ==
    /\ pc[w] = "start"
    /\ \/ /\ Answers(Home[w]) /\ lock[cur[w].id] # NoWorker
          /\ UNCHANGED lock
       \/ /\ Fails(Home[w], "redis")
          /\ \/ UNCHANGED lock
             \/ /\ lock[cur[w].id] = NoWorker
                /\ lock' = [lock EXCEPT ![cur[w].id] = Orphan]
    /\ GiveUp(w)
    /\ UNCHANGED <<rows, inbox, cancel, queue, recVars, ctxDone, runs>>

\* Plausible bug: the lock is taken over from whoever holds it.
AcquireSteals(w) ==
    /\ pc[w] = "start" /\ Answers(Home[w])
    /\ lock' = [lock EXCEPT ![cur[w].id] = w]

Acquire(w) ==
    /\ pc[w] = "start" /\ Answers(Home[w]) /\ lock[cur[w].id] = NoWorker
    /\ lock' = [lock EXCEPT ![cur[w].id] = w]

\* The handler is called, with lease renewal running beside it.
StartHandler(w) ==
    /\ pc' = [pc EXCEPT ![w] = "exec"]
    /\ renew' = [renew EXCEPT ![w] = TRUE]
    /\ runs' = [runs EXCEPT ![cur[w].id] = NextAttempt(@)]

\* A copy from the reconciler is RUNNING and is executed as it is.
RunClaimed(w) ==
    /\ Acquire(w)
    /\ cur[w].state = "RUNNING"
    /\ StartHandler(w)
    /\ UNCHANGED <<rows, inbox, cancel, queue, cur, recVars, ctxDone>>

ClaimedByWorker(job, t) ==
    [job EXCEPT !.state = "RUNNING", !.attempt = NextAttempt(job.attempt),
                !.lease = "future", !.token = t]

\* A copy from Kafka is PENDING and is claimed by the worker with UpdateJob.
ClaimDelivered(w) ==
    /\ Acquire(w)
    /\ cur[w].state # "RUNNING"
    /\ \E t \in Token :
         /\ Fresh(t)
         /\ cur' = [cur EXCEPT ![w] = ClaimedByWorker(cur[w], t)]
    /\ pc' = [pc EXCEPT ![w] = "get"]
    /\ UNCHANGED <<rows, inbox, cancel, queue, renew, recVars, ctxDone, runs>>

\* releaseClaim: the statement's result is only logged.
ReleaseClaim(w) ==
    LET released == IF OwnsClaim(rows[cur[w].id], cur[w])
                    THEN [rows EXCEPT ![cur[w].id] = ReleaseRow(@)] ELSE rows
    IN /\ pc[w] = "release"
       /\ \/ Answers(Home[w]) /\ rows' = released
          \/ Fails(Home[w], "db") /\ rows' \in {rows, released}
       /\ Return(w)
       /\ UNCHANGED <<inbox, cancel, queue, lock, recVars, ctxDone, runs>>

\* UpdateJob, first statement: GetJob and the transition check.  Any error
\* ends the run.
CheckTransition(w) ==
    LET row == rows[cur[w].id]
    IN /\ pc[w] = "get"
       /\ \/ /\ Answers(Home[w])
             /\ IF ~ScanFails(cur[w].id, row) /\ CanTransition(row.state, cur[w].state)
                THEN Goto(w, "put") ELSE Goto(w, "unlock")
          \/ Fails(Home[w], "db") /\ Goto(w, "unlock")
       /\ UNCHANGED <<rows, inbox, cancel, queue, lock, recVars, ctxDone, runs>>

\* UpdateJob, second statement, when it finds the row.
Write(w) ==
    /\ UpdateJobWhere(rows[cur[w].id], cur[w])
    /\ rows' = [rows EXCEPT ![cur[w].id] = UpdateRow(@, cur[w])]

\* The claim of a delivered job is recorded, and its handler called.
MarkRunning(w) ==
    /\ pc[w] = "put" /\ cur[w].state = "RUNNING" /\ Answers(Home[w])
    /\ Write(w)
    /\ StartHandler(w)
    /\ UNCHANGED <<inbox, cancel, queue, cur, lock, recVars, ctxDone>>

Rescheduled(job) == [job EXCEPT !.state = "PENDING", !.due = FALSE, !.lease = "null"]

\* Plausible bug: the retry ends with the first of its two writes.
MarkFailedOnly(w) ==
    /\ pc[w] = "put" /\ cur[w].state = "FAILED" /\ Answers(Home[w])
    /\ Write(w)
    /\ Goto(w, "unlock")
    /\ UNCHANGED <<inbox, cancel, queue, lock, recVars, ctxDone, runs>>

\* scheduleRetry: FAILED is recorded, and PENDING with a later scheduled_at
\* follows as a second UpdateJob.
MarkFailed(w) ==
    /\ pc[w] = "put" /\ cur[w].state = "FAILED" /\ Answers(Home[w])
    /\ Write(w)
    /\ pc' = [pc EXCEPT ![w] = "get"]
    /\ cur' = [cur EXCEPT ![w] = Rescheduled(cur[w])]
    /\ UNCHANGED <<inbox, cancel, queue, renew, lock, recVars, ctxDone, runs>>

\* The last write of a run: COMPLETED, DEAD, or PENDING for a retry.
MarkEnded(w) ==
    /\ pc[w] = "put" /\ cur[w].state \in {"COMPLETED", "DEAD", "PENDING"}
    /\ Answers(Home[w])
    /\ Write(w)
    /\ Goto(w, "unlock")
    /\ UNCHANGED <<inbox, cancel, queue, lock, recVars, ctxDone, runs>>

\* UpdateJob reports an error: no row matched, or the statement failed and
\* may have taken effect.
WriteFails(w) ==
    /\ pc[w] = "put"
    /\ \/ /\ Answers(Home[w]) /\ ~UpdateJobWhere(rows[cur[w].id], cur[w])
          /\ UNCHANGED rows
       \/ Fails(Home[w], "db") /\ (UNCHANGED rows \/ Write(w))
    /\ Goto(w, "unlock")
    /\ UNCHANGED <<inbox, cancel, queue, lock, recVars, ctxDone, runs>>

ShouldRetry(job, permanent) ==
    /\ ~permanent
    /\ IF MaxRetries[job.id] > 0 THEN job.attempt < MaxRetries[job.id]
       ELSE EngineMaxAttempts = 0 \/ job.attempt < EngineMaxAttempts

\* scheduleRetry leaves LeaseExpiresAt in the copy, the other two clear it.
WithResult(job, state) ==
    [job EXCEPT !.state = state,
                !.lease = IF state = "FAILED" THEN job.lease ELSE "null"]

\* The handler returns; the state to record decides the UpdateJob calls.
HandlerReturns(w, state) ==
    /\ pc[w] = "exec"
    /\ pc' = [pc EXCEPT ![w] = "get"]
    /\ cur' = [cur EXCEPT ![w] = WithResult(cur[w], state)]
    /\ UNCHANGED <<rows, inbox, cancel, queue, renew, lock, recVars, ctxDone,
                   faults, runs>>

HandlerSucceeds(w) == HandlerReturns(w, "COMPLETED")

\* scheduleRetry or deadLetter.
HandlerFails(w) ==
    /\ pc[w] = "exec"
    /\ \E permanent \in BOOLEAN :
         HandlerReturns(w, IF ShouldRetry(cur[w], permanent) THEN "FAILED" ELSE "DEAD")

\* The pool recovers; only the deferred calls of Run are made.
HandlerPanics(w) ==
    /\ pc[w] = "exec" /\ Fault("panic")
    /\ Goto(w, "unlock")
    /\ UNCHANGED <<rows, inbox, cancel, queue, lock, recVars, ctxDone, runs>>

\* Release deletes the key only if it still has the value of this Acquire.
LockAfterRelease(w, gone) ==
    [lock EXCEPT ![cur[w].id] = IF @ = w THEN gone ELSE @]

\* The deferred calls: renewal stops, and the lock goes if it is still ours.
Unlock(w) ==
    /\ pc[w] = "unlock"
    /\ \/ Answers(Home[w]) /\ lock' = LockAfterRelease(w, NoWorker)
       \/ Fails(Home[w], "redis") /\ lock' = LockAfterRelease(w, Orphan)
    /\ Return(w)
    /\ UNCHANGED <<rows, inbox, cancel, queue, recVars, ctxDone, runs>>

\* The renewal goroutine: the first error ends it for good.
RenewLease(w) ==
    /\ renew[w]
    /\ \/ /\ Answers(Home[w]) /\ OwnsClaim(rows[cur[w].id], cur[w])
          /\ rows' = [rows EXCEPT ![cur[w].id] = RenewRow(@)]
          /\ UNCHANGED renew
       \/ /\ \/ Answers(Home[w]) /\ ~OwnsClaim(rows[cur[w].id], cur[w])
             \/ Fails(Home[w], "db")
          /\ renew' = [renew EXCEPT ![w] = FALSE]
          /\ UNCHANGED rows
    /\ UNCHANGED <<inbox, cancel, queue, pc, cur, lock, recVars, ctxDone, runs>>

-----------------------------------------------------------------------------
(***************************************************************************)
(* Time and failures.                                                      *)
(***************************************************************************)

BecomeDue(j) ==
    /\ rows[j].state = "PENDING" /\ ~rows[j].due
    /\ rows' = [rows EXCEPT ![j].due = TRUE]
    /\ UNCHANGED <<inbox, cancel, queue, workerVars, lock, recVars, ctxDone, faults, runs>>

\* The lease of a claim nobody holds any more runs out; that of a claim some
\* process holds may.
LeaseExpires(j) ==
    /\ rows[j].state = "RUNNING" /\ rows[j].lease = "future"
    /\ IF Held(j) THEN Fault("lapse") ELSE UNCHANGED faults
    /\ rows' = [rows EXCEPT ![j].lease = "past"]
    /\ UNCHANGED <<inbox, cancel, queue, workerVars, lock, recVars, ctxDone, runs>>

\* The lock is never renewed: its TTL ends it under a slow owner.
LockExpires(j) ==
    /\ lock[j] # NoWorker
    /\ IF lock[j] = Orphan THEN UNCHANGED faults ELSE Fault("ttl")
    /\ lock' = [lock EXCEPT ![j] = NoWorker]
    /\ UNCHANGED <<rows, inbox, cancel, queue, workerVars, recVars, ctxDone, runs>>

\* The process of instance i is gone and a new one starts.
Restart(i) ==
    /\ pc' = [w \in Worker |-> IF Home[w] = i THEN "idle" ELSE pc[w]]
    /\ cur' = [w \in Worker |-> IF Home[w] = i THEN NoJob ELSE cur[w]]
    /\ renew' = [w \in Worker |-> IF Home[w] = i THEN FALSE ELSE renew[w]]
    /\ lock' = [j \in Job |-> IF lock[j] \in Worker /\ Home[lock[j]] = i
                              THEN Orphan ELSE lock[j]]
    /\ queue' = [queue EXCEPT ![i] = << >>]
    /\ rpc' = [rpc EXCEPT ![i] = "idle"]
    /\ rcur' = [rcur EXCEPT ![i] = NoJob]
    /\ rn' = [rn EXCEPT ![i] = 0]
    /\ ctxDone' = [ctxDone EXCEPT ![i] = FALSE]
    /\ UNCHANGED <<rows, inbox, cancel, runs>>

Crash(i) == Fault("crash") /\ Restart(i)

\* SIGTERM cancels the context every call of the instance uses.
Terminate(i) ==
    /\ ~ctxDone[i] /\ Fault("term")
    /\ ctxDone' = [ctxDone EXCEPT ![i] = TRUE]
    /\ UNCHANGED <<rows, inbox, cancel, queue, workerVars, lock, recVars, runs>>

\* workerPool.Stop returns or its timeout passes, and the process ends.
Exit(i) == ctxDone[i] /\ UNCHANGED faults /\ Restart(i)

-----------------------------------------------------------------------------

WorkerStep(w) ==
    \/ Take(w) \/ LeaveForReconciler(w) \/ BreakerOpen(w) \/ LockBusy(w)
    \/ RunClaimed(w) \/ ClaimDelivered(w) \/ ReleaseClaim(w)
    \/ CheckTransition(w) \/ MarkRunning(w) \/ MarkFailed(w) \/ MarkEnded(w)
    \/ WriteFails(w) \/ HandlerSucceeds(w) \/ HandlerFails(w)
    \/ HandlerPanics(w) \/ Unlock(w)

ReconcilerStep(i) ==
    \/ Requeue(i) \/ Claim(i) \/ ClaimNone(i) \/ Submit(i) \/ SubmitRejected(i)

Next ==
    \/ \E j \in Job : \/ Enqueue(j) \/ CancelRead(j) \/ CancelWrite(j)
                      \/ BecomeDue(j) \/ LeaseExpires(j) \/ LockExpires(j)
    \/ \E i \in Instance, j \in Job : Deliver(i, j)
    \/ \E i \in Instance : ReconcilerStep(i) \/ Crash(i) \/ Terminate(i) \/ Exit(i)
    \/ \E w \in Worker : WorkerStep(w) \/ RenewLease(w)

Spec == Init /\ [][Next]_vars

-----------------------------------------------------------------------------
(***************************************************************************)
(* Fairness: the Go scheduler runs every goroutine, handlers return (each  *)
(* has a timeout), and time passes.  A row that is due is not passed over  *)
(* for ever: ClaimNextJob takes the earliest scheduled_at, which Enqueue   *)
(* always sets, and a row that is given back goes behind with the time of  *)
(* that moment.  Nothing is asked of Kafka, of clients or of the faults,   *)
(* whose number is bounded by the budget.                                  *)
(***************************************************************************)

IsClaimed(j) ==
    /\ rows[j].state = "PENDING"
    /\ \E i \in Instance : Claim(i)
    /\ rows'[j].state = "RUNNING"

Fairness ==
    /\ \A w \in Worker : WF_vars(WorkerStep(w))
    /\ \A i \in Instance : WF_vars(ReconcilerStep(i)) /\ WF_vars(Exit(i))
    /\ \A j \in Job : /\ WF_vars(BecomeDue(j)) /\ SF_vars(IsClaimed(j))
                      /\ WF_vars(LeaseExpires(j) /\ UNCHANGED faults)
                      /\ WF_vars(LockExpires(j) /\ UNCHANGED faults)

FairSpec == Spec /\ Fairness

-----------------------------------------------------------------------------
(***************************************************************************)
(* Properties.                                                             *)
(***************************************************************************)

TableType ==
    /\ rows \in [Job -> Row]
    /\ inbox \in [Job -> Nat]
    /\ cancel \in [Job -> {"none", "checked", "done"}]
    /\ runs \in [Job -> 0..AttemptCap]

WorkerType ==
    /\ pc \in [Worker -> WorkerPC]
    /\ cur \in [Worker -> Copy \cup {NoJob}]
    /\ \A w \in Worker : cur[w] = NoJob <=> pc[w] = "idle"
    /\ renew \in [Worker -> BOOLEAN]
    /\ \A w \in Worker : renew[w] => pc[w] # "idle"

ReconcilerType ==
    /\ rpc \in [Instance -> RecPC]
    /\ rcur \in [Instance -> Copy \cup {NoJob}]
    /\ \A i \in Instance : rcur[i] = NoJob <=> rpc[i] # "submit"
    /\ rn \in [Instance -> Nat]

QueueType == queue \in [Instance -> Seq(Copy)]

EnvType ==
    /\ lock \in [Job -> Worker \cup {NoWorker, Orphan}]
    /\ ctxDone \in [Instance -> BOOLEAN]
    /\ faults \in [left : 0..MaxFaults, seen : SUBSET Watched]

\* The type invariant; a worker holds a job exactly while it is in Run, a
\* reconciler while it is submitting.
TypeOK == TableType /\ WorkerType /\ ReconcilerType /\ QueueType /\ EnvType

\* A row that is being run carries a token and a lease, so that recovery can
\* find it; a row that waits or is completed carries neither, so that it can
\* be claimed and no past owner can write it.  Every writer of the table
\* (claim, release, recovery, retry, completion, cancel) has a part in this.
ClaimMatchesState ==
    \A j \in Job :
      /\ rows[j].state \in {"RUNNING", "FAILED"} =>
           rows[j].token # NoToken /\ rows[j].lease # "null"
      /\ rows[j].state \in {"ABSENT", "PENDING", "COMPLETED"} =>
           rows[j].token = NoToken /\ rows[j].lease = "null"

Uses(job, t) == job # NoJob /\ job.token = t

\* A claim is in one place at a time: no two of the workers, reconcilers and
\* queue entries of all instances hold the same lease token (the comment on
\* ClaimNextJob: "so concurrent workers don't double-claim").
OneHolder ==
    \A t \in Token :
      /\ \A w, v \in Worker : Uses(cur[w], t) /\ Uses(cur[v], t) => w = v
      /\ \A i, k \in Instance : Uses(rcur[i], t) /\ Uses(rcur[k], t) => i = k
      /\ \A i, k \in Instance : \A m \in DOMAIN queue[i], n \in DOMAIN queue[k] :
           queue[i][m].token = t /\ queue[k][n].token = t => i = k /\ m = n
      /\ \A w \in Worker, i \in Instance : Uses(cur[w], t) =>
           /\ ~Uses(rcur[i], t)
           /\ \A n \in DOMAIN queue[i] : queue[i][n].token # t
      /\ \A i, k \in Instance : Uses(rcur[i], t) =>
           \A n \in DOMAIN queue[k] : queue[k][n].token # t

\* The parts that make OneHolder and LegalTransitions inductive.

Claimed(job) == job.state = "RUNNING" /\ job.token \in Token /\ job.lease # "null"
Message(job) == job.state = "PENDING" /\ job.token = NoToken

\* What a copy looks like, by where it is.
CopyShape ==
    /\ \A i \in Instance :
         /\ \A n \in DOMAIN queue[i] : Claimed(queue[i][n]) \/ Message(queue[i][n])
         /\ rcur[i] # NoJob => Claimed(rcur[i])
    /\ \A w \in Worker :
         /\ pc[w] = "start" => Claimed(cur[w]) \/ Message(cur[w])
         /\ pc[w] \in {"release", "exec"} => Claimed(cur[w])
         /\ pc[w] \in {"get", "put", "unlock"} =>
              /\ cur[w].token \in Token
              /\ cur[w].lease # "null" <=> cur[w].state \in {"RUNNING", "FAILED"}

\* A token belongs to one row, and to copies of that row.
TokenHome ==
    /\ \A j, k \in Job : rows[j].token \in Token /\ rows[k].token = rows[j].token => j = k
    /\ \A j \in Job : rows[j].token \in Token =>
         /\ \A w \in Worker : Uses(cur[w], rows[j].token) => cur[w].id = j
         /\ \A i \in Instance :
              /\ Uses(rcur[i], rows[j].token) => rcur[i].id = j
              /\ \A n \in DOMAIN queue[i] :
                   queue[i][n].token = rows[j].token => queue[i][n].id = j

\* Until UpdateJob has recorded a worker's own claim, no row carries it.
NotYetClaimed ==
    \A w \in Worker : pc[w] \in {"get", "put"} /\ cur[w].state = "RUNNING" =>
      \A j \in Job : rows[j].token # cur[w].token

\* The transition a worker has checked is still allowed when it writes, if
\* the row still carries its token and has not been cancelled.
CheckedWrite ==
    \A w \in Worker :
      /\ pc[w] = "put" /\ cur[w].state # "RUNNING"
      /\ rows[cur[w].id].token = cur[w].token
      => CanTransition(rows[cur[w].id].state, cur[w].state) \/ cancel[cur[w].id] = "done"

\* Only a cancel leaves a token on a DEAD row.
DeadIsUnowned ==
    \A j \in Job : rows[j].state = "DEAD" /\ cancel[j] # "done" => rows[j].token = NoToken

\* The inductive invariant behind the claim protocol.
ClaimInv ==
    /\ CopyShape /\ ClaimMatchesState /\ OneHolder /\ TokenHome
    /\ NotYetClaimed /\ CheckedWrite /\ DeadIsUnowned

\* The row of a claim that a process has not begun to give back.
Kept(job) == rows[job.id].token = job.token /\ rows[job.id].state \in {"RUNNING", "DEAD"}

\* Until a lease lapses under a live holder, every claim on its way to a handler,
\* or with one, is the claim the row is under.
ClaimKept ==
    "lapse" \notin faults.seen =>
      /\ \A w \in Worker :
           pc[w] \in {"start", "release", "exec"} /\ cur[w].token \in Token => Kept(cur[w])
      /\ \A i \in Instance :
           /\ rcur[i] # NoJob => Kept(rcur[i])
           /\ \A n \in DOMAIN queue[i] : queue[i][n].token \in Token => Kept(queue[i][n])

\* Until then, what recovery takes is held by nobody.
LeaseKept ==
    "lapse" \notin faults.seen =>
      /\ \A j \in Job : rows[j].state = "RUNNING" /\ rows[j].lease = "past" => ~Held(j)
      /\ \A w \in Worker :
           pc[w] \in {"get", "put"} /\ cur[w].state = "RUNNING" => cur[w].lease = "future"

\* Until a lock runs out under its owner, a worker has it from Acquire to Release.
LockKept ==
    "ttl" \notin faults.seen =>
      \A w \in Worker : pc[w] \in {"get", "put", "exec", "unlock"} => lock[cur[w].id] = w

\* What lease and lock each protect alone, and what makes it inductive: a claim
\* is taken from nobody who still has it, and a lock from nobody who runs under
\* it.
ExclusionInv == ClaimKept /\ LeaseKept /\ LockKept

\* The transitions the table allows: those of CanTransition, the insert, and
\* the return of a claim that was released or lost.
LegalTransition(from, to) ==
    \/ CanTransition(from, to)
    \/ from = "ABSENT" /\ to = "PENDING"
    \/ from = "RUNNING" /\ to = "PENDING"

\* Although UpdateJob checks the transition in one statement and writes in
\* another, a job nobody cancels only makes legal transitions, and never
\* leaves COMPLETED or DEAD: the token fences every write whose check is
\* out of date.
LegalTransitions ==
    [][\A j \in Job : rows'[j].state # rows[j].state /\ cancel[j] = "none"
                      => LegalTransition(rows[j].state, rows'[j].state)]_vars

\* COMPLETED and DEAD are final but for the race of CancelJob, which checks and
\* writes in two statements: a cancel whose check came before the end of the job
\* overwrites it, and a worker whose check came before the cancel and that still
\* has the row's token overwrites the DEAD of the cancel.  Nothing else (claims,
\* releases, recovery, renewals, writers that lost the claim) moves such a row.
TerminalIsFinal ==
    [][\A j \in Job : rows[j].state \in Terminal /\ rows'[j].state # rows[j].state =>
         \/ cancel[j] = "checked" /\ cancel'[j] = "done"
         \/ /\ cancel[j] = "done"
            /\ \E w \in Worker : pc[w] = "put" /\ cur[w].id = j
                               /\ cur[w].token = rows[j].token]_vars

\* Until a lease lapses under a live holder, a handler runs only for the claim
\* the row is under (a cancel marks the row DEAD and leaves the token), however
\* old the copy it was started with.
ExecutesItsClaim ==
    "lapse" \notin faults.seen =>
      \A w \in Worker : pc[w] = "exec" =>
        /\ rows[cur[w].id].token = cur[w].token
        /\ rows[cur[w].id].state \in {"RUNNING", "DEAD"}

\* No two handlers run for one job at the same time (cmd/server/main.go:289,
\* "Distributed lock prevents the same job from executing twice across
\* multiple instances"), unless a lease has lapsed under its holder and a lock
\* has run out under its owner: lease and lock each protect alone.
ExclusiveExecution ==
    ~({"lapse", "ttl"} \subseteq faults.seen) =>
      \A w, v \in Worker :
        pc[w] = "exec" /\ pc[v] = "exec" /\ cur[w].id = cur[v].id => w = v

\* A job with max_retries is handed to its handler at most max_retries times,
\* whatever is released, recovered or retried on the way.  This is about jobs
\* the reconciler dispatches (MaxDeliveries = 0): a message that Kafka delivers
\* late carries the attempt of the insert.
RetryBudget == \A j \in Job : MaxRetries[j] > 0 => runs[j] <= MaxRetries[j]

\* FAILED is only ever a step of scheduleRetry: the worker that wrote it is
\* about to write PENDING.  Nothing else takes a row out of FAILED, so a crash,
\* a shutdown or a failing statement at that point leaves it there.
FailedIsBeingRetried ==
    faults.seen \cap {"crash", "term", "db"} = {} =>
      \A j \in Job : rows[j].state = "FAILED" =>
        \E w \in Worker : /\ pc[w] \in {"get", "put"}
                          /\ cur[w].state = "PENDING"
                          /\ cur[w].token = rows[j].token

\* A worker that leaves Run after its handler succeeded has recorded the
\* completion or has lost the claim, unless its context was cancelled (after
\* SIGTERM, UpdateJob fails), a statement failed or its process died.
SuccessIsRecorded ==
    [][\A w \in Worker :
         /\ pc[w] = "unlock" /\ pc'[w] = "idle" /\ cur[w].state = "COMPLETED"
         /\ faults'.seen \cap {"crash", "db"} = {} /\ ~ctxDone[Home[w]]
         => ~OwnsClaim(rows[cur[w].id], cur[w])]_vars

\* Every job that was accepted ends (README.md:5, "background work that needs
\* to survive crashes and retries").
EventuallyTerminal ==
    \A j \in Job : rows[j].state # "ABSENT" ~> rows[j].state \in Terminal

\* A job without key or retries goes round for ever: no process can scan it once
\* it is claimed, and recovery gives it back whenever its lease has lapsed, since
\* max_retries 0, the default of the API, never makes it DEAD.
NeverRead(j) == NullScan /\ ~HasKey[j] /\ MaxRetries[j] = 0

\* Every job that was accepted ends, or there was a crash, a shutdown or a
\* statement that failed; but for a job that is never read, which goes round
\* without any fault and still keeps no other job from its end.
EndsUndisturbed ==
    \A j \in Job : ~NeverRead(j) =>
      (rows[j].state # "ABSENT" ~>
        \/ rows[j].state \in Terminal
        \/ faults.seen \cap {"crash", "term", "db"} # {})

\* Whatever finitely many faults do, a job comes to rest, and FAILED is the
\* only state besides the terminal ones in which it can, unless it is never read:
\* an unreadable job with max_retries is DEAD when recovery has used them up, one
\* without never rests, and neither holds up the others.
EventuallySettles ==
    \A j \in Job : ~NeverRead(j) =>
      (rows[j].state # "ABSENT" ~> [](rows[j].state \in Terminal \cup {"FAILED"}))

\* Every due job is executed, where nobody cancels it.
EventuallyRuns ==
    \A j \in Job : rows[j].state = "PENDING" /\ rows[j].due ~> runs[j] > 0

-----------------------------------------------------------------------------
(***************************************************************************)
(* What the rest of the system is promised: the job board.  A row's state  *)
(* and token are the board's state and owner.                              *)
(***************************************************************************)

Board == INSTANCE JobBoard WITH
           state <- [j \in Job |-> rows[j].state],
           owner <- [j \in Job |-> rows[j].token]

\* Until a cancel takes effect, the service, the consumers, the reconcilers and
\* the workers of all instances together implement the job board: every claim
\* has one owner, a claim is finished, failed or retried only from the state
\* it is in, and COMPLETED and DEAD are final.
ImplementsBoard ==
    /\ Board!Init
    /\ [][(\A j \in Job : cancel'[j] # "done") => Board!Next]_(Board!vars)

=============================================================================
