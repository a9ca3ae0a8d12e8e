----------------------------- MODULE WorkerPool -----------------------------
(***************************************************************************)
(* worker.Pool of internal/worker/pool.go and the shutdown of              *)
(* cmd/server/main.go around it: the goroutines of the Kafka consumer,     *)
(* which call Submit, the reconciler, which calls SubmitBlocking, the      *)
(* dispatcher, one goroutine per running job, and the main goroutine,      *)
(* which on SIGTERM stops the reconciler and then the pool.  The consumer  *)
(* is not waited for.                                                      *)
(*                                                                         *)
(* Steps are channel operations, WaitGroup operations and the check of     *)
(* ctx.Err() at the start of Submit: other goroutines run between any two. *)
(* A select with several ready cases takes any of them, and a send on a    *)
(* closed channel is always ready and panics.                              *)
(***************************************************************************)
EXTENDS Naturals, Sequences, FiniteSets

CONSTANTS
    Job,
    Consumer,      \* goroutines of the Kafka consumer: one per partition
    Reconciler,    \* the goroutine of the reconciler
    NoJob,
    Concurrency, QueueSize

ASSUME PoolAssumption ==
    /\ Concurrency \in Nat \ {0} /\ QueueSize \in Nat \ {0}
    /\ NoJob \notin Job /\ Reconciler \notin Consumer

Submitter == Consumer \cup {Reconciler}

VARIABLES
    offered,    \* jobs nobody has tried to submit yet, or whose submit failed
    hand,       \* the job a submitter has, past the check of ctx.Err()
    queue,      \* the channel Pool.jobs
    closed,     \* whether it is closed
    disp,       \* where the dispatcher is
    dispJob,    \* the job it has received
    slots,      \* the length of the channel Pool.semaphore
    run,        \* where the goroutine of a job is
    poolWg,     \* the counter of Pool.wg
    ctxDone,    \* whether the context of main.run is cancelled
    main,       \* where the main goroutine is
    crashed     \* a send on a closed channel ended the process

vars == <<offered, hand, queue, closed, disp, dispJob, slots, run, poolWg, ctxDone,
          main, crashed>>

DispPC == {"select", "acquire", "spawn", "return", "done"}
RunPC == {"none", "run", "ended", "freed", "done"}
MainPC == {"serve", "close", "wait", "drained", "timeout"}

Init ==
    /\ offered = Job
    /\ hand = [s \in Submitter |-> NoJob]
    /\ queue = << >> /\ closed = FALSE
    /\ disp = "select" /\ dispJob = NoJob
    /\ slots = 0 /\ run = [j \in Job |-> "none"]
    /\ poolWg = 1
    /\ ctxDone = FALSE /\ main = "serve" /\ crashed = FALSE

\* The process runs until main.run returns or a goroutine panics.
ProcessUp == main \notin {"drained", "timeout"} /\ ~crashed

-----------------------------------------------------------------------------
(***************************************************************************)
(* Submit and SubmitBlocking.                                              *)
(***************************************************************************)

\* The check of ctx.Err().  After Reconciler.Stop its goroutine is gone.
Check(s, j) ==
    /\ ProcessUp /\ hand[s] = NoJob /\ j \in offered /\ ~ctxDone
    /\ hand' = [hand EXCEPT ![s] = j]
    /\ offered' = offered \ {j}
    /\ UNCHANGED <<queue, closed, disp, dispJob, slots, run, poolWg, ctxDone, main, crashed>>

Send(s) ==
    /\ ProcessUp /\ hand[s] # NoJob /\ ~closed /\ Len(queue) < QueueSize
    /\ queue' = Append(queue, hand[s])
    /\ hand' = [hand EXCEPT ![s] = NoJob]
    /\ UNCHANGED <<offered, closed, disp, dispJob, slots, run, poolWg, ctxDone, main, crashed>>

SendOnClosed(s) ==
    /\ ProcessUp /\ hand[s] # NoJob /\ closed
    /\ crashed' = TRUE
    /\ UNCHANGED <<offered, hand, queue, closed, disp, dispJob, slots, run, poolWg, ctxDone, main>>

\* ctx is done, or, for Submit alone, the queue is full.  The caller keeps its
\* message or releases its claim.
Reject(s) ==
    /\ ProcessUp /\ hand[s] # NoJob
    /\ ctxDone \/ (s # Reconciler /\ ~closed /\ Len(queue) >= QueueSize)
    /\ hand' = [hand EXCEPT ![s] = NoJob]
    /\ offered' = offered \cup {hand[s]}
    /\ UNCHANGED <<queue, closed, disp, dispJob, slots, run, poolWg, ctxDone, main, crashed>>

-----------------------------------------------------------------------------
(***************************************************************************)
(* The dispatcher and the goroutines of the jobs.                          *)
(***************************************************************************)

\* Plausible bug: the job is read and stays in the queue.
ReceivePeeks ==
    /\ ProcessUp /\ disp = "select" /\ queue # << >>
    /\ dispJob' = Head(queue)
    /\ disp' = "acquire"
    /\ UNCHANGED <<offered, hand, queue, closed, slots, run, poolWg, ctxDone, main, crashed>>

Receive ==
    /\ ProcessUp /\ disp = "select" /\ queue # << >>
    /\ dispJob' = Head(queue) /\ queue' = Tail(queue)
    /\ disp' = "acquire"
    /\ UNCHANGED <<offered, hand, closed, slots, run, poolWg, ctxDone, main, crashed>>

\* The channel is closed and empty, or ctx is done.
LeaveLoop ==
    /\ ProcessUp /\ disp = "select"
    /\ (closed /\ queue = << >>) \/ ctxDone
    /\ disp' = "return"
    /\ UNCHANGED <<offered, hand, queue, closed, dispJob, slots, run, poolWg, ctxDone, main, crashed>>

AcquireSlot ==
    /\ ProcessUp /\ disp = "acquire" /\ slots < Concurrency
    /\ slots' = slots + 1 /\ disp' = "spawn"
    /\ UNCHANGED <<offered, hand, queue, closed, dispJob, run, poolWg, ctxDone, main, crashed>>

\* Plausible bug: the goroutine is started without wg.Add(1).
SpawnUncounted ==
    /\ ProcessUp /\ disp = "spawn"
    /\ run' = [run EXCEPT ![dispJob] = "run"]
    /\ disp' = "select" /\ dispJob' = NoJob
    /\ UNCHANGED <<offered, hand, queue, closed, slots, poolWg, ctxDone, main, crashed>>

SpawnRun ==
    /\ ProcessUp /\ disp = "spawn"
    /\ poolWg' = poolWg + 1
    /\ run' = [run EXCEPT ![dispJob] = "run"]
    /\ disp' = "select" /\ dispJob' = NoJob
    /\ UNCHANGED <<offered, hand, queue, closed, slots, ctxDone, main, crashed>>

DispatcherDone ==
    /\ ProcessUp /\ disp = "return"
    /\ poolWg' = poolWg - 1 /\ disp' = "done"
    /\ UNCHANGED <<offered, hand, queue, closed, dispJob, slots, run, ctxDone, main, crashed>>

\* Runner.Run returns, or panics and is recovered.
RunReturns(j) ==
    /\ ProcessUp /\ run[j] = "run"
    /\ run' = [run EXCEPT ![j] = "ended"]
    /\ UNCHANGED <<offered, hand, queue, closed, disp, dispJob, slots, poolWg, ctxDone, main, crashed>>

\* Plausible bug: the slot is lost.
KeepSlot(j) ==
    /\ ProcessUp /\ run[j] = "ended"
    /\ run' = [run EXCEPT ![j] = "freed"]
    /\ UNCHANGED <<offered, hand, queue, closed, disp, dispJob, slots, poolWg, ctxDone, main, crashed>>

FreeSlot(j) ==
    /\ ProcessUp /\ run[j] = "ended" /\ slots > 0
    /\ slots' = slots - 1
    /\ run' = [run EXCEPT ![j] = "freed"]
    /\ UNCHANGED <<offered, hand, queue, closed, disp, dispJob, poolWg, ctxDone, main, crashed>>

JobDone(j) ==
    /\ ProcessUp /\ run[j] = "freed"
    /\ poolWg' = poolWg - 1
    /\ run' = [run EXCEPT ![j] = "done"]
    /\ UNCHANGED <<offered, hand, queue, closed, disp, dispJob, slots, ctxDone, main, crashed>>

-----------------------------------------------------------------------------
(***************************************************************************)
(* main.run after the signal, and Stop.                                    *)
(***************************************************************************)

Signal ==
    /\ ProcessUp /\ ~ctxDone
    /\ ctxDone' = TRUE
    /\ UNCHANGED <<offered, hand, queue, closed, disp, dispJob, slots, run, poolWg, main, crashed>>

\* Plausible bug: nobody waits for the reconciler.
StopReconcilerAtOnce ==
    /\ ProcessUp /\ main = "serve" /\ ctxDone
    /\ main' = "close"
    /\ UNCHANGED <<offered, hand, queue, closed, disp, dispJob, slots, run, poolWg, ctxDone, crashed>>

\* Reconciler.Stop waits for its goroutine.
StopReconciler ==
    /\ ProcessUp /\ main = "serve" /\ ctxDone /\ hand[Reconciler] = NoJob
    /\ main' = "close"
    /\ UNCHANGED <<offered, hand, queue, closed, disp, dispJob, slots, run, poolWg, ctxDone, crashed>>

Close ==
    /\ ProcessUp /\ main = "close"
    /\ closed' = TRUE /\ main' = "wait"
    /\ UNCHANGED <<offered, hand, queue, disp, dispJob, slots, run, poolWg, ctxDone, crashed>>

PoolStopped ==
    /\ ProcessUp /\ main = "wait" /\ poolWg = 0
    /\ main' = "drained"
    /\ UNCHANGED <<offered, hand, queue, closed, disp, dispJob, slots, run, poolWg, ctxDone, crashed>>

StopTimesOut ==
    /\ ProcessUp /\ main = "wait"
    /\ main' = "timeout"
    /\ UNCHANGED <<offered, hand, queue, closed, disp, dispJob, slots, run, poolWg, ctxDone, crashed>>

-----------------------------------------------------------------------------

SubmitStep(s) == Send(s) \/ SendOnClosed(s) \/ Reject(s)

DispStep == Receive \/ LeaveLoop \/ AcquireSlot \/ SpawnRun \/ DispatcherDone

RunStep(j) == RunReturns(j) \/ FreeSlot(j) \/ JobDone(j)

MainStep == StopReconciler \/ Close \/ PoolStopped

Next ==
    \/ \E s \in Submitter : SubmitStep(s) \/ \E j \in Job : Check(s, j)
    \/ DispStep
    \/ \E j \in Job : RunStep(j)
    \/ MainStep \/ Signal \/ StopTimesOut

Spec == Init /\ [][Next]_vars

\* Goroutines are scheduled, and a task handler returns.
Fairness ==
    /\ \A s \in Submitter : WF_vars(SubmitStep(s))
    /\ WF_vars(DispStep) /\ WF_vars(MainStep)
    /\ \A j \in Job : WF_vars(RunStep(j))

FairSpec == Spec /\ Fairness

-----------------------------------------------------------------------------
(***************************************************************************)
(* Properties.                                                             *)
(***************************************************************************)

\* The type invariant.
TypeOK ==
    /\ offered \subseteq Job
    /\ hand \in [Submitter -> Job \cup {NoJob}]
    /\ queue \in Seq(Job) /\ Len(queue) <= QueueSize
    /\ closed \in BOOLEAN /\ ctxDone \in BOOLEAN /\ crashed \in BOOLEAN
    /\ disp \in DispPC /\ dispJob \in Job \cup {NoJob}
    /\ slots \in 0..Concurrency
    /\ run \in [Job -> RunPC]
    /\ poolWg \in Nat
    /\ main \in MainPC

Queued(j) == \E n \in DOMAIN queue : queue[n] = j

\* The goroutines that have a slot, and the ones Stop has to wait for.
Slotted == {j \in Job : run[j] \in {"run", "ended"}}
Live == {j \in Job : run[j] \in {"run", "ended", "freed"}}

\* The semaphore counts the goroutines that use a slot, the WaitGroup the
\* goroutines Stop waits for: the counter never reaches zero before the last
\* of them is done, although jobs are still being started when Stop waits.
PoolCounts ==
    /\ TypeOK
    /\ slots = Cardinality(Slotted) + IF disp = "spawn" THEN 1 ELSE 0
    /\ poolWg = Cardinality(Live) + IF disp = "done" THEN 0 ELSE 1

\* When Stop returns nil no Run is under way and none can start
\* (pool.go:97, "waits for in-flight work").
StopIsClean ==
    main = "drained" =>
      /\ disp = "done" /\ dispJob = NoJob
      /\ \A j \in Job : run[j] \in {"none", "done"}

\* A job has one place: the submitter, the queue, the dispatcher or its
\* goroutine.  No interleaving of submitters and dispatcher loses or doubles it.
OnePlace ==
    \A j \in Job :
      Cardinality({s \in Submitter : hand[s] = j} \cup {n \in DOMAIN queue : queue[n] = j})
        + (IF j \in offered THEN 1 ELSE 0) + (IF dispJob = j THEN 1 ELSE 0)
        + (IF run[j] # "none" THEN 1 ELSE 0) = 1

\* Until the signal, a job the pool has accepted is run: a panic or a full
\* semaphore never blocks the queue for ever.
AcceptedRuns ==
    \A j \in Job : (Queued(j) ~> (run[j] # "none" \/ ctxDone))

\* After the signal the process ends, whether or not the deadline of Stop is
\* ever reached: the dispatcher, the submitters and the running jobs do not
\* wait for each other in a circle.
ShutdownEnds == ctxDone ~> ~ProcessUp

\* Of the goroutines that send on Pool.jobs, the reconciler is never caught by
\* the close, which would panic under it.  The consumer is not waited for, and
\* can be: a crash that SendOnClosed reaches.
ReconcilerGoneAtClose == closed => hand[Reconciler] = NoJob

=============================================================================
