------------------------------ MODULE TaskRuns ------------------------------
(***************************************************************************)
(* The workers of one instance executing jobs: jobWorker.Run and execute   *)
(* with the circuit breaker they share, the built-in handlers (webhook,    *)
(* sql.etl) with the world they act on, and the retry decision.  The job   *)
(* table is reduced to what becomes of each job; its statements, leases    *)
(* and locks are those of module Conduit.                                  *)
(***************************************************************************)
EXTENDS CircuitBreaker, Backoff, Webhook, Etl

CONSTANTS
    Mix,            \* the sets of jobs to look at, one at a time
    Task,           \* Task[j]: name, maxRetries, and the handler's own fields
    Retry,          \* the configuration of the retry engine
    Repeated,       \* the jobs that are submitted again and again
    Target,         \* Target[j]: the table of an ETL job to begin with
    MaxClaims       \* bound: claims of a job while the circuit is open

\* An append job is submitted once: LoadsOnce counts its copies from Target.
ASSUME TaskAssumption ==
    \A jobs \in Mix : \A j \in jobs :
      /\ Task[j].maxRetries \in Nat
      /\ Task[j].name = "sql.etl" =>
           /\ j \in DOMAIN Target
           /\ \A r \in DOMAIN Target[j] : Target[j][r] \in Nat
           /\ WriteMode(Task[j]) = "upsert" => Keyed(Columns(Task[j].conflict), Target[j])
           /\ WriteMode(Task[j]) = "append" => j \notin Repeated

VARIABLES
    job,        \* job[j]: state, attempt, and what is known of its runs
    run,        \* run[w]: the job the worker executes, and how far it is
    table       \* table[j]: the target table of ETL job j

taskVars == <<vars, job, run, table>>

\* tried: runs of the handler; cause: of the last failure; received: a receiver
\* has taken the payload; bare: a redirect was followed without it.
NewJob == [state |-> "pending", attempt |-> 0, tried |-> 0, cause |-> "none",
           received |-> FALSE, bare |-> FALSE]

NoRun == [at |-> "idle"]

Job == DOMAIN job

EtlJob == {j \in Job : Task[j].name = "sql.etl"}

TaskInit ==
    /\ Init
    /\ \E jobs \in Mix : job = [j \in jobs |-> NewJob]
    /\ run = [w \in Worker |-> NoRun]
    /\ table = Target

-----------------------------------------------------------------------------

\* Plausible bug: the attempt that has just failed is not counted.
shouldRetryOnceMore(j, permanent) ==
    IF Task[j].maxRetries > 0
    THEN ~permanent /\ job[j].attempt <= Task[j].maxRetries
    ELSE ShouldRetry(NewEngine(Retry), job[j].attempt, permanent)

shouldRetry(j, permanent) ==
    IF Task[j].maxRetries > 0
    THEN ~permanent /\ job[j].attempt < Task[j].maxRetries
    ELSE ShouldRetry(NewEngine(Retry), job[j].attempt, permanent)

\* A free worker is handed a claimed job and the breaker lets it in.
Take(w, j) ==
    /\ run[w] = NoRun /\ job[j].state = "pending"
    /\ Enter(w)
    /\ job' = [job EXCEPT ![j].state = "running", ![j].attempt = @ + 1]
    /\ run' = [run EXCEPT ![w] = [at |-> "execute", job |-> j, requests |-> 0, body |-> TRUE]]
    /\ UNCHANGED table

\* The breaker refuses: releaseClaim puts the job back but keeps its attempt.
Refuse(w, j) ==
    /\ run[w] = NoRun /\ job[j].state = "pending" /\ job[j].attempt < MaxClaims
    /\ \/ state = "open" /\ ~elapsed
       \/ state = "half-open" /\ successes >= HalfOpenRequests
    /\ job' = [job EXCEPT ![j].attempt = @ + 1]
    /\ UNCHANGED <<vars, run, table>>

\* A task no downstream can help: it fails whatever the trouble, but only once.
FailTask(w) ==
    /\ w \in busy /\ RecordFailure /\ Observe("failure")
    /\ busy' = busy \ {w}
    /\ UNCHANGED trouble

\* The handler returns and Run records the result: COMPLETED, back to PENDING
\* with a later scheduled_at, or DEAD.  known is job[j] with what the run adds.
Ends(w, verdict, cause, known) ==
    LET j == run[w].job
        ended(s) == [known EXCEPT !.state = s, !.tried = @ + 1, !.cause = cause]
    IN
    /\ run' = [run EXCEPT ![w] = NoRun]
    /\ \/ /\ verdict = "ok" /\ Succeed(w)
          /\ job' = [job EXCEPT ![j] = ended("completed")]
       \/ /\ verdict # "ok"
          /\ IF cause = "task" THEN FailTask(w) ELSE Fail(w)
          /\ job' = [job EXCEPT ![j] =
                       ended(IF shouldRetry(j, verdict = "never") THEN "pending" ELSE "dead")]

\* execute finds the handler, and the handler checks the task.
Execute(w) ==
    LET j == run[w].job
        goes(step) == /\ run' = [run EXCEPT ![w].at = step]
                      /\ UNCHANGED <<vars, job, table>>
        refuses(cause) == Ends(w, "never", cause, job[j]) /\ UNCHANGED table
    IN
    /\ run[w].at = "execute"
    /\ \/ /\ Task[j].name \notin {"webhook", "sql.etl"}
          /\ refuses("task")
       \/ /\ Task[j].name = "webhook"
          /\ \E addrs \in Resolution :
               IF Accepts(Task[j], addrs) THEN goes("send")
               ELSE refuses(IF Deliverable(Task[j]) THEN "dns" ELSE "task")
       \/ /\ j \in EtlJob
          /\ IF Buildable(Task[j]) THEN goes("exec") ELSE refuses("task")

\* One request of client.Do and what its answer leads to.  A receiver that
\* answers with an error, or whose answer is lost, may have taken the payload.
Send(w) ==
    LET j == run[w].job
        requests == run[w].requests + 1
    IN
    /\ run[w].at = "send"
    /\ UNCHANGED table
    /\ \E answer \in Answer, taken \in BOOLEAN :
         LET known == [job[j] EXCEPT !.received = @ \/ (taken /\ run[w].body)] IN
         /\ answer = "2xx" => taken
         /\ answer \in Redirect => ~taken
         /\ \/ /\ Follows(answer, requests)
               /\ \E addrs \in Resolution :
                    IF addrs # {} /\ \A a \in addrs : validateAddr(a)
                    THEN /\ run' = [run EXCEPT ![w].requests = requests,
                                               ![w].body = @ /\ answer = "307"]
                         /\ job' = [job EXCEPT ![j].bare = @ \/ answer = "302"]
                         /\ UNCHANGED vars
                    ELSE Ends(w, "again", "transient", known)
            \/ /\ ~Follows(answer, requests)
               /\ Ends(w, Verdict(answer),
                       IF Verdict(answer) = "never" THEN "answer" ELSE "transient", known)

\* pool.Exec; a statement whose error is reported may have been committed.
Exec(w) ==
    LET j == run[w].job IN
    /\ run[w].at = "exec"
    /\ \E verdict \in {"ok", "again"}, committed \in BOOLEAN :
         /\ verdict = "ok" => committed
         /\ table' = IF committed THEN [table EXCEPT ![j] = Statement(table[j], Task[j])] ELSE table
         /\ Ends(w, verdict, "transient", job[j])

\* No execution lock: the claim is released, and the breaker hears nothing.
Unlocked(w) ==
    /\ run[w].at = "execute" /\ Lose(w)
    /\ run' = [run EXCEPT ![w] = NoRun]
    /\ job' = [job EXCEPT ![run[w].job].state = "pending"]
    /\ UNCHANGED table

\* The handler panics; RequeueExpiredRunning takes the job back after its lease.
Panic(w) ==
    LET j == run[w].job IN
    /\ run[w] # NoRun /\ Lose(w)
    /\ run' = [run EXCEPT ![w] = NoRun]
    /\ job' = [job EXCEPT ![j].tried = @ + 1, ![j].cause = "transient",
                 ![j].state = IF Task[j].maxRetries > 0 /\ job[j].attempt >= Task[j].maxRetries
                              THEN "dead" ELSE "pending"]
    /\ UNCHANGED table

\* A new job of the same kind.
Submit(j) ==
    /\ j \in Repeated \cap Job /\ job[j].state \in {"completed", "dead"}
    /\ job' = [job EXCEPT ![j] = NewJob]
    /\ UNCHANGED <<vars, run, table>>

Proceed(w) == Execute(w) \/ Send(w) \/ Exec(w) \/ Unlocked(w) \/ Panic(w)

TaskNext ==
    \/ \E w \in Worker : Proceed(w) \/ \E j \in Job : Take(w, j) \/ Refuse(w, j)
    \/ \E j \in Job : Submit(j)
    \/ OpenTimeoutPasses /\ UNCHANGED <<job, run, table>>

\* There is always another job for a free worker, handlers return, time passes.
TaskFairness ==
    /\ \A w \in Worker :
         /\ WF_taskVars(\E j \in Job : Take(w, j))
         /\ WF_taskVars(Proceed(w))
    /\ \A j \in Repeated : WF_taskVars(Submit(j))
    /\ WF_taskVars(OpenTimeoutPasses /\ UNCHANGED <<job, run, table>>)

TaskSpec == TaskInit /\ [][TaskNext]_taskVars /\ TaskFairness

-----------------------------------------------------------------------------
(***************************************************************************)
(* Properties.                                                             *)
(***************************************************************************)

\* A webhook job is COMPLETED only if a receiver has taken its payload, unless a
\* redirect was followed that turns the request into a GET without a body; and a
\* run makes at most MaxRedirects requests, or one.
CompletedWasReceived ==
    /\ \A j \in Job : Task[j].name = "webhook" /\ job[j].state = "completed" =>
         job[j].received \/ job[j].bare
    /\ \A w \in Worker : run[w] # NoRun => run[w].requests < MaxRedirects \/ run[w].requests = 0

\* Errors of committed statements, panics and retries do not show in the table of
\* an upsert: it is as before the job or as after one run of it, and as after
\* one run once the job is COMPLETED.  An append leaves a copy per attempt at
\* most, and at least one.
LoadsOnce ==
    \A j \in EtlJob :
      CASE WriteMode(Task[j]) = "upsert" ->
             /\ table[j] \in {Target[j], Statement(Target[j], Task[j])}
             /\ job[j].state = "completed" => table[j] = Statement(Target[j], Task[j])
        [] WriteMode(Task[j]) = "append" ->
             \A s \in Source :
               /\ CopiesIn(s, table[j]) <= CopiesIn(s, Target[j]) + job[j].attempt
               /\ job[j].state = "completed" => CopiesIn(s, table[j]) > CopiesIn(s, Target[j])
        [] OTHER -> table[j] = Target[j]

\* The handler gets at most max_retries runs, and after failures that may be
\* retried a job is DEAD only when it has had them all, or when a claim was spent
\* without a run: the breaker refused it or the lock was not to be had.  Only a
\* task that cannot be executed, a lookup that fails and a refusal by the
\* receiver end a job early.
RetriesAreGiven ==
    \A j \in Job : Task[j].maxRetries > 0 =>
      /\ job[j].tried <= Task[j].maxRetries
      /\ job[j].state = "dead" /\ job[j].cause = "transient" =>
           job[j].tried = Task[j].maxRetries \/ job[j].attempt > job[j].tried

=============================================================================
