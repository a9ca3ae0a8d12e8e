# Conduit: specifications and proofs

TLA+ models of Conduit, the job queue in `src/`: what its parts do, checked by
TLC on small instances, and theorems about them that TLAPS proves for every
value of the constants. `PROJECT.json` maps every definition to the lines it
models and lists the runs, mutants, findings, hazards and theorems.

    tlc -workers 2 -config Claims.cfg MCConduit     # a run
    tlapm ConduitProofs.tla                         # the proofs of a module

## 1. The system

A client posts a job over HTTP. `JobService` inserts a row in PostgreSQL and
publishes the job to Kafka. Each instance of the server has a bounded worker
pool with two producers: the Kafka consumer, which hands over the job in the
message, and the reconciler, which claims due rows in the table and also
recovers rows whose lease ran out. A worker asks the circuit breaker, takes an
execution lock on a quorum of Redis servers, claims the row if the reconciler
has not, renews its lease while the task handler runs, and writes the outcome:
completed, dead, or failed and scheduled again.

| Component | State | Operations | Talks to |
|---|---|---|---|
| Job table, `internal/store` | rows: state, attempt, scheduled_at, lease, token | CreateJob, UpdateJob, CancelJob, ClaimNextJob, RenewLease, ReleaseClaim, RequeueExpiredRunning, ListJobs | called by all |
| Job worker, `cmd/server/main.go` | its copy of the job, renewal goroutine | Run, startLeaseRenewal, scheduleRetry, deadLetter, releaseClaim | store, lock, breaker, handlers |
| Reconciler, `internal/reconciler` | claimed job in hand, batch counter | reconcile, Start, Stop | store, pool |
| Worker pool, `internal/worker` | channel, semaphore, wait group | Start, Submit, SubmitBlocking, Stop | both producers, worker |
| Circuit breaker | state, two counters, openedAt | Allow, RecordSuccess, RecordFailure | shared by the workers of an instance |
| Execution lock, `internal/lock` | a key on each Redis server | Acquire, Release | workers of all instances |
| Kafka client, `internal/queue` | position, mark, committed offset | Publish, Consume, ConsumeClaim | service, pool |
| Job service, `internal/service` | none of its own | Enqueue, Cancel | store, Kafka |
| Retry engine, `internal/retry` | none | Delay, ShouldRetry | worker |
| Webhook executor, `internal/webhook` | none of its own | Handler | resolver, receivers |
| ETL executor, `internal/etl` | none of its own | Handler, ParseSpec, BuildInsertSQL | PostgreSQL |
| Cron scheduler, `internal/scheduler` | entries, last runs, wait group | Register, Start, Stop, dispatch, Next | started by main.go, which registers no entry |
| Readiness probe, `cmd/server/main.go` | cached answer | readinessHandler | PostgreSQL, Redis |
| HTTP API, `internal/api` | none | EnqueueJob, GetJobStatus, CancelJob, ListJobs | service, store |
| Configuration, metrics, logging | counters | | |

What is hard here:

* A job is passed **by value**. The copy in a message, a queue or a worker is
  older than the row, and only the lease token ties it to a claim.
* UpdateJob and CancelJob **read in one statement and write in another**.
* Leases, lock TTLs and the retry schedule are **timeouts** that race slow
  workers, and both lease renewal and the lock can end under a live handler.
* Statements fail **with or without effect**, processes crash between two
  writes, and after SIGTERM every call sees a cancelled context.
* Kafka delivers late, twice or never.
* The pool's shutdown is a race of five goroutines over two channels.
* Handlers act on a world that answers late, wrongly or not at all, and their
  errors steer both the retries of a job and the breaker of everybody.
* The scheduler dispatches from a snapshot, and its Start and Stop overlap.

What makes each part correct: a claim has one holder, and a job changes state
only along its state machine (table, worker, reconciler); handlers of one job
do not overlap, and a job is not run more often than its budget (worker, lock);
every accepted job ends (all); no job is lost or doubled, and Stop means what it
says (pool); the state follows the results reported (breaker); a valid lock
keeps its quorum (lock); a committed offset passes over nothing that was not handled
(Kafka); one job per idempotency key (service); each job once, in order (listing); what a result
says of its job is true of the receiver or the table, and retries are neither
lost nor added (handlers, retry engine); an entry runs once for each of its times
and Stop is final (scheduler); "ready" is no older than the cache allows (probe).

## 2. Modules

| Module | Models | Used by |
|---|---|---|
| `JobStore` | one row, and one operator per SQL statement, its WHERE clause apart | `Conduit` |
| `Conduit` | the composition: table, service, Kafka deliveries, reconcilers, pools, workers, lock, time, faults | `MCConduit`, proofs |
| `JobBoard` | abstract: each job has a state and at most one owner | `Conduit!ImplementsBoard` |
| `CircuitBreaker` | the breaker and the workers that share it | `TaskRuns`, `MCBreaker`, proofs |
| `Backoff` | the retry engine | `TaskRuns`, `Timing`, proofs |
| `Webhook` | the webhook executor: what it accepts, follows and makes of an answer | `TaskRuns` |
| `Etl` | the ETL executor: what it accepts, and the effect of its statement | `TaskRuns` |
| `SqlScan` | `sqlTokens`, one turn of its loop at a time | `MCEdges`, proofs |
| `TaskRuns` | the composition of workers, breaker, handlers, their world and the retry decision | `MCTaskRuns`, proofs |
| `Redlock` | Acquire and Release, call by call, on each server | `MCRedlock`, proofs |
| `ExecutionLock` | abstract: at most one holder | `Redlock!ImplementsLock` |
| `WorkerPool` | submitters, dispatcher, job goroutines, main goroutine | `MCProcess`, proofs |
| `KafkaConsumer` | one partition, marks and commits over several sessions | `MCEdges`, proofs |
| `Readiness` | concurrent probes over one cached answer | `MCEdges`, proofs |
| `JobService` | concurrent Enqueue calls and their publish goroutines | `JobApi`, proofs |
| `JobApi` | `JobService`, and a client that walks the pages of ListJobs meanwhile | `MCEdges`, proofs |
| `Cron` | cron expressions and `Next` on a calendar | `Scheduler`, `Timing`, proofs |
| `Timing` | a job that keeps failing, and an entry followed from run to run | `MCTiming`, `MCProcess`, proofs |
| `Scheduler` | Register, Start, Stop, the loops, dispatch, handlers | `MCProcess`, proofs |
| `MCCron` | expressions and times for the two modules above | `MCTiming`, `MCProcess` |
| `ConduitTypeProofs`, `ConduitMoveProofs`, `ConduitTokenProofs`, `ConduitProofs` | theorems about `Conduit` | |
| `TaskProofs`, `ServerProofs`, `BackendProofs`, `ClockProofs` | theorems about the parts | |

### Conduit

State and code: `rows` is the table; `queue[i]` the channel of an instance's
pool, together with the one job its dispatcher holds; `pc[w]`, `cur[w]`,
`renew[w]` a worker in `jobWorker.Run`, its `job` variable and its renewal
goroutine; `rpc`, `rcur`, `rn` a reconciler in `reconcile`; `lock[j]` the holder
of `job:exec:<id>`; `ctxDone[i]` the cancelled context; `inbox[j]` deliveries
Kafka may still make; `cancel[j]` a CancelJob call between its two statements.
`runs` is a history variable.

A worker is at `start` (before the lock), `release` (ReleaseClaim), `get` and
`put` (the two statements of UpdateJob; `cur[w].state` says which call of Run it
is), `exec` (in the handler) or `unlock` (the deferred calls). One step is one
statement, one lock call or one channel operation.

Times are kept by the comparisons the code makes: a row is due or not; a lease
is null, in the future or in the past. Tokens are 128 random bits, so a new one
is a value nobody holds (`Fresh`); because a token may be used again after
everyone has forgotten it, four are enough for the instances here.

`NullScan` says whether scanning NULL into a Go string fails. pgx v5, which
`go.mod` selects, refuses it, so TRUE is what this build does; a delivered job
can then never be claimed, since its row has no token. `Claims.cfg` uses FALSE,
what the code is written for, so that the path of delivered jobs is exercised;
all other runs of `Conduit` and `JobService` use TRUE. The theorems hold for both.

Faults are drawn from `FaultKinds` and bounded by `MaxFaults`: crash, SIGTERM,
a failing statement (with or without effect), a failing lock call, an open
breaker, a lease that lapses under its holder, a lock that runs out under its
owner, a panic, clock skew. A lease nobody holds and a lock nobody owns run out
without using the budget. `faults.seen` keeps the kinds that have happened and
that some property makes an exception for.

What a handler does is not part of `Conduit`: it succeeds, fails for good, fails
for now or panics. `TaskRuns` is the other half, with handlers and breaker in
detail and each job reduced to its state and attempt.

Left out on purpose: the wait of up to 60 s in Run for a copy that is not yet
due (both producers hand over due jobs, so only skew gets there, and it is
folded into giving up); failures of the random generator; a delivered message
that is not JSON.

### TaskRuns

A worker claims and takes a pending job when the breaker lets it in (`Take`),
finds its handler (`Execute`) and goes through it: each request of a webhook is a
step with any answer of `Webhook!Answer`, and a receiver whose answer is an error
or gets lost may have taken the payload (`received`); the statement of an ETL job
may be committed although its error is reported (`Exec`). The end of a run reports
to the breaker and decides the retry in one step (`Ends`); the writes and races
in between are `Conduit`'s. `Refuse` and `Unlocked` are the two ways a claim is
given back without a run: ReleaseClaim keeps the attempt that the claim counted.
A claim whose handler panics comes back through its lease (`Panic`).

`MaxTrouble` bounds failures of the downstream and lost calls, so that it recovers;
a task that can never be executed fails outside of it (`FailTask`), once per job.

Data: an address is public or private; a URL is the record of what validateURL
asks; an identifier is the sequence of its parts; a table maps each of its rows to the
number of its copies; the
extract statement is its text up to the first space and the words that `SqlScan`
finds in it. Durations are whole units and factors percentages.

### The scheduler

`Cron` counts minutes from year 1 and instants in half minutes, so that a time
can lie between two minutes. `Next` is the loop of the code, one `Skip` a turn; the
calendar (leap years, months, weekdays) is `time`'s and external. `Scheduler`
splits Start into what it does under the lock and the launch of the loop after
it, dispatch into its snapshot and one step per candidate, and Stop into its
locked part and `wg.Wait`. `raced` records that the launch of a loop overlapped a
Stop or another loop, which the code does not exclude; `fired` is a history of the
runs, next to the `lastRun` of the code. `Timing` follows one entry, or the retries
of one job, for more expressions and configurations than a scheduler or worker needs.

### The others

`CircuitBreaker`: a worker enters by `Allow` and reports later or never.
`elapsed` is the OpenTimeout. `streak` is a history.
`Redlock`: `late[c]` is the moment TTL - drift has passed since the attempt
began; no key of the attempt expires before it. A key holds caller and attempt,
which is what can be told apart by value and by age. `faults.forgot` keeps the
servers that restarted without their keys.
`WorkerPool`: the check of `ctx.Err()` and the send are two steps; the
dispatcher's `select` chooses freely between a job and the cancelled context;
`Signal`, `StopReconciler`, `Close`, `PoolStopped` and `StopTimesOut` are main's
shutdown in its order. A job that Kafka offered and nobody took is offered again.
`KafkaConsumer`: `mark` is sarama's marked offset; commits happen at any time
(external, as sarama does it). `JobService`: requests stand for the ids they
draw. `JobApi`: rows appear in any order of their `created_at`, which is read
before the insert; a page with a row that cannot be scanned fails as a whole. The
rows with a token are the running ones here; a failed or a cancelled row can also
have one.
`Readiness`: ages count ticks of a clock; `seen` is a history of the servers that
were alive at some time from the cache time before the request on.
`SqlScan`: texts over eight bytes: the marks, a line end, a space and one letter.

`MCProcess` and `MCEdges` put parts that share no state side by side: a behaviour of
the instance is a behaviour of one of them (`part`), and the others do not move.

## 3. Runs

| Run | Shows | Bounds | States |
|---|---|---|---|
| claims | ClaimInv, LegalTransitions, ExecutesItsClaim, FailedIsBeingRetried, SuccessIsRecorded, ImplementsBoard, TerminalIsFinal | 1 job, 2 instances, 1 delivery, 1 cancel, 1 fault of any kind | 716,110 |
| timeouts | ExclusionInv, ExclusiveExecution, RetryBudget | 1 job, 2 instances, reconcilers only, 2 faults of any kind | 199,117 |
| settles | EndsUndisturbed, EventuallySettles | a job that is never read, beside one that is or one with a retry, in one pool; batch 2, 1 fault of any kind | 103,378 |
| taskruns | CountersMatchHistory, CompletedWasReceived, LoadsOnce, RetriesAreGiven, TransitionsEarned, Recovers | 2 workers, 6 pairs of jobs, thresholds 2, 3 troubles, 2 requests a run | 240,023 |
| quorum | MutualExclusion, KeysAreSafe, ImplementsLock, KeysComeFree | 2 callers, 3 servers, 2 attempts, 1 fault of any kind | 603,684 |
| process | PoolCounts, StopIsClean, OnePlace, ReconcilerGoneAtClose, AcceptedRuns, ShutdownEnds | 4 jobs, 2 consumers, 2 slots, queue of 2 | 154,162 |
| | StopIsQuiet, OncePerTime, StopEnds, DueRuns | 1 name, 4 entries, 2 callers, 2 starts, 2 registers, 2 instants on leap days | |
| | BackoffGrows, NextIsEarliest | 180 configurations of the retry engine, 6 failures; 8 expressions from 18 times, 3 runs | |
| edges | CommittedWasHandled, ReadyIsRecent, FindsTheWords | 4 messages, 3 sessions; 2 probes, Postgres and 3 Redis servers, 2 changes; every text of up to 5 bytes | 1,727,109 |
| | OneJobPerKey, PublishedIsStored, WalkIsExact | 5 requests, 2 with one key, 1 fault; pages of 1, with and without filter | |

States are distinct states found. The type invariants are proved (section 4).

Why the bounds are enough for what they are meant to show: every race of the
claim protocol is between two holders of one row (an old and a new claim, a
worker and a cancel, a worker and the recovery), so one job and two instances
reach it. `max_retries` 2 gives a first attempt, a retry and the exhausted budget.
settles is about what one job does to another: the three jobs are one with a key and
0, the default, which leaves the limit to the retry engine; one without a key and 1,
which recovery makes DEAD; and one without a key and 0, which is never read and goes
round for ever. At most one of the first two is in the table, since it is the third
they have to get past. `AttemptCap` is below no limit, so no comparison is affected.
One fault is enough for each
single failure at every point; timeouts has two, because a lease and a lock that
run out together are what breaks exclusion. In taskruns two jobs are enough for
one to spend what another needs, and three troubles open the breaker, let a probe
fail and lose another call. In process an hour has two minutes and a day two hours, which leaves the carries of minute, hour, day, month and year; the instants
are four years apart, where Next reaches its limit. Five bytes hold an opening mark,
its closing mark and a byte between. The theorems of section 4 remove the bounds for
every invariant and every action property; for liveness the bounds remain.
Deadlock is not checked where jobs end and the system may rest; taskruns and quorum,
where it never may, check it.

A property that holds only under a hypothesis states it, as what has happened so
far, and TLC explores the states beyond it as well:

| Property | Holds until | Because the code |
|---|---|---|
| ExecutesItsClaim | a lease lapses under its holder | does not stop a handler that lost its claim |
| ExclusiveExecution | a lease **and** a lock ran out under their holders | renews the lease until the first error and the lock never; each protects alone |
| FailedIsBeingRetried, EndsUndisturbed | a crash, SIGTERM or failed statement | records a retry in two writes (run stranded) |
| EndsUndisturbed, EventuallySettles | for jobs with a key or with retries | cannot scan a job without a key, and makes a job DEAD in recovery only if max_retries is above 0 (run null_scan) |
| SuccessIsRecorded | the context is cancelled, a statement fails, the process dies | gives workers the context that SIGTERM cancels, so the drain cannot record results |
| TerminalIsFinal | CancelJob races the end of the job | checks and writes a cancel in two statements, the second without a condition |
| LegalTransitions, ImplementsBoard | the job's cancel is written | cancels by id alone: a job that completes between CancelJob's two statements becomes DEAD |
| RetryBudget | Kafka delivers (not in this run) | starts a delivered job from the attempt and scheduled_at in the message |
| MutualExclusion, ImplementsLock | a Redis server restarts empty | has no delay after a restart |
| ReconcilerGoneAtClose | for the reconciler alone | does not wait for the Kafka consumer, whose Submit can send on the closed channel and panic (`SendOnClosed`) |
| CommittedWasHandled | "handled" includes refused messages below the last | marks a later message after a refused one, and so commits past it (run refused) |
| OneJobPerKey | for requests that are answered | cannot scan the row of a job that is not running when a request is repeated |
| CompletedWasReceived | a redirect with 301, 302 or 303 was followed | lets net/http repeat the request as a GET without its body |
| RetriesAreGiven | a claim was given back without a run, or a lookup failed | keeps the attempt in ReleaseClaim, and reports every failed lookup as permanent |
| LoadsOnce | for upserts; an append leaves up to one copy per attempt | runs the statement again after an error |
| BackoffGrows | jitter is less than the growth | adds jitter up to its factor |
| OncePerTime, StopIsQuiet, StopEnds | a Start overlaps a Stop | launches the loop after it has unlocked, so a cancel can miss it |
| OncePerTime | from the second run on | matches an entry that never ran from the zero time, so it runs at the first tick |
| NextIsEarliest, DueRuns | the next time is within 4 * 365 days | gives up a day before the next 29 February (run leap_day), so that an entry for it that has run is not run again |
| FindsTheWords | quotes and comments are those the scanner knows | does not know PostgreSQL's E'' strings, dollar quotes and nested comments |
| Recovers | HalfOpenRequests is below SuccessThreshold | counts successes against both (run breaker_stuck) |

Five runs are expected to fail. Each checks what a document says against what the
code does, and has an entry under `findings` that quotes the line:

| Run | Property | What the code does |
|---|---|---|
| stranded | EventuallyTerminal | a crash between the two writes of scheduleRetry leaves a job in FAILED for ever |
| null_scan | EventuallyRuns | a job without an idempotency key is claimed, cannot be scanned, and never runs; with max_retries 0 it goes between RUNNING and PENDING for ever |
| breaker_stuck | Recovers | with the thresholds of main.go the breaker stays half-open for ever |
| refused | CommittedWasDispatched | the mark of a later message commits past one that the pool refused; it is not delivered again, and only the reconciler still finds its job |
| leap_day | ZeroIfNoneInFourYears | the search ends after 4 * 365 days, a day short of four years: from 29 February there is no next one |

### Fairness

`Conduit`: weak fairness for every worker, reconciler and exit (goroutines are
scheduled, handlers return, Stop has a deadline), and for time passing where it
costs no fault (a row becomes due, an abandoned lease or lock runs out). Strong
fairness for the claim of a waiting row (`IsClaimed`): ClaimNextJob takes the row with
the earliest scheduled_at, Enqueue always sets one and recovery sets it to the present,
so a row that goes round for ever falls in behind the others; without it, it could be
claimed each time instead of them.
Renewal, Kafka and clients get none. A worker's step includes faults, which the
budget bounds. `TaskRuns` and `CircuitBreaker`: there is always another job, calls
return, time passes. `Scheduler`: goroutines are scheduled and handlers return;
strong fairness for a loop that finds its context cancelled, because a `select`
takes any ready case at random and ticks come once an interval. Time, callers and
the signal get none. `Redlock`: calls return and keys expire. `WorkerPool`: goroutines are
scheduled; the shutdown deadline (`StopTimesOut`) and the signal get none, so
`ShutdownEnds` does not rely on the deadline.

## 4. Proofs

TLAPS proves the following for all jobs, instances, workers, servers, thresholds
and fault budgets, from the named assumptions in the modules, which only say
what kind of value each constant is (and, in `Redlock`, that the quorum is the
majority NewManager computes; in `TaskRuns`, that the rows of an upsert's table and
query have the columns of the conflict and no two rows of the query agree in them, as
PostgreSQL demands, and that an append is submitted once; in `Readiness`, that the
cache keeps an answer for some time; in `Cron`, that an hour and a day are not empty;
in `Timing`, that a configuration is made of whole numbers, which may be negative or
zero, and jitter of percentages).

* `ConduitTypeProofs!TypeCorrect`: `Spec => []TypeOK`.
* `ConduitTokenProofs`: `ClaimsCorrect` (`Spec => []ClaimInv`), and from it
  `ClaimHasOneHolder` (`[]OneHolder`), `FailedIsRetried` (`FailedIsBeingRetried`)
  and `SuccessRecorded` (`SuccessIsRecorded`).
* `ConduitProofs`: `TransitionsLegal` (`LegalTransitions`) and `TerminalStays`
  (`TerminalIsFinal`); `ClaimsAndLocksKept` (`Spec => []ExclusionInv`), and from it
  `HandlersRunTheirClaim` (`ExecutesItsClaim`) and `HandlersExclude`
  (`ExclusiveExecution`); `BoardIsImplemented` (`ImplementsBoard`); and
  `RunsWithinBudget`: `[]RetryBudget` where `MaxDeliveries` is 0, which is what
  `RetryBudget` is about.
* `ServerProofs`. Pool: `CountsMatch` (`PoolCounts`), `JobsKeepOnePlace`
  (`OnePlace`), `StopLeavesNothing` (`StopIsClean`) and `CloseMeetsNobody`
  (`ReconcilerGoneAtClose`). Service: `EnqueueIsIdempotent` (`OneJobPerKey`) and
  `PublishFollowsInsert` (`PublishedIsStored`). Listing: `WalkReturnsAll`
  (`WalkIsExact`).
* `TaskProofs`. Breaker: `CountersCorrect`, `TransitionsAreEarned`, and
  `StuckForEver`, the general form of run breaker_stuck. Handlers:
  `WebhooksAreDelivered` (`CompletedWasReceived`), `PipelinesLoadOnce` (`LoadsOnce`)
  and `RunsAreRetried` (`RetriesAreGiven`). Scanner: `ScannerFindsTheWords`
  (`FindsTheWords`), for texts of every length.
* `BackendProofs`. Lock: `LockExcludes` (`TypeOK`, `QuorumKept`,
  `MutualExclusion`), `KeysStaySafe` (`KeysAreSafe`) and `LockIsImplemented`
  (`ImplementsLock`), for servers that may forget their keys: the properties say what
  is left then. Consumer: `OffsetsSound` (`CommittedWasHandled`). Probe:
  `ReadyAnswersAreRecent` (`ReadyIsRecent`).
* `ClockProofs`. Scheduler: `SchedulerInvariant` (`[]SchedInv`), and from it
  `StopLeavesQuiet` (`StopIsQuiet`) and `EntriesRunOncePerTime` (`OncePerTime`).
  Next: `NextIsTheEarliest` (`NextIsEarliest`), within the limit of the search. Retry engine: `WaitsGrow`
  (`BackoffGrows`).

The argument for LegalTransitions. UpdateJob's check may be out of date when it
writes, so the transition is legal only because the write is conditional on the
token. For that, a token must belong to one row for good (`TokenHome`), nobody
else may hold it (`OneHolder`), a row that waits or is completed must carry none
(`ClaimMatchesState`, `DeadIsUnowned`), the exception in the WHERE clause for a
worker's own claim must not meet a row that already carries it
(`NotYetClaimed`), and what was checked must still be allowed while the token is
current (`CheckedWrite`). `CopyShape` says what copies look like on the way. None of
these is inductive alone; their conjunction `ClaimInv` is. The proof does not go
through the actions for every part. `ConduitTypeProofs` and `ConduitMoveProofs` show
once what a step can do to one row, to one worker and to one copy on its way, as
tables of moves (`WorkerMoves`, `TableMoves`, `CopyMoves`); the rest argues about
moves. Most of them only make copies disappear; `ConduitTokenProofs` treats the others
(claims, the hand-over between reconciler, queue and worker) one by one.

The argument for FailedIsBeingRetried and SuccessIsRecorded. As long as nothing has
failed, the worker that wrote FAILED holds the row's token until it writes PENDING,
and a worker that leaves with its result unrecorded no longer has the claim. The
invariant `CalmInv` adds what makes the statements in between succeed: contexts are
live until a signal, and the rows of the claims being worked on can be scanned.

The argument for the budget. A claim of the reconciler is paid for by one attempt of
the row. The runs there were and the claims on their way to a handler, counted as a
set of places, are never more than the attempts of the row nor than max_retries, and
a row that waits has some of its budget left. The induction ties the attempt of every
copy to its row (`AgreeStep`); it fails with deliveries, whose copies are older.

The argument for exclusion. Two handlers of one job need two claims or one claim
twice; the latter `OneHolder` excludes. While no lease has lapsed under a live
holder, every claim on its way to a handler, in a queue, a reconciler or a worker,
is the one its row is under (`ClaimKept`), so there is one. That is kept because
only three things take a claim from a row (`RowFates`): its holder gives it back,
recovery takes it after the lease has lapsed, or a cancel, which leaves the token;
and a lapsed lease nobody caused is one nobody holds (`LeaseKept`). The induction
needs to know where each copy of the next state was before (`Origins`). While no
lock has run out under its owner, a worker has the lock from Acquire to Release
(`LockKept`), so again there is one. Either is enough, which is why the theorem
asks for both to fail.

The argument for the job board. Every step that is not a cancel leaves states and
tokens alone, is a step of the board, or is a worker's write of the row it holds
(`BoardChange`). For the write, `CheckedWrite` says that the transition is still
allowed. One that `CanTransition` allows and the board does not, FAILED to DEAD by a
worker, has to be excluded: nobody but the worker that wrote FAILED has the token,
and that worker writes PENDING next or is done (`FailedHeld`, inductive with
`ClaimInv` and `Origins`).

The argument for the pool. A job is offered, in a submitter's hand, in the queue,
with the dispatcher or in a goroutine, and in one of them only; the slots taken
and the wait group are the numbers of goroutines in certain places. Both are
counted with cardinalities, so `PoolInv` carries that the sets are finite, and each
action moves one job from one place to the next. Stop returns nil only at zero.

The argument for the handlers. Each step leaves a job alone, begins its run, goes on
with it or ends it (`TaskMove`), and the invariant speaks of one job or one run: a
receiver that answered 2xx took the payload, unless the body was lost on the way;
attempts are counted by claims and runs by `tried`. For the table of an upsert it is
shown that the statement, run again on its own result, changes nothing
(`UpsertTwice`), and for an append that a run adds one copy of each row.

The argument for the listing. The cursor is the place of the last row returned, what
is still owed lies below it, and a page is the first rows below it in order; so what
a row inserted meanwhile can change is only whether it is itself returned.

The argument for the probe. What a request has pinged was alive since the request
began, so any request that began less than the cache time later counts it as seen,
and the cache passes this on.

The argument for the service: the unique index allows one row per key, an answer
names a row with the request's key, and a request publishes only after its own
insert. For the consumer: the position is never past what was read or skipped, and
marks trail it.

The argument for the lock. Two quorums of a majority share a server
(`QuorumsMeet`, from the cardinality theorems), and a server has one key. It
remains that a valid lock keeps its quorum: `acquired` counts keys that are
really there, and nobody else deletes or overwrites them while the validity
lasts (`KeysSafe`). For the refinement, a step that makes one lock valid moves its
own caller alone (`WonAlone`), so the lock cannot pass from one caller to another:
both would be valid after the step.

The argument for the scheduler. The wait group is the number of live loops and of
handlers (`CountOK`), so Stop returns only when there are none. As long as no Start
overlapped a Stop, there is one loop at most, and somebody still waits in Stop for a
loop that is cancelled and for the handlers of a scheduler that is stopped
(`QuietOK`); so nothing is left when nobody waits. Since one loop alone writes last
runs, and drops each entry it has dealt with, its snapshot is never out of date
(`FreshOK`); what it starts is therefore due since the last run there was, and `Next`
says that a minute of the expression lies between.

The argument for `Next`. Every day number has one date (`HasParts`, `PartsAgain`,
`HasMonth`, `OneMonth`), so the days up to the end of a month share its month, and
what a `Skip` passes cannot match (`SkipPassesNone`). `Turns` splits the turns of the
loop in halves so that TLC can evaluate thousands of them; by induction over their
number they stop, or pass a minute each, and miss no match (`TurnsFind`). For the
retry engine: NewEngine makes an engine of any configuration (`NewEngineOK`), growth
and cap keep the order of the delays, and jitter stays below the growth.

The argument for the scanner. At every byte, the tokens found and the words that
remain are together the words of the text; a word being read belongs to what remains,
and what remains of a comment or a quotation is skipped (`ScanInv`). A doubled quote
is the point: the scanner passes over both, `Words` ends one quotation and begins
another, and both come to the same place.

`Turns`, `Grown` and `Words` are recursive functions. That such a function exists is
proved for each of them (`TurnsExist`, `GrownExists`, `WordsExist`), and inductions are
by a least counterexample, because the provers cannot use the induction theorems of
the library.

Only model-checked: liveness (EndsUndisturbed, EventuallySettles, KeysComeFree,
AcceptedRuns, ShutdownEnds, Recovers, StopEnds, DueRuns), since fairness and ENABLED
are beyond the prover.

## 5. Not modelled

* Configuration: environment variables read once into what are constants here.
* Metrics and logging: output; no decision depends on it.
* Middleware, binding of request bodies and status codes of the HTTP API, and
  GetJobStatus, which reads one row: no state.
* Kafka: producer settings, several partitions, messages that do not unmarshal
  (Handle answers nil for them, as `HandleOk` does).
* Text: bodies and headers of webhooks, quoting of identifiers in SQL.
* Time zones: the scheduler's times are in UTC, without changes of the clock.
* The renewal interval with its floor of one second: that a lease can lapse under
  a live holder, for whatever reason, is a fault of `Conduit`.
* Failures of the random generator.
