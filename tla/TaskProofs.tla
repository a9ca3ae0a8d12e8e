----------------------------- MODULE TaskProofs -----------------------------
(***************************************************************************)
(* Proofs about the workers of an instance executing jobs: the circuit     *)
(* breaker they share, alone and as part of TaskRuns, for every number of  *)
(* workers and every setting of its thresholds; and what becomes of        *)
(* webhooks, pipelines and retries, for every set of jobs, every answer of *)
(* a receiver and every commit of a statement whose error is reported.     *)
(* Also the scanner that finds the words of an extract statement, for      *)
(* texts of every length.                                                  *)
(***************************************************************************)
EXTENDS TaskRuns, SqlScan, WellFoundedInduction, NaturalsInduction, TLAPS

-----------------------------------------------------------------------------
(***************************************************************************)
(* The circuit breaker.                                                    *)
(***************************************************************************)

\* A streak of no results is empty.
EmptyStreak == streak.result = "none" => streak.length = 0

\* The inductive invariant.
BreakerInv == TypeOK /\ CountersMatchHistory /\ EmptyStreak

\* A streak is a record of a result and a bounded length.
LEMMA StreakType ==
    ASSUME BreakerAssumption, TypeOK, NEW r \in {"success", "failure"}, Observe(r)
    PROVE  /\ streak' \in [result : {"none", "success", "failure"}, length : 0..StreakCap]
           /\ state' # state => streak'.result = "none" /\ streak'.length = 0
           /\ state' = state => /\ streak'.result = r
                                /\ streak'.length =
                                     IF streak.result # r THEN 1
                                     ELSE CountUpTo(streak.length, StreakCap)
  BY DEF BreakerAssumption, TypeOK, Observe, StreakCap, CountUpTo

\* The breaker of New satisfies the invariant.
LEMMA BreakerInit == Init => BreakerInv
<1> SUFFICES ASSUME Init PROVE BreakerInv
  OBVIOUS
<1>1. /\ streak.result = "none" /\ streak.length = 0
      /\ streak \in [result : {"none", "success", "failure"}, length : 0..StreakCap]
  BY BreakerAssumption DEF Init, StreakCap
<1>2. CountersMatchHistory /\ EmptyStreak
  BY <1>1 DEF Init, CountersMatchHistory, EmptyStreak
<1>3. elapsed \in BOOLEAN
  BY Zenon DEF Init
<1>4. state = "closed" /\ failures = 0 /\ successes = 0 /\ busy = {}
      /\ trouble = MaxTrouble
  BY DEF Init
<1>5. TypeOK
  BY <1>1, <1>3, <1>4, BreakerAssumption DEF TypeOK
<1>6. QED
  BY <1>2, <1>5 DEF BreakerInv

\* A failure is recorded, whoever reports it and why.
LEMMA FailureKeeps ==
    ASSUME BreakerInv, NEW w \in Worker, RecordFailure, Observe("failure"),
           busy' = busy \ {w}, trouble' \in 0..MaxTrouble
    PROVE  BreakerInv'
<1> USE BreakerAssumption
<1>1. RecordFailure /\ Observe("failure") /\ TypeOK /\ CountersMatchHistory
  BY DEF BreakerInv
<1>2. /\ streak' \in [result : {"none", "success", "failure"}, length : 0..StreakCap]
      /\ state' # state => streak'.result = "none" /\ streak'.length = 0
      /\ state' = state => /\ streak'.result = "failure"
                           /\ streak'.length = IF streak.result # "failure" THEN 1
                                               ELSE CountUpTo(streak.length, StreakCap)
  BY <1>1, StreakType
<1>3. TypeOK'
  <2>1. /\ state' \in {"closed", "open", "half-open"}
        /\ failures' \in 0..FailureThreshold /\ successes' \in 0..SuccessThreshold
        /\ state' = "closed" => failures' < FailureThreshold
        /\ state' = "half-open" => successes' < SuccessThreshold
    BY <1>1 DEF TypeOK, RecordFailure, breakerVars
  <2>2. busy' \subseteq Worker /\ trouble' \in 0..MaxTrouble
    BY DEF BreakerInv, TypeOK
  <2>3. elapsed' \in BOOLEAN
    BY <1>1, Zenon DEF TypeOK, RecordFailure, breakerVars
  <2>4. QED
    BY <1>2, <2>1, <2>2, <2>3 DEF TypeOK
<1>4. CountersMatchHistory' /\ EmptyStreak'
  BY <1>1, <1>2, <1>3
     DEF CountersMatchHistory, EmptyStreak, RecordFailure, breakerVars, CountUpTo, StreakCap, TypeOK
<1>5. QED
  BY <1>3, <1>4 DEF BreakerInv

\* What happens to the breaker when the workers run it alone, and in TaskRuns.
BreakerNext == Next \/ \E w \in Worker : FailTask(w)

\* A step of TaskRuns is one of these, or leaves the breaker alone.
LEMMA TaskBreaker == [TaskNext]_taskVars => [BreakerNext]_vars
<1>1. ASSUME NEW w \in Worker, NEW verdict, NEW cause, NEW known, Ends(w, verdict, cause, known)
      PROVE  BreakerNext
  BY <1>1 DEF Ends, BreakerNext, Next
<1>2. ASSUME NEW w \in Worker, Proceed(w) PROVE [BreakerNext]_vars
  <2>1. CASE Execute(w)
    BY <2>1, <1>1 DEF Execute
  <2>2. CASE Send(w)
    BY <2>2, <1>1 DEF Send
  <2>3. CASE Exec(w)
    BY <2>3, <1>1 DEF Exec
  <2>4. CASE Unlocked(w) \/ Panic(w)
    BY <2>4 DEF Unlocked, Panic, BreakerNext, Next
  <2>5. QED
    BY <1>2, <2>1, <2>2, <2>3, <2>4 DEF Proceed
<1>3. ASSUME NEW w \in Worker, NEW j \in Job, Take(w, j) \/ Refuse(w, j) PROVE [BreakerNext]_vars
  BY <1>3 DEF Take, Refuse, BreakerNext, Next
<1>4. ASSUME NEW j \in Job, Submit(j) PROVE [BreakerNext]_vars
  BY <1>4 DEF Submit
<1>5. QED
  BY <1>2, <1>3, <1>4 DEF TaskNext, taskVars, BreakerNext, Next

\* The counters stay in range and agree with the history: a step of each kind.
LEMMA BreakerStep == BreakerInv /\ [BreakerNext]_vars => BreakerInv'
<1> SUFFICES ASSUME BreakerInv, [BreakerNext]_vars PROVE BreakerInv'
  OBVIOUS
<1> USE BreakerAssumption
<1>1. ASSUME NEW w \in Worker, Enter(w) PROVE BreakerInv'
  <2>1. TypeOK'
    BY <1>1 DEF BreakerInv, TypeOK, Enter, Allow, breakerVars, StreakCap, CountUpTo
  <2>2. CountersMatchHistory' /\ EmptyStreak'
    BY <1>1 DEF BreakerInv, TypeOK, CountersMatchHistory, EmptyStreak, Enter, Allow, breakerVars
  <2>3. QED
    BY <2>1, <2>2 DEF BreakerInv
<1>2. ASSUME NEW w \in Worker, Succeed(w) PROVE BreakerInv'
  <2>1. RecordSuccess /\ Observe("success") /\ TypeOK /\ CountersMatchHistory
    BY <1>2 DEF Succeed, BreakerInv
  <2>2. /\ streak' \in [result : {"none", "success", "failure"}, length : 0..StreakCap]
        /\ state' # state => streak'.result = "none" /\ streak'.length = 0
        /\ state' = state => /\ streak'.result = "success"
                             /\ streak'.length = IF streak.result # "success" THEN 1
                                                 ELSE CountUpTo(streak.length, StreakCap)
    BY <2>1, StreakType
  <2>3. TypeOK'
    BY <1>2, <2>1, <2>2 DEF TypeOK, Succeed, RecordSuccess, breakerVars
  <2>4. CASE state = "half-open"
    <3>1. streak.result # "failure" /\ successes = streak.length /\ successes < SuccessThreshold
      BY <2>1, <2>4 DEF CountersMatchHistory, TypeOK
    <3>2. streak.result = "none" => streak.length = 0
      BY <1>2 DEF BreakerInv, EmptyStreak
    <3>3. QED
      BY <2>1, <2>2, <2>3, <2>4, <3>1, <3>2
         DEF BreakerInv, CountersMatchHistory, EmptyStreak, RecordSuccess, breakerVars, CountUpTo, StreakCap, TypeOK
  <2>5. CASE state # "half-open"
    BY <2>1, <2>2, <2>3, <2>5
       DEF BreakerInv, CountersMatchHistory, EmptyStreak, RecordSuccess, breakerVars, TypeOK
  <2>6. QED
    BY <2>4, <2>5
<1>3. ASSUME NEW w \in Worker, Fail(w) PROVE BreakerInv'
  <2>1. trouble' \in 0..MaxTrouble
    BY <1>3 DEF Fail, Spend, BreakerInv, TypeOK
  <2>2. QED
    BY <1>3, <2>1, FailureKeeps DEF Fail
<1>t. ASSUME NEW w \in Worker, FailTask(w) PROVE BreakerInv'
  BY <1>t, FailureKeeps DEF FailTask, BreakerInv, TypeOK
<1>4. ASSUME NEW w \in Worker, Lose(w) PROVE BreakerInv'
  BY <1>4 DEF BreakerInv, TypeOK, CountersMatchHistory, EmptyStreak, Lose, Spend, breakerVars, StreakCap
<1>5. CASE OpenTimeoutPasses
  BY <1>5 DEF BreakerInv, TypeOK, CountersMatchHistory, EmptyStreak, OpenTimeoutPasses, StreakCap
<1>6. CASE UNCHANGED vars
  BY <1>6 DEF BreakerInv, TypeOK, CountersMatchHistory, EmptyStreak, vars, breakerVars, StreakCap
<1>7. QED
  BY <1>1, <1>2, <1>3, <1>t, <1>4, <1>5, <1>6 DEF Next, BreakerNext

\* BreakerInv is an invariant of both.
LEMMA BreakerCorrect == (Spec => []BreakerInv) /\ (TaskSpec => []BreakerInv)
<1>1. [Next]_vars => [BreakerNext]_vars
  BY DEF BreakerNext
<1>2. TaskInit => Init
  BY DEF TaskInit
<1>3. QED
  BY <1>1, <1>2, BreakerInit, BreakerStep, TaskBreaker, PTL DEF Spec, TaskSpec

\* The counters of the breaker count what they are meant to count, in every
\* order of late and lost results, and of results that no downstream could help.
THEOREM CountersCorrect ==
    /\ Spec => [](TypeOK /\ CountersMatchHistory)
    /\ TaskSpec => [](TypeOK /\ CountersMatchHistory)
<1>1. BreakerInv => TypeOK /\ CountersMatchHistory
  BY DEF BreakerInv
<1>2. QED
  BY <1>1, BreakerCorrect, PTL

\* The breaker changes its state only for the reasons TransitionsEarned names.
THEOREM TransitionsAreEarned == (Spec => TransitionsEarned) /\ (TaskSpec => TransitionsEarned)
<1>1. BreakerInv /\ [BreakerNext]_vars =>
        [/\ state = "closed" /\ state' # state =>
              state' = "open" /\ Streak("failure") >= FailureThreshold
         /\ state = "half-open" /\ state' = "closed" =>
              Streak("success") >= SuccessThreshold
         /\ state = "open" /\ state' # state => state' = "half-open" /\ elapsed]_vars
  <2> SUFFICES ASSUME BreakerInv, BreakerNext
               PROVE  /\ state = "closed" /\ state' # state =>
                           state' = "open" /\ Streak("failure") >= FailureThreshold
                      /\ state = "half-open" /\ state' = "closed" =>
                           Streak("success") >= SuccessThreshold
                      /\ state = "open" /\ state' # state => state' = "half-open" /\ elapsed
    OBVIOUS
  <2> USE BreakerAssumption DEF BreakerInv, TypeOK, CountersMatchHistory, EmptyStreak, breakerVars, Streak
  <2>1. ASSUME NEW w \in Worker, Enter(w) \/ Lose(w)
        PROVE  /\ state = "closed" => state' = state
               /\ state = "half-open" => state' = state
               /\ state = "open" /\ state' # state => state' = "half-open" /\ elapsed
    BY <2>1 DEF Enter, Allow, Lose
  <2>2. ASSUME NEW w \in Worker, Succeed(w)
        PROVE  /\ state = "closed" \/ state = "open" => state' = state
               /\ state = "half-open" /\ state' = "closed" =>
                    Streak("success") >= SuccessThreshold
    BY <2>2 DEF Succeed, RecordSuccess
  <2>3. ASSUME NEW w \in Worker, Fail(w) \/ FailTask(w)
        PROVE  /\ state = "closed" /\ state' # state =>
                    state' = "open" /\ Streak("failure") >= FailureThreshold
               /\ state = "half-open" => state' # "closed"
               /\ state = "open" => state' = state
    BY <2>3 DEF Fail, FailTask, RecordFailure
  <2>4. CASE OpenTimeoutPasses
    BY <2>4 DEF OpenTimeoutPasses
  <2>5. QED
    BY <2>1, <2>2, <2>3, <2>4 DEF Next, BreakerNext
<1>2. [Next]_vars => [BreakerNext]_vars
  BY DEF BreakerNext
<1>3. QED
  BY <1>1, <1>2, BreakerCorrect, TaskBreaker, PTL DEF Spec, TaskSpec, TransitionsEarned

\* With fewer half-open requests than successes to close (1 and 2 in
\* cmd/server/main.go:126-131) there is no way back: once the successes are used
\* up and no call is in flight, the instance refuses every job for ever.
THEOREM StuckForEver ==
    HalfOpenRequests < SuccessThreshold =>
      (Spec => [](Stuck => []Stuck)) /\ (TaskSpec => [](Stuck => []Stuck))
<1> SUFFICES ASSUME HalfOpenRequests < SuccessThreshold
             PROVE  (Spec => [](Stuck => []Stuck)) /\ (TaskSpec => [](Stuck => []Stuck))
  OBVIOUS
<1>1. BreakerInv /\ Stuck /\ [BreakerNext]_vars => Stuck'
  BY BreakerAssumption
     DEF BreakerInv, TypeOK, Stuck, BreakerNext, Next, Enter, Allow, Succeed, Fail, FailTask, Lose,
         OpenTimeoutPasses, vars, breakerVars
<1>2. [Next]_vars => [BreakerNext]_vars
  BY DEF BreakerNext
<1>3. QED
  BY <1>1, <1>2, BreakerCorrect, TaskBreaker, PTL DEF Spec, TaskSpec

-----------------------------------------------------------------------------
(***************************************************************************)
(* The statement of a pipeline.                                            *)
(***************************************************************************)

\* How often a table has a row is a number, and an insert adds one to each row of
\* the query.
LEMMA InsertAdds ==
    ASSUME NEW t, \A r \in DOMAIN t : t[r] \in Nat
    PROVE  /\ \A r \in DOMAIN Insert(t) : Insert(t)[r] \in Nat
           /\ \A r : CopiesIn(r, t) \in Nat
           /\ \A s \in Source : CopiesIn(s, Insert(t)) = CopiesIn(s, t) + 1
  BY DEF Insert, CopiesIn

\* What Upsert makes of a row of the table.
Hit(r, key) == {s \in Source : SameKey(r, s, key)}
Updated(r, key, set) ==
    [c \in DOMAIN r |-> IF c \in set /\ Hit(r, key) # {} THEN (CHOOSE s \in Hit(r, key) : TRUE)[c]
                        ELSE r[c]]
Fresh(t, key) == {s \in Source : \A r \in DOMAIN t : ~SameKey(r, s, key)}

\* Upsert by these names.
LEMMA UpsertIs ==
    ASSUME NEW t, NEW key, NEW set
    PROVE  Upsert(t, key, set) =
             [x \in {Updated(r, key, set) : r \in DOMAIN t} \cup Fresh(t, key) |-> 1]
  BY DEF Upsert, Updated, Hit, Fresh

\* An update does not change the key of a row.
LEMMA UpdateKeepsKey ==
    ASSUME NEW key, NEW set, NEW r, key \subseteq DOMAIN r
    PROVE  /\ \A c \in key : Updated(r, key, set)[c] = r[c]
           /\ DOMAIN Updated(r, key, set) = DOMAIN r
           /\ Hit(Updated(r, key, set), key) = Hit(r, key)
<1>1. DOMAIN Updated(r, key, set) = DOMAIN r
  BY DEF Updated
<1>2. ASSUME NEW c \in key PROVE Updated(r, key, set)[c] = r[c]
  <2>1. CASE c \in set /\ Hit(r, key) # {}
    <3>1. (CHOOSE s \in Hit(r, key) : TRUE) \in Hit(r, key)
      BY <2>1
    <3>2. r[c] = (CHOOSE s \in Hit(r, key) : TRUE)[c]
      BY <1>2, <3>1 DEF Hit, SameKey
    <3>3. QED
      BY <1>2, <2>1, <3>2 DEF Updated
  <2>2. CASE ~(c \in set /\ Hit(r, key) # {})
    BY <1>2, <2>2 DEF Updated
  <2>3. QED
    BY <2>1, <2>2
<1>3. Hit(Updated(r, key, set), key) = Hit(r, key)
  BY <1>2 DEF Hit, SameKey
<1>4. QED
  BY <1>1, <1>2, <1>3

\* A row that was updated is not changed by a second update.
LEMMA UpdateTwice ==
    ASSUME NEW key, NEW set, NEW r, key \subseteq DOMAIN r
    PROVE  Updated(Updated(r, key, set), key, set) = Updated(r, key, set)
<1> DEFINE u == Updated(r, key, set)
<1>1. DOMAIN u = DOMAIN r /\ Hit(u, key) = Hit(r, key)
  BY UpdateKeepsKey
<1>2. ASSUME NEW c \in DOMAIN r, c \in set /\ Hit(r, key) # {} PROVE u[c] = (CHOOSE s \in Hit(r, key) : TRUE)[c]
  BY <1>2 DEF Updated
<1>3. u = [c \in DOMAIN u |-> u[c]]
  BY DEF Updated
<1>4. Updated(u, key, set) =
        [c \in DOMAIN u |-> IF c \in set /\ Hit(u, key) # {} THEN (CHOOSE s \in Hit(u, key) : TRUE)[c]
                            ELSE u[c]]
  BY DEF Updated
<1>5. \A c \in DOMAIN u :
        (IF c \in set /\ Hit(u, key) # {} THEN (CHOOSE s \in Hit(u, key) : TRUE)[c] ELSE u[c]) = u[c]
  BY <1>1, <1>2
<1> HIDE DEF u
<1>6. Updated(u, key, set) = [c \in DOMAIN u |-> u[c]]
  BY <1>4, <1>5
<1>7. Updated(u, key, set) = u
  BY <1>3, <1>6
<1>8. QED
  BY <1>7 DEF u

\* A row the query selects is not changed by an update from it.
LEMMA UpdateSource ==
    ASSUME NEW t, NEW key, NEW set, Keyed(key, t), NEW s \in Source
    PROVE  Updated(s, key, set) = s
<1>1. s = [c \in DOMAIN s |-> s[c]] /\ Hit(s, key) = {s}
  BY DEF Keyed, Hit, SameKey
<1>2. Updated(s, key, set) = [c \in DOMAIN s |-> s[c]]
  BY <1>1 DEF Updated
<1>3. QED
  BY <1>1, <1>2

\* A second upsert of the same rows changes nothing: the statement of a retry
\* finds the keys of the first one, and nothing to insert.
LEMMA UpsertTwice ==
    ASSUME NEW t, NEW key, NEW set, Keyed(key, t)
    PROVE  Upsert(Upsert(t, key, set), key, set) = Upsert(t, key, set)
<1> DEFINE S == {Updated(r, key, set) : r \in DOMAIN t} \cup Fresh(t, key)
           u == Upsert(t, key, set)
<1>1. u = [x \in S |-> 1] /\ DOMAIN u = S
  BY UpsertIs, Zenon
<1>2. \A x \in S : Updated(x, key, set) = x
  <2>1. ASSUME NEW r \in DOMAIN t PROVE Updated(Updated(r, key, set), key, set) = Updated(r, key, set)
    BY UpdateTwice DEF Keyed
  <2>2. ASSUME NEW s \in Fresh(t, key) PROVE Updated(s, key, set) = s
    BY UpdateSource DEF Fresh
  <2>3. QED
    BY <2>1, <2>2
<1>3. ASSUME NEW s \in Source PROVE \E x \in S : SameKey(x, s, key)
  <2>1. CASE s \in Fresh(t, key)
    BY <2>1 DEF SameKey
  <2>2. CASE s \notin Fresh(t, key)
    <3>1. PICK r \in DOMAIN t : SameKey(r, s, key)
      BY <2>2 DEF Fresh
    <3>2. SameKey(Updated(r, key, set), s, key)
      BY <3>1, UpdateKeepsKey DEF Keyed, SameKey
    <3>3. QED
      BY <3>2
  <2>3. QED
    BY <2>1, <2>2
<1>4. Fresh(u, key) = {}
  BY <1>1, <1>3 DEF Fresh
<1> HIDE DEF S, u
<1>5. {Updated(x, key, set) : x \in S} \cup Fresh(u, key) = S
  BY <1>2, <1>4
<1>6. Upsert(u, key, set) = [x \in {Updated(r, key, set) : r \in DOMAIN u} \cup Fresh(u, key) |-> 1]
  BY UpsertIs, Zenon
<1>7. Upsert(u, key, set) = u
  BY <1>1, <1>5, <1>6
<1>8. QED
  BY <1>7 DEF u
-----------------------------------------------------------------------------
(***************************************************************************)
(* Jobs and their runs.                                                    *)
(***************************************************************************)

JobOK(k) ==
    /\ DOMAIN k = {"state", "attempt", "tried", "cause", "received", "bare"}
    /\ k.state \in {"pending", "running", "completed", "dead"}
    /\ k.attempt \in Nat /\ k.tried \in Nat
    /\ k.cause \in {"none", "task", "dns", "answer", "transient"}

RunOK(r) ==
    /\ DOMAIN r = {"at", "job", "requests", "body"}
    /\ r.at \in {"execute", "send", "exec"} /\ r.job \in Job /\ r.requests \in Nat

TaskTypeOK ==
    /\ DOMAIN job \in Mix /\ \A j \in Job : JobOK(job[j])
    /\ DOMAIN run = Worker /\ \A w \in Worker : run[w] = NoRun \/ RunOK(run[w])
    /\ DOMAIN table = DOMAIN Target

\* A run is of a job that is running, and of one that no other worker runs.
OneRun ==
    /\ \A w \in Worker : run[w] # NoRun => job[run[w].job].state = "running"
    /\ \A v, w \in Worker : run[v] # NoRun /\ run[w] # NoRun /\ run[v].job = run[w].job => v = w

\* How far a run is says what the handler found the task to be, and a request is
\* without its body only after the redirect the job remembers.
Fits(r, k) ==
    /\ r.at = "send" => Task[r.job].name = "webhook"
    /\ r.at = "exec" => r.job \in EtlJob /\ Buildable(Task[r.job])
    /\ r.body \/ k.bare
    /\ r.requests < MaxRedirects \/ r.requests = 0

RunFits == \A w \in Worker : run[w] # NoRun => Fits(run[w], job[run[w].job])

\* A webhook that was delivered.
Delivered(j, k) ==
    Task[j].name = "webhook" /\ k.state = "completed" => k.received \/ k.bare

Received == \A j \in Job : Delivered(j, job[j])

\* The table of an append: while the job is running its attempt has not inserted.
Appended(j) ==
    /\ \A r \in DOMAIN table[j] : table[j][r] \in Nat
    /\ \A s \in Source :
         /\ CopiesIn(s, table[j]) >= CopiesIn(s, Target[j])
         /\ CopiesIn(s, table[j]) <= CopiesIn(s, Target[j]) + job[j].attempt
         /\ job[j].state = "running" => CopiesIn(s, table[j]) < CopiesIn(s, Target[j]) + job[j].attempt
         /\ job[j].state = "completed" => CopiesIn(s, table[j]) > CopiesIn(s, Target[j])

Upserted(j) ==
    /\ table[j] \in {Target[j], Statement(Target[j], Task[j])}
    /\ job[j].state = "completed" => table[j] = Statement(Target[j], Task[j])

Loaded ==
    \A j \in EtlJob :
      /\ WriteMode(Task[j]) = "upsert" => Upserted(j)
      /\ WriteMode(Task[j]) = "append" => Appended(j)
      /\ WriteMode(Task[j]) \notin {"upsert", "append"} => table[j] = Target[j]

\* Every run had a claim of its own, and a job that may run again has not had
\* max_retries runs.
Tried(k, max) ==
    /\ k.tried <= k.attempt /\ k.tried <= max
    /\ k.state = "running" => k.tried < k.attempt
    /\ k.state \in {"pending", "running"} => k.tried < max
    /\ k.state = "dead" /\ k.cause = "transient" => k.attempt >= max

Counted(j, k) == Task[j].maxRetries > 0 => Tried(k, Task[j].maxRetries)

TriedOK == \A j \in Job : Counted(j, job[j])

TaskInv == TaskTypeOK /\ OneRun /\ RunFits /\ Received /\ Loaded /\ TriedOK

(***************************************************************************)
(* What a step can be.                                                     *)
(***************************************************************************)

JobBecomes(j, k) ==
    DOMAIN job' = Job /\ \A h \in Job : job'[h] = IF h = j THEN k ELSE job[h]

RunBecomes(w, r) ==
    DOMAIN run' = Worker /\ \A v \in Worker : run'[v] = IF v = w THEN r ELSE run[v]

Becomes(w, k, r) == JobBecomes(run[w].job, k) /\ RunBecomes(w, r)

GoesOn(w) ==
    \E k, r :
      /\ JobOK(k) /\ RunOK(r)
      /\ run[w] # NoRun /\ r.job = run[w].job
      /\ k.state = "running" /\ k.attempt = job[r.job].attempt /\ k.tried = job[r.job].tried
      /\ Fits(r, k) /\ Becomes(w, k, r)
      /\ UNCHANGED table

Stops(w) ==
    LET j == run[w].job IN
    \E k :
      /\ JobOK(k)
      /\ run[w] # NoRun
      /\ k.state # "running" /\ k.attempt = job[j].attempt
      /\ Delivered(j, k) /\ Counted(j, k) /\ Becomes(w, k, NoRun)
      /\ \/ UNCHANGED table /\ (k.state = "completed" => j \notin EtlJob)
         \/ /\ j \in EtlJob /\ Buildable(Task[j])
            /\ table' = [table EXCEPT ![j] = Statement(table[j], Task[j])]

Begins(w, j) ==
    \E k, r :
      /\ JobOK(k) /\ RunOK(r)
      /\ run[w] = NoRun /\ r.job = j /\ Fits(r, k)
      /\ job[j].state = "pending" /\ k.state = "running"
      /\ k.attempt = job[j].attempt + 1 /\ k.tried = job[j].tried
      /\ JobBecomes(j, k) /\ RunBecomes(w, r)
      /\ UNCHANGED table

\* A refused claim, or a new job.
Rests(j) ==
    \E k :
      /\ JobOK(k)
      /\ job[j].state # "running" /\ k.state = "pending"
      /\ Counted(j, k)
      /\ j \in EtlJob /\ WriteMode(Task[j]) = "append" => k.attempt >= job[j].attempt
      /\ JobBecomes(j, k)
      /\ UNCHANGED <<run, table>>

\* What is known of the constants for the jobs there are.
LEMMA TaskFacts ==
    ASSUME TaskTypeOK, NEW j \in Job
    PROVE  /\ JobOK(job[j]) /\ Task[j].maxRetries \in Nat
           /\ j \in EtlJob =>
                /\ j \in DOMAIN Target
                /\ \A r \in DOMAIN Target[j] : Target[j][r] \in Nat
                /\ WriteMode(Task[j]) = "upsert" => Keyed(Columns(Task[j].conflict), Target[j])
                /\ WriteMode(Task[j]) = "append" => j \notin Repeated
  BY TaskAssumption DEF TaskTypeOK, Job, EtlJob

\* A worker with a job.
LEMMA RunFacts ==
    ASSUME TaskInv, NEW w \in Worker, run[w] # NoRun
    PROVE  /\ RunOK(run[w]) /\ run[w].job \in Job
           /\ job[run[w].job].state = "running" /\ Fits(run[w], job[run[w].job])
           /\ JobOK(job[run[w].job]) /\ Task[run[w].job].maxRetries \in Nat
           /\ Counted(run[w].job, job[run[w].job])
<1>1. RunOK(run[w]) /\ run[w].job \in Job
  BY DEF TaskInv, TaskTypeOK, RunOK
<1>2. QED
  BY <1>1, TaskFacts DEF TaskInv, OneRun, RunFits, TriedOK

\* The end of a run.  A job that is retried has attempts left, and one that dies of
\* an error that may be retried has none.
LEMMA EndsMoves ==
    ASSUME TaskInv, NEW w \in Worker, run[w] # NoRun, NEW j, j = run[w].job,
           NEW verdict \in {"ok", "again", "never"},
           NEW cause \in {"task", "dns", "answer", "transient"},
           NEW known, JobOK(known), Ends(w, verdict, cause, known),
           known.attempt = job[j].attempt, known.tried = job[j].tried,
           verdict = "never" => cause # "transient"
    PROVE  \E k :
             /\ JobOK(k)
             /\ Becomes(w, k, NoRun) /\ k.state # "running" /\ k.attempt = job[j].attempt
             /\ k.received = known.received /\ k.bare = known.bare
             /\ k.state = "completed" <=> verdict = "ok"
             /\ Counted(j, k)
<1>1. PICK s \in {"completed", "pending", "dead"} :
        /\ job' = [job EXCEPT ![j] = [known EXCEPT !.state = s, !.tried = @ + 1, !.cause = cause]]
        /\ run' = [run EXCEPT ![w] = NoRun]
        /\ s = "completed" <=> verdict = "ok"
        /\ s = "pending" => shouldRetry(j, verdict = "never")
        /\ s = "dead" => ~shouldRetry(j, verdict = "never")
  BY Zenon DEF Ends
<1> DEFINE k == [known EXCEPT !.state = s, !.tried = @ + 1, !.cause = cause]
<1>2. /\ JobOK(k) /\ k.state = s /\ k.tried = known.tried + 1 /\ k.cause = cause
      /\ k.attempt = job[j].attempt /\ k.received = known.received /\ k.bare = known.bare
      /\ known.tried \in Nat /\ known.attempt \in Nat
  BY DEF JobOK
<1>4. Becomes(w, k, NoRun)
  BY <1>1 DEF Becomes, JobBecomes, RunBecomes, TaskInv, TaskTypeOK, Job
<1> HIDE DEF k
<1>3. Counted(j, k)
  <2> SUFFICES ASSUME Task[j].maxRetries > 0 PROVE Tried(k, Task[j].maxRetries)
    BY DEF Counted
  <2>1. Tried(job[j], Task[j].maxRetries) /\ job[j].state = "running" /\ Task[j].maxRetries \in Nat
    BY RunFacts DEF Counted
  <2>2. /\ job[j].tried < job[j].attempt /\ job[j].tried < Task[j].maxRetries
    BY <2>1 DEF Tried
  <2>3. /\ s = "pending" => job[j].attempt < Task[j].maxRetries
        /\ s = "dead" /\ cause = "transient" => ~(job[j].attempt < Task[j].maxRetries)
    BY <1>1 DEF shouldRetry
  <2>4. Task[j].maxRetries \in Nat
    BY <2>1
  <2>5. QED
    BY <1>2, <2>2, <2>3, <2>4 DEF Tried
<1>5. QED
  BY <1>1, <1>2, <1>3, <1>4

\* A request: it is followed by another, or the run ends.
LEMMA SendMoves ==
    ASSUME TaskInv, NEW w \in Worker, Send(w)
    PROVE  GoesOn(w) \/ Stops(w)
<1> DEFINE j == run[w].job
<1>1. run[w].at = "send" /\ run[w] # NoRun
  BY DEF Send, NoRun
<1>2. /\ RunOK(run[w]) /\ j \in Job /\ job[j].state = "running" /\ Fits(run[w], job[j])
      /\ JobOK(job[j])
  BY <1>1, RunFacts
<1>3. Task[j].name = "webhook" /\ j \notin EtlJob /\ (run[w].body \/ job[j].bare)
  BY <1>1, <1>2 DEF Fits, EtlJob
<1>4. run[w].requests \in Nat
  BY <1>2 DEF RunOK
<1>5. PICK answer \in Answer, taken \in BOOLEAN :
        /\ answer = "2xx" => taken
        /\ \/ /\ Follows(answer, run[w].requests + 1)
              /\ \/ /\ run' = [run EXCEPT ![w].requests = run[w].requests + 1,
                                          ![w].body = @ /\ answer = "307"]
                    /\ job' = [job EXCEPT ![j].bare = @ \/ answer = "302"]
                 \/ Ends(w, "again", "transient",
                         [job[j] EXCEPT !.received = @ \/ (taken /\ run[w].body)])
           \/ /\ ~Follows(answer, run[w].requests + 1)
              /\ Ends(w, Verdict(answer),
                      IF Verdict(answer) = "never" THEN "answer" ELSE "transient",
                      [job[j] EXCEPT !.received = @ \/ (taken /\ run[w].body)])
        /\ UNCHANGED table
  BY DEF Send
<1> DEFINE known == [job[j] EXCEPT !.received = @ \/ (taken /\ run[w].body)]
<1>6. /\ JobOK(known) /\ known.attempt = job[j].attempt /\ known.tried = job[j].tried
      /\ known.received = (job[j].received \/ (taken /\ run[w].body)) /\ known.bare = job[j].bare
  BY <1>2 DEF JobOK
<1>7. CASE /\ Follows(answer, run[w].requests + 1)
           /\ run' = [run EXCEPT ![w].requests = run[w].requests + 1, ![w].body = @ /\ answer = "307"]
           /\ job' = [job EXCEPT ![j].bare = @ \/ answer = "302"]
  <2> DEFINE k == [job[j] EXCEPT !.bare = @ \/ answer = "302"]
             r == [run[w] EXCEPT !.requests = run[w].requests + 1, !.body = @ /\ answer = "307"]
  <2>1. /\ JobOK(k) /\ k.state = "running" /\ k.attempt = job[j].attempt
        /\ k.tried = job[j].tried /\ k.bare = (job[j].bare \/ answer = "302")
    BY <1>2 DEF JobOK
  <2>4. /\ RunOK(r) /\ r.job = j /\ r.at = "send" /\ r.requests = run[w].requests + 1
        /\ r.body = (run[w].body /\ answer = "307")
    BY <1>1, <1>2, <1>4 DEF RunOK
  <2>5. answer \in {"302", "307"} /\ run[w].requests + 1 < MaxRedirects
    BY <1>7 DEF Follows, Redirect
  <2>6. Becomes(w, k, r)
    BY <1>7, <1>2 DEF Becomes, JobBecomes, RunBecomes, TaskInv, TaskTypeOK, Job
  <2> HIDE DEF k, r
  <2>7. r.body \/ k.bare
    BY <1>3, <2>1, <2>4, <2>5, Zenon
  <2>8. Fits(r, k)
    BY <1>3, <2>4, <2>5, <2>7 DEF Fits
  <2>9. QED
    BY <1>1, <1>5, <2>1, <2>4, <2>6, <2>8 DEF GoesOn
<1>8. ASSUME NEW verdict \in {"ok", "again", "never"}, NEW cause \in {"answer", "transient"},
             Ends(w, verdict, cause, known), verdict = "never" => cause # "transient",
             verdict = "ok" => taken
      PROVE  Stops(w)
  <2> HIDE DEF known
  <2>1. PICK k :
             /\ JobOK(k)
             /\ Becomes(w, k, NoRun) /\ k.state # "running" /\ k.attempt = job[j].attempt
             /\ k.received = known.received /\ k.bare = known.bare
             /\ k.state = "completed" <=> verdict = "ok"
             /\ Counted(j, k)
    BY <1>1, <1>6, <1>8, EndsMoves
  <2>2. Delivered(j, k)
    BY <1>3, <1>6, <1>8, <2>1, Zenon DEF Delivered
  <2>3. QED
    BY <1>1, <1>3, <1>5, <2>1, <2>2 DEF Stops
<1>9. /\ Verdict(answer) \in {"ok", "again", "never"}
      /\ Verdict(answer) = "ok" => answer = "2xx"
  BY DEF Verdict, Answer
<1>10. QED
  <2> HIDE DEF known
  <2>1. CASE Ends(w, "again", "transient", known)
    BY <1>8, <2>1
  <2>2. CASE Ends(w, Verdict(answer), IF Verdict(answer) = "never" THEN "answer" ELSE "transient", known)
    BY <1>5, <1>8, <1>9, <2>2
  <2>3. QED
    BY <1>5, <1>7, <2>1, <2>2 DEF known

\* execute: the handler goes to work, or the task is refused for good.
LEMMA ExecuteMoves ==
    ASSUME TaskInv, NEW w \in Worker, Execute(w)
    PROVE  GoesOn(w) \/ Stops(w)
<1> DEFINE j == run[w].job
<1>1. run[w].at = "execute" /\ run[w] # NoRun
  BY DEF Execute, NoRun
<1>2. /\ RunOK(run[w]) /\ j \in Job /\ job[j].state = "running" /\ Fits(run[w], job[j])
      /\ JobOK(job[j])
  BY <1>1, RunFacts
<1>3. ASSUME NEW cause \in {"task", "dns"}, Ends(w, "never", cause, job[j]), UNCHANGED table
      PROVE  Stops(w)
  <2>1. PICK k :
             /\ JobOK(k)
             /\ Becomes(w, k, NoRun) /\ k.state # "running" /\ k.attempt = job[j].attempt
             /\ k.state # "completed"
             /\ Counted(j, k)
    BY <1>1, <1>2, <1>3, EndsMoves
  <2>2. QED
    BY <1>1, <1>3, <2>1 DEF Stops, Delivered
<1>4. ASSUME NEW step, run' = [run EXCEPT ![w].at = step], UNCHANGED <<job, table>>,
             \/ step = "send" /\ Task[j].name = "webhook"
             \/ step = "exec" /\ j \in EtlJob /\ Buildable(Task[j])
      PROVE  GoesOn(w)
  <2> DEFINE r == [run[w] EXCEPT !.at = step]
  <2>1. /\ RunOK(r) /\ r.job = j /\ r.at = step /\ r.requests = run[w].requests
        /\ r.body = run[w].body
    BY <1>2, <1>4 DEF RunOK
  <2>2. Becomes(w, job[j], r)
    BY <1>2, <1>4 DEF Becomes, JobBecomes, RunBecomes, TaskInv, TaskTypeOK, Job
  <2> HIDE DEF r
  <2>3. Fits(r, job[j])
    BY <1>2, <1>4, <2>1 DEF Fits
  <2>4. QED
    BY <1>1, <1>2, <1>4, <2>1, <2>2, <2>3 DEF GoesOn
<1>5. CASE Task[j].name \notin {"webhook", "sql.etl"} /\ Ends(w, "never", "task", job[j]) /\ UNCHANGED table
  BY <1>3, <1>5
<1>6. CASE Task[j].name = "webhook"
  BY <1>3, <1>4, <1>6 DEF Execute, EtlJob
<1>7. CASE j \in EtlJob
  BY <1>3, <1>4, <1>7 DEF Execute, EtlJob
<1>8. QED
  BY <1>5, <1>6, <1>7 DEF Execute

\* The statement of a pipeline.
LEMMA ExecMoves ==
    ASSUME TaskInv, NEW w \in Worker, Exec(w)
    PROVE  Stops(w)
<1> DEFINE j == run[w].job
<1>1. run[w].at = "exec" /\ run[w] # NoRun
  BY DEF Exec, NoRun
<1>2. /\ j \in Job /\ JobOK(job[j]) /\ j \in EtlJob /\ Buildable(Task[j])
  BY <1>1, RunFacts DEF Fits
<1>3. PICK verdict \in {"ok", "again"} :
        /\ \/ table' = [table EXCEPT ![j] = Statement(table[j], Task[j])]
           \/ verdict # "ok" /\ UNCHANGED table
        /\ Ends(w, verdict, "transient", job[j])
  BY DEF Exec
<1>4. PICK k :
             /\ JobOK(k)
             /\ Becomes(w, k, NoRun) /\ k.state # "running" /\ k.attempt = job[j].attempt
             /\ k.state = "completed" <=> verdict = "ok"
             /\ Counted(j, k)
  BY <1>1, <1>2, <1>3, EndsMoves
<1>5. Delivered(j, k)
  BY <1>2 DEF Delivered, EtlJob
<1>6. QED
  BY <1>1, <1>2, <1>3, <1>4, <1>5 DEF Stops

\* No lock, and a panic.
LEMMA LostMoves ==
    ASSUME TaskInv, NEW w \in Worker, Unlocked(w) \/ Panic(w)
    PROVE  Stops(w)
<1> DEFINE j == run[w].job
<1>1. run[w] # NoRun /\ UNCHANGED table /\ run' = [run EXCEPT ![w] = NoRun]
  <2>1. CASE Unlocked(w)
    BY <2>1 DEF Unlocked, NoRun
  <2>2. CASE Panic(w)
    BY <2>2 DEF Panic
  <2>3. QED
    BY <2>1, <2>2
<1>2. /\ j \in Job /\ JobOK(job[j]) /\ job[j].state = "running" /\ Counted(j, job[j])
      /\ Task[j].maxRetries \in Nat
  BY <1>1, RunFacts
<1>3. CASE Unlocked(w)
  <2> DEFINE k == [job[j] EXCEPT !.state = "pending"]
  <2>1. /\ JobOK(k) /\ k.state = "pending" /\ k.attempt = job[j].attempt /\ k.tried = job[j].tried
    BY <1>2 DEF JobOK
  <2>2. Becomes(w, k, NoRun)
    BY <1>1, <1>2, <1>3 DEF Becomes, JobBecomes, RunBecomes, TaskInv, TaskTypeOK, Unlocked, Job
  <2> HIDE DEF k
  <2>3. Counted(j, k)
    BY <1>2, <2>1 DEF Counted, Tried
  <2>4. QED
    BY <1>1, <2>1, <2>2, <2>3 DEF Stops, Delivered
<1>4. CASE Panic(w)
  <2>1. PICK s \in {"dead", "pending"} :
          /\ job' = [job EXCEPT ![j].tried = @ + 1, ![j].cause = "transient", ![j].state = s]
          /\ Task[j].maxRetries > 0 =>
               (s = "dead" <=> job[j].attempt >= Task[j].maxRetries)
    BY <1>4, Zenon DEF Panic
  <2> DEFINE k == [job[j] EXCEPT !.tried = @ + 1, !.cause = "transient", !.state = s]
  <2>2. /\ JobOK(k) /\ k.state = s /\ k.attempt = job[j].attempt /\ k.tried = job[j].tried + 1
        /\ job[j].attempt \in Nat /\ job[j].tried \in Nat
    BY <1>2 DEF JobOK
  <2>3. Becomes(w, k, NoRun)
    BY <1>1, <1>2, <2>1 DEF Becomes, JobBecomes, RunBecomes, TaskInv, TaskTypeOK, Job
  <2>4. k.cause = "transient"
    BY <1>2 DEF JobOK
  <2> HIDE DEF k
  <2>5. Counted(j, k)
    <3> SUFFICES ASSUME Task[j].maxRetries > 0 PROVE Tried(k, Task[j].maxRetries)
      BY DEF Counted
    <3>1. job[j].tried < job[j].attempt /\ job[j].tried < Task[j].maxRetries
      BY <1>2 DEF Counted, Tried
    <3>2. s = "dead" <=> job[j].attempt >= Task[j].maxRetries
      BY <2>1
    <3>3. k.tried <= k.attempt /\ k.tried <= Task[j].maxRetries
      BY <1>2, <2>2, <3>1
    <3>4. s = "pending" => k.tried < Task[j].maxRetries
      BY <1>2, <2>2, <3>1, <3>2
    <3>5. QED
      BY <2>2, <2>4, <3>2, <3>3, <3>4 DEF Tried
  <2>6. QED
    BY <1>1, <2>2, <2>3, <2>5 DEF Stops, Delivered
<1>5. QED
  BY <1>3, <1>4

\* A worker takes a job.
LEMMA TakeMoves ==
    ASSUME TaskInv, NEW w \in Worker, NEW j \in Job, Take(w, j)
    PROVE  Begins(w, j)
<1>1. JobOK(job[j])
  BY TaskFacts DEF TaskInv
<1> DEFINE k == [job[j] EXCEPT !.state = "running", !.attempt = @ + 1]
           r == [at |-> "execute", job |-> j, requests |-> 0, body |-> TRUE]
<1>2. /\ JobOK(k) /\ k.state = "running" /\ k.attempt = job[j].attempt + 1 /\ k.tried = job[j].tried
  BY <1>1 DEF JobOK
<1>3. RunOK(r) /\ r.job = j /\ Fits(r, k)
  BY DEF RunOK, Fits
<1>4. /\ JobBecomes(j, k) /\ RunBecomes(w, r) /\ UNCHANGED table
      /\ run[w] = NoRun /\ job[j].state = "pending"
  BY DEF Take, JobBecomes, RunBecomes, TaskInv, TaskTypeOK, Job
<1> HIDE DEF k, r
<1>5. QED
  BY <1>2, <1>3, <1>4 DEF Begins

\* The breaker refuses a job, or a job is submitted again.
LEMMA RestMoves ==
    ASSUME TaskInv, NEW j \in Job, Submit(j) \/ \E w \in Worker : Refuse(w, j)
    PROVE  Rests(j)
<1>1. /\ JobOK(job[j]) /\ Counted(j, job[j]) /\ Task[j].maxRetries \in Nat
      /\ j \in EtlJob /\ WriteMode(Task[j]) = "append" => j \notin Repeated
  BY TaskFacts DEF TaskInv, TriedOK
<1>2. CASE Submit(j)
  <2>1. /\ JobOK(NewJob) /\ NewJob.state = "pending" /\ NewJob.attempt = 0 /\ NewJob.tried = 0
    BY DEF JobOK, NewJob
  <2>2. Counted(j, NewJob)
    BY <1>1, <2>1 DEF Counted, Tried
  <2>3. QED
    BY <1>1, <1>2, <2>1, <2>2 DEF Rests, Submit, JobBecomes, Job
<1>3. CASE \E w \in Worker : Refuse(w, j)
  <2> DEFINE k == [job[j] EXCEPT !.attempt = @ + 1]
  <2>1. /\ JobOK(k) /\ k.state = job[j].state /\ k.attempt = job[j].attempt + 1
        /\ k.tried = job[j].tried /\ job[j].attempt \in Nat /\ job[j].tried \in Nat
    BY <1>1 DEF JobOK
  <2>2. /\ job[j].state = "pending" /\ JobBecomes(j, k) /\ UNCHANGED <<run, table>>
    BY <1>3 DEF Refuse, JobBecomes, Job
  <2> HIDE DEF k
  <2>3. Counted(j, k)
    BY <1>1, <2>1, <2>2 DEF Counted, Tried
  <2>4. k.attempt >= job[j].attempt
    BY <2>1
  <2>5. QED
    BY <2>1, <2>2, <2>3, <2>4 DEF Rests
<1>4. QED
  BY <1>2, <1>3

TaskMove ==
    \/ \E w \in Worker : GoesOn(w) \/ Stops(w) \/ \E j \in Job : Begins(w, j)
    \/ \E j \in Job : Rests(j)
    \/ UNCHANGED <<job, run, table>>

\* Every step is one of these.
LEMMA TaskMoves == TaskInv /\ [TaskNext]_taskVars => TaskMove
<1> SUFFICES ASSUME TaskInv, [TaskNext]_taskVars PROVE TaskMove
  OBVIOUS
<1>1. ASSUME NEW w \in Worker, Proceed(w) PROVE GoesOn(w) \/ Stops(w)
  BY <1>1, SendMoves, ExecuteMoves, ExecMoves, LostMoves DEF Proceed
<1>2. ASSUME NEW w \in Worker, NEW j \in Job, Take(w, j) PROVE Begins(w, j)
  BY <1>2, TakeMoves
<1>3. ASSUME NEW j \in Job, Submit(j) \/ \E w \in Worker : Refuse(w, j) PROVE Rests(j)
  BY <1>3, RestMoves
<1>4. QED
  BY <1>1, <1>2, <1>3 DEF TaskNext, taskVars, TaskMove

(***************************************************************************)
(* Every step keeps the invariant.                                         *)
(***************************************************************************)

\* What a move does to the job and the runs of others.
LEMMA Untouched ==
    ASSUME TaskInv, TaskMove
    PROVE  /\ Job' = Job /\ EtlJob' = EtlJob /\ DOMAIN run' = Worker
           /\ DOMAIN table' = DOMAIN Target
<1>1. DOMAIN job' = Job /\ DOMAIN run' = Worker
  BY Zenon DEF TaskMove, GoesOn, Stops, Begins, Rests, Becomes, JobBecomes, RunBecomes, TaskInv, TaskTypeOK, Job
<1>2. DOMAIN table' = DOMAIN Target
  BY DEF TaskMove, GoesOn, Stops, Begins, Rests, TaskInv, TaskTypeOK
<1>3. QED
  BY <1>1, <1>2 DEF Job, EtlJob

\* A move changes one job, if any, and in one of five ways.
LEMMA JobMoves ==
    ASSUME TaskInv, TaskMove, NEW j \in Job
    PROVE  \/ job'[j] = job[j]
           \/ /\ JobOK(job'[j]) /\ job[j].state = "running" /\ job'[j].state = "running"
              /\ job'[j].attempt = job[j].attempt /\ job'[j].tried = job[j].tried
           \/ /\ JobOK(job'[j]) /\ job[j].state = "running" /\ job'[j].state # "running"
              /\ job'[j].attempt = job[j].attempt
              /\ Delivered(j, job'[j]) /\ Counted(j, job'[j])
           \/ /\ JobOK(job'[j]) /\ job[j].state = "pending" /\ job'[j].state = "running"
              /\ job'[j].attempt = job[j].attempt + 1 /\ job'[j].tried = job[j].tried
           \/ /\ JobOK(job'[j]) /\ job[j].state # "running" /\ job'[j].state = "pending"
              /\ Counted(j, job'[j])
<1>1. ASSUME NEW w \in Worker, GoesOn(w) PROVE job'[j] = job[j] \/
         /\ JobOK(job'[j]) /\ job[j].state = "running" /\ job'[j].state = "running"
         /\ job'[j].attempt = job[j].attempt /\ job'[j].tried = job[j].tried
  BY <1>1, RunFacts DEF GoesOn, Becomes, JobBecomes
<1>2. ASSUME NEW w \in Worker, Stops(w) PROVE job'[j] = job[j] \/
         /\ JobOK(job'[j]) /\ job[j].state = "running" /\ job'[j].state # "running"
         /\ job'[j].attempt = job[j].attempt
         /\ Delivered(j, job'[j]) /\ Counted(j, job'[j])
  BY <1>2, RunFacts DEF Stops, Becomes, JobBecomes
<1>3. ASSUME NEW w \in Worker, NEW h \in Job, Begins(w, h) PROVE job'[j] = job[j] \/
         /\ JobOK(job'[j]) /\ job[j].state = "pending" /\ job'[j].state = "running"
         /\ job'[j].attempt = job[j].attempt + 1 /\ job'[j].tried = job[j].tried
  BY <1>3 DEF Begins, JobBecomes
<1>4. ASSUME NEW h \in Job, Rests(h) PROVE job'[j] = job[j] \/
         /\ JobOK(job'[j]) /\ job[j].state # "running" /\ job'[j].state = "pending"
         /\ Counted(j, job'[j])
  BY <1>4 DEF Rests, JobBecomes
<1>5. QED
  BY <1>1, <1>2, <1>3, <1>4 DEF TaskMove

\* Types, deliveries and attempts: job by job.
LEMMA JobStep ==
    ASSUME TaskInv, TaskMove
    PROVE  Received' /\ TriedOK' /\ \A j \in Job : JobOK(job'[j])
<1>1. ASSUME NEW j \in Job PROVE JobOK(job'[j]) /\ Delivered(j, job'[j]) /\ Counted(j, job'[j])
  <2>1. /\ JobOK(job[j]) /\ Delivered(j, job[j]) /\ Counted(j, job[j]) /\ Task[j].maxRetries \in Nat
    BY TaskFacts DEF TaskInv, Received, TriedOK
  <2>2. CASE job'[j] = job[j]
    BY <2>1, <2>2
  <2>3. CASE /\ JobOK(job'[j]) /\ job[j].state \in {"pending", "running"} /\ job'[j].state = "running"
             /\ job'[j].tried = job[j].tried
             /\ \/ job'[j].attempt = job[j].attempt /\ job[j].state = "running"
                \/ job'[j].attempt = job[j].attempt + 1
    <3>1. job[j].attempt \in Nat /\ job[j].tried \in Nat
      BY <2>1 DEF JobOK
    <3>2. Counted(j, job'[j])
      BY <2>1, <2>3, <3>1 DEF Counted, Tried
    <3>3. QED
      BY <2>3, <3>2 DEF Delivered
  <2>4. CASE JobOK(job'[j]) /\ Counted(j, job'[j]) /\ job'[j].state = "pending"
    BY <2>4 DEF Delivered
  <2>5. QED
    BY <2>2, <2>3, <2>4, JobMoves
<1>2. QED
  BY <1>1, Untouched DEF Received, TriedOK

\* Who runs what.
LEMMA RunStep ==
    ASSUME TaskInv, TaskMove
    PROVE  OneRun' /\ RunFits' /\ \A w \in Worker : run'[w] = NoRun \/ RunOK(run'[w])
<1>f. \A w \in Worker : run[w] # NoRun =>
        /\ RunOK(run[w]) /\ run[w].job \in Job
        /\ job[run[w].job].state = "running" /\ Fits(run[w], job[run[w].job])
  BY RunFacts
<1>o. \A v, w \in Worker : run[v] # NoRun /\ run[w] # NoRun /\ run[v].job = run[w].job => v = w
  BY DEF TaskInv, OneRun
<1> DEFINE Good == /\ \A w \in Worker : run'[w] # NoRun =>
                        /\ RunOK(run'[w]) /\ job'[run'[w].job].state = "running"
                        /\ Fits(run'[w], job'[run'[w].job])
                   /\ \A v, w \in Worker : run'[v] # NoRun /\ run'[w] # NoRun
                                             /\ run'[v].job = run'[w].job => v = w
<1>1. ASSUME NEW w \in Worker, GoesOn(w) PROVE Good
  <2>1. PICK k, r : /\ RunOK(r) /\ run[w] # NoRun /\ r.job = run[w].job /\ k.state = "running"
                    /\ Fits(r, k) /\ Becomes(w, k, r)
    BY <1>1 DEF GoesOn
  <2>2. /\ \A v \in Worker : run'[v] = IF v = w THEN r ELSE run[v]
        /\ \A h \in Job : job'[h] = IF h = r.job THEN k ELSE job[h]
        /\ r.job \in Job
    BY <1>f, <2>1 DEF Becomes, JobBecomes, RunBecomes
  <2>3. QED
    BY <1>f, <1>o, <2>1, <2>2
<1>2. ASSUME NEW w \in Worker, Stops(w) PROVE Good
  <2>1. PICK k : run[w] # NoRun /\ Becomes(w, k, NoRun)
    BY <1>2 DEF Stops
  <2>2. /\ \A v \in Worker : run'[v] = IF v = w THEN NoRun ELSE run[v]
        /\ \A h \in Job : h # run[w].job => job'[h] = job[h]
    BY <2>1 DEF Becomes, JobBecomes, RunBecomes
  <2>3. \A v \in Worker : run'[v] # NoRun => run'[v] = run[v] /\ job'[run[v].job] = job[run[v].job]
    BY <1>f, <1>o, <2>1, <2>2
  <2>4. QED
    BY <1>f, <1>o, <2>3
<1>3. ASSUME NEW w \in Worker, NEW j \in Job, Begins(w, j) PROVE Good
  <2>1. PICK k, r : /\ RunOK(r) /\ r.job = j /\ k.state = "running" /\ job[j].state = "pending"
                    /\ Fits(r, k) /\ JobBecomes(j, k) /\ RunBecomes(w, r)
    BY <1>3 DEF Begins
  <2>2. /\ \A v \in Worker : run'[v] = IF v = w THEN r ELSE run[v]
        /\ \A h \in Job : job'[h] = IF h = j THEN k ELSE job[h]
    BY <2>1 DEF JobBecomes, RunBecomes
  <2>3. \A v \in Worker : run[v] # NoRun => run[v].job # j
    BY <1>f, <2>1
  <2>4. QED
    BY <1>f, <1>o, <2>1, <2>2, <2>3
<1>4. ASSUME NEW j \in Job, Rests(j) PROVE Good
  <2>1. /\ \A h \in Job : h # j => job'[h] = job[h]
        /\ run' = run /\ job[j].state # "running"
    BY <1>4 DEF Rests, JobBecomes
  <2>2. QED
    BY <1>f, <1>o, <2>1
<1>5. ASSUME UNCHANGED <<job, run, table>> PROVE Good
  BY <1>5, <1>f, <1>o
<1> HIDE DEF Good
<1>6. Good
  BY <1>1, <1>2, <1>3, <1>4, <1>5 DEF TaskMove
<1>7. \A r, k : Fits(r, k) => Fits(r, k)'
  BY Untouched DEF Fits
<1>8. RunFits'
  BY <1>6, <1>7 DEF Good, RunFits
<1>9. QED
  BY <1>6, <1>8 DEF Good, OneRun

\* What a move does to the table of a pipeline: nothing, or the statement of the
\* one run the job has.
LEMMA LoadMoves ==
    ASSUME TaskInv, TaskMove, NEW j \in EtlJob
    PROVE  \/ /\ table'[j] = table[j]
              /\ job'[j].state = "completed" => job[j].state = "completed"
              /\ WriteMode(Task[j]) = "append" =>
                   /\ job'[j].attempt >= job[j].attempt
                   /\ job'[j].state = "running" =>
                        job[j].state = "running" \/ job'[j].attempt = job[j].attempt + 1
           \/ /\ job[j].state = "running" /\ job'[j].state # "running"
              /\ job'[j].attempt = job[j].attempt /\ Buildable(Task[j])
              /\ table'[j] = Statement(table[j], Task[j])
<1>1. j \in Job /\ JobOK(job[j]) /\ job[j].attempt \in Nat /\ j \in DOMAIN table
  BY TaskFacts DEF TaskInv, TaskTypeOK, EtlJob, JobOK
<1> DEFINE Kept == /\ table'[j] = table[j]
                   /\ job'[j].state = "completed" => job[j].state = "completed"
                   /\ WriteMode(Task[j]) = "append" =>
                        /\ job'[j].attempt >= job[j].attempt
                        /\ job'[j].state = "running" =>
                             job[j].state = "running" \/ job'[j].attempt = job[j].attempt + 1
<1>2. ASSUME table'[j] = table[j], job'[j] = job[j] PROVE Kept
  BY <1>1, <1>2
<1>3. ASSUME NEW w \in Worker, GoesOn(w) PROVE Kept
  <2>1. PICK k : /\ run[w] # NoRun /\ k.state = "running" /\ k.attempt = job[run[w].job].attempt
                 /\ JobBecomes(run[w].job, k) /\ table' = table
    BY <1>3 DEF GoesOn, Becomes
  <2>2. CASE j # run[w].job
    BY <1>1, <1>2, <2>1, <2>2 DEF JobBecomes
  <2>3. CASE j = run[w].job
    <3>1. job[j].state = "running"
      BY <2>1, <2>3, RunFacts
    <3>2. job'[j] = k
      BY <1>1, <2>1, <2>3 DEF JobBecomes
    <3>3. QED
      BY <1>1, <2>1, <2>3, <3>1, <3>2
  <2>4. QED
    BY <2>2, <2>3
<1>4. ASSUME NEW w \in Worker, Stops(w)
      PROVE  Kept \/ /\ job[j].state = "running" /\ job'[j].state # "running"
                     /\ job'[j].attempt = job[j].attempt /\ Buildable(Task[j])
                     /\ table'[j] = Statement(table[j], Task[j])
  <2>1. PICK k :
          /\ run[w] # NoRun /\ k.state # "running" /\ k.attempt = job[run[w].job].attempt
          /\ JobBecomes(run[w].job, k)
          /\ \/ table' = table /\ (k.state = "completed" => run[w].job \notin EtlJob)
             \/ /\ Buildable(Task[run[w].job])
                /\ table' = [table EXCEPT ![run[w].job] = Statement(table[run[w].job], Task[run[w].job])]
    BY <1>4, Zenon DEF Stops, Becomes
  <2>2. CASE j # run[w].job
    BY <1>1, <1>2, <2>1, <2>2, Zenon DEF JobBecomes
  <2>3. CASE j = run[w].job
    <3>1. job[j].state = "running"
      BY <2>1, <2>3, RunFacts
    <3>2. job'[j] = k
      BY <1>1, <2>1, <2>3 DEF JobBecomes
    <3>3. job'[j].state # "running" /\ job'[j].attempt = job[j].attempt
      BY <2>1, <2>3, <3>2
    <3>4. CASE table' = table /\ (k.state = "completed" => run[w].job \notin EtlJob)
      BY <1>1, <2>3, <3>1, <3>2, <3>3, <3>4
    <3>5. CASE /\ Buildable(Task[run[w].job])
               /\ table' = [table EXCEPT ![run[w].job] = Statement(table[run[w].job], Task[run[w].job])]
      BY <1>1, <2>3, <3>1, <3>3, <3>5
    <3>6. QED
      BY <2>1, <3>4, <3>5, Zenon
  <2>4. QED
    BY <2>2, <2>3
<1>5. ASSUME NEW w \in Worker, NEW h \in Job, Begins(w, h) PROVE Kept
  <2>1. PICK k : /\ k.state = "running" /\ k.attempt = job[h].attempt + 1
                 /\ JobBecomes(h, k) /\ table' = table
    BY <1>5 DEF Begins
  <2>2. job'[j] = IF j = h THEN k ELSE job[j]
    BY <1>1, <2>1 DEF JobBecomes
  <2>3. QED
    BY <1>1, <1>2, <2>1, <2>2
<1>6. ASSUME NEW h \in Job, Rests(h) PROVE Kept
  <2>1. PICK k : /\ k.state = "pending"
                 /\ h \in EtlJob /\ WriteMode(Task[h]) = "append" => k.attempt >= job[h].attempt
                 /\ JobBecomes(h, k) /\ table' = table
    BY <1>6 DEF Rests
  <2>2. job'[j] = IF j = h THEN k ELSE job[j]
    BY <1>1, <2>1 DEF JobBecomes
  <2>3. QED
    BY <1>1, <1>2, <2>1, <2>2
<1>7. ASSUME UNCHANGED <<job, run, table>> PROVE Kept
  BY <1>2, <1>7
<1> HIDE DEF Kept
<1>8. Kept \/ /\ job[j].state = "running" /\ job'[j].state # "running"
              /\ job'[j].attempt = job[j].attempt /\ Buildable(Task[j])
              /\ table'[j] = Statement(table[j], Task[j])
  BY <1>3, <1>4, <1>5, <1>6, <1>7 DEF TaskMove
<1>9. QED
  BY <1>8 DEF Kept

\* An upsert in each of its two states, and a statement more.
LEMMA UpsertStep ==
    ASSUME TaskInv, TaskMove, NEW j \in EtlJob, WriteMode(Task[j]) = "upsert"
    PROVE  Upserted(j)'
<1>1. Upserted(j) /\ j \in Job
  BY DEF TaskInv, Loaded, EtlJob
<1>2. Keyed(Columns(Task[j].conflict), Target[j])
  BY <1>1, TaskFacts DEF TaskInv
<1>3. Statement(Statement(Target[j], Task[j]), Task[j]) = Statement(Target[j], Task[j])
  BY <1>2, UpsertTwice DEF Statement
<1>4. CASE /\ table'[j] = table[j]
           /\ job'[j].state = "completed" => job[j].state = "completed"
  BY <1>1, <1>4 DEF Upserted
<1>5. CASE table'[j] = Statement(table[j], Task[j])
  BY <1>1, <1>3, <1>5 DEF Upserted
<1>6. QED
  BY <1>4, <1>5, LoadMoves

\* More attempts leave more room.
LEMMA MoreAttempts ==
    ASSUME NEW x \in Nat, NEW y \in Nat, NEW a \in Nat, NEW b \in Nat, b >= a, x <= y + a
    PROVE  x <= y + b /\ (x < y + a \/ b = a + 1 => x < y + b)
  OBVIOUS

\* A copy more of a row stays within the attempts.
LEMMA OneCopyMore ==
    ASSUME NEW x \in Nat, NEW y \in Nat, NEW a \in Nat, x >= y, x < y + a
    PROVE  x + 1 > y /\ x + 1 <= y + a
  OBVIOUS

\* An append counts its attempts.
LEMMA AppendStep ==
    ASSUME TaskInv, TaskMove, NEW j \in EtlJob, WriteMode(Task[j]) = "append"
    PROVE  Appended(j)'
<1>1. Appended(j) /\ j \in Job /\ job[j].attempt \in Nat /\ job'[j].attempt \in Nat
  BY TaskFacts, JobStep DEF TaskInv, Loaded, EtlJob, JobOK
<1>2. \A s \in Source : CopiesIn(s, table[j]) \in Nat /\ CopiesIn(s, Target[j]) \in Nat
  BY <1>1, TaskFacts, InsertAdds, Zenon DEF TaskInv, Appended
<1>3. CASE /\ table'[j] = table[j]
           /\ job'[j].state = "completed" => job[j].state = "completed"
           /\ job'[j].attempt >= job[j].attempt
           /\ job'[j].state = "running" =>
                job[j].state = "running" \/ job'[j].attempt = job[j].attempt + 1
  <2>1. ASSUME NEW s \in Source
        PROVE  /\ CopiesIn(s, table[j]) >= CopiesIn(s, Target[j])
               /\ CopiesIn(s, table[j]) <= CopiesIn(s, Target[j]) + job'[j].attempt
               /\ job'[j].state = "running" =>
                    CopiesIn(s, table[j]) < CopiesIn(s, Target[j]) + job'[j].attempt
               /\ job'[j].state = "completed" => CopiesIn(s, table[j]) > CopiesIn(s, Target[j])
    <3>1. /\ CopiesIn(s, table[j]) >= CopiesIn(s, Target[j])
          /\ CopiesIn(s, table[j]) <= CopiesIn(s, Target[j]) + job[j].attempt
          /\ job[j].state = "running" =>
               CopiesIn(s, table[j]) < CopiesIn(s, Target[j]) + job[j].attempt
          /\ job[j].state = "completed" => CopiesIn(s, table[j]) > CopiesIn(s, Target[j])
      BY <1>1, <2>1 DEF Appended
    <3>2. CopiesIn(s, table[j]) \in Nat /\ CopiesIn(s, Target[j]) \in Nat
      BY <1>2, <2>1
    <3>3. /\ CopiesIn(s, table[j]) <= CopiesIn(s, Target[j]) + job'[j].attempt
          /\ \/ CopiesIn(s, table[j]) < CopiesIn(s, Target[j]) + job[j].attempt
             \/ job'[j].attempt = job[j].attempt + 1
             => CopiesIn(s, table[j]) < CopiesIn(s, Target[j]) + job'[j].attempt
      BY <1>1, <1>3, <3>1, <3>2, MoreAttempts
    <3>4. QED
      BY <1>3, <3>1, <3>3, Zenon
  <2>2. QED
    BY <1>1, <1>3, <2>1, Zenon DEF Appended, CopiesIn
<1>4. CASE /\ job[j].state = "running" /\ job'[j].state # "running"
           /\ job'[j].attempt = job[j].attempt /\ table'[j] = Statement(table[j], Task[j])
  <2>1. table'[j] = Insert(table[j])
    BY <1>4 DEF Statement
  <2>2. /\ \A r \in DOMAIN table'[j] : table'[j][r] \in Nat
        /\ \A s \in Source : CopiesIn(s, table'[j]) = CopiesIn(s, table[j]) + 1
    BY <1>1, <2>1, InsertAdds DEF Appended
  <2>3. ASSUME NEW s \in Source
        PROVE  /\ CopiesIn(s, table'[j]) > CopiesIn(s, Target[j])
               /\ CopiesIn(s, table'[j]) <= CopiesIn(s, Target[j]) + job'[j].attempt
    <3>1. /\ CopiesIn(s, table[j]) >= CopiesIn(s, Target[j])
          /\ CopiesIn(s, table[j]) < CopiesIn(s, Target[j]) + job[j].attempt
      BY <1>1, <1>4, <2>3 DEF Appended
    <3>2. CopiesIn(s, table[j]) \in Nat /\ CopiesIn(s, Target[j]) \in Nat
      BY <1>2, <2>3
    <3>3. CopiesIn(s, table'[j]) = CopiesIn(s, table[j]) + 1
      BY <2>2, <2>3
    <3>4. job[j].attempt \in Nat /\ job'[j].attempt = job[j].attempt
      BY <1>1, <1>4
    <3>5. /\ CopiesIn(s, table[j]) + 1 > CopiesIn(s, Target[j])
          /\ CopiesIn(s, table[j]) + 1 <= CopiesIn(s, Target[j]) + job[j].attempt
      BY <3>1, <3>2, <3>4, OneCopyMore
    <3>6. QED
      BY <3>3, <3>4, <3>5
  <2>4. ASSUME NEW s \in Source PROVE CopiesIn(s, table'[j]) >= CopiesIn(s, Target[j])
    <3>1. CopiesIn(s, table[j]) \in Nat /\ CopiesIn(s, Target[j]) \in Nat
      BY <1>2, <2>4
    <3>2. QED
      BY <2>2, <2>3, <3>1
  <2>5. QED
    BY <1>4, <2>2, <2>3, <2>4 DEF Appended, CopiesIn
<1>5. QED
  BY <1>3, <1>4, LoadMoves

\* So every table is as its mode wants it; one with no mode the parser knows is
\* never written.
LEMMA LoadedStep ==
    ASSUME TaskInv, TaskMove
    PROVE  Loaded'
<1>1. ASSUME NEW j \in EtlJob, WriteMode(Task[j]) \notin {"upsert", "append"}
      PROVE  table'[j] = Target[j]
  <2>1. ~Buildable(Task[j])
    BY <1>1 DEF Buildable, ParseSpec
  <2>2. QED
    BY <1>1, <2>1, LoadMoves DEF TaskInv, Loaded
<1>2. QED
  BY <1>1, UpsertStep, AppendStep, Untouched DEF Loaded

\* The invariant is kept.
LEMMA TaskStep == TaskInv /\ [TaskNext]_taskVars => TaskInv'
<1> SUFFICES ASSUME TaskInv, TaskMove PROVE TaskInv'
  BY TaskMoves
<1>1. TaskTypeOK'
  <2>1. Job' = Job /\ DOMAIN run' = Worker /\ DOMAIN table' = DOMAIN Target
    BY Untouched
  <2>2. \A r : RunOK(r) => RunOK(r)'
    BY <2>1 DEF RunOK
  <2>3. (\A j \in Job : JobOK(job'[j])) /\ \A w \in Worker : run'[w] = NoRun \/ RunOK(run'[w])
    BY JobStep, RunStep
  <2>4. QED
    BY <2>1, <2>2, <2>3 DEF TaskInv, TaskTypeOK, Job
<1>2. QED
  BY <1>1, JobStep, RunStep, LoadedStep DEF TaskInv

\* And it holds to begin with.
LEMMA TaskStarts == TaskInit => TaskInv
<1> SUFFICES ASSUME TaskInit PROVE TaskInv
  OBVIOUS
<1>1. PICK jobs \in Mix : job = [j \in jobs |-> NewJob]
  BY DEF TaskInit
<1>2. Job = jobs /\ \A j \in Job : job[j] = NewJob
  BY <1>1 DEF Job
<1>3. /\ JobOK(NewJob) /\ NewJob.state = "pending" /\ NewJob.attempt = 0 /\ NewJob.tried = 0
  BY DEF JobOK, NewJob
<1>4. run = [w \in Worker |-> NoRun] /\ table = Target
  BY DEF TaskInit
<1>5. TaskTypeOK
  BY <1>1, <1>2, <1>3, <1>4 DEF TaskTypeOK, Job
<1>6. OneRun /\ RunFits /\ Received
  BY <1>2, <1>3, <1>4 DEF OneRun, RunFits, Received, Delivered
<1>7. TriedOK
  <2>1. ASSUME NEW j \in Job PROVE Counted(j, NewJob)
    BY <1>3, <1>5, TaskFacts DEF Counted, Tried
  <2>2. QED
    BY <1>2, <2>1 DEF TriedOK
<1>8. Loaded
  <2>1. ASSUME NEW j \in EtlJob PROVE Upserted(j) /\ table[j] = Target[j]
    BY <1>2, <1>3, <1>4 DEF Upserted, EtlJob
  <2>2. ASSUME NEW j \in EtlJob PROVE Appended(j)
    <3>1. \A r \in DOMAIN Target[j] : Target[j][r] \in Nat
      BY <1>5, TaskFacts DEF EtlJob
    <3>2. \A s : CopiesIn(s, Target[j]) \in Nat
      BY <3>1, InsertAdds, Zenon
    <3>3. QED
      BY <1>2, <1>3, <1>4, <3>1, <3>2 DEF Appended, EtlJob
  <2>3. QED
    BY <2>1, <2>2 DEF Loaded
<1>9. QED
  BY <1>5, <1>6, <1>7, <1>8 DEF TaskInv

\* TaskInv is an invariant.
LEMMA TaskCorrect == TaskSpec => []TaskInv
  BY TaskStarts, TaskStep, PTL DEF TaskSpec

\* A webhook job is COMPLETED only if a receiver has taken its payload or a
\* redirect has dropped it, and a run makes at most MaxRedirects requests, in every
\* order of answers, errors, panics and retries.
THEOREM WebhooksAreDelivered == TaskSpec => []CompletedWasReceived
<1>1. TaskInv => CompletedWasReceived
  BY DEF TaskInv, Received, Delivered, RunFits, Fits, CompletedWasReceived
<1>2. QED
  BY <1>1, TaskCorrect, PTL

\* However often the statement of a pipeline is repeated, an upsert has loaded its
\* rows once and an append has inserted a copy per attempt at most.
THEOREM PipelinesLoadOnce == TaskSpec => []LoadsOnce
<1>1. TaskInv => LoadsOnce
  BY DEF TaskInv, Loaded, Upserted, Appended, LoadsOnce
<1>2. QED
  BY <1>1, TaskCorrect, PTL

\* A handler gets at most max_retries runs, and a job is given up after errors that
\* may be retried only when its attempts are used up.
THEOREM RunsAreRetried == TaskSpec => []RetriesAreGiven
<1>1. TaskInv => RetriesAreGiven
  <2> SUFFICES ASSUME TaskInv, NEW j \in Job, Task[j].maxRetries > 0
               PROVE  /\ job[j].tried <= Task[j].maxRetries
                      /\ job[j].state = "dead" /\ job[j].cause = "transient" =>
                           job[j].tried = Task[j].maxRetries \/ job[j].attempt > job[j].tried
    BY DEF RetriesAreGiven
  <2>1. Tried(job[j], Task[j].maxRetries)
    BY DEF TaskInv, TriedOK, Counted
  <2>2. JobOK(job[j]) /\ Task[j].maxRetries \in Nat
    BY TaskFacts DEF TaskInv
  <2>3. QED
    BY <2>1, <2>2 DEF Tried, JobOK
<1>2. QED
  BY <1>1, TaskCorrect, PTL

(***************************************************************************)
(* The scanner of extract statements.                                      *)
(*                                                                         *)
(* The argument: the words of a text are a function of the place to read   *)
(* from, and what the scanner has found and what is left to find are       *)
(* together the words from the first place on.                             *)
(***************************************************************************)

\* A set of numbers that is not empty has a least member.
LEMMA LeastNumber ==
    ASSUME NEW T \in SUBSET Nat, T # {}
    PROVE  \E n \in T : \A m \in T : n <= m
<1>1. IsWellFoundedOn(OpToRel(<, Nat), Nat)
  BY NatLessThanWellFounded, Zenon
<1>2. \E x \in T : \A y \in T : ~(<<y, x>> \in OpToRel(<, Nat))
  BY <1>1, WFMin, Zenon
<1>3. \A x, y \in Nat : x < y => <<x, y>> \in OpToRel(<, Nat)
  BY DEF OpToRel
<1>4. PICK x \in T : \A y \in T : ~(<<y, x>> \in OpToRel(<, Nat))
  BY <1>2, Zenon
<1>5. x \in Nat /\ \A y \in T : y \in Nat /\ ~(y < x)
  BY <1>3, <1>4, Zenon
<1>6. \A y \in T : x <= y
  BY <1>5
<1>7. QED
  BY <1>4, <1>6, Zenon

\* First is the only place that is as its definition says, and there is one.
LEMMA FirstIs ==
    ASSUME NEW text \in Seq(Byte), NEW k \in Nat, NEW S, NEW p \in k..Len(text) + 1,
           p <= Len(text) => p \in S, \A h \in k..p - 1 : h \notin S
    PROVE  First(text, k, S) = p
<1> DEFINE Is(j) == (j <= Len(text) => j \in S) /\ \A h \in k..j - 1 : h \notin S
<1>1. Len(text) \in Nat
  OBVIOUS
<1>2. \A j \in k..Len(text) + 1 : Is(j) => j = p
  BY <1>1
<1>3. Is(p)
  OBVIOUS
<1>4. First(text, k, S) = CHOOSE j \in k..Len(text) + 1 : Is(j)
  BY DEF First
<1> HIDE DEF Is
<1>5. QED
  BY <1>2, <1>3, <1>4

\* So it is such a place.
LEMMA FirstFacts ==
    ASSUME NEW text \in Seq(Byte), NEW k \in Nat, NEW S, k <= Len(text) + 1
    PROVE  /\ First(text, k, S) \in k..Len(text) + 1
           /\ First(text, k, S) <= Len(text) => First(text, k, S) \in S
           /\ \A h \in k..First(text, k, S) - 1 : h \notin S
<1> DEFINE T == {j \in k..Len(text) + 1 : j <= Len(text) => j \in S}
<1>1. T \in SUBSET Nat /\ Len(text) + 1 \in T
  OBVIOUS
<1>2. PICK p \in T : \A j \in T : p <= j
  <2> HIDE DEF T
  <2>1. QED
    BY <1>1, LeastNumber
<1>3. p \in k..Len(text) + 1 /\ (p <= Len(text) => p \in S) /\ \A h \in k..p - 1 : h \notin S
  BY <1>1, <1>2
<1>4. First(text, k, S) = p
  BY <1>3, FirstIs, Zenon
<1>5. QED
  BY <1>3, <1>4

\* It is found one place after the other.
LEMMA FirstSteps ==
    ASSUME NEW text \in Seq(Byte), NEW k \in Nat, NEW S, k <= Len(text) + 1
    PROVE  /\ k = Len(text) + 1 \/ k \in S => First(text, k, S) = k
           /\ k <= Len(text) /\ k \notin S => First(text, k, S) = First(text, k + 1, S)
<1>1. CASE k = Len(text) + 1 \/ k \in S
  <2>0. k \in k..Len(text) + 1 /\ (k <= Len(text) => k \in S) /\ \A h \in k..k - 1 : h \notin S
    BY <1>1
  <2>1. First(text, k, S) = k
    BY <2>0, FirstIs
  <2>2. QED
    BY <1>1, <2>1
<1>2. CASE k <= Len(text) /\ k \notin S
  <2>1. PICK p \in k + 1..Len(text) + 1 :
          /\ p = First(text, k + 1, S) /\ (p <= Len(text) => p \in S)
          /\ \A h \in k + 1..p - 1 : h \notin S
    BY <1>2, FirstFacts
  <2>2. p \in k..Len(text) + 1 /\ \A h \in k..p - 1 : h \notin S
    BY <1>2, <2>1
  <2>3. First(text, k, S) = p
    BY <2>1, <2>2, FirstIs
  <2>4. QED
    BY <1>2, <2>1, <2>3
<1>3. QED
  BY <1>1, <1>2

\* What the scanner can be inside of.
Modes == {"line", "block", "single", "double"}

\* The places that end what mode m is in, and the first place after it from k on.
Closing(text, m) ==
    {j \in 1..Len(text) :
       CASE m = "line"   -> text[j] = "n"
         [] m = "block"  -> text[j] = "*" /\ ByteAt(text, j + 1) = "/"
         [] m = "single" -> text[j] = "'"
         [] m = "double" -> text[j] = "\""}

Rest(text, m, k) == First(text, k, Closing(text, m)) + IF m = "block" THEN 2 ELSE 1

\* The places that end a word.
OtherThanWord(text) == {j \in 1..Len(text) : text[j] # "a"}

\* Whether a comment, a literal or a quoted name of mode m opens at k, and the
\* place where its inside begins.
OpensAt(text, m, k) ==
    CASE m = "line"   -> text[k] = "-" /\ ByteAt(text, k + 1) = "-"
      [] m = "block"  -> text[k] = "/" /\ ByteAt(text, k + 1) = "*"
      [] m = "single" -> text[k] = "'"
      [] m = "double" -> text[k] = "\""

InsideOf(m, k) == k + IF m \in {"line", "block"} THEN 2 ELSE 1

\* What After is in each case.
LEMMA AfterIs ==
    ASSUME NEW text \in Seq(Byte), NEW k \in 1..Len(text)
    PROVE  /\ \A m \in Modes : OpensAt(text, m, k) =>
                /\ text[k] # "a" /\ InsideOf(m, k) \in Nat /\ InsideOf(m, k) <= Len(text) + 1
                /\ After(text, k) = Rest(text, m, InsideOf(m, k))
           /\ text[k] = "a" => After(text, k) = First(text, k, OtherThanWord(text))
           /\ text[k] # "a" /\ (\A m \in Modes : ~OpensAt(text, m, k)) => After(text, k) = k + 1
<1>0. Len(text) \in Nat /\ k \in Nat
  OBVIOUS
<1>1. ASSUME OpensAt(text, "line", k)
      PROVE  /\ text[k] # "a" /\ InsideOf("line", k) \in Nat /\ InsideOf("line", k) <= Len(text) + 1
             /\ After(text, k) = Rest(text, "line", InsideOf("line", k))
  <2>1. text[k] = "-" /\ ByteAt(text, k + 1) = "-"
    BY <1>1 DEF OpensAt
  <2>2. k + 1 <= Len(text) /\ text[k + 1] = "-"
    BY <2>1 DEF ByteAt
  <2>3. After(text, k) = First(text, k, {j \in 1..Len(text) : text[j] = "n"}) + 1
    BY <2>1 DEF After
  <2>4. Closing(text, "line") = {j \in 1..Len(text) : text[j] = "n"}
    BY DEF Closing
  <2>5. k \notin Closing(text, "line") /\ k + 1 \notin Closing(text, "line")
    BY <2>1, <2>2, <2>4
  <2>6. First(text, k, Closing(text, "line")) = First(text, k + 1, Closing(text, "line"))
    BY <1>0, <2>2, <2>5, FirstSteps
  <2>7. First(text, k + 1, Closing(text, "line")) = First(text, k + 2, Closing(text, "line"))
    <3>1. PICK h \in Nat : h = k + 1 /\ h + 1 = k + 2
      BY <1>0
    <3>2. First(text, h, Closing(text, "line")) = First(text, h + 1, Closing(text, "line"))
      BY <1>0, <2>2, <2>5, <3>1, FirstSteps
    <3>3. QED
      BY <3>1, <3>2
  <2>8. Rest(text, "line", k + 2) = First(text, k + 2, Closing(text, "line")) + 1
    BY DEF Rest
  <2>9. InsideOf("line", k) = k + 2
    BY DEF InsideOf
  <2>10. After(text, k) = Rest(text, "line", InsideOf("line", k))
    BY <2>3, <2>4, <2>6, <2>7, <2>8, <2>9, Zenon
  <2>11. InsideOf("line", k) \in Nat /\ InsideOf("line", k) <= Len(text) + 1
    BY <1>0, <2>2, <2>9
  <2>12. QED
    BY <2>1, <2>10, <2>11
<1>2. ASSUME OpensAt(text, "block", k)
      PROVE  /\ text[k] # "a" /\ InsideOf("block", k) \in Nat /\ InsideOf("block", k) <= Len(text) + 1
             /\ After(text, k) = Rest(text, "block", InsideOf("block", k))
  <2>1. text[k] = "/" /\ ByteAt(text, k + 1) = "*"
    BY <1>2 DEF OpensAt
  <2>2. k + 1 <= Len(text)
    BY <2>1 DEF ByteAt
  <2>3. After(text, k) =
          First(text, k + 2, {j \in 1..Len(text) : text[j] = "*" /\ ByteAt(text, j + 1) = "/"}) + 2
    BY <2>1 DEF After
  <2>4. Closing(text, "block") = {j \in 1..Len(text) : text[j] = "*" /\ ByteAt(text, j + 1) = "/"}
    BY DEF Closing
  <2>5. Rest(text, "block", k + 2) = First(text, k + 2, Closing(text, "block")) + 2
    BY DEF Rest
  <2>6. InsideOf("block", k) = k + 2
    BY DEF InsideOf
  <2>7. After(text, k) = Rest(text, "block", InsideOf("block", k))
    BY <2>3, <2>4, <2>5, <2>6, Zenon
  <2>8. InsideOf("block", k) \in Nat /\ InsideOf("block", k) <= Len(text) + 1
    BY <1>0, <2>2, <2>6
  <2>9. QED
    BY <2>1, <2>7, <2>8
<1>3. ASSUME NEW m \in {"single", "double"}, OpensAt(text, m, k)
      PROVE  /\ text[k] # "a" /\ InsideOf(m, k) \in Nat /\ InsideOf(m, k) <= Len(text) + 1
             /\ After(text, k) = Rest(text, m, InsideOf(m, k))
  <2>1. text[k] \in {"'", "\""} /\ text[k] # "-" /\ text[k] # "/" /\ text[k] # "a"
        /\ text[k] = IF m = "single" THEN "'" ELSE "\""
    BY <1>3, Zenon DEF OpensAt
  <2>2. After(text, k) = First(text, k + 1, {j \in 1..Len(text) : text[j] = text[k]}) + 1
    BY <2>1, Zenon DEF After
  <2>3. Closing(text, m) = {j \in 1..Len(text) : text[j] = text[k]}
    BY <1>3, <2>1, Zenon DEF Closing
  <2>4. Rest(text, m, k + 1) = First(text, k + 1, Closing(text, m)) + 1
    BY <1>3 DEF Rest
  <2>5. InsideOf(m, k) = k + 1
    BY <1>3 DEF InsideOf
  <2>6. After(text, k) = Rest(text, m, InsideOf(m, k))
    BY <2>2, <2>3, <2>4, <2>5, Zenon
  <2>7. InsideOf(m, k) \in Nat /\ InsideOf(m, k) <= Len(text) + 1
    BY <1>0, <2>5
  <2>8. QED
    BY <2>1, <2>6, <2>7, Zenon
<1>4. ASSUME text[k] = "a" PROVE After(text, k) = First(text, k, OtherThanWord(text))
  BY <1>4 DEF After, OtherThanWord
<1>5. ASSUME text[k] # "a", \A m \in Modes : ~OpensAt(text, m, k) PROVE After(text, k) = k + 1
  <2>1. ~OpensAt(text, "line", k) /\ ~OpensAt(text, "block", k)
        /\ ~OpensAt(text, "single", k) /\ ~OpensAt(text, "double", k)
    BY <1>5 DEF Modes
  <2>2. QED
    BY <1>5, <2>1, Zenon DEF OpensAt, After
<1>6. QED
  BY <1>1, <1>2, <1>3, <1>4, <1>5 DEF Modes

\* What is after a place comes later.
LEMMA AfterLater ==
    ASSUME NEW text \in Seq(Byte), NEW k \in 1..Len(text)
    PROVE  After(text, k) \in Nat /\ After(text, k) > k
<1>0. Len(text) \in Nat /\ k \in Nat /\ k <= Len(text)
  OBVIOUS
<1>1. CASE \E m \in Modes : OpensAt(text, m, k)
  <2>1. PICK m \in Modes : OpensAt(text, m, k)
    BY <1>1
  <2>2. PICK q \in Nat : q = InsideOf(m, k) /\ q <= Len(text) + 1 /\ After(text, k) = Rest(text, m, q)
    BY <2>1, AfterIs
  <2>3. q > k
    BY <1>0, <2>2 DEF InsideOf
  <2>4. First(text, q, Closing(text, m)) \in q..Len(text) + 1
    BY <2>2, FirstFacts
  <2>5. QED
    BY <1>0, <2>2, <2>3, <2>4 DEF Rest
<1>2. CASE text[k] = "a"
  <2>1. After(text, k) = First(text, k, OtherThanWord(text)) /\ k \notin OtherThanWord(text)
    BY <1>2, AfterIs DEF OtherThanWord
  <2>2. After(text, k) = First(text, k + 1, OtherThanWord(text))
    BY <1>0, <2>1, FirstSteps
  <2>3. PICK q \in Nat : q = k + 1 /\ q <= Len(text) + 1
    BY <1>0
  <2>4. First(text, q, OtherThanWord(text)) \in q..Len(text) + 1
    BY <2>3, FirstFacts
  <2>5. QED
    BY <1>0, <2>2, <2>3, <2>4
<1>3. CASE text[k] # "a" /\ \A m \in Modes : ~OpensAt(text, m, k)
  BY <1>0, <1>3, AfterIs
<1>4. QED
  BY <1>1, <1>2, <1>3

\* The places to read from, and the tokens found.
Places == Nat \ {0}

Tokens == Seq(Nat \X Nat)

\* Adding a token to what was found moves it from what is to be found.
LEMMA AddToken ==
    ASSUME NEW s \in Tokens, NEW u \in Tokens, NEW e \in Nat \X Nat
    PROVE  Append(s, e) \in Tokens /\ Append(s, e) \o u = s \o (<<e>> \o u)
<1> DEFINE T == Nat \X Nat
           n == Len(s)
           m == Len(u)
<1>0. s \in Seq(T) /\ u \in Seq(T) /\ e \in T /\ n \in Nat /\ m \in Nat
  BY DEF Tokens
<1> HIDE DEF T
<1>1. \A f, g \in Seq(T) : /\ f \o g \in Seq(T) /\ Len(f \o g) = Len(f) + Len(g)
                           /\ \A k \in 1..Len(f) + Len(g) :
                                (f \o g)[k] = IF k <= Len(f) THEN f[k] ELSE g[k - Len(f)]
  OBVIOUS
<1>2. \A f, g \in Seq(T) : Len(f) = Len(g) /\ (\A k \in 1..Len(f) : f[k] = g[k]) => f = g
  OBVIOUS
<1>3. PICK v \in Seq(T) : v = Append(s, e)
  <2>1. Append(s, e) \in Seq(T)
    BY <1>0
  <2>2. QED
    BY <2>1, Zenon
<1>4. Len(v) = n + 1 /\ v[n + 1] = e /\ \A k \in 1..n : v[k] = s[k]
  BY <1>0, <1>3
<1>5. PICK d \in Seq(T) : d = <<e>> /\ Len(d) = 1 /\ d[1] = e
  <2>1. <<e>> \in Seq(T) /\ Len(<<e>>) = 1 /\ <<e>>[1] = e
    BY <1>0
  <2>2. QED
    BY <2>1, Zenon
<1>6. PICK w \in Seq(T) : w = d \o u
  BY <1>0, <1>1, Zenon
<1>7. Len(w) = 1 + m /\ \A k \in 1..1 + m : w[k] = IF k <= 1 THEN d[k] ELSE u[k - 1]
  BY <1>0, <1>1, <1>5, <1>6
<1>8. PICK x \in Seq(T) : x = v \o u
  BY <1>0, <1>1, Zenon
<1>9. Len(x) = n + 1 + m /\ \A k \in 1..n + 1 + m : x[k] = IF k <= n + 1 THEN v[k] ELSE u[k - (n + 1)]
  <2>1. /\ Len(x) = Len(v) + m
        /\ \A k \in 1..Len(v) + m : x[k] = IF k <= Len(v) THEN v[k] ELSE u[k - Len(v)]
    BY <1>0, <1>1, <1>8
  <2>2. QED
    BY <1>4, <2>1
<1>10. PICK y \in Seq(T) : y = s \o w
  BY <1>0, <1>1, Zenon
<1>11. Len(y) = n + (1 + m) /\ \A k \in 1..n + (1 + m) : y[k] = IF k <= n THEN s[k] ELSE w[k - n]
  <2>1. /\ Len(y) = n + Len(w)
        /\ \A k \in 1..n + Len(w) : y[k] = IF k <= n THEN s[k] ELSE w[k - n]
    BY <1>0, <1>1, <1>10
  <2>2. QED
    BY <1>7, <2>1
<1> HIDE DEF n, m
<1>12. ASSUME NEW k \in 1..n + 1 + m PROVE x[k] = y[k]
  <2>1. CASE k <= n
    BY <1>0, <1>4, <1>9, <1>11, <2>1
  <2>2. CASE k = n + 1
    <3>1. x[k] = e
      BY <1>0, <1>4, <1>9, <2>2
    <3>2. k - n = 1 /\ ~(k <= n) /\ 1 \in 1..1 + m /\ k \in 1..n + (1 + m)
      BY <1>0, <2>2
    <3>3. y[k] = w[1] /\ w[1] = d[1]
      BY <1>7, <1>11, <3>2
    <3>4. QED
      BY <1>5, <3>1, <3>3
  <2>3. CASE k > n + 1
    <3>1. PICK h \in Nat : h = k - n
      BY <1>0, <2>3
    <3>2. /\ h \in 1..1 + m /\ ~(h <= 1) /\ h - 1 = k - (n + 1)
          /\ ~(k <= n) /\ ~(k <= n + 1) /\ k \in 1..n + (1 + m)
      BY <1>0, <2>3, <3>1
    <3>3. y[k] = w[h] /\ w[h] = u[h - 1] /\ x[k] = u[k - (n + 1)]
      BY <1>7, <1>9, <1>11, <3>1, <3>2
    <3>4. QED
      BY <3>2, <3>3
  <2>4. k <= n \/ k = n + 1 \/ k > n + 1
    BY <1>0
  <2>5. QED
    BY <2>1, <2>2, <2>3, <2>4
<1>13. Len(x) = Len(y) /\ \A k \in 1..Len(x) : x[k] = y[k]
  BY <1>0, <1>9, <1>11, <1>12
<1>14. x = y
  BY <1>2, <1>13
<1>15. QED
  BY <1>3, <1>5, <1>6, <1>8, <1>10, <1>14 DEF T, Tokens

\* Nothing in front of or behind what was found.
LEMMA AddNothing ==
    ASSUME NEW s \in Tokens
    PROVE  s \o << >> = s /\ << >> \o s = s
  BY DEF Tokens

\* Tokens after tokens.
LEMMA TokensJoin ==
    ASSUME NEW s \in Tokens, NEW u \in Tokens
    PROVE  s \o u \in Tokens
  BY DEF Tokens

\* The word that is read at place k, if any, the words from k on by those after it,
\* and what Words is defined as.
WordAt(text, k) == IF text[k] = "a" THEN <<<<k, After(text, k) - 1>>>> ELSE << >>

WordsFrom(text, f, k) == IF k > Len(text) THEN << >> ELSE WordAt(text, k) \o f[After(text, k)]

IsWords(text, f) == f = [k \in Places |-> WordsFrom(text, f, k)]

\* A word is a token.
LEMMA WordAtType ==
    ASSUME NEW text \in Seq(Byte), NEW k \in 1..Len(text)
    PROVE  WordAt(text, k) \in Tokens
<1>1. PICK q \in Nat : q = After(text, k) /\ q > k
  BY AfterLater
<1>2. k \in Nat /\ q - 1 \in Nat
  BY <1>1
<1>3. <<k, q - 1>> \in Nat \X Nat
  BY <1>2
<1>4. <<<<k, q - 1>>>> \in Tokens
  BY <1>3 DEF Tokens
<1>5. << >> \in Tokens
  BY DEF Tokens
<1>6. QED
  BY <1>1, <1>4, <1>5 DEF WordAt

\* The words from each place on are a function: it can be extended from the end of
\* the text to one place after the other.
LEMMA WordsExist ==
    ASSUME NEW text \in Seq(Byte)
    PROVE  \E f \in [Places -> Tokens] : IsWords(text, f)
<1> DEFINE Solves(f, n) == \A k \in Places : k + n > Len(text) => f[k] = WordsFrom(text, f, k)
           Bad == {n \in Nat : ~\E f \in [Places -> Tokens] : Solves(f, n)}
<1>0. Len(text) \in Nat /\ << >> \in Tokens /\ \A k \in Places : k \in Nat /\ k > 0
  BY DEF Places, Tokens
<1>1. ASSUME Bad # {} PROVE FALSE
  <2>0. Bad \in SUBSET Nat
    OBVIOUS
  <2>1. PICK n \in Bad : \A m \in Bad : n <= m
    <3> HIDE DEF Bad
    <3>1. QED
      BY <1>1, <2>0, LeastNumber
  <2>2. n \in Nat
    OBVIOUS
  <2>3. CASE n = 0
    <3>1. [k \in Places |-> << >>] \in [Places -> Tokens]
      BY <1>0
    <3>2. Solves([k \in Places |-> << >>], 0)
      BY <1>0 DEF WordsFrom
    <3>3. QED
      BY <2>3, <3>1, <3>2
  <2>4. CASE n > 0
    <3>1. n - 1 \in Nat /\ n - 1 \notin Bad
      BY <2>0, <2>1, <2>2, <2>4
    <3>2. PICK f \in [Places -> Tokens] : Solves(f, n - 1)
      BY <3>1
    <3> DEFINE p == Len(text) - n + 1
               g == [k \in Places |-> IF k = p THEN WordsFrom(text, f, k) ELSE f[k]]
    <3>3. p \in Int /\ \A k \in Places : /\ k + n > Len(text) => k = p \/ k > p
                                         /\ k > p => k + (n - 1) > Len(text)
                                         /\ k >= p => k + n > Len(text)
      BY <1>0, <2>2
    <3>4. \A k \in Places : k > p => f[k] = WordsFrom(text, f, k)
      BY <3>2, <3>3
    <3> HIDE DEF p
    <3>5. ASSUME NEW k \in Places PROVE WordsFrom(text, f, k) \in Tokens
      <4>1. CASE k > Len(text)
        BY <1>0, <4>1 DEF WordsFrom
      <4>2. CASE k <= Len(text)
        <5>1. k \in 1..Len(text) /\ ~(k > Len(text))
          BY <1>0, <4>2
        <5>2. PICK q \in Places : q = After(text, k)
          BY <5>1, AfterLater DEF Places
        <5>3. WordAt(text, k) \in Tokens /\ f[q] \in Tokens
          BY <5>1, <5>2, WordAtType
        <5>4. WordAt(text, k) \o f[q] \in Tokens
          BY <5>3, TokensJoin
        <5>5. QED
          BY <5>1, <5>2, <5>4 DEF WordsFrom
      <4>3. QED
        BY <1>0, <4>1, <4>2
    <3>6. g \in [Places -> Tokens]
      BY <3>5
    <3>7. \A k \in Places : g[k] = IF k = p THEN WordsFrom(text, f, k) ELSE f[k]
      OBVIOUS
    <3> HIDE DEF g
    <3>8. ASSUME NEW k \in Places, k >= p PROVE WordsFrom(text, g, k) = WordsFrom(text, f, k)
      <4>1. CASE k > Len(text)
        BY <4>1 DEF WordsFrom
      <4>2. CASE k <= Len(text)
        <5>1. k \in 1..Len(text) /\ ~(k > Len(text))
          BY <1>0, <4>2
        <5>2. PICK q \in Places : q = After(text, k) /\ q > k /\ q \in Nat
          BY <5>1, AfterLater DEF Places
        <5>3. q # p
          BY <1>0, <3>3, <3>8, <5>2
        <5>4. g[q] = f[q]
          BY <3>7, <5>3
        <5>5. QED
          BY <5>1, <5>2, <5>4 DEF WordsFrom
      <4>3. QED
        BY <1>0, <4>1, <4>2
    <3>9. ASSUME NEW k \in Places, k + n > Len(text) PROVE g[k] = WordsFrom(text, g, k)
      <4>1. k = p \/ k > p
        BY <3>3, <3>9
      <4>2. k >= p
        BY <1>0, <3>3, <4>1
      <4>3. g[k] = WordsFrom(text, f, k)
        BY <1>0, <3>3, <3>4, <3>7, <4>1
      <4>4. QED
        BY <3>8, <4>2, <4>3
    <3>10. QED
      BY <2>2, <3>6, <3>9
  <2>5. QED
    BY <2>2, <2>3, <2>4
<1>2. PICK f \in [Places -> Tokens] : Solves(f, Len(text))
  BY <1>0, <1>1
<1>3. \A k \in Places : f[k] = WordsFrom(text, f, k)
  BY <1>0, <1>2
<1>4. IsWords(text, f)
  BY <1>3 DEF IsWords
<1>5. QED
  BY <1>4

\* So Words is what its definition says.
LEMMA WordsAre ==
    ASSUME NEW text \in Seq(Byte)
    PROVE  \A k \in Places : Words(text)[k] = WordsFrom(text, Words(text), k)
<1>1. \E f : IsWords(text, f)
  BY WordsExist
<1>2. Words(text) = CHOOSE f : IsWords(text, f)
  BY DEF Words, IsWords, WordsFrom, WordAt, Places
<1>3. IsWords(text, Words(text))
  BY <1>1, <1>2
<1>4. QED
  BY <1>3 DEF IsWords

\* The words from a place on are tokens.
LEMMA WordsType ==
    ASSUME NEW text \in Seq(Byte)
    PROVE  \A k \in Places : Words(text)[k] \in Tokens
<1> DEFINE W == Words(text)
           Bad == {n \in Nat : \E k \in Places : n = Len(text) + 1 - k /\ k <= Len(text) /\ W[k] \notin Tokens}
<1>0. Len(text) \in Nat /\ \A k \in Places : k \in Nat /\ (k <= Len(text) => k \in 1..Len(text))
  BY DEF Places
<1>1. \A k \in Places : W[k] = WordsFrom(text, W, k)
  BY WordsAre
<1> HIDE DEF W
<1>2. \A k \in Places : k > Len(text) => W[k] \in Tokens
  <2>1. << >> \in Tokens
    BY DEF Tokens
  <2>2. QED
    BY <1>1, <2>1 DEF WordsFrom
<1>3. ASSUME Bad # {} PROVE FALSE
  <2>0. Bad \in SUBSET Nat
    OBVIOUS
  <2>1. PICK n \in Bad : \A m \in Bad : n <= m
    <3> HIDE DEF Bad
    <3>1. QED
      BY <1>3, <2>0, LeastNumber
  <2>2. PICK k \in Places : n = Len(text) + 1 - k /\ k <= Len(text) /\ W[k] \notin Tokens
    BY <2>1
  <2>3. PICK q \in Nat : q = After(text, k) /\ q > k
    BY <1>0, <2>2, AfterLater
  <2>4. q \in Places /\ k \in Nat
    BY <1>0, <2>3 DEF Places
  <2>5. W[q] \in Tokens
    <3>1. CASE q > Len(text)
      BY <1>2, <2>4, <3>1
    <3>2. CASE q <= Len(text)
      <4>1. Len(text) + 1 - q \in Nat /\ Len(text) + 1 - q < n
        BY <1>0, <2>2, <2>3, <2>4, <3>2
      <4>2. Len(text) + 1 - q \notin Bad
        BY <2>0, <2>1, <4>1
      <4>3. QED
        BY <2>4, <3>2, <4>1, <4>2
    <3>3. QED
      BY <1>0, <2>3, <3>1, <3>2
  <2>6. W[k] = WordAt(text, k) \o W[q]
    <3>1. W[k] = WordsFrom(text, W, k) /\ ~(k > Len(text))
      BY <1>0, <1>1, <2>2, <2>4
    <3>2. QED
      BY <2>3, <3>1 DEF WordsFrom
  <2>7. WordAt(text, k) \in Tokens
    BY <1>0, <2>2, WordAtType
  <2>8. W[k] \in Tokens
    BY <2>5, <2>6, <2>7, TokensJoin
  <2>9. QED
    BY <2>2, <2>8
<1>4. ASSUME NEW k \in Places PROVE W[k] \in Tokens
  <2>1. CASE k > Len(text)
    BY <1>2, <2>1
  <2>2. CASE k <= Len(text) /\ W[k] \notin Tokens
    <3>1. Len(text) + 1 - k \in Bad
      BY <1>0, <2>2
    <3>2. QED
      BY <1>3, <3>1
  <2>3. QED
    BY <1>0, <2>1, <2>2
<1>5. QED
  BY <1>4 DEF W

\* What the words from a place on are: after a mark, a word, another byte, or the end.
LEMMA WordsHere ==
    ASSUME NEW text \in Seq(Byte), NEW k \in Places
    PROVE  /\ Words(text)[k] \in Tokens
           /\ k > Len(text) => Words(text)[k] = << >>
           /\ k <= Len(text) /\ text[k] # "a" =>
                /\ After(text, k) \in Places
                /\ Words(text)[k] = Words(text)[After(text, k)]
           /\ k <= Len(text) /\ text[k] = "a" =>
                /\ After(text, k) \in Places
                /\ Words(text)[k] = <<<<k, After(text, k) - 1>>>> \o Words(text)[After(text, k)]
<1>0. Len(text) \in Nat /\ k \in Nat /\ (k <= Len(text) => k \in 1..Len(text))
  BY DEF Places
<1>1. Words(text)[k] = WordsFrom(text, Words(text), k) /\ Words(text)[k] \in Tokens
  BY WordsAre, WordsType
<1>2. CASE k > Len(text)
  BY <1>0, <1>1, <1>2 DEF WordsFrom
<1>3. CASE k <= Len(text)
  <2>1. After(text, k) \in Places
    BY <1>0, <1>3, AfterLater DEF Places
  <2>2. PICK w \in Tokens : w = Words(text)[After(text, k)]
    BY <2>1, WordsType
  <2>3. Words(text)[k] = WordAt(text, k) \o w
    BY <1>0, <1>1, <1>3, <2>2 DEF WordsFrom
  <2>4. << >> \o w = w
    BY <2>2, AddNothing
  <2>5. CASE text[k] = "a"
    <3>1. WordAt(text, k) = <<<<k, After(text, k) - 1>>>> /\ ~(k > Len(text))
      BY <1>0, <1>3, <2>5 DEF WordAt
    <3>2. QED
      BY <1>1, <2>1, <2>2, <2>3, <2>5, <3>1, Zenon
  <2>6. CASE text[k] # "a"
    <3>1. Words(text)[k] = w
      BY <2>3, <2>4, <2>6 DEF WordAt
    <3>2. ~(k > Len(text))
      BY <1>0, <1>3
    <3>3. QED
      BY <1>1, <2>1, <2>2, <2>6, <3>1, <3>2, Zenon
  <2>7. QED
    BY <2>5, <2>6
<1>4. k > Len(text) \/ k <= Len(text)
  BY <1>0
<1>5. QED
  BY <1>2, <1>3, <1>4, Zenon

\* The scanner's invariant.  What it has found and what is left to find are together
\* the words of the text; a word that is being read belongs to what is left, and
\* what is left of a comment or a quotation is skipped.
ScanInv ==
    /\ sql \in Seq(Byte) /\ i \in Places /\ i <= Len(sql) + 1
    /\ tokens \in Tokens /\ begin \in Nat
    /\ mode \in Modes \union {"text", "done"}
    /\ mode = "text" /\ begin = 0 => tokens \o Words(sql)[i] = Words(sql)[1]
    /\ begin # 0 =>
         /\ mode = "text" /\ begin < i /\ \A h \in begin..i - 1 : sql[h] = "a"
         /\ tokens \o Words(sql)[begin] = Words(sql)[1]
    /\ mode \in Modes => tokens \o Words(sql)[Rest(sql, mode, i)] = Words(sql)[1]
    /\ mode = "done" => tokens = Words(sql)[1] /\ i > Len(sql)

\* The closure flush leaves no word unfinished, where the byte ends one.
LEMMA Flushed ==
    ASSUME ScanInv, mode = "text", i <= Len(sql) => sql[i] # "a", Flush
    PROVE  /\ begin' = 0 /\ tokens' \in Tokens
           /\ tokens' \o Words(sql)[i] = Words(sql)[1]
<1>1. CASE begin = 0
  BY <1>1 DEF ScanInv, Flush
<1>2. CASE begin # 0
  <2>1. /\ sql \in Seq(Byte) /\ i \in Nat /\ i > 0 /\ i <= Len(sql) + 1 /\ Len(sql) \in Nat
        /\ tokens \in Tokens /\ begin \in Nat /\ begin < i /\ \A h \in begin..i - 1 : sql[h] = "a"
        /\ tokens \o Words(sql)[begin] = Words(sql)[1]
    BY <1>2 DEF ScanInv, Places
  <2>2. begin \in 1..Len(sql) /\ begin \in Places /\ begin <= Len(sql) /\ sql[begin] = "a"
    BY <1>2, <2>1 DEF Places
  <2>3. After(sql, begin) = First(sql, begin, OtherThanWord(sql))
    BY <2>1, <2>2, AfterIs
  <2>4. /\ i \in begin..Len(sql) + 1 /\ (i <= Len(sql) => i \in OtherThanWord(sql))
        /\ \A h \in begin..i - 1 : h \notin OtherThanWord(sql)
    BY <2>1, <2>2 DEF OtherThanWord
  <2>5. First(sql, begin, OtherThanWord(sql)) = i
    BY <2>1, <2>4, FirstIs, Zenon
  <2>6. PICK u \in Tokens : u = Words(sql)[i]
    BY <2>1, WordsHere, Zenon DEF ScanInv
  <2>7. Words(sql)[begin] = <<<<begin, i - 1>>>> \o u
    BY <2>1, <2>2, <2>3, <2>5, <2>6, WordsHere
  <2>8. PICK e \in Nat \X Nat : e = <<begin, i - 1>>
    <3>1. begin \in Nat /\ i - 1 \in Nat
      BY <2>1
    <3>2. <<begin, i - 1>> \in Nat \X Nat
      BY <3>1
    <3>3. QED
      BY <3>2, Zenon
  <2>9. tokens' = Append(tokens, <<begin, i - 1>>) /\ begin' = 0
    BY <1>2 DEF Flush
  <2>10. Append(tokens, e) \in Tokens /\ Append(tokens, e) \o u = tokens \o (<<e>> \o u)
    BY <2>1, <2>6, <2>8, AddToken, Zenon
  <2>11. QED
    BY <2>1, <2>6, <2>7, <2>8, <2>9, <2>10, Zenon
<1>3. QED
  BY <1>1, <1>2

\* At the first byte everything is left to find.
LEMMA ScanInvInit == ScanInit => ScanInv
<1> SUFFICES ASSUME ScanInit PROVE ScanInv
  OBVIOUS
<1>1. sql \in Text /\ i = 1 /\ mode = "text" /\ begin = 0 /\ tokens = << >>
  BY DEF ScanInit, Scan
<1>2. PICK k \in 0..MaxLength : sql \in [1..k -> Byte]
  BY <1>1 DEF Text
<1>3. sql \in Seq(Byte) /\ Len(sql) \in Nat
  BY <1>2
<1>4. i \in Places /\ i <= Len(sql) + 1 /\ tokens \in Tokens
  BY <1>1, <1>3 DEF Places, Tokens
<1>5. Words(sql)[1] \in Tokens
  <2>1. 1 \in Places
    BY DEF Places
  <2>2. QED
    BY <1>3, <2>1, WordsType
<1>6. << >> \o Words(sql)[1] = Words(sql)[1]
  BY <1>5, AddNothing
<1>7. QED
  BY <1>1, <1>3, <1>4, <1>6 DEF ScanInv, Modes

\* What the actions test, of the text.
LEMMA OpensIs ==
    ASSUME i <= Len(sql), NEW m \in Modes
    PROVE  Opens(m) <=> OpensAt(sql, m, i)
  BY DEF Opens, OpensAt, ByteAt, Modes

\* What the four kinds of step do to the invariant.
LEMMA ScanOpen ==
    ASSUME ScanInv, NEW m \in Modes, Open(m)
    PROVE  ScanInv'
<1>1. /\ sql \in Seq(Byte) /\ Len(sql) \in Nat /\ i \in Places /\ i \in 1..Len(sql) /\ i <= Len(sql)
      /\ mode = "text" /\ mode' = m /\ Flush /\ sql' = sql /\ i' = InsideOf(m, i)
  BY DEF ScanInv, Open, InsideOf, Places
<1>2. OpensAt(sql, m, i)
  BY <1>1, OpensIs DEF Open
<1>3. sql[i] # "a" /\ i' \in Nat /\ i' <= Len(sql) + 1 /\ After(sql, i) = Rest(sql, m, i')
  BY <1>1, <1>2, AfterIs
<1>4. begin' = 0 /\ tokens' \in Tokens /\ tokens' \o Words(sql)[i] = Words(sql)[1]
  BY <1>1, <1>3, Flushed
<1>5. Words(sql)[i] = Words(sql)[Rest(sql, m, i')]
  BY <1>1, <1>3, WordsHere, Zenon
<1>6. i' \in Places
  BY <1>1, <1>3 DEF InsideOf, Places
<1>7. m # "text" /\ m # "done"
  BY DEF Modes
<1>8. QED
  BY <1>1, <1>3, <1>4, <1>5, <1>6, <1>7 DEF ScanInv

\* A byte of a word.
LEMMA ScanWord ==
    ASSUME ScanInv, Word
    PROVE  ScanInv'
<1>1. /\ sql \in Seq(Byte) /\ Len(sql) \in Nat /\ i \in Places /\ i \in 1..Len(sql) /\ i <= Len(sql)
      /\ i \in Nat /\ mode = "text" /\ mode' = mode /\ sql' = sql /\ i' = i + 1
      /\ begin \in Nat /\ tokens \in Tokens
  BY DEF ScanInv, Word, Places
<1>2. \A m \in Modes : ~OpensAt(sql, m, i)
  BY <1>1, OpensIs DEF Word, Modes
<1>3. i' \in Places /\ i' <= Len(sql) + 1
  BY <1>1 DEF Places
<1>4. CASE sql[i] # "a"
  <2>1. begin' = 0 /\ tokens' \in Tokens /\ tokens' \o Words(sql)[i] = Words(sql)[1]
    BY <1>1, <1>4, Flushed DEF Word
  <2>2. After(sql, i) = i'
    BY <1>1, <1>2, <1>4, AfterIs
  <2>3. Words(sql)[i] = Words(sql)[i']
    BY <1>1, <1>4, <2>2, WordsHere, Zenon
  <2>4. QED
    BY <1>1, <1>3, <2>1, <2>3 DEF ScanInv, Modes
<1>5. CASE sql[i] = "a"
  <2>1. tokens' = tokens /\ begin' = IF begin = 0 THEN i ELSE begin
    BY <1>5 DEF Word
  <2>2. CASE begin = 0
    <3>1. begin' = i /\ tokens \o Words(sql)[i] = Words(sql)[1]
      BY <1>1, <2>1, <2>2 DEF ScanInv
    <3>2. begin' # 0 /\ begin' \in Nat /\ begin' < i' /\ \A h \in begin'..i' - 1 : sql[h] = "a"
      BY <1>1, <1>5, <3>1
    <3>3. QED
      BY <1>1, <1>3, <2>1, <3>1, <3>2 DEF ScanInv, Modes
  <2>3. CASE begin # 0
    <3>1. /\ begin' = begin /\ tokens \o Words(sql)[begin] = Words(sql)[1]
          /\ begin < i /\ \A h \in begin..i - 1 : sql[h] = "a"
      BY <1>1, <2>1, <2>3 DEF ScanInv
    <3>2. begin < i' /\ \A h \in begin..i' - 1 : sql[h] = "a"
      BY <1>1, <1>5, <3>1
    <3>3. QED
      BY <1>1, <1>3, <2>1, <2>3, <3>1, <3>2 DEF ScanInv, Modes
  <2>4. QED
    BY <2>2, <2>3
<1>6. QED
  BY <1>4, <1>5

\* The end of the text.
LEMMA ScanFinish ==
    ASSUME ScanInv, Finish
    PROVE  ScanInv'
<1>1. /\ sql \in Seq(Byte) /\ Len(sql) \in Nat /\ i \in Places /\ i = Len(sql) + 1 /\ i > Len(sql)
      /\ i \in Nat /\ mode # "done" /\ mode' = "done" /\ sql' = sql /\ i' = i /\ begin' = 0
      /\ tokens \in Tokens /\ i - 1 = Len(sql)
  BY DEF ScanInv, Finish, Places
<1>2. Words(sql)[i] = << >>
  BY <1>1, WordsHere, Zenon
<1>3. CASE mode = "text"
  <2>1. Flush
    BY <1>1 DEF Flush, Finish
  <2>2. tokens' \in Tokens /\ tokens' \o << >> = Words(sql)[1]
    BY <1>1, <1>2, <1>3, <2>1, Flushed
  <2>3. tokens' \o << >> = tokens'
    BY <2>2, AddNothing
  <2>4. QED
    BY <1>1, <2>2, <2>3 DEF ScanInv, Modes
<1>4. CASE mode # "text"
  <2>1. mode \in Modes /\ begin = 0 /\ tokens \o Words(sql)[Rest(sql, mode, i)] = Words(sql)[1]
    BY <1>1, <1>4 DEF ScanInv
  <2>2. First(sql, i, Closing(sql, mode)) = i
    BY <1>1, FirstSteps
  <2>3. Rest(sql, mode, i) \in Places /\ Rest(sql, mode, i) > Len(sql)
    BY <1>1, <2>2 DEF Rest, Places
  <2>4. Words(sql)[Rest(sql, mode, i)] = << >>
    BY <1>1, <2>3, WordsHere, Zenon
  <2>5. tokens \o << >> = tokens
    BY <1>1, AddNothing
  <2>6. tokens' = tokens
    BY <2>1 DEF Finish
  <2>7. QED
    BY <1>1, <2>1, <2>4, <2>5, <2>6 DEF ScanInv, Modes
<1>5. QED
  BY <1>3, <1>4

\* A byte of a comment, a literal or a quoted name.
LEMMA ScanInside ==
    ASSUME ScanInv, Inside
    PROVE  ScanInv'
<1>1. /\ sql \in Seq(Byte) /\ Len(sql) \in Nat /\ i \in Places /\ i \in 1..Len(sql) /\ i <= Len(sql)
      /\ i \in Nat /\ mode \in Modes /\ sql' = sql /\ tokens' = tokens /\ begin' = begin
      /\ begin = 0 /\ tokens \in Tokens /\ mode # "text" /\ mode # "done"
      /\ mode' = IF Closes(mode) THEN "text" ELSE mode
  BY DEF ScanInv, Inside, Places
<1>2. tokens \o Words(sql)[Rest(sql, mode, i)] = Words(sql)[1]
  BY <1>1 DEF ScanInv
<1>3. CASE Closes(mode)
  <2>1. i \in Closing(sql, mode)
    BY <1>1, <1>3, Zenon DEF Closes, Closing, ByteAt, Modes
  <2>2. First(sql, i, Closing(sql, mode)) = i
    BY <1>1, <2>1, FirstSteps
  <2>3. i' = i + IF mode = "block" THEN 2 ELSE 1
    BY <1>1, <1>3, Zenon DEF Inside, Closes, Opens, Modes
  <2>4. i' = Rest(sql, mode, i)
    BY <2>2, <2>3 DEF Rest
  <2>5. i' <= Len(sql) + 1
    <3>1. mode = "block" => ByteAt(sql, i + 1) = "/"
      BY <1>3 DEF Closes
    <3>2. mode = "block" => i + 1 <= Len(sql)
      BY <3>1 DEF ByteAt
    <3>3. QED
      BY <1>1, <2>3, <3>2
  <2>6. i' \in Places
    BY <1>1, <2>3 DEF Places
  <2>7. QED
    BY <1>1, <1>2, <1>3, <2>4, <2>5, <2>6 DEF ScanInv, Modes
<1>4. CASE ~Closes(mode) /\ i \notin Closing(sql, mode)
  <2>1. First(sql, i, Closing(sql, mode)) = First(sql, i + 1, Closing(sql, mode))
    BY <1>1, <1>4, FirstSteps
  <2>2. i' = i + 1
    BY <1>1, <1>4, Zenon DEF Inside, Closes, Opens, Closing, ByteAt, Modes
  <2>3. Rest(sql, mode, i') = Rest(sql, mode, i)
    BY <2>1, <2>2 DEF Rest
  <2>4. i' \in Places /\ i' <= Len(sql) + 1 /\ mode' = mode
    BY <1>1, <1>4, <2>2 DEF Places
  <2>5. QED
    BY <1>1, <1>2, <2>3, <2>4, Zenon DEF ScanInv
<1>5. CASE ~Closes(mode) /\ i \in Closing(sql, mode)
  <2>1. /\ mode \in {"single", "double"} /\ Opens(mode) /\ Doubled
        /\ i + 1 <= Len(sql) /\ OpensAt(sql, mode, i + 1)
    <3>1. i \in Closing(sql, "line") => sql[i] = "n"
      BY DEF Closing
    <3>2. i \in Closing(sql, "block") => sql[i] = "*" /\ ByteAt(sql, i + 1) = "/"
      BY DEF Closing
    <3>3. mode # "line" /\ mode # "block"
      BY <1>1, <1>5, <3>1, <3>2, Zenon DEF Closes, ByteAt
    <3>4. mode = "single" \/ mode = "double"
      BY <1>1, <3>3 DEF Modes
    <3>5. sql[i] = (IF mode = "single" THEN "'" ELSE "\"") /\ ByteAt(sql, i) = sql[i]
      BY <1>1, <1>5, <3>4, Zenon DEF Closing, ByteAt
    <3>6. Opens(mode) /\ Doubled
      BY <1>5, <3>4, <3>5, Zenon DEF Closes, Opens
    <3>7. ByteAt(sql, i + 1) = sql[i]
      BY <3>5, <3>6, Zenon DEF Doubled
    <3>8. i + 1 <= Len(sql) /\ sql[i + 1] = sql[i]
      BY <1>1, <3>5, <3>7, Zenon DEF ByteAt
    <3>9. OpensAt(sql, mode, i + 1)
      BY <3>4, <3>5, <3>8, Zenon DEF OpensAt
    <3>10. QED
      BY <3>4, <3>6, <3>8, <3>9
  <2>2. i' = i + 2 /\ mode' = mode
    BY <1>1, <1>5, <2>1 DEF Inside
  <2>3. Rest(sql, mode, i) = i + 1
    <3>1. First(sql, i, Closing(sql, mode)) = i
      BY <1>1, <1>5, FirstSteps
    <3>2. QED
      BY <2>1, <3>1 DEF Rest
  <2>4. PICK k \in 1..Len(sql) : k = i + 1
    BY <1>1, <2>1
  <2>5. k \in Places /\ k <= Len(sql) /\ InsideOf(mode, k) = i'
    BY <1>1, <2>1, <2>2, <2>4 DEF Places, InsideOf
  <2>6. sql[k] # "a" /\ After(sql, k) = Rest(sql, mode, i')
    BY <1>1, <2>1, <2>4, <2>5, AfterIs
  <2>7. Words(sql)[k] = Words(sql)[Rest(sql, mode, i')]
    BY <1>1, <2>5, <2>6, WordsHere, Zenon
  <2>8. i' \in Places /\ i' <= Len(sql) + 1
    BY <1>1, <2>1, <2>2 DEF Places
  <2>9. QED
    BY <1>1, <1>2, <2>2, <2>3, <2>4, <2>7, <2>8 DEF ScanInv
<1>6. QED
  BY <1>3, <1>4, <1>5

\* The loop of sqlTokens keeps it: at every byte, the tokens found and the words left
\* to find are together the words of the text.
THEOREM ScanInvariant == ScanSpec => []ScanInv
<1>1. ASSUME ScanInv, [ScanNext]_scanVars PROVE ScanInv'
  <2>1. CASE \E m \in Modes : Open(m)
    BY <1>1, <2>1, ScanOpen
  <2>2. CASE Inside
    BY <1>1, <2>2, ScanInside
  <2>3. CASE Word
    BY <1>1, <2>3, ScanWord
  <2>4. CASE Finish
    BY <1>1, <2>4, ScanFinish
  <2>5. CASE UNCHANGED scanVars
    BY <1>1, <2>5 DEF ScanInv, scanVars
  <2>6. QED
    BY <1>1, <2>1, <2>2, <2>3, <2>4, <2>5 DEF ScanNext, Modes
<1>2. QED
  BY <1>1, ScanInvInit, PTL DEF ScanSpec

\* For texts of every length: sqlTokens finds exactly the words outside literals,
\* quoted names and comments.
THEOREM ScannerFindsTheWords == ScanSpec => []FindsTheWords
<1>1. ScanInv => FindsTheWords
  BY DEF ScanInv, FindsTheWords
<1>2. QED
  BY <1>1, ScanInvariant, PTL

=============================================================================
