--------------------------- MODULE ConduitProofs ----------------------------
(***************************************************************************)
(* What follows from the claim protocol.                                   *)
(*                                                                         *)
(* A job that only the reconciler dispatches is never run more often than  *)
(* its max_retries.  Each claim the reconciler makes is paid for by one    *)
(* attempt of the row.  The runs there were and the claims that are on     *)
(* their way to a handler are never more than the attempts of the row, nor *)
(* than max_retries; a row that waits, or is about to be released, has     *)
(* some of the budget left.                                                *)
(*                                                                         *)
(* Rows only make legal transitions and stay terminal.  No two handlers    *)
(* run for one job at the same time: a lease protects a claim until it     *)
(* lapses under a live holder (ClaimKept, LeaseKept), and the execution    *)
(* lock protects a run until it runs out (LockKept); either is enough.     *)
(* The system implements the job board.                                    *)
(***************************************************************************)
EXTENDS ConduitTokenProofs, FiniteSetTheorems

(***************************************************************************)
(* The budget of a job: the inductive invariant.                           *)
(***************************************************************************)

\* The runs of job j, with those that are on their way.
Spent(j) == runs[j] + Cardinality(Unrun(j))

\* Runs and claims on their way are paid for by the attempts of the row, and stay
\* within the budget; a row that waits, or that is about to be released, has
\* some of it left.
Within(j) ==
    /\ IsFiniteSet(Unrun(j))
    /\ Spent(j) <= rows[j].attempt /\ Spent(j) <= MaxRetries[j]
    /\ rows[j].state = "ABSENT" => rows[j].attempt = 0
    /\ rows[j].state = "PENDING" => Spent(j) < MaxRetries[j]
    /\ \A w \in Worker : pc[w] = "release" /\ cur[w].id = j /\ cur[w].token = rows[j].token
         => Spent(j) < MaxRetries[j]

\* Beyond AttemptCap neither attempts nor runs are counted.
SpentWithin == \A j \in Job : MaxRetries[j] \in 1..AttemptCap => Within(j)

BudgetInv == NoMessages /\ AttemptsAgree /\ RetriesLeft /\ SpentWithin

\* A finite set with at most one element more.
LEMMA OneMore ==
    ASSUME NEW S, IsFiniteSet(S), NEW x, NEW T, T \subseteq S \cup {x}
    PROVE  IsFiniteSet(T) /\ Cardinality(T) \in Nat /\ Cardinality(T) <= Cardinality(S) + 1
<1>1. /\ IsFiniteSet(S \cup {x}) /\ Cardinality(S) \in Nat
      /\ Cardinality(S \cup {x}) \in {Cardinality(S), Cardinality(S) + 1}
  BY FS_AddElement, FS_CardinalityType, Zenon
<1>2. IsFiniteSet(T) /\ Cardinality(T) <= Cardinality(S \cup {x}) /\ Cardinality(T) \in Nat
  BY <1>1, FS_Subset, FS_CardinalityType
<1>3. QED
  BY <1>1, <1>2

\* A finite set with an element less.
LEMMA OneLess ==
    ASSUME NEW S, IsFiniteSet(S), NEW x \in S, NEW T, T \subseteq S, x \notin T
    PROVE  Cardinality(T) < Cardinality(S)
<1>1. /\ IsFiniteSet(S \ {x}) /\ Cardinality(S \ {x}) = Cardinality(S) - 1
      /\ Cardinality(S) \in Nat
  BY FS_RemoveElement, FS_CardinalityType
<1>2. Cardinality(T) <= Cardinality(S \ {x}) /\ Cardinality(T) \in Nat
  BY <1>1, FS_Subset, FS_CardinalityType
<1>3. QED
  BY <1>1, <1>2

\* What is spent is a number.
LEMMA SpentType ==
    ASSUME TypeOK, NEW j \in Job, IsFiniteSet(Unrun(j))
    PROVE  /\ Cardinality(Unrun(j)) \in Nat /\ Spent(j) \in Nat /\ runs[j] \in 0..AttemptCap
           /\ rows[j].attempt \in 0..AttemptCap /\ rows[j].attempt \in Nat
           /\ AttemptCap \in Nat /\ MaxRetries[j] \in Nat /\ runs[j] \in Nat
<1>1. Cardinality(Unrun(j)) \in Nat
  BY FS_CardinalityType
<1>2. /\ runs[j] \in 0..AttemptCap /\ rows[j].attempt \in 0..AttemptCap
      /\ AttemptCap \in Nat /\ MaxRetries[j] \in Nat
  BY JobStoreAssumption, ConduitAssumption DEF TypeOK, TableType, Row, ConduitAssumption
<1>3. QED
  BY <1>1, <1>2 DEF Spent

\* A step that does not claim job j spends nothing of its budget, and one that
\* takes a claim from the start to its release gives some back.
LEMMA SpentFalls ==
    ASSUME TypeOK, ClaimInv, NoMessages, Next, TypeOK', ClaimInv', NEW j \in Job,
           IsFiniteSet(Unrun(j)), \A t \in Token : ~RowClaimed(j, t)
    PROVE  /\ IsFiniteSet(Unrun(j)') /\ Cardinality(Unrun(j)') \in Nat
           /\ Spent(j)' \in Nat /\ Spent(j)' <= Spent(j)
           /\ \A w \in Worker : pc[w] = "start" /\ pc'[w] = "release" /\ cur[w].id = j
                                => Spent(j)' < Spent(j)
<1> DEFINE U == Unrun(j)
           V == Unrun(j)'
<1>1. V \subseteq U
  <2>1. \A t \in V : t \in Token
    BY DEF Unrun
  <2>2. QED
    BY <2>1, UnrunBefore
<1>2. /\ IsFiniteSet(V) /\ Cardinality(V) \in Nat /\ Cardinality(U) \in Nat
      /\ Cardinality(V) <= Cardinality(U)
  BY <1>1, FS_Subset, FS_CardinalityType
<1>3. runs[j] \in Nat /\ runs'[j] \in Nat
  BY JobStoreAssumption DEF TypeOK, TableType
<1>4. CASE runs'[j] = runs[j]
  <2>1. ASSUME NEW w \in Worker, pc[w] = "start", pc'[w] = "release", cur[w].id = j
        PROVE  Cardinality(V) < Cardinality(U)
    <3>1. WorkerMove(w)
      BY WorkerMoves
    <3>2. cur'[w] = cur[w]
      BY <2>1, <3>1 DEF WorkerMove, RunGoesOn, RunChangesCopy
    <3>3. cur[w].token \in U \ V
      BY <2>1, <3>2, StartedIsOut
    <3>4. QED
      BY <1>1, <3>3, OneLess
  <2>2. Spent(j) = runs[j] + Cardinality(U) /\ Spent(j)' = runs[j] + Cardinality(V)
    BY <1>4 DEF Spent
  <2>3. QED
    BY <1>2, <1>3, <2>1, <2>2
<1>5. CASE runs'[j] # runs[j]
  <2>1. PICK v \in Worker : RunClaimed(v) /\ cur[v].id = j /\ runs'[j] = NextAttempt(runs[j])
    BY <1>5, RunsMove
  <2>2. /\ pc[v] = "start" /\ cur' = cur /\ pc'[v] = "exec"
        /\ \A w \in Worker : w # v => pc'[w] = pc[w]
    BY <2>1 DEF RunClaimed, Acquire, StartHandler, TypeOK, WorkerType
  <2>3. cur[v].token \in U \ V
    BY <2>1, <2>2, StartedIsOut
  <2>4. Cardinality(V) < Cardinality(U)
    BY <1>1, <2>3, OneLess
  <2>5. runs'[j] <= runs[j] + 1
    BY <1>3, <2>1, JobStoreAssumption DEF NextAttempt
  <2>6. Spent(j)' \in Nat /\ Spent(j)' <= Spent(j)
    BY <1>2, <1>3, <2>4, <2>5 DEF Spent
  <2>7. \A w \in Worker : ~(pc[w] = "start" /\ pc'[w] = "release")
    BY <2>2
  <2>8. QED
    BY <1>2, <2>6, <2>7
<1>6. QED
  BY <1>4, <1>5

\* A claim is paid for by the row's attempt.
LEMMA ClaimSpends ==
    ASSUME TypeOK, ClaimInv, NoMessages, Next, TypeOK', ClaimInv', NEW j \in Job,
           MaxRetries[j] \in 1..AttemptCap, Within(j), NEW t \in Token, RowClaimed(j, t)
    PROVE  Within(j)'
<1>1. Unrun(j)' \subseteq Unrun(j) \cup {t}
  BY UnrunBefore DEF RowClaimed
<1>2. /\ IsFiniteSet(Unrun(j)') /\ Cardinality(Unrun(j)') \in Nat
      /\ Cardinality(Unrun(j)') <= Cardinality(Unrun(j)) + 1
  BY <1>1, OneMore, Zenon DEF Within
<1>3. runs'[j] = runs[j]
  <2>1. SUFFICES ASSUME NEW w \in Worker, RunClaimed(w) PROVE FALSE
    BY RunsMove
  <2>2. rows' = rows
    BY <2>1 DEF RunClaimed
  <2>3. QED
    BY <2>2 DEF RowClaimed
<1>4. /\ Cardinality(Unrun(j)) \in Nat /\ runs[j] \in Nat
      /\ rows[j].attempt \in 0..AttemptCap /\ AttemptCap \in Nat /\ MaxRetries[j] \in Nat
  BY SpentType DEF Within
<1>5. /\ Spent(j) <= rows[j].attempt /\ Spent(j) < MaxRetries[j]
      /\ rows'[j].attempt = NextAttempt(rows[j].attempt) /\ rows'[j].state = "RUNNING"
  BY DEF Within, RowClaimed
<1>6. Spent(j)' <= Spent(j) + 1 /\ Spent(j) \in Nat /\ Spent(j)' \in Nat
  BY <1>2, <1>3, <1>4 DEF Spent
<1>7. Spent(j)' <= rows'[j].attempt /\ Spent(j)' <= MaxRetries[j]
  BY <1>4, <1>5, <1>6 DEF NextAttempt
<1>8. \A w \in Worker : ~(pc'[w] = "release" /\ cur'[w].token = t)
  <2> SUFFICES ASSUME NEW w \in Worker, pc'[w] = "release", cur'[w].token = t PROVE FALSE
    OBVIOUS
  <2>1. cur'[w] # NoJob
    BY DEF TypeOK, WorkerType
  <2>2. Home[w] \in Instance
    BY ConduitAssumption DEF ConduitAssumption
  <2>3. QED
    BY <2>1, <2>2, CopyGoesOn DEF RowClaimed, Fresh
<1>9. rows'[j].token = t
  BY DEF RowClaimed
<1>10. QED
  BY <1>2, <1>5, <1>7, <1>8, <1>9 DEF Within

\* A row that waits after a step, and waited before or not, has some of the
\* budget left.
LEMMA WaitingHasLeft ==
    ASSUME TypeOK, ClaimInv, NoMessages, AttemptsAgree, RetriesLeft, Next, NEW j \in Job, RowMove(j),
           MaxRetries[j] \in 1..AttemptCap, Within(j), rows'[j].state = "PENDING"
    PROVE  Spent(j) < MaxRetries[j]
<1>0. /\ Spent(j) \in Nat /\ rows[j].attempt \in Nat /\ MaxRetries[j] \in Nat
      /\ Spent(j) <= rows[j].attempt /\ MaxRetries[j] > 0
  BY SpentType DEF Within
<1>1. CASE RowSame(j) \/ \E t \in Token : RowClaimed(j, t)
  BY <1>1 DEF RowSame, RowClaimed, Within
<1>2. CASE RowNew(j)
  <2>1. rows[j].attempt = 0
    BY <1>2 DEF RowNew, Within
  <2>2. QED
    BY <1>0, <2>1
<1>3. CASE RowRecovered(j)
  BY <1>0, <1>3 DEF RowRecovered
<1>4. ASSUME NEW w \in Worker, RowReleased(j, w) PROVE Spent(j) < MaxRetries[j]
  BY <1>4 DEF RowReleased, OwnsClaim, Within
<1>5. ASSUME NEW w \in Worker, RowWritten(j, w) PROVE Spent(j) < MaxRetries[j]
  <2>1. /\ pc[w] = "put" /\ cur[w].id = j /\ cur[w].state = "PENDING"
        /\ rows[j].token = cur[w].token
    BY <1>5 DEF RowWritten
  <2>2. cur[w] # NoJob
    BY <2>1 DEF TypeOK, WorkerType
  <2>3. rows[j].attempt = cur[w].attempt
    BY <2>1, <2>2 DEF AttemptsAgree, Agrees
  <2>4. cur[w].attempt < MaxRetries[j]
    BY <1>0, <2>1 DEF RetriesLeft
  <2>5. QED
    BY <1>0, <2>3, <2>4
<1>6. ~RowCancelled(j)
  BY DEF RowCancelled
<1>7. QED
  BY <1>1, <1>2, <1>3, <1>4, <1>5, <1>6 DEF RowMove, RowChanged

\* The budget is kept by every step.
LEMMA WithinStep ==
    ASSUME TypeOK, ClaimInv, NoMessages, AttemptsAgree, RetriesLeft, Next, TypeOK', ClaimInv',
           NEW j \in Job, MaxRetries[j] \in 1..AttemptCap, Within(j)
    PROVE  Within(j)'
<1>1. CASE \E t \in Token : RowClaimed(j, t)
  BY <1>1, ClaimSpends
<1>2. CASE \A t \in Token : ~RowClaimed(j, t)
  <2>0. RowMove(j) /\ IsFiniteSet(Unrun(j))
    BY RowMoves DEF Within
  <2>1. /\ IsFiniteSet(Unrun(j)') /\ Spent(j)' \in Nat /\ Spent(j)' <= Spent(j)
        /\ \A w \in Worker : pc[w] = "start" /\ pc'[w] = "release" /\ cur[w].id = j
                             => Spent(j)' < Spent(j)
    BY <1>2, <2>0, SpentFalls
  <2>2. Spent(j) \in Nat /\ rows[j].attempt \in Nat /\ MaxRetries[j] \in Nat
    BY <2>0, SpentType
  <2>3. rows'[j].state = "PENDING" => Spent(j) < MaxRetries[j]
    BY <2>0, WaitingHasLeft
  <2>4. rows'[j].attempt = rows[j].attempt
    BY <1>2, <2>0, AttemptStays DEF Within
  <2>5. Spent(j)' <= rows'[j].attempt /\ Spent(j)' <= MaxRetries[j]
    BY <2>1, <2>2, <2>4 DEF Within
  <2>6. rows'[j].state = "ABSENT" => rows[j].state = "ABSENT"
    <3>1. ASSUME NEW w \in Worker, RowWritten(j, w) PROVE rows'[j].state # "ABSENT"
      <4>1. cur[w] \in Copy /\ rows'[j].state = cur[w].state
        BY <3>1 DEF RowWritten, TypeOK, WorkerType
      <4>2. QED
        BY <4>1 DEF Copy, JobState
    <3>2. QED
      BY <1>2, <2>0, <3>1
         DEF RowMove, RowChanged, RowSame, RowNew, RowCancelled, RowRecovered, RowReleased
  <2>7. rows'[j].state = "ABSENT" => rows'[j].attempt = 0
    BY <2>4, <2>6 DEF Within
  <2>8. rows'[j].state = "PENDING" => Spent(j)' < MaxRetries[j]
    BY <2>1, <2>2, <2>3
  <2>9. ASSUME NEW w \in Worker, pc'[w] = "release", cur'[w].id = j, cur'[w].token = rows'[j].token
        PROVE  Spent(j)' < MaxRetries[j]
    <3>1. WorkerMove(w)
      BY WorkerMoves
    <3>2. cur'[w] = cur[w] /\ pc[w] \in {"start", "release"}
      BY <2>9, <3>1 DEF WorkerMove, RunGoesOn, RunChangesCopy
    <3>3. CASE pc[w] = "start"
      BY <2>1, <2>2, <2>9, <3>2, <3>3 DEF Within
    <3>4. CASE pc[w] = "release"
      <4>1. cur[w].token \in Token /\ cur[w] # NoJob
        BY <3>4 DEF ClaimInv, CopyShape, Claimed, TypeOK, WorkerType
      <4>2. ~Fresh(cur[w].token)
        BY <4>1 DEF Fresh
      <4>3. rows'[j].token = rows[j].token
        BY <2>9, <3>2, <4>1, <4>2, RowAgrees
      <4>4. Spent(j) < MaxRetries[j]
        BY <2>9, <3>2, <3>4, <4>3 DEF Within
      <4>5. QED
        BY <2>1, <2>2, <4>4
    <3>5. QED
      BY <3>2, <3>3, <3>4
  <2>10. QED
    BY <2>1, <2>5, <2>7, <2>8, <2>9 DEF Within
<1>3. QED
  BY <1>1, <1>2

\* The invariant holds at first: nothing was run and nothing is on its way.
LEMMA BudgetInit == Init => BudgetInv
<1> SUFFICES ASSUME Init PROVE BudgetInv
  OBVIOUS
<1>1. NoMessages /\ AttemptsAgree /\ RetriesLeft
  BY EmptyFacts DEF Init, NoMessages, AttemptsAgree, RetriesLeft
<1>2. ASSUME NEW j \in Job, MaxRetries[j] \in 1..AttemptCap PROVE Within(j)
  <2>1. Unrun(j) = {}
    BY EmptyFacts DEF Init, Unrun
  <2>2. IsFiniteSet(Unrun(j)) /\ Cardinality(Unrun(j)) = 0
    BY <2>1, FS_EmptySet
  <2>3. runs[j] = 0 /\ rows[j] = AbsentRow /\ \A w \in Worker : pc[w] # "release"
    BY DEF Init
  <2>4. rows[j].state = "ABSENT" /\ rows[j].attempt = 0
    BY <2>3 DEF AbsentRow
  <2>5. Spent(j) = 0 /\ MaxRetries[j] \in Nat
    BY <2>2, <2>3, ConduitAssumption DEF Spent, ConduitAssumption
  <2>6. QED
    BY <2>2, <2>3, <2>4, <2>5 DEF Within
<1>3. QED
  BY <1>1, <1>2 DEF BudgetInv, SpentWithin

\* Every step keeps it, as long as no message is delivered.
LEMMA BudgetStep ==
    /\ MaxDeliveries = 0 /\ TypeOK /\ ClaimInv /\ BudgetInv /\ [Next]_vars /\ TypeOK' /\ ClaimInv'
    => BudgetInv'
<1> SUFFICES ASSUME MaxDeliveries = 0, TypeOK, ClaimInv, BudgetInv, [Next]_vars, TypeOK', ClaimInv'
             PROVE  BudgetInv'
  OBVIOUS
<1>1. CASE Next
  <2>1. NoMessages' /\ RetriesLeft'
    BY <1>1, NoMessagesStep, RetriesLeftStep DEF BudgetInv
  <2>2. AttemptsAgree'
    BY <1>1, <2>1, AgreeStep DEF BudgetInv
  <2>3. SpentWithin'
    BY <1>1, WithinStep DEF BudgetInv, SpentWithin
  <2>4. QED
    BY <2>1, <2>2, <2>3 DEF BudgetInv
<1>2. CASE UNCHANGED vars
  <2>1. UNCHANGED <<rows, inbox, queue, pc, cur, rcur, runs>>
    BY <1>2 DEF vars, workerVars, recVars
  <2>2. NoMessages' /\ RetriesLeft'
    BY <2>1 DEF BudgetInv, NoMessages, RetriesLeft
  <2>3. AttemptsAgree'
    BY <2>1 DEF BudgetInv, AttemptsAgree, Agrees
  <2>4. ASSUME NEW j \in Job, Within(j) PROVE Within(j)'
    <3>1. Unrun(j)' = Unrun(j) /\ Spent(j)' = Spent(j)
      BY <2>1 DEF Unrun, Spent
    <3>2. QED
      BY <2>1, <2>4, <3>1 DEF Within
  <2>5. SpentWithin'
    BY <2>4 DEF BudgetInv, SpentWithin
  <2>6. QED
    BY <2>2, <2>3, <2>5 DEF BudgetInv
<1>3. QED
  BY <1>1, <1>2

\* The invariant bounds the runs; beyond AttemptCap nothing is counted.
LEMMA BudgetBounds == TypeOK /\ BudgetInv => RetryBudget
<1> SUFFICES ASSUME TypeOK, BudgetInv, NEW j \in Job, MaxRetries[j] > 0 PROVE runs[j] <= MaxRetries[j]
  BY DEF RetryBudget
<1>1. MaxRetries[j] \in Nat /\ AttemptCap \in Nat /\ runs[j] \in 0..AttemptCap
  BY JobStoreAssumption, ConduitAssumption DEF TypeOK, TableType, ConduitAssumption
<1>2. CASE MaxRetries[j] <= AttemptCap
  <2>1. Within(j)
    BY <1>1, <1>2 DEF BudgetInv, SpentWithin
  <2>2. Cardinality(Unrun(j)) \in Nat
    BY <2>1, FS_CardinalityType DEF Within
  <2>3. Spent(j) <= MaxRetries[j]
    BY <2>1 DEF Within
  <2>4. QED
    BY <1>1, <2>2, <2>3 DEF Spent
<1>3. CASE MaxRetries[j] > AttemptCap
  BY <1>1, <1>3
<1>4. QED
  BY <1>1, <1>2, <1>3

\* Without Kafka a job with a retry budget never runs more often than that.
THEOREM RunsWithinBudget == MaxDeliveries = 0 => (Spec => []RetryBudget)
<1> SUFFICES ASSUME MaxDeliveries = 0 PROVE Spec => []RetryBudget
  OBVIOUS
<1>1. TypeOK /\ ClaimInv /\ BudgetInv /\ [Next]_vars /\ TypeOK' /\ ClaimInv' => BudgetInv'
  BY BudgetStep
<1>2. QED
  BY <1>1, TypeCorrect, ClaimsCorrect, BudgetInit, BudgetBounds, PTL DEF Spec

(***************************************************************************)
(* Transitions.                                                            *)
(***************************************************************************)

\* Worker w is in the second statement of an UpdateJob of row j, with the token
\* the row has.
Overwrites(w, j) ==
    /\ pc[w] = "put" /\ cur[w].id = j /\ cur[w].state # "RUNNING"
    /\ cur[w].token \in Token /\ cur[w].token = rows[j].token

\* What a change of a row's state can be: a cancel, a write with the row's token,
\* or a statement that looks at the state itself.
LEMMA StateChange ==
    ASSUME TypeOK, ClaimInv, Next, NEW j \in Job, rows'[j].state # rows[j].state
    PROVE  \/ cancel[j] = "checked" /\ cancel'[j] = "done"
           \/ \E w \in Worker : Overwrites(w, j) /\ rows'[j].state = cur[w].state
           \/ LegalTransition(rows[j].state, rows'[j].state)
<1> NoToken \notin Token
  BY JobStoreAssumption
<1>1. RowMove(j) /\ ~RowSame(j)
  BY RowMoves DEF RowSame
<1>2. RowNew(j) \/ RowRecovered(j) => LegalTransition(rows[j].state, rows'[j].state)
  BY DEF RowNew, RowRecovered, LegalTransition, CanTransition
<1>3. RowCancelled(j) => cancel[j] = "checked" /\ cancel'[j] = "done"
  BY DEF RowCancelled
<1>4. \A t \in Token : RowClaimed(j, t) => LegalTransition(rows[j].state, rows'[j].state)
  BY DEF RowClaimed, LegalTransition, CanTransition
<1>5. ASSUME NEW w \in Worker, RowReleased(j, w)
      PROVE  LegalTransition(rows[j].state, rows'[j].state)
  BY <1>5 DEF RowReleased, OwnsClaim, LegalTransition
<1>6. ASSUME NEW w \in Worker, RowWritten(j, w)
      PROVE  \/ Overwrites(w, j) /\ rows'[j].state = cur[w].state
             \/ LegalTransition(rows[j].state, rows'[j].state)
  <2>1. cur[w].token \in Token
    BY <1>6 DEF RowWritten, ClaimInv, CopyShape
  <2>2. CASE cur[w].state = "RUNNING"
    BY <1>6, <2>2 DEF RowWritten, LegalTransition, CanTransition
  <2>3. CASE cur[w].state # "RUNNING"
    BY <1>6, <2>1, <2>3 DEF RowWritten, Overwrites
  <2>4. QED
    BY <2>2, <2>3
<1>7. QED
  BY <1>1, <1>2, <1>3, <1>4, <1>5, <1>6 DEF RowMove, RowChanged

\* A row nobody cancels changes state only along LegalTransition: what a worker
\* overwrites, it has checked.
LEMMA LegalStep ==
    ASSUME TypeOK, ClaimInv, Next, NEW j \in Job,
           rows'[j].state # rows[j].state, cancel[j] = "none"
    PROVE  LegalTransition(rows[j].state, rows'[j].state)
<1>1. ASSUME NEW w \in Worker, Overwrites(w, j), rows'[j].state = cur[w].state
      PROVE  LegalTransition(rows[j].state, rows'[j].state)
  <2>1. CanTransition(rows[j].state, cur[w].state)
    BY <1>1 DEF ClaimInv, CheckedWrite, Overwrites
  <2>2. QED
    BY <1>1, <2>1 DEF LegalTransition
<1>2. QED
  BY <1>1, StateChange

\* A row in COMPLETED or DEAD changes state only by a cancel or after one.
LEMMA FinalStep ==
    ASSUME TypeOK, ClaimInv, Next, NEW j \in Job,
           rows[j].state \in Terminal, rows'[j].state # rows[j].state
    PROVE  \/ cancel[j] = "checked" /\ cancel'[j] = "done"
           \/ /\ cancel[j] = "done"
              /\ \E w \in Worker : pc[w] = "put" /\ cur[w].id = j
                                 /\ cur[w].token = rows[j].token
<1>1. ~LegalTransition(rows[j].state, rows'[j].state)
  BY DEF LegalTransition, CanTransition, Terminal
<1>2. rows[j].token \in Token => cancel[j] = "done"
  BY JobStoreAssumption DEF ClaimInv, ClaimMatchesState, DeadIsUnowned, Terminal
<1>3. ASSUME NEW w \in Worker, Overwrites(w, j)
      PROVE  /\ cancel[j] = "done"
             /\ pc[w] = "put" /\ cur[w].id = j /\ cur[w].token = rows[j].token
  BY <1>2, <1>3 DEF Overwrites
<1>4. QED
  BY <1>1, <1>3, StateChange

\* A job nobody cancels moves only along CanTransition, or back to PENDING when
\* its claim is released or recovered: the check of UpdateJob and its write
\* are two statements, and the lease token makes them as good as one.
THEOREM TransitionsLegal == Spec => LegalTransitions
<1>1. TypeOK /\ ClaimInv /\ [Next]_vars =>
        [\A j \in Job : rows'[j].state # rows[j].state /\ cancel[j] = "none"
                        => LegalTransition(rows[j].state, rows'[j].state)]_vars
  BY LegalStep
<1>2. QED
  BY <1>1, TypeCorrect, ClaimsCorrect, PTL DEF Spec, LegalTransitions

\* COMPLETED and DEAD are left only in the race of CancelJob with the end of the
\* job, by the cancel or by the worker that holds the row's token.
THEOREM TerminalStays == Spec => TerminalIsFinal
<1>1. TypeOK /\ ClaimInv /\ [Next]_vars =>
        [\A j \in Job : rows[j].state \in Terminal /\ rows'[j].state # rows[j].state =>
           \/ cancel[j] = "checked" /\ cancel'[j] = "done"
           \/ /\ cancel[j] = "done"
              /\ \E w \in Worker : pc[w] = "put" /\ cur[w].id = j
                                 /\ cur[w].token = rows[j].token]_vars
  BY FinalStep
<1>2. QED
  BY <1>1, TypeCorrect, ClaimsCorrect, PTL DEF Spec, TerminalIsFinal

-----------------------------------------------------------------------------
(***************************************************************************)
(* What becomes of the claim of a row.                                     *)
(***************************************************************************)

\* The claim stays on the row, and the row with its claim.
RowKeeps(j) ==
    /\ rows'[j].token = rows[j].token
    /\ rows[j].state \in {"RUNNING", "DEAD"} => rows'[j].state \in {"RUNNING", "DEAD"}

\* Its holder writes the row or releases it, and is no longer on the way to a handler.
GivesBack(x, j) ==
    Uses(cur[x], rows[j].token) /\ pc[x] \in {"put", "release"} /\ pc'[x] \notin Active

Lapsed(row) == row.state = "RUNNING" /\ row.lease = "past"

\* What a step does to a claimed row.
RowFate(j) ==
    /\ rows[j].token \in Token =>
         RowKeeps(j) \/ Lapsed(rows[j]) \/ \E x \in Worker : GivesBack(x, j)
    /\ Lapsed(rows'[j]) =>
         \/ Lapsed(rows[j]) /\ rows'[j].token = rows[j].token
         \/ LeaseExpires(j)

\* A claim a worker is about to record has a lease.
LeaseInHand ==
    \A w \in Worker : pc[w] \in {"get", "put"} /\ cur[w].state = "RUNNING" => cur[w].lease = "future"

\* A row keeps its claim unless its lease has lapsed or its holder gives it
\* back, and only LeaseExpires makes a lease lapse.
LEMMA RowFates ==
    ASSUME TypeOK, ClaimInv, LeaseInHand, Next, NEW j \in Job
    PROVE  RowFate(j)
<1> WorkerType /\ NoToken \notin Token
  BY JobStoreAssumption DEF TypeOK
<1>1. RowMove(j)
  BY RowMoves
<1>2. rows[j].state \in {"ABSENT", "PENDING"} => rows[j].token \notin Token
  BY DEF ClaimInv, ClaimMatchesState
<1>3. CASE RowSame(j)
  BY <1>3 DEF RowSame, RowFate, RowKeeps, Lapsed
<1>4. CASE RowNew(j) \/ RowCancelled(j)
  BY <1>2, <1>4 DEF RowNew, RowCancelled, RowFate, RowKeeps, Lapsed
<1>5. CASE RowRecovered(j)
  BY <1>5 DEF RowRecovered, RowFate, Lapsed
<1>6. ASSUME NEW t \in Token, RowClaimed(j, t) PROVE RowFate(j)
  BY <1>2, <1>6 DEF RowClaimed, RowFate, Lapsed
<1>7. ASSUME NEW w \in Worker, RowReleased(j, w) PROVE RowFate(j)
  <2>1. GivesBack(w, j)
    BY <1>7 DEF RowReleased, OwnsClaim, GivesBack, Uses, Active, WorkerType
  <2>2. QED
    BY <1>7, <2>1 DEF RowReleased, RowFate, Lapsed
<1>8. ASSUME NEW w \in Worker, RowWritten(j, w) PROVE RowFate(j)
  <2>1. CASE cur[w].state = "RUNNING"
    <3>1. rows'[j].lease = "future" /\ rows[j].state = "PENDING"
      BY <1>8, <2>1 DEF RowWritten, LeaseInHand
    <3>2. QED
      BY <1>2, <3>1 DEF RowFate, Lapsed
  <2>2. CASE cur[w].state # "RUNNING"
    <3>1. GivesBack(w, j)
      BY <1>8, <2>2 DEF RowWritten, GivesBack, Uses, Active, WorkerType
    <3>2. QED
      BY <1>8, <2>2, <3>1 DEF RowWritten, RowFate, Lapsed
  <2>3. QED
    BY <2>1, <2>2
<1>9. QED
  BY <1>1, <1>3, <1>4, <1>5, <1>6, <1>7, <1>8 DEF RowMove, RowChanged

-----------------------------------------------------------------------------
(***************************************************************************)
(* Claims and leases.                                                      *)
(***************************************************************************)

\* A claim that is kept stays kept while somebody holds it on the way to a handler.
LEMMA StillKept ==
    ASSUME TypeOK, ClaimInv, LeaseKept, Next, "lapse" \notin faults.seen,
           NEW c \in Copy, c.token \in Token, Kept(c), Held(c.id),
           \A x \in Worker : ~GivesBack(x, c.id)
    PROVE  rows'[c.id].token = c.token /\ rows'[c.id].state \in {"RUNNING", "DEAD"}
<1>1. c.id \in Job /\ rows[c.id].token = c.token /\ rows[c.id].state \in {"RUNNING", "DEAD"}
  BY CopyIsJob DEF Kept
<1>2. RowFate(c.id)
  BY <1>1, RowFates DEF LeaseKept, LeaseInHand
<1>3. ~Lapsed(rows[c.id])
  BY <1>1 DEF LeaseKept, Lapsed
<1>4. QED
  BY <1>1, <1>2, <1>3 DEF RowFate, RowKeeps

\* The three places a claim can be in and stay kept.
LEMMA PlacesKeep ==
    ASSUME TypeOK, ClaimInv, LeaseKept, ClaimKept, Next, "lapse" \notin faults.seen
    PROVE  /\ \A w \in Worker : pc[w] \in Active /\ pc'[w] \in Active /\ cur[w].token \in Token =>
                rows'[cur[w].id].token = cur[w].token /\ rows'[cur[w].id].state \in {"RUNNING", "DEAD"}
           /\ \A i \in Instance : rcur[i] # NoJob =>
                rows'[rcur[i].id].token = rcur[i].token /\ rows'[rcur[i].id].state \in {"RUNNING", "DEAD"}
           /\ \A i \in Instance : \A n \in DOMAIN queue[i] : queue[i][n].token \in Token =>
                /\ rows'[queue[i][n].id].token = queue[i][n].token
                /\ rows'[queue[i][n].id].state \in {"RUNNING", "DEAD"}
<1> WorkerType /\ ReconcilerType /\ QueueType /\ OneHolder
  BY DEF TypeOK, ClaimInv
<1>1. ASSUME NEW w \in Worker, pc[w] \in Active, pc'[w] \in Active, cur[w].token \in Token
      PROVE  rows'[cur[w].id].token = cur[w].token /\ rows'[cur[w].id].state \in {"RUNNING", "DEAD"}
  <2>1. cur[w] \in Copy /\ cur[w] # NoJob /\ Kept(cur[w])
    BY <1>1 DEF WorkerType, ClaimKept, Active
  <2>2. Held(cur[w].id)
    BY <2>1 DEF Held, Kept
  <2>3. ASSUME NEW x \in Worker, GivesBack(x, cur[w].id) PROVE FALSE
    <3>1. Uses(cur[x], cur[w].token) /\ Uses(cur[w], cur[w].token)
      BY <2>1, <2>3 DEF GivesBack, Kept, Uses
    <3>2. x = w
      BY <1>1, <3>1 DEF OneHolder
    <3>3. QED
      BY <1>1, <2>3, <3>2 DEF GivesBack
  <2>4. QED
    BY <1>1, <2>1, <2>2, <2>3, StillKept
<1>2. ASSUME NEW i \in Instance, rcur[i] # NoJob
      PROVE  rows'[rcur[i].id].token = rcur[i].token /\ rows'[rcur[i].id].state \in {"RUNNING", "DEAD"}
  <2>1. rcur[i] \in Copy /\ Kept(rcur[i]) /\ rcur[i].token \in Token
    BY <1>2 DEF ReconcilerType, ClaimKept, ClaimInv, CopyShape, Claimed
  <2>2. Held(rcur[i].id)
    BY <1>2, <2>1 DEF Held, Kept
  <2>3. ASSUME NEW x \in Worker, GivesBack(x, rcur[i].id) PROVE FALSE
    <3>1. Uses(cur[x], rcur[i].token) /\ Uses(rcur[i], rcur[i].token)
      BY <1>2, <2>1, <2>3 DEF GivesBack, Kept, Uses
    <3>2. QED
      BY <2>1, <3>1 DEF OneHolder
  <2>4. QED
    BY <2>1, <2>2, <2>3, StillKept
<1>3. ASSUME NEW i \in Instance, NEW n \in DOMAIN queue[i], queue[i][n].token \in Token
      PROVE  /\ rows'[queue[i][n].id].token = queue[i][n].token
             /\ rows'[queue[i][n].id].state \in {"RUNNING", "DEAD"}
  <2>1. queue[i][n] \in Copy /\ Kept(queue[i][n])
    <3>1. \A q \in Seq(Copy) : \A m \in DOMAIN q : q[m] \in Copy
      OBVIOUS
    <3>2. QED
      BY <1>3, <3>1 DEF QueueType, ClaimKept
  <2>2. Held(queue[i][n].id)
    BY <2>1 DEF Held, Kept
  <2>3. ASSUME NEW x \in Worker, GivesBack(x, queue[i][n].id) PROVE FALSE
    <3>1. Uses(cur[x], queue[i][n].token)
      BY <2>1, <2>3 DEF GivesBack, Kept
    <3>2. QED
      BY <1>3, <3>1 DEF OneHolder
  <2>4. QED
    BY <1>3, <2>1, <2>2, <2>3, StillKept
<1>4. QED
  BY <1>1, <1>2, <1>3, Zenon

\* A step keeps ClaimKept.
LEMMA ClaimKeptStep == TypeOK /\ ClaimInv /\ LeaseKept /\ ClaimKept /\ Next => ClaimKept'
<1> SUFFICES ASSUME TypeOK, ClaimInv, LeaseKept, ClaimKept, Next, "lapse" \notin faults'.seen
             PROVE  /\ \A w \in Worker : pc'[w] \in Active /\ cur'[w].token \in Token => Kept(cur[w])'
                    /\ \A i \in Instance :
                         /\ rcur'[i] # NoJob => Kept(rcur[i])'
                         /\ \A n \in DOMAIN queue'[i] :
                              queue'[i][n].token \in Token => Kept(queue[i][n])'
  BY DEF ClaimKept, Active
<1> Origins /\ "lapse" \notin faults.seen
  BY OriginsStep, SeenGrows
<1> TypeOK'
  BY TypeStep
<1>1. ASSUME NEW w \in Worker, pc'[w] \in Active, cur'[w].token \in Token
      PROVE  Kept(cur[w])'
  <2>1. cur'[w] # NoJob /\ Home[w] \in Instance
    BY <1>1, ConduitAssumption DEF TypeOK, WorkerType, Active
  <2>2. CASE /\ cur[w] # NoJob /\ cur'[w].id = cur[w].id /\ cur'[w].token = cur[w].token
             /\ pc[w] \in Active
    BY <1>1, <2>2, PlacesKeep DEF Kept
  <2>3. CASE \E n \in DOMAIN queue[Home[w]] : queue[Home[w]][n] = cur'[w]
    <3>1. PICK n \in DOMAIN queue[Home[w]] : queue[Home[w]][n] = cur'[w]
      BY <2>3
    <3>2. /\ rows'[queue[Home[w]][n].id].token = queue[Home[w]][n].token
          /\ rows'[queue[Home[w]][n].id].state \in {"RUNNING", "DEAD"}
      BY <1>1, <2>1, <3>1, PlacesKeep
    <3>3. QED
      BY <3>1, <3>2 DEF Kept
  <2>4. pc'[w] # "get"
    BY <1>1 DEF Active
  <2>5. QED
    BY <1>1, <2>1, <2>2, <2>3, <2>4 DEF Origins, WorkerOrigin
<1>2. ASSUME NEW i \in Instance, rcur'[i] # NoJob PROVE Kept(rcur[i])'
  BY <1>2, PlacesKeep DEF Kept, Origins, ReconcilerOrigin
<1>3. ASSUME NEW i \in Instance, NEW n \in DOMAIN queue'[i], queue'[i][n].token \in Token
      PROVE  Kept(queue[i][n])'
  <2>1. CASE \E m \in DOMAIN queue[i] : queue[i][m] = queue'[i][n]
    <3>1. PICK m \in DOMAIN queue[i] : queue[i][m] = queue'[i][n]
      BY <2>1
    <3>2. /\ rows'[queue[i][m].id].token = queue[i][m].token
          /\ rows'[queue[i][m].id].state \in {"RUNNING", "DEAD"}
      BY <1>3, <3>1, PlacesKeep, Zenon
    <3>3. QED
      BY <3>1, <3>2 DEF Kept
  <2>2. CASE rcur[i] # NoJob /\ rcur[i] = queue'[i][n]
    <3>1. /\ rows'[rcur[i].id].token = rcur[i].token
          /\ rows'[rcur[i].id].state \in {"RUNNING", "DEAD"}
      BY <2>2, PlacesKeep, Zenon
    <3>2. QED
      BY <2>2, <3>1 DEF Kept
  <2>3. QED
    BY <1>3, <2>1, <2>2 DEF Origins, QueueOrigin
<1>4. QED
  BY <1>1, <1>2, <1>3

\* Nobody comes to hold a claim that is on a row already.
LEMMA HeldBefore ==
    ASSUME TypeOK, ClaimInv, Next, NEW j \in Job, rows[j].token \in Token,
           rows'[j].token = rows[j].token, Held(j)'
    PROVE  Held(j)
<1> DEFINE t == rows[j].token
<1> Origins /\ TypeOK'
  BY OriginsStep, TypeStep
<1>1. ~Fresh(t)
  BY DEF Fresh
<1>2. ASSUME NEW w \in Worker, cur'[w] # NoJob, cur'[w].token = t PROVE Held(j)
  <2>1. \/ cur[w] # NoJob /\ cur[w].token = t
        \/ \E n \in DOMAIN queue[Home[w]] : queue[Home[w]][n].token = t
    BY <1>1, <1>2, Zenon DEF Origins, WorkerOrigin
  <2>2. QED
    BY <2>1, ConduitAssumption, Zenon DEF Held
<1>3. ASSUME NEW i \in Instance, rcur'[i] # NoJob, rcur'[i].token = t PROVE Held(j)
  BY <1>1, <1>3 DEF Origins, ReconcilerOrigin, Held
<1>4. ASSUME NEW i \in Instance, NEW n \in DOMAIN queue'[i], queue'[i][n].token = t PROVE Held(j)
  BY <1>4 DEF Origins, QueueOrigin, Held
<1>5. QED
  BY <1>2, <1>3, <1>4 DEF Held

\* The leases of claims that are being recorded.
LEMMA LeaseInHandStep == ASSUME TypeOK, LeaseInHand, Next PROVE LeaseInHand'
<1> SUFFICES ASSUME NEW w \in Worker, pc'[w] \in {"get", "put"}, cur'[w].state = "RUNNING"
             PROVE  cur'[w].lease = "future"
  BY DEF LeaseInHand
<1>1. WorkerMove(w) /\ WorkerType
  BY WorkerMoves DEF TypeOK
<1>2. CASE RunChangesCopy(w)
  BY <1>1, <1>2, CopyChanges, Zenon DEF ChangedCopy
<1>3. CASE ~RunChangesCopy(w)
  BY <1>1, <1>3, Zenon DEF WorkerMove, RunGoesOn, LeaseInHand
<1>4. QED
  BY <1>2, <1>3

\* A step keeps LeaseKept.
LEMMA LeaseStep == TypeOK /\ ClaimInv /\ LeaseKept /\ Next => LeaseKept'
<1> SUFFICES ASSUME TypeOK, ClaimInv, LeaseKept, Next, "lapse" \notin faults'.seen
             PROVE  /\ \A j \in Job : Lapsed(rows'[j]) => ~Held(j)'
                    /\ LeaseInHand'
  BY DEF LeaseKept, Lapsed, LeaseInHand
<1>1. /\ "lapse" \notin faults.seen /\ LeaseInHand
      /\ \A j \in Job : Lapsed(rows[j]) => ~Held(j)
  BY SeenGrows DEF LeaseKept, LeaseInHand, Lapsed
<1>2. LeaseInHand'
  BY <1>1, LeaseInHandStep
<1>3. ASSUME NEW j \in Job, Lapsed(rows'[j]), Held(j)' PROVE FALSE
  <2>1. CASE Lapsed(rows[j]) /\ rows'[j].token = rows[j].token
    <3>1. rows[j].token \in Token
      BY <2>1 DEF Lapsed, ClaimInv, ClaimMatchesState, TypeOK, TableType, Row
    <3>2. QED
      BY <1>1, <1>3, <2>1, <3>1, HeldBefore
  <2>2. CASE LeaseExpires(j)
    <3>1. ~Held(j)
      <4>1. Fault("lapse") => "lapse" \in faults'.seen
        BY DEF Fault, Watched
      <4>2. QED
        BY <2>2, <4>1 DEF LeaseExpires
    <3>2. /\ UNCHANGED <<cur, queue, rcur>> /\ rows'[j].token = rows[j].token
      BY <2>2 DEF LeaseExpires, workerVars, recVars, TypeOK, TableType, Row
    <3>3. QED
      BY <1>3, <3>1, <3>2 DEF Held
  <2>3. QED
    BY <1>1, <1>3, <2>1, <2>2, RowFates DEF RowFate
<1>4. QED
  BY <1>2, <1>3

-----------------------------------------------------------------------------
(***************************************************************************)
(* The execution lock.                                                     *)
(***************************************************************************)

Inside == {"get", "put", "exec", "unlock"}

\* A worker comes inside with Acquire, which finds the lock free, and the lock
\* leaves it only by release, expiry or crash.
LEMMA LockStep == ASSUME TypeOK, LockKept, Next PROVE LockKept'
<1> SUFFICES ASSUME "ttl" \notin faults'.seen, NEW w \in Worker, pc'[w] \in Inside
             PROVE  lock'[cur'[w].id] = w
  BY DEF LockKept, Inside
<1> WorkerType /\ lock \in [Job -> Worker \cup {NoWorker, Orphan}] /\ "ttl" \notin faults.seen
  BY SeenGrows DEF TypeOK, EnvType
<1>1. WorkerMove(w)
  BY WorkerMoves
<1>2. ASSUME pc[w] \in Inside, cur'[w].id = cur[w].id PROVE lock'[cur'[w].id] = w
  <2>1. lock[cur[w].id] = w /\ cur[w].id \in Job
    BY <1>2, CopyIsJob DEF LockKept, Inside, WorkerType
  <2>2. LockMove(cur[w].id)
    BY <2>1, LockMoves
  <2>3. QED
    BY <1>2, <2>1, <2>2 DEF LockMove, Inside
<1>3. ASSUME Acquire(w), cur'[w].id = cur[w].id PROVE lock'[cur'[w].id] = w
  <2>1. cur[w].id \in Job
    BY <1>3, CopyIsJob DEF Acquire, WorkerType
  <2>2. QED
    BY <1>3, <2>1 DEF Acquire
<1>4. CASE RunChangesCopy(w)
  <2>1. cur'[w].id = cur[w].id
    BY <1>4, CopyChanges
  <2>2. pc[w] \in Inside \/ Acquire(w)
    BY <1>4, Zenon DEF RunChangesCopy, Inside
  <2>3. QED
    BY <1>2, <1>3, <2>1, <2>2
<1>5. CASE ~RunChangesCopy(w)
  <2>1. cur'[w] = cur[w] /\ (pc[w] \in Inside \/ Acquire(w))
    BY <1>1, <1>5 DEF WorkerMove, RunGoesOn, Inside
  <2>2. QED
    BY <1>2, <1>3, <2>1
<1>6. QED
  BY <1>4, <1>5

-----------------------------------------------------------------------------
(***************************************************************************)
(* No two handlers for one job.                                            *)
(***************************************************************************)

\* The invariant holds before the first job.
LEMMA ExclusionInit == Init => ExclusionInv
<1> SUFFICES ASSUME Init PROVE ExclusionInv
  OBVIOUS
<1>1. /\ \A w \in Worker : pc[w] = "idle"
      /\ \A i \in Instance : rcur[i] = NoJob /\ DOMAIN queue[i] = {}
      /\ \A j \in Job : rows[j].state = "ABSENT"
  BY EmptyFacts DEF Init, AbsentRow
<1>2. QED
  BY <1>1 DEF ExclusionInv, ClaimKept, LeaseKept, LockKept

\* The invariant is inductive, next to TypeOK and ClaimInv.
LEMMA ExclusionStep == TypeOK /\ ClaimInv /\ ExclusionInv /\ [Next]_vars => ExclusionInv'
<1> SUFFICES ASSUME TypeOK, ClaimInv, ExclusionInv, [Next]_vars PROVE ExclusionInv'
  OBVIOUS
<1>1. CASE Next
  BY <1>1, ClaimKeptStep, LeaseStep, LockStep DEF ExclusionInv
<1>2. CASE UNCHANGED vars
  <2>1. UNCHANGED <<rows, pc, cur, rcur, queue, lock, faults>>
    BY <1>2 DEF vars, workerVars, recVars
  <2>2. ClaimKept'
    BY <2>1, Zenon DEF ExclusionInv, ClaimKept, Kept
  <2>3. LeaseKept'
    BY <2>1, Zenon DEF ExclusionInv, LeaseKept, Held
  <2>4. LockKept'
    BY <2>1, Zenon DEF ExclusionInv, LockKept
  <2>5. QED
    BY <2>2, <2>3, <2>4 DEF ExclusionInv
<1>3. QED
  BY <1>1, <1>2

\* Until a lease lapses under a live holder no claim is taken from anybody who
\* has it, and until a lock runs out under its owner no lock is.
THEOREM ClaimsAndLocksKept == Spec => []ExclusionInv
  BY ExclusionInit, ExclusionStep, TypeCorrect, ClaimsCorrect, PTL DEF Spec

\* A handler runs only for the claim its row is under, until a lease lapses.
THEOREM HandlersRunTheirClaim == Spec => []ExecutesItsClaim
<1>1. TypeOK /\ ClaimInv /\ ExclusionInv => ExecutesItsClaim
  BY Zenon DEF ExclusionInv, ClaimKept, Kept, ExecutesItsClaim, ClaimInv, CopyShape, Claimed
<1>2. QED
  BY <1>1, TypeCorrect, ClaimsCorrect, ClaimsAndLocksKept, PTL

\* No two handlers run for one job at once unless a lease has lapsed under its
\* holder and a lock has run out under its owner: without the first, both would
\* have the token of the row, which has one holder; without the second, both
\* would be the owner of the job's lock.
THEOREM HandlersExclude == Spec => []ExclusiveExecution
<1>1. TypeOK /\ ClaimInv /\ ExclusionInv => ExclusiveExecution
  <2> SUFFICES ASSUME TypeOK, ClaimInv, ExclusionInv,
                      "lapse" \notin faults.seen \/ "ttl" \notin faults.seen,
                      NEW w \in Worker, NEW v \in Worker,
                      pc[w] = "exec", pc[v] = "exec", cur[w].id = cur[v].id
               PROVE  w = v
    BY DEF ExclusiveExecution
  <2>1. CASE "ttl" \notin faults.seen
    BY <2>1 DEF ExclusionInv, LockKept
  <2>2. CASE "lapse" \notin faults.seen
    <3>1. cur[w].token \in Token /\ cur[v].token \in Token
      BY DEF ClaimInv, CopyShape, Claimed
    <3>2. cur[w].token = cur[v].token
      <4>1. Kept(cur[w]) /\ Kept(cur[v])
        BY <2>2, <3>1 DEF ExclusionInv, ClaimKept
      <4>2. QED
        BY <4>1 DEF Kept
    <3>3. cur[w] # NoJob /\ cur[v] # NoJob
      BY DEF TypeOK, WorkerType
    <3>4. QED
      BY <3>1, <3>2, <3>3 DEF ClaimInv, OneHolder, Uses
  <2>3. QED
    BY <2>1, <2>2
<1>2. QED
  BY <1>1, TypeCorrect, ClaimsCorrect, ClaimsAndLocksKept, PTL

-----------------------------------------------------------------------------
(***************************************************************************)
(* The job board.  A run that was recorded as FAILED is not recorded as    *)
(* anything else but PENDING: nobody but its writer has the token, and the *)
(* writer goes on to PENDING or is done.                                   *)
(***************************************************************************)

FailedHeld ==
    \A j \in Job : rows[j].state = "FAILED" =>
      /\ \A w \in Worker : Uses(cur[w], rows[j].token) =>
           pc[w] = "unlock" \/ (pc[w] \in {"get", "put"} /\ cur[w].state = "PENDING")
      /\ \A i \in Instance :
           /\ ~Uses(rcur[i], rows[j].token)
           /\ \A n \in DOMAIN queue[i] : queue[i][n].token # rows[j].token

Uncancelled == \A j \in Job : cancel[j] # "done"

BoardInv == Uncancelled => FailedHeld

\* A worker that is writing PENDING, or is done, does nothing else with its copy.
LEMMA RetryGoesOn ==
    ASSUME TypeOK, Next, NEW w \in Worker, cur'[w] # NoJob,
           pc[w] = "unlock" \/ (pc[w] \in {"get", "put"} /\ cur[w].state = "PENDING")
    PROVE  pc'[w] = "unlock" \/ (pc'[w] \in {"get", "put"} /\ cur'[w].state = "PENDING")
<1>1. WorkerMove(w)
  BY WorkerMoves, Zenon
<1>2. QED
  BY <1>1, Zenon DEF WorkerMove, RunGoesOn, RunChangesCopy

\* A FAILED row that stays as it is has no new holder.
LEMMA FailedStays ==
    ASSUME TypeOK, ClaimInv, FailedHeld, Next, NEW j \in Job,
           rows[j].state = "FAILED", rows'[j].token = rows[j].token
    PROVE  /\ \A w \in Worker : Uses(cur[w], rows[j].token)' =>
                pc'[w] = "unlock" \/ (pc'[w] \in {"get", "put"} /\ cur'[w].state = "PENDING")
           /\ \A i \in Instance :
                /\ ~Uses(rcur[i], rows[j].token)'
                /\ \A n \in DOMAIN queue'[i] : queue'[i][n].token # rows'[j].token
<1> DEFINE t == rows[j].token
<1>1. t \in Token
  BY DEF ClaimInv, ClaimMatchesState, TypeOK, TableType, Row
<1>2. Origins /\ ~Fresh(t) /\ ConduitAssumption
  BY OriginsStep, ConduitAssumption DEF Fresh
<1>3. /\ \A w \in Worker : Uses(cur[w], t) =>
           pc[w] = "unlock" \/ (pc[w] \in {"get", "put"} /\ cur[w].state = "PENDING")
      /\ \A i \in Instance : ~Uses(rcur[i], t) /\ \A n \in DOMAIN queue[i] : queue[i][n].token # t
  BY DEF FailedHeld
<1> HIDE DEF t
<1>4. \A i \in Instance : \A n \in DOMAIN queue'[i] : queue'[i][n].token # t
  <2>1. SUFFICES ASSUME NEW i \in Instance, NEW n \in DOMAIN queue'[i], queue'[i][n].token = t
                 PROVE  FALSE
    OBVIOUS
  <2>2. \/ \E m \in DOMAIN queue[i] : queue[i][m] = queue'[i][n]
        \/ rcur[i] # NoJob /\ rcur[i] = queue'[i][n]
    BY <1>1, <1>2, <2>1 DEF Origins, QueueOrigin
  <2>3. QED
    BY <1>3, <2>1, <2>2 DEF Uses
<1>5. \A i \in Instance : rcur'[i] # NoJob => rcur'[i].token # t
  BY <1>2, <1>3, Zenon DEF Origins, ReconcilerOrigin, Uses
<1>6. ASSUME NEW w \in Worker, cur'[w] # NoJob, cur'[w].token = t
      PROVE  pc'[w] = "unlock" \/ (pc'[w] \in {"get", "put"} /\ cur'[w].state = "PENDING")
  <2>1. Home[w] \in Instance
    BY <1>2, Zenon DEF ConduitAssumption
  <2>2. cur[w] # NoJob /\ cur[w].token = t
    BY <1>2, <1>3, <1>6, <2>1, Zenon DEF Origins, WorkerOrigin
  <2>3. QED
    BY <1>3, <1>6, <2>2, RetryGoesOn, Zenon DEF Uses
<1>7. rows'[j].token = t
  BY DEF t
<1>8. QED
  BY <1>4, <1>5, <1>6, <1>7 DEF Uses

\* A row becomes FAILED by the write of the worker that holds its token.
LEMMA NewFailed ==
    ASSUME TypeOK, ClaimInv, Next, NEW j \in Job, NEW x \in Worker, RowWritten(j, x),
           rows'[j].state = "FAILED"
    PROVE  /\ \A w \in Worker : Uses(cur[w], rows[j].token)' =>
                pc'[w] = "unlock" \/ (pc'[w] \in {"get", "put"} /\ cur'[w].state = "PENDING")
           /\ \A i \in Instance :
                /\ ~Uses(rcur[i], rows[j].token)'
                /\ \A n \in DOMAIN queue'[i] : queue'[i][n].token # rows'[j].token
<1> DEFINE t == rows'[j].token
<1> WorkerType /\ Origins /\ ConduitAssumption
  BY OriginsStep, ConduitAssumption DEF TypeOK
<1>1. t = cur[x].token /\ t = rows[j].token /\ pc[x] = "put" /\ pc'[x] \in {"get", "unlock"}
  BY DEF RowWritten
<1>2. t \in Token /\ ~Fresh(t) /\ Uses(cur[x], t)
  BY <1>1, Zenon DEF ClaimInv, CopyShape, Fresh, Uses, WorkerType
<1> HIDE DEF t
<1>3. /\ \A v \in Worker : Uses(cur[v], t) => v = x
      /\ \A i \in Instance : ~Uses(rcur[i], t) /\ \A n \in DOMAIN queue[i] : queue[i][n].token # t
  BY <1>2, Zenon DEF ClaimInv, OneHolder
<1>4. \A i \in Instance : ~Uses(rcur'[i], t)
  BY <1>2, <1>3, Zenon DEF Origins, ReconcilerOrigin, Uses
<1>5. ASSUME NEW i \in Instance, NEW n \in DOMAIN queue'[i], queue'[i][n].token = t PROVE FALSE
  <2>1. \/ \E m \in DOMAIN queue[i] : queue[i][m] = queue'[i][n]
        \/ rcur[i] # NoJob /\ rcur[i] = queue'[i][n]
    BY <1>2, <1>5, Zenon DEF Origins, QueueOrigin
  <2>2. QED
    BY <1>3, <1>5, <2>1, Zenon DEF Uses
<1>6. ASSUME NEW w \in Worker, Uses(cur'[w], t) PROVE w = x
  <2>1. Home[w] \in Instance
    BY Zenon DEF ConduitAssumption
  <2>2. QED
    BY <1>2, <1>3, <1>6, <2>1, Zenon DEF Origins, WorkerOrigin, Uses
<1>7. pc'[x] = "get" => cur'[x].state = "PENDING"
  <2>1. pc'[x] = "get" => RunChangesCopy(x)
    BY <1>1, WorkerMoves, Zenon DEF WorkerMove, RunGoesOn
  <2>2. QED
    BY <1>1, <2>1, CopyChanges, Zenon DEF ChangedCopy
<1>8. QED
  BY <1>1, <1>4, <1>5, <1>6, <1>7 DEF Uses, t

\* Every step that is not a cancel keeps FAILED rows with their writers.
LEMMA FailedHeldStep ==
    ASSUME TypeOK, ClaimInv, FailedHeld, Next
    PROVE  FailedHeld'
<1>1. ASSUME NEW j \in Job, rows'[j].state = "FAILED"
      PROVE  \/ rows[j].state = "FAILED" /\ rows'[j].token = rows[j].token
             \/ \E x \in Worker : RowWritten(j, x)
  <2>1. RowMove(j)
    BY RowMoves
  <2>2. QED
    BY <1>1, <2>1, Zenon DEF RowMove, RowChanged, RowSame, RowRecovered, RowNew, RowCancelled,
         RowClaimed, RowReleased
<1>2. QED
  BY <1>1, FailedStays, NewFailed, Zenon DEF FailedHeld

\* A statement that writes one row changes one square of the board.
LEMMA BoardRow ==
    ASSUME NEW k \in Job, \A j \in Job : j # k => rows'[j] = rows[j]
    PROVE  /\ [j \in Job |-> rows'[j].state] =
                [[j \in Job |-> rows[j].state] EXCEPT ![k] = rows'[k].state]
           /\ [j \in Job |-> rows'[j].token] =
                [[j \in Job |-> rows[j].token] EXCEPT ![k] = rows'[k].token]
  BY Zenon

\* A claim, by the reconciler or by a worker, is a Claim of the board.
LEMMA BoardClaim ==
    ASSUME NEW k \in Job, \A j \in Job : j # k => rows'[j] = rows[j],
           NEW t \in Token, \A j \in Job : rows[j].token # t,
           rows[k].state = "PENDING", rows'[k].state = "RUNNING", rows'[k].token = t
    PROVE  Board!Next
<1>1. Board!Claim(k, t)
  BY BoardRow, Zenon DEF Board!Claim
<1>2. QED
  BY <1>1 DEF Board!Next

\* Rows whose claim is released or recovered are a Lose of the board.
LEMMA BoardLose ==
    ASSUME NEW S \in SUBSET Job, \A j \in Job : j \notin S => rows'[j] = rows[j],
           \A j \in S : /\ rows[j].state = "RUNNING"
                        /\ rows'[j].state \in {"PENDING", "DEAD"} /\ rows'[j].token = NoToken
    PROVE  Board!Next
<1>1. PICK D \in SUBSET S : \A j \in S : j \in D <=> rows'[j].state = "DEAD"
  <2>1. {j \in S : rows'[j].state = "DEAD"} \in SUBSET S
    OBVIOUS
  <2>2. QED
    BY <2>1, Zenon
<1>2. [j \in Job |-> rows'[j].state] =
        [j \in Job |-> IF j \notin S THEN [k \in Job |-> rows[k].state][j]
                       ELSE IF j \in D THEN "DEAD" ELSE "PENDING"]
  BY <1>1
<1>3. [j \in Job |-> rows'[j].token] =
        [j \in Job |-> IF j \in S THEN NoToken ELSE [k \in Job |-> rows[k].token][j]]
  OBVIOUS
<1>4. Board!Lose(S, D)
  BY <1>2, <1>3 DEF Board!Lose
<1>5. \E T \in SUBSET Job : \E E \in SUBSET T : Board!Lose(T, E)
  BY <1>4, Zenon
<1>6. QED
  BY <1>5 DEF Board!Next

\* What a worker writes over its own claim is a step of the board.
LEMMA BoardWrite ==
    ASSUME TypeOK, ClaimInv, FailedHeld, Uncancelled, NEW k \in Job, NEW w \in Worker,
           RowWritten(k, w), cur[w].state # "RUNNING", \A j \in Job : j # k => rows'[j] = rows[j]
    PROVE  Board!Next
<1> WorkerType
  BY DEF TypeOK
<1>0. PICK s \in JobState : s = cur[w].state
  BY DEF RowWritten, WorkerType, Copy
<1>1. /\ pc[w] = "put" /\ cur[w].id = k /\ cur[w] # NoJob
      /\ rows'[k].state = s /\ rows[k].token = cur[w].token /\ s # "RUNNING"
      /\ rows'[k].token = IF s \in {"COMPLETED", "DEAD", "PENDING"} THEN NoToken ELSE rows[k].token
  BY <1>0 DEF RowWritten, WorkerType
<1>2. CanTransition(rows[k].state, s)
  BY <1>0, <1>1, Zenon DEF ClaimInv, CheckedWrite, Uncancelled
<1>3. rows[k].state # "PENDING"
  BY <1>1, JobStoreAssumption DEF ClaimInv, ClaimMatchesState, CopyShape
<1>4. rows[k].state = "FAILED" => s = "PENDING"
  BY <1>0, <1>1, Zenon DEF FailedHeld, Uses
<1>5. /\ [j \in Job |-> rows'[j].state] = [[j \in Job |-> rows[j].state] EXCEPT ![k] = s]
      /\ [j \in Job |-> rows'[j].token] =
           [[j \in Job |-> rows[j].token] EXCEPT ![k] = rows'[k].token]
  BY <1>1, BoardRow, Zenon
<1>6. CASE rows[k].state = "RUNNING" /\ s \in {"COMPLETED", "DEAD"}
  <2>1. Board!Finish(k, s)
    BY <1>1, <1>5, <1>6, Zenon DEF Board!Finish
  <2>2. QED
    BY <1>6, <2>1 DEF Board!Next
<1>7. CASE rows[k].state = "RUNNING" /\ s = "FAILED"
  <2>1. [j \in Job |-> rows'[j].token] = [j \in Job |-> rows[j].token]
    BY <1>1, <1>7
  <2>2. Board!Fail(k)
    BY <1>1, <1>5, <1>7, <2>1, Zenon DEF Board!Fail
  <2>3. QED
    BY <2>2 DEF Board!Next
<1>8. CASE rows[k].state = "FAILED" /\ s = "PENDING"
  <2>1. Board!Retry(k)
    BY <1>1, <1>5, <1>8 DEF Board!Retry
  <2>2. QED
    BY <2>1 DEF Board!Next
<1>9. QED
  BY <1>2, <1>3, <1>4, <1>6, <1>7, <1>8 DEF CanTransition

\* A statement that changes one row is a step of the board, until a cancel.
LEMMA BoardChange ==
    ASSUME TypeOK, ClaimInv, FailedHeld, Uncancelled, Uncancelled', NEW k \in Job,
           RowChanged(k), \A j \in Job : j # k => rows'[j] = rows[j]
    PROVE  Board!Next
<1> WorkerType
  BY DEF TypeOK
<1>1. CASE RowNew(k)
  <2>1. /\ rows[k].state = "ABSENT" /\ rows'[k].state = "PENDING"
        /\ rows'[k].token = rows[k].token
    BY <1>1 DEF RowNew, ClaimInv, ClaimMatchesState
  <2>2. [j \in Job |-> rows'[j].token] = [j \in Job |-> rows[j].token]
    BY <2>1
  <2>3. [j \in Job |-> rows'[j].state] = [[j \in Job |-> rows[j].state] EXCEPT ![k] = "PENDING"]
    BY <2>1, BoardRow, Zenon
  <2>4. Board!Create(k)
    BY <2>1, <2>2, <2>3 DEF Board!Create
  <2>5. QED
    BY <2>4 DEF Board!Next
<1>2. ~RowCancelled(k)
  BY DEF RowCancelled, Uncancelled
<1>3. ASSUME NEW t \in Token, RowClaimed(k, t) PROVE Board!Next
  BY <1>3, BoardClaim DEF RowClaimed, Fresh
<1>4. ASSUME NEW w \in Worker, RowReleased(k, w) PROVE Board!Next
  <2>1. {k} \in SUBSET Job /\ \A j \in Job : j \notin {k} => rows'[j] = rows[j]
    BY Zenon
  <2>2. \A j \in {k} : /\ rows[j].state = "RUNNING"
                       /\ rows'[j].state \in {"PENDING", "DEAD"} /\ rows'[j].token = NoToken
    BY <1>4, Zenon DEF RowReleased, OwnsClaim
  <2>3. QED
    BY <2>1, <2>2, BoardLose, Zenon
<1>5. ASSUME NEW w \in Worker, RowWritten(k, w) PROVE Board!Next
  <2>1. CASE cur[w].state = "RUNNING"
    <3>1. cur[w].token \in Token
      BY <1>5, Zenon DEF RowWritten, ClaimInv, CopyShape
    <3>2. /\ rows[k].state = "PENDING" /\ rows'[k].state = "RUNNING"
          /\ rows'[k].token = cur[w].token /\ \A j \in Job : rows[j].token # cur[w].token
      BY <1>5, <2>1, Zenon DEF RowWritten
    <3>3. PICK t \in Token : t = cur[w].token
      BY <3>1
    <3>4. QED
      BY <3>2, <3>3, BoardClaim, Zenon
  <2>2. CASE cur[w].state # "RUNNING"
    BY <1>5, <2>2, BoardWrite
  <2>3. QED
    BY <2>1, <2>2, Zenon
<1>6. QED
  BY <1>1, <1>2, <1>3, <1>4, <1>5 DEF RowChanged

\* Every step is a step of the board, or leaves it alone, until a cancel.
LEMMA BoardStep ==
    ASSUME TypeOK, ClaimInv, BoardInv, [Next]_vars
    PROVE  [(\A j \in Job : cancel'[j] # "done") => Board!Next]_(Board!vars)
<1>1. CASE UNCHANGED vars
  BY <1>1, Zenon DEF vars, Board!vars
<1>2. CASE Next
  <2> SUFFICES ASSUME \A j \in Job : cancel'[j] # "done"
               PROVE  Board!Next \/ UNCHANGED Board!vars
    OBVIOUS
  <2>1. Uncancelled /\ Uncancelled' /\ FailedHeld
    BY <1>2, CancelStays DEF Uncancelled, BoardInv
  <2>2. TableMove
    BY <1>2, TableMoves
  <2>3. CASE \A j \in Job : RowSame(j)
    BY <2>3 DEF RowSame, Board!vars
  <2>4. CASE \A j \in Job : rows'[j] = rows[j] \/ RowRecovered(j)
    <3>1. PICK S \in SUBSET Job : \A j \in Job : j \in S <=> rows'[j] # rows[j]
      <4>1. {j \in Job : rows'[j] # rows[j]} \in SUBSET Job
        OBVIOUS
      <4>2. QED
        BY <4>1, Zenon
    <3>2. \A j \in S : /\ rows[j].state = "RUNNING"
                       /\ rows'[j].state \in {"PENDING", "DEAD"} /\ rows'[j].token = NoToken
      BY <2>4, <3>1 DEF RowRecovered
    <3>3. QED
      BY <3>1, <3>2, BoardLose
  <2>5. ASSUME NEW k \in Job, RowChanged(k), \A j \in Job \ {k} : rows'[j] = rows[j]
        PROVE  Board!Next
    BY <2>1, <2>5, BoardChange
  <2>6. QED
    BY <2>2, <2>3, <2>4, <2>5 DEF TableMove
<1>3. QED
  BY <1>1, <1>2

\* Until a cancel takes effect, the service, the consumers, the reconcilers and
\* the workers of all instances together implement the job board: each claim has
\* one owner, and ends once, from the state it is in.
THEOREM BoardIsImplemented == Spec => ImplementsBoard
<1>1. Init => Board!Init /\ BoardInv
  BY DEF Init, Board!Init, AbsentRow, BoardInv, FailedHeld
<1>2. TypeOK /\ ClaimInv /\ BoardInv /\ [Next]_vars => BoardInv'
  <2> SUFFICES ASSUME TypeOK, ClaimInv, BoardInv, [Next]_vars PROVE BoardInv'
    OBVIOUS
  <2>1. CASE Next
    BY <2>1, FailedHeldStep, CancelStays DEF BoardInv, Uncancelled
  <2>2. CASE UNCHANGED vars
    BY <2>2, Zenon DEF vars, workerVars, recVars, BoardInv, FailedHeld, Uncancelled, Uses
  <2>3. QED
    BY <2>1, <2>2
<1>3. TypeOK /\ ClaimInv /\ BoardInv /\ [Next]_vars =>
        [(\A j \in Job : cancel'[j] # "done") => Board!Next]_(Board!vars)
  BY BoardStep
<1>4. QED
  BY <1>1, <1>2, <1>3, TypeCorrect, ClaimsCorrect, PTL DEF Spec, ImplementsBoard

=============================================================================
