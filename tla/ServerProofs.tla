---------------------------- MODULE ServerProofs ----------------------------
(***************************************************************************)
(* What goes on inside the server: the worker pool, for every set of jobs  *)
(* and consumers, of any size, every concurrency and every queue size;     *)
(* JobService, for every set of requests and keys and every number of      *)
(* faults; and the walk over the jobs, for every page size.                *)
(***************************************************************************)
EXTENDS WorkerPool, JobApi, FiniteSetTheorems, TLAPS

(***************************************************************************)
(* The worker pool.                                                        *)
(***************************************************************************)

Elements(q) == {q[n] : n \in 1..Len(q)}

Distinct(q) == \A m, n \in 1..Len(q) : q[m] = q[n] => m = n

InHand(j) == \E s \in Submitter : hand[s] = j

\* A job is in one place at a time, and one submitter or position has it.
Apart ==
    /\ \A j \in offered : ~InHand(j) /\ j \notin Elements(queue) /\ dispJob # j /\ run[j] = "none"
    /\ \A j \in Job : InHand(j) => j \notin Elements(queue) /\ dispJob # j /\ run[j] = "none"
    /\ \A j \in Elements(queue) : dispJob # j /\ run[j] = "none"
    /\ dispJob # NoJob => run[dispJob] = "none"
    /\ \A s, t \in Submitter : hand[s] # NoJob /\ hand[s] = hand[t] => s = t
    /\ Distinct(queue)

\* And it is never in none.
Somewhere ==
    \A j \in Job : \/ j \in offered \/ InHand(j) \/ j \in Elements(queue)
                   \/ dispJob = j \/ run[j] # "none"

\* The dispatcher has a job between Receive and SpawnRun.
DispHolds == disp \in {"acquire", "spawn"} <=> dispJob # NoJob

\* The counters; the sets they count are finite although Job need not be.
Counts ==
    /\ IsFiniteSet(Slotted) /\ IsFiniteSet(Live)
    /\ slots = Cardinality(Slotted) + IF disp = "spawn" THEN 1 ELSE 0
    /\ poolWg = Cardinality(Live) + IF disp = "done" THEN 0 ELSE 1

\* main goes on only after the signal and when the reconciler has no job, and
\* nobody passes the check of ctx.Err() then.
Shutdown ==
    /\ main # "serve" => ctxDone /\ hand[Reconciler] = NoJob
    /\ closed => main # "serve"
    /\ main = "drained" => poolWg = 0

PoolInv == TypeOK /\ Apart /\ Somewhere /\ DispHolds /\ Counts /\ Shutdown

-----------------------------------------------------------------------------
(***************************************************************************)
(* The queue.                                                              *)
(***************************************************************************)

\* What a send on Pool.jobs does.
LEMMA AppendFacts ==
    ASSUME NEW q \in Seq(Job), NEW j \in Job
    PROVE  /\ Append(q, j) \in Seq(Job) /\ Len(Append(q, j)) = Len(q) + 1
           /\ Elements(Append(q, j)) = Elements(q) \cup {j}
           /\ Distinct(q) /\ j \notin Elements(q) => Distinct(Append(q, j))
<1>1. /\ Append(q, j) \in Seq(Job) /\ Len(Append(q, j)) = Len(q) + 1
      /\ \A n \in 1..Len(q) : Append(q, j)[n] = q[n]
      /\ Append(q, j)[Len(q) + 1] = j
      /\ Len(q) \in Nat
  OBVIOUS
<1>2. Elements(Append(q, j)) = Elements(q) \cup {j}
  <2>1. \A x : x \in Elements(Append(q, j)) => x \in Elements(q) \cup {j}
    BY <1>1 DEF Elements
  <2>2. \A x : x \in Elements(q) => x \in Elements(Append(q, j))
    BY <1>1 DEF Elements
  <2>3. j \in Elements(Append(q, j))
    <3>1. Len(q) + 1 \in 1..Len(Append(q, j))
      BY <1>1
    <3>2. QED
      BY <1>1, <3>1 DEF Elements
  <2>4. QED
    BY <2>1, <2>2, <2>3
<1>3. ASSUME Distinct(q), j \notin Elements(q) PROVE Distinct(Append(q, j))
  BY <1>1, <1>3 DEF Distinct, Elements
<1>4. QED
  BY <1>1, <1>2, <1>3

\* What a receive from it does.
LEMMA TailFacts ==
    ASSUME NEW q \in Seq(Job), q # << >>, Distinct(q)
    PROVE  /\ Head(q) \in Job /\ Tail(q) \in Seq(Job) /\ Len(Tail(q)) < Len(q)
           /\ Elements(q) = Elements(Tail(q)) \cup {Head(q)}
           /\ Head(q) \notin Elements(Tail(q)) /\ Distinct(Tail(q))
<1>1. /\ Head(q) = q[1] /\ Head(q) \in Job /\ Tail(q) \in Seq(Job)
      /\ Len(q) \in Nat \ {0} /\ Len(Tail(q)) = Len(q) - 1
      /\ \A n \in 1..(Len(q) - 1) : Tail(q)[n] = q[n + 1]
  OBVIOUS
<1>2. Elements(q) = Elements(Tail(q)) \cup {Head(q)}
  <2>1. ASSUME NEW n \in 1..Len(q) PROVE q[n] \in Elements(Tail(q)) \cup {Head(q)}
    <3>1. CASE n = 1
      BY <1>1, <3>1
    <3>2. CASE n # 1
      <4>1. n - 1 \in 1..Len(Tail(q)) /\ Tail(q)[n - 1] = q[n]
        BY <1>1, <3>2
      <4>2. QED
        BY <4>1 DEF Elements
    <3>3. QED
      BY <3>1, <3>2
  <2>2. \A x : x \in Elements(Tail(q)) => x \in Elements(q)
    BY <1>1 DEF Elements
  <2>3. Head(q) \in Elements(q)
    BY <1>1 DEF Elements
  <2>4. QED
    BY <2>1, <2>2, <2>3 DEF Elements
<1>3. Head(q) \notin Elements(Tail(q))
  BY <1>1 DEF Elements, Distinct
<1>4. Distinct(Tail(q))
  BY <1>1 DEF Distinct
<1>5. QED
  BY <1>1, <1>2, <1>3, <1>4

-----------------------------------------------------------------------------
(***************************************************************************)
(* What the steps that leave a part of the state alone keep.               *)
(***************************************************************************)

\* A step that moves no job keeps the part about places.
LEMMA PlacesStay ==
    ASSUME Apart, Somewhere, UNCHANGED <<offered, hand, queue, dispJob>>,
           \A j \in Job : run'[j] = "none" <=> run[j] = "none", TypeOK
    PROVE  Apart' /\ Somewhere'
<1>1. \A j : InHand(j)' <=> InHand(j)
  BY DEF InHand
<1>2. Elements(queue)' = Elements(queue) /\ (Distinct(queue)' <=> Distinct(queue))
  BY DEF Elements, Distinct
<1>3. \A j \in Elements(queue) : j \in Job
  BY DEF Elements, TypeOK
<1>4. Apart'
  BY <1>1, <1>2, <1>3 DEF Apart, TypeOK
<1>5. Somewhere'
  BY <1>1, <1>2 DEF Somewhere
<1>6. QED
  BY <1>4, <1>5

\* A step that starts and ends no goroutine keeps the counts.
LEMMA CountsStay ==
    ASSUME Counts, UNCHANGED <<run, slots, poolWg>>,
           disp' = "spawn" <=> disp = "spawn", disp' = "done" <=> disp = "done"
    PROVE  Counts'
<1>1. Slotted' = Slotted /\ Live' = Live
  BY DEF Slotted, Live
<1>2. QED
  BY <1>1 DEF Counts

-----------------------------------------------------------------------------
(***************************************************************************)
(* Submitters.                                                             *)
(***************************************************************************)

\* A submitter's check of the context keeps the invariant.
LEMMA CheckKeeps ==
    ASSUME PoolInv, NEW s \in Submitter, NEW j \in Job, Check(s, j)
    PROVE  PoolInv'
<1> USE PoolAssumption DEF PoolInv
<1>1. TypeOK'
  BY DEF Check, TypeOK
<1>2. /\ hand[s] = NoJob /\ hand'[s] = j /\ offered' = offered \ {j} /\ j \in offered
      /\ \A t \in Submitter : t # s => hand'[t] = hand[t]
      /\ queue' = queue /\ dispJob' = dispJob /\ run' = run
  BY DEF Check, TypeOK
<1>3. \A k \in Job : InHand(k)' <=> InHand(k) \/ k = j
  BY <1>2 DEF InHand
<1>4. Elements(queue)' = Elements(queue) /\ (Distinct(queue)' <=> Distinct(queue))
  BY <1>2 DEF Elements, Distinct
<1>5. Apart'
  <2>1. ~InHand(j) /\ j \notin Elements(queue) /\ dispJob # j /\ run[j] = "none"
    BY <1>2 DEF Apart
  <2>2. \A k \in offered' : ~InHand(k)' /\ k \notin Elements(queue) /\ dispJob # k /\ run[k] = "none"
    BY <1>2, <1>3 DEF Apart, TypeOK
  <2>3. \A k \in Job : InHand(k)' => k \notin Elements(queue) /\ dispJob # k /\ run[k] = "none"
    BY <1>3, <2>1 DEF Apart
  <2>4. \A t, u \in Submitter : hand'[t] # NoJob /\ hand'[t] = hand'[u] => t = u
    BY <1>2, <2>1 DEF Apart, InHand
  <2>5. QED
    BY <1>2, <1>4, <2>2, <2>3, <2>4 DEF Apart
<1>6. Somewhere'
  BY <1>2, <1>3, <1>4 DEF Somewhere
<1>7. DispHolds' /\ Counts'
  BY CountsStay DEF Check, DispHolds
<1>8. Shutdown'
  BY DEF Check, Shutdown
<1>9. QED
  BY <1>1, <1>5, <1>6, <1>7, <1>8

\* So does a send into the queue.
LEMMA SendKeeps ==
    ASSUME PoolInv, NEW s \in Submitter, Send(s)
    PROVE  PoolInv'
<1> USE PoolAssumption DEF PoolInv
<1> DEFINE j == hand[s]
<1>1. /\ j \in Job /\ hand'[s] = NoJob /\ InHand(j)
      /\ \A t \in Submitter : t # s => hand'[t] = hand[t]
      /\ queue' = Append(queue, j) /\ offered' = offered /\ dispJob' = dispJob /\ run' = run
      /\ queue \in Seq(Job)
  BY DEF Send, TypeOK, InHand
<1>2. /\ queue' \in Seq(Job) /\ Len(queue') = Len(queue) + 1
      /\ Elements(queue') = Elements(queue) \cup {j}
      /\ Distinct(queue)'
  BY <1>1, AppendFacts DEF Apart
<1>3. TypeOK'
  BY <1>2 DEF Send, TypeOK
<1>4. \A k \in Job : InHand(k)' <=> InHand(k) /\ k # j
  BY <1>1 DEF InHand, Apart
<1>5. Apart'
  <2>1. j \notin offered /\ j \notin Elements(queue) /\ dispJob # j /\ run[j] = "none"
    BY <1>1 DEF Apart
  <2>2. \A k \in offered : ~InHand(k)' /\ k \notin Elements(queue)' /\ dispJob # k /\ run[k] = "none"
    BY <1>2, <1>4, <2>1 DEF Apart, TypeOK
  <2>3. \A k \in Job : InHand(k)' => k \notin Elements(queue)' /\ dispJob # k /\ run[k] = "none"
    BY <1>2, <1>4 DEF Apart
  <2>4. \A k \in Elements(queue)' : dispJob # k /\ run[k] = "none"
    BY <1>2, <2>1 DEF Apart
  <2>5. \A t, u \in Submitter : hand'[t] # NoJob /\ hand'[t] = hand'[u] => t = u
    BY <1>1 DEF Apart
  <2>6. QED
    BY <1>1, <1>2, <2>2, <2>3, <2>4, <2>5 DEF Apart
<1>6. Somewhere'
  BY <1>1, <1>2, <1>4 DEF Somewhere
<1>7. DispHolds' /\ Counts'
  BY CountsStay DEF Send, DispHolds
<1>8. Shutdown'
  BY DEF Send, Shutdown, TypeOK, Submitter
<1>9. QED
  BY <1>3, <1>5, <1>6, <1>7, <1>8

\* So does a rejected submit.
LEMMA RejectKeeps ==
    ASSUME PoolInv, NEW s \in Submitter, Reject(s)
    PROVE  PoolInv'
<1> USE PoolAssumption DEF PoolInv
<1> DEFINE j == hand[s]
<1>1. /\ j \in Job /\ hand'[s] = NoJob /\ InHand(j)
      /\ \A t \in Submitter : t # s => hand'[t] = hand[t]
      /\ queue' = queue /\ offered' = offered \cup {j} /\ dispJob' = dispJob /\ run' = run
  BY DEF Reject, TypeOK, InHand
<1>2. Elements(queue)' = Elements(queue) /\ (Distinct(queue)' <=> Distinct(queue))
  BY <1>1 DEF Elements, Distinct
<1>3. TypeOK'
  BY DEF Reject, TypeOK
<1>4. \A k \in Job : InHand(k)' <=> InHand(k) /\ k # j
  BY <1>1 DEF InHand, Apart
<1>5. Apart'
  <2>1. j \notin Elements(queue) /\ dispJob # j /\ run[j] = "none"
    BY <1>1 DEF Apart
  <2>2. \A k \in offered' : ~InHand(k)' /\ k \notin Elements(queue) /\ dispJob # k /\ run[k] = "none"
    BY <1>1, <1>4, <2>1 DEF Apart, TypeOK
  <2>3. \A k \in Job : InHand(k)' => k \notin Elements(queue) /\ dispJob # k /\ run[k] = "none"
    BY <1>4 DEF Apart
  <2>4. \A t, u \in Submitter : hand'[t] # NoJob /\ hand'[t] = hand'[u] => t = u
    BY <1>1 DEF Apart
  <2>5. QED
    BY <1>1, <1>2, <2>2, <2>3, <2>4 DEF Apart
<1>6. Somewhere'
  BY <1>1, <1>2, <1>4 DEF Somewhere
<1>7. DispHolds' /\ Counts'
  BY CountsStay DEF Reject, DispHolds
<1>8. Shutdown'
  BY DEF Reject, Shutdown, TypeOK, Submitter
<1>9. QED
  BY <1>3, <1>5, <1>6, <1>7, <1>8

-----------------------------------------------------------------------------
(***************************************************************************)
(* The dispatcher.                                                         *)
(***************************************************************************)

\* So does the dispatcher's receive.
LEMMA ReceiveKeeps ==
    ASSUME PoolInv, Receive
    PROVE  PoolInv'
<1> USE PoolAssumption DEF PoolInv
<1> DEFINE j == Head(queue)
<1>1. /\ dispJob' = j /\ queue' = Tail(queue) /\ dispJob = NoJob
      /\ offered' = offered /\ hand' = hand /\ run' = run
      /\ queue \in Seq(Job) /\ queue # << >>
  BY DEF Receive, TypeOK, DispHolds
<1>2. /\ j \in Job /\ queue' \in Seq(Job) /\ Len(queue') < Len(queue)
      /\ Elements(queue) = Elements(queue') \cup {j}
      /\ j \notin Elements(queue') /\ Distinct(queue)'
  BY <1>1, TailFacts DEF Apart
<1>3. TypeOK'
  <2>1. Len(queue') <= QueueSize
    BY <1>1, <1>2 DEF TypeOK
  <2>2. QED
    BY <1>2, <2>1 DEF Receive, TypeOK, DispPC
<1>4. \A k \in Job : InHand(k)' <=> InHand(k)
  BY <1>1 DEF InHand
<1>5. Apart'
  <2>1. j \notin offered /\ ~InHand(j) /\ run[j] = "none"
    BY <1>2 DEF Apart
  <2>2. \A k \in offered : ~InHand(k)' /\ k \notin Elements(queue)' /\ dispJob' # k /\ run[k] = "none"
    BY <1>1, <1>2, <1>4, <2>1 DEF Apart, TypeOK
  <2>3. \A k \in Job : InHand(k)' => k \notin Elements(queue)' /\ dispJob' # k /\ run[k] = "none"
    BY <1>1, <1>2, <1>4, <2>1 DEF Apart
  <2>4. \A k \in Elements(queue)' : dispJob' # k /\ run[k] = "none"
    BY <1>1, <1>2 DEF Apart
  <2>5. QED
    BY <1>1, <1>2, <2>1, <2>2, <2>3, <2>4 DEF Apart
<1>6. Somewhere'
  BY <1>1, <1>2, <1>4 DEF Somewhere
<1>7. DispHolds'
  BY <1>1, <1>2 DEF Receive, DispHolds
<1>8. Counts'
  BY CountsStay DEF Receive
<1>9. Shutdown'
  BY DEF Receive, Shutdown
<1>10. QED
  BY <1>3, <1>5, <1>6, <1>7, <1>8, <1>9

\* The goroutine starts: its job is counted twice, by the semaphore as before and
\* by the WaitGroup from now on.
LEMMA SpawnKeeps ==
    ASSUME PoolInv, SpawnRun
    PROVE  PoolInv'
<1> USE PoolAssumption DEF PoolInv
<1> DEFINE j == dispJob
<1>1. /\ j \in Job /\ dispJob' = NoJob /\ disp = "spawn" /\ disp' = "select"
      /\ offered' = offered /\ hand' = hand /\ queue' = queue
      /\ slots' = slots /\ poolWg' = poolWg + 1 /\ poolWg \in Nat
      /\ run[j] = "none" /\ run'[j] = "run" /\ \A k \in Job : k # j => run'[k] = run[k]
  BY DEF SpawnRun, TypeOK, DispHolds, Apart
<1>2. Elements(queue)' = Elements(queue) /\ (Distinct(queue)' <=> Distinct(queue))
  BY <1>1 DEF Elements, Distinct
<1>3. TypeOK'
  BY <1>1 DEF SpawnRun, TypeOK, DispPC, RunPC
<1>4. \A k \in Job : InHand(k)' <=> InHand(k)
  BY <1>1 DEF InHand
<1>5. Apart'
  <2>1. j \notin offered /\ ~InHand(j) /\ j \notin Elements(queue)
    BY <1>1 DEF Apart
  <2>2. \A k \in Elements(queue) : k \in Job
    BY DEF Elements, TypeOK
  <2>3. \A k \in offered : ~InHand(k)' /\ k \notin Elements(queue) /\ NoJob # k /\ run'[k] = "none"
    BY <1>1, <1>4, <2>1 DEF Apart, TypeOK
  <2>4. \A k \in Job : InHand(k)' => k \notin Elements(queue) /\ NoJob # k /\ run'[k] = "none"
    BY <1>1, <1>4, <2>1 DEF Apart
  <2>5. \A k \in Elements(queue) : NoJob # k /\ run'[k] = "none"
    BY <1>1, <2>1, <2>2 DEF Apart
  <2>6. QED
    BY <1>1, <1>2, <2>3, <2>4, <2>5 DEF Apart
<1>6. Somewhere'
  BY <1>1, <1>2, <1>4 DEF Somewhere
<1>7. Counts'
  <2>1. Slotted' = Slotted \cup {j} /\ j \notin Slotted
    BY <1>1 DEF Slotted
  <2>2. Live' = Live \cup {j} /\ j \notin Live
    BY <1>1 DEF Live
  <2>3. /\ IsFiniteSet(Slotted') /\ Cardinality(Slotted') = Cardinality(Slotted) + 1
        /\ IsFiniteSet(Live') /\ Cardinality(Live') = Cardinality(Live) + 1
    BY <2>1, <2>2, FS_AddElement DEF Counts
  <2>4. Cardinality(Slotted) \in Nat /\ Cardinality(Live) \in Nat
    BY FS_CardinalityType DEF Counts
  <2>5. QED
    BY <1>1, <2>3, <2>4 DEF Counts
<1>8. DispHolds'
  BY <1>1 DEF DispHolds
<1>9. Shutdown'
  <2>1. main # "drained"
    BY DEF SpawnRun, ProcessUp
  <2>2. QED
    BY <2>1 DEF SpawnRun, Shutdown
<1>10. QED
  BY <1>3, <1>5, <1>6, <1>7, <1>8, <1>9

\* So do the other steps of the dispatcher.
LEMMA DispKeeps ==
    ASSUME PoolInv, LeaveLoop \/ AcquireSlot \/ DispatcherDone
    PROVE  PoolInv'
<1> USE PoolAssumption DEF PoolInv
<1>1. TypeOK'
  <2>1. CASE LeaveLoop
    BY <2>1 DEF LeaveLoop, TypeOK, DispPC
  <2>2. CASE AcquireSlot
    BY <2>2 DEF AcquireSlot, TypeOK, DispPC
  <2>3. CASE DispatcherDone
    <3>1. Cardinality(Live) \in Nat /\ poolWg = Cardinality(Live) + 1 /\ poolWg' = poolWg - 1
      BY <2>3, FS_CardinalityType DEF Counts, DispatcherDone
    <3>2. QED
      BY <2>3, <3>1 DEF DispatcherDone, TypeOK, DispPC
  <2>4. QED
    BY <2>1, <2>2, <2>3
<1>2. Apart' /\ Somewhere'
  BY PlacesStay DEF LeaveLoop, AcquireSlot, DispatcherDone
<1>3. DispHolds'
  BY DEF LeaveLoop, AcquireSlot, DispatcherDone, DispHolds
<1>4. Counts'
  <2>1. Slotted' = Slotted /\ Live' = Live
    BY DEF LeaveLoop, AcquireSlot, DispatcherDone, Slotted, Live
  <2>2. Cardinality(Slotted) \in Nat /\ Cardinality(Live) \in Nat
    BY FS_CardinalityType DEF Counts
  <2>3. QED
    BY <2>1, <2>2 DEF LeaveLoop, AcquireSlot, DispatcherDone, Counts
<1>5. Shutdown'
  <2>1. main # "drained" /\ main' = main
    BY DEF LeaveLoop, AcquireSlot, DispatcherDone, ProcessUp
  <2>2. QED
    BY <2>1 DEF LeaveLoop, AcquireSlot, DispatcherDone, Shutdown
<1>6. QED
  BY <1>1, <1>2, <1>3, <1>4, <1>5

-----------------------------------------------------------------------------
(***************************************************************************)
(* The goroutine of a job, and main.                                       *)
(***************************************************************************)

\* A goroutine gives up its slot and then its place in the WaitGroup.
LEMMA RunKeeps ==
    ASSUME PoolInv, NEW j \in Job, RunStep(j)
    PROVE  PoolInv'
<1> USE PoolAssumption DEF PoolInv
<1>1. /\ Cardinality(Slotted) \in Nat /\ Cardinality(Live) \in Nat
      /\ Cardinality(Slotted) > 0 <=> Slotted # {}
      /\ Cardinality(Live) > 0 <=> Live # {}
  BY FS_CardinalityType, FS_EmptySet DEF Counts
<1>2. run[j] # "none" /\ run'[j] # "none" /\ \A k \in Job : k # j => run'[k] = run[k]
  BY DEF RunStep, RunReturns, FreeSlot, JobDone, TypeOK
<1>3. /\ UNCHANGED <<offered, hand, queue, closed, disp, dispJob, ctxDone, main, crashed>>
      /\ main # "drained"
  BY DEF RunStep, RunReturns, FreeSlot, JobDone, ProcessUp
<1>4. Apart' /\ Somewhere'
  BY <1>2, <1>3, PlacesStay
<1>5. Counts' /\ slots' \in 0..Concurrency /\ poolWg' \in Nat
  <2>1. CASE RunReturns(j)
    <3>1. Slotted' = Slotted /\ Live' = Live
      BY <1>2, <2>1 DEF RunReturns, Slotted, Live, TypeOK
    <3>2. QED
      BY <2>1, <3>1 DEF RunReturns, Counts, TypeOK
  <2>2. CASE FreeSlot(j)
    <3>1. Slotted' = Slotted \ {j} /\ j \in Slotted /\ Live' = Live
      BY <1>2, <2>2 DEF FreeSlot, Slotted, Live, TypeOK
    <3>2. IsFiniteSet(Slotted') /\ Cardinality(Slotted') = Cardinality(Slotted) - 1
      BY <3>1, FS_RemoveElement DEF Counts
    <3>3. slots > 0 /\ slots' = slots - 1 /\ poolWg' = poolWg /\ disp' = disp
      BY <2>2 DEF FreeSlot
    <3>4. slots' \in 0..Concurrency /\ poolWg' \in Nat
      BY <3>3 DEF TypeOK
    <3>5. slots' = Cardinality(Slotted') + IF disp' = "spawn" THEN 1 ELSE 0
      BY <1>1, <3>2, <3>3 DEF Counts
    <3>6. QED
      BY <3>1, <3>2, <3>3, <3>4, <3>5 DEF Counts
  <2>3. CASE JobDone(j)
    <3>1. Live' = Live \ {j} /\ j \in Live /\ Slotted' = Slotted
      BY <1>2, <2>3 DEF JobDone, Slotted, Live, TypeOK
    <3>2. IsFiniteSet(Live') /\ Cardinality(Live') = Cardinality(Live) - 1
      BY <3>1, FS_RemoveElement DEF Counts
    <3>3. slots' = slots /\ poolWg' = poolWg - 1 /\ disp' = disp
      BY <2>3 DEF JobDone
    <3>4. poolWg' = Cardinality(Live') + IF disp' = "done" THEN 0 ELSE 1
      BY <1>1, <3>2, <3>3 DEF Counts
    <3>5. poolWg' \in Nat
      BY <1>1, <3>1, <3>2, <3>4
    <3>6. QED
      BY <3>1, <3>2, <3>3, <3>4, <3>5 DEF Counts, TypeOK
  <2>4. QED
    BY <2>1, <2>2, <2>3 DEF RunStep
<1>6. TypeOK'
  <2>1. run' \in [Job -> RunPC]
    BY DEF RunStep, RunReturns, FreeSlot, JobDone, TypeOK, RunPC
  <2>2. QED
    BY <1>3, <1>5, <2>1 DEF TypeOK
<1>7. DispHolds' /\ Shutdown'
  BY <1>3 DEF DispHolds, Shutdown
<1>8. QED
  BY <1>4, <1>5, <1>6, <1>7

\* So do the steps of the shutdown, and a send on the closed channel.
LEMMA MainKeeps ==
    ASSUME PoolInv, MainStep \/ Signal \/ StopTimesOut \/ \E s \in Submitter : SendOnClosed(s)
    PROVE  PoolInv'
<1> USE PoolAssumption DEF PoolInv
<1>1. UNCHANGED <<offered, hand, queue, disp, dispJob, slots, run, poolWg>>
  BY DEF MainStep, StopReconciler, Close, PoolStopped, Signal, StopTimesOut, SendOnClosed
<1>2. TypeOK'
  <2>1. closed' \in BOOLEAN /\ ctxDone' \in BOOLEAN /\ crashed' \in BOOLEAN /\ main' \in MainPC
    BY DEF MainStep, StopReconciler, Close, PoolStopped, Signal, StopTimesOut, SendOnClosed,
           TypeOK, MainPC
  <2>2. QED
    BY <1>1, <2>1 DEF TypeOK
<1>3. Apart' /\ Somewhere'
  BY <1>1, PlacesStay
<1>4. Counts' /\ DispHolds'
  BY <1>1, CountsStay DEF DispHolds
<1>5. Shutdown'
  BY DEF MainStep, StopReconciler, Close, PoolStopped, Signal, StopTimesOut, SendOnClosed,
         Shutdown, ProcessUp
<1>6. QED
  BY <1>2, <1>3, <1>4, <1>5

-----------------------------------------------------------------------------
(***************************************************************************)
(* The theorems.                                                           *)
(***************************************************************************)

\* The invariant holds in the empty pool.
LEMMA PoolStarts == Init => PoolInv
<1> SUFFICES ASSUME Init PROVE PoolInv
  OBVIOUS
<1> USE PoolAssumption
<1>1. TypeOK
  <2>1. queue \in Seq(Job) /\ Len(queue) <= QueueSize
    BY DEF Init
  <2>2. hand \in [Submitter -> Job \cup {NoJob}] /\ run \in [Job -> RunPC]
    BY DEF Init, RunPC
  <2>3. slots \in 0..Concurrency /\ poolWg \in Nat
    BY DEF Init
  <2>4. closed \in BOOLEAN /\ ctxDone \in BOOLEAN /\ crashed \in BOOLEAN
    BY DEF Init
  <2>5. QED
    BY <2>1, <2>2, <2>3, <2>4 DEF Init, TypeOK, DispPC, MainPC
<1>2. Elements(queue) = {} /\ Distinct(queue) /\ \A j \in Job : ~InHand(j)
  BY DEF Init, Elements, Distinct, InHand
<1>3. Apart /\ Somewhere
  BY <1>2 DEF Init, Apart, Somewhere
<1>4. Slotted = {} /\ Live = {}
  BY DEF Init, Slotted, Live
<1>5. Counts
  BY <1>4, FS_EmptySet DEF Init, Counts
<1>6. DispHolds /\ Shutdown
  BY DEF Init, DispHolds, Shutdown
<1>7. QED
  BY <1>1, <1>3, <1>5, <1>6 DEF PoolInv

\* The invariant is inductive.
LEMMA PoolSteps == PoolInv /\ [Next]_vars => PoolInv'
<1> SUFFICES ASSUME PoolInv, [Next]_vars PROVE PoolInv'
  OBVIOUS
<1>1. CASE UNCHANGED vars
  <2>1. UNCHANGED <<offered, hand, queue, closed, disp, dispJob, slots, run, poolWg, ctxDone,
                    main, crashed>>
    BY <1>1 DEF vars
  <2>2. TypeOK' /\ DispHolds' /\ Shutdown'
    BY <2>1 DEF PoolInv, TypeOK, DispHolds, Shutdown
  <2>3. QED
    BY <2>1, <2>2, PlacesStay, CountsStay DEF PoolInv
<1>2. CASE Next
  BY <1>2, CheckKeeps, SendKeeps, RejectKeeps, ReceiveKeeps, SpawnKeeps, DispKeeps, RunKeeps,
     MainKeeps DEF Next, SubmitStep, DispStep
<1>3. QED
  BY <1>1, <1>2

\* One of the five places holds the job, and the others do not.
LEMMA PlacesAddUp == PoolInv => OnePlace
<1> SUFFICES ASSUME PoolInv, NEW j \in Job
             PROVE Cardinality({s \in Submitter : hand[s] = j} \cup {n \in DOMAIN queue : queue[n] = j})
                     + (IF j \in offered THEN 1 ELSE 0) + (IF dispJob = j THEN 1 ELSE 0)
                     + (IF run[j] # "none" THEN 1 ELSE 0) = 1
  BY DEF OnePlace
<1> USE PoolAssumption DEF PoolInv
<1> DEFINE H == {s \in Submitter : hand[s] = j}
           Q == {n \in DOMAIN queue : queue[n] = j}
<1>1. H # {} <=> InHand(j)
  BY DEF InHand
<1>2. Q # {} <=> j \in Elements(queue)
  BY DEF Elements, TypeOK
<1>3. CASE InHand(j)
  <2>1. PICK s \in Submitter : hand[s] = j
    BY <1>3 DEF InHand
  <2>2. H = {s} /\ Q = {}
    BY <1>2, <1>3, <2>1 DEF Apart
  <2>3. Cardinality(H \cup Q) = 1
    BY <2>2, FS_Singleton
  <2>4. j \notin offered /\ dispJob # j /\ run[j] = "none"
    BY <1>3 DEF Apart
  <2>5. QED
    BY <2>3, <2>4
<1>4. CASE j \in Elements(queue)
  <2>1. PICK n \in DOMAIN queue : queue[n] = j
    BY <1>4 DEF Elements, TypeOK
  <2>2. H = {} /\ Q = {n}
    BY <1>1, <1>4, <2>1 DEF Apart, Distinct, TypeOK
  <2>3. Cardinality(H \cup Q) = 1
    BY <2>2, FS_Singleton
  <2>4. j \notin offered /\ dispJob # j /\ run[j] = "none"
    BY <1>4 DEF Apart
  <2>5. QED
    BY <2>3, <2>4
<1>5. CASE ~InHand(j) /\ j \notin Elements(queue)
  <2>1. Cardinality(H \cup Q) = 0
    BY <1>1, <1>2, <1>5, FS_EmptySet
  <2>2. j \in offered \/ dispJob = j \/ run[j] # "none"
    BY <1>5 DEF Somewhere
  <2>3. /\ j \in offered => dispJob # j /\ run[j] = "none"
        /\ dispJob = j => run[j] = "none"
    BY DEF Apart
  <2>4. QED
    BY <2>1, <2>2, <2>3
<1>6. QED
  BY <1>3, <1>4, <1>5

\* Every state the pool can reach satisfies the invariant.
LEMMA PoolCorrect == Spec => []PoolInv
  BY PoolStarts, PoolSteps, PTL DEF Spec

\* The slots of Pool.sem and the count of Pool.wg are what the goroutines hold:
\* run gives back each slot that the dispatcher took, on every way out.
THEOREM CountsMatch == Spec => []PoolCounts
<1>1. PoolInv => PoolCounts
  BY DEF PoolInv, PoolCounts, Counts
<1>2. QED
  BY <1>1, PoolCorrect, PTL

\* The pool neither loses nor doubles a job: from Submit to the end of its run a
\* job is in exactly one place.
THEOREM JobsKeepOnePlace == Spec => []OnePlace
  BY PoolCorrect, PlacesAddUp, PTL

\* When Stop has returned the dispatcher is gone and no goroutine runs a job.
\* The argument is the count: poolWg is 0, and it counts them.
THEOREM StopLeavesNothing == Spec => []StopIsClean
<1>1. PoolInv => StopIsClean
  <2> SUFFICES ASSUME PoolInv, main = "drained"
               PROVE  /\ disp = "done" /\ dispJob = NoJob
                      /\ \A j \in Job : run[j] \in {"none", "done"}
    BY DEF StopIsClean
  <2>1. poolWg = 0 /\ Cardinality(Live) \in Nat /\ (Cardinality(Live) = 0 <=> Live = {})
    BY FS_CardinalityType, FS_EmptySet DEF PoolInv, Shutdown, Counts
  <2>2. disp = "done" /\ Live = {}
    BY <2>1 DEF PoolInv, Counts
  <2>3. QED
    BY <2>2 DEF PoolInv, DispHolds, Live, TypeOK, RunPC
<1>2. QED
  BY <1>1, PoolCorrect, PTL

\* The close of Pool.jobs never meets the reconciler: main closes it only after
\* the reconciler's goroutine has ended.
THEOREM CloseMeetsNobody == Spec => []ReconcilerGoneAtClose
<1>1. PoolInv => ReconcilerGoneAtClose
  BY DEF PoolInv, Shutdown, ReconcilerGoneAtClose
<1>2. QED
  BY <1>1, PoolCorrect, PTL

-----------------------------------------------------------------------------
(***************************************************************************)
(* JobService.Enqueue.                                                     *)
(***************************************************************************)

\* One row per key; an answer is a row with the key of its request; and only a
\* request that is done has begun to publish, so nothing answers it again.
ServiceInv ==
    /\ ServiceTypeOK
    /\ \A i, j \in rows : KeyOf[i] # NoKey /\ KeyOf[i] = KeyOf[j] => i = j
    /\ \A c \in Call : answer[c] \in Call => answer[c] \in rows /\ KeyOf[answer[c]] = KeyOf[c]
    /\ \A c \in Call : pub[c] # "none" => pc[c] = "done" /\ c \in rows /\ answer[c] = c

\* The invariant holds before the first request.
LEMMA ServiceStarts == ServiceInit => ServiceInv
  BY ServiceAssumption DEF ServiceInit, ServiceInv, ServiceTypeOK

\* A request that is answered with a row of its key, or with an error, leaves the
\* invariant as it is when it changes nothing else.
LEMMA AnswerKeeps ==
    ASSUME ServiceInv, NEW c \in Call, pc[c] # "done", NEW a, Answer(c, a),
           a = Failed \/ a \in SameKey(c),
           faults' \in 0..MaxFaults, UNCHANGED <<rows, leased, pub>>
    PROVE  ServiceInv'
<1> USE ServiceAssumption
<1>1. a \in Call => a \in rows /\ KeyOf[a] = KeyOf[c]
  BY DEF SameKey
<1>2. a \in Call \cup {None, Failed}
  BY DEF SameKey, ServiceInv, ServiceTypeOK
<1>3. ServiceTypeOK'
  BY <1>2 DEF Answer, ServiceInv, ServiceTypeOK
<1>4. QED
  BY <1>1, <1>3 DEF Answer, ServiceInv, ServiceTypeOK

\* So does a request that goes on.
LEMMA GotoKeeps ==
    ASSUME ServiceInv, NEW c \in Call, pc[c] # "done",
           NEW l \in {"create", "again"}, Goto(c, l),
           faults' \in 0..MaxFaults, UNCHANGED <<rows, leased, pub>>
    PROVE  ServiceInv'
<1>1. ServiceTypeOK'
  BY DEF Goto, ServiceInv, ServiceTypeOK
<1>2. QED
  BY <1>1 DEF Goto, ServiceInv, ServiceTypeOK

\* Either outcome of CreateJob keeps the invariant: no row has the key.
LEMMA CreateKeeps ==
    ASSUME ServiceInv, NEW c \in Call, Create(c)
    PROVE  ServiceInv'
<1> USE ServiceAssumption
<1>1. pc[c] = "create" /\ pub[c] = "none" /\ SameKey(c) = {}
  BY DEF Create, Conflict, ServiceInv, ServiceTypeOK
<1>2. /\ rows \subseteq rows' /\ rows' \subseteq rows \cup {c} /\ leased' = leased
      /\ faults' \in 0..MaxFaults
      /\ pc' = [pc EXCEPT ![c] = "done"]
      /\ \/ answer' = [answer EXCEPT ![c] = c] /\ c \in rows'
         \/ answer' = [answer EXCEPT ![c] = Failed] /\ pub' = pub
      /\ pub' \in [Call -> {"none", "started", "sent", "lost"}]
      /\ \A d \in Call : d # c => pub'[d] = pub[d]
  BY DEF Create, Answer, Fault, ServiceInv, ServiceTypeOK
<1>3. ServiceTypeOK'
  BY <1>2 DEF ServiceInv, ServiceTypeOK
<1>4. \A i, j \in rows' : KeyOf[i] # NoKey /\ KeyOf[i] = KeyOf[j] => i = j
  BY <1>1, <1>2 DEF SameKey, ServiceInv
<1>5. \A d \in Call : answer'[d] \in Call => answer'[d] \in rows' /\ KeyOf[answer'[d]] = KeyOf[d]
  BY <1>2 DEF ServiceInv, ServiceTypeOK
<1>6. \A d \in Call : pub'[d] # "none" => pc'[d] = "done" /\ d \in rows' /\ answer'[d] = d
  BY <1>1, <1>2 DEF ServiceInv, ServiceTypeOK
<1>7. QED
  BY <1>3, <1>4, <1>5, <1>6 DEF ServiceInv

\* Each step of a request, its goroutine or a worker keeps the invariant.
LEMMA ServiceSteps == ServiceInv /\ [ServiceNext]_serviceVars => ServiceInv'
<1> SUFFICES ASSUME ServiceInv, [ServiceNext]_serviceVars PROVE ServiceInv'
  OBVIOUS
<1> USE ServiceAssumption
<1>f. Fault => faults' \in 0..MaxFaults
  BY DEF Fault, ServiceInv, ServiceTypeOK
<1>u. faults' = faults => faults' \in 0..MaxFaults
  BY DEF ServiceInv, ServiceTypeOK
<1>1. ASSUME NEW c \in Call, Lookup(c) PROVE ServiceInv'
  <2>1. CASE \E j \in SameKey(c) : Found(c, j) /\ UNCHANGED faults
    BY <1>1, <1>u, <2>1, AnswerKeeps DEF Lookup, Found
  <2>2. CASE Goto(c, "create") /\ UNCHANGED faults
    BY <1>1, <1>u, <2>2, GotoKeeps DEF Lookup
  <2>3. CASE Fault /\ Answer(c, Failed)
    BY <1>1, <1>f, <2>3, AnswerKeeps DEF Lookup
  <2>4. QED
    BY <1>1, <2>1, <2>2, <2>3 DEF Lookup
<1>2. ASSUME NEW c \in Call, Duplicate(c) PROVE ServiceInv'
  BY <1>2, <1>u, GotoKeeps DEF Duplicate
<1>3. ASSUME NEW c \in Call, Create(c) PROVE ServiceInv'
  BY <1>3, CreateKeeps
<1>4. ASSUME NEW c \in Call, LookupAgain(c) PROVE ServiceInv'
  <2>1. CASE \E j \in SameKey(c) : Found(c, j) /\ UNCHANGED faults
    BY <1>4, <1>u, <2>1, AnswerKeeps DEF LookupAgain, Found
  <2>2. CASE Fault /\ Answer(c, Failed)
    BY <1>4, <1>f, <2>2, AnswerKeeps DEF LookupAgain
  <2>3. QED
    BY <1>4, <2>1, <2>2 DEF LookupAgain
<1>5. ASSUME NEW c \in Call, Publish(c) PROVE ServiceInv'
  BY <1>5, <1>f DEF Publish, ServiceInv, ServiceTypeOK
<1>6. ASSUME NEW c \in Call, Crash(c) PROVE ServiceInv'
  BY <1>6, <1>f, AnswerKeeps DEF Crash
<1>7. ASSUME NEW c \in Call, Claim(c) PROVE ServiceInv'
  BY <1>7 DEF Claim, ServiceInv, ServiceTypeOK
<1>8. ASSUME NEW c \in Call, Unclaim(c) PROVE ServiceInv'
  BY <1>8 DEF Unclaim, ServiceInv, ServiceTypeOK
<1>9. CASE UNCHANGED serviceVars
  BY <1>9 DEF serviceVars, ServiceInv, ServiceTypeOK
<1>10. QED
  BY <1>1, <1>2, <1>3, <1>4, <1>5, <1>6, <1>7, <1>8, <1>9 DEF ServiceNext, Step

\* Enqueue is idempotent: requests with one key make one job and get one answer,
\* however lookups, inserts, failures and crashes of several requests interleave.
THEOREM EnqueueIsIdempotent == ServiceSpec => []OneJobPerKey
<1>1. ServiceInv => OneJobPerKey
  BY DEF ServiceInv, OneJobPerKey
<1>2. QED
  BY ServiceStarts, ServiceSteps, <1>1, PTL DEF ServiceSpec

\* The publish goroutine only speaks of a job that is stored and that its client
\* was given.
THEOREM PublishFollowsInsert == ServiceSpec => []PublishedIsStored
<1>1. ServiceInv => PublishedIsStored
  BY DEF ServiceInv, PublishedIsStored
<1>2. QED
  BY ServiceStarts, ServiceSteps, <1>1, PTL DEF ServiceSpec

-----------------------------------------------------------------------------
(***************************************************************************)
(* The walk over the pages of ListJobs.                                    *)
(*                                                                         *)
(* The argument: the cursor is the place of the last row returned, what is *)
(* still owed lies below it, and the rows of a page are the first below it.*)
(***************************************************************************)

\* Until the walk ends, the cursor is the place of the last row it has returned.
CursorIsLast ==
    walk # "done" =>
      IF cursor = NoCursor THEN got = << >> ELSE got # << >> /\ cursor = Place(got[Len(got)])

\* What the walk owes is in the table, and returned or still to come.
Owed ==
    /\ walk = "no" => got = << >> /\ cursor = NoCursor
    /\ walk = "on" => \A i \in steady : i \in Listed /\ (i \in Range(got) \/ AfterCursor(Place(i), cursor))
    /\ walk = "done" => steady \subseteq Range(got)

\* The inductive invariant.
WalkInv ==
    /\ ServiceInv
    /\ walk \in {"no", "on", "done"} /\ got \in Seq(Call)
    /\ NewestFirst(got) /\ CursorIsLast /\ Owed

\* What the constants are.
LEMMA ApiConstants ==
    /\ Limit \in Nat /\ Limit > 0
    /\ \A i \in Call : i \in Nat /\ CreatedAt[i] \in Nat /\ Place(i) # NoCursor
<1>1. Limit \in Nat /\ Limit > 0
  <2>1. Limit \in Nat \ {0}
    BY ApiAssumption, Zenon
  <2>2. QED
    BY <2>1
<1>2. \A i \in Call : i \in Nat /\ CreatedAt[i] \in Nat
  BY ApiAssumption
<1>3. \A i \in Call : Place(i) \in Nat \X Call
  BY <1>2 DEF Place
<1>4. QED
  BY <1>1, <1>2, <1>3, ApiAssumption

\* The order of the places is transitive.
LEMMA BelowTransitive ==
    ASSUME NEW i \in Call, NEW j \in Call, NEW k \in Call,
           Below(Place(i), Place(j)), Below(Place(j), Place(k))
    PROVE  Below(Place(i), Place(k))
  BY ApiConstants DEF Below, Place

\* The elements of the first part of a sequence.
LEMMA Prefix ==
    ASSUME NEW S, NEW s \in Seq(S), NEW k \in 0..Len(s)
    PROVE  /\ SubSeq(s, 1, k) \in Seq(S) /\ Len(SubSeq(s, 1, k)) = k
           /\ \A n \in 1..k : SubSeq(s, 1, k)[n] = s[n]
<1>1. Len(SubSeq(s, 1, k)) = k
  OBVIOUS
<1>2. \A n \in 1..k : SubSeq(s, 1, k)[n] = s[n]
  OBVIOUS
<1>3. SubSeq(s, 1, k) \in Seq(S)
  OBVIOUS
<1>4. QED
  BY <1>1, <1>2, <1>3

\* An element has a place.
LEMMA HasPlace ==
    ASSUME NEW S, NEW s \in Seq(S), NEW x \in Range(s)
    PROVE  \E n \in 1..Len(s) : x = s[n]
  BY DEF Range

\* The first part of a page is in order, as the page is.
LEMMA PrefixOrdered ==
    ASSUME NEW s \in Seq(Call), NewestFirst(s), NEW t \in Seq(Call), Len(t) <= Len(s),
           \A n \in 1..Len(t) : t[n] = s[n]
    PROVE  NewestFirst(t)
<1>1. \A n \in DOMAIN t : n \in DOMAIN s /\ t[n] = s[n]
  OBVIOUS
<1>2. QED
  BY <1>1 DEF NewestFirst

\* The elements of a sequence that grows.
LEMMA Appended ==
    ASSUME NEW S, NEW s \in Seq(S), NEW t \in Seq(S)
    PROVE  /\ s \o t \in Seq(S) /\ Len(s \o t) = Len(s) + Len(t)
           /\ Range(s \o t) = Range(s) \cup Range(t)
           /\ \A n \in 1..Len(s) : (s \o t)[n] = s[n]
           /\ \A n \in 1..Len(t) : (s \o t)[Len(s) + n] = t[n]
<1>1. /\ s \o t \in Seq(S) /\ Len(s \o t) = Len(s) + Len(t)
      /\ \A n \in 1..Len(s) : (s \o t)[n] = s[n]
      /\ \A n \in 1..Len(t) : (s \o t)[Len(s) + n] = t[n]
  <2>1. s \o t \in Seq(S)
    OBVIOUS
  <2>2. Len(s \o t) = Len(s) + Len(t)
    OBVIOUS
  <2>3. \A n \in 1..Len(s) : (s \o t)[n] = s[n]
    OBVIOUS
  <2>4. \A n \in 1..Len(t) : (s \o t)[Len(s) + n] = t[n]
    OBVIOUS
  <2>5. QED
    BY <2>1, <2>2, <2>3, <2>4
<1>2. \A n \in 1..Len(s \o t) : (s \o t)[n] \in Range(s) \cup Range(t)
  <2> TAKE n \in 1..Len(s \o t)
  <2>1. CASE n <= Len(s)
    BY <1>1, <2>1 DEF Range
  <2>2. CASE n > Len(s)
    <3>1. n - Len(s) \in 1..Len(t) /\ n = Len(s) + (n - Len(s))
      BY <1>1, <2>2
    <3>2. QED
      BY <1>1, <3>1 DEF Range
  <2>3. QED
    BY <1>1, <2>1, <2>2
<1>3. \A n \in 1..Len(s) : s[n] \in Range(s \o t)
  BY <1>1 DEF Range
<1>4. \A n \in 1..Len(t) : t[n] \in Range(s \o t)
  <2> TAKE n \in 1..Len(t)
  <2>1. Len(s) + n \in DOMAIN (s \o t)
    BY <1>1
  <2>2. QED
    BY <1>1, <2>1 DEF Range
<1>5. DOMAIN s = 1..Len(s) /\ DOMAIN t = 1..Len(t) /\ DOMAIN (s \o t) = 1..Len(s \o t)
  BY <1>1
<1>6. Range(s \o t) \subseteq Range(s) \cup Range(t)
  BY <1>2, <1>5 DEF Range
<1>7. Range(s) \cup Range(t) \subseteq Range(s \o t)
  BY <1>3, <1>4, <1>5 DEF Range
<1>8. QED
  BY <1>1, <1>6, <1>7

\* Rows below the last of a descending sequence continue it.
LEMMA Continues ==
    ASSUME NEW s \in Seq(Call), NEW t \in Seq(Call), NewestFirst(s), NewestFirst(t),
           s # << >> => \A n \in 1..Len(t) : Below(Place(t[n]), Place(s[Len(s)]))
    PROVE  NewestFirst(s \o t)
<1> SUFFICES ASSUME NEW m \in 1..(Len(s) + Len(t)), NEW n \in 1..(Len(s) + Len(t)), m < n
             PROVE  Below(Place((s \o t)[n]), Place((s \o t)[m]))
  BY Appended DEF NewestFirst
<1>1. /\ \A k \in 1..Len(s) : (s \o t)[k] = s[k]
      /\ \A k \in 1..Len(t) : (s \o t)[Len(s) + k] = t[k]
  BY Appended
<1>2. CASE n <= Len(s)
  BY <1>1, <1>2 DEF NewestFirst
<1>3. CASE m > Len(s)
  <2>1. m - Len(s) \in 1..Len(t) /\ n - Len(s) \in 1..Len(t) /\ m - Len(s) < n - Len(s)
        /\ m = Len(s) + (m - Len(s)) /\ n = Len(s) + (n - Len(s))
    BY <1>3
  <2>2. (s \o t)[m] = t[m - Len(s)] /\ (s \o t)[n] = t[n - Len(s)]
    BY <1>1, <2>1
  <2>3. QED
    BY <2>1, <2>2 DEF NewestFirst
<1>4. CASE m <= Len(s) /\ n > Len(s)
  <2>1. n - Len(s) \in 1..Len(t) /\ n = Len(s) + (n - Len(s))
    BY <1>4
  <2>2. (s \o t)[m] = s[m] /\ (s \o t)[n] = t[n - Len(s)]
    BY <1>1, <1>4, <2>1
  <2>3. Below(Place(t[n - Len(s)]), Place(s[Len(s)]))
    BY <1>4, <2>1
  <2>4. m = Len(s) \/ Below(Place(s[Len(s)]), Place(s[m]))
    BY <1>4 DEF NewestFirst
  <2>5. s[m] \in Call /\ s[Len(s)] \in Call /\ t[n - Len(s)] \in Call
    BY <1>4, <2>1
  <2>6. QED
    BY <2>2, <2>3, <2>4, <2>5, BelowTransitive
<1>5. QED
  BY <1>2, <1>3, <1>4

\* A page is a descending sequence of rows after the cursor, and a row that is
\* not on it lies below all of it, which then is full.
LEMMA PageOf ==
    ASSUME ServiceInv, NEW page \in Query
    PROVE  /\ page \in Seq(Call) /\ NewestFirst(page) /\ Len(page) <= Limit + 1
           /\ \A n \in 1..Len(page) : page[n] \in Listed /\ AfterCursor(Place(page[n]), cursor)
           /\ \A i \in Listed : AfterCursor(Place(i), cursor) /\ i \notin Range(page) =>
                /\ Len(page) = Limit + 1
                /\ \A n \in 1..Len(page) : Below(Place(i), Place(page[n]))
<1> DEFINE all == {i \in Listed : AfterCursor(Place(i), cursor)}
<1>1. PICK n \in 0..(Limit + 1) : page \in [1..n -> all]
  BY DEF Query
<1>2. n \in Nat /\ n <= Limit + 1
  BY <1>1, ApiConstants
<1>3. all \subseteq Call
  BY DEF Listed, ServiceInv, ServiceTypeOK
<1>4. page \in [1..n -> Call]
  BY <1>1, <1>3
<1>5. page \in Seq(Call) /\ Len(page) = n
  BY <1>2, <1>4
<1>6. \A k \in 1..Len(page) : page[k] \in all
  BY <1>1, <1>5
<1>7. NewestFirst(page) /\ \A i \in all \ Range(page) :
        Len(page) = Limit + 1 /\ \A k \in DOMAIN page : Below(Place(i), Place(page[k]))
  BY DEF Query
<1>8. DOMAIN page = 1..Len(page)
  BY <1>5
<1>9. QED
  BY <1>2, <1>5, <1>6, <1>7, <1>8

\* The walk that has not begun satisfies the invariant.
LEMMA WalkStarts == ApiInit => WalkInv
  BY ServiceStarts DEF ApiInit, WalkInv, CursorIsLast, Owed, NewestFirst

\* Requests and workers change what is listed and not what is owed: rows are not
\* deleted, and a job that was released is no longer owed.
LEMMA ElsewhereKeeps ==
    ASSUME WalkInv, Elsewhere PROVE WalkInv'
<1>1. ServiceInv'
  BY ServiceSteps DEF Elsewhere, WalkInv
<1>2. rows \subseteq rows'
  BY DEF Elsewhere, ServiceNext, Step, Lookup, Duplicate, Create, LookupAgain, Publish, Crash,
         Claim, Unclaim
<1>3. /\ got' = got /\ walk' = walk /\ cursor' = cursor /\ filter' = filter
      /\ steady' \subseteq steady /\ (filter # "" => steady' \subseteq leased')
  BY DEF Elsewhere
<1>4. steady \subseteq Listed => steady' \subseteq Listed'
  BY <1>2, <1>3 DEF Listed
<1>5. Owed'
  BY <1>3, <1>4 DEF Owed, WalkInv
<1>6. QED
  BY <1>1, <1>3, <1>5 DEF WalkInv, CursorIsLast, NewestFirst

\* A page keeps the invariant.
LEMMA PageKeeps ==
    ASSUME WalkInv, Page PROVE WalkInv'
<1>1. PICK page \in Query :
        /\ walk = "on"
        /\ IF Len(page) > Limit
           THEN got' = got \o SubSeq(page, 1, Limit) /\ cursor' = Place(page[Limit]) /\ walk' = walk
           ELSE got' = got \o page /\ walk' = "done" /\ cursor' = cursor
        /\ UNCHANGED <<serviceVars, filter, steady>>
  BY DEF Page
<1>2. ServiceInv /\ ServiceInv'
  BY <1>1, ServiceSteps DEF WalkInv
<1>3. /\ page \in Seq(Call) /\ NewestFirst(page) /\ Len(page) <= Limit + 1
      /\ \A n \in 1..Len(page) : page[n] \in Listed /\ AfterCursor(Place(page[n]), cursor)
      /\ \A i \in Listed : AfterCursor(Place(i), cursor) /\ i \notin Range(page) =>
           /\ Len(page) = Limit + 1
           /\ \A n \in 1..Len(page) : Below(Place(i), Place(page[n]))
  BY <1>2, PageOf
<1>4. got \in Seq(Call) /\ NewestFirst(got) /\ CursorIsLast
      /\ \A i \in steady : i \in Listed /\ (i \in Range(got) \/ AfterCursor(Place(i), cursor))
  BY <1>1 DEF WalkInv, Owed
<1>5. got # << >> => \A n \in 1..Len(page) : Below(Place(page[n]), Place(got[Len(got)]))
  BY <1>1, <1>3, <1>4 DEF CursorIsLast, AfterCursor
<1>6. CASE Len(page) > Limit
  <2> DEFINE most == SubSeq(page, 1, Limit)
  <2>1. Len(page) = Limit + 1 /\ Limit \in Nat /\ Limit > 0
    BY <1>3, <1>6, ApiConstants
  <2>2. most \in Seq(Call) /\ Len(most) = Limit /\ \A n \in 1..Limit : most[n] = page[n]
    <3>1. page \in Seq(Call) /\ Limit \in 0..Len(page)
      BY <1>3, <2>1
    <3>2. QED
      BY <3>1, Prefix
  <2> HIDE DEF most
  <2>3. got' = got \o most /\ cursor' = Place(page[Limit]) /\ walk' = walk /\ steady' = steady
        /\ Listed' = Listed
    BY <1>1, <1>6 DEF most, Listed, serviceVars
  <2>4. NewestFirst(most)
    BY <1>3, <2>1, <2>2, PrefixOrdered
  <2>5. got # << >> => \A n \in 1..Len(most) : Below(Place(most[n]), Place(got[Len(got)]))
    BY <1>5, <2>1, <2>2
  <2>6. got' \in Seq(Call) /\ NewestFirst(got')
    BY <1>4, <2>2, <2>3, <2>4, <2>5, Continues
  <2>7. /\ Len(got') = Len(got) + Limit /\ Range(got') = Range(got) \cup Range(most)
        /\ got'[Len(got) + Limit] = most[Limit]
    <3>1. got \in Seq(Call) /\ most \in Seq(Call)
      BY <1>4, <2>2
    <3>2. /\ Len(got \o most) = Len(got) + Len(most)
          /\ Range(got \o most) = Range(got) \cup Range(most)
          /\ \A n \in 1..Len(most) : (got \o most)[Len(got) + n] = most[n]
      BY <3>1, Appended
    <3>3. Limit \in 1..Len(most)
      BY <2>1, <2>2
    <3>4. QED
      BY <1>4, <2>2, <2>3, <3>1, <3>2, <3>3
  <2>8. got' # << >> /\ cursor' = Place(got'[Len(got')])
    BY <1>4, <2>1, <2>2, <2>3, <2>6, <2>7
  <2>9. cursor' # NoCursor
    BY <1>3, <2>1, <2>3, ApiConstants
  <2>10. CursorIsLast'
    BY <2>8, <2>9 DEF CursorIsLast, Place
  <2>11. ASSUME NEW i \in steady PROVE i \in Range(got') \/ AfterCursor(Place(i), cursor')
    <3>1. CASE i \in Range(got)
      BY <2>7, <3>1
    <3>2. CASE i \in Range(page)
      <4>0. page \in Seq(Call)
        BY <1>3
      <4>1. PICK n \in 1..Len(page) : i = page[n]
        BY <3>2, <4>0, HasPlace
      <4>2. CASE n <= Limit
        <5>1. n \in DOMAIN most /\ most[n] = i
          BY <2>1, <2>2, <4>1, <4>2
        <5>2. QED
          BY <2>7, <5>1 DEF Range
      <4>3. CASE n = Limit + 1
        BY <1>3, <2>1, <2>3, <4>1, <4>3 DEF NewestFirst, AfterCursor
      <4>4. QED
        BY <2>1, <4>1, <4>2, <4>3
    <3>3. CASE i \notin Range(page) /\ i \notin Range(got)
      <4>1. i \in Listed /\ AfterCursor(Place(i), cursor)
        BY <1>4, <3>3
      <4>2. \A n \in 1..Len(page) : Below(Place(i), Place(page[n]))
        BY <1>3, <3>3, <4>1
      <4>3. Limit \in 1..Len(page)
        BY <2>1
      <4>4. QED
        BY <2>3, <4>2, <4>3 DEF AfterCursor
    <3>4. QED
      BY <3>1, <3>2, <3>3
  <2>12. Owed'
    BY <1>1, <1>4, <2>3, <2>11 DEF Owed, AfterCursor, Below, Place
  <2>13. QED
    BY <1>1, <1>2, <2>3, <2>6, <2>10, <2>12 DEF WalkInv, NewestFirst, Place, Below
<1>7. CASE ~(Len(page) > Limit)
  <2>1. got' = got \o page /\ cursor' = cursor /\ walk' = "done" /\ steady' = steady
    BY <1>1, <1>7
  <2>2. got' \in Seq(Call) /\ NewestFirst(got')
    BY <1>3, <1>4, <1>5, <2>1, Continues
  <2>3. Range(got') = Range(got) \cup Range(page)
    BY <1>3, <1>4, <2>1, Appended
  <2>4. \A i \in steady : i \in Range(got')
    <3> SUFFICES ASSUME NEW i \in steady, i \notin Range(got), i \notin Range(page) PROVE FALSE
      BY <2>3
    <3>1. Len(page) = Limit + 1
      BY <1>3, <1>4
    <3>2. QED
      BY <1>7, <3>1, ApiConstants
  <2>5. CursorIsLast'
    BY <2>1 DEF CursorIsLast
  <2>6. QED
    BY <1>2, <2>1, <2>2, <2>4, <2>5 DEF WalkInv, Owed, NewestFirst
<1>8. QED
  BY <1>6, <1>7

\* Each step of the walk, of a request or of a worker keeps the invariant.
LEMMA WalkSteps == WalkInv /\ [ApiNext]_apiVars => WalkInv'
<1> SUFFICES ASSUME WalkInv, [ApiNext]_apiVars PROVE WalkInv'
  OBVIOUS
<1>1. CASE Begin
  <2>1. ServiceInv'
    BY <1>1, ServiceSteps DEF Begin, WalkInv
  <2>2. steady' = Listed /\ Listed' = Listed /\ got' = << >> /\ cursor' = NoCursor /\ walk' = "on"
    BY <1>1 DEF Begin, WalkInv, Owed, Listed, serviceVars
  <2>3. QED
    BY <2>1, <2>2 DEF WalkInv, CursorIsLast, Owed, NewestFirst, AfterCursor
<1>2. CASE UNCHANGED apiVars
  <2>1. ServiceInv'
    BY <1>2, ServiceSteps DEF apiVars, WalkInv
  <2>2. QED
    BY <1>2, <2>1 DEF apiVars, serviceVars, walkVars, WalkInv, CursorIsLast, Owed, NewestFirst, Listed
<1>3. QED
  BY <1>1, <1>2, PageKeeps, ElsewhereKeeps DEF ApiNext

\* A client that walks the jobs gets every job that was there all along, each
\* once and newest first, for every page size, whatever is inserted, claimed and
\* released between the pages and whatever the times of the jobs.
THEOREM WalkReturnsAll == ApiSpec => []WalkIsExact
<1>1. WalkInv => WalkIsExact
  BY DEF WalkInv, Owed, WalkIsExact, Range
<1>2. QED
  BY <1>1, WalkStarts, WalkSteps, PTL DEF ApiSpec

=============================================================================
