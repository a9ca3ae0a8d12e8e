------------------------- MODULE ConduitMoveProofs --------------------------
(***************************************************************************)
(* What one step of Conduit can do to a row of the jobs table and to a     *)
(* copy that has not reached a worker, as tables of moves: the proofs that  *)
(* follow argue about the moves of a row or a copy and not about actions.  *)
(* The parts of ClaimInv about single rows and single copies are kept by   *)
(* every move, and so is what ties the attempts of copies to their rows.   *)
(***************************************************************************)
EXTENDS ConduitTypeProofs

(***************************************************************************)
(* Rows.                                                                   *)
(***************************************************************************)

\* The row is left alone, but for when it is due and how long its lease is.
RowSame(j) ==
    /\ rows'[j].state = rows[j].state /\ rows'[j].token = rows[j].token
    /\ rows'[j].attempt = rows[j].attempt
    /\ rows'[j].lease = "null" <=> rows[j].lease = "null"
    /\ rows'[j].lease = "past" => rows[j].lease = "past" \/ LeaseExpires(j)

\* It is inserted; marked DEAD by CancelJob; taken back by recovery, which gives
\* a job up whose retries are spent.
RowNew(j) ==
    /\ rows[j].state = "ABSENT" /\ rows'[j].state = "PENDING"
    /\ rows'[j].token = NoToken /\ rows'[j].lease = "null" /\ rows'[j].attempt = 0

RowCancelled(j) ==
    /\ cancel[j] = "checked" /\ cancel'[j] = "done"
    /\ rows'[j].state = "DEAD" /\ rows'[j].token = rows[j].token
    /\ rows'[j].attempt = rows[j].attempt

RowRecovered(j) ==
    /\ rows[j].state = "RUNNING" /\ rows[j].lease = "past"
    /\ rows'[j].token = NoToken /\ rows'[j].lease = "null"
    /\ rows'[j].attempt = rows[j].attempt
    /\ \/ rows'[j].state = "DEAD"
       \/ /\ rows'[j].state = "PENDING"
          /\ MaxRetries[j] > 0 => rows[j].attempt < MaxRetries[j]

\* It is claimed with token t; released by worker w; written by worker w.
RowClaimed(j, t) ==
    /\ Fresh(t) /\ rows[j].state = "PENDING" /\ rows'[j].state = "RUNNING"
    /\ rows'[j].token = t /\ rows'[j].lease = "future"
    /\ rows'[j].attempt = NextAttempt(rows[j].attempt)

RowReleased(j, w) ==
    /\ pc[w] = "release" /\ pc'[w] = "idle" /\ cur[w].id = j /\ OwnsClaim(rows[j], cur[w])
    /\ rows'[j].state = "PENDING" /\ rows'[j].token = NoToken /\ rows'[j].lease = "null"
    /\ rows'[j].attempt = rows[j].attempt

RowWritten(j, w) ==
    /\ pc[w] = "put" /\ cur[w].id = j
    /\ rows'[j].state = cur[w].state /\ rows'[j].attempt = cur[w].attempt
    /\ rows'[j].lease = cur[w].lease
    /\ rows'[j].token =
         IF cur[w].state \in {"COMPLETED", "DEAD", "PENDING"} THEN NoToken ELSE cur[w].token
    /\ \/ /\ cur[w].state = "RUNNING" /\ rows[j].state = "PENDING"
          /\ \A k \in Job : rows[k].token # cur[w].token
       \/ cur[w].state # "RUNNING" /\ rows[j].token = cur[w].token
    /\ pc'[w] \in {"get", "unlock", "exec"} /\ (pc'[w] = "exec" => cur[w].state = "RUNNING")

\* A statement that changes one row.
RowChanged(j) ==
    \/ RowNew(j) \/ RowCancelled(j)
    \/ \E t \in Token : RowClaimed(j, t)
    \/ \E w \in Worker : RowReleased(j, w) \/ RowWritten(j, w)

\* What a step does to the table, and to a row of it.
TableMove ==
    \/ \A j \in Job : RowSame(j)
    \/ \A j \in Job : rows'[j] = rows[j] \/ RowRecovered(j)
    \/ \E k \in Job : RowChanged(k) /\ \A j \in Job \ {k} : rows'[j] = rows[j]

RowMove(j) == RowSame(j) \/ RowRecovered(j) \/ RowChanged(j)

\* Every step changes the table in one of these ways.
LEMMA TableMoves == ASSUME TypeOK, ClaimInv, Next PROVE TableMove
<1> USE DEF workerVars, recVars
<1> TableType /\ WorkerType /\ ConduitAssumption
  BY ConduitAssumption DEF TypeOK
<1>1. CASE rows' = rows
  BY <1>1 DEF TableMove, RowSame
<1>2. ASSUME NEW k \in Job, RowChanged(k), \E r : rows' = [rows EXCEPT ![k] = r]
      PROVE  TableMove
  BY <1>2 DEF TableMove, TableType
<1>3. ASSUME NEW k \in Job, Enqueue(k) PROVE TableMove
  <2>1. PICK due \in BOOLEAN : rows' = [rows EXCEPT ![k] = CreateRow(due)]
    BY <1>3, Zenon DEF Enqueue
  <2>2. rows'[k] = CreateRow(due) /\ CreateRow(due).attempt = 0
    BY <2>1 DEF TableType, CreateRow
  <2>3. RowNew(k)
    BY <1>3, <2>2, NewRowFields DEF Enqueue, RowNew
  <2>4. QED
    BY <1>2, <2>1, <2>3, Zenon DEF RowChanged
<1>4. ASSUME NEW k \in Job, CancelWrite(k) PROVE TableMove
  <2>1. /\ rows' = [rows EXCEPT ![k] = CancelRow(rows[k])]
        /\ cancel[k] = "checked" /\ cancel'[k] = "done"
    BY <1>4 DEF CancelWrite, TableType
  <2>2. rows'[k] = CancelRow(rows[k]) /\ rows[k] \in Row
    BY <2>1 DEF TableType
  <2>3. RowCancelled(k)
    BY <2>1, <2>2, CancelFields DEF RowCancelled
  <2>4. QED
    BY <1>2, <2>1, <2>3, Zenon DEF RowChanged
<1>5. ASSUME NEW k \in Job, BecomeDue(k) \/ LeaseExpires(k) PROVE \A j \in Job : RowSame(j)
  <2>1. CASE BecomeDue(k)
    BY <2>1 DEF BecomeDue, TableType, Row, RowSame
  <2>2. CASE LeaseExpires(k)
    <3>1. rows' = [rows EXCEPT ![k].lease = "past"] /\ rows[k].lease = "future"
      BY <2>2 DEF LeaseExpires
    <3>2. QED
      BY <2>2, <3>1 DEF TableType, Row, RowSame
  <2>3. QED
    BY <1>5, <2>1, <2>2
<1>6. ASSUME NEW i \in Instance, Requeue(i) PROVE TableMove
  <2>1. \A j \in Job : \/ rows'[j] = rows[j]
                       \/ RequeueWhere(rows[j]) /\ rows'[j] = RequeueRow(rows[j], MaxRetries[j])
    BY <1>6 DEF Requeue, RequeueExpiredRunning
  <2>2. ASSUME NEW j \in Job, RequeueWhere(rows[j]), rows'[j] = RequeueRow(rows[j], MaxRetries[j])
        PROVE  RowRecovered(j)
    <3>1. MaxRetries[j] \in Nat /\ rows[j] \in Row
      BY DEF ConduitAssumption, TableType
    <3>2. /\ rows'[j].token = NoToken /\ rows'[j].lease = "null"
          /\ rows'[j].attempt = rows[j].attempt
          /\ \/ rows'[j].state = "DEAD"
             \/ /\ rows'[j].state = "PENDING"
                /\ MaxRetries[j] > 0 => rows[j].attempt < MaxRetries[j]
      BY <2>2, <3>1, RequeueFields
    <3>3. QED
      BY <2>2, <3>2 DEF RequeueWhere, RowRecovered
  <2>3. QED
    BY <2>1, <2>2 DEF TableMove
<1>7. ASSUME NEW i \in Instance, Claim(i) \/ ClaimNone(i) PROVE TableMove
  <2>1. ASSUME NEW k \in Job, NEW t \in Token, ClaimWhere(rows[k]), Fresh(t),
               rows' = [rows EXCEPT ![k] = ClaimRow(rows[k], t)]
        PROVE  TableMove
    <3>1. rows'[k] = ClaimRow(rows[k], t) /\ rows[k] \in Row /\ rows[k].state = "PENDING"
      BY <2>1 DEF TableType, ClaimWhere
    <3>2. RowClaimed(k, t)
      BY <2>1, <3>1, ClaimFields DEF RowClaimed
    <3>3. QED
      BY <1>2, <2>1, <3>2, Zenon DEF RowChanged
  <2>2. QED
    BY <1>1, <1>7, <2>1 DEF Claim, ClaimNone
<1>8. ASSUME NEW w \in Worker, ReleaseClaim(w) PROVE TableMove
  <2>1. cur[w].id \in Job /\ pc[w] = "release" /\ pc'[w] = "idle"
    BY <1>8, CopyIsJob DEF ReleaseClaim, Return, WorkerType
  <2>2. \/ rows' = rows
        \/ /\ OwnsClaim(rows[cur[w].id], cur[w])
           /\ rows' = [rows EXCEPT ![cur[w].id] = ReleaseRow(rows[cur[w].id])]
    BY <1>8 DEF ReleaseClaim
  <2>3. CASE /\ OwnsClaim(rows[cur[w].id], cur[w])
             /\ rows' = [rows EXCEPT ![cur[w].id] = ReleaseRow(rows[cur[w].id])]
    <3>1. rows'[cur[w].id] = ReleaseRow(rows[cur[w].id]) /\ rows[cur[w].id] \in Row
      BY <2>1, <2>3 DEF TableType
    <3>2. RowReleased(cur[w].id, w)
      BY <2>1, <2>3, <3>1, ReleaseFields DEF RowReleased
    <3>3. QED
      BY <1>2, <2>1, <2>3, <3>2, Zenon DEF RowChanged
  <2>4. QED
    BY <1>1, <2>2, <2>3
<1>9. ASSUME NEW w \in Worker, RenewLease(w) PROVE TableMove
  <2>1. cur[w].id \in Job
    BY <1>9, CopyIsJob DEF RenewLease, WorkerType
  <2>2. \/ rows' = rows
        \/ /\ rows[cur[w].id].state = "RUNNING"
           /\ rows' = [rows EXCEPT ![cur[w].id] = RenewRow(rows[cur[w].id])]
    BY <1>9 DEF RenewLease, OwnsClaim
  <2>3. ASSUME NEW j \in Job PROVE RowSame(j)
    <3>1. rows'[j] = rows[j] \/ (rows[j].state = "RUNNING" /\ rows'[j] = RenewRow(rows[j]))
      BY <2>1, <2>2 DEF TableType
    <3>2. rows[j].state = "RUNNING" => rows[j].lease # "null"
      BY DEF ClaimInv, ClaimMatchesState
    <3>3. rows[j] \in Row
      BY DEF TableType
    <3>4. QED
      BY <3>1, <3>2, <3>3, RenewFields DEF RowSame
  <2>4. QED
    BY <2>3 DEF TableMove
<1>10. ASSUME NEW w \in Worker, MarkRunning(w) \/ MarkFailed(w) \/ MarkEnded(w) \/ WriteFails(w)
       PROVE  TableMove
  <2>1. /\ pc[w] = "put" /\ (rows' = rows \/ Write(w))
        /\ pc'[w] \in {"get", "unlock", "exec"} /\ (pc'[w] = "exec" => cur[w].state = "RUNNING")
    BY <1>10 DEF MarkRunning, StartHandler, MarkFailed, MarkEnded, WriteFails, Goto, WorkerType
  <2>2. ASSUME Write(w) PROVE TableMove
    <3>1. /\ cur[w] \in Copy /\ cur[w].id \in Job
          /\ \A k \in Job : k # cur[w].id => rows'[k] = rows[k]
          /\ rows'[cur[w].id].state = cur[w].state
          /\ rows'[cur[w].id].lease = cur[w].lease
          /\ rows'[cur[w].id].token =
               IF cur[w].state \in {"COMPLETED", "DEAD", "PENDING"} THEN NoToken ELSE cur[w].token
          /\ \/ /\ cur[w].state = "RUNNING" /\ rows[cur[w].id].state = "PENDING"
                /\ \A k \in Job : rows[k].token # cur[w].token
             \/ cur[w].state # "RUNNING" /\ rows[cur[w].id].token = cur[w].token
      BY <2>1, <2>2, WriteEffect
    <3>2. rows'[cur[w].id].attempt = cur[w].attempt
      BY <2>2, <3>1 DEF Write, UpdateRow, TableType
    <3>3. RowWritten(cur[w].id, w)
      BY <2>1, <3>1, <3>2 DEF RowWritten
    <3>4. QED
      BY <3>1, <3>3 DEF TableMove, RowChanged
  <2>3. QED
    BY <1>1, <2>1, <2>2
<1>11. QED
  BY <1>1, <1>3, <1>4, <1>5, <1>6, <1>7, <1>8, <1>9, <1>10, RowsFrame DEF RowWriter, TableMove

\* Every step moves every row in one of these ways.
LEMMA RowMoves == ASSUME TypeOK, ClaimInv, Next, NEW j \in Job PROVE RowMove(j)
<1>1. rows'[j] = rows[j] => RowSame(j)
  BY DEF RowSame
<1>2. QED
  BY <1>1, TableMoves DEF TableMove, RowMove

\* A cancel that has taken effect stays so.
LEMMA CancelStays ==
    ASSUME TypeOK, Next, NEW j \in Job
    PROVE  cancel[j] = "done" => cancel'[j] = "done"
<1> USE DEF workerVars, recVars
<1> cancel \in [Job -> {"none", "checked", "done"}]
  BY DEF TypeOK, TableType
<1>1. ASSUME NEW k \in Job, CancelRead(k) \/ CancelWrite(k)
      PROVE  cancel[j] = "done" => cancel'[j] = "done"
  BY <1>1 DEF CancelRead, CancelWrite
<1>2. ASSUME NEW k \in Job, \/ Enqueue(k) \/ BecomeDue(k) \/ LeaseExpires(k) \/ LockExpires(k)
      PROVE  cancel' = cancel
  BY <1>2 DEF Enqueue, BecomeDue, LeaseExpires, LockExpires
<1>3. ASSUME NEW i \in Instance, NEW k \in Job, Deliver(i, k) PROVE cancel' = cancel
  BY <1>3 DEF Deliver
<1>4. ASSUME NEW i \in Instance, ReconcilerStep(i) \/ Crash(i) \/ Terminate(i) \/ Exit(i)
      PROVE  cancel' = cancel
  BY <1>4, Zenon DEF ReconcilerStep, Requeue, Claim, ClaimNone, Submit, SubmitRejected, Crash,
       Terminate, Exit, Restart
<1>5. ASSUME NEW w \in Worker, WorkerStep(w) \/ RenewLease(w) PROVE cancel' = cancel
  BY <1>5, Zenon DEF WorkerStep, Take, LeaveForReconciler, BreakerOpen, LockBusy, RunClaimed,
       ClaimDelivered, ReleaseClaim, CheckTransition, MarkRunning, MarkFailed, MarkEnded,
       WriteFails, HandlerSucceeds, HandlerFails, HandlerReturns, HandlerPanics, Unlock, RenewLease
<1>6. QED
  BY <1>1, <1>2, <1>3, <1>4, <1>5 DEF Next

-----------------------------------------------------------------------------
(***************************************************************************)
(* Copies that have not reached a worker.                                  *)
(***************************************************************************)

\* Where the copy in a reconciler's hand and those in a pool queue come from.
ReconcilerMove(i) ==
    \/ rcur'[i] = rcur[i] \/ rcur'[i] = NoJob
    \/ \E j \in Job, t \in Token :
         /\ RowClaimed(j, t) /\ (NullScan => HasKey[j]) /\ Claimed(rcur'[i])
         /\ rcur'[i].id = j /\ rcur'[i].token = t /\ rcur'[i].attempt = rows'[j].attempt

QueueMove(i) ==
    \A n \in DOMAIN queue'[i] :
      \/ \E m \in DOMAIN queue[i] : queue'[i][n] = queue[i][m]
      \/ rcur[i] # NoJob /\ queue'[i][n] = rcur[i]
      \/ \E j \in Job : inbox[j] > 0 /\ queue'[i][n] = CopyOf(j, CreateRow(TRUE))

\* Every step moves the copies that have not reached a worker in these ways.
LEMMA CopyMoves == ASSUME TypeOK, Next, NEW x \in Instance PROVE ReconcilerMove(x) /\ QueueMove(x)
<1> USE DEF workerVars, recVars
<1> TableType /\ ReconcilerType /\ QueueType /\ ConduitAssumption
  BY ConduitAssumption DEF TypeOK
<1>1. CASE rcur' = rcur /\ queue' = queue
  BY <1>1, Zenon DEF ReconcilerMove, QueueMove
<1>2. ASSUME NEW i \in Instance, NEW j \in Job, Deliver(i, j) PROVE ReconcilerMove(x) /\ QueueMove(x)
  <2> DEFINE c == CopyOf(j, CreateRow(TRUE))
  <2>1. /\ rcur' = rcur /\ inbox[j] > 0 /\ c \in Copy
        /\ queue'[x] = IF x = i THEN Append(queue[i], c) ELSE queue[x]
    BY <1>2, MessageType, Zenon DEF Deliver, QueueType
  <2>2. \A n \in DOMAIN Append(queue[i], c) :
          \/ n \in DOMAIN queue[i] /\ Append(queue[i], c)[n] = queue[i][n]
          \/ Append(queue[i], c)[n] = c
    BY <2>1, AppendEntries, Zenon DEF QueueType
  <2>3. c = CopyOf(j, CreateRow(TRUE))
    OBVIOUS
  <2> HIDE DEF c
  <2>4. QED
    BY <2>1, <2>2, <2>3, Zenon DEF ReconcilerMove, QueueMove
<1>3. ASSUME NEW i \in Instance, Claim(i) PROVE ReconcilerMove(x) /\ QueueMove(x)
  <2>1. PICK j \in Job, t \in Token :
          /\ ClaimWhere(rows[j]) /\ Fresh(t)
          /\ rows' = [rows EXCEPT ![j] = ClaimRow(rows[j], t)]
          /\ \/ rcur' = rcur
             \/ /\ ~ScanFails(j, ClaimRow(rows[j], t))
                /\ rcur' = [rcur EXCEPT ![i] = CopyOf(j, ClaimRow(rows[j], t))]
    BY <1>3, Zenon DEF Claim
  <2>2. rows'[j] = ClaimRow(rows[j], t) /\ rows[j] \in Row
    BY <2>1 DEF TableType
  <2>3. RowClaimed(j, t)
    <3>1. /\ ClaimRow(rows[j], t).state = "RUNNING" /\ ClaimRow(rows[j], t).token = t
          /\ ClaimRow(rows[j], t).lease = "future"
          /\ ClaimRow(rows[j], t).attempt = NextAttempt(rows[j].attempt)
      BY <2>2, ClaimFields
    <3>2. rows[j].state = "PENDING"
      BY <2>1 DEF ClaimWhere
    <3>3. QED
      BY <2>1, <2>2, <3>1, <3>2 DEF RowClaimed
  <2>4. ~ScanFails(j, ClaimRow(rows[j], t)) => (NullScan => HasKey[j])
    BY DEF ScanFails
  <2>5. /\ CopyOf(j, ClaimRow(rows[j], t)).id = j
        /\ CopyOf(j, ClaimRow(rows[j], t)).token = rows'[j].token
        /\ CopyOf(j, ClaimRow(rows[j], t)).attempt = rows'[j].attempt
        /\ CopyOf(j, ClaimRow(rows[j], t)).state = rows'[j].state
        /\ CopyOf(j, ClaimRow(rows[j], t)).lease = rows'[j].lease
    BY <2>2 DEF CopyOf
  <2>6. ReconcilerMove(x)
    <3>1. rows'[j].token = t /\ rows'[j].state = "RUNNING" /\ rows'[j].lease = "future"
      BY <2>3 DEF RowClaimed
    <3>2. rcur'[x] = rcur[x] \/ (~ScanFails(j, ClaimRow(rows[j], t))
                                  /\ rcur'[x] = CopyOf(j, ClaimRow(rows[j], t)))
      BY <2>1 DEF ReconcilerType
    <3>3. QED
      BY <2>3, <2>4, <2>5, <3>1, <3>2 DEF ReconcilerMove, Claimed
  <2>7. queue' = queue
    BY <1>3 DEF Claim
  <2>8. QED
    BY <2>6, <2>7, Zenon DEF QueueMove
<1>4. ASSUME NEW i \in Instance, Submit(i) PROVE ReconcilerMove(x) /\ QueueMove(x)
  <2>1. /\ rcur' = [rcur EXCEPT ![i] = NoJob] /\ rcur[i] \in Copy /\ rcur[i] # NoJob
        /\ queue'[x] = IF x = i THEN Append(queue[i], rcur[i]) ELSE queue[x]
    BY <1>4 DEF Submit, QueueType, ReconcilerType
  <2>2. \A n \in DOMAIN Append(queue[i], rcur[i]) :
          \/ n \in DOMAIN queue[i] /\ Append(queue[i], rcur[i])[n] = queue[i][n]
          \/ Append(queue[i], rcur[i])[n] = rcur[i]
    BY <2>1, AppendEntries DEF QueueType
  <2>3. QED
    BY <2>1, <2>2, Zenon DEF ReconcilerMove, QueueMove, ReconcilerType
<1>5. ASSUME NEW i \in Instance, SubmitRejected(i) PROVE ReconcilerMove(x) /\ QueueMove(x)
  BY <1>5, Zenon DEF SubmitRejected, ReconcilerMove, QueueMove, ReconcilerType
<1>6. ASSUME NEW i \in Instance, Restart(i) PROVE ReconcilerMove(x) /\ QueueMove(x)
  BY <1>6, EmptyFacts, Zenon DEF Restart, ReconcilerMove, QueueMove, ReconcilerType, QueueType
<1>7. ASSUME NEW w \in Worker, Take(w) PROVE ReconcilerMove(x) /\ QueueMove(x)
  <2> DEFINE q == queue[Home[w]]
  <2>1. /\ Home[w] \in Instance /\ q \in Seq(Copy) /\ q # << >> /\ rcur' = rcur
        /\ queue'[x] = IF x = Home[w] THEN Tail(q) ELSE queue[x]
    BY <1>7 DEF Take, QueueType, ConduitAssumption
  <2>2. \A n \in DOMAIN Tail(q) : n + 1 \in DOMAIN q /\ Tail(q)[n] = q[n + 1]
    BY <2>1, TailFacts
  <2>3. QED
    BY <2>1, <2>2, Zenon DEF ReconcilerMove, QueueMove
<1>8. ASSUME NEW i \in Instance, Requeue(i) \/ ClaimNone(i)
      PROVE  rcur' = rcur /\ queue' = queue
  BY <1>8 DEF Requeue, ClaimNone
<1>9. QED
  BY <1>1, <1>2, <1>3, <1>4, <1>5, <1>6, <1>7, <1>8, CopyFrame DEF ReconcilerStep

-----------------------------------------------------------------------------
(***************************************************************************)
(* The parts of ClaimInv about single rows and single copies.              *)
(***************************************************************************)

RowInv == ClaimMatchesState /\ DeadIsUnowned

\* Every statement that writes the table leaves claims where they belong.
LEMMA RowStep == ASSUME TypeOK, ClaimInv, Next PROVE RowInv'
<1> NoToken \notin Token /\ ClaimMatchesState /\ DeadIsUnowned
  BY JobStoreAssumption DEF ClaimInv
<1> SUFFICES ASSUME NEW j \in Job
             PROVE  /\ rows'[j].state \in {"RUNNING", "FAILED"} =>
                         rows'[j].token # NoToken /\ rows'[j].lease # "null"
                    /\ rows'[j].state \in {"ABSENT", "PENDING", "COMPLETED"} =>
                         rows'[j].token = NoToken /\ rows'[j].lease = "null"
                    /\ rows'[j].state = "DEAD" /\ cancel'[j] # "done" => rows'[j].token = NoToken
  BY DEF RowInv, ClaimMatchesState, DeadIsUnowned
<1>1. RowMove(j) /\ (cancel[j] = "done" => cancel'[j] = "done")
  BY RowMoves, CancelStays
<1>2. CASE RowSame(j)
  BY <1>1, <1>2 DEF RowSame, ClaimMatchesState, DeadIsUnowned
<1>3. CASE RowNew(j) \/ RowCancelled(j) \/ RowRecovered(j)
  BY <1>3 DEF RowNew, RowCancelled, RowRecovered
<1>4. ASSUME NEW t \in Token, RowClaimed(j, t)
      PROVE  rows'[j].state = "RUNNING" /\ rows'[j].token \in Token /\ rows'[j].lease # "null"
  BY <1>4 DEF RowClaimed
<1>5. ASSUME NEW w \in Worker, RowReleased(j, w)
      PROVE  rows'[j].state = "PENDING" /\ rows'[j].token = NoToken /\ rows'[j].lease = "null"
  BY <1>5 DEF RowReleased
<1>6. ASSUME NEW w \in Worker, RowWritten(j, w)
      PROVE  /\ rows'[j].state \in {"RUNNING", "FAILED"} =>
                  rows'[j].token # NoToken /\ rows'[j].lease # "null"
             /\ rows'[j].state \in {"ABSENT", "PENDING", "COMPLETED"} =>
                  rows'[j].token = NoToken /\ rows'[j].lease = "null"
             /\ rows'[j].state = "DEAD" => rows'[j].token = NoToken
  <2>1. /\ cur[w].token \in Token
        /\ cur[w].lease # "null" <=> cur[w].state \in {"RUNNING", "FAILED"}
    BY <1>6 DEF RowWritten, ClaimInv, CopyShape
  <2>2. cur[w].state \in JobState
    BY <1>6 DEF RowWritten, TypeOK, WorkerType, Copy
  <2>3. QED
    BY <1>6, <2>1, <2>2 DEF RowWritten, JobState
<1>7. QED
  BY <1>1, <1>2, <1>3, <1>4, <1>5, <1>6 DEF RowMove, RowChanged

\* What the copy of a worker at l looks like.
ShapeAt(l, c) ==
    /\ l = "start" => Claimed(c) \/ Message(c)
    /\ l \in {"release", "exec"} => Claimed(c)
    /\ l \in {"get", "put", "unlock"} =>
         /\ c.token \in Token
         /\ c.lease # "null" <=> c.state \in {"RUNNING", "FAILED"}

\* Copies have the shape their place asks for.
LEMMA CopyShapeStep == ASSUME TypeOK, ClaimInv, Next PROVE CopyShape'
<1> WorkerType /\ CopyShape /\ ConduitAssumption
  BY ConduitAssumption DEF TypeOK, ClaimInv
<1>1. ASSUME NEW i \in Instance, rcur'[i] # NoJob PROVE Claimed(rcur'[i])
  BY <1>1, CopyMoves DEF ReconcilerMove, CopyShape
<1>2. ASSUME NEW i \in Instance, NEW n \in DOMAIN queue'[i]
      PROVE  Claimed(queue'[i][n]) \/ Message(queue'[i][n])
  <2>1. QueueMove(i)
    BY CopyMoves
  <2>2. \A j \in Job : Message(CopyOf(j, CreateRow(TRUE)))
    BY DEF Message, CopyOf, CreateRow
  <2>3. QED
    BY <1>2, <2>1, <2>2 DEF QueueMove, CopyShape
<1>3. ASSUME NEW w \in Worker PROVE ShapeAt(pc'[w], cur'[w])
  <2>1. WorkerMove(w) /\ ShapeAt(pc[w], cur[w])
    BY WorkerMoves DEF CopyShape, ShapeAt
  <2>2. CASE pc'[w] = pc[w] /\ cur'[w] = cur[w]
    BY <2>1, <2>2
  <2>3. CASE pc'[w] = "idle"
    BY <2>3 DEF ShapeAt
  <2>4. CASE pc'[w] = "start" /\ \E n \in DOMAIN queue[Home[w]] : cur'[w] = queue[Home[w]][n]
    BY <2>4 DEF ShapeAt, CopyShape, ConduitAssumption
  <2>5. CASE RunGoesOn(w)
    BY <2>1, <2>5 DEF RunGoesOn, ShapeAt, Claimed, Message
  <2>6. CASE RunChangesCopy(w)
    <3>1. pc'[w] = "get" /\ ChangedCopy(w)
      BY <2>6, CopyChanges
    <3>2. QED
      BY <2>1, <3>1 DEF ChangedCopy, ShapeAt, Claimed
  <2>7. QED
    BY <2>1, <2>2, <2>3, <2>4, <2>5, <2>6 DEF WorkerMove
<1>4. QED
  BY <1>1, <1>2, <1>3 DEF CopyShape, ShapeAt

-----------------------------------------------------------------------------
(***************************************************************************)
(* Attempts.  Without Kafka every copy is a claim of the reconciler, which *)
(* has the attempt of its row.                                             *)
(***************************************************************************)

\* Without Kafka every copy is a claim of the reconciler.
NoMessages ==
    /\ \A j \in Job : inbox[j] = 0
    /\ \A i \in Instance : \A n \in DOMAIN queue[i] : queue[i][n].token \in Token
    /\ \A w \in Worker : /\ pc[w] = "start" => cur[w].token \in Token
                         /\ pc[w] \in {"get", "put"} => cur[w].state # "RUNNING"

\* A copy of the claim a row is under has the row's attempt.
Agrees(c) == rows[c.id].token = c.token => rows[c.id].attempt = c.attempt

AttemptsAgree ==
    /\ \A w \in Worker : cur[w] # NoJob => Agrees(cur[w])
    /\ \A i \in Instance : /\ rcur[i] # NoJob => Agrees(rcur[i])
                           /\ \A n \in DOMAIN queue[i] : Agrees(queue[i][n])

\* Only a job with retries left is rescheduled.
RetriesLeft ==
    \A w \in Worker :
      /\ pc[w] \in {"get", "put"} /\ cur[w].state \in {"FAILED", "PENDING"}
      /\ MaxRetries[cur[w].id] > 0
      => cur[w].attempt < MaxRetries[cur[w].id]

\* The claims of job j that no handler has been called for yet.
Unrun(j) ==
    {t \in Token :
       \/ \E w \in Worker : pc[w] = "start" /\ cur[w].id = j /\ cur[w].token = t
       \/ \E i \in Instance :
            \/ rcur[i] # NoJob /\ rcur[i].id = j /\ rcur[i].token = t
            \/ \E n \in DOMAIN queue[i] : queue[i][n].id = j /\ queue[i][n].token = t}

\* Without Kafka a worker that starts a job starts a claimed one.
LEMMA StartsClaimed ==
    ASSUME ClaimInv, NoMessages, NEW w \in Worker, pc[w] = "start"
    PROVE  cur[w].state = "RUNNING"
  BY JobStoreAssumption DEF ClaimInv, CopyShape, NoMessages, Claimed, Message

\* Without Kafka there is nothing to deliver.
LEMMA InboxStays ==
    ASSUME TypeOK, Next, MaxDeliveries = 0, \A j \in Job : inbox[j] = 0
    PROVE  \A j \in Job : inbox'[j] = 0
<1> USE DEF workerVars, recVars
<1>1. ASSUME NEW j \in Job, Enqueue(j) PROVE \A k \in Job : inbox'[k] = 0
  BY <1>1 DEF Enqueue, TypeOK, TableType
<1>2. ASSUME NEW i \in Instance, NEW j \in Job, Deliver(i, j) PROVE FALSE
  BY <1>2 DEF Deliver
<1>3. ASSUME NEW j \in Job, \/ CancelRead(j) \/ CancelWrite(j)
                            \/ BecomeDue(j) \/ LeaseExpires(j) \/ LockExpires(j)
      PROVE  inbox' = inbox
  BY <1>3 DEF CancelRead, CancelWrite, BecomeDue, LeaseExpires, LockExpires
<1>4. ASSUME NEW i \in Instance, ReconcilerStep(i) \/ Crash(i) \/ Terminate(i) \/ Exit(i)
      PROVE  inbox' = inbox
  BY <1>4 DEF ReconcilerStep, Requeue, Claim, ClaimNone, Submit, SubmitRejected, Crash, Exit,
       Restart, Terminate
<1>5. ASSUME NEW w \in Worker, WorkerStep(w) \/ RenewLease(w) PROVE inbox' = inbox
  BY <1>5, Zenon DEF WorkerStep, Take, LeaveForReconciler, BreakerOpen, LockBusy, RunClaimed,
       ClaimDelivered, ReleaseClaim, CheckTransition, MarkRunning, MarkFailed, MarkEnded,
       WriteFails, HandlerSucceeds, HandlerFails, HandlerReturns, HandlerPanics, Unlock, RenewLease
<1>6. QED
  BY <1>1, <1>2, <1>3, <1>4, <1>5 DEF Next

\* A worker's copy after a step is its old one, perhaps with another state, or
\* an entry of its queue, as long as there are no messages.
LEMMA CopyGoesOn ==
    ASSUME TypeOK, ClaimInv, NoMessages, Next, NEW w \in Worker, cur'[w] # NoJob
    PROVE  \/ /\ cur[w] # NoJob /\ cur'[w].id = cur[w].id
              /\ cur'[w].token = cur[w].token /\ cur'[w].attempt = cur[w].attempt
           \/ \E n \in DOMAIN queue[Home[w]] : cur'[w] = queue[Home[w]][n]
<1> WorkerType
  BY DEF TypeOK
<1>1. WorkerMove(w)
  BY WorkerMoves
<1>2. CASE RunChangesCopy(w)
  <2>1. cur[w] \in Copy /\ cur[w] # NoJob
    BY <1>2, CopyIsJob, Zenon DEF RunChangesCopy, WorkerType
  <2>2. \/ cur'[w] = Rescheduled(cur[w])
        \/ \E s \in JobState : cur'[w] = WithResult(cur[w], s)
    BY <1>2, StartsClaimed, Zenon DEF RunChangesCopy, JobState
  <2>3. cur'[w].id = cur[w].id /\ cur'[w].token = cur[w].token /\ cur'[w].attempt = cur[w].attempt
    BY <2>1, <2>2, Zenon DEF Copy, Rescheduled, WithResult
  <2>4. QED
    BY <2>1, <2>3
<1>3. CASE cur'[w] = cur[w]
  BY <1>3
<1>4. RunGoesOn(w) => cur'[w] = cur[w]
  BY DEF RunGoesOn
<1>5. QED
  BY <1>1, <1>2, <1>3, <1>4, Zenon DEF WorkerMove

\* Without Kafka an entry of a queue after a step was there before it, or in the
\* hands of the reconciler.
LEMMA EntryGoesOn ==
    ASSUME TypeOK, NoMessages, Next, NEW i \in Instance, NEW n \in DOMAIN queue'[i]
    PROVE  \/ \E m \in DOMAIN queue[i] : queue'[i][n] = queue[i][m]
           \/ rcur[i] # NoJob /\ queue'[i][n] = rcur[i]
<1>1. QueueMove(i)
  BY CopyMoves
<1>2. \A j \in Job : ~(inbox[j] > 0)
  BY DEF NoMessages
<1>3. QED
  BY <1>1, <1>2, Zenon DEF QueueMove

\* No step brings a message.
LEMMA NoMessagesStep ==
    TypeOK /\ ClaimInv /\ NoMessages /\ Next /\ MaxDeliveries = 0 => NoMessages'
<1> SUFFICES ASSUME TypeOK, ClaimInv, NoMessages, Next, MaxDeliveries = 0 PROVE NoMessages'
  OBVIOUS
<1> WorkerType /\ ConduitAssumption
  BY ConduitAssumption DEF TypeOK
<1>1. \A j \in Job : inbox'[j] = 0
  BY InboxStays DEF NoMessages
<1>2. ASSUME NEW i \in Instance, NEW n \in DOMAIN queue'[i] PROVE queue'[i][n].token \in Token
  <2>2. \/ \E m \in DOMAIN queue[i] : queue'[i][n] = queue[i][m]
        \/ rcur[i] # NoJob /\ queue'[i][n] = rcur[i]
    BY <1>2, EntryGoesOn
  <2>3. rcur[i] # NoJob => rcur[i].token \in Token
    BY DEF ClaimInv, CopyShape, Claimed
  <2>4. CASE \E m \in DOMAIN queue[i] : queue'[i][n] = queue[i][m]
    <3>1. PICK m \in DOMAIN queue[i] : queue'[i][n] = queue[i][m]
      BY <2>4
    <3>2. queue[i][m].token \in Token
      BY DEF NoMessages
    <3>3. QED
      BY <3>1, <3>2
  <2>5. QED
    BY <2>2, <2>3, <2>4
<1>3. ASSUME NEW w \in Worker
      PROVE  /\ pc'[w] = "start" => cur'[w].token \in Token
             /\ pc'[w] \in {"get", "put"} => cur'[w].state # "RUNNING"
  <2>1. WorkerMove(w) /\ Home[w] \in Instance
    BY WorkerMoves DEF ConduitAssumption
  <2>2. CASE RunChangesCopy(w)
    <3>1. cur[w] \in Copy
      BY <2>2, Zenon DEF RunChangesCopy, WorkerType
    <3>2. \/ cur'[w] = Rescheduled(cur[w])
          \/ \E s \in {"COMPLETED", "FAILED", "DEAD"} : cur'[w] = WithResult(cur[w], s)
      BY <2>2, StartsClaimed, Zenon DEF RunChangesCopy
    <3>3. cur'[w].state # "RUNNING"
      BY <3>1, <3>2 DEF Copy, Rescheduled, WithResult
    <3>4. QED
      BY <2>2, <3>3, Zenon DEF RunChangesCopy
  <2>3. CASE RunGoesOn(w)
    BY <2>3 DEF RunGoesOn, NoMessages
  <2>4. QED
    BY <2>1, <2>2, <2>3 DEF WorkerMove, NoMessages
<1>4. QED
  BY <1>1, <1>2, <1>3 DEF NoMessages

\* A copy that agrees with its row goes on doing so: whoever writes the row
\* agrees with it too.
LEMMA RowAgrees ==
    ASSUME TypeOK, ClaimInv, NoMessages, AttemptsAgree, Next, NEW j \in Job,
           rows'[j].token \in Token, ~Fresh(rows'[j].token)
    PROVE  rows'[j].token = rows[j].token /\ rows'[j].attempt = rows[j].attempt
<1> NoToken \notin Token
  BY JobStoreAssumption
<1>1. RowMove(j) /\ ~RowNew(j) /\ ~RowRecovered(j)
  BY RowMoves DEF RowNew, RowRecovered
<1>2. /\ \A t \in Token : ~RowClaimed(j, t)
      /\ \A w \in Worker : ~RowReleased(j, w)
  BY DEF RowClaimed, RowReleased
<1>3. ASSUME NEW w \in Worker, RowWritten(j, w)
      PROVE  rows'[j].token = rows[j].token /\ rows'[j].attempt = rows[j].attempt
  <2>1. /\ pc[w] = "put" /\ cur[w].id = j /\ cur[w].state # "RUNNING"
        /\ rows[j].token = cur[w].token /\ rows'[j].attempt = cur[w].attempt
        /\ rows'[j].token = cur[w].token
    BY <1>3 DEF RowWritten, NoMessages
  <2>2. cur[w] # NoJob
    BY <2>1 DEF TypeOK, WorkerType
  <2>3. QED
    BY <2>1, <2>2 DEF AttemptsAgree, Agrees
<1>4. QED
  BY <1>1, <1>2, <1>3 DEF RowMove, RowChanged, RowSame, RowCancelled

\* A copy that was there before a step, of a claim, with its row's attempt.
KnownClaim(c) == c.id \in Job /\ c.token \in Token /\ ~Fresh(c.token) /\ Agrees(c)

\* Attempts agree after every step.
LEMMA AgreeStep ==
    TypeOK /\ ClaimInv /\ NoMessages /\ AttemptsAgree /\ Next /\ NoMessages' => AttemptsAgree'
<1> SUFFICES ASSUME TypeOK, ClaimInv, NoMessages, AttemptsAgree, Next, NoMessages' PROVE AttemptsAgree'
  OBVIOUS
<1> WorkerType /\ ReconcilerType /\ QueueType /\ ConduitAssumption
  BY ConduitAssumption DEF TypeOK
<1>1. ASSUME NEW c, KnownClaim(c), rows'[c.id].token = c.token PROVE rows'[c.id].attempt = c.attempt
  BY <1>1, RowAgrees DEF KnownClaim, Agrees
<1>2. \A w \in Worker : cur[w] # NoJob /\ cur[w].token \in Token => KnownClaim(cur[w])
  BY CopyIsJob DEF WorkerType, Fresh, AttemptsAgree, KnownClaim
<1>3. \A i \in Instance : rcur[i] # NoJob => KnownClaim(rcur[i])
  BY CopyIsJob DEF ReconcilerType, Fresh, AttemptsAgree, KnownClaim, ClaimInv, CopyShape, Claimed
<1>4. \A i \in Instance : \A n \in DOMAIN queue[i] : KnownClaim(queue[i][n])
  <2> SUFFICES ASSUME NEW i \in Instance, NEW n \in DOMAIN queue[i] PROVE KnownClaim(queue[i][n])
    OBVIOUS
  <2>1. queue[i][n] \in Copy
    BY DEF QueueType
  <2>2. QED
    BY <2>1, CopyIsJob DEF NoMessages, Fresh, AttemptsAgree, KnownClaim
<1>5. ASSUME NEW i \in Instance, rcur'[i] # NoJob PROVE Agrees(rcur[i])'
  <2>1. ReconcilerMove(i)
    BY CopyMoves
  <2>2. CASE rcur'[i] = rcur[i]
    BY <1>1, <1>3, <1>5, <2>2 DEF Agrees
  <2>3. QED
    BY <1>5, <2>1, <2>2 DEF ReconcilerMove, Agrees
<1>6. ASSUME NEW i \in Instance, NEW n \in DOMAIN queue'[i] PROVE Agrees(queue[i][n])'
  <2>2. \/ \E m \in DOMAIN queue[i] : queue'[i][n] = queue[i][m]
        \/ rcur[i] # NoJob /\ queue'[i][n] = rcur[i]
    BY <1>6, EntryGoesOn
  <2>3. KnownClaim(queue'[i][n])
    BY <1>3, <1>4, <2>2
  <2>4. QED
    BY <1>1, <2>3 DEF Agrees
<1>7. ASSUME NEW w \in Worker, cur'[w] # NoJob PROVE Agrees(cur[w])'
  <2>0. Home[w] \in Instance
    BY DEF ConduitAssumption
  <2>1. CASE /\ cur[w] # NoJob /\ cur'[w].id = cur[w].id
             /\ cur'[w].token = cur[w].token /\ cur'[w].attempt = cur[w].attempt
    <3>1. pc[w] \in {"start", "release", "get", "put", "exec", "unlock"}
      BY <2>1 DEF WorkerType, WorkerPC
    <3>2. cur[w].token \in Token
      BY <3>1 DEF ClaimInv, CopyShape, Claimed, NoMessages
    <3>3. KnownClaim(cur[w])
      BY <1>2, <2>1, <3>2
    <3>4. QED
      BY <1>1, <2>1, <3>3 DEF Agrees
  <2>2. CASE \E n \in DOMAIN queue[Home[w]] : cur'[w] = queue[Home[w]][n]
    <3>1. KnownClaim(cur'[w])
      BY <1>4, <2>0, <2>2
    <3>2. QED
      BY <1>1, <3>1 DEF Agrees
  <2>3. QED
    BY <1>7, <2>1, <2>2, CopyGoesOn
<1>8. QED
  BY <1>5, <1>6, <1>7 DEF AttemptsAgree

\* A retry is only scheduled while the job has one left.
LEMMA RetriesLeftStep ==
    TypeOK /\ ClaimInv /\ NoMessages /\ RetriesLeft /\ Next => RetriesLeft'
<1> SUFFICES ASSUME TypeOK, ClaimInv, NoMessages, RetriesLeft, Next, NEW w \in Worker,
                    pc'[w] \in {"get", "put"}, cur'[w].state \in {"FAILED", "PENDING"},
                    MaxRetries[cur'[w].id] > 0
             PROVE  cur'[w].attempt < MaxRetries[cur'[w].id]
  BY DEF RetriesLeft
<1> WorkerType
  BY DEF TypeOK
<1>1. WorkerMove(w)
  BY WorkerMoves
<1>2. CASE RunChangesCopy(w)
  <2>1. cur[w] \in Copy
    BY <1>2 DEF RunChangesCopy, WorkerType
  <2>2. CASE /\ pc[w] = "put" /\ cur[w].state = "FAILED"
             /\ cur'[w] = Rescheduled(cur[w])
    <3>1. cur'[w].id = cur[w].id /\ cur'[w].attempt = cur[w].attempt
      BY <2>1, <2>2 DEF Copy, Rescheduled
    <3>2. QED
      BY <2>2, <3>1 DEF RetriesLeft
  <2>3. CASE \E s \in {"COMPLETED", "FAILED", "DEAD"} :
               /\ s = "FAILED" => ShouldRetry(cur[w], FALSE)
               /\ cur'[w] = WithResult(cur[w], s)
    <3>1. PICK s \in {"COMPLETED", "FAILED", "DEAD"} :
               /\ s = "FAILED" => ShouldRetry(cur[w], FALSE)
               /\ cur'[w] = WithResult(cur[w], s)
      BY <2>3, Zenon
    <3>2. /\ cur'[w].id = cur[w].id /\ cur'[w].attempt = cur[w].attempt
          /\ cur'[w].state = s
      BY <2>1, <3>1 DEF Copy, WithResult
    <3>3. QED
      BY <3>1, <3>2 DEF ShouldRetry
  <2>4. QED
    BY <1>2, <2>2, <2>3, StartsClaimed DEF RunChangesCopy
<1>3. CASE RunGoesOn(w)
  BY <1>3 DEF RunGoesOn, RetriesLeft
<1>4. QED
  BY <1>1, <1>2, <1>3 DEF WorkerMove, RetriesLeft

\* Only a worker that begins with a claim counts a run.
LEMMA RunsMove ==
    ASSUME TypeOK, NoMessages, Next, NEW j \in Job, runs'[j] # runs[j]
    PROVE  \E w \in Worker : /\ RunClaimed(w) /\ cur[w].id = j
                             /\ runs'[j] = NextAttempt(runs[j])
<1> USE DEF workerVars, recVars
<1>1. ASSUME NEW k \in Job, \/ Enqueue(k) \/ CancelRead(k) \/ CancelWrite(k)
                            \/ BecomeDue(k) \/ LeaseExpires(k) \/ LockExpires(k)
      PROVE  runs' = runs
  BY <1>1 DEF Enqueue, CancelRead, CancelWrite, BecomeDue, LeaseExpires, LockExpires
<1>2. ASSUME NEW i \in Instance, NEW k \in Job, Deliver(i, k) PROVE runs' = runs
  BY <1>2 DEF Deliver
<1>3. ASSUME NEW i \in Instance, ReconcilerStep(i) \/ Crash(i) \/ Terminate(i) \/ Exit(i)
      PROVE  runs' = runs
  BY <1>3 DEF ReconcilerStep, Requeue, Claim, ClaimNone, Submit, SubmitRejected, Crash, Exit,
       Restart, Terminate
<1>4. ASSUME NEW w \in Worker, WorkerStep(w) \/ RenewLease(w), ~RunClaimed(w) PROVE runs' = runs
  <2>1. ~MarkRunning(w)
    BY DEF MarkRunning, NoMessages
  <2>2. QED
    BY <1>4, <2>1 DEF WorkerStep, Take, LeaveForReconciler, BreakerOpen, LockBusy, ClaimDelivered,
       ReleaseClaim, CheckTransition, MarkFailed, MarkEnded, WriteFails, HandlerSucceeds,
       HandlerFails, HandlerReturns, HandlerPanics, Unlock, RenewLease
<1>5. ASSUME NEW w \in Worker, RunClaimed(w)
      PROVE  cur[w].id = j /\ runs'[j] = NextAttempt(runs[j])
  BY <1>5 DEF RunClaimed, StartHandler, TypeOK, TableType
<1>6. QED
  BY <1>1, <1>2, <1>3, <1>4, <1>5, Zenon DEF Next

\* A claim that waits for a handler after a step did so before it, or is the one
\* the step has made.
LEMMA UnrunBefore ==
    ASSUME TypeOK, ClaimInv, NoMessages, Next, NEW j \in Job, NEW t \in Unrun(j)'
    PROVE  t \in Unrun(j) \/ RowClaimed(j, t)
<1> ConduitAssumption /\ t \in Token
  BY ConduitAssumption DEF Unrun
<1> DEFINE InQueue(i) == \E n \in DOMAIN queue[i] : queue[i][n].id = j /\ queue[i][n].token = t
<1>0. \A i \in Instance : InQueue(i) => t \in Unrun(j)
  BY DEF Unrun
<1>1. ASSUME NEW w \in Worker, pc'[w] = "start", cur'[w].id = j, cur'[w].token = t
      PROVE  t \in Unrun(j)
  <2>1. WorkerMove(w) /\ Home[w] \in Instance /\ ~RunGoesOn(w) /\ ~RunChangesCopy(w)
    BY <1>1, WorkerMoves, Zenon DEF ConduitAssumption, RunGoesOn, RunChangesCopy
  <2>2. CASE pc'[w] = pc[w] /\ cur'[w] = cur[w]
    BY <1>1, <2>2 DEF Unrun
  <2>3. CASE \E n \in DOMAIN queue[Home[w]] : cur'[w] = queue[Home[w]][n]
    BY <1>0, <1>1, <2>1, <2>3
  <2>4. QED
    BY <1>1, <2>1, <2>2, <2>3 DEF WorkerMove
<1>2. ASSUME NEW i \in Instance, rcur'[i] # NoJob, rcur'[i].id = j, rcur'[i].token = t
      PROVE  t \in Unrun(j) \/ RowClaimed(j, t)
  <2>1. ReconcilerMove(i)
    BY CopyMoves
  <2>2. CASE rcur'[i] = rcur[i]
    BY <1>2, <2>2 DEF Unrun
  <2>3. QED
    BY <1>2, <2>1, <2>2 DEF ReconcilerMove
<1>3. ASSUME NEW i \in Instance, NEW n \in DOMAIN queue'[i], queue'[i][n].id = j,
             queue'[i][n].token = t
      PROVE  t \in Unrun(j)
  <2>1. CASE \E m \in DOMAIN queue[i] : queue'[i][n] = queue[i][m]
    BY <1>0, <1>3, <2>1
  <2>2. CASE rcur[i] # NoJob /\ queue'[i][n] = rcur[i]
    BY <1>3, <2>2 DEF Unrun
  <2>3. QED
    BY <1>3, <2>1, <2>2, EntryGoesOn
<1>4. QED
  BY <1>1, <1>2, <1>3 DEF Unrun

\* A claim whose worker has gone on from the start waits no more.
LEMMA StartedIsOut ==
    ASSUME TypeOK, NoMessages, TypeOK', ClaimInv', NEW w \in Worker, pc[w] = "start",
           cur'[w] = cur[w], pc'[w] # "start"
    PROVE  cur[w].token \in Unrun(cur[w].id) \ Unrun(cur[w].id)'
<1> DEFINE t == cur[w].token
<1>1. t \in Token /\ cur[w] # NoJob /\ OneHolder'
  BY DEF NoMessages, TypeOK, WorkerType, ClaimInv
<1>2. t \in Unrun(cur[w].id)
  BY <1>1 DEF Unrun
<1>3. Uses(cur[w], t)'
  BY <1>1 DEF Uses
<1>4. \A v \in Worker : cur'[v].token = t => pc'[v] # "start"
  <2>1. \A v \in Worker : pc'[v] = "start" => cur'[v] # NoJob
    BY DEF TypeOK, WorkerType
  <2>2. \A v \in Worker : Uses(cur[v], t)' => v = w
    BY <1>1, <1>3 DEF OneHolder
  <2>3. QED
    BY <2>1, <2>2 DEF Uses
<1>5. \A i \in Instance : /\ rcur'[i] # NoJob => rcur'[i].token # t
                          /\ \A n \in DOMAIN queue'[i] : queue'[i][n].token # t
  BY <1>1, <1>3 DEF OneHolder, Uses
<1>6. t \notin Unrun(cur[w].id)'
  BY <1>4, <1>5 DEF Unrun
<1>7. QED
  BY <1>2, <1>6

\* The attempt a row has stays, unless it is claimed.
LEMMA AttemptStays ==
    ASSUME TypeOK, ClaimInv, NoMessages, AttemptsAgree, Next, NEW j \in Job, RowMove(j),
           \A t \in Token : ~RowClaimed(j, t), rows[j].state = "ABSENT" => rows[j].attempt = 0
    PROVE  rows'[j].attempt = rows[j].attempt
<1>1. ASSUME NEW w \in Worker, RowWritten(j, w) PROVE rows'[j].attempt = rows[j].attempt
  <2>1. /\ cur[w].id = j /\ rows'[j].attempt = cur[w].attempt /\ rows[j].token = cur[w].token
        /\ pc[w] = "put"
    BY <1>1 DEF RowWritten, NoMessages
  <2>2. cur[w] # NoJob
    BY <2>1 DEF TypeOK, WorkerType
  <2>3. QED
    BY <2>1, <2>2 DEF AttemptsAgree, Agrees
<1>2. \A w \in Worker : RowReleased(j, w) => rows'[j].attempt = rows[j].attempt
  BY DEF RowReleased
<1>3. RowSame(j) \/ RowNew(j) \/ RowCancelled(j) \/ RowRecovered(j)
      => rows'[j].attempt = rows[j].attempt
  BY DEF RowSame, RowNew, RowCancelled, RowRecovered
<1>4. QED
  BY <1>1, <1>2, <1>3 DEF RowMove, RowChanged

=============================================================================
