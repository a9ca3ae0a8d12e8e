----------------------------- MODULE ClockProofs ----------------------------
(***************************************************************************)
(* What goes by the clock, for every hour and day length, every set of     *)
(* entries, callers and instants and every configuration: the scheduler,   *)
(* whose Stop leaves nothing running and which runs an entry once for each *)
(* of its times; Next of a cron expression, which is the earliest match on *)
(* the calendar; and the waits of the retry engine, which grow.            *)
(***************************************************************************)
EXTENDS Timing, Scheduler, WellFoundedInduction, NaturalsInduction, TLAPS

(***************************************************************************)
(* The scheduler: types and loops.                                         *)
(***************************************************************************)

\* What New keeps of the configured entries, the times that are compared, and what a
\* caller of Start and Stop is doing.
ValidEntry == {e \in Entry : ValidCron(e.cron)}
Times == Instant \cup {ZeroTime}
CallState == {Idle, Waits} \cup {[pc |-> "start", loop |-> l] : l \in Loop}

\* A snapshot of the entries that a dispatch works on.
Snapshot(f) ==
    DOMAIN f \subseteq Name /\ \A n \in DOMAIN f : f[n].entry \in ValidEntry /\ f[n].lastRun \in Times

\* The types of the scheduler.  The cancel function is there exactly while it runs, and
\* the times the handlers were started are the last runs.
SchedTypeOK ==
    /\ now \in Instant
    /\ entries \in [Name -> ValidEntry \cup {NoEntry}]
    /\ lastRun \in [Name -> Times] /\ fired = lastRun
    /\ runs \in [Name -> Nat]
    /\ starts \in Nat /\ running \in BOOLEAN /\ cancelable = running /\ raced \in BOOLEAN
    /\ loop \in [Loop -> {"none", "select", "dispatch", "ended"}]
    /\ at \in [Loop -> Times]
    /\ DOMAIN candidates = Loop /\ \A l \in Loop : Snapshot(candidates[l])
    /\ call \in [Caller -> CallState]

\* The states of a caller are different.
LEMMA CallFacts ==
    /\ Idle.pc = "idle" /\ Waits.pc = "stop" /\ Idle # Waits
    /\ Idle \in CallState /\ Waits \in CallState
    /\ \A l \in Loop : [pc |-> "start", loop |-> l] \in CallState
    /\ \A x \in CallState : x = Idle \/ x = Waits \/ (x.pc = "start" /\ x.loop \in Loop)
<1>1. Idle.pc = "idle" /\ Waits.pc = "stop"
  BY DEF Idle, Waits
<1>2. \A l \in Loop : [pc |-> "start", loop |-> l] \in CallState
  BY DEF CallState
<1>3. \A x \in CallState : x = Idle \/ x = Waits \/ (x.pc = "start" /\ x.loop \in Loop)
  BY DEF CallState
<1>4. Idle \in CallState /\ Waits \in CallState
  BY DEF CallState
<1>5. QED
  BY <1>1, <1>2, <1>3, <1>4

\* An entry less in a snapshot leaves the others as they are.
LEMMA WithoutSnapshot ==
    ASSUME NEW f, NEW n, Snapshot(f)
    PROVE  /\ Snapshot(Without(f, n)) /\ DOMAIN Without(f, n) = DOMAIN f \ {n}
           /\ \A m \in DOMAIN Without(f, n) : Without(f, n)[m] = f[m]
  BY DEF Snapshot, Without

\* The types hold of a new scheduler.
LEMMA SchedTypeInit == SchedInit => SchedTypeOK
<1> SUFFICES ASSUME SchedInit PROVE SchedTypeOK
  OBVIOUS
<1>1. call \in [Caller -> CallState]
  BY CallFacts DEF SchedInit
<1>2. DOMAIN candidates = Loop /\ \A l \in Loop : Snapshot(candidates[l])
  <2>1. Snapshot(<< >>)
    BY DEF Snapshot
  <2>2. QED
    BY <2>1 DEF SchedInit
<1>3. QED
  BY <1>1, <1>2, Zenon DEF SchedInit, SchedTypeOK, Times

\* The steps by what they touch.
LEMMA SchedTypeStep ==
    ASSUME SchedTypeOK, [SchedNext]_schedVars
    PROVE  SchedTypeOK'
<1> USE DEF loopVars, callVars
<1>1. ASSUME NEW n \in Name, NEW e \in Entry, Register(n, e) PROVE SchedTypeOK'
  <2>1. entries' \in [Name -> ValidEntry \cup {NoEntry}]
    BY <1>1 DEF Register, SchedTypeOK, ValidEntry
  <2>2. QED
    BY <1>1, <2>1 DEF Register, SchedTypeOK
<1>2. ASSUME NEW c \in Caller, Start(c) PROVE SchedTypeOK'
  <2>1. starts + 1 \in Loop /\ starts' \in Nat
    BY <1>2, SchedulerAssumption DEF Start, SchedTypeOK, Loop
  <2>2. call' \in [Caller -> CallState]
    BY <1>2, <2>1, CallFacts DEF Start, SchedTypeOK
  <2>3. QED
    BY <1>2, <2>1, <2>2 DEF Start, SchedTypeOK
<1>3. ASSUME NEW c \in Caller, Spawn(c) PROVE SchedTypeOK'
  <2>1. call' \in [Caller -> CallState]
    BY <1>3, CallFacts DEF Spawn, SchedTypeOK
  <2>2. loop' \in [Loop -> {"none", "select", "dispatch", "ended"}]
    BY <1>3, Zenon DEF Spawn, SchedTypeOK
  <2>3. raced' \in BOOLEAN
    BY <1>3 DEF Spawn
  <2>4. QED
    BY <1>3, <2>1, <2>2, <2>3 DEF Spawn, SchedTypeOK
<1>4. ASSUME NEW c \in Caller, Stop(c) PROVE SchedTypeOK'
  <2>1. call' \in [Caller -> CallState]
    BY <1>4, CallFacts DEF Stop, SchedTypeOK
  <2>2. QED
    BY <1>4, <2>1, Zenon DEF Stop, SchedTypeOK
<1>5. ASSUME NEW c \in Caller, StopReturns(c) PROVE SchedTypeOK'
  <2>1. call' \in [Caller -> CallState]
    BY <1>5, CallFacts DEF StopReturns, SchedTypeOK
  <2>2. QED
    BY <1>5, <2>1 DEF StopReturns, SchedTypeOK
<1>6. ASSUME NEW l \in Loop, Tick(l) PROVE SchedTypeOK'
  <2> DEFINE taken == [n \in {m \in Name : entries[m] # NoEntry} |->
                         [entry |-> entries[n], lastRun |-> lastRun[n]]]
  <2>1. Snapshot(taken)
    BY DEF Snapshot, SchedTypeOK
  <2>2. candidates' = [candidates EXCEPT ![l] = taken]
    BY <1>6 DEF Tick
  <2> HIDE DEF taken
  <2>3. DOMAIN candidates' = Loop /\ \A k \in Loop : Snapshot(candidates'[k])
    BY <2>1, <2>2 DEF SchedTypeOK
  <2>4. at' \in [Loop -> Times] /\ loop' \in [Loop -> {"none", "select", "dispatch", "ended"}]
    BY <1>6 DEF Tick, SchedTypeOK, Times
  <2>5. QED
    BY <1>6, <2>3, <2>4 DEF Tick, SchedTypeOK, Snapshot
<1>7. ASSUME NEW l \in Loop, NEW n \in Name, Fire(l, n) PROVE SchedTypeOK'
  <2>1. DOMAIN candidates' = Loop /\ \A k \in Loop : Snapshot(candidates'[k])
    BY <1>7, WithoutSnapshot, Zenon DEF Fire, SchedTypeOK
  <2>2. /\ lastRun' \in [Name -> Times] /\ fired' = lastRun' /\ runs' \in [Name -> Nat]
    BY <1>7 DEF Fire, SchedTypeOK
  <2>3. QED
    BY <1>7, <2>1, <2>2 DEF Fire, SchedTypeOK, Snapshot
<1>8. ASSUME NEW l \in Loop, Dispatched(l) PROVE SchedTypeOK'
  <2>1. at' \in [Loop -> Times] /\ loop' \in [Loop -> {"none", "select", "dispatch", "ended"}]
    BY <1>8 DEF Dispatched, SchedTypeOK, Times
  <2>2. QED
    BY <1>8, <2>1 DEF Dispatched, SchedTypeOK, Snapshot
<1>9. ASSUME NEW l \in Loop, LoopEnds(l) PROVE SchedTypeOK'
  BY <1>9 DEF LoopEnds, SchedTypeOK, Snapshot
<1>10. ASSUME NEW n \in Name, RunEnds(n) PROVE SchedTypeOK'
  BY <1>10 DEF RunEnds, SchedTypeOK, Snapshot
<1>11. CASE Shutdown \/ TimePasses
  BY <1>11 DEF Shutdown, TimePasses, SchedTypeOK, Snapshot
<1>12. CASE UNCHANGED schedVars
  BY <1>12 DEF schedVars, SchedTypeOK, Snapshot
<1>13. QED
  BY <1>1, <1>2, <1>3, <1>4, <1>5, <1>6, <1>7, <1>8, <1>9, <1>10, <1>11, <1>12
     DEF SchedNext, LoopStep

\* Every loop but the last that was made is cancelled, and the last too unless the
\* scheduler runs; a Start that has not made its loop yet is alone with it.
StartsOK ==
    /\ \A l \in Loop : l < starts \/ (l = starts /\ ~running) => l \in cancelled
    /\ \A l \in Loop : loop[l] # "none" => l <= starts
    /\ \A c \in Caller : call[c].pc = "start" =>
         /\ call[c].loop <= starts /\ loop[call[c].loop] = "none"
         /\ \A d \in Caller : call[d].pc = "start" /\ call[d].loop = call[c].loop => d = c

\* No loop was made before the first Start.
LEMMA StartsInit == SchedInit => StartsOK
  BY CallFacts DEF SchedInit, StartsOK, Loop

\* Every step keeps loops and Starts in order: a Start makes the next loop, and Stop
\* cancels the last.
LEMMA StartsStep ==
    ASSUME SchedTypeOK, StartsOK, [SchedNext]_schedVars
    PROVE  StartsOK'
<1> USE DEF loopVars, callVars
<1>0. starts \in Nat /\ Loop \subseteq Nat
  BY DEF SchedTypeOK, Loop
<1>1. ASSUME NEW c \in Caller, Start(c) PROVE StartsOK'
  <2>1. /\ starts' = starts + 1 /\ running' = TRUE /\ ~running /\ loop' = loop
        /\ cancelled' = cancelled /\ starts + 1 \in Loop
    <3>1. MaxStarts \in Nat
      BY SchedulerAssumption
    <3>2. starts < MaxStarts
      BY <1>1 DEF Start
    <3>3. starts + 1 \in Loop
      BY <1>0, <3>1, <3>2 DEF Loop
    <3>4. QED
      BY <1>1, <3>3 DEF Start
  <2>2. \A d \in Caller : call'[d] = IF d = c THEN [pc |-> "start", loop |-> starts + 1] ELSE call[d]
    BY <1>1 DEF Start, SchedTypeOK
  <2>3. ASSUME NEW l \in Loop, l < starts' \/ (l = starts' /\ ~running')
        PROVE  l \in cancelled'
    <3>1. l < starts \/ l = starts
      BY <1>0, <2>1, <2>3
    <3>2. QED
      BY <2>1, <3>1 DEF StartsOK
  <2>4. \A l \in Loop : loop'[l] # "none" => l <= starts'
    BY <1>0, <2>1 DEF StartsOK
  <2>5. loop[starts + 1] = "none"
    BY <1>0, <2>1 DEF StartsOK
  <2>6. ASSUME NEW d \in Caller, d # c, call[d].pc = "start"
        PROVE  call[d].loop \in Nat /\ call[d].loop <= starts
    BY <1>0, <2>6, CallFacts, Zenon DEF StartsOK, SchedTypeOK
  <2>7. ASSUME NEW d \in Caller, call'[d].pc = "start"
        PROVE  /\ call'[d].loop <= starts' /\ loop'[call'[d].loop] = "none"
               /\ \A f \in Caller : call'[f].pc = "start" /\ call'[f].loop = call'[d].loop => f = d
    <3>1. CASE d = c
      <4>1. call'[d].loop = starts + 1
        BY <2>2, <3>1
      <4>2. \A f \in Caller : f # c /\ call'[f].pc = "start" => call'[f].loop # starts + 1
        BY <1>0, <2>2, <2>6
      <4>3. QED
        BY <1>0, <2>1, <2>5, <3>1, <4>1, <4>2
    <3>2. CASE d # c
      <4>1. call'[d] = call[d] /\ call[d].pc = "start" /\ call[d].loop \in Nat /\ call[d].loop <= starts
        BY <2>2, <2>6, <2>7, <3>2
      <4>2. \A f \in Caller : f # c => call'[f] = call[f]
        BY <2>2
      <4>3. call'[c].loop = starts + 1
        BY <2>2
      <4>4. \A f \in Caller : call'[f].pc = "start" /\ call'[f].loop = call'[d].loop => f = d
        BY <1>0, <4>1, <4>2, <4>3 DEF StartsOK
      <4>5. QED
        BY <1>0, <2>1, <4>1, <4>4 DEF StartsOK
    <3>3. QED
      BY <3>1, <3>2
  <2>8. QED
    BY <2>3, <2>4, <2>7 DEF StartsOK
<1>2. ASSUME NEW c \in Caller, Spawn(c) PROVE StartsOK'
  <2>1. PICK l \in Loop : l = call[c].loop
    BY <1>2, CallFacts DEF Spawn, SchedTypeOK
  <2>2. /\ starts' = starts /\ running' = running /\ cancelled' = cancelled
        /\ call[c].pc = "start" /\ l <= starts /\ loop[l] = "none"
    BY <1>2, <2>1 DEF Spawn, StartsOK
  <2>3. \A k \in Loop : loop'[k] = IF k = l THEN "select" ELSE loop[k]
    BY <1>2, <2>1 DEF Spawn, SchedTypeOK
  <2>4. \A d \in Caller : call'[d] = IF d = c THEN Idle ELSE call[d]
    BY <1>2 DEF Spawn, SchedTypeOK
  <2>5. \A d \in Caller : call'[d].pc = "start" => d # c /\ call'[d] = call[d] /\ call[d].loop \in Loop
    BY <2>4, CallFacts DEF SchedTypeOK
  <2>6. \A d \in Caller : call'[d].pc = "start" => call[d].loop # l
    BY <2>1, <2>2, <2>5 DEF StartsOK
  <2>7. \A k \in Loop : loop'[k] # "none" => k <= starts'
    BY <2>2, <2>3 DEF StartsOK
  <2>8. ASSUME NEW d \in Caller, call'[d].pc = "start"
        PROVE  /\ call'[d].loop <= starts' /\ loop'[call'[d].loop] = "none"
               /\ \A f \in Caller : call'[f].pc = "start" /\ call'[f].loop = call'[d].loop => f = d
    <3>1. call'[d] = call[d] /\ call[d].loop \in Loop /\ call[d].loop # l
      BY <2>5, <2>6, <2>8
    <3>2. loop'[call[d].loop] = loop[call[d].loop]
      BY <2>3, <3>1
    <3>3. QED
      BY <2>2, <2>5, <2>8, <3>1, <3>2 DEF StartsOK
  <2>9. QED
    BY <2>2, <2>7, <2>8 DEF StartsOK
<1>3. ASSUME NEW c \in Caller, Stop(c) PROVE StartsOK'
  <2>1. \A d \in Caller : call'[d] = IF d = c THEN Waits ELSE call[d]
    BY <1>3 DEF Stop, SchedTypeOK
  <2>2. \A d \in Caller : call'[d].pc = "start" => call'[d] = call[d]
    BY <2>1, CallFacts
  <2>3. starts' = starts /\ loop' = loop
    BY <1>3 DEF Stop
  <2>4. \A l \in Loop : l < starts \/ l = starts => l \in cancelled'
    BY <1>3 DEF Stop, StartsOK, SchedTypeOK
  <2>5. QED
    BY <2>2, <2>3, <2>4 DEF StartsOK
<1>4. ASSUME NEW c \in Caller, StopReturns(c) PROVE StartsOK'
  <2>1. \A d \in Caller : call'[d] = IF d = c THEN Idle ELSE call[d]
    BY <1>4 DEF StopReturns, SchedTypeOK
  <2>2. \A d \in Caller : call'[d].pc = "start" => call'[d] = call[d]
    BY <2>1, CallFacts
  <2>3. starts' = starts /\ loop' = loop /\ running' = running /\ cancelled' = cancelled
    BY <1>4 DEF StopReturns
  <2>4. QED
    BY <2>2, <2>3 DEF StartsOK
<1>5. ASSUME NEW l \in Loop, Tick(l) \/ Dispatched(l) \/ LoopEnds(l) PROVE StartsOK'
  <2>1. /\ starts' = starts /\ running' = running /\ cancelled' = cancelled /\ call' = call
        /\ loop[l] # "none" /\ \A k \in Loop : k # l => loop'[k] = loop[k]
    BY <1>5 DEF Tick, Dispatched, LoopEnds, SchedTypeOK
  <2>2. \A c \in Caller : call[c].pc = "start" => call[c].loop \in Loop
    BY CallFacts DEF SchedTypeOK
  <2>3. QED
    BY <2>1, <2>2 DEF StartsOK
<1>6. CASE \/ \E n \in Name, e \in Entry : Register(n, e)
           \/ \E l \in Loop, n \in Name : Fire(l, n)
           \/ \E n \in Name : RunEnds(n)
           \/ Shutdown \/ TimePasses \/ UNCHANGED schedVars
  <2>1. UNCHANGED <<starts, running, cancelled, call, loop>>
    BY <1>6 DEF Register, Fire, RunEnds, Shutdown, TimePasses, schedVars
  <2>2. QED
    BY <2>1 DEF StartsOK
<1>7. QED
  BY <1>1, <1>2, <1>3, <1>4, <1>5, <1>6 DEF SchedNext, LoopStep

(***************************************************************************)
(* The wait group, and what it means for Stop.                             *)
(*                                                                         *)
(* The argument: wg is the number of loops and handlers, so Stop returns   *)
(* when there are none.  Unless a Start overlapped a Stop, one loop is     *)
(* alive, a loop that is cancelled is awaited by a Stop, and the snapshot  *)
(* the loop works on has the last runs of the entries left in it.          *)
(***************************************************************************)

\* The handlers that run, numbered for each entry.
Working == {p \in Name \X Nat : p[2] < runs[p[1]]}

\* S has k members, which can be numbered.
Counts(k, S) ==
    /\ k \in Nat
    /\ \E f \in [1..k -> S] :
         /\ \A x \in S : \E h \in 1..k : f[h] = x
         /\ \A g, h \in 1..k : f[g] = f[h] => g = h

\* The empty set, and only it, has no member.
LEMMA CountsNone == Counts(0, {}) /\ \A S : Counts(0, S) => S = {}
<1>1. Counts(0, {})
  <2>1. [h \in 1..0 |-> h] \in [1..0 -> {}]
    OBVIOUS
  <2>2. QED
    BY <2>1, Zenon DEF Counts
<1>2. QED
  BY <1>1, Zenon DEF Counts

\* One more member.
LEMMA CountsAdd ==
    ASSUME NEW k, NEW S, NEW y, Counts(k, S), y \notin S
    PROVE  Counts(k + 1, S \cup {y})
<1>1. k \in Nat
  BY DEF Counts
<1>2. PICK f \in [1..k -> S] : /\ \A x \in S : \E h \in 1..k : f[h] = x
                              /\ \A g, h \in 1..k : f[g] = f[h] => g = h
  BY DEF Counts
<1> DEFINE F == [h \in 1..k + 1 |-> IF h = k + 1 THEN y ELSE f[h]]
<1>3. \A h \in 1..k + 1 : h = k + 1 \/ h \in 1..k
  BY <1>1
<1>4. F \in [1..k + 1 -> S \cup {y}]
  BY <1>3
<1>5. F[k + 1] = y /\ k + 1 \in 1..k + 1 /\ \A h \in 1..k : h \in 1..k + 1 /\ h # k + 1 /\ F[h] = f[h]
  BY <1>1
<1> HIDE DEF F
<1>6. \A x \in S \cup {y} : \E h \in 1..k + 1 : F[h] = x
  BY <1>2, <1>5
<1>7. \A g, h \in 1..k + 1 : F[g] = F[h] => g = h
  BY <1>2, <1>3, <1>5
<1>8. \E e \in [1..k + 1 -> S \cup {y}] :
        /\ \A x \in S \cup {y} : \E h \in 1..k + 1 : e[h] = x
        /\ \A g, h \in 1..k + 1 : e[g] = e[h] => g = h
  BY <1>4, <1>6, <1>7, Zenon
<1>9. k + 1 \in Nat
  BY <1>1
<1>10. QED
  BY <1>8, <1>9, Zenon DEF Counts

\* One member less: the last takes its number.
LEMMA CountsRemove ==
    ASSUME NEW k, NEW S, NEW y \in S, Counts(k, S)
    PROVE  k - 1 \in Nat /\ Counts(k - 1, S \ {y})
<1>1. k \in Nat
  BY DEF Counts
<1>2. PICK f \in [1..k -> S] : /\ \A x \in S : \E h \in 1..k : f[h] = x
                              /\ \A g, h \in 1..k : f[g] = f[h] => g = h
  BY DEF Counts
<1>3. PICK p \in 1..k : f[p] = y
  BY <1>2
<1>4. k - 1 \in Nat /\ k \in 1..k
  BY <1>1, <1>3
<1> DEFINE F == [h \in 1..k - 1 |-> IF h = p THEN f[k] ELSE f[h]]
<1>5. \A h \in 1..k - 1 : h \in 1..k /\ h # k /\ F[h] = IF h = p THEN f[k] ELSE f[h]
  BY <1>1
<1>6. \A h \in 1..k - 1 : F[h] \in S /\ F[h] # y
  BY <1>2, <1>3, <1>4, <1>5
<1>7. F \in [1..k - 1 -> S \ {y}]
  BY <1>6
<1>8. \A h \in 1..k : h = k \/ h \in 1..k - 1
  BY <1>1
<1> HIDE DEF F
<1>9. ASSUME NEW x \in S \ {y} PROVE \E h \in 1..k - 1 : F[h] = x
  <2>1. PICK h \in 1..k : f[h] = x
    BY <1>2
  <2>2. h # p
    BY <1>3, <2>1
  <2>3. CASE h = k
    BY <1>5, <1>8, <2>1, <2>2, <2>3
  <2>4. CASE h # k
    BY <1>5, <1>8, <2>1, <2>2, <2>4
  <2>5. QED
    BY <2>3, <2>4
<1>10. \A g, h \in 1..k - 1 : F[g] = F[h] => g = h
  BY <1>2, <1>4, <1>5
<1>11. \E e \in [1..k - 1 -> S \ {y}] :
         /\ \A x \in S \ {y} : \E h \in 1..k - 1 : e[h] = x
         /\ \A g, h \in 1..k - 1 : e[g] = e[h] => g = h
  BY <1>7, <1>9, <1>10, Zenon
<1>12. QED
  BY <1>4, <1>11, Zenon DEF Counts

\* The wait group counts the loops and the handlers.
CountOK == \E a, b \in Nat : Counts(a, Alive) /\ Counts(b, Working) /\ wg = a + b

\* At first there is nothing to wait for.
LEMMA CountInit == SchedInit => CountOK
<1> SUFFICES ASSUME SchedInit PROVE CountOK
  OBVIOUS
<1>1. Alive = {} /\ Working = {}
  BY DEF SchedInit, Alive, Working
<1>2. wg = 0
  BY DEF SchedInit
<1>3. QED
  BY <1>1, <1>2, CountsNone DEF CountOK

\* Every Add and every Done of the wait group goes with a loop or a handler.
LEMMA CountStep ==
    ASSUME SchedTypeOK, StartsOK, CountOK, [SchedNext]_schedVars
    PROVE  CountOK'
<1> USE DEF loopVars, callVars
<1>0. PICK a, b \in Nat : Counts(a, Alive) /\ Counts(b, Working) /\ wg = a + b
  BY DEF CountOK
<1>1. ASSUME NEW c \in Caller, Spawn(c) PROVE CountOK'
  <2>1. PICK l \in Loop : l = call[c].loop
    BY <1>1, CallFacts DEF Spawn, SchedTypeOK
  <2>2. loop[l] = "none" /\ wg' = wg + 1 /\ runs' = runs
    BY <1>1, <2>1 DEF Spawn, StartsOK
  <2>3. \A k \in Loop : loop'[k] = IF k = l THEN "select" ELSE loop[k]
    BY <1>1, <2>1 DEF Spawn, SchedTypeOK
  <2>4. Alive' = Alive \cup {l} /\ l \notin Alive
    BY <2>2, <2>3 DEF Alive
  <2>5. Counts(a + 1, Alive')
    BY <1>0, <2>4, CountsAdd
  <2>6. Working' = Working
    BY <2>2 DEF Working
  <2>7. QED
    BY <1>0, <2>2, <2>5, <2>6 DEF CountOK
<1>2. ASSUME NEW l \in Loop, LoopEnds(l) PROVE CountOK'
  <2>1. loop[l] = "select" /\ wg' = wg - 1 /\ runs' = runs
    BY <1>2 DEF LoopEnds
  <2>2. \A k \in Loop : loop'[k] = IF k = l THEN "ended" ELSE loop[k]
    BY <1>2 DEF LoopEnds, SchedTypeOK
  <2>3. Alive' = Alive \ {l} /\ l \in Alive
    BY <2>1, <2>2 DEF Alive
  <2>4. Counts(a - 1, Alive') /\ a - 1 \in Nat
    BY <1>0, <2>3, CountsRemove
  <2>5. Working' = Working
    BY <2>1 DEF Working
  <2>6. QED
    BY <1>0, <2>1, <2>4, <2>5 DEF CountOK
<1>3. ASSUME NEW l \in Loop, Tick(l) \/ Dispatched(l) PROVE CountOK'
  <2>1. /\ loop[l] \in {"select", "dispatch"} /\ loop'[l] \in {"select", "dispatch"}
        /\ \A k \in Loop : k # l => loop'[k] = loop[k]
    BY <1>3 DEF Tick, Dispatched, SchedTypeOK
  <2>2. Alive' = Alive
    BY <2>1 DEF Alive
  <2>3. Working' = Working /\ wg' = wg
    BY <1>3 DEF Tick, Dispatched, Working
  <2>4. QED
    BY <2>2, <2>3 DEF CountOK
<1>4. ASSUME NEW l \in Loop, NEW n \in Name, Fire(l, n) PROVE CountOK'
  <2>1. Alive' = Alive
    BY <1>4, Zenon DEF Fire, Alive
  <2>2. CASE runs' = runs /\ wg' = wg
    <3>1. Working' = Working
      BY <2>2 DEF Working
    <3>2. QED
      BY <2>1, <2>2, <3>1 DEF CountOK
  <2>3. CASE runs' = [runs EXCEPT ![n] = @ + 1] /\ wg' = wg + 1
    <3>1. \A m \in Name : runs[m] \in Nat /\ runs'[m] = IF m = n THEN runs[n] + 1 ELSE runs[m]
      BY <2>3 DEF SchedTypeOK
    <3>2. Working' = Working \cup {<<n, runs[n]>>} /\ <<n, runs[n]>> \notin Working
      BY <3>1 DEF Working
    <3>3. Counts(b + 1, Working')
      BY <1>0, <3>2, CountsAdd
    <3>4. QED
      BY <1>0, <2>1, <2>3, <3>3 DEF CountOK
  <2>4. QED
    BY <1>4, <2>2, <2>3 DEF Fire
<1>5. ASSUME NEW n \in Name, RunEnds(n) PROVE CountOK'
  <2>1. Alive' = Alive /\ wg' = wg - 1
    BY <1>5 DEF RunEnds, Alive
  <2>2. \A m \in Name : runs[m] \in Nat /\ runs'[m] = IF m = n THEN runs[n] - 1 ELSE runs[m]
    BY <1>5 DEF RunEnds, SchedTypeOK
  <2>3. runs[n] > 0 /\ runs[n] - 1 \in Nat
    BY <1>5, <2>2 DEF RunEnds
  <2>4. Working' = Working \ {<<n, runs[n] - 1>>} /\ <<n, runs[n] - 1>> \in Working
    BY <2>2, <2>3 DEF Working
  <2>5. Counts(b - 1, Working') /\ b - 1 \in Nat
    BY <1>0, <2>4, CountsRemove, Zenon
  <2>6. QED
    BY <1>0, <2>1, <2>5 DEF CountOK
<1>6. CASE \/ \E n \in Name, e \in Entry : Register(n, e)
           \/ \E c \in Caller : Start(c) \/ Stop(c) \/ StopReturns(c)
           \/ Shutdown \/ TimePasses \/ UNCHANGED schedVars
  <2>1. UNCHANGED <<loop, runs, wg>>
    BY <1>6 DEF Register, Start, Stop, StopReturns, Shutdown, TimePasses, schedVars
  <2>2. Alive' = Alive /\ Working' = Working
    BY <2>1 DEF Alive, Working
  <2>3. QED
    BY <2>1, <2>2 DEF CountOK
<1>7. QED
  BY <1>1, <1>2, <1>3, <1>4, <1>5, <1>6 DEF SchedNext, LoopStep

\* Unless a Start overlapped a Stop, there is one loop, and a Stop still waits for
\* a loop that is cancelled and for the handlers left of a scheduler that is
\* stopped.
Awaited == \E d \in Caller : call[d] = Waits

QuietOK ==
    ~raced =>
      /\ \A k, l \in Alive : k = l
      /\ \A l \in Alive : l \in cancelled => Awaited
      /\ \A n \in Name : ~running /\ runs[n] > 0 => Awaited

\* At first nothing runs.
LEMMA QuietInit == SchedInit => QuietOK
  BY DEF SchedInit, QuietOK, Alive

\* Stop returns only when the count is zero, so nothing is left that it should wait
\* for; a Start that makes a second loop has overlapped a Stop.
LEMMA QuietStep ==
    ASSUME SchedTypeOK, StartsOK, CountOK, QuietOK, [SchedNext]_schedVars
    PROVE  QuietOK'
<1> USE DEF loopVars, callVars
<1>1. ASSUME NEW c \in Caller, Start(c) PROVE QuietOK'
  <2>1. Alive' = Alive /\ UNCHANGED <<raced, cancelled, runs>> /\ running'
    BY <1>1 DEF Start, Alive
  <2>2. Awaited => Awaited'
    BY <1>1, CallFacts DEF Start, Awaited, SchedTypeOK
  <2>3. QED
    BY <2>1, <2>2 DEF QuietOK
<1>2. ASSUME NEW c \in Caller, Spawn(c) PROVE QuietOK'
  <2> SUFFICES ASSUME ~raced'
               PROVE  /\ \A k, l \in Alive' : k = l
                      /\ \A l \in Alive' : l \in cancelled' => Awaited'
                      /\ \A n \in Name : ~running' /\ runs'[n] > 0 => Awaited'
    BY DEF QuietOK
  <2>1. /\ ~raced /\ Alive = {} /\ call[c].loop \notin cancelled /\ ~Awaited
        /\ UNCHANGED <<running, cancelled, runs>>
    BY <1>2, Zenon DEF Spawn, Awaited
  <2>2. Alive' \subseteq {call[c].loop}
    BY <1>2, <2>1 DEF Spawn, Alive, SchedTypeOK
  <2>3. QED
    BY <2>1, <2>2 DEF QuietOK
<1>3. ASSUME NEW c \in Caller, Stop(c) PROVE QuietOK'
  <2>1. Alive' = Alive /\ raced' = raced
    BY <1>3 DEF Stop, Alive
  <2>2. Awaited'
    BY <1>3 DEF Stop, Awaited, SchedTypeOK
  <2>3. QED
    BY <2>1, <2>2 DEF QuietOK
<1>4. ASSUME NEW c \in Caller, StopReturns(c) PROVE QuietOK'
  <2>1. UNCHANGED <<loop, runs>> /\ wg = 0
    BY <1>4 DEF StopReturns
  <2>2. PICK a, b \in Nat : Counts(a, Alive) /\ Counts(b, Working) /\ wg = a + b
    BY DEF CountOK
  <2>3. a = 0 /\ b = 0
    BY <2>1, <2>2
  <2>4. Alive = {} /\ Working = {}
    BY <2>2, <2>3, CountsNone
  <2>5. ASSUME NEW n \in Name PROVE runs[n] = 0
    <3>1. <<n, 0>> \notin Working /\ runs[n] \in Nat
      BY <2>4 DEF SchedTypeOK
    <3>2. QED
      BY <3>1 DEF Working
  <2>6. Alive' = {}
    BY <2>1, <2>4 DEF Alive
  <2>7. QED
    BY <2>1, <2>5, <2>6 DEF QuietOK
<1>5. ASSUME NEW l \in Loop, Tick(l) \/ Dispatched(l) \/ LoopEnds(l) PROVE QuietOK'
  <2>1. Alive' \subseteq Alive
    BY <1>5 DEF Tick, Dispatched, LoopEnds, Alive, SchedTypeOK
  <2>2. UNCHANGED <<raced, cancelled, runs, running, call>>
    BY <1>5 DEF Tick, Dispatched, LoopEnds
  <2>3. QED
    BY <2>1, <2>2 DEF QuietOK, Awaited
<1>6. ASSUME NEW l \in Loop, NEW n \in Name, Fire(l, n) PROVE QuietOK'
  <2>1. Alive' = Alive /\ l \in Alive /\ UNCHANGED <<raced, cancelled, running, call, starts>>
    BY <1>6 DEF Fire, Alive
  <2>2. ~running => l \in cancelled
    <3>1. l <= starts /\ l \in Nat /\ starts \in Nat
      BY <2>1 DEF Alive, StartsOK, SchedTypeOK, Loop
    <3>2. l < starts \/ l = starts
      BY <3>1
    <3>3. QED
      BY <3>2 DEF StartsOK
  <2>3. ~raced /\ ~running => Awaited
    BY <2>1, <2>2 DEF QuietOK
  <2>4. QED
    BY <2>1, <2>3 DEF QuietOK, Awaited
<1>7. ASSUME NEW n \in Name, RunEnds(n) PROVE QuietOK'
  <2>1. Alive' = Alive /\ UNCHANGED <<raced, cancelled, running, call>>
    BY <1>7 DEF RunEnds, Alive
  <2>2. \A m \in Name : runs'[m] > 0 => runs[m] > 0
    BY <1>7 DEF RunEnds, SchedTypeOK
  <2>3. QED
    BY <2>1, <2>2 DEF QuietOK, Awaited
<1>8. CASE \/ \E n \in Name, e \in Entry : Register(n, e)
           \/ Shutdown \/ TimePasses \/ UNCHANGED schedVars
  <2>1. UNCHANGED <<loop, raced, cancelled, runs, running, call>>
    BY <1>8 DEF Register, Shutdown, TimePasses, schedVars
  <2>2. QED
    BY <2>1 DEF QuietOK, Awaited, Alive
<1>9. QED
  BY <1>1, <1>2, <1>3, <1>4, <1>5, <1>6, <1>7, <1>8 DEF SchedNext, LoopStep

\* The snapshot of the one loop has the last runs there are, of the entries it has
\* not dealt with.
FreshOK ==
    ~raced =>
      \A l \in Loop : loop[l] = "dispatch" =>
        \A n \in DOMAIN candidates[l] : candidates[l][n].lastRun = lastRun[n]

\* At first there is no snapshot.
LEMMA FreshInit == SchedInit => FreshOK
  BY DEF SchedInit, FreshOK

\* Only the one loop there is writes last runs, each of an entry it drops from its
\* snapshot.
LEMMA FreshStep ==
    ASSUME SchedTypeOK, QuietOK, FreshOK, [SchedNext]_schedVars
    PROVE  FreshOK'
<1> USE DEF loopVars, callVars
<1>1. ASSUME NEW c \in Caller, Spawn(c) PROVE FreshOK'
  <2>1. /\ raced' = FALSE => raced = FALSE
        /\ \A k \in Loop : loop'[k] = "dispatch" => loop[k] = "dispatch"
        /\ UNCHANGED <<candidates, lastRun>>
    BY <1>1, Zenon DEF Spawn, SchedTypeOK
  <2>2. raced' \in BOOLEAN
    BY <1>1 DEF Spawn
  <2>3. QED
    BY <2>1, <2>2, Zenon DEF FreshOK, SchedTypeOK
<1>2. ASSUME NEW l \in Loop, Tick(l) PROVE FreshOK'
  <2>1. /\ \A k \in Loop : k # l => loop'[k] = loop[k] /\ candidates'[k] = candidates[k]
        /\ UNCHANGED <<raced, lastRun>>
    BY <1>2 DEF Tick, SchedTypeOK
  <2>2. candidates'[l] = [n \in {m \in Name : entries[m] # NoEntry} |->
                            [entry |-> entries[n], lastRun |-> lastRun[n]]]
    BY <1>2 DEF Tick, SchedTypeOK
  <2>3. \A n \in DOMAIN candidates'[l] : candidates'[l][n].lastRun = lastRun[n]
    <3>1. \A n \in DOMAIN candidates'[l] :
            candidates'[l][n] = [entry |-> entries[n], lastRun |-> lastRun[n]]
      BY <2>2
    <3>2. ASSUME NEW n \in DOMAIN candidates'[l] PROVE candidates'[l][n].lastRun = lastRun[n]
      <4>1. PICK x, y : x = entries[n] /\ y = lastRun[n]
        OBVIOUS
      <4>2. candidates'[l][n] = [entry |-> x, lastRun |-> y]
        BY <3>1, <4>1
      <4>3. QED
        BY <4>1, <4>2
    <3>3. QED
      BY <3>2
  <2>4. QED
    BY <2>1, <2>3 DEF FreshOK
<1>3. ASSUME NEW l \in Loop, NEW n \in Name, Fire(l, n) PROVE FreshOK'
  <2> SUFFICES ASSUME ~raced', NEW k \in Loop, loop'[k] = "dispatch", NEW m \in DOMAIN candidates'[k]
               PROVE  candidates'[k][m].lastRun = lastRun'[m]
    BY DEF FreshOK
  <2>1. ~raced /\ loop[k] = "dispatch" /\ loop[l] = "dispatch" /\ Snapshot(candidates[l])
    BY <1>3 DEF Fire, SchedTypeOK
  <2>2. k = l
    BY <2>1 DEF QuietOK, Alive
  <2>3. candidates'[k] = Without(candidates[l], n)
    <3>1. candidates' = [candidates EXCEPT ![l] = Without(candidates[l], n)]
      BY <1>3, Zenon DEF Fire
    <3>2. QED
      BY <2>2, <3>1, Zenon DEF SchedTypeOK
  <2>4. m # n /\ m \in DOMAIN candidates[l] /\ candidates'[k][m] = candidates[l][m] /\ m \in Name
    <3>1. /\ DOMAIN Without(candidates[l], n) = DOMAIN candidates[l] \ {n}
          /\ \A x \in DOMAIN Without(candidates[l], n) : Without(candidates[l], n)[x] = candidates[l][x]
      BY <2>1, WithoutSnapshot, Zenon
    <3>2. QED
      BY <2>1, <2>3, <3>1, Zenon DEF Snapshot
  <2>5. lastRun'[m] = lastRun[m]
    BY <1>3, <2>4 DEF Fire, SchedTypeOK
  <2>6. QED
    BY <2>1, <2>4, <2>5 DEF FreshOK
<1>4. ASSUME NEW l \in Loop, Dispatched(l) \/ LoopEnds(l) PROVE FreshOK'
  <2>1. /\ \A k \in Loop : loop'[k] = "dispatch" => loop[k] = "dispatch"
        /\ UNCHANGED <<raced, candidates, lastRun>>
    BY <1>4 DEF Dispatched, LoopEnds, SchedTypeOK
  <2>2. QED
    BY <2>1 DEF FreshOK
<1>5. CASE \/ \E n \in Name, e \in Entry : Register(n, e)
           \/ \E c \in Caller : Start(c) \/ Stop(c) \/ StopReturns(c)
           \/ \E n \in Name : RunEnds(n)
           \/ Shutdown \/ TimePasses \/ UNCHANGED schedVars
  <2>1. UNCHANGED <<loop, raced, candidates, lastRun>>
    BY <1>5 DEF Register, Start, Stop, StopReturns, RunEnds, Shutdown, TimePasses, schedVars
  <2>2. QED
    BY <2>1 DEF FreshOK
<1>6. QED
  BY <1>1, <1>2, <1>3, <1>4, <1>5 DEF SchedNext, LoopStep

\* The inductive invariant of the scheduler.
SchedInv == SchedTypeOK /\ StartsOK /\ CountOK /\ QuietOK /\ FreshOK

\* In every interleaving of Start, Stop, the loops and the handlers: the wait group is
\* the number of loops and handlers, and unless a Start overlapped a Stop there is one
\* loop at a time, working on last runs that are current.
THEOREM SchedulerInvariant == SchedSpec => []SchedInv
<1>1. SchedInit => SchedInv
  BY SchedTypeInit, StartsInit, CountInit, QuietInit, FreshInit DEF SchedInv
<1>2. SchedInv /\ [SchedNext]_schedVars => SchedInv'
  BY SchedTypeStep, StartsStep, CountStep, QuietStep, FreshStep DEF SchedInv
<1>3. QED
  BY <1>1, <1>2, PTL DEF SchedSpec

\* When every call of Start and Stop has returned and none overlapped another, a
\* scheduler that was stopped has no loop and no handler left: wg.Wait in Stop is enough.
THEOREM StopLeavesQuiet == SchedSpec => []StopIsQuiet
<1>1. SchedInv => StopIsQuiet
  <2> SUFFICES ASSUME SchedInv, ~running, ~raced, \A c \in Caller : call[c] = Idle
               PROVE  Alive = {} /\ \A n \in Name : runs[n] = 0
    BY DEF StopIsQuiet
  <2>1. ~Awaited
    BY CallFacts DEF Awaited
  <2>2. ASSUME NEW l \in Alive PROVE FALSE
    <3>1. l \in Loop /\ l <= starts /\ l \in Nat /\ starts \in Nat
      BY DEF Alive, SchedInv, StartsOK, SchedTypeOK, Loop
    <3>2. l < starts \/ l = starts
      BY <3>1
    <3>3. l \in cancelled
      BY <3>1, <3>2 DEF SchedInv, StartsOK
    <3>4. QED
      BY <2>1, <3>3 DEF SchedInv, QuietOK
  <2>3. ASSUME NEW n \in Name PROVE runs[n] = 0
    <3>1. runs[n] \in Nat /\ ~(runs[n] > 0)
      BY <2>1 DEF SchedInv, QuietOK, SchedTypeOK
    <3>2. QED
      BY <3>1
  <2>4. QED
    BY <2>2, <2>3
<1>2. QED
  BY <1>1, SchedulerInvariant, PTL

(***************************************************************************)
(* Recursive functions.                                                    *)
(*                                                                         *)
(* A function by recursion is there if each argument is a step from smaller*)
(* ones; no function is taken for granted.  Induction is by the least      *)
(* counterexample.                                                         *)
(***************************************************************************)

\* A set of numbers that is not empty has a least member.
LEMMA Least ==
    ASSUME NEW T \in SUBSET Nat, T # {}
    PROVE  \E n \in T : \A m \in T : n <= m
<1>1. IsWellFoundedOn(OpToRel(<, Nat), Nat)
  BY NatLessThanWellFounded, Zenon
<1>2. \E x \in T : \A y \in T : ~(<<y, x>> \in OpToRel(<, Nat))
  BY <1>1, WFMin, Zenon
<1>3. \A x, y \in Nat : x < y => <<x, y>> \in OpToRel(<, Nat)
  BY DEF OpToRel
<1>4. PICK x \in T : \A y \in T : ~(<<y, x>> \in OpToRel(<, Nat))
  BY <1>2, Zenon
<1>5. x \in Nat /\ \A y \in T : y \in Nat /\ ~(y < x)
  BY <1>3, <1>4, Zenon
<1>6. \A y \in T : x <= y
  BY <1>5
<1>7. QED
  BY <1>4, <1>6, Zenon

\* What a function on D is defined by: its value where it stops, and elsewhere a
\* combination of its values at two smaller arguments.
Descends(D, S, size, stop, base, a, b, join) ==
    /\ size \in [D -> Nat] /\ stop \in SUBSET D /\ base \in [D -> S]
    /\ a \in [D -> D] /\ b \in [D -> D] /\ join \in [D -> [S \X S -> S]]
    /\ \A d \in D : d \notin stop => size[a[d]] < size[d] /\ size[b[d]] < size[d]

\* What f then is.
Computes(f, D, S, stop, base, a, b, join) ==
    /\ f \in [D -> S]
    /\ \A d \in D : f[d] = IF d \in stop THEN base[d] ELSE join[d][f[a[d]], f[b[d]]]

\* There is such a function.
LEMMA Recursion ==
    ASSUME NEW D, NEW S, NEW size, NEW stop, NEW base, NEW a, NEW b, NEW join,
           Descends(D, S, size, stop, base, a, b, join)
    PROVE  \E f : Computes(f, D, S, stop, base, a, b, join)
<1> USE DEF Descends
<1> DEFINE Below(N) == {d \in D : size[d] < N}
           Value(f, d) == IF d \in stop THEN base[d] ELSE join[d][f[a[d]], f[b[d]]]
           Solves(f, N) == f \in [Below(N) -> S] /\ \A d \in Below(N) : f[d] = Value(f, d)
           Bad == {N \in Nat : ~\E f : Solves(f, N)}
<1>a. \A N \in Nat : \A d \in Below(N) : d \in D /\ size[d] \in Nat /\ size[d] < N
  OBVIOUS
<1>b. \A N \in Nat, d \in D : d \in Below(N) <=> size[d] < N
  OBVIOUS
<1>c. \A N \in Nat : \A d \in Below(N + 1) : d \notin stop => a[d] \in Below(N) /\ b[d] \in Below(N)
  <2> SUFFICES ASSUME NEW N \in Nat, NEW d \in Below(N + 1), d \notin stop
               PROVE  a[d] \in Below(N) /\ b[d] \in Below(N)
    OBVIOUS
  <2>1. d \in D /\ size[d] \in Nat /\ size[d] < N + 1 /\ a[d] \in D /\ b[d] \in D
    OBVIOUS
  <2>2. size[a[d]] \in Nat /\ size[b[d]] \in Nat /\ size[a[d]] < size[d] /\ size[b[d]] < size[d]
    BY <2>1
  <2>3. QED
    BY <2>1, <2>2
<1>d. \A M, N \in Nat : M <= N => Below(M) \subseteq Below(N)
  OBVIOUS
<1>e. Below(0) = {}
  <2>1. \A n \in Nat : ~(n < 0)
    OBVIOUS
  <2>2. QED
    BY <2>1
<1>v. ASSUME NEW N \in Nat, NEW f \in [Below(N) -> S], NEW d \in Below(N + 1)
      PROVE  Value(f, d) \in S
  <2>1. CASE d \in stop
    BY <1>a, <2>1
  <2>2. CASE d \notin stop
    <3>1. f[a[d]] \in S /\ f[b[d]] \in S /\ d \in D
      BY <1>a, <1>c, <1>v, <2>2
    <3>2. join[d] \in [S \X S -> S]
      BY <3>1, Zenon
    <3>3. QED
      BY <2>2, <3>1, <3>2, Zenon
  <2>3. QED
    BY <2>1, <2>2, Zenon
<1> HIDE DEF Below
<1>1. ASSUME Bad # {} PROVE FALSE
  <2>1. PICK N \in Bad : \A M \in Bad : N <= M
    BY <1>1, Least, Zenon
  <2>2. CASE N = 0
    <3> DEFINE f == [d \in Below(0) |-> base[d]]
    <3>2. Solves(f, 0)
      <4>1. f \in [Below(0) -> S]
        BY <1>e, Zenon
      <4> HIDE DEF f, Value
      <4>2. QED
        BY <1>e, <4>1
    <3> HIDE DEF Solves, f
    <3>3. QED
      BY <2>1, <2>2, <3>2
  <2>3. CASE N # 0
    <3>0. N \in Nat
      BY Zenon
    <3> HIDE DEF Bad
    <3>1. N - 1 \in Nat /\ N - 1 \notin Bad /\ (N - 1) + 1 = N /\ N - 1 <= N
      BY <2>1, <2>3, <3>0
    <3> USE DEF Bad
    <3>2. PICK f : Solves(f, N - 1)
      BY <3>1, Zenon
    <3> DEFINE g == [d \in Below(N) |-> Value(f, d)]
    <3>3. \A d \in Below(N) : Value(f, d) \in S
      BY <1>v, <3>1, <3>2, Zenon
    <3> HIDE DEF Value
    <3>4. g \in [Below(N) -> S] /\ \A d \in Below(N) : g[d] = Value(f, d)
      BY <3>3
    <3>5. \A d \in Below(N - 1) : g[d] = f[d]
      BY <1>d, <3>0, <3>1, <3>2, <3>4
    <3> HIDE DEF g
    <3> USE DEF Value
    <3>6. ASSUME NEW d \in Below(N) PROVE g[d] = Value(g, d)
      <4>1. CASE d \in stop
        BY <3>4, <4>1, Zenon
      <4>2. CASE d \notin stop
        <5>1. a[d] \in Below(N - 1) /\ b[d] \in Below(N - 1)
          BY <1>c, <3>1, <4>2, Zenon
        <5>2. g[a[d]] = f[a[d]] /\ g[b[d]] = f[b[d]]
          BY <3>5, <5>1, Zenon
        <5>3. QED
          BY <3>4, <4>2, <5>2, Zenon
      <4>3. QED
        BY <4>1, <4>2, Zenon
    <3> HIDE DEF Value
    <3>7. Solves(g, N)
      BY <3>4, <3>6
    <3>8. QED
      BY <2>1, <3>7
  <2>4. QED
    BY <2>2, <2>3, Zenon
<1>2. \A N \in Nat : \E f : Solves(f, N)
  BY <1>1, Zenon
<1>3. ASSUME NEW M \in Nat, NEW N \in Nat, M <= N, NEW f, Solves(f, M), NEW g, Solves(g, N),
             NEW d \in Below(M)
      PROVE  f[d] = g[d]
  <2> DEFINE Differ == {n \in Nat : \E e \in Below(M) : size[e] = n /\ f[e] # g[e]}
  <2>1. ASSUME Differ # {} PROVE FALSE
    <3>0. Differ \in SUBSET Nat
      OBVIOUS
    <3> HIDE DEF Differ
    <3>1. PICK n \in Differ : \A m \in Differ : n <= m
      BY <2>1, <3>0, Least, Zenon
    <3> USE DEF Differ
    <3>2. PICK e \in Below(M) : size[e] = n /\ f[e] # g[e] /\ n \in Nat
      BY <3>1
    <3>3. e \in Below(N) /\ e \in D
      BY <1>3, <1>a, <1>d, <3>2, Zenon
    <3>4. f[e] = Value(f, e) /\ g[e] = Value(g, e)
      BY <1>3, <3>2, <3>3, Zenon
    <3>5. e \notin stop
      BY <3>2, <3>4, Zenon
    <3>6. /\ a[e] \in D /\ b[e] \in D /\ size[a[e]] \in Nat /\ size[b[e]] \in Nat
          /\ size[a[e]] < n /\ size[b[e]] < n /\ n < M
      BY <1>a, <1>3, <3>2, <3>3, <3>5, Zenon
    <3>7. a[e] \in Below(M) /\ b[e] \in Below(M)
      <4>1. size[a[e]] < M /\ size[b[e]] < M
        BY <3>2, <3>6
      <4> HIDE DEF Differ
      <4>2. QED
        BY <1>b, <3>6, <4>1
    <3>8. size[a[e]] \notin Differ /\ size[b[e]] \notin Differ
      <4> HIDE DEF Differ
      <4>1. QED
        BY <3>1, <3>2, <3>6
    <3>9. f[a[e]] = g[a[e]] /\ f[b[e]] = g[b[e]]
      BY <3>6, <3>7, <3>8
    <3>10. QED
      BY <3>2, <3>4, <3>5, <3>9
  <2>2. size[d] \in Nat
    BY <1>a, <1>3, Zenon
  <2>3. QED
    BY <1>3, <2>1, <2>2, Zenon
<1> DEFINE upTo == [N \in Nat |-> CHOOSE f : Solves(f, N)]
           h == [d \in D |-> upTo[size[d] + 1][d]]
<1> HIDE DEF Value
<1>4. \A N \in Nat : Solves(upTo[N], N)
  BY <1>2, Zenon
<1> HIDE DEF upTo
<1>5. \A d \in D : size[d] + 1 \in Nat /\ d \in Below(size[d] + 1)
  <2> SUFFICES ASSUME NEW d \in D PROVE size[d] + 1 \in Nat /\ d \in Below(size[d] + 1)
    OBVIOUS
  <2>1. size[d] \in Nat
    OBVIOUS
  <2>2. size[d] + 1 \in Nat /\ size[d] < size[d] + 1
    BY <2>1
  <2>3. QED
    BY <1>b, <2>2
<1>6. h \in [D -> S]
  BY <1>4, <1>5
<1>7. ASSUME NEW d \in D PROVE h[d] = Value(h, d)
  <2> DEFINE u == upTo[size[d] + 1]
  <2>1. h[d] = u[d] /\ u[d] = Value(u, d)
    BY <1>4, <1>5
  <2>2. CASE d \in stop
    BY <2>1, <2>2 DEF Value
  <2>3. CASE d \notin stop
    <3>1. ASSUME NEW e \in D, size[e] < size[d] PROVE h[e] = u[e]
      <4>1. size[e] \in Nat /\ size[d] \in Nat
        BY <3>1
      <4>2. size[e] + 1 <= size[d] + 1
        BY <3>1, <4>1
      <4>3. Solves(upTo[size[e] + 1], size[e] + 1) /\ Solves(u, size[d] + 1)
        BY <1>4, <1>5, <3>1
      <4> HIDE DEF Solves, u
      <4>4. upTo[size[e] + 1][e] = u[e]
        BY <1>3, <1>5, <3>1, <4>2, <4>3
      <4>5. QED
        BY <3>1, <4>4
    <3>2. a[d] \in D /\ b[d] \in D /\ size[a[d]] < size[d] /\ size[b[d]] < size[d]
      BY <2>3
    <3>3. h[a[d]] = u[a[d]] /\ h[b[d]] = u[b[d]]
      <4> HIDE DEF h, u
      <4>1. QED
        BY <3>1, <3>2
    <3> HIDE DEF h, u
    <3>4. QED
      BY <2>1, <2>3, <3>3, Zenon DEF Value
  <2>4. QED
    BY <2>2, <2>3
<1> HIDE DEF h
<1>8. QED
  BY <1>6, <1>7, Zenon DEF Value, Computes

(***************************************************************************)
(* The calendar.                                                           *)
(*                                                                         *)
(* A day number has one year and day of the year, and one month and day of *)
(* the month; so has a minute with the hour and minute of its day.  What   *)
(* Skip passes lies in the same month, day or hour and does not match.     *)
(***************************************************************************)

\* The lengths of an hour and of a day.
LEMMA ClockConstants ==
    /\ MinutesPerHour \in Nat /\ MinutesPerHour > 0 /\ HoursPerDay \in Nat /\ HoursPerDay > 0
    /\ MinutesPerDay \in Nat /\ MinutesPerDay > 0
<1>1. MinutesPerHour \in Nat /\ MinutesPerHour # 0 /\ HoursPerDay \in Nat /\ HoursPerDay # 0
  BY ClockAssumption, Zenon
<1>2. \A a, b \in Nat : a > 0 /\ b > 0 => a * b \in Nat /\ a * b > 0
  OBVIOUS
<1>3. QED
  BY <1>1, <1>2 DEF MinutesPerDay

\* Quotient and remainder.
LEMMA DivMod ==
    ASSUME NEW t \in Nat, NEW d \in Nat, d > 0
    PROVE  /\ t \div d \in Nat /\ t % d \in Nat /\ t % d < d
           /\ t = d * (t \div d) + (t % d)
  OBVIOUS

\* They are unique.
LEMMA DivModIs ==
    ASSUME NEW d \in Nat, NEW b \in Nat, NEW r \in Nat, r < d, NEW t, t = d * b + r
    PROVE  t \div d = b /\ t % d = r
  OBVIOUS

\* The parts of a day number that Date finds: the cycle of 400 years q, the
\* century c, the four years k, the year a and the day of the year yday.
Parts(q, c, k, a, yday) ==
    /\ q \in Nat /\ c \in Nat /\ k \in Nat /\ a \in Nat /\ yday \in Nat
    /\ c <= 3 /\ k <= 24 /\ a <= 3 /\ yday <= 365
    /\ yday = 365 => a = 3 /\ (k = 24 => c = 3)

\* The day number and the year that these parts make up.
DayNumber(q, c, k, a, yday) == 146097 * q + (36524 * c + (1461 * k + (365 * a + yday)))
YearNumber(q, c, k, a) == 400 * q + 100 * c + 4 * k + a + 1

\* Day d of year y, from 0, is in month m.
InMonth(y, m, d) == MonthStart(y, m) <= d /\ d < MonthStart(y, m) + DaysIn(y, m)

\* Each level of the parts, found and found again.
LEMMA YearPart ==
    ASSUME NEW r \in Nat, r <= 1460
    PROVE  \E a, d \in Nat : r = 365 * a + d /\ a <= 3 /\ d <= 365 /\ (d = 365 => a = 3)
<1>1. CASE r = 1460
  <2>1. r = 365 * 3 + 365 /\ 3 \in Nat /\ 365 \in Nat /\ 3 <= 3 /\ 365 <= 365
    BY <1>1
  <2>2. QED
    BY <2>1
<1>2. CASE r < 1460
  <2>1. r \div 365 \in Nat /\ r % 365 \in Nat /\ r % 365 < 365 /\ r \div 365 <= 3
        /\ r = 365 * (r \div 365) + (r % 365)
    BY <1>2
  <2>2. QED
    BY <2>1
<1>3. QED
  BY <1>1, <1>2

\* The four years of a century.
LEMMA FourYearPart ==
    ASSUME NEW r \in Nat, r <= 36524
    PROVE  \E k, s \in Nat : r = 1461 * k + s /\ k <= 24 /\ s <= 1460
<1>1. r \div 1461 \in Nat /\ r % 1461 \in Nat /\ r % 1461 <= 1460 /\ r \div 1461 <= 24
      /\ r = 1461 * (r \div 1461) + (r % 1461)
  OBVIOUS
<1>2. QED
  BY <1>1

\* The century of a cycle of 400 years; the last has a day more.
LEMMA CenturyPart ==
    ASSUME NEW r \in Nat, r <= 146096
    PROVE  \E c, s \in Nat : r = 36524 * c + s /\ c <= 3 /\ s <= 36524 /\ (s = 36524 => c = 3)
<1>1. CASE r < 109572
  <2>1. r \div 36524 \in Nat /\ r % 36524 \in Nat /\ r % 36524 < 36524 /\ r \div 36524 <= 3
        /\ r = 36524 * (r \div 36524) + (r % 36524)
    BY <1>1
  <2>2. QED
    BY <2>1
<1>2. CASE r >= 109572
  <2>1. r - 109572 \in Nat /\ r - 109572 <= 36524 /\ r = 36524 * 3 + (r - 109572)
    BY <1>2
  <2>2. QED
    BY <2>1
<1>3. QED
  BY <1>1, <1>2

\* The cycle of 400 years.
LEMMA CyclePart ==
    ASSUME NEW n \in Nat
    PROVE  \E q, s \in Nat : n = 146097 * q + s /\ s <= 146096
<1>1. n \div 146097 \in Nat /\ n % 146097 \in Nat /\ n % 146097 <= 146096
      /\ n = 146097 * (n \div 146097) + (n % 146097)
  OBVIOUS
<1>2. QED
  BY <1>1

\* Every day number has such parts.
LEMMA HasParts ==
    ASSUME NEW n \in Nat
    PROVE  \E q, c, k, a, d : Parts(q, c, k, a, d) /\ n = DayNumber(q, c, k, a, d)
<1>1. PICK q \in Nat, r400 \in Nat : n = 146097 * q + r400 /\ r400 <= 146096
  BY CyclePart
<1>2. PICK c \in Nat, r100 \in Nat :
        r400 = 36524 * c + r100 /\ c <= 3 /\ r100 <= 36524 /\ (r100 = 36524 => c = 3)
  BY <1>1, CenturyPart
<1>3. PICK k \in Nat, r4 \in Nat : r100 = 1461 * k + r4 /\ k <= 24 /\ r4 <= 1460
  BY <1>2, FourYearPart
<1>4. PICK a \in Nat, d \in Nat : r4 = 365 * a + d /\ a <= 3 /\ d <= 365 /\ (d = 365 => a = 3)
  BY <1>3, YearPart
<1>5. d = 365 /\ k = 24 => c = 3
  BY <1>2, <1>3, <1>4
<1>6. Parts(q, c, k, a, d)
  BY <1>2, <1>3, <1>4, <1>5 DEF Parts
<1>7. n = DayNumber(q, c, k, a, d)
  BY <1>1, <1>2, <1>3, <1>4 DEF DayNumber
<1>8. QED
  BY <1>6, <1>7

\* A day of the year is in exactly one month.
LEMMA HasMonth ==
    ASSUME NEW y \in Nat, NEW d \in Nat, d <= 365, d = 365 => IsLeap(y)
    PROVE  \E m \in 1..12 : InMonth(y, m, d)
  BY DEF InMonth, MonthStart, DaysIn

\* It is in no other.
LEMMA OneMonth ==
    ASSUME NEW y \in Nat, NEW d \in Nat, NEW m \in 1..12, NEW k \in 1..12,
           InMonth(y, m, d), InMonth(y, k, d)
    PROVE  m = k
  BY DEF InMonth, MonthStart, DaysIn

\* The days of a month are days of its year.
LEMMA MonthInYear ==
    ASSUME NEW y \in Nat, NEW d \in Nat, NEW m \in 1..12, InMonth(y, m, d)
    PROVE  d <= 365 /\ (d = 365 => IsLeap(y))
  BY DEF InMonth, MonthStart, DaysIn

\* A year has a 366th day exactly if it is a leap year.
LEMMA LeapDay ==
    ASSUME NEW q \in Nat, NEW c \in Nat, NEW k \in Nat, NEW a \in Nat, c <= 3, k <= 24, a <= 3
    PROVE  IsLeap(YearNumber(q, c, k, a)) <=> a = 3 /\ (k = 24 => c = 3)
  BY DEF YearNumber, IsLeap

\* The parts are unique: the remainders of Date find them again.
LEMMA PartsAgain ==
    ASSUME NEW q, NEW c, NEW k, NEW a, NEW d, Parts(q, c, k, a, d),
           NEW n, n = DayNumber(q, c, k, a, d)
    PROVE  /\ n % 146097 = 36524 * c + (1461 * k + (365 * a + d)) /\ n \div 146097 = q
           /\ AtMost((36524 * c + (1461 * k + (365 * a + d))) \div 36524, 3) = c
           /\ (1461 * k + (365 * a + d)) % 1461 = 365 * a + d
           /\ (1461 * k + (365 * a + d)) \div 1461 = k
           /\ AtMost((365 * a + d) \div 365, 3) = a
<1>1. /\ q \in Nat /\ c \in Nat /\ k \in Nat /\ a \in Nat /\ d \in Nat
      /\ c <= 3 /\ k <= 24 /\ a <= 3 /\ d <= 365
      /\ d = 365 => a = 3 /\ (k = 24 => c = 3)
  BY DEF Parts
<1>2. 365 * a + d \in Nat /\ 365 * a + d < 1461
  BY <1>1
<1>3. 1461 * k + (365 * a + d) \in Nat /\ 1461 * k + (365 * a + d) <= 36524
      /\ (1461 * k + (365 * a + d) = 36524 => c = 3)
  BY <1>1
<1>4. (36524 * c + (1461 * k + (365 * a + d))) \in Nat /\ 36524 * c + (1461 * k + (365 * a + d)) < 146097
  BY <1>1, <1>3
<1>5. n % 146097 = 36524 * c + (1461 * k + (365 * a + d)) /\ n \div 146097 = q
  <2>1. ASSUME NEW x \in Nat, x < 146097, NEW z, z = 146097 * q + x
        PROVE  z % 146097 = x /\ z \div 146097 = q
    BY <1>1, <2>1, SMT
  <2>2. n = 146097 * q + (36524 * c + (1461 * k + (365 * a + d)))
    BY SMT DEF DayNumber
  <2>3. QED
    BY <1>4, <2>1, <2>2, SMT
<1>6. /\ (1461 * k + (365 * a + d)) % 1461 = 365 * a + d
      /\ (1461 * k + (365 * a + d)) \div 1461 = k
  <2>1. ASSUME NEW x \in Nat, x < 1461, NEW z, z = 1461 * k + x
        PROVE  z % 1461 = x /\ z \div 1461 = k
    BY <1>1, <2>1, SMT
  <2>2. QED
    BY <1>2, <2>1, SMT
<1>7. AtMost((365 * a + d) \div 365, 3) = a
  BY <1>1 DEF AtMost
<1>8. AtMost((36524 * c + (1461 * k + (365 * a + d))) \div 36524, 3) = c
  <2>1. ASSUME NEW x \in Nat, x <= 36524, x = 36524 => c = 3
        PROVE  AtMost((36524 * c + x) \div 36524, 3) = c
    BY <1>1, <2>1 DEF AtMost
  <2>2. QED
    BY <1>3, <2>1
<1>9. QED
  BY <1>5, <1>6, <1>7, <1>8

\* The year and the day of the year, from the parts.
LEMMA YearDayIs ==
    ASSUME NEW q, NEW c, NEW k, NEW a, NEW d, Parts(q, c, k, a, d),
           NEW n \in Nat, n = DayNumber(q, c, k, a, d)
    PROVE  YearDay(n) = [year |-> YearNumber(q, c, k, a), yday |-> d]
<1>1. q \in Nat /\ c \in Nat /\ k \in Nat /\ a \in Nat /\ d \in Nat
  BY DEF Parts
<1>2. PICK r \in Nat : r = 365 * a + d
  BY <1>1, SMT
<1>3. PICK s \in Nat : s = 1461 * k + r
  BY <1>1, <1>2, SMT
<1>4. PICK x \in Nat : x = 36524 * c + s
  BY <1>1, <1>3, SMT
<1>5. /\ n % 146097 = x /\ n \div 146097 = q /\ AtMost(x \div 36524, 3) = c
      /\ s % 1461 = r /\ s \div 1461 = k /\ AtMost(r \div 365, 3) = a
  BY <1>2, <1>3, <1>4, PartsAgain, SMT
<1>6. x - 36524 * c = s /\ r - 365 * a = d
  BY <1>1, <1>2, <1>3, <1>4, SMT
<1>7. YearDay(n) = [year |-> 400 * q + 100 * c + 4 * k + a + 1, yday |-> d]
  BY <1>5, <1>6, SMT DEF YearDay
<1>8. QED
  BY <1>7 DEF YearNumber

\* The date of a day number with these parts.
LEMMA DateIs ==
    ASSUME NEW q, NEW c, NEW k, NEW a, NEW d, Parts(q, c, k, a, d),
           NEW n \in Nat, n = DayNumber(q, c, k, a, d),
           NEW y, y = YearNumber(q, c, k, a), NEW m \in 1..12, InMonth(y, m, d)
    PROVE  Date(n) = [year |-> y, month |-> m, day |-> d - MonthStart(y, m) + 1]
<1>1. d \in Nat /\ y \in Nat
  BY DEF Parts, YearNumber
<1>2. m = MonthOf(y, d)
  <2>1. MonthOf(y, d) \in 1..12 /\ InMonth(y, MonthOf(y, d), d)
    BY DEF MonthOf, InMonth
  <2>2. QED
    BY <1>1, <2>1, OneMonth
<1>3. YearDay(n).year = y /\ YearDay(n).yday = d
  BY YearDayIs
<1>4. QED
  BY <1>2, <1>3 DEF Date

\* Every day has a date, and the days to the end of its month have the same
\* month.
LEMMA MonthEnds ==
    ASSUME NEW n \in Nat
    PROVE  LET left == DaysIn(Date(n).year, Date(n).month) - Date(n).day
           IN left \in Nat /\ \A j \in 0..left : Date(n + j).month = Date(n).month
<1>1. PICK q, c, k, a, d : Parts(q, c, k, a, d) /\ n = DayNumber(q, c, k, a, d)
  BY HasParts
<1>2. q \in Nat /\ c \in Nat /\ k \in Nat /\ a \in Nat /\ d \in Nat /\ c <= 3 /\ k <= 24 /\ a <= 3
      /\ d <= 365 /\ (d = 365 => a = 3 /\ (k = 24 => c = 3))
  BY <1>1 DEF Parts
<1> DEFINE y == YearNumber(q, c, k, a)
<1>3. y \in Nat
  BY <1>2 DEF YearNumber
<1>4. IsLeap(y) <=> a = 3 /\ (k = 24 => c = 3)
  BY <1>2, LeapDay
<1> HIDE DEF y
<1>5. PICK m \in 1..12 : InMonth(y, m, d)
  BY <1>2, <1>3, <1>4, HasMonth
<1>6. Date(n) = [year |-> y, month |-> m, day |-> d - MonthStart(y, m) + 1]
  BY <1>1, <1>5, DateIs DEF y
<1>7. Date(n).year = y /\ Date(n).month = m /\ Date(n).day = d - MonthStart(y, m) + 1
  BY <1>6
<1>8. MonthStart(y, m) \in Nat /\ DaysIn(y, m) \in Nat
  BY DEF MonthStart, DaysIn
<1> DEFINE left == DaysIn(y, m) - (d - MonthStart(y, m) + 1)
<1>9. left \in Nat
  BY <1>2, <1>5, <1>8 DEF InMonth
<1>10. ASSUME NEW j \in 0..left PROVE Date(n + j).month = m
  <2>1. j \in Nat /\ InMonth(y, m, d + j) /\ d + j \in Nat
    BY <1>2, <1>5, <1>8, <1>10 DEF InMonth
  <2>2. d + j <= 365 /\ (d + j = 365 => IsLeap(y))
    BY <1>3, <2>1, MonthInYear
  <2>3. Parts(q, c, k, a, d + j)
    BY <1>2, <1>4, <2>1, <2>2 DEF Parts
  <2>4. n + j \in Nat /\ n + j = DayNumber(q, c, k, a, d + j)
    BY <1>1, <1>2, <2>1 DEF DayNumber
  <2>5. Date(n + j) = [year |-> y, month |-> m, day |-> (d + j) - MonthStart(y, m) + 1]
    BY <2>1, <2>3, <2>4, DateIs DEF y
  <2>6. QED
    BY <2>5
<1>11. QED
  BY <1>7, <1>9, <1>10

\* Products of numbers.
LEMMA Products ==
    ASSUME NEW d \in Nat, NEW a \in Nat, NEW b \in Nat
    PROVE  /\ d * a \in Nat /\ (a <= b => d * a <= d * b)
           /\ d * (a + b) = d * a + d * b /\ d * (a + 1) = d * a + d
           /\ d * a + d * b \in Nat
  OBVIOUS

\* The days of a span of minutes.
LEMMA DaysBetween ==
    ASSUME NEW a \in Nat, NEW b \in Nat, NEW s \in Nat,
           MinutesPerDay * a <= s, s < MinutesPerDay * (b + 1)
    PROVE  DayIn(s) \in Nat /\ a <= DayIn(s) /\ DayIn(s) <= b
<1> DEFINE d == MinutesPerDay
           x == s \div d
           r == s % d
<1>1. d \in Nat /\ d > 0
  BY ClockConstants
<1> HIDE DEF d
<1>2. x \in Nat /\ r \in Nat /\ r < d /\ s = d * x + r
  BY <1>1, DivMod
<1> HIDE DEF x, r
<1>3. d * a <= s /\ s < d * (b + 1)
  BY DEF d
<1>4. x < a => d * (x + 1) <= d * a
  BY <1>1, <1>2, Products
<1>5. x > b => d * (b + 1) <= d * x
  BY <1>1, <1>2, Products
<1>6. d * (x + 1) = d * x + d /\ d * x \in Nat /\ d * a \in Nat /\ d * (b + 1) \in Nat
  BY <1>1, <1>2, Products
<1>7. ~(x < a)
  BY <1>1, <1>2, <1>3, <1>4, <1>6
<1>8. ~(x > b)
  BY <1>1, <1>2, <1>3, <1>5, <1>6
<1>9. DayIn(s) = x
  BY DEF DayIn, x, d
<1>10. QED
  BY <1>2, <1>7, <1>8, <1>9

\* The minutes of a day are those of its number.
LEMMA InDay ==
    ASSUME NEW s \in Nat
    PROVE  /\ DayIn(s) \in Nat
           /\ MinutesPerDay * DayIn(s) <= s /\ s < MinutesPerDay * (DayIn(s) + 1)
<1> DEFINE d == MinutesPerDay
<1>1. d \in Nat /\ d > 0
  BY ClockConstants
<1> HIDE DEF d
<1>2. s \div d \in Nat /\ s % d \in Nat /\ s % d < d /\ s = d * (s \div d) + (s % d)
  BY <1>1, DivMod
<1>3. d * ((s \div d) + 1) = d * (s \div d) + d /\ d * (s \div d) \in Nat
  BY <1>1, <1>2, Products
<1>4. d * (s \div d) <= s /\ s < d * ((s \div d) + 1)
  BY <1>1, <1>2, <1>3
<1>5. QED
  BY <1>2, <1>4 DEF DayIn, d

\* The day, the hour and the minute of a time, from its parts.
TimeParts(t, x, y, m) ==
    /\ x \in Nat /\ y \in Nat /\ m \in Nat /\ y < HoursPerDay /\ m < MinutesPerHour
    /\ t = MinutesPerHour * (HoursPerDay * x + y) + m

\* Every time has them.
LEMMA HasTimeParts ==
    ASSUME NEW t \in Nat
    PROVE  \E x, y, m : TimeParts(t, x, y, m)
<1> DEFINE h == MinutesPerHour
           k == HoursPerDay
<1>1. h \in Nat /\ h > 0 /\ k \in Nat /\ k > 0
  BY ClockConstants
<1> HIDE DEF h, k
<1>2. t \div h \in Nat /\ t % h \in Nat /\ t % h < h /\ t = h * (t \div h) + (t % h)
  BY <1>1, DivMod
<1>3. PICK u \in Nat, m \in Nat : m < h /\ t = h * u + m
  BY <1>2
<1>4. u \div k \in Nat /\ u % k \in Nat /\ u % k < k /\ u = k * (u \div k) + (u % k)
  BY <1>1, DivMod
<1>5. PICK x \in Nat, y \in Nat : y < k /\ u = k * x + y
  BY <1>4
<1>6. TimeParts(t, x, y, m)
  BY <1>3, <1>5 DEF TimeParts, h, k
<1>7. QED
  BY <1>6

\* DayIn, Hour and Minute find them again.
LEMMA TimeOfParts ==
    ASSUME NEW t \in Nat, NEW x, NEW y, NEW m, TimeParts(t, x, y, m)
    PROVE  DayIn(t) = x /\ Hour(t) = y /\ Minute(t) = m
<1> DEFINE h == MinutesPerHour
           k == HoursPerDay
           d == MinutesPerDay
<1>1. h \in Nat /\ h > 0 /\ k \in Nat /\ k > 0 /\ d = h * k /\ d \in Nat
  BY ClockConstants DEF MinutesPerDay
<1>2. x \in Nat /\ y \in Nat /\ m \in Nat /\ y < k /\ m < h /\ t = h * (k * x + y) + m
  BY DEF TimeParts
<1> HIDE DEF h, k, d
<1>3. k * x \in Nat /\ k * x + y \in Nat /\ h * y \in Nat
  BY <1>1, <1>2, Products
<1>4. t \div h = k * x + y /\ t % h = m
  <2>1. PICK u \in Nat : u = k * x + y
    BY <1>3
  <2>2. t = h * u + m
    BY <1>2, <2>1
  <2>3. t \div h = u /\ t % h = m
    BY <1>1, <1>2, <2>2, DivModIs, Zenon
  <2>4. QED
    BY <2>1, <2>3
<1>5. h * (k * x + y) = h * (k * x) + h * y
  BY <1>1, <1>2, <1>3, Products
<1>6. h * (k * x) = d * x
  BY <1>1, <1>2
<1>7. h * y + m \in Nat /\ d * x \in Nat /\ t = d * x + (h * y + m)
  BY <1>1, <1>2, <1>3, <1>5, <1>6, Products
<1>8. h * (y + 1) <= h * k /\ h * (y + 1) = h * y + h
  BY <1>1, <1>2, Products
<1>9. h * y + m < d
  BY <1>1, <1>2, <1>3, <1>8
<1>10. t \div d = x /\ t % d = h * y + m
  <2>1. PICK u \in Nat : u = h * y + m
    BY <1>7
  <2>2. t = d * x + u /\ u < d
    BY <1>7, <1>9, <2>1
  <2>3. d \in Nat /\ x \in Nat
    BY <1>1, <1>2
  <2>4. t \div d = x /\ t % d = u
    BY <2>2, <2>3, DivModIs, Zenon
  <2>5. QED
    BY <2>1, <2>4
<1>11. (h * y + m) \div h = y
  BY <1>1, <1>2, DivModIs, Zenon
<1>12. QED
  BY <1>4, <1>10, <1>11 DEF DayIn, Hour, Minute, h, d

\* One turn of the search goes forward and passes over no minute that matches.
LEMMA SkipPassesNone ==
    ASSUME NEW c, NEW t \in Nat, ~Matches(c, t)
    PROVE  /\ Skip(c, t) \in Nat /\ Skip(c, t) > t
           /\ \A s \in Nat : t <= s /\ s < Skip(c, t) => ~Matches(c, s)
<1> DEFINE n == DayIn(t)
           left == DaysIn(Date(n).year, Date(n).month) - Date(n).day
<1>1. n \in Nat /\ MinutesPerDay * n <= t /\ t < MinutesPerDay * (n + 1)
  BY InDay
<1>2. MinutesPerDay \in Nat /\ MinutesPerDay > 0 /\ MinutesPerHour \in Nat /\ MinutesPerHour > 0
  BY ClockConstants
<1>3. left \in Nat /\ \A j \in 0..left : Date(n + j).month = Date(n).month
  BY <1>1, MonthEnds
<1>4. CASE Date(n).month \notin c.months
  <2>1. Skip(c, t) = MinutesPerDay * (n + DaysIn(Date(n).year, Date(n).month) - Date(n).day + 1)
    BY <1>4 DEF Skip
  <2>2. n + DaysIn(Date(n).year, Date(n).month) - Date(n).day + 1 = n + left + 1
    BY <1>1, <1>3
  <2> HIDE DEF left, n
  <2>3. Skip(c, t) = MinutesPerDay * (n + left + 1)
    BY <2>1, <2>2
  <2>4. MinutesPerDay * (n + left + 1) \in Nat /\ MinutesPerDay * (n + 1) <= MinutesPerDay * (n + left + 1)
    BY <1>1, <1>2, <1>3, Products
  <2>5. ASSUME NEW s \in Nat, t <= s, s < Skip(c, t) PROVE ~Matches(c, s)
    <3>1. MinutesPerDay * n \in Nat /\ n + left \in Nat
      BY <1>1, <1>2, <1>3, Products
    <3>2. MinutesPerDay * n <= s /\ s < MinutesPerDay * ((n + left) + 1)
      BY <1>1, <2>3, <2>5, <3>1
    <3>3. DayIn(s) \in Nat /\ n <= DayIn(s) /\ DayIn(s) <= n + left
      BY <1>1, <3>1, <3>2, DaysBetween
    <3>4. DayIn(s) - n \in 0..left /\ n + (DayIn(s) - n) = DayIn(s)
      BY <1>1, <1>3, <3>3
    <3>5. Date(DayIn(s)).month = Date(n).month
      BY <1>3, <3>4
    <3>6. QED
      BY <1>4, <3>5 DEF Matches, DayMatches
  <2>6. MinutesPerDay * (n + 1) \in Nat
    BY <1>1, <1>2, Products
  <2>7. QED
    BY <1>1, <2>3, <2>4, <2>5, <2>6
<1>5. CASE Date(n).month \in c.months /\ (Date(n).day \notin c.doms \/ Weekday(n) \notin c.dows)
  <2>1. Skip(c, t) = MinutesPerDay * (n + 1)
    BY <1>5 DEF Skip
  <2> HIDE DEF left, n
  <2>2. MinutesPerDay * (n + 1) \in Nat /\ MinutesPerDay * n \in Nat
    BY <1>1, <1>2, Products
  <2>3. ASSUME NEW s \in Nat, t <= s, s < Skip(c, t) PROVE ~Matches(c, s)
    <3>1. MinutesPerDay * n <= s /\ s < MinutesPerDay * (n + 1)
      BY <1>1, <2>1, <2>2, <2>3
    <3>2. DayIn(s) \in Nat /\ n <= DayIn(s) /\ DayIn(s) <= n
      BY <1>1, <3>1, DaysBetween
    <3>3. DayIn(s) = n
      BY <1>1, <3>2
    <3>4. QED
      BY <1>5, <3>3 DEF Matches, DayMatches
  <2>4. QED
    BY <1>1, <2>1, <2>2, <2>3
<1>6. CASE DayMatches(c, n) /\ Hour(t) \notin c.hours
  <2>1. Skip(c, t) = t - Minute(t) + MinutesPerHour
    BY <1>6 DEF Skip, DayMatches
  <2> HIDE DEF left, n
  <2>2. PICK x, y, m : TimeParts(t, x, y, m)
    BY HasTimeParts
  <2>3. Hour(t) = y /\ Minute(t) = m
    BY <2>2, TimeOfParts
  <2>4. /\ x \in Nat /\ y \in Nat /\ m \in Nat /\ y < HoursPerDay /\ m < MinutesPerHour
        /\ HoursPerDay \in Nat /\ t = MinutesPerHour * (HoursPerDay * x + y) + m
    BY <2>2, ClockConstants DEF TimeParts
  <2>5. t - m \in Nat /\ Skip(c, t) = t - m + MinutesPerHour
    <3>1. HoursPerDay * x + y \in Nat
      BY <2>4, Products
    <3>2. MinutesPerHour * (HoursPerDay * x + y) \in Nat
      BY <1>2, <3>1, Products
    <3>3. QED
      BY <2>1, <2>3, <2>4, <3>2
  <2>6. ASSUME NEW s \in Nat, t <= s, s < Skip(c, t) PROVE ~Matches(c, s)
    <3>1. PICK j \in Nat : s = t + j /\ m + j < MinutesPerHour /\ m + j \in Nat
      <4>1. s - t \in Nat /\ s = t + (s - t) /\ m + (s - t) < MinutesPerHour /\ m + (s - t) \in Nat
        BY <1>2, <2>4, <2>5, <2>6
      <4>2. QED
        BY <4>1
    <3>2. s = MinutesPerHour * (HoursPerDay * x + y) + (m + j)
      <4>1. HoursPerDay * x + y \in Nat
        BY <2>4, Products
      <4>2. MinutesPerHour * (HoursPerDay * x + y) \in Nat
        BY <1>2, <4>1, Products
      <4>3. QED
        BY <2>4, <3>1, <4>2
    <3>3. TimeParts(s, x, y, m + j)
      BY <2>4, <3>1, <3>2 DEF TimeParts
    <3>4. Hour(s) = y
      BY <3>3, TimeOfParts
    <3>5. QED
      BY <1>6, <2>3, <3>4 DEF Matches
  <2>7. QED
    BY <1>2, <2>4, <2>5, <2>6
<1>7. CASE DayMatches(c, n) /\ Hour(t) \in c.hours
  <2>1. Skip(c, t) = t + 1
    BY <1>7 DEF Skip, DayMatches
  <2>2. \A s \in Nat : t <= s /\ s < t + 1 => s = t
    OBVIOUS
  <2>3. QED
    BY <2>1, <2>2
<1>8. QED
  BY <1>4, <1>5, <1>6, <1>7 DEF DayMatches

(***************************************************************************)
(* Next: the turns of its loop, halved as Turns does, pass over no match.  *)
(***************************************************************************)

\* The search stops at a minute that matches or at the limit.
Stops(c, limit, t) == 2 * t >= limit \/ Matches(c, t)

\* One turn of the loop in Next.
OneTurn(c, limit, t) == IF Stops(c, limit, t) THEN t ELSE Skip(c, t)

\* The minute that n turns reach from t, by the halves of f.
TurnsFrom(c, limit, f, n, t) ==
    IF n = 0 \/ 2 * t >= limit \/ Matches(c, t) THEN t
    ELSE IF n = 1 THEN Skip(c, t)
    ELSE f[n - n \div 2][f[n \div 2][t]]

\* What Turns is defined as.
IsTurns(c, limit, f) ==
    f = [n \in Nat |-> [t \in Nat |-> TurnsFrom(c, limit, f, n, t)]]

\* A turn leads to a minute.
LEMMA OneTurnType ==
    ASSUME NEW c, NEW limit, NEW t \in Nat
    PROVE  OneTurn(c, limit, t) \in Nat
  BY SkipPassesNone DEF OneTurn, Stops

\* There is such a function: the recursion halves the number of turns.
LEMMA TurnsExist ==
    ASSUME NEW c, NEW limit
    PROVE  \E f \in [Nat -> [Nat -> Nat]] : IsTurns(c, limit, f)
<1> DEFINE S == [Nat -> Nat]
           size == [n \in Nat |-> n]
           stop == {0, 1}
           base == [n \in Nat |-> [t \in Nat |-> IF n = 0 THEN t ELSE OneTurn(c, limit, t)]]
           a == [n \in Nat |-> n - n \div 2]
           b == [n \in Nat |-> n \div 2]
           join == [n \in Nat |-> [p \in S \X S |->
                      [t \in Nat |-> IF Stops(c, limit, t) THEN t ELSE p[1][p[2][t]]]]]
<1>1. /\ size \in [Nat -> Nat] /\ \A n \in Nat : size[n] = n
      /\ stop \in SUBSET Nat /\ \A n \in Nat : n \in stop <=> n = 0 \/ n = 1
  OBVIOUS
<1>2. /\ a \in [Nat -> Nat] /\ b \in [Nat -> Nat]
      /\ \A n \in Nat : a[n] = n - n \div 2 /\ b[n] = n \div 2
      /\ \A n \in Nat : n \notin stop => a[n] < n /\ b[n] < n
  OBVIOUS
<1>3. base \in [Nat -> S] /\ \A n, t \in Nat : base[n][t] = IF n = 0 THEN t ELSE OneTurn(c, limit, t)
  BY OneTurnType
<1>4. join \in [Nat -> [S \X S -> S]]
  OBVIOUS
<1>5. \A n \in Nat, g, h \in S :
        join[n][g, h] = [t \in Nat |-> IF Stops(c, limit, t) THEN t ELSE g[h[t]]]
  BY Zenon
<1>6. \A n \in Nat : n \notin stop => size[a[n]] < size[n] /\ size[b[n]] < size[n]
  BY <1>1, <1>2
<1> HIDE DEF S, size, stop, base, a, b, join
<1>7. PICK f \in [Nat -> S] :
        \A n \in Nat : f[n] = IF n \in stop THEN base[n] ELSE join[n][f[a[n]], f[b[n]]]
  <2>1. Descends(Nat, S, size, stop, base, a, b, join)
    BY <1>1, <1>2, <1>3, <1>4, <1>6, Zenon DEF Descends
  <2>2. PICK f : Computes(f, Nat, S, stop, base, a, b, join)
    BY <2>1, Recursion
  <2>3. QED
    BY <2>2, Zenon DEF Computes
<1>8. ASSUME NEW n \in Nat, NEW t \in Nat
      PROVE  f[n][t] = TurnsFrom(c, limit, f, n, t)
  <2>1. CASE n \in stop
    <3>1. f[n] = base[n]
      BY <1>7, <2>1, Zenon
    <3>2. f[n][t] = IF n = 0 THEN t ELSE OneTurn(c, limit, t)
      BY <1>3, <3>1
    <3>3. n = 0 \/ n = 1
      BY <1>1, <2>1
    <3>4. QED
      BY <3>2, <3>3 DEF OneTurn, Stops, TurnsFrom
  <2>2. CASE n \notin stop
    <3>1. a[n] = n - n \div 2 /\ b[n] = n \div 2 /\ a[n] \in Nat /\ b[n] \in Nat
      BY <1>2, Zenon
    <3>2. f[n] = join[n][f[a[n]], f[b[n]]]
      BY <1>7, <2>2, Zenon
    <3>3. f[a[n]] \in S /\ f[b[n]] \in S
      BY <1>7, <3>1, Zenon
    <3>4. f[n] = [s \in Nat |-> IF Stops(c, limit, s) THEN s ELSE f[a[n]][f[b[n]][s]]]
      BY <1>5, <3>2, <3>3, Zenon
    <3>5. f[n][t] = IF Stops(c, limit, t) THEN t ELSE f[n - n \div 2][f[n \div 2][t]]
      BY <3>1, <3>4
    <3>6. n # 0 /\ n # 1
      BY <1>1, <2>2
    <3>7. QED
      BY <3>5, <3>6 DEF Stops, TurnsFrom
  <2>3. QED
    BY <2>1, <2>2
<1>9. ASSUME NEW n \in Nat PROVE f[n] = [t \in Nat |-> TurnsFrom(c, limit, f, n, t)]
  <2>1. f[n] \in [Nat -> Nat]
    BY <1>7, Zenon DEF S
  <2>2. QED
    BY <1>8, <2>1
<1>10. IsTurns(c, limit, f)
  BY <1>7, <1>9, Zenon DEF IsTurns
<1>11. QED
  BY <1>7, <1>10, Zenon DEF S

\* So Turns is what its definition says.
LEMMA TurnsAre ==
    ASSUME NEW c, NEW limit, NEW T, T = Turns(c, limit)
    PROVE  \A n, t \in Nat : T[n][t] = TurnsFrom(c, limit, T, n, t)
<1>1. \E f : IsTurns(c, limit, f)
  BY TurnsExist, Zenon
<1>2. T = CHOOSE f : IsTurns(c, limit, f)
  BY DEF Turns, IsTurns, TurnsFrom
<1>3. IsTurns(c, limit, T)
  BY <1>1, <1>2
<1>4. \A n \in Nat : T[n] = [t \in Nat |-> TurnsFrom(c, limit, T, n, t)]
  BY <1>3 DEF IsTurns
<1>5. QED
  BY <1>4, Zenon

\* What n turns find: they stop or pass at least n minutes, none of which matches.
Finds(c, limit, n, t, r) ==
    /\ r \in Nat /\ r >= t /\ (Stops(c, limit, r) \/ r >= t + n)
    /\ \A s \in Nat : t <= s /\ s < r => ~Matches(c, s)

\* The first half of the turns stops, or leaves the others to the second half; by
\* induction on the number of turns.
LEMMA TurnsFind ==
    ASSUME NEW c, NEW limit, NEW T, T = Turns(c, limit)
    PROVE  \A n, t \in Nat : Finds(c, limit, n, t, T[n][t])
<1> DEFINE Bad == {n \in Nat : \E t \in Nat : ~Finds(c, limit, n, t, T[n][t])}
<1>0. \A n, t \in Nat : T[n][t] = TurnsFrom(c, limit, T, n, t)
  BY TurnsAre
<1>1. ASSUME Bad # {} PROVE FALSE
  <2>0. Bad \in SUBSET Nat
    OBVIOUS
  <2> HIDE DEF Bad
  <2>1. PICK n \in Bad : \A m \in Bad : n <= m
    BY <1>1, <2>0, Least
  <2>2. n \in Nat /\ \A m \in Nat : m < n => m \notin Bad
    BY <2>0, <2>1
  <2> USE DEF Bad
  <2>3. PICK t \in Nat : ~Finds(c, limit, n, t, T[n][t])
    BY <2>1
  <2>4. \A m, u \in Nat : m < n => Finds(c, limit, m, u, T[m][u])
    BY <2>2
  <2> HIDE DEF Bad
  <2>5. CASE n = 0 \/ Stops(c, limit, t)
    <3>1. T[n][t] = t
      BY <1>0, <2>2, <2>5 DEF TurnsFrom, Stops
    <3>2. Finds(c, limit, n, t, t)
      BY <2>2, <2>5 DEF Finds
    <3>3. QED
      BY <2>3, <3>1, <3>2
  <2>6. CASE n = 1 /\ ~Stops(c, limit, t)
    <3>1. T[n][t] = Skip(c, t)
      BY <1>0, <2>2, <2>6 DEF TurnsFrom, Stops
    <3>2. ~Matches(c, t)
      BY <2>6 DEF Stops
    <3>3. /\ Skip(c, t) \in Nat /\ Skip(c, t) > t
          /\ \A s \in Nat : t <= s /\ s < Skip(c, t) => ~Matches(c, s)
      BY <3>2, SkipPassesNone
    <3>4. Finds(c, limit, n, t, Skip(c, t))
      BY <2>6, <3>3 DEF Finds
    <3>5. QED
      BY <2>3, <3>1, <3>4
  <2>7. CASE n > 1 /\ ~Stops(c, limit, t)
    <3>1. PICK k \in Nat, j \in Nat :
            k = n \div 2 /\ j = n - n \div 2 /\ k < n /\ j < n /\ k + j = n /\ j # 0
      BY <2>2, <2>7
    <3>2. T[n][t] = T[j][T[k][t]]
      <4>1. T[n][t] = TurnsFrom(c, limit, T, n, t)
        BY <1>0, <2>2
      <4>2. TurnsFrom(c, limit, T, n, t) = T[n - n \div 2][T[n \div 2][t]]
        BY <2>7 DEF TurnsFrom, Stops
      <4>3. QED
        BY <3>1, <4>1, <4>2
    <3>3. Finds(c, limit, k, t, T[k][t])
      BY <2>4, <3>1, Zenon
    <3>4. PICK u \in Nat : u = T[k][t]
      BY <3>3 DEF Finds
    <3>5. Finds(c, limit, j, u, T[j][u])
      BY <2>4, <3>1
    <3>6. PICK r \in Nat : r = T[j][u]
      BY <3>5 DEF Finds
    <3>7. Stops(c, limit, u) => r = u
      BY <1>0, <3>6 DEF TurnsFrom, Stops
    <3>8. /\ u >= t /\ (Stops(c, limit, u) \/ u >= t + k)
          /\ \A s \in Nat : t <= s /\ s < u => ~Matches(c, s)
      BY <3>3, <3>4 DEF Finds
    <3>9. /\ r >= u /\ (Stops(c, limit, r) \/ r >= u + j)
          /\ \A s \in Nat : u <= s /\ s < r => ~Matches(c, s)
      BY <3>5, <3>6 DEF Finds
    <3>10. r >= t /\ (Stops(c, limit, r) \/ r >= t + n)
      BY <2>2, <3>1, <3>7, <3>8, <3>9
    <3>11. \A s \in Nat : t <= s /\ s < r => ~Matches(c, s)
      BY <3>8, <3>9
    <3>12. Finds(c, limit, n, t, r)
      BY <3>10, <3>11 DEF Finds
    <3>13. QED
      BY <2>3, <3>2, <3>4, <3>6, <3>12
  <2>8. QED
    BY <2>2, <2>5, <2>6, <2>7
<1>2. QED
  BY <1>1

\* Next returns the earliest minute after `from' that matches, or the zero time if
\* there is none before its limit.
LEMMA NextMinuteIs ==
    ASSUME NEW c, NEW from \in Nat
    PROVE  LET t == NextMinute(c, from)
               first == from \div 2 + 1
           IN /\ t \in Nat
              /\ t # ZeroTime => t >= first /\ 2 * t < Limit(from) /\ Matches(c, t)
              /\ \A s \in Nat : s >= first /\ (IF t = ZeroTime THEN 2 * s < Limit(from) ELSE s < t)
                                  => ~Matches(c, s)
<1> DEFINE T == Turns(c, Limit(from))
           n == 4 * 365 * MinutesPerDay
           first == from \div 2 + 1
<1>1. n \in Nat /\ first \in Nat /\ first > 0 /\ 2 * first > from /\ Limit(from) = from + 2 * n
      /\ Limit(from) \in Nat
  BY ClockConstants DEF Limit
<1>2. NextMinute(c, from) = IF 2 * T[n][first] >= Limit(from) THEN ZeroTime ELSE T[n][first]
  BY DEF NextMinute
<1>3. \A k, t \in Nat : Finds(c, Limit(from), k, t, T[k][t])
  BY TurnsFind
<1> HIDE DEF n, first, T
<1>4. Finds(c, Limit(from), n, first, T[n][first])
  BY <1>1, <1>3
<1>5. PICK r \in Nat : r = T[n][first]
  BY <1>4 DEF Finds
<1>6. /\ r >= first /\ (2 * r >= Limit(from) \/ Matches(c, r) \/ r >= first + n)
      /\ \A s \in Nat : first <= s /\ s < r => ~Matches(c, s)
  BY <1>4, <1>5 DEF Finds, Stops
<1>7. NextMinute(c, from) = IF 2 * r >= Limit(from) THEN 0 ELSE r
  BY <1>2, <1>5 DEF ZeroTime
<1>8. CASE 2 * r >= Limit(from)
  <2>1. NextMinute(c, from) = 0
    BY <1>7, <1>8
  <2>2. \A s \in Nat : s >= first /\ 2 * s < Limit(from) => ~Matches(c, s)
    BY <1>1, <1>6, <1>8
  <2>3. QED
    BY <2>1, <2>2 DEF ZeroTime, first
<1>9. CASE 2 * r < Limit(from)
  <2>1. NextMinute(c, from) = r /\ r # 0
    BY <1>1, <1>6, <1>7, <1>9
  <2>2. Matches(c, r)
    BY <1>1, <1>6, <1>9
  <2>3. QED
    BY <1>6, <1>9, <2>1, <2>2 DEF ZeroTime, first
<1>10. 2 * r >= Limit(from) \/ 2 * r < Limit(from)
  BY <1>1, <1>5
<1>11. QED
  BY <1>8, <1>9, <1>10, Zenon

(***************************************************************************)
(* An entry runs once for each of its times.                               *)
(***************************************************************************)

\* What is due has a matching minute after its last run.
LEMMA DueMinute ==
    ASSUME NEW e \in ValidEntry, NEW from \in Times, NEW time \in Times, IsDue(e, from, time)
    PROVE  \E m \in from \div 2 + 1 .. time \div 2 : Matches(parseCron(e.cron), m)
<1>1. from \in Nat /\ time \in Nat
  <2>1. Instant \subseteq Nat \ {ZeroTime}
    BY SchedulerAssumption
  <2>2. QED
    BY <2>1 DEF Times, ZeroTime
<1>2. NextTime[e][from] = NextMinute(parseCron(e.cron), from)
  BY DEF NextTime, ValidEntry, Times
<1>3. PICK m : m = NextMinute(parseCron(e.cron), from)
  OBVIOUS
<1>4. m # ZeroTime /\ 2 * m <= time
  BY <1>2, <1>3 DEF IsDue
<1>5. m \in Nat /\ m >= from \div 2 + 1 /\ Matches(parseCron(e.cron), m)
  BY <1>1, <1>3, <1>4, NextMinuteIs
<1>6. m <= time \div 2
  BY <1>1, <1>4, <1>5
<1>7. m \in from \div 2 + 1 .. time \div 2
  BY <1>1, <1>5, <1>6
<1>8. QED
  BY <1>5, <1>7

\* Unless a Start overlapped a Stop, dispatch starts the handler of an entry that has run
\* before only for a minute that matches its expression and lies after that run, so never
\* twice for one minute, however ticks, dispatches, Start and Stop interleave.
THEOREM EntriesRunOncePerTime == SchedSpec => OncePerTime
<1>1. SchedInv /\ [SchedNext]_schedVars =>
        [\A n \in Name : runs'[n] > runs[n] /\ fired[n] # ZeroTime /\ ~raced =>
           \E l \in Loop :
             /\ n \in DOMAIN candidates[l] \ DOMAIN candidates'[l]
             /\ \E m \in fired[n] \div 2 + 1 .. at[l] \div 2 :
                  Matches(parseCron(candidates[l][n].entry.cron), m)]_schedVars
  <2> SUFFICES ASSUME SchedInv, SchedNext, NEW n \in Name, runs'[n] > runs[n], ~raced
               PROVE  \E l \in Loop :
                        /\ n \in DOMAIN candidates[l] \ DOMAIN candidates'[l]
                        /\ \E m \in fired[n] \div 2 + 1 .. at[l] \div 2 :
                             Matches(parseCron(candidates[l][n].entry.cron), m)
    BY Zenon
  <2> USE DEF loopVars, callVars
  <2>1. runs \in [Name -> Nat] /\ SchedTypeOK
    BY DEF SchedInv, SchedTypeOK
  <2>2. ASSUME NEW k \in Name, RunEnds(k) PROVE FALSE
    BY <2>1, <2>2 DEF RunEnds
  <2>3. PICK l \in Loop, k \in Name : Fire(l, k)
    <3>1. runs' # runs
      BY <2>1
    <3>2. QED
      BY <2>2, <3>1, Zenon DEF SchedNext, LoopStep, Register, Start, Spawn, Stop, StopReturns, Tick,
                        Dispatched, LoopEnds, Shutdown, TimePasses
  <2>4. k = n /\ IsDue(candidates[l][k].entry, candidates[l][k].lastRun, at[l])
    <3>1. /\ ~IsDue(candidates[l][k].entry, candidates[l][k].lastRun, at[l]) => runs' = runs
          /\ runs' = runs \/ runs' = [runs EXCEPT ![k] = @ + 1]
      BY <2>3, Zenon DEF Fire
    <3>2. runs[n] \in Nat /\ runs' # runs
      BY <2>1
    <3>3. k = n
      BY <2>1, <3>1, <3>2
    <3>4. QED
      BY <3>1, <3>2, <3>3
  <2>5. loop[l] = "dispatch" /\ n \in DOMAIN candidates[l] /\ candidates'[l] = Without(candidates[l], n)
    BY <2>1, <2>3, <2>4 DEF Fire, SchedTypeOK
  <2>6. n \notin DOMAIN candidates'[l]
    BY <2>5 DEF Without
  <2>7. candidates[l][n].lastRun = fired[n]
    BY <2>1, <2>5, Zenon DEF SchedInv, FreshOK, SchedTypeOK
  <2>8. /\ candidates[l][n].entry \in ValidEntry /\ candidates[l][n].lastRun \in Times
        /\ at[l] \in Times
    BY <2>1, <2>5 DEF SchedTypeOK, Snapshot
  <2>9. \E m \in fired[n] \div 2 + 1 .. at[l] \div 2 :
          Matches(parseCron(candidates[l][n].entry.cron), m)
    BY <2>4, <2>7, <2>8, DueMinute, Zenon
  <2>10. QED
    BY <2>5, <2>6, <2>9, Zenon
<1>2. QED
  BY <1>1, SchedulerInvariant, PTL DEF SchedSpec, OncePerTime

(***************************************************************************)
(* The retry engine, and an entry followed from run to run.                *)
(***************************************************************************)

\* What NewEngine makes of any configuration.
EngineOK(e) ==
    /\ e.base \in Nat /\ e.base >= 1 /\ e.max \in Nat /\ e.max >= e.base
    /\ e.multiplier \in Nat /\ e.multiplier > 100 /\ e.jitter \in Nat /\ e.jitter <= 100

\* The defaults of NewEngine replace what would not be an engine.
LEMMA NewEngineOK ==
    ASSUME NEW cfg \in Engine
    PROVE  EngineOK(NewEngine(cfg))
<1>1. cfg.base \in Int /\ cfg.max \in Int /\ cfg.multiplier \in Int /\ cfg.jitter \in Int
  BY TimingAssumption
<1>2. PICK e : e = NewEngine(cfg)
  OBVIOUS
<1>3. /\ e.base = (IF cfg.base <= 0 THEN Second ELSE cfg.base)
      /\ e.multiplier = (IF cfg.multiplier <= 100 THEN 200 ELSE cfg.multiplier)
      /\ e.jitter = (IF cfg.jitter < 0 THEN 0 ELSE IF cfg.jitter > 100 THEN 100 ELSE cfg.jitter)
  BY <1>2 DEF NewEngine
<1>4. \E max \in Int : e.max = IF max < e.base THEN e.base ELSE max
  <2>1. PICK max : max = IF cfg.max <= 0 THEN 30 * Second ELSE cfg.max
    OBVIOUS
  <2>2. max \in Int
    BY <1>1, <2>1 DEF Second
  <2>3. e.max = IF max < e.base THEN e.base ELSE max
    BY <1>2, <1>3, <2>1 DEF NewEngine
  <2>4. QED
    BY <2>2, <2>3
<1>5. e.base \in Nat /\ e.base >= 1 /\ e.multiplier \in Nat /\ e.multiplier > 100
      /\ e.jitter \in Nat /\ e.jitter <= 100
  BY <1>1, <1>3 DEF Second
<1>6. e.max \in Nat /\ e.max >= e.base
  BY <1>4, <1>5
<1>7. QED
  BY <1>2, <1>5, <1>6 DEF EngineOK

\* The next delay before jitter.
Grows(e, d) == Capped(e, (d * e.multiplier) \div 100)

\* The next delay is within the cap and no shorter.
LEMMA GrowsType ==
    ASSUME NEW e, EngineOK(e), NEW d \in Nat
    PROVE  /\ Grows(e, d) \in Nat /\ Grows(e, d) <= e.max
           /\ d <= e.max => d <= Grows(e, d)
<1>1. e.multiplier \in Nat /\ e.multiplier > 100 /\ e.max \in Nat
  BY DEF EngineOK
<1>2. d * e.multiplier \in Nat /\ d * 100 <= d * e.multiplier
  BY <1>1, Products
<1>3. (d * e.multiplier) \div 100 \in Nat /\ d <= (d * e.multiplier) \div 100
  BY <1>2
<1>4. QED
  BY <1>1, <1>3 DEF Grows, Capped

\* What the function g in Grown is defined as.
IsGrown(e, g) == g = [n \in Nat |-> IF n = 0 THEN Capped(e, e.base)
                                     ELSE Capped(e, (g[n - 1] * e.multiplier) \div 100)]

\* There is such a function.
LEMMA GrownExists ==
    ASSUME NEW e, EngineOK(e)
    PROVE  \E g : IsGrown(e, g)
<1> DEFINE size == [n \in Nat |-> n]
           stop == {0}
           base == [n \in Nat |-> e.base]
           a == [n \in Nat |-> IF n = 0 THEN 0 ELSE n - 1]
           join == [n \in Nat |-> [p \in Nat \X Nat |-> Grows(e, p[1])]]
<1>1. e.base \in Nat /\ e.max \in Nat /\ e.base <= e.max
  BY DEF EngineOK
<1>2. /\ size \in [Nat -> Nat] /\ \A n \in Nat : size[n] = n
      /\ stop \in SUBSET Nat /\ \A n \in Nat : n \in stop <=> n = 0
      /\ base \in [Nat -> Nat] /\ \A n \in Nat : base[n] = e.base
  BY <1>1
<1>3. a \in [Nat -> Nat] /\ \A n \in Nat : n # 0 => a[n] = n - 1 /\ a[n] < n
  OBVIOUS
<1>4. /\ join \in [Nat -> [Nat \X Nat -> Nat]]
      /\ \A n, d, f \in Nat : join[n][d, f] = Grows(e, d)
  BY GrowsType, Zenon
<1> HIDE DEF size, stop, base, a, join
<1>5. Descends(Nat, Nat, size, stop, base, a, a, join)
  BY <1>2, <1>3, <1>4, Zenon DEF Descends
<1>6. PICK g : Computes(g, Nat, Nat, stop, base, a, a, join)
  BY <1>5, Recursion
<1>7. g \in [Nat -> Nat] /\ g[0] = e.base
  <2>1. 0 \in Nat /\ 0 \in stop
    BY <1>2
  <2>2. g \in [Nat -> Nat] /\ g[0] = base[0]
    BY <1>6, <2>1, Zenon DEF Computes
  <2>3. QED
    BY <1>2, <2>1, <2>2
<1>8. ASSUME NEW n \in Nat, n # 0 PROVE g[n] = Grows(e, g[n - 1])
  <2>1. g[n] = join[n][g[a[n]], g[a[n]]]
    BY <1>2, <1>6, <1>8, Zenon DEF Computes
  <2>2. a[n] = n - 1 /\ a[n] \in Nat
    BY <1>3, <1>8
  <2>3. PICK d \in Nat : d = g[n - 1]
    BY <1>7, <2>2
  <2>4. g[n] = join[n][d, d]
    BY <2>1, <2>2, <2>3, Zenon
  <2>5. join[n][d, d] = Grows(e, d)
    BY <1>4, Zenon
  <2>6. QED
    BY <2>3, <2>4, <2>5, Zenon
<1>9. \A n \in Nat : g[n] = IF n = 0 THEN Capped(e, e.base)
                            ELSE Capped(e, (g[n - 1] * e.multiplier) \div 100)
  BY <1>1, <1>7, <1>8 DEF Grows, Capped
<1>10. QED
  BY <1>7, <1>9 DEF IsGrown

\* So the delays start at the base and grow by one multiplication after the other.
LEMMA GrownIs ==
    ASSUME NEW e, EngineOK(e)
    PROVE  Grown(e, 0) = e.base /\ \A n \in Nat : Grown(e, n + 1) = Grows(e, Grown(e, n))
<1> DEFINE g == CHOOSE f : IsGrown(e, f)
<1>1. IsGrown(e, g)
  BY GrownExists
<1>2. \A n : Grown(e, n) = g[n]
  BY DEF Grown, IsGrown
<1> HIDE DEF g
<1>3. \A n \in Nat : g[n] = IF n = 0 THEN Capped(e, e.base)
                            ELSE Capped(e, (g[n - 1] * e.multiplier) \div 100)
  BY <1>1 DEF IsGrown
<1>4. g[0] = e.base
  BY <1>3 DEF EngineOK, Capped
<1>5. ASSUME NEW n \in Nat PROVE g[n + 1] = Grows(e, g[n])
  <2>1. n + 1 \in Nat /\ n + 1 # 0 /\ (n + 1) - 1 = n
    OBVIOUS
  <2>2. QED
    BY <1>3, <2>1 DEF Grows
<1>6. QED
  BY <1>2, <1>4, <1>5

\* Every delay before jitter is positive and at most the cap.
LEMMA GrownType ==
    ASSUME NEW e, EngineOK(e), NEW n \in Nat
    PROVE  Grown(e, n) \in Nat /\ Grown(e, n) >= 1 /\ Grown(e, n) <= e.max
<1> DEFINE Good(k) == Grown(e, k) \in Nat /\ Grown(e, k) >= 1 /\ Grown(e, k) <= e.max
           Bad == {k \in Nat : ~Good(k)}
<1>1. Good(0)
  BY GrownIs DEF EngineOK
<1>2. ASSUME NEW k \in Nat, Good(k) PROVE Good(k + 1)
  <2>1. Grown(e, k + 1) = Grows(e, Grown(e, k))
    BY GrownIs
  <2>2. Grows(e, Grown(e, k)) \in Nat /\ Grows(e, Grown(e, k)) <= e.max
        /\ Grown(e, k) <= Grows(e, Grown(e, k))
    BY <1>2, GrowsType
  <2>3. QED
    BY <1>2, <2>1, <2>2
<1>3. ASSUME Bad # {} PROVE FALSE
  <2>1. Bad \in SUBSET Nat
    OBVIOUS
  <2> HIDE DEF Bad
  <2>2. PICK k \in Bad : \A m \in Bad : k <= m
    BY <1>3, <2>1, Least
  <2> USE DEF Bad
  <2> HIDE DEF Good
  <2>3. k \in Nat /\ k # 0 /\ ~Good(k)
    BY <1>1, <2>2
  <2>4. k - 1 \in Nat /\ (k - 1) + 1 = k
    BY <2>3
  <2>5. k - 1 \notin Bad
    <3> HIDE DEF Bad
    <3>1. QED
      BY <2>2, <2>3, <2>4
  <2>6. Good(k - 1)
    BY <2>4, <2>5
  <2>7. QED
    BY <1>2, <2>3, <2>4, <2>6
<1>4. QED
  BY <1>3

\* The jitter of a delay d.
LEMMA JitterBound ==
    ASSUME NEW d \in Nat, NEW j \in Nat, NEW r \in Nat, r <= 99
    PROVE  /\ (d * j * r) \div 10000 \in Nat
           /\ \A m \in Nat : 100 + j <= m => d + (d * j * r) \div 10000 <= (d * m) \div 100
<1>1. PICK x \in Nat : x = d * j
  BY Products
<1>2. x * r \in Nat /\ x * r <= x * 100
  BY <1>1, Products
<1>3. (x * r) \div 10000 \in Nat /\ (x * r) \div 10000 <= x \div 100 /\ x \div 100 \in Nat
  BY <1>2
<1>4. ASSUME NEW m \in Nat, 100 + j <= m
      PROVE  d + x \div 100 <= (d * m) \div 100
  <2>1. d * (100 + j) <= d * m /\ d * m \in Nat /\ d * (100 + j) = d * 100 + d * j
    BY <1>4, Products
  <2>2. d * 100 + x <= d * m
    BY <1>1, <2>1
  <2>3. QED
    BY <2>1, <2>2
<1>5. QED
  BY <1>1, <1>3, <1>4

\* A delay is at least the one before jitter and at most the cap.
LEMMA DelayType ==
    ASSUME NEW e, EngineOK(e), NEW n \in Nat, NEW r \in Random
    PROVE  Delay(e, n, r) \in Nat /\ Grown(e, n) <= Delay(e, n, r) /\ Delay(e, n, r) <= e.max
<1>1. r \in Nat /\ r <= 99
  BY TimingAssumption
<1>2. PICK d \in Nat : d = Grown(e, n) /\ d >= 1 /\ d <= e.max
  BY GrownType
<1>3. e.jitter \in Nat /\ e.max \in Nat
  BY DEF EngineOK
<1>4. (d * e.jitter * r) \div 10000 \in Nat
  BY <1>1, <1>3, JitterBound
<1>5. Delay(e, n, r) = Capped(e, d + (d * e.jitter * r) \div 10000)
  BY <1>2 DEF Delay
<1>6. QED
  BY <1>2, <1>3, <1>4, <1>5 DEF Capped

\* Where the jitter is less than the growth, no delay is shorter than the one
\* before it.
LEMMA DelayGrows ==
    ASSUME NEW e, EngineOK(e), NEW n \in Nat, NEW r \in Random, NEW s \in Random,
           100 + e.jitter <= e.multiplier
    PROVE  Delay(e, n, r) <= Delay(e, n + 1, s)
<1>1. r \in Nat /\ r <= 99
  BY TimingAssumption
<1>2. PICK d \in Nat : d = Grown(e, n)
  BY GrownType
<1>3. e.jitter \in Nat /\ e.max \in Nat /\ e.multiplier \in Nat
  BY DEF EngineOK
<1>4. /\ (d * e.jitter * r) \div 10000 \in Nat
      /\ d + (d * e.jitter * r) \div 10000 <= (d * e.multiplier) \div 100
  BY <1>1, <1>3, JitterBound
<1>5. (d * e.multiplier) \div 100 \in Nat
  BY <1>3, Products
<1>6. Delay(e, n, r) = Capped(e, d + (d * e.jitter * r) \div 10000)
  BY <1>2 DEF Delay
<1>7. Grown(e, n + 1) = Capped(e, (d * e.multiplier) \div 100)
  BY <1>2, GrownIs DEF Grows
<1>8. Delay(e, n, r) <= Grown(e, n + 1)
  BY <1>3, <1>4, <1>5, <1>6, <1>7 DEF Capped
<1>9. /\ Delay(e, n, r) \in Nat /\ Grown(e, n + 1) \in Nat
      /\ Delay(e, n + 1, s) \in Nat /\ Grown(e, n + 1) <= Delay(e, n + 1, s)
  BY DelayType, GrownType
<1>10. QED
  BY <1>8, <1>9

\* A job waits as its engine says, and an entry has run at a time of the clock.
TimingInv ==
    /\ last \in Nat /\ attempt \in Nat /\ ran \in Nat
    /\ engine = << >> \/ EngineOK(engine)
    /\ attempt = 0 => wait = 0
    /\ attempt > 0 => engine # << >> /\ \E r \in Random : wait = Delay(engine, attempt, r)

\* The invariant holds throughout.
LEMMA TimingInvariant == TimingSpec => []TimingInv
<1>1. TimingInit => TimingInv
  <2> SUFFICES ASSUME TimingInit PROVE TimingInv
    OBVIOUS
  <2>1. last \in Nat
    <3>1. \A t \in From : t \in Nat
      BY TimingAssumption
    <3>2. last = ZeroTime \/ last \in From
      BY DEF TimingInit
    <3>3. QED
      BY <3>1, <3>2 DEF ZeroTime
  <2>2. engine = << >> \/ EngineOK(engine)
    BY NewEngineOK DEF TimingInit
  <2>3. QED
    BY <2>1, <2>2 DEF TimingInit, TimingInv
<1>2. TimingInv /\ [TimingNext]_timingVars => TimingInv'
  <2> SUFFICES ASSUME TimingInv, [TimingNext]_timingVars PROVE TimingInv'
    OBVIOUS
  <2>1. CASE scheduleRetry
    <3>1. PICK r \in Random : wait' = Delay(engine, attempt', r)
      BY <2>1 DEF scheduleRetry
    <3>2. /\ attempt' = attempt + 1 /\ attempt \in Nat /\ engine' = engine /\ last' = last
          /\ ran' = ran /\ engine # << >>
      BY <2>1 DEF scheduleRetry, TimingInv
    <3>3. QED
      BY <3>1, <3>2 DEF TimingInv
  <2>2. CASE RunNext
    <3>1. last \in Nat
      BY DEF TimingInv
    <3>2. NextMinute(cron, last) \in Nat
      BY <3>1, NextMinuteIs
    <3>3. last' \in Nat
      BY <2>2, <3>1, <3>2 DEF RunNext
    <3>4. ran' \in Nat
      BY <2>2, TimingAssumption DEF RunNext, TimingInv
    <3>5. QED
      BY <2>2, <3>3, <3>4 DEF RunNext, TimingInv
  <2>3. CASE UNCHANGED timingVars
    BY <2>3 DEF timingVars, TimingInv
  <2>4. QED
    BY <2>1, <2>2, <2>3 DEF TimingNext
<1>3. QED
  BY <1>1, <1>2, PTL DEF TimingSpec

\* A search that finds no matching minute from the one after `from' up to `end' has
\* missed none on the days in question.
LEMMA NoneMissed ==
    ASSUME NEW c, NEW from \in Nat, NEW end \in Int,
           \A s \in Nat : s >= from \div 2 + 1 /\ s <= end => ~Matches(c, s)
    PROVE  NoneUntil(c, from, end)
<1>1. ASSUME NEW n \in DayIn(from \div 2)..DayIn(end),
             NEW s \in MinutesPerDay * n .. MinutesPerDay * (n + 1) - 1
      PROVE  s \in Nat
  <2>1. DayIn(from \div 2) \in Nat
    BY InDay
  <2>2. n \in Nat
    BY <2>1
  <2>3. MinutesPerDay * n \in Nat
    BY <2>2, ClockConstants, Products
  <2>4. QED
    BY <2>3
<1>2. ASSUME NEW s \in Nat, Matches(c, s) PROVE 2 * s <= from \/ s > end
  BY <1>2
<1>3. QED
  BY <1>1, <1>2 DEF NoneUntil

\* Next returns the first minute that matches after `from', or the zero time if
\* there is none before its limit.
LEMMA IsEarliest ==
    ASSUME NEW c, NEW from \in Nat, NEW t, t = NextMinute(c, from)
    PROVE  IF t = ZeroTime
           THEN NoneUntil(c, from, (Limit(from) - 1) \div 2)
           ELSE Matches(c, t) /\ 2 * t > from /\ NoneUntil(c, from, t - 1)
<1>1. /\ t \in Nat
      /\ t # ZeroTime => t >= from \div 2 + 1 /\ 2 * t < Limit(from) /\ Matches(c, t)
      /\ \A s \in Nat : /\ s >= from \div 2 + 1
                        /\ IF t = ZeroTime THEN 2 * s < Limit(from) ELSE s < t
                        => ~Matches(c, s)
  BY NextMinuteIs
<1>2. Limit(from) \in Nat
  BY ClockConstants DEF Limit
<1>3. CASE t = ZeroTime
  <2>1. PICK end \in Int : end = (Limit(from) - 1) \div 2
    BY <1>2
  <2>2. \A s \in Nat : s <= end => 2 * s < Limit(from)
    BY <1>2, <2>1
  <2>3. \A s \in Nat : s >= from \div 2 + 1 /\ s <= end => ~Matches(c, s)
    BY <1>1, <1>3, <2>2
  <2>4. NoneUntil(c, from, end)
    BY <2>3, NoneMissed
  <2>5. QED
    BY <1>3, <2>1, <2>4
<1>4. CASE t # ZeroTime
  <2>1. Matches(c, t) /\ 2 * t > from
    BY <1>1, <1>4
  <2>2. \A s \in Nat : s >= from \div 2 + 1 /\ s <= t - 1 => ~Matches(c, s)
    BY <1>1, <1>4
  <2>3. NoneUntil(c, from, t - 1)
    BY <1>1, <2>2, NoneMissed
  <2>4. QED
    BY <1>4, <2>1, <2>3
<1>5. QED
  BY <1>3, <1>4

\* Next returns the first minute that matches after the last run, and the zero time
\* only if the first 4 * 365 days have none, whatever the expression, the time and
\* the lengths of an hour and of a day.
THEOREM NextIsTheEarliest == TimingSpec => NextIsEarliest
<1> DEFINE Earliest ==
      IF next' = ZeroTime
      THEN NoneUntil(cron, last, (Limit(last) - 1) \div 2)
      ELSE Matches(cron, next') /\ 2 * next' > last /\ NoneUntil(cron, last, next' - 1)
<1>1. TimingInv /\ [TimingNext]_timingVars => [ran' > ran => Earliest]_timingVars
  <2> SUFFICES ASSUME TimingInv, TimingNext, ran' > ran
               PROVE  Earliest
    BY DEF timingVars
  <2>1. CASE scheduleRetry
    <3>1. ran' = ran /\ ran \in Nat
      BY <2>1 DEF scheduleRetry, TimingInv
    <3>2. QED
      BY <3>1
  <2>2. CASE RunNext
    <3>1. last \in Nat /\ next' = NextMinute(cron, last)
      BY <2>2 DEF RunNext, TimingInv
    <3>2. QED
      BY <3>1, IsEarliest
  <2>3. QED
    BY <2>1, <2>2 DEF TimingNext
<1>2. QED
  BY <1>1, TimingInvariant, PTL DEF TimingSpec, NextIsEarliest

\* Every wait is positive and within the cap, and where the jitter is less than
\* the growth none is shorter than the one before.
THEOREM WaitsGrow == TimingSpec => BackoffGrows
<1>1. TimingInv /\ [TimingNext]_timingVars
        => [attempt' > attempt =>
              /\ wait' \in 1..engine.max
              /\ 100 + engine.jitter <= engine.multiplier => wait <= wait']_timingVars
  <2> SUFFICES ASSUME TimingInv, TimingNext, attempt' > attempt
               PROVE  /\ wait' \in 1..engine.max
                      /\ 100 + engine.jitter <= engine.multiplier => wait <= wait'
    BY DEF timingVars
  <2>1. CASE scheduleRetry
    <3>1. attempt \in Nat /\ attempt' = attempt + 1 /\ engine # << >> /\ EngineOK(engine)
      BY <2>1 DEF scheduleRetry, TimingInv
    <3>2. PICK s \in Random : wait' = Delay(engine, attempt + 1, s)
      BY <2>1, <3>1 DEF scheduleRetry
    <3>3. attempt + 1 \in Nat /\ engine.max \in Nat
      BY <3>1 DEF EngineOK
    <3>4. Delay(engine, attempt + 1, s) \in Nat /\ Delay(engine, attempt + 1, s) <= engine.max
          /\ Grown(engine, attempt + 1) <= Delay(engine, attempt + 1, s)
          /\ Grown(engine, attempt + 1) \in Nat /\ Grown(engine, attempt + 1) >= 1
      BY <3>1, <3>3, DelayType, GrownType, Zenon
    <3>5. wait' \in 1..engine.max
      BY <3>2, <3>3, <3>4
    <3>6. ASSUME 100 + engine.jitter <= engine.multiplier PROVE wait <= wait'
      <4>1. CASE attempt = 0
        BY <3>2, <3>4, <4>1 DEF TimingInv
      <4>2. CASE attempt > 0
        <5>1. PICK r \in Random : wait = Delay(engine, attempt, r)
          BY <4>2 DEF TimingInv
        <5>2. QED
          BY <3>1, <3>2, <3>6, <5>1, DelayGrows
      <4>3. QED
        BY <3>1, <4>1, <4>2
    <3>7. QED
      BY <3>5, <3>6
  <2>2. CASE RunNext
    <3>1. attempt' = attempt /\ attempt \in Nat
      BY <2>2 DEF RunNext, TimingInv
    <3>2. QED
      BY <3>1
  <2>3. QED
    BY <2>1, <2>2 DEF TimingNext
<1>2. QED
  BY <1>1, TimingInvariant, PTL DEF TimingSpec, BackoffGrows

=============================================================================
