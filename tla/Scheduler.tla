------------------------------ MODULE Scheduler -----------------------------
(***************************************************************************)
(* internal/scheduler: Register, Start, Stop and dispatch, called from     *)
(* several goroutines.  Start makes a loop goroutine, a loop dispatches    *)
(* what is due on a tick, each run of an entry is a goroutine.  Steps are  *)
(* the sections under Scheduler.mu and the operations on Scheduler.wg.     *)
(*                                                                         *)
(* The clock may jump: ticks are dropped while a loop is busy or the       *)
(* machine is.  MaxStarts and MaxRegisters bound the calls.                *)
(***************************************************************************)
EXTENDS Cron

CONSTANTS
    Name, NoEntry,
    Entry,         \* what is registered: [cron, enabled]
    Instant,       \* the times the clock shows
    Caller,        \* goroutines that call Start and Stop
    MaxStarts, MaxRegisters

ASSUME SchedulerAssumption ==
    /\ \A e \in Entry : e.enabled \in BOOLEAN /\ DOMAIN e.cron = DOMAIN FieldMin
    /\ NoEntry \notin Entry /\ Instant \subseteq Nat \ {ZeroTime}
    /\ MaxStarts \in Nat /\ MaxRegisters \in Nat

Loop == 1..MaxStarts

VARIABLES
    now,
    entries,     \* Scheduler.entries and Scheduler.schedules
    lastRun,     \* Scheduler.lastRun; the zero time for an entry that never ran
    running,     \* Scheduler.running
    starts,      \* how many loops were made; the cancel function is of the last
    cancelable,  \* whether Scheduler.cancel is set
    cancelled,   \* the loops whose context is cancelled
    done,        \* whether the context given to Start is
    loop,        \* where a loop goroutine is
    at,          \* `now' of its dispatch
    candidates,  \* its snapshot, less the entries it has dealt with
    runs,        \* running goroutines of an entry
    wg,
    call,        \* where a caller is, and the loop its Start makes
    raced,       \* history: a loop was made while another was alive or awaited
    registers,
    fired        \* history: when an entry was run last

loopVars == <<loop, at, candidates>>
callVars == <<running, starts, cancelable, cancelled, call, raced>>
schedVars == <<now, entries, lastRun, fired, done, runs, wg, registers, loopVars, callVars>>

Idle == [pc |-> "idle", loop |-> 0]
Waits == [pc |-> "stop", loop |-> 0]

SchedInit ==
    /\ now \in Instant
    /\ entries = [n \in Name |-> NoEntry] /\ lastRun = [n \in Name |-> ZeroTime]
    /\ fired = lastRun
    /\ running = FALSE /\ starts = 0 /\ cancelable = FALSE /\ cancelled = {}
    /\ done = FALSE
    /\ loop = [l \in Loop |-> "none"] /\ at = [l \in Loop |-> ZeroTime]
    /\ candidates = [l \in Loop |-> << >>]
    /\ runs = [n \in Name |-> 0] /\ wg = 0
    /\ call = [c \in Caller |-> Idle] /\ raced = FALSE /\ registers = 0

\* The loop goroutines there are.
Alive == {l \in Loop : loop[l] \in {"select", "dispatch"}}

-----------------------------------------------------------------------------

\* Register, with a valid expression; an invalid one changes nothing.  The last
\* run of an entry that is replaced is kept.
Register(n, e) ==
    /\ registers < MaxRegisters /\ registers' = registers + 1
    /\ ValidCron(e.cron)
    /\ entries' = [entries EXCEPT ![n] = e]
    /\ UNCHANGED <<now, lastRun, fired, done, runs, wg, loopVars, callVars>>

\* Start, under the lock; a scheduler that runs is left alone.
Start(c) ==
    /\ call[c] = Idle /\ ~running /\ starts < MaxStarts
    /\ running' = TRUE /\ starts' = starts + 1 /\ cancelable' = TRUE
    /\ call' = [call EXCEPT ![c] = [pc |-> "start", loop |-> starts + 1]]
    /\ UNCHANGED <<now, entries, lastRun, fired, done, runs, wg, registers, loopVars,
                   cancelled, raced>>

\* Start, after the lock: the loop of the call.
Spawn(c) ==
    /\ call[c].pc = "start"
    /\ loop' = [loop EXCEPT ![call[c].loop] = "select"]
    /\ raced' = (raced \/ Alive # {} \/ call[c].loop \in cancelled
                       \/ \E d \in Caller : call[d] = Waits)
    /\ wg' = wg + 1
    /\ call' = [call EXCEPT ![c] = Idle]
    /\ UNCHANGED <<now, entries, lastRun, fired, done, runs, registers, at, candidates,
                   running, starts, cancelable, cancelled>>

\* Plausible bug: the loop is not cancelled.
StopKeepsLoop(c) ==
    /\ call[c] = Idle
    /\ running' = FALSE /\ cancelable' = FALSE
    /\ call' = [call EXCEPT ![c] = Waits]
    /\ UNCHANGED <<now, entries, lastRun, fired, done, runs, wg, registers, loopVars,
                   starts, cancelled, raced>>

\* Stop, under the lock.
Stop(c) ==
    /\ call[c] = Idle
    /\ cancelled' = IF cancelable THEN cancelled \cup {starts} ELSE cancelled
    /\ running' = FALSE /\ cancelable' = FALSE
    /\ call' = [call EXCEPT ![c] = Waits]
    /\ UNCHANGED <<now, entries, lastRun, fired, done, runs, wg, registers, loopVars,
                   starts, raced>>

\* Plausible bug: Stop does not wait.
StopReturnsAtOnce(c) ==
    /\ call[c] = Waits
    /\ call' = [call EXCEPT ![c] = Idle]
    /\ UNCHANGED <<now, entries, lastRun, fired, done, runs, wg, registers, loopVars,
                   running, starts, cancelable, cancelled, raced>>

\* wg.Wait returns.
StopReturns(c) ==
    /\ call[c] = Waits /\ wg = 0
    /\ call' = [call EXCEPT ![c] = Idle]
    /\ UNCHANGED <<now, entries, lastRun, fired, done, runs, wg, registers, loopVars,
                   running, starts, cancelable, cancelled, raced>>

\* A tick: dispatch reads the clock and takes its snapshot.
Tick(l) ==
    /\ loop[l] = "select"
    /\ loop' = [loop EXCEPT ![l] = "dispatch"]
    /\ at' = [at EXCEPT ![l] = now]
    /\ candidates' = [candidates EXCEPT ![l] =
         [n \in {m \in Name : entries[m] # NoEntry} |->
            [entry |-> entries[n], lastRun |-> lastRun[n]]]]
    /\ UNCHANGED <<now, entries, lastRun, fired, done, runs, wg, registers, callVars>>

\* The schedule's Next for each entry and each time it can have run.
NextTime ==
    [e \in {f \in Entry : ValidCron(f.cron)} |->
       [from \in Instant \cup {ZeroTime} |-> NextMinute(parseCron(e.cron), from)]]

\* Plausible bug: only the tick of the minute itself counts.
IsDueOnTime(e, from, time) ==
    e.enabled /\ NextTime[e][from] # ZeroTime /\ NextTime[e][from] = time \div 2

\* What dispatch fires: the next time after the last run has come.
IsDue(e, from, time) ==
    e.enabled /\ NextTime[e][from] # ZeroTime /\ 2 * NextTime[e][from] <= time

Without(f, n) == [m \in DOMAIN f \ {n} |-> f[m]]

\* Plausible bug: the last run is not recorded.
FireForgets(l, n) ==
    /\ loop[l] = "dispatch" /\ n \in DOMAIN candidates[l]
    /\ candidates' = [candidates EXCEPT ![l] = Without(@, n)]
    /\ IF IsDue(candidates[l][n].entry, candidates[l][n].lastRun, at[l])
       THEN /\ runs' = [runs EXCEPT ![n] = @ + 1] /\ wg' = wg + 1
            /\ fired' = [fired EXCEPT ![n] = at[l]] /\ UNCHANGED lastRun
       ELSE UNCHANGED <<lastRun, fired, runs, wg>>
    /\ UNCHANGED <<now, entries, done, registers, loop, at, callVars>>

\* One candidate: skipped, or run with the time of the dispatch as its last run.
Fire(l, n) ==
    /\ loop[l] = "dispatch" /\ n \in DOMAIN candidates[l]
    /\ candidates' = [candidates EXCEPT ![l] = Without(@, n)]
    /\ IF IsDue(candidates[l][n].entry, candidates[l][n].lastRun, at[l])
       THEN /\ lastRun' = [lastRun EXCEPT ![n] = at[l]] /\ fired' = [fired EXCEPT ![n] = at[l]]
            /\ runs' = [runs EXCEPT ![n] = @ + 1] /\ wg' = wg + 1
       ELSE UNCHANGED <<lastRun, fired, runs, wg>>
    /\ UNCHANGED <<now, entries, done, registers, loop, at, callVars>>

Dispatched(l) ==
    /\ loop[l] = "dispatch" /\ DOMAIN candidates[l] = {}
    /\ loop' = [loop EXCEPT ![l] = "select"]
    /\ at' = [at EXCEPT ![l] = ZeroTime]
    /\ UNCHANGED <<now, entries, lastRun, fired, done, runs, wg, registers, candidates, callVars>>

\* The loop finds its context, or the one it derives from, cancelled.
LoopEnds(l) ==
    /\ loop[l] = "select" /\ (done \/ l \in cancelled)
    /\ loop' = [loop EXCEPT ![l] = "ended"]
    /\ wg' = wg - 1
    /\ UNCHANGED <<now, entries, lastRun, fired, done, runs, registers, at, candidates, callVars>>

\* A handler returns.
RunEnds(n) ==
    /\ runs[n] > 0
    /\ runs' = [runs EXCEPT ![n] = @ - 1] /\ wg' = wg - 1
    /\ UNCHANGED <<now, entries, lastRun, fired, done, registers, loopVars, callVars>>

\* SIGTERM cancels the context main gave to Start.
Shutdown ==
    /\ ~done /\ done' = TRUE
    /\ UNCHANGED <<now, entries, lastRun, fired, runs, wg, registers, loopVars, callVars>>

TimePasses ==
    /\ \E t \in Instant : t > now /\ now' = t
    /\ UNCHANGED <<entries, lastRun, fired, done, runs, wg, registers, loopVars, callVars>>

LoopStep(l) == Tick(l) \/ Dispatched(l) \/ LoopEnds(l) \/ \E n \in Name : Fire(l, n)

SchedNext ==
    \/ \E n \in Name, e \in Entry : Register(n, e)
    \/ \E c \in Caller : Start(c) \/ Spawn(c) \/ Stop(c) \/ StopReturns(c)
    \/ \E l \in Loop : LoopStep(l)
    \/ \E n \in Name : RunEnds(n)
    \/ Shutdown \/ TimePasses

\* Goroutines run and handlers return.  A loop whose context is cancelled finds
\* it so in the end: a select takes any ready case, and ticks are far apart.
SchedFairness ==
    /\ \A c \in Caller : WF_schedVars(Spawn(c)) /\ WF_schedVars(StopReturns(c))
    /\ \A l \in Loop : WF_schedVars(LoopStep(l)) /\ SF_schedVars(LoopEnds(l))
    /\ \A n \in Name : WF_schedVars(RunEnds(n))

SchedSpec == SchedInit /\ [][SchedNext]_schedVars /\ SchedFairness

-----------------------------------------------------------------------------
(***************************************************************************)
(* Properties.                                                             *)
(***************************************************************************)

\* An entry runs at most once for each minute of its schedule: a run that is not
\* its first has a matching minute since the one before, whatever was registered
\* between the snapshot and the run.  Only a Start that overlaps a Stop makes two
\* loops that can both run it.
OncePerTime ==
    [][\A n \in Name : runs'[n] > runs[n] /\ fired[n] # ZeroTime /\ ~raced =>
         \E l \in Loop :
           /\ n \in DOMAIN candidates[l] \ DOMAIN candidates'[l]
           /\ \E m \in fired[n] \div 2 + 1 .. at[l] \div 2 :
                Matches(parseCron(candidates[l][n].entry.cron), m)]_schedVars

\* When every Stop has returned and nobody has called Start again, no loop and no
\* handler runs (scheduler.go:97, "Stop halts the scheduler loop and waits for any
\* dispatched jobs to finish"), unless a Start launched its loop while a Stop was
\* under way or another loop alive (raced), which Stop need not see.
StopIsQuiet ==
    ~running /\ ~raced /\ (\A c \in Caller : call[c] = Idle) =>
      Alive = {} /\ \A n \in Name : runs[n] = 0

\* Stop returns, called before Start or twice too, if no Start overlaps it.
StopEnds == \A c \in Caller : call[c] = Waits ~> call[c] # Waits \/ raced

\* Whether a minute of an entry's schedule has begun between a run at `from' and
\* `time', of the 4 * 365 days that Next looks at.
HasCome ==
    [e \in {f \in Entry : ValidCron(f.cron)} |->
       [from \in Instant \cup {ZeroTime} |->
          [time \in Instant |->
             \E m \in from \div 2 + 1 .. AtMost(time, Limit(from) - 1) \div 2 :
                Matches(parseCron(e.cron), m)]]]

\* An entry that is to run.
Due(n) ==
    entries[n] # NoEntry /\ entries[n].enabled /\ HasCome[entries[n]][lastRun[n]][now]

\* While the scheduler runs, an entry that has had a minute of its schedule since
\* its last run is run, also when the tick of that minute was missed; but for a
\* first minute that comes later than 4 * 365 days after that run, which Next does
\* not find: an entry for 29 February that has run once is not run again.
DueRuns == \A n \in Name : Due(n) ~> ~Due(n) \/ ~running \/ done

=============================================================================
