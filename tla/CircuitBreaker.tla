--------------------------- MODULE CircuitBreaker ---------------------------
(***************************************************************************)
(* internal/circuitbreaker, and the workers of one instance that share a   *)
(* breaker.  jobWorker.Run asks Allow before it takes the execution lock   *)
(* and reports a result only when its handler returns, so a result can be  *)
(* reported long after the call was let in, in another state of the        *)
(* breaker, or never (no lock, no claim, a handler that panics).           *)
(*                                                                         *)
(* A call to Allow that answers false changes nothing and is no step.      *)
(***************************************************************************)
EXTENDS Naturals

CONSTANTS
    Worker,
    FailureThreshold, SuccessThreshold, HalfOpenRequests,
    MaxTrouble      \* failures and lost calls: the downstream recovers

ASSUME BreakerAssumption ==
    /\ FailureThreshold \in Nat \ {0} /\ SuccessThreshold \in Nat \ {0}
    /\ HalfOpenRequests \in Nat \ {0} /\ MaxTrouble \in Nat

VARIABLES
    state, failures, successes,
    elapsed,    \* whether OpenTimeout has passed since openedAt
    busy,       \* the workers Allow has let in and that have not reported
    trouble,    \* what is left of MaxTrouble
    streak      \* history: the last result and how often it came in a row

breakerVars == <<state, failures, successes, elapsed>>
vars == <<breakerVars, busy, trouble, streak>>

Init ==
    /\ state = "closed" /\ failures = 0 /\ successes = 0 /\ elapsed = FALSE
    /\ busy = {} /\ trouble = MaxTrouble
    /\ streak = [result |-> "none", length |-> 0]

\* The history is counted up to this.
StreakCap == FailureThreshold + SuccessThreshold

CountUpTo(n, cap) == IF n < cap THEN n + 1 ELSE n

\* The streak after a result; a change of state begins a new one.
Observe(r) ==
    streak' = IF state' # state THEN [result |-> "none", length |-> 0]
              ELSE IF streak.result = r
              THEN [streak EXCEPT !.length = CountUpTo(streak.length, StreakCap)]
              ELSE [result |-> r, length |-> 1]

\* The streak a result completes, whatever it does to the state.
Streak(r) == IF streak.result = r THEN streak.length + 1 ELSE 1

Spend == trouble > 0 /\ trouble' = trouble - 1

-----------------------------------------------------------------------------

\* Plausible bug: half-open is handled like open, and every call starts afresh.
AllowRestarts ==
    \/ /\ state = "closed"
       /\ UNCHANGED breakerVars
    \/ /\ state = "half-open" \/ (state = "open" /\ elapsed)
       /\ state' = "half-open" /\ failures' = 0 /\ successes' = 0
       /\ UNCHANGED elapsed

\* Allow returns true.
Allow ==
    \/ /\ state = "closed"
       /\ UNCHANGED breakerVars
    \/ /\ state = "open" /\ elapsed
       /\ state' = "half-open" /\ failures' = 0 /\ successes' = 0
       /\ UNCHANGED elapsed
    \/ /\ state = "half-open" /\ successes < HalfOpenRequests
       /\ UNCHANGED breakerVars

\* Plausible bug: a success does not forget the failures before it.
RecordSuccessKeepsFailures ==
    \/ /\ state = "half-open" /\ successes + 1 < SuccessThreshold
       /\ successes' = successes + 1
       /\ UNCHANGED <<state, failures, elapsed>>
    \/ /\ state = "half-open" /\ successes + 1 >= SuccessThreshold
       /\ state' = "closed" /\ failures' = 0 /\ successes' = 0
       /\ UNCHANGED elapsed
    \/ /\ state \in {"closed", "open"}
       /\ UNCHANGED breakerVars

RecordSuccess ==
    \/ /\ state = "half-open" /\ successes + 1 < SuccessThreshold
       /\ successes' = successes + 1
       /\ UNCHANGED <<state, failures, elapsed>>
    \/ /\ state = "half-open" /\ successes + 1 >= SuccessThreshold
       /\ state' = "closed" /\ failures' = 0 /\ successes' = 0
       /\ UNCHANGED elapsed
    \/ /\ state = "closed"
       /\ failures' = 0
       /\ UNCHANGED <<state, successes, elapsed>>
    \/ state = "open" /\ UNCHANGED breakerVars

RecordFailure ==
    \/ /\ state = "closed" /\ failures + 1 < FailureThreshold
       /\ failures' = failures + 1
       /\ UNCHANGED <<state, successes, elapsed>>
    \/ /\ state = "closed" /\ failures + 1 >= FailureThreshold
       /\ failures' = failures + 1
       /\ state' = "open" /\ elapsed' = FALSE
       /\ UNCHANGED successes
    \/ /\ state = "half-open"
       /\ state' = "open" /\ elapsed' = FALSE
       /\ failures' = 0 /\ successes' = 0
    \/ state = "open" /\ UNCHANGED breakerVars

-----------------------------------------------------------------------------
(***************************************************************************)
(* The workers.                                                            *)
(***************************************************************************)

Enter(w) ==
    /\ w \notin busy /\ Allow
    /\ busy' = busy \cup {w}
    /\ streak' = IF state' # state THEN [result |-> "none", length |-> 0] ELSE streak
    /\ UNCHANGED trouble

Succeed(w) ==
    /\ w \in busy /\ RecordSuccess /\ Observe("success")
    /\ busy' = busy \ {w}
    /\ UNCHANGED trouble

Fail(w) ==
    /\ w \in busy /\ Spend /\ RecordFailure /\ Observe("failure")
    /\ busy' = busy \ {w}

\* Run returns without a result for the breaker: Acquire or the claim of a
\* delivered job failed, or the handler panicked.
Lose(w) ==
    /\ w \in busy /\ Spend
    /\ busy' = busy \ {w}
    /\ UNCHANGED <<breakerVars, streak>>

OpenTimeoutPasses ==
    /\ state = "open" /\ ~elapsed /\ elapsed' = TRUE
    /\ UNCHANGED <<state, failures, successes, busy, trouble, streak>>

Next ==
    \/ \E w \in Worker : Enter(w) \/ Succeed(w) \/ Fail(w) \/ Lose(w)
    \/ OpenTimeoutPasses

Spec == Init /\ [][Next]_vars

\* There is always another job for a free worker, handlers return, time passes.
Fairness ==
    /\ \A w \in Worker : WF_vars(Enter(w)) /\ WF_vars(Succeed(w) \/ Fail(w) \/ Lose(w))
    /\ WF_vars(OpenTimeoutPasses)

FairSpec == Spec /\ Fairness

-----------------------------------------------------------------------------
(***************************************************************************)
(* Properties.                                                             *)
(***************************************************************************)

\* The type invariant, with the range of each counter in each state.
TypeOK ==
    /\ state \in {"closed", "open", "half-open"}
    /\ failures \in 0..FailureThreshold /\ successes \in 0..SuccessThreshold
    /\ state = "closed" => failures < FailureThreshold
    /\ state = "half-open" => successes < SuccessThreshold
    /\ elapsed \in BOOLEAN
    /\ busy \subseteq Worker
    /\ trouble \in 0..MaxTrouble
    /\ streak \in [result : {"none", "success", "failure"}, length : 0..StreakCap]

\* The counters say what has happened since the state was entered: in closed
\* failures is the run of failures, in half-open only successes were reported.
CountersMatchHistory ==
    /\ state = "closed" =>
         failures = IF streak.result = "failure" THEN streak.length ELSE 0
    /\ state = "half-open" =>
         /\ streak.result # "failure"
         /\ successes = streak.length

\* The breaker opens only after FailureThreshold failures in a row, or on a
\* failure while it is half-open; it closes only after SuccessThreshold successes
\* since it became half-open, none of them interrupted by a failure.  Results
\* that arrive in another state than the call was let in keep to this too.
TransitionsEarned ==
    [][/\ state = "closed" /\ state' # state =>
            state' = "open" /\ Streak("failure") >= FailureThreshold
       /\ state = "half-open" /\ state' = "closed" =>
            Streak("success") >= SuccessThreshold
       /\ state = "open" /\ state' # state => state' = "half-open" /\ elapsed]_vars

\* Once the downstream works again, the breaker closes for good
\* (docs/ARCHITECTURE.md:160, "Closed -> Open -> Half-Open -> Closed").
Recovers == <>[](state = "closed")

\* Half-open with its requests used up and nobody left to report a result.
Stuck == state = "half-open" /\ successes >= HalfOpenRequests /\ busy = {}

=============================================================================
