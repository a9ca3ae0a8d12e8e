------------------------------- MODULE Timing -------------------------------
(***************************************************************************)
(* What happens again and again by the clock: a job that fails each time   *)
(* is run again after the Delay of the retry engine, and an entry of the   *)
(* scheduler at the times that Next returns, each sought from the last.    *)
(* A behaviour has one job and one entry; they share nothing.              *)
(***************************************************************************)
EXTENDS Backoff, Cron

CONSTANTS
    Engine,         \* configurations of the retry engine
    Random,         \* outcomes of rand.Float64, in percent
    MaxFailures,
    Expr,           \* cron expressions
    From,           \* times an entry can have run last
    MaxRuns

ASSUME TimingAssumption ==
    /\ \A cfg \in Engine : {cfg.base, cfg.max, cfg.multiplier, cfg.jitter} \subseteq Int
    /\ Random \subseteq 0..99 /\ From \subseteq Nat
    /\ MaxFailures \in Nat /\ MaxRuns \in Nat

VARIABLES
    engine,     \* << >> in a behaviour of an entry
    attempt,
    wait,       \* the delay of the last retry; 0 before the first
    cron,       \* << >> in a behaviour of a job
    last,
    next,       \* the last answer of Next
    ran         \* how often it was asked, or MaxRuns when there is no next time

timingVars == <<engine, attempt, wait, cron, last, next, ran>>

NoTiming ==
    /\ engine = << >> /\ attempt = 0 /\ wait = 0
    /\ cron = << >> /\ last = ZeroTime /\ next = ZeroTime /\ ran = 0

TimingInit ==
    /\ \/ /\ engine \in {NewEngine(cfg) : cfg \in Engine}
          /\ cron = << >> /\ last = ZeroTime
       \/ /\ engine = << >>
          /\ cron \in {parseCron(x) : x \in {y \in Expr : ValidCron(y)}} /\ last \in From
    /\ attempt = 0 /\ wait = 0 /\ next = ZeroTime /\ ran = 0

\* A run fails and is scheduled again.
scheduleRetry ==
    /\ engine # << >> /\ attempt < MaxFailures
    /\ attempt' = attempt + 1
    /\ \E random \in Random : wait' = Delay(engine, attempt', random)
    /\ UNCHANGED <<engine, cron, last, next, ran>>

\* The entry runs on the minute, or at a tick within it.
RunNext ==
    LET t == NextMinute(cron, last) IN
    /\ cron # << >> /\ ran < MaxRuns
    /\ next' = t
    /\ IF t = ZeroTime THEN ran' = MaxRuns /\ UNCHANGED last
                       ELSE ran' = ran + 1 /\ last' \in {2 * t, 2 * t + 1}
    /\ UNCHANGED <<engine, attempt, wait, cron>>

TimingNext == scheduleRetry \/ RunNext

TimingSpec == TimingInit /\ [][TimingNext]_timingVars

-----------------------------------------------------------------------------

\* Whatever the configuration, a wait is positive and at most MaxDelay, jitter
\* included, and where the jitter is less than the growth a further failure
\* never makes it shorter: the retries of a job spread out until they are at the
\* cap.
BackoffGrows ==
    [][attempt' > attempt =>
         /\ wait' \in 1..engine.max
         /\ 100 + engine.jitter <= engine.multiplier => wait <= wait']_timingVars

\* No minute later than `from' and up to `end' matches, by the days in question.
NoneUntil(c, from, end) ==
    \A n \in DayIn(from \div 2)..DayIn(end) :
      DayMatches(c, n) =>
        \A s \in MinutesPerDay * n .. MinutesPerDay * (n + 1) - 1 :
          Matches(c, s) => 2 * s <= from \/ s > end

\* Next skips months, days and hours and still returns the first minute after
\* the last run that matches, across the ends of months and leap years; and it
\* returns the zero time only if none of the first 4 * 365 days has one.  What
\* the code's comment promises of the rest of the four years is
\* ZeroIfNoneInFourYears.
NextIsEarliest ==
    [][ran' > ran =>
         IF next' = ZeroTime
         THEN NoneUntil(cron, last, (Limit(last) - 1) \div 2)
         ELSE Matches(cron, next') /\ 2 * next' > last /\ NoneUntil(cron, last, next' - 1)]_timingVars

\* The same date and time four years later.
FourYearsAfter(from) ==
    LET n == DayIn(from \div 2)
    IN from + 2 * MinutesPerDay * (DayOf(Date(n).year + 4, Date(n).month, Date(n).day) - n)

\* Next "Returns the zero time if no match is found within four years"
\* (internal/scheduler/scheduler.go:251), and otherwise a time.  It is not so on
\* the last day of them: an entry for 29 February that has run has no next time.
ZeroIfNoneInFourYears ==
    [][ran' > ran /\ next' = ZeroTime =>
         NoneUntil(cron, last, FourYearsAfter(last) \div 2)]_timingVars

=============================================================================
