------------------------------- MODULE Backoff ------------------------------
(***************************************************************************)
(* internal/retry: the wait before a retry, and whether there is one.      *)
(* Durations are whole units; Multiplier, Jitter and the random number are *)
(* in percent, where the code has float64.  A zero in the configuration    *)
(* stands for every value NewEngine replaces.                              *)
(***************************************************************************)
EXTENDS Integers

Second == 100

NewEngine(cfg) ==
    LET base == IF cfg.base <= 0 THEN Second ELSE cfg.base
        max  == IF cfg.max <= 0 THEN 30 * Second ELSE cfg.max
    IN [base       |-> base,
        max        |-> IF max < base THEN base ELSE max,
        multiplier |-> IF cfg.multiplier <= 100 THEN 200 ELSE cfg.multiplier,
        jitter     |-> IF cfg.jitter < 0 THEN 0 ELSE IF cfg.jitter > 100 THEN 100 ELSE cfg.jitter,
        attempts   |-> cfg.attempts]

Capped(e, d) == IF d > e.max THEN e.max ELSE d

\* The delay before jitter.
Grown(e, attempt) ==
    LET g[n \in Nat] ==
          IF n = 0 THEN Capped(e, e.base) ELSE Capped(e, (g[n - 1] * e.multiplier) \div 100)
    IN g[attempt]

\* Plausible bug: the jitter is added to a delay that is already capped.
DelayJittersLast(e, attempt, random) ==
    LET d == Grown(e, attempt) IN d + (d * e.jitter * random) \div 10000

Delay(e, attempt, random) ==
    LET d == Grown(e, attempt) IN Capped(e, d + (d * e.jitter * random) \div 10000)

ShouldRetry(e, attempt, permanent) ==
    ~permanent /\ ~(e.attempts > 0 /\ attempt >= e.attempts)

=============================================================================
