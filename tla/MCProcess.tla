----------------------------- MODULE MCProcess ------------------------------
(***************************************************************************)
(* Three parts of a process that share no state, for TLC: the worker pool, *)
(* the cron scheduler, and the times of retries and entries.  A behaviour  *)
(* is one of a single part; the others stay as they begin, and only the    *)
(* part that runs is fair (nothing that SchedFairness is about is enabled  *)
(* before the first step of the scheduler).                                *)
(*                                                                         *)
(* An hour has two minutes and a day two hours; the instants of the        *)
(* scheduler are on two leap days.                                         *)
(***************************************************************************)
EXTENDS WorkerPool, Scheduler, MCTiming

CONSTANTS j1, j2, j3, j4, k1, k2, nightly, p, q

MCEntry ==
    {[cron |-> Fields(Only(0), Only(1), All, All, All), enabled |-> TRUE],
     [cron |-> LeapDay, enabled |-> TRUE],
     [cron |-> Fields(All, All, All, All, All), enabled |-> FALSE],
     [cron |-> Fields(Only(MinutesPerHour), All, All, All, All), enabled |-> TRUE]}

MCDay == At(2028, 2, 29, 1)
MCInstant == {MCDay, At(2032, 2, 29, 1)}

VARIABLE part

MCInit ==
    /\ Init /\ SchedInit
    /\ \/ part = "scheduler" /\ NoTiming
       \/ part = "pool" /\ NoTiming /\ now = MCDay
       \/ part = "timing" /\ TimingInit /\ now = MCDay

MCNext ==
    /\ UNCHANGED part
    /\ \/ part = "pool" /\ Next /\ UNCHANGED <<schedVars, timingVars>>
       \/ part = "scheduler" /\ SchedNext /\ UNCHANGED <<vars, timingVars>>
       \/ part = "timing" /\ TimingNext /\ UNCHANGED <<vars, schedVars>>

PoolFairness ==
    /\ \A s \in Submitter : WF_vars(part = "pool" /\ SubmitStep(s))
    /\ WF_vars(part = "pool" /\ DispStep) /\ WF_vars(part = "pool" /\ MainStep)
    /\ \A j \in Job : WF_vars(part = "pool" /\ RunStep(j))

MCSpec ==
    /\ MCInit /\ [][MCNext]_<<part, vars, schedVars, timingVars>>
    /\ PoolFairness /\ SchedFairness

=============================================================================
