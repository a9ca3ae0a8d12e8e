------------------------------ MODULE JobBoard ------------------------------
(***************************************************************************)
(* What the jobs table promises to the rest of the system, without saying  *)
(* who does what: each job has a state and, while it is being run, one     *)
(* owner.  This is the state machine of pkg/models and of CanTransition in *)
(* internal/store/store.go, with the two ways a claim can end without a    *)
(* result (ReleaseClaim and RequeueExpiredRunning) made explicit.          *)
(***************************************************************************)
CONSTANTS Job, Token, NoToken

VARIABLES state, owner

vars == <<state, owner>>

Init ==
    /\ state = [j \in Job |-> "ABSENT"]
    /\ owner = [j \in Job |-> NoToken]

Create(j) ==
    /\ state[j] = "ABSENT"
    /\ state' = [state EXCEPT ![j] = "PENDING"]
    /\ UNCHANGED owner

\* A waiting job gets an owner no other job has.
Claim(j, t) ==
    /\ state[j] = "PENDING"
    /\ \A k \in Job : owner[k] # t
    /\ state' = [state EXCEPT ![j] = "RUNNING"]
    /\ owner' = [owner EXCEPT ![j] = t]

\* The run ends with a result.
Finish(j, s) ==
    /\ state[j] = "RUNNING"
    /\ state' = [state EXCEPT ![j] = s]
    /\ owner' = [owner EXCEPT ![j] = NoToken]

\* The run fails and its owner schedules the next one.
Fail(j) ==
    /\ state[j] = "RUNNING"
    /\ state' = [state EXCEPT ![j] = "FAILED"]
    /\ UNCHANGED owner

Retry(j) ==
    /\ state[j] = "FAILED"
    /\ state' = [state EXCEPT ![j] = "PENDING"]
    /\ owner' = [owner EXCEPT ![j] = NoToken]

\* Claims end without a result: the jobs wait again, or are given up.
Lose(S, D) ==
    /\ \A j \in S : state[j] = "RUNNING"
    /\ state' = [j \in Job |-> IF j \notin S THEN state[j]
                               ELSE IF j \in D THEN "DEAD" ELSE "PENDING"]
    /\ owner' = [j \in Job |-> IF j \in S THEN NoToken ELSE owner[j]]

Cancel(j) ==
    /\ state[j] \in {"PENDING", "RUNNING", "FAILED"}
    /\ state' = [state EXCEPT ![j] = "DEAD"]
    /\ UNCHANGED owner

Next ==
    \/ \E j \in Job : \/ Create(j) \/ Fail(j) \/ Retry(j) \/ Cancel(j)
                      \/ \E t \in Token : Claim(j, t)
                      \/ \E s \in {"COMPLETED", "DEAD"} : Finish(j, s)
    \/ \E S \in SUBSET Job : \E D \in SUBSET S : Lose(S, D)

Spec == Init /\ [][Next]_vars

=============================================================================
