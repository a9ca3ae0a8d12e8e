------------------------------ MODULE JobStore ------------------------------
(***************************************************************************)
(* The jobs table of internal/store/store.go: what one row holds and what  *)
(* each SQL statement of PostgresStore does to it.  A statement is an      *)
(* operator from the old row (and the caller's copy of the job) to the new *)
(* row; its WHERE clause is a predicate of its own.  PostgreSQL runs each  *)
(* statement atomically, so the modules that use these operators take one  *)
(* step per statement, and two steps for UpdateJob and CancelJob, which    *)
(* read the row in one statement and write it in another.                  *)
(*                                                                         *)
(* Timestamps are kept by what the statements ask of them: scheduled_at is *)
(* due or not, lease_expires_at is NULL, in the future or in the past.     *)
(***************************************************************************)
EXTENDS Naturals

CONSTANTS
    Token,       \* the lease tokens newLeaseToken can draw
    NoToken,     \* NULL in lease_token, "" in models.Job.LeaseToken
    AttemptCap   \* attempt is counted up to here; the comparisons with
                 \* max_retries stay exact while it exceeds max_retries

ASSUME JobStoreAssumption ==
    /\ NoToken \notin Token
    /\ AttemptCap \in Nat \ {0}

JobState == {"PENDING", "RUNNING", "COMPLETED", "FAILED", "DEAD"}

Terminal == {"COMPLETED", "DEAD"}

Lease == {"null", "future", "past"}

\* The columns of a row that some statement reads or some property is about.
\* "ABSENT" stands for an id that CreateJob has not inserted yet.
Row == [state   : JobState \cup {"ABSENT"},
        attempt : 0..AttemptCap,
        due     : BOOLEAN,
        lease   : Lease,
        token   : Token \cup {NoToken}]

AbsentRow == [state |-> "ABSENT", attempt |-> 0, due |-> FALSE,
              lease |-> "null", token |-> NoToken]

\* attempt + 1, counted up to AttemptCap.
NextAttempt(n) == IF n < AttemptCap THEN n + 1 ELSE n

-----------------------------------------------------------------------------

CanTransition(from, to) ==
    \/ from = "PENDING" /\ to \in {"RUNNING", "DEAD"}
    \/ from = "RUNNING" /\ to \in {"COMPLETED", "FAILED", "DEAD"}
    \/ from = "FAILED"  /\ to \in {"PENDING", "DEAD"}

-----------------------------------------------------------------------------
(***************************************************************************)
(* The statements.                                                         *)
(***************************************************************************)

CreateRow(due) == [state |-> "PENDING", attempt |-> 0, due |-> due,
                   lease |-> "null", token |-> NoToken]

\* Plausible bug: a WHERE clause that names the id alone.
UpdateJobWhereUnfenced(row, job) == row.state # "ABSENT"

\* Plausible bug: a claim whose lease has run out is refused, taken over or not.
UpdateJobWhereLive(row, job) ==
    \/ job.token = NoToken
    \/ row.token = job.token /\ row.lease # "past"
    \/ row.state = "PENDING" /\ job.state = "RUNNING" /\ row.token = NoToken

UpdateJobWhere(row, job) ==
    \/ job.token = NoToken
    \/ row.token = job.token
    \/ row.state = "PENDING" /\ job.state = "RUNNING" /\ row.token = NoToken

\* Plausible bug: the claim survives the end of the run.
UpdateRowKeepsToken(row, job) ==
    [state   |-> job.state,
     attempt |-> job.attempt,
     due     |-> job.due,
     lease   |-> job.lease,
     token   |-> job.token]

\* The SET clause of UpdateJob: every column comes from the caller's copy.
UpdateRow(row, job) ==
    [state   |-> job.state,
     attempt |-> job.attempt,
     due     |-> job.due,
     lease   |-> job.lease,
     token   |-> IF job.state \in {"COMPLETED", "DEAD", "PENDING"}
                 THEN NoToken ELSE job.token]

\* CancelJob's UPDATE names the id alone: no state, no token.
CancelRow(row) == [row EXCEPT !.state = "DEAD"]

\* Plausible bug: RUNNING rows are taken over.
ClaimWhereAny(row) == row.state \in {"PENDING", "RUNNING"} /\ row.due

ClaimWhere(row) == row.state = "PENDING" /\ row.due

\* Plausible bug: the claim has no lease, so nothing ever recovers it.
ClaimRowNoLease(row, t) ==
    [row EXCEPT !.state = "RUNNING", !.attempt = NextAttempt(row.attempt),
                !.token = t]

ClaimRow(row, t) ==
    [row EXCEPT !.state = "RUNNING", !.attempt = NextAttempt(row.attempt),
                !.lease = "future", !.token = t]

\* The WHERE clause shared by RenewLease and ReleaseClaim.
OwnsClaim(row, job) == row.state = "RUNNING" /\ row.token = job.token

RenewRow(row) == [row EXCEPT !.lease = "future"]

ReleaseRow(row) ==
    [row EXCEPT !.state = "PENDING", !.lease = "null", !.token = NoToken]

RequeueWhere(row) == row.state = "RUNNING" /\ row.lease = "past"

\* Plausible bug: the recovery forgets the retry budget.
RequeueRowAlways(row, max) ==
    [row EXCEPT !.state = "PENDING", !.due = TRUE, !.lease = "null",
                !.token = NoToken]

RequeueRow(row, max) ==
    IF max > 0 /\ row.attempt >= max
    THEN [row EXCEPT !.state = "DEAD", !.lease = "null", !.token = NoToken]
    ELSE [row EXCEPT !.state = "PENDING", !.due = TRUE, !.lease = "null",
                     !.token = NoToken]

=============================================================================
