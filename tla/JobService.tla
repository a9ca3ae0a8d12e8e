----------------------------- MODULE JobService -----------------------------
(***************************************************************************)
(* JobService.Enqueue of internal/service/job_service.go: concurrent       *)
(* requests, some with the same idempotency key because a client repeats   *)
(* what it got no answer to.  Steps are the store's statements and the     *)
(* publish goroutine.  A request draws a random job id, so the request     *)
(* stands for the id; nothing deletes rows.                                *)
(*                                                                         *)
(* MaxFaults counts statements that report an error, whether or not they   *)
(* took effect, publishes that fail and crashes.                           *)
(***************************************************************************)
EXTENDS Naturals

CONSTANTS
    Call,        \* the requests
    Key, NoKey,
    KeyOf,       \* the idempotency key of a request
    Due,         \* requests whose scheduled_at is not in the future
    NullScan,    \* whether scanning NULL into a Go string fails
    None, Failed,
    MaxFaults

ASSUME ServiceAssumption ==
    /\ KeyOf \in [Call -> Key \cup {NoKey}] /\ NoKey \notin Key
    /\ Due \subseteq Call /\ NullScan \in BOOLEAN
    /\ None \notin Call /\ Failed \notin Call /\ None # Failed
    /\ MaxFaults \in Nat

VARIABLES
    rows,      \* ids in the jobs table
    leased,    \* those whose lease_token is not NULL: some worker runs them
    pc, answer,
    pub,       \* the publish goroutine of a call
    faults

serviceVars == <<rows, leased, pc, answer, pub, faults>>

ServiceInit ==
    /\ rows = {} /\ leased = {}
    /\ pc = [c \in Call |-> "start"]
    /\ answer = [c \in Call |-> None]
    /\ pub = [c \in Call |-> "none"]
    /\ faults = MaxFaults

Fault == faults > 0 /\ faults' = faults - 1

SameKey(c) == {j \in rows : KeyOf[c] # NoKey /\ KeyOf[j] = KeyOf[c]}

Answer(c, a) ==
    /\ pc' = [pc EXCEPT ![c] = "done"]
    /\ answer' = [answer EXCEPT ![c] = a]

Goto(c, l) == pc' = [pc EXCEPT ![c] = l] /\ UNCHANGED answer

\* GetJobByIdempotencyKey finds the row: its id, unless scanJob cannot read it.
Found(c, j) == Answer(c, IF NullScan /\ j \notin leased THEN Failed ELSE j)

\* The lookup before the insert.
Lookup(c) ==
    /\ pc[c] = "start"
    /\ \/ /\ SameKey(c) # {} /\ UNCHANGED faults
          /\ \E j \in SameKey(c) : Found(c, j)
       \/ SameKey(c) = {} /\ UNCHANGED faults /\ Goto(c, "create")
       \/ KeyOf[c] # NoKey /\ Fault /\ Answer(c, Failed)
    /\ UNCHANGED <<rows, leased, pub>>

\* Plausible bug: the table has no unique index on the key.
ConflictNever(c) == FALSE

\* The unique index on idempotency_key.
Conflict(c) == SameKey(c) # {}

\* CreateJob reports ErrDuplicateIdempotencyKey.
Duplicate(c) ==
    /\ pc[c] = "create" /\ Conflict(c)
    /\ Goto(c, "again")
    /\ UNCHANGED <<rows, leased, pub, faults>>

\* Plausible bug: the message goes out beside the insert, not after it.
CreatePublishesFirst(c) ==
    /\ pc[c] = "create" /\ ~Conflict(c)
    /\ \/ /\ UNCHANGED faults /\ Answer(c, c)
          /\ rows' = rows \cup {c}
       \/ /\ Fault /\ Answer(c, Failed)
          /\ rows' \in {rows, rows \cup {c}}
    /\ pub' = [pub EXCEPT ![c] = IF c \in Due THEN "started" ELSE "none"]
    /\ UNCHANGED leased

\* CreateJob, and the publish goroutine once it has succeeded.
Create(c) ==
    /\ pc[c] = "create" /\ ~Conflict(c)
    /\ \/ /\ UNCHANGED faults /\ Answer(c, c)
          /\ rows' = rows \cup {c}
          /\ pub' = [pub EXCEPT ![c] = IF c \in Due THEN "started" ELSE "none"]
       \/ /\ Fault /\ Answer(c, Failed)
          /\ rows' \in {rows, rows \cup {c}}
          /\ UNCHANGED pub
    /\ UNCHANGED leased

\* The lookup after a duplicate.
LookupAgain(c) ==
    /\ pc[c] = "again"
    /\ \/ UNCHANGED faults /\ \E j \in SameKey(c) : Found(c, j)
       \/ Fault /\ Answer(c, Failed)
    /\ UNCHANGED <<rows, leased, pub>>

\* The goroutine sends the message, or fails, or dies with the process.
Publish(c) ==
    /\ pub[c] = "started"
    /\ \/ UNCHANGED faults /\ pub' = [pub EXCEPT ![c] = "sent"]
       \/ Fault /\ pub' = [pub EXCEPT ![c] = "lost"]
    /\ UNCHANGED <<rows, leased, pc, answer>>

\* The process dies before it answers.
Crash(c) ==
    /\ pc[c] # "done" /\ Fault
    /\ Answer(c, Failed)
    /\ UNCHANGED <<rows, leased, pub>>

\* The rest of the system claims a job, and ends or releases it.
Claim(j) ==
    /\ j \in rows /\ j \notin leased /\ leased' = leased \cup {j}
    /\ UNCHANGED <<rows, pc, answer, pub, faults>>

Unclaim(j) ==
    /\ j \in leased /\ leased' = leased \ {j}
    /\ UNCHANGED <<rows, pc, answer, pub, faults>>

Step(c) == Lookup(c) \/ Duplicate(c) \/ Create(c) \/ LookupAgain(c)

ServiceNext == \E c \in Call : Step(c) \/ Publish(c) \/ Crash(c) \/ Claim(c) \/ Unclaim(c)

ServiceSpec == ServiceInit /\ [][ServiceNext]_serviceVars

-----------------------------------------------------------------------------

\* The type invariant.
ServiceTypeOK ==
    /\ rows \subseteq Call /\ leased \subseteq rows
    /\ pc \in [Call -> {"start", "create", "again", "done"}]
    /\ answer \in [Call -> Call \cup {None, Failed}]
    /\ pub \in [Call -> {"none", "started", "sent", "lost"}]
    /\ faults \in 0..MaxFaults

\* Requests with the same key never make two jobs, and the ones that are
\* answered are all answered with the one job that exists, however their
\* statements interleave and whichever of them failed
\* (docs/product-plan.md:59, "client retries do not create duplicate workflow
\* runs").
OneJobPerKey ==
    \A c, d \in Call :
      KeyOf[c] # NoKey /\ KeyOf[c] = KeyOf[d] =>
        /\ c \in rows /\ d \in rows => c = d
        /\ answer[c] \in Call => answer[c] \in rows /\ KeyOf[answer[c]] = KeyOf[c]
        /\ answer[c] \in Call /\ answer[d] \in Call => answer[c] = answer[d]

\* A message in Kafka is about a job that is in the table, and one request at
\* most sends it: the consumer never sees a job that was not stored, or that
\* its client was told has failed.
PublishedIsStored ==
    \A c \in Call : pub[c] # "none" => c \in rows /\ answer[c] = c

=============================================================================
