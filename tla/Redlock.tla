------------------------------ MODULE Redlock -------------------------------
(***************************************************************************)
(* lock.Manager of internal/lock/redlock.go: callers of all instances that *)
(* compete for the key of one job on Nodes independent Redis servers, one  *)
(* call to one server at a time.                                           *)
(*                                                                         *)
(* Acquire draws a random value for the whole call, so a key tells the     *)
(* call and, for what can have expired, the attempt that wrote it.  What a *)
(* call leaves behind when it ends belongs to no call any more (Gone).     *)
(*                                                                         *)
(* Time: every attempt has a moment at which TTL - drift has passed since  *)
(* it began (late).  No key of the attempt expires before; after it, any   *)
(* may.  What can fail is drawn from FaultKinds and counted by MaxFaults:  *)
(*   error   a call to a server reports an error, and may have taken       *)
(*           effect                                                        *)
(*   ctx     the caller's context is cancelled between two attempts        *)
(*   crash   the process of a caller stops                                 *)
(*   forget  a server restarts without its keys                            *)
(***************************************************************************)
EXTENDS Naturals, FiniteSets

CONSTANTS
    Client,             \* the callers: the workers of all instances
    Nodes,              \* len(clients)
    Quorum, RetryCount,
    Free, Gone, Nobody,
    FaultKinds, MaxFaults

Node == 1..Nodes

\* NewManager: a quorum that is not configured is a majority.
ASSUME RedlockAssumption ==
    /\ Nodes \in Nat \ {0} /\ Quorum = (Nodes \div 2) + 1 /\ RetryCount \in Nat \ {0}
    /\ FaultKinds \subseteq {"error", "ctx", "crash", "forget"} /\ MaxFaults \in Nat
    /\ Free \notin Client \X (1..RetryCount) /\ Gone \notin Client \X (1..RetryCount)
    /\ Free # Gone /\ Nobody \notin Client

VARIABLES
    key,        \* what each server has under the resource
    pc,         \* where each caller is
    at,         \* the server its loop has come to
    attempt, acquired, late,
    faults      \* what is left of the budget, the servers that forgot a key

vars == <<key, pc, at, attempt, acquired, late, faults>>

PC == {"idle", "set", "undo", "held", "release"}

Init ==
    /\ key = [n \in Node |-> Free]
    /\ pc = [c \in Client |-> "idle"]
    /\ at = [c \in Client |-> 1]
    /\ attempt = [c \in Client |-> 1]
    /\ acquired = [c \in Client |-> 0]
    /\ late = [c \in Client |-> FALSE]
    /\ faults = [left |-> MaxFaults, forgot |-> {}]

CanFail(k) == k \in FaultKinds /\ faults.left > 0

Fault(k) ==
    CanFail(k) /\ faults' = [left |-> faults.left - 1, forgot |-> faults.forgot]

Value(c) == <<c, attempt[c]>>

\* A key of this call, written by this attempt or by an earlier one.
Own(c, k) == k \in {<<c, a>> : a \in 1..RetryCount}

-----------------------------------------------------------------------------
(***************************************************************************)
(* Acquire.                                                                *)
(***************************************************************************)

BeginAttempt(c, a) ==
    /\ pc' = [pc EXCEPT ![c] = "set"]
    /\ at' = [at EXCEPT ![c] = 1]
    /\ attempt' = [attempt EXCEPT ![c] = a]
    /\ acquired' = [acquired EXCEPT ![c] = 0]
    /\ late' = [late EXCEPT ![c] = FALSE]

Start(c) ==
    /\ pc[c] = "idle"
    /\ BeginAttempt(c, 1)
    /\ UNCHANGED <<key, faults>>

SetNX(c) ==
    /\ pc[c] = "set" /\ at[c] \in Node
    /\ IF key[at[c]] = Free
       THEN /\ key' = [key EXCEPT ![at[c]] = Value(c)]
            /\ acquired' = [acquired EXCEPT ![c] = @ + 1]
       ELSE UNCHANGED <<key, acquired>>
    /\ at' = [at EXCEPT ![c] = @ + 1]
    /\ UNCHANGED <<pc, attempt, late, faults>>

SetNXFails(c) ==
    /\ pc[c] = "set" /\ at[c] \in Node /\ Fault("error")
    /\ \/ UNCHANGED key
       \/ key[at[c]] = Free /\ key' = [key EXCEPT ![at[c]] = Value(c)]
    /\ at' = [at EXCEPT ![c] = @ + 1]
    /\ UNCHANGED <<pc, attempt, acquired, late>>

\* Plausible bug: half of the servers are enough.
WinsWithHalf(c) == acquired[c] + 1 >= Quorum /\ ~late[c]

Wins(c) == acquired[c] >= Quorum /\ ~late[c]

Won(c) ==
    /\ pc[c] = "set" /\ at[c] = Nodes + 1 /\ Wins(c)
    /\ pc' = [pc EXCEPT ![c] = "held"]
    /\ UNCHANGED <<key, at, attempt, acquired, late, faults>>

Lost(c) ==
    /\ pc[c] = "set" /\ at[c] = Nodes + 1 /\ ~Wins(c)
    /\ pc' = [pc EXCEPT ![c] = "undo"]
    /\ at' = [at EXCEPT ![c] = 1]
    /\ UNCHANGED <<key, attempt, acquired, late, faults>>

\* Plausible bug: DEL whatever the key holds.
DeletesAny(c, n) == [key EXCEPT ![n] = Free]

\* releaseScript on one server.
Deletes(c, n) == [key EXCEPT ![n] = IF Own(c, @) THEN Free ELSE @]

\* releaseSingle and the loop of Release: an error is ignored, or reported to
\* a caller that ignores it.
ReleaseNode(c) ==
    /\ pc[c] \in {"undo", "release"} /\ at[c] \in Node
    /\ \/ UNCHANGED faults /\ key' = Deletes(c, at[c])
       \/ Fault("error") /\ key' \in {key, Deletes(c, at[c])}
    /\ at' = [at EXCEPT ![c] = @ + 1]
    /\ UNCHANGED <<pc, attempt, acquired, late>>

Retry(c) ==
    /\ pc[c] = "undo" /\ at[c] = Nodes + 1 /\ attempt[c] < RetryCount
    /\ BeginAttempt(c, attempt[c] + 1)
    /\ UNCHANGED <<key, faults>>

\* The call is over, with nothing held; keys it could not delete stay.
EndCall(c) ==
    /\ pc' = [pc EXCEPT ![c] = "idle"]
    /\ key' = [n \in Node |-> IF Own(c, key[n]) THEN Gone ELSE key[n]]
    /\ at' = [at EXCEPT ![c] = 1]
    /\ attempt' = [attempt EXCEPT ![c] = 1]
    /\ acquired' = [acquired EXCEPT ![c] = 0]
    /\ late' = [late EXCEPT ![c] = FALSE]

GiveUp(c) ==
    /\ pc[c] = "undo" /\ at[c] = Nodes + 1
    /\ IF attempt[c] = RetryCount THEN UNCHANGED faults ELSE Fault("ctx")
    /\ EndCall(c)

-----------------------------------------------------------------------------
(***************************************************************************)
(* Release.                                                                *)
(***************************************************************************)

Release(c) ==
    /\ pc[c] = "held"
    /\ pc' = [pc EXCEPT ![c] = "release"]
    /\ at' = [at EXCEPT ![c] = 1]
    /\ UNCHANGED <<key, attempt, acquired, late, faults>>

Released(c) ==
    /\ pc[c] = "release" /\ at[c] = Nodes + 1
    /\ EndCall(c)
    /\ UNCHANGED faults

Crash(c) ==
    /\ Fault("crash") /\ pc[c] # "idle"
    /\ EndCall(c)

-----------------------------------------------------------------------------
(***************************************************************************)
(* Time and the servers.                                                   *)
(***************************************************************************)

\* TTL - drift has passed since the attempt began.
Late(c) ==
    /\ pc[c] # "idle" /\ ~late[c]
    /\ late' = [late EXCEPT ![c] = TRUE]
    /\ UNCHANGED <<key, pc, at, attempt, acquired, faults>>

\* Plausible bug: SET NX without a TTL.
NeverExpires(k) == FALSE

Expirable(k) ==
    \/ k = Gone
    \/ \E c \in Client : Own(c, k) /\ (late[c] \/ k # Value(c))

Expires(n) ==
    /\ Expirable(key[n])
    /\ key' = [key EXCEPT ![n] = Free]
    /\ UNCHANGED <<pc, at, attempt, acquired, late, faults>>

Forget(n) ==
    /\ CanFail("forget") /\ key[n] # Free
    /\ faults' = [left |-> faults.left - 1, forgot |-> faults.forgot \cup {n}]
    /\ key' = [key EXCEPT ![n] = Free]
    /\ UNCHANGED <<pc, at, attempt, acquired, late>>

ClientStep(c) ==
    \/ SetNX(c) \/ SetNXFails(c) \/ Won(c) \/ Lost(c) \/ ReleaseNode(c)
    \/ Retry(c) \/ GiveUp(c) \/ Released(c)

Next ==
    \/ \E c \in Client : Start(c) \/ ClientStep(c) \/ Release(c) \/ Late(c) \/ Crash(c)
    \/ \E n \in Node : Expires(n) \/ Forget(n)

Spec == Init /\ [][Next]_vars

\* Calls to Redis return, and a lock is not held for ever.
Fairness ==
    /\ \A c \in Client : WF_vars(ClientStep(c)) /\ WF_vars(Release(c))
    /\ \A n \in Node : WF_vars(Expires(n))

FairSpec == Spec /\ Fairness

-----------------------------------------------------------------------------
(***************************************************************************)
(* Properties.                                                             *)
(***************************************************************************)

\* The type invariant.
TypeOK ==
    /\ key \in [Node -> {Free, Gone} \cup (Client \X (1..RetryCount))]
    /\ pc \in [Client -> PC]
    /\ at \in [Client -> 1..(Nodes + 1)]
    /\ attempt \in [Client -> 1..RetryCount]
    /\ acquired \in [Client -> 0..Nodes]
    /\ late \in [Client -> BOOLEAN]
    /\ faults \in [left : 0..MaxFaults, forgot : SUBSET Node]

\* The lock is held and its validity has not run out.
Valid(c) == pc[c] = "held" /\ ~late[c]

Keys(c) == {n \in Node : key[n] = Value(c)}

\* Nobody but the owner takes a key away from a caller that is collecting them
\* or holds the lock, while its validity lasts: not a slow caller that releases
\* what it lost long ago, not a failed attempt that cleans up
\* (docs/ARCHITECTURE.md:168-169, "so a slow worker can't steal an expired lock
\* it no longer owns").  Only a server that restarts without its keys does.
KeysAreSafe ==
    [][\A c \in Client, n \in Node :
         /\ pc[c] \in {"set", "held"} /\ pc'[c] # "idle" /\ ~late[c]
         /\ key[n] = Value(c) /\ n \notin faults'.forgot
         => key'[n] = key[n]]_vars

\* Until a server forgets its keys, what acquired counts is really there, and
\* a valid lock has its quorum.
QuorumKept ==
    faults.forgot = {} =>
      \A c \in Client :
        /\ pc[c] = "set" /\ ~late[c] => Cardinality(Keys(c)) >= acquired[c]
        /\ Valid(c) => Cardinality(Keys(c)) >= Quorum

\* At most one caller holds a lock that is still valid, whatever calls fail
\* (docs/FEATURES.md:257, "no two clients can simultaneously claim quorum"),
\* until a server forgets its keys.
MutualExclusion ==
    faults.forgot = {} => \A c, d \in Client : Valid(c) /\ Valid(d) => c = d

\* No key blocks a job for ever, whatever calls fail and whoever crashes with
\* the lock: every server's key comes free again.
KeysComeFree == \A n \in Node : []<>(key[n] = Free)

Holder == IF \E c \in Client : Valid(c) THEN CHOOSE c \in Client : Valid(c) ELSE Nobody

Lock == INSTANCE ExecutionLock WITH holder <- Holder

\* Until a server forgets its keys, the quorum protocol implements a lock with
\* one holder at a time.
ImplementsLock == Lock!Init /\ [][faults'.forgot = {} => Lock!Next]_Holder

=============================================================================
