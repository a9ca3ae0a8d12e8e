------------------------------- MODULE JobApi -------------------------------
(***************************************************************************)
(* The requests of internal/api that make and list jobs, over one table:   *)
(* EnqueueJob, which is JobService.Enqueue behind the check of its body,   *)
(* and ListJobs, with PostgresStore.ListJobs.  A client walks the jobs     *)
(* page by page, newest first, while requests insert jobs and workers      *)
(* claim and release them.  Each page is a query of its own; the cursor    *)
(* the client hands back is the (created_at, id) of the last row it got.   *)
(*                                                                         *)
(* created_at is the clock before the insert, so rows may appear out of    *)
(* order and with equal times.  No statement changes it.  It has the       *)
(* microseconds of a cursor, so encodeCursor loses nothing.                *)
(***************************************************************************)
EXTENDS JobService, Sequences, Functions

CONSTANTS
    CreatedAt,   \* created_at of the job a request makes; requests are numbers
    Limit,       \* the page size after the defaults of ListJobs
    Filters,     \* the state filters clients use; "" is none
    NoCursor

ASSUME ApiAssumption ==
    /\ Call \subseteq Nat /\ CreatedAt \in [Call -> Nat] /\ Limit \in Nat \ {0}
    /\ Filters \subseteq {"", "RUNNING"}
    /\ NoCursor \notin Nat \X Call

VARIABLES
    walk,      \* "no", "on" or "done"
    filter, cursor,
    got,       \* the ids the walk has returned, in order
    steady     \* history: rows that match since the walk began

walkVars == <<walk, filter, cursor, got, steady>>
apiVars == <<serviceVars, walkVars>>

ApiInit ==
    /\ ServiceInit
    /\ walk = "no" /\ filter \in Filters /\ cursor = NoCursor
    /\ got = << >> /\ steady = {}

\* The rows of the filter.  A leased row counts as RUNNING: the rows that keep a
\* token in another state, FAILED or cancelled ones, are not told apart here.
Listed == IF filter = "" THEN rows ELSE leased

\* The order of (created_at, id).
Below(p, q) == p[1] < q[1] \/ (p[1] = q[1] /\ p[2] < q[2])

\* Plausible bug: the cursor compares created_at alone.
AfterByTime(p, c) == c = NoCursor \/ p[1] < c[1]

AfterCursor(p, c) == c = NoCursor \/ Below(p, c)

Place(i) == <<CreatedAt[i], i>>

NewestFirst(s) == \A m, n \in DOMAIN s : m < n => Below(Place(s[n]), Place(s[m]))

\* The query: the rows after the cursor ORDER BY created_at DESC, id DESC LIMIT
\* limit + 1.
Query ==
    LET all == {i \in Listed : AfterCursor(Place(i), cursor)}
    IN {page \in UNION {[1..n -> all] : n \in 0..(Limit + 1)} :
          /\ NewestFirst(page)
          /\ \A i \in all \ Range(page) :
               Len(page) = Limit + 1 /\ \A n \in DOMAIN page : Below(Place(i), Place(page[n]))}

\* scanJob reads lease_token and idempotency_key into strings.
Readable(i) == NullScan => i \in leased /\ KeyOf[i] # NoKey

Begin ==
    /\ walk = "no" /\ walk' = "on"
    /\ steady' = Listed
    /\ UNCHANGED <<serviceVars, filter, cursor, got>>

\* ListJobs: there is a next cursor when the extra row was found.  One row that
\* cannot be read fails the whole page, which changes nothing.
Page ==
    \E page \in Query :
       /\ walk = "on" /\ \A n \in DOMAIN page : Readable(page[n])
       /\ IF Len(page) > Limit
          THEN /\ got' = got \o SubSeq(page, 1, Limit)
               /\ cursor' = Place(page[Limit]) /\ UNCHANGED walk
          ELSE /\ got' = got \o page
               /\ walk' = "done" /\ UNCHANGED cursor
       /\ UNCHANGED <<serviceVars, filter, steady>>

\* A request, a publish goroutine, or a worker; the history follows the table.
Elsewhere ==
    /\ ServiceNext
    /\ steady' = IF filter = "" THEN steady ELSE steady \cap leased'
    /\ UNCHANGED <<walk, filter, cursor, got>>

ApiNext == Elsewhere \/ Begin \/ Page

ApiSpec == ApiInit /\ [][ApiNext]_apiVars

-----------------------------------------------------------------------------

\* However many jobs are inserted, claimed and released between the pages of a
\* walk, no job is returned twice and the jobs come newest first; and a walk that
\* ends has returned every job that was in the table when it began and matched
\* the filter all along, the jobs of all requests answered by then among them.
WalkIsExact ==
    /\ NewestFirst(got)
    /\ walk = "done" => \A i \in steady : \E n \in DOMAIN got : got[n] = i

=============================================================================
