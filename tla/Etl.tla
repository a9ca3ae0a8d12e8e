--------------------------------- MODULE Etl --------------------------------
(***************************************************************************)
(* internal/etl: which pipeline specifications are accepted, and what the  *)
(* statement built from one does to its target table.  An identifier is    *)
(* the sequence of its parts; a table maps its rows to how often it has    *)
(* each, and a row maps columns to values.  The words of the extract query *)
(* are those SqlScan finds in it.                                          *)
(***************************************************************************)
EXTENDS Naturals, Sequences, Functions

CONSTANTS
    ValidPart,      \* the strings validIdentifierPart accepts
    Source          \* the rows the extract query selects

Forbidden == {"insert", "update", "delete", "merge", "create", "alter", "drop",
              "truncate", "copy", "grant", "revoke", "call", "do", "vacuum", "analyze"}

parseIdentifier(id) == Len(id) \in 1..3 /\ \A i \in DOMAIN id : id[i] \in ValidPart

Unqualified(columns) == \A i \in DOMAIN columns : parseIdentifier(columns[i]) /\ Len(columns[i]) = 1

\* start is the text up to its first space; a comment may stand before the first word.
normalizeExtractSQL(start, words) ==
    /\ start \in {"select", "with"}
    /\ words # <<>> /\ words[1] \in {"select", "with"}
    /\ Range(words) \cap Forbidden = {}

WriteMode(spec) == IF spec.mode = "" THEN "append" ELSE spec.mode

nonConflictColumns(spec) ==
    SelectSeq(spec.columns, LAMBDA c : c \notin Range(spec.conflict))

UpdateColumns(spec) ==
    IF WriteMode(spec) = "upsert" /\ spec.update = <<>>
    THEN nonConflictColumns(spec) ELSE spec.update

ParseSpec(spec) ==
    /\ spec.words # <<>> /\ spec.table # <<>> /\ spec.columns # <<>>
    /\ WriteMode(spec) \in {"append", "upsert"}
    /\ WriteMode(spec) = "upsert" => spec.conflict # <<>>

BuildInsertSQL(spec) ==
    /\ parseIdentifier(spec.table)
    /\ Unqualified(spec.columns) /\ Unqualified(spec.conflict) /\ Unqualified(UpdateColumns(spec))
    /\ WriteMode(spec) = "upsert" => UpdateColumns(spec) # <<>>
    /\ normalizeExtractSQL(spec.start, spec.words)

Buildable(spec) == ParseSpec(spec) /\ BuildInsertSQL(spec)

-----------------------------------------------------------------------------
(***************************************************************************)
(* External: INSERT INTO ... SELECT, and ON CONFLICT (k) DO UPDATE.  There *)
(* is a unique index on the conflict columns, and the query selects one    *)
(* row for each of their values.                                           *)
(***************************************************************************)

Columns(ids) == {ids[i][1] : i \in DOMAIN ids}

SameKey(r, s, key) == \A c \in key : r[c] = s[c]

CopiesIn(r, table) == IF r \in DOMAIN table THEN table[r] ELSE 0

Insert(table) ==
    [r \in DOMAIN table \cup Source |-> CopiesIn(r, table) + IF r \in Source THEN 1 ELSE 0]

Upsert(table, key, set) ==
    LET old == DOMAIN table
        hit(r) == {s \in Source : SameKey(r, s, key)}
        updated(r) == [c \in DOMAIN r |->
                         IF c \in set /\ hit(r) # {} THEN (CHOOSE s \in hit(r) : TRUE)[c] ELSE r[c]]
    IN [t \in {updated(r) : r \in old}
                \cup {s \in Source : \A r \in old : ~SameKey(r, s, key)} |-> 1]

\* What ON CONFLICT (key) asks of the rows of the table and of the query.
Keyed(key, table) ==
    /\ \A r \in DOMAIN table \cup Source : r = [c \in DOMAIN r |-> r[c]] /\ key \subseteq DOMAIN r
    /\ \A r, s \in Source : SameKey(r, s, key) => r = s

\* Plausible bug: the ON CONFLICT clause is left out.
StatementAppends(table, spec) == Insert(table)

\* What the statement BuildInsertSQL returns does.
Statement(table, spec) ==
    IF WriteMode(spec) = "upsert"
    THEN Upsert(table, Columns(spec.conflict), Columns(UpdateColumns(spec)))
    ELSE Insert(table)

=============================================================================
