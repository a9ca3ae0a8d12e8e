----------------------------- MODULE MCConduit ------------------------------
(***************************************************************************)
(* Small instances of Conduit for TLC.                                     *)
(***************************************************************************)
EXTENDS Conduit, TLC

CONSTANTS j1, j2, j3, i1, i2, w1, w2

\* One worker slot on each of two instances, and all slots on one.
HomeTwo == w1 :> i1 @@ w2 :> i2
HomeOne == [w \in Worker |-> i1]

\* max_retries of the jobs; 0, the default, leaves the limit to the retry engine.
Retries2 == [j \in Job |-> 2]
Retries0 == [j \in Job |-> 0]
Retries01 == [j \in Job |-> IF j = j2 THEN 1 ELSE 0]

Keyed == [j \in Job |-> TRUE]
Keyless == [j \in Job |-> FALSE]
KeyedOne == [j \in Job |-> j = j1]

\* Clients submit j3, which is never read, beside one of the others.
OneBesideIt == \E j \in {j1, j2} : rows'[j].state = "ABSENT"
BesideSpec == Init /\ [][Next /\ OneBesideIt]_vars /\ Fairness

TokenSymmetry == Permutations(Token)

=============================================================================
