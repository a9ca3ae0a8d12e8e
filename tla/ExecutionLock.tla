--------------------------- MODULE ExecutionLock ----------------------------
(***************************************************************************)
(* What lock.Manager promises for one resource: at most one caller at a    *)
(* time has the lock, a new one only after the last one has ended.  A      *)
(* lock ends when its owner releases it or when its validity runs out.     *)
(***************************************************************************)
CONSTANTS Client, Nobody

VARIABLE holder

Init == holder = Nobody

Acquire(c) == holder = Nobody /\ holder' = c

End(c) == holder = c /\ holder' = Nobody

Next == \E c \in Client : Acquire(c) \/ End(c)

Spec == Init /\ [][Next]_holder

=============================================================================
