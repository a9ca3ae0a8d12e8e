------------------------------ MODULE MCRedlock -----------------------------
(***************************************************************************)
(* Redlock for TLC.                                                        *)
(***************************************************************************)
EXTENDS Redlock, TLC

CONSTANTS c1, c2

=============================================================================
