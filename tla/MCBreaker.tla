------------------------------ MODULE MCBreaker -----------------------------
(***************************************************************************)
(* CircuitBreaker for TLC.                                                 *)
(***************************************************************************)
EXTENDS CircuitBreaker

CONSTANTS w1, w2, w3

=============================================================================
