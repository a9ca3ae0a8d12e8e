------------------------------ MODULE MCEdges -------------------------------
(***************************************************************************)
(* Four parts that share no state, for TLC: the consumer of the jobs       *)
(* topic, the readiness probe, the scanner of extract statements and the   *)
(* requests of the API.  A behaviour is one of a single part; the others   *)
(* stay as they begin.                                                     *)
(*                                                                         *)
(* The second request repeats the first, the last has no key; two jobs     *)
(* have one created_at and one comes with an earlier one.                  *)
(***************************************************************************)
EXTENDS KafkaConsumer, Readiness, SqlScan, JobApi

CONSTANTS p, q, k1, k2, k3

MCKeyOf == <<k1, k1, k2, k3, NoKey>>

MCCreatedAt == <<2, 2, 2, 1, 3>>

VARIABLE part

MCInit ==
    /\ ConsumerInit /\ ReadyInit /\ ApiInit
    /\ \/ part \in {"consumer", "readiness"} /\ Scan(<< >>) /\ filter = ""
       \/ part = "scanner" /\ ScanInit /\ filter = ""
       \/ part = "api" /\ Scan(<< >>)

MCNext ==
    /\ UNCHANGED part
    /\ \/ part = "consumer" /\ ConsumerNext /\ UNCHANGED <<readyVars, scanVars, apiVars>>
       \/ part = "readiness" /\ ReadyNext /\ UNCHANGED <<consumerVars, scanVars, apiVars>>
       \/ part = "scanner" /\ ScanNext /\ UNCHANGED <<consumerVars, readyVars, apiVars>>
       \/ part = "api" /\ ApiNext /\ UNCHANGED <<consumerVars, readyVars, scanVars>>

MCSpec == MCInit /\ [][MCNext]_<<part, consumerVars, readyVars, scanVars, apiVars>>

=============================================================================
