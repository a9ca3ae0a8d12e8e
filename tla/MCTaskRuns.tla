------------------------------ MODULE MCTaskRuns ----------------------------
(***************************************************************************)
(* TaskRuns for TLC: two workers and two jobs at a time: a webhook, an     *)
(* upsert, an append, a pipeline that is refused, a task without handler;  *)
(* the first two are submitted again and again.                            *)
(***************************************************************************)
EXTENDS TaskRuns, TLC

CONSTANTS w1, w2, hook, load, add, bad, odd

MCSource == {[k |-> 1, v |-> "new"], [k |-> 2, v |-> "new"]}

MCTask ==
    hook :> [name |-> "webhook", maxRetries |-> 2, method |-> "",
             url |-> [parsed |-> TRUE, scheme |-> "https", userinfo |-> FALSE, host |-> "name"]] @@
    load :> [name |-> "sql.etl", maxRetries |-> 2, mode |-> "upsert",
             start |-> "select", words |-> <<"select", "word">>, table |-> <<"s", "t">>,
             columns |-> <<<<"k">>, <<"v">>>>, conflict |-> <<<<"k">>>>, update |-> <<>>] @@
    add  :> [name |-> "sql.etl", maxRetries |-> 0, mode |-> "",
             start |-> "with", words |-> <<"with", "select">>, table |-> <<"t">>,
             columns |-> <<<<"k">>, <<"v">>>>, conflict |-> <<>>, update |-> <<>>] @@
    bad  :> [name |-> "sql.etl", maxRetries |-> 0, mode |-> "",
             start |-> "with", words |-> <<"with", "delete">>, table |-> <<"t">>,
             columns |-> <<<<"k">>, <<"v">>>>, conflict |-> <<>>, update |-> <<>>] @@
    odd  :> [name |-> "other", maxRetries |-> 0]

MCMix == {{hook, load}, {hook, add}, {hook, bad}, {load, add}, {load, bad}, {load, odd}}

MCTarget == [j \in {load, add, bad} |->
               [r \in {[k |-> 1, v |-> "old"], [k |-> 3, v |-> "old"]} |-> 1]]

MCRetry == [base |-> 0, max |-> 0, multiplier |-> 0, jitter |-> 10, attempts |-> 2]

=============================================================================
