--------------------------- MODULE MCRedisIndexes ---------------------------
(* Small instances of RedisIndexes. *)
EXTENDS RedisIndexes

OneQueue == [j \in Jobs |-> "default"]

\* A pruner beside an operator, who may do anything.
PrunerAndOperator == [k \in Keepers |-> IF k = "pruner" THEN {"drain"} ELSE Calls]

\* The pruner drains failed jobs, of which job 1 is too young, the operator all.
OldFailedOrAll ==
    [k \in Keepers |->
        IF k = "pruner" THEN {[key |-> <<Any, "failed">>, selection |-> Jobs \ {1}]}
        ELSE {[key |-> AllKey, selection |-> Jobs]}]

\* One index an orphan is reaped from in every drain, one that only a walk cleans.
AllAndQueueFailed == {AllKey, <<"default", "failed">>}

Both == {Jobs}

=============================================================================
