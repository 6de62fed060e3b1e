---------------------------- MODULE MCSqlWorkers ----------------------------
(* Small instances of SqlWorkers: jobs are numbered in the order in which  *)
(* their payloads were built.                                              *)
EXTENDS SqlWorkers

OneQueue == [j \in Jobs |-> "default"]

\* The first job on its own queue, the others on a second one.
TwoQueues == [j \in Jobs |-> IF j = 1 THEN "first" ELSE "default"]

BuildOrder == [j \in Jobs |-> j]

=============================================================================
