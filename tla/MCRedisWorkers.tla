--------------------------- MODULE MCRedisWorkers ---------------------------
(* Small instances of RedisWorkers. *)
EXTENDS RedisWorkers

OneQueue == [j \in Jobs |-> "default"]

\* Without, written so that it can be proved about, is the selection of the
\* other elements.
ASSUME WithoutSelects ==
    \A n \in 0..5 : \A s \in [1..n -> 1..3], j \in 1..3 :
        Without(s, j) = SelectSeq(s, LAMBDA k : k # j)

=============================================================================
