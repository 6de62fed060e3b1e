-------------------------- MODULE MCMemoryWorkers ---------------------------
(* Small instances of MemoryWorkers. *)
EXTENDS MemoryWorkers

OneQueue == [j \in Jobs |-> "default"]

\* What the driver filters its lists with, written so that it can be proved
\* about, is the selection of the elements that are kept, in their order.
ASSUME OnlySelects ==
    \A n \in 0..4 : \A s \in [1..n -> 1..3], T \in SUBSET (1..3) :
        Only(s, {i \in DOMAIN s : s[i] \in T}) = SelectSeq(s, LAMBDA k : k \in T)

\* Without removes the first entry of each.
ASSUME WithoutRemovesFirst ==
    \A n \in 0..4 : \A s \in [1..n -> 1..3], S \in SUBSET (1..3) :
        Without(s, S) = FoldSet(LAMBDA j, t : RemoveFirst(t, j), s, S)

=============================================================================
