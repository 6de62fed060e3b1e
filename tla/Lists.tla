------------------------------- MODULE Lists -------------------------------
(***************************************************************************)
(* What is left of a list when only some of its positions are kept: the    *)
(* way lists are filtered by the drivers.  It is a selection written as a  *)
(* function, so that it can be proved about.                               *)
(***************************************************************************)
EXTENDS Naturals, Sequences, FiniteSets

\* The n-th smallest of a finite set of numbers.
Nth(S, n) == CHOOSE i \in S : Cardinality({k \in S : k <= i}) = n

\* The elements of s at the positions I, in the order they had.
Only(s, I) == [n \in 1..Cardinality(I) |-> s[Nth(I, n)]]

=============================================================================
