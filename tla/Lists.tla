-------------------------------- MODULE Lists --------------------------------
(***************************************************************************)
(* What Array.filter leaves of a list.  SelectSeq computes the same by     *)
(* recursion; this says which element comes where, as the proofs need it.  *)
(***************************************************************************)
EXTENDS Integers, Sequences, FiniteSets

\* the k-th smallest of a set of numbers
Nth(P, k) == CHOOSE x \in P : Cardinality({y \in P : y <= x}) = k

\* the elements of a list at the positions P, in their order
Kept(s, P) == [k \in 1 .. Cardinality(P) |-> s[Nth(P, k)]]
=============================================================================
