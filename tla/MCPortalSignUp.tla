---------------------------- MODULE MCPortalSignUp ----------------------------
(* PortalSignUp for TLC: requests are interchangeable model values. *)
EXTENDS PortalSignUp, TLC

Symmetry == Permutations(Registers) \cup Permutations(Visits)
=============================================================================
