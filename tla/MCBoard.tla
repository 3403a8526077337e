------------------------------- MODULE MCBoard -------------------------------
(* Instances of Board small enough for TLC. *)
EXTENDS Board, TLC

CONSTANTS s1, s2

TwoSites == {s1, s2}

\* Sites are interchangeable.
Symmetry == Permutations(TwoSites)
=============================================================================
