------------------------------- MODULE MCMedia -------------------------------
(* Instances of Media small enough for TLC. *)
EXTENDS Media, TLC

CONSTANTS q1, q2, j1, j2

TwoRequests == {q1, q2}
TwoJobs     == {j1, j2}

\* Confirmations and rows of the queue are interchangeable.
Symmetry == Permutations(TwoRequests) \cup Permutations(TwoJobs)
=============================================================================
