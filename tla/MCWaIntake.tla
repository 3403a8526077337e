----------------------------- MODULE MCWaIntake -----------------------------
(* Instances of WaIntake small enough for TLC. *)
EXTENDS WaIntake, TLC

CONSTANTS j1, j2, j3

OneTick   == {1}
ThreeJobs == {j1, j2, j3}

\* The handler waits for other services: download and extraction.
Outside == {"write"}

\* A message may reply to the one before it.
Preceding == [m \in 1 .. MaxMessages |-> {m - 1} \ {0}]

\* A picture without words, and a recording that says the word if it can be
\* understood.
TwoContents == {[voice |-> FALSE, keyword |-> FALSE], [voice |-> TRUE, keyword |-> TRUE]}

\* Jobs are interchangeable.
Symmetry == Permutations(Jobs)
=============================================================================
