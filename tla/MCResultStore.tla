---------------------------- MODULE MCResultStore ---------------------------
(* Instances of ResultStore for TLC. *)
EXTENDS ResultStore

CONSTANTS j1, j2, ta, tb

\* A target for each directory, and one for both.
OwnAndShared == {[j \in {j1, j2} |-> IF j = j1 THEN ta ELSE tb], [j \in {j1, j2} |-> ta]}
=============================================================================
