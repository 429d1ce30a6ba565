----------------------------- MODULE MCGitCache -----------------------------
(* Instances of GitCache for TLC. *)
EXTENDS GitCache

CONSTANTS q1, q2, q3, ra, rb

\* Two requests for one repository, one for another.
TwoAndOne == [q \in {q1, q2, q3} |-> IF q = q3 THEN rb ELSE ra]
=============================================================================
