--------------------------- MODULE MCModeScheduler --------------------------
(* Instances of ModeScheduler for TLC. *)
EXTENDS ModeScheduler, TLC

CONSTANTS t1, t2, t3, w1, w2, w3, m1, m2

\* Mode m1 has two workers, mode m2 one.
TwoModes == [w \in {w1, w2, w3} |-> IF w = w3 THEN m2 ELSE m1]

\* Tasks are interchangeable, and so are the two workers of m1.
TaskAndWorkerSymmetry == Permutations(Tasks) \cup Permutations({w1, w2})
=============================================================================
