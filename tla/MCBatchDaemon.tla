---------------------------- MODULE MCBatchDaemon ---------------------------
(* Instances of BatchDaemon for TLC. *)
EXTENDS BatchDaemon, TLC

CONSTANTS r1, r2, r3, c1, c2
=============================================================================
