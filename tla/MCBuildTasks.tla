---------------------------- MODULE MCBuildTasks ----------------------------
(* Instances of BuildTasks for TLC. *)
EXTENDS BuildTasks, TLC

CONSTANTS t1, t2, t3, a1, a2

OneAddr == {{a1}}
Flapping == {{a1}, {a1, a2}}
=============================================================================
