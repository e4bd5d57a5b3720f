---------------------------- MODULE MCScheduler ----------------------------
(* Instance of Scheduler for TLC: the init task and the children it spawns. *)
EXTENDS Scheduler

CONSTANTS t1, t2, t3

MCTask == {t1, t2, t3}
MCOneTask == {t1}

AllCalls == {"yield", "other", "sleep", "exit", "wait", "kill", "spawn", "exec"}

=============================================================================
