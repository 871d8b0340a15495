-------------------------- MODULE MCSchedulerQuiesce --------------------------
(* One pod with two workers. Two turns of the lease, or failed reads,      *)
(* make two flips happen while a runner is still starting.                 *)
EXTENDS SchedulerQuiesce
=============================================================================
