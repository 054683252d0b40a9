---------------------------- MODULE MCScheduler ----------------------------
(* The model-checked instances of Scheduler; their constants are in the cfg files. *)
EXTENDS Scheduler

=============================================================================
