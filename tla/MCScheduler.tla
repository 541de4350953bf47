---------------------------- MODULE MCScheduler ----------------------------
(***************************************************************************)
(* Instances of Scheduler for TLC.  Process numbers are never reused, so   *)
(* MaxTasks bounds how long a behaviour goes on creating processes.        *)
(***************************************************************************)
EXTENDS Scheduler

NoMishaps == {}
=============================================================================
