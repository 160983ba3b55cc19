---------------------------- MODULE MCSchedules ----------------------------
(* Instances of Schedules for TLC: the values are in the configurations. *)
EXTENDS Schedules, TLC
=============================================================================
