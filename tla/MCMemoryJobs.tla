---------------------------- MODULE MCMemoryJobs ----------------------------
(* Instances of MemoryJobs for TLC. *)
EXTENDS MemoryJobs, TLC

JobSymmetry == Permutations(Job)
=============================================================================
