-------------------------- MODULE MCConfirmations --------------------------
(* Instances of Confirmations for TLC: the values are in the configurations. *)
EXTENDS Confirmations, TLC
=============================================================================
