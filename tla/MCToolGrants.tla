---------------------------- MODULE MCToolGrants ----------------------------
(* Instances of ToolGrants for TLC: two calls for one thing, the others for another. *)
EXTENDS ToolGrants, TLC

MCToolOf == [c \in Call |-> IF c <= 2 THEN "read" ELSE "write"]
=============================================================================
