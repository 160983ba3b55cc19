-------------------------- MODULE MCInboundDelivery --------------------------
(* Two messages of one chat, of every pair of kinds, for TLC. *)
EXTENDS InboundDelivery

CONSTANTS m1, m2, c1

MCMessage == {m1, m2}
MCChatOf  == [m \in MCMessage |-> c1]
MCKinds   == {"chat", "secret", "invite", "verify", "legacy"}

=============================================================================
