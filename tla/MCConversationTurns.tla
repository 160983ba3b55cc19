------------------------ MODULE MCConversationTurns ------------------------
(* Instances of ConversationTurns for TLC. *)
EXTENDS ConversationTurns, TLC

CONSTANTS m1, m2, m3

MsgDef == {m1, m2, m3}
\* The third message is larger than the whole budget: it is accepted only when
\* the queue is empty.
SizeDef == (m1 :> 1) @@ (m2 :> 1) @@ (m3 :> 3)
=============================================================================
