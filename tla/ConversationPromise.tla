------------------------ MODULE ConversationPromise ------------------------
(***************************************************************************)
(* What a conversation promises, whatever its queue, batches and drains    *)
(* do: there is one turn at a time, a turn answers its messages together,  *)
(* and a message that is over is never taken up again.                     *)
(***************************************************************************)
CONSTANT Msg

VARIABLES
    waiting,  \* accepted messages no turn has taken up
    turn,     \* the messages of the turn under way
    over      \* the messages the conversation is done with

pvars == <<waiting, turn, over>>

Init == waiting = {} /\ turn = {} /\ over = {}

Known == waiting \cup turn \cup over

\* A new message waits, or is refused.
Submit(m) ==
    /\ m \notin Known
    /\ \/ waiting' = waiting \cup {m} /\ over' = over
       \/ over' = over \cup {m} /\ waiting' = waiting
    /\ UNCHANGED turn

\* A message that is new or waits opens a turn; there must be none.
Open(m) ==
    /\ turn = {}
    /\ m \notin over
    /\ turn' = {m}
    /\ waiting' = waiting \ {m}
    /\ UNCHANGED over

\* Waiting messages J join the turn under way, others D are given up.
Extend(J, D) ==
    /\ turn # {}
    /\ J \cup D \subseteq waiting
    /\ J \cap D = {}
    /\ turn' = turn \cup J
    /\ waiting' = waiting \ (J \cup D)
    /\ over' = over \cup D

\* Waiting messages are answered, cancelled or refused without a turn.
Resolve(D) ==
    /\ D \subseteq waiting
    /\ waiting' = waiting \ D
    /\ over' = over \cup D
    /\ UNCHANGED turn

\* The turn ends for all its messages at once.
Close ==
    /\ turn # {}
    /\ turn' = {}
    /\ over' = over \cup turn
    /\ UNCHANGED waiting

Next ==
    \/ \E m \in Msg : Submit(m) \/ Open(m)
    \/ \E J, D \in SUBSET waiting : Extend(J, D)
    \/ \E D \in SUBSET waiting : Resolve(D)
    \/ Close

Spec == Init /\ [][Next]_pvars
=============================================================================
