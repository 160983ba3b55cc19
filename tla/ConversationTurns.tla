------------------------- MODULE ConversationTurns -------------------------
(***************************************************************************)
(* One conversation of the assistant daemon: how the messages sent to it   *)
(* become turns.  At most one agent loop is meant to run at a time; what   *)
(* arrives meanwhile is queued, and every end of a turn drains the queue.  *)
(*                                                                         *)
(* JavaScript runs one handler at a time, so an action is the code between *)
(* two awaits.  The awaits that wait for I/O (a database write retried on  *)
(* SQLITE_BUSY, a key lookup, an LLM call, the turn commit) separate       *)
(* actions.  The awaits of drainQueue resolve as microtasks; they separate *)
(* actions too, and MicrotaskLag bounds how many of them may be pending    *)
(* when an I/O callback runs: 0 is the JavaScript event loop; larger lags  *)
(* allow every interleaving its awaits suggest.                            *)
(***************************************************************************)
EXTENDS Integers, Sequences, FiniteSets, Functions

CONSTANTS
    Msg,              \* the messages users send to this conversation
    Kinds,            \* the kinds of message that are sent
    Size,             \* bytes a queued message counts for (estimateItemBytes)
    MaxBytes,         \* the queue's byte budget
    FailSites,        \* the places where addMessage may throw
    MicrotaskLag,     \* microtasks an I/O callback may overtake
    None              \* no abort controller

\* "text": passthrough that may be batched.  "solo": passthrough the batch
\* builder refuses (surface action, verification intent, other interface).
\* "command": slash command answered without a model.  "compact": /compact.
AllKinds == {"text", "solo", "command", "compact"}
AllSites == {"post", "command", "compact", "drain", "tail"}

ASSUME KindsAssumption == Kinds \subseteq AllKinds
ASSUME SizeAssumption  == Size \in [Msg -> Nat \ {0}] /\ MaxBytes \in Nat
ASSUME SitesAssumption == FailSites \subseteq AllSites
ASSUME LagAssumption   == MicrotaskLag \in Nat
ASSUME NoneAssumption  == None \notin Msg

VARIABLES
    kind,        \* the kind of each message
    processing,  \* conversation.processing
    controller,  \* conversation.abortController, named by the turn it was made for
    aborted,     \* the controllers whose signal is aborted
    queue,       \* MessageQueue.items
    bytes,       \* MessageQueue.currentBytes
    drains,      \* drainQueue calls that have not looked at the queue yet
    stage,       \* where each message is
    tails,       \* rest of the batch a message leads
    members,     \* messages the turn of this lead answers (successfulBatch)
    ctl,         \* the controller the agent loop of this lead captured
    answers,     \* terminal events each message's client received
    wake         \* an opportunity wake is running

vars == <<kind, processing, controller, aborted, queue, bytes, drains, stage, tails,
          members, ctl, answers, wake>>

Outcomes == {"complete", "handoff", "cancelled", "error", "rejected", "deleted"}

\* Stages of a message that leads a turn, or a command, holding `processing`.
Owning   == {"postPersist", "drainPersist", "gathering", "looping", "yielding",
             "settling", "command", "compactSave", "compacting"}
\* Stages of the messages a drain holds without having set `processing`.
Draining == {"dispatch", "drainCommand", "drainCompact"}
\* Stages of the other messages of a batch.
Batched  == {"held", "tailPersist", "member"}
Finished == {"done", "dropped"}
Stages   == {"new", "checked", "queued"} \cup Owning \cup Draining
                \cup Batched \cup Finished

\* What bytes counts is what BudgetKept says.
TypeOK ==
    /\ kind \in [Msg -> Kinds]
    /\ processing \in BOOLEAN
    /\ controller \in Msg \cup {None}
    /\ aborted \subseteq Msg
    /\ queue \in Seq(Msg)
    /\ drains \in Nat
    /\ stage \in [Msg -> Stages]
    /\ tails \in [Msg -> Seq(Msg)]
    /\ members \in [Msg -> SUBSET Msg]
    /\ ctl \in [Msg -> Msg \cup {None}]
    /\ answers \in [Msg -> Seq(Outcomes)]
    /\ wake \in BOOLEAN

Init ==
    /\ kind \in [Msg -> Kinds]
    /\ processing = FALSE
    /\ controller = None
    /\ aborted = {}
    /\ queue = <<>>
    /\ bytes = 0
    /\ drains = 0
    /\ stage = [m \in Msg |-> "new"]
    /\ tails = [m \in Msg |-> <<>>]
    /\ members = [m \in Msg |-> {}]
    /\ ctl = [m \in Msg |-> None]
    /\ answers = [m \in Msg |-> <<>>]
    /\ wake = FALSE

-----------------------------------------------------------------------------
(* Helpers.  A definition named X_Y is X with the plausible bug Y; the model   *)
(* never uses it.                                                             *)

Elems(s) == {s[i] : i \in 1..Len(s)}

\* An I/O callback may run: few enough microtasks of drainQueue are pending.
Quiet == drains + Cardinality({m \in Msg : stage[m] = "dispatch"}) <= MicrotaskLag

\* Send one terminal event to the client of every message of S.
Tell(S, outcome) ==
    answers' = [m \in Msg |-> IF m \in S THEN Append(answers[m], outcome)
                                         ELSE answers[m]]

\* Move the messages of S to stage st.
Moved(S, st) == [m \in Msg |-> IF m \in S THEN st ELSE stage[m]]

\* What the first n queued messages count for.
BytesOf(n) == SumFunction([i \in 1..n |-> Size[queue[i]]])

\* Call drainQueue, without waiting for it.
DrainAgain == drains' = drains + 1

\* Give the conversation back, whoever holds it.
Release == processing' = FALSE

\* persistUserMessage may claim the conversation.
MayClaim_Unchecked == TRUE
MayClaim == ~processing

\* MessageQueue.push accepts: within budget, or the queue is empty.
Fits(m) == bytes + Size[m] <= MaxBytes \/ queue = <<>>

\* The first n queued messages are what one drain takes: the longest run of
\* batchable text, or a single message the batch builder refuses.
IsBatch(n) ==
    IF kind[queue[1]] # "text"
    THEN n = 1
    ELSE /\ \A i \in 1..n : kind[queue[i]] = "text"
         /\ n < Len(queue) => kind[queue[n + 1]] # "text"

-----------------------------------------------------------------------------
(* A message arrives: POST /messages *)

Enqueue(m) ==
    /\ IF Fits(m)
       THEN /\ queue' = Append(queue, m)
            /\ bytes' = bytes + Size[m]
            /\ stage' = Moved({m}, "queued")
            /\ UNCHANGED answers
       ELSE /\ stage' = Moved({m}, "done")
            /\ Tell({m}, "rejected")
            /\ UNCHANGED <<queue, bytes>>
    /\ UNCHANGED <<processing, controller>>

\* The conversation is idle: persistUserMessage claims it and starts writing.
\* A command only passed the check: it looks up provider keys before it claims
\* the conversation.
StartIdle(m) ==
    /\ processing' = (kind[m] # "command" \/ processing)
    /\ controller' = IF kind[m] \in {"text", "solo"} THEN m ELSE controller
    /\ stage' = Moved({m}, CASE kind[m] = "command" -> "checked"
                             [] kind[m] = "compact" -> "compactSave"
                             [] OTHER               -> "postPersist")
    /\ UNCHANGED <<queue, bytes, answers>>

Post(m) ==
    /\ Quiet
    /\ stage[m] = "new"
    /\ IF processing THEN Enqueue(m) ELSE StartIdle(m)
    /\ UNCHANGED <<kind, aborted, drains, tails, members, ctl, wake>>

-----------------------------------------------------------------------------
(* Starting an agent loop *)

\* runAgentLoop refuses to start without a controller, and otherwise captures
\* the one it finds.  S are the messages the turn answers, gone the batch tails
\* given up when the batch stopped early, failed those that were not persisted.
\* A refusal is told to the clients of a drained turn only: the HTTP route just
\* logs it.
Launch(lead, S, gone, failed, drained) ==
    LET refused == controller = None
    IN  /\ stage' = [m \in Msg |->
                       CASE m \in gone   -> "dropped"
                         [] m \in failed -> "done"
                         [] m \in S      -> IF refused THEN "done"
                                            ELSE IF m = lead THEN "looping"
                                            ELSE "member"
                         [] OTHER        -> stage[m]]
        /\ tails' = [tails EXCEPT ![lead] = <<>>]
        /\ members' = [members EXCEPT ![lead] = IF refused THEN {} ELSE S]
        /\ ctl' = [ctl EXCEPT ![lead] = controller]
        /\ Tell(failed \cup IF refused /\ drained THEN S ELSE {}, "error")

PostPersisted(m) ==
    /\ Quiet
    /\ stage[m] = "postPersist"
    /\ Launch(m, {m}, {}, {}, FALSE)
    /\ UNCHANGED <<kind, processing, controller, aborted, queue, bytes, drains, wake>>

\* persistUserMessage gives the conversation back and the request fails: the
\* client gets HTTP 500.  Nothing drains the queue.
PostPersistFails(m) ==
    /\ Quiet
    /\ "post" \in FailSites
    /\ stage[m] = "postPersist"
    /\ stage' = Moved({m}, "done")
    /\ Tell({m}, "error")
    /\ processing' = FALSE
    /\ controller' = None
    /\ UNCHANGED <<kind, aborted, queue, bytes, drains, tails, members, ctl, wake>>

-----------------------------------------------------------------------------
(* drainQueue *)

\* What MessageQueue.shiftN(n) leaves.
QueueAfter(n) == SubSeq(queue, n + 1, Len(queue))
BytesAfter_HeadOnly(n) == bytes - BytesOf(1)
BytesAfter(n) == bytes - BytesOf(n)

\* buildPassthroughBatch shifts the next batch (or drainQueue the next single
\* message) out of the queue; the first message is dispatched, the rest held.
DrainTake ==
    /\ drains > 0
    /\ drains' = drains - 1
    /\ IF queue = <<>>
       THEN UNCHANGED <<queue, bytes, stage, tails>>
       ELSE \E n \in 1..Len(queue) :
              LET head == queue[1]
                  rest == SubSeq(queue, 2, n)
              IN  /\ IsBatch(n)
                  /\ queue' = QueueAfter(n)
                  /\ bytes' = BytesAfter(n)
                  /\ stage' = [Moved(Elems(rest), "held") EXCEPT ![head] = "dispatch"]
                  /\ tails' = [tails EXCEPT ![head] = rest]
    /\ UNCHANGED <<kind, processing, controller, aborted, members, ctl, answers, wake>>

DrainOn_TailsStranded(m) ==
    /\ DrainAgain
    /\ stage' = Moved({m}, "done")
    /\ UNCHANGED tails

DrainOn_Stops(m) ==
    /\ stage' = Moved({m}, "done")
    /\ UNCHANGED <<tails, drains>>

\* The head m failed: go on with the messages it was batched with, which are no
\* longer in the queue, or with the queue when there are none.
DrainOn(m) ==
    IF tails[m] = <<>>
    THEN /\ DrainAgain
         /\ stage' = Moved({m}, "done")
         /\ UNCHANGED tails
    ELSE /\ stage' = [stage EXCEPT ![m] = "done", ![Head(tails[m])] = "dispatch"]
         /\ tails' = [tails EXCEPT ![m] = <<>>, ![Head(tails[m])] = Tail(tails[m])]
         /\ UNCHANGED drains

\* A drained command runs without claiming the conversation.
DispatchCommand(m) ==
    /\ stage[m] = "dispatch"
    /\ kind[m] \in {"command", "compact"}
    /\ stage' = Moved({m}, IF kind[m] = "command" THEN "drainCommand" ELSE "drainCompact")
    /\ UNCHANGED <<kind, processing, controller, aborted, queue, bytes, drains, tails,
                   members, ctl, answers, wake>>

\* persistUserMessage throws "already processing" when a turn slipped in.
DispatchText(m) ==
    /\ stage[m] = "dispatch"
    /\ kind[m] \in {"text", "solo"}
    /\ IF MayClaim
       THEN /\ processing' = TRUE
            /\ controller' = m
            /\ stage' = Moved({m}, "drainPersist")
            /\ UNCHANGED <<drains, tails, answers>>
       ELSE /\ Tell({m}, "error")
            /\ DrainOn(m)
            /\ UNCHANGED <<processing, controller>>
    /\ UNCHANGED <<kind, aborted, queue, bytes, members, ctl, wake>>

\* The user aborted the turn the conversation is in.
Aborted == controller \in aborted

\* Lead has handled its batch up to rest, with S persisted and failed not:
\* persist the next one, or stop and start the loop.
GatherNext(lead, S, failed, rest, stop) ==
    IF rest = <<>> \/ stop
    THEN Launch(lead, S, Elems(rest), failed, TRUE)
    ELSE /\ stage' = [m \in Msg |->
                       CASE m = Head(rest)   -> "tailPersist"
                         [] m = lead         -> "gathering"
                         [] m \in failed     -> "done"
                         [] m \in S \ {lead} -> "held"
                         [] OTHER            -> stage[m]]
         /\ tails' = [tails EXCEPT ![lead] = rest]
         /\ members' = [members EXCEPT ![lead] = S]
         /\ Tell(failed, "error")
         /\ UNCHANGED ctl

DrainPersisted(m) ==
    /\ Quiet
    /\ stage[m] = "drainPersist"
    /\ GatherNext(m, {m}, {}, tails[m], Aborted)
    /\ UNCHANGED <<kind, processing, controller, aborted, queue, bytes, drains, wake>>

DrainPersistFails(m) ==
    /\ Quiet
    /\ "drain" \in FailSites
    /\ stage[m] = "drainPersist"
    /\ processing' = FALSE
    /\ controller' = None
    /\ Tell({m}, "error")
    /\ DrainOn(m)
    /\ UNCHANGED <<kind, aborted, queue, bytes, members, ctl, wake>>

\* The user may abort while a tail is written; the batch then stops after it.
TailPersisted(lead) ==
    /\ Quiet
    /\ stage[lead] = "gathering"
    /\ GatherNext(lead, members[lead] \cup {Head(tails[lead])}, {},
                  Tail(tails[lead]), Aborted)
    /\ UNCHANGED <<kind, processing, controller, aborted, queue, bytes, drains, wake>>

\* The members of a turn after a tail failed: the others (successfulBatch).
Surviving_All(lead) == members[lead] \cup {Head(tails[lead])}
Surviving(lead) == members[lead]

\* A tail that cannot be persisted is skipped, without a look at the abort signal.
TailPersistFails(lead) ==
    /\ Quiet
    /\ "tail" \in FailSites
    /\ stage[lead] = "gathering"
    /\ GatherNext(lead, Surviving(lead), {Head(tails[lead])}, Tail(tails[lead]), FALSE)
    /\ UNCHANGED <<kind, processing, controller, aborted, queue, bytes, drains, wake>>

-----------------------------------------------------------------------------
(* The agent loop *)

\* canHandoffAtCheckpoint: yield to what is queued.
LoopYields(lead) ==
    /\ Quiet
    /\ stage[lead] = "looping"
    /\ processing /\ queue # <<>>
    /\ stage' = Moved({lead}, "yielding")
    /\ UNCHANGED <<kind, processing, controller, aborted, queue, bytes, drains, tails,
                   members, ctl, answers, wake>>

\* The terminal event of a loop that did not fail: a set abort signal comes first.
Verdict_HandoffFirst(lead) ==
    IF stage[lead] = "yielding"     THEN "handoff"
    ELSE IF ctl[lead] \in aborted  THEN "cancelled"
    ELSE "complete"
Verdict(lead) ==
    IF ctl[lead] \in aborted        THEN "cancelled"
    ELSE IF stage[lead] = "yielding" THEN "handoff"
    ELSE "complete"

\* The loop's one terminal event, fanned out to every message of the turn; the
\* turn commit is then awaited.
LoopAnswers(lead) ==
    /\ Quiet
    /\ stage[lead] \in {"looping", "yielding"}
    /\ \E outcome \in {"error", Verdict(lead)} : Tell(members[lead], outcome)
    /\ stage' = Moved({lead}, "settling")
    /\ UNCHANGED <<kind, processing, controller, aborted, queue, bytes, drains, tails,
                   members, ctl, wake>>

\* The finally block: release the conversation, whoever holds it, and drain.
LoopEnds(lead) ==
    /\ Quiet
    /\ stage[lead] = "settling"
    /\ controller' = None
    /\ Release
    /\ DrainAgain
    /\ stage' = Moved(members[lead], "done")
    /\ members' = [members EXCEPT ![lead] = {}]
    /\ UNCHANGED <<kind, aborted, queue, bytes, tails, ctl, answers, wake>>

-----------------------------------------------------------------------------
(* Slash commands *)

\* The route claims the conversation without a second look at `processing`.
CommandStarts(m) ==
    /\ Quiet
    /\ stage[m] = "checked"
    /\ processing' = TRUE
    /\ stage' = Moved({m}, "command")
    /\ UNCHANGED <<kind, controller, aborted, queue, bytes, drains, tails, members, ctl,
                   answers, wake>>

\* Answered, or failed with HTTP 500; the failure path releases and drains only
\* when the conversation still looks busy.
CommandEnds(m) ==
    /\ Quiet
    /\ stage[m] = "command"
    /\ stage' = Moved({m}, "done")
    /\ \/ /\ Tell({m}, "complete")
          /\ DrainAgain
       \/ /\ "command" \in FailSites
          /\ Tell({m}, "error")
          /\ IF processing THEN DrainAgain ELSE UNCHANGED drains
    /\ Release
    /\ UNCHANGED <<kind, controller, aborted, queue, bytes, tails, members, ctl, wake>>

CompactSaved(m) ==
    /\ Quiet
    /\ stage[m] = "compactSave"
    /\ stage' = Moved({m}, "compacting")
    /\ UNCHANGED <<kind, processing, controller, aborted, queue, bytes, drains, tails,
                   members, ctl, answers, wake>>

\* The write before the compaction is outside its try block: the request fails
\* and `processing` stays set.
CompactSaveFails(m) ==
    /\ Quiet
    /\ "compact" \in FailSites
    /\ stage[m] = "compactSave"
    /\ stage' = Moved({m}, "done")
    /\ Tell({m}, "error")
    /\ UNCHANGED <<kind, processing, controller, aborted, queue, bytes, drains, tails,
                   members, ctl, wake>>

CompactEnds(m) ==
    /\ Quiet
    /\ stage[m] = "compacting"
    /\ stage' = Moved({m}, "done")
    /\ \E outcome \in {"complete", "error"} : Tell({m}, outcome)
    /\ Release
    /\ DrainAgain
    /\ UNCHANGED <<kind, controller, aborted, queue, bytes, tails, members, ctl, wake>>

\* A drained command is answered and the drain goes on; `processing` is not
\* touched, so other turns may have started and ended meanwhile.
DrainedCommandEnds(m) ==
    /\ Quiet
    /\ stage[m] \in {"drainCommand", "drainCompact"}
    /\ stage' = Moved({m}, "done")
    /\ \E outcome \in {"complete", "error"} : Tell({m}, outcome)
    /\ DrainAgain
    /\ UNCHANGED <<kind, processing, controller, aborted, queue, bytes, tails, members,
                   ctl, wake>>

-----------------------------------------------------------------------------
(* Cancel, delete, wake *)

\* queue.clear()
QueueAfterAbort_Kept == queue
QueueAfterAbort == <<>>

\* abortConversation: signal the turn, cancel and forget everything queued.
Abort ==
    /\ Quiet
    /\ processing
    /\ aborted' = aborted \cup ({controller} \ {None})
    /\ Tell(Elems(queue), "cancelled")
    /\ stage' = Moved(Elems(queue), "done")
    /\ queue' = QueueAfterAbort
    /\ bytes' = 0
    /\ UNCHANGED <<kind, processing, controller, drains, tails, members, ctl, wake>>

\* removeQueuedMessage
QueueWithout_KeepsIt(i) == SubSeq(queue, 1, i) \o SubSeq(queue, i + 1, Len(queue))
QueueWithout(i) == SubSeq(queue, 1, i - 1) \o SubSeq(queue, i + 1, Len(queue))

DeleteQueued(m) ==
    /\ Quiet
    /\ \E i \in 1..Len(queue) :
          /\ queue[i] = m
          /\ queue' = QueueWithout(i)
    /\ bytes' = bytes - Size[m]
    /\ Tell({m}, "deleted")
    /\ stage' = Moved({m}, "done")
    /\ UNCHANGED <<kind, processing, controller, aborted, drains, tails, members,
                   ctl, wake>>

\* wakeAgentForOpportunity: wakes are serialized and wait until the conversation
\* is idle; a wake claims it without a controller.
WakeStarts ==
    /\ Quiet
    /\ ~wake /\ ~processing
    /\ wake' = TRUE
    /\ processing' = TRUE
    /\ UNCHANGED <<kind, controller, aborted, queue, bytes, drains, stage, tails, members,
                   ctl, answers>>

WakeEnds ==
    /\ Quiet
    /\ wake
    /\ wake' = FALSE
    /\ Release
    /\ DrainAgain
    /\ UNCHANGED <<kind, controller, aborted, queue, bytes, stage, tails, members, ctl,
                   answers>>

-----------------------------------------------------------------------------
Step(m) ==
    \/ PostPersisted(m)   \/ PostPersistFails(m)
    \/ DispatchCommand(m) \/ DispatchText(m)
    \/ DrainPersisted(m)  \/ DrainPersistFails(m)
    \/ TailPersisted(m)   \/ TailPersistFails(m)
    \/ LoopYields(m)      \/ LoopAnswers(m)       \/ LoopEnds(m)
    \/ CommandStarts(m)   \/ CommandEnds(m)
    \/ CompactSaved(m)    \/ CompactSaveFails(m)  \/ CompactEnds(m)
    \/ DrainedCommandEnds(m)

Next ==
    \/ \E m \in Msg : Post(m) \/ Step(m) \/ DeleteQueued(m)
    \/ DrainTake \/ Abort \/ WakeStarts \/ WakeEnds

Spec == Init /\ [][Next]_vars

\* What has started goes on: database writes retry a bounded number of times, LLM
\* calls and commits have timeouts, and promises are scheduled.  Strong fairness
\* for the steps that wait for I/O: pending microtasks hold a callback back for a
\* moment, but the event loop serves callbacks in order and starves none.  Nothing
\* makes users send, cancel or delete, or opportunities arise.
Fairness == WF_vars(DrainTake) /\ SF_vars(WakeEnds) /\ \A m \in Msg : SF_vars(Step(m))

FairSpec == Spec /\ Fairness
-----------------------------------------------------------------------------
(* What should hold *)

Running(m) == stage[m] \in {"looping", "yielding", "settling"}
Owner(m)   == stage[m] \in Owning

\* Never two agent loops at once on a conversation (a wake runs one too): a
\* concurrent send "queues the message instead of spawning a parallel agent
\* loop" (agent-wake.ts).
OneAgentLoop ==
    /\ \A a, b \in Msg : Running(a) /\ Running(b) => a = b
    /\ wake => \A m \in Msg : ~Running(m)

\* Stronger: at most one turn, command or wake holds the conversation, and while
\* it does `processing` says so, whatever fails, aborts or drains in between.
OneOwner ==
    /\ \A a, b \in Msg : Owner(a) /\ Owner(b) => a = b
    /\ wake => \A m \in Msg : ~Owner(m)
    /\ (wake \/ \E m \in Msg : Owner(m)) => processing

\* The counter the budget is checked against is what the queue holds, however messages
\* leave it, so that all who wait together fit: only one that is too large waits, alone.
BudgetKept ==
    /\ bytes = BytesOf(Len(queue))
    /\ Len(queue) > 1 => bytes <= MaxBytes

\* Every message the conversation is done with got exactly one terminal event,
\* and no other message has one: a tail that failed is not told again by the
\* turn it was batched with, a cancelled one is not run.
AnsweredExactlyOnce ==
    \A m \in Msg :
        Len(answers[m]) =
            IF \/ stage[m] = "done"
               \/ \E lead \in Msg : stage[lead] = "settling" /\ m \in members[lead]
            THEN 1 ELSE 0

\* Whatever overlaps, no client gets a second terminal event for a message.
AnsweredAtMostOnce == \A m \in Msg : Len(answers[m]) <= 1

\* The documented promise of the queue without exception: nothing that was sent
\* ends up forgotten.
NothingForgotten == \A m \in Msg : stage[m] # "dropped"

\* A batch gives up messages only when the user aborted its turn; a failed write
\* of the head or of a tail never costs the others their turn.
GivesUpOnlyOnAbort ==
    (\E m \in Msg : stage'[m] = "dropped" /\ stage[m] # "dropped")
        => controller \in aborted

\* Every message is in exactly one place: queued ones once in the queue, batched
\* ones with exactly one lead.
InOnePlace ==
    /\ \A i, j \in 1..Len(queue) : queue[i] = queue[j] => i = j
    /\ \A m \in Msg : (stage[m] = "queued") = (m \in Elems(queue))
    /\ \A m \in Msg : stage[m] \in Batched =>
          Cardinality({l \in Msg \ {m} : m \in members[l] \cup Elems(tails[l])}) = 1
    /\ \A l \in Msg : Elems(tails[l]) \cap members[l] = {}

\* Somebody will drain the queue.
DrainComing ==
    drains > 0 \/ wake \/ \E m \in Msg : stage[m] \in Owning \cup Draining

\* "otherwise remaining queued messages would be stranded" (drainQueue): nothing
\* waits without somebody who will drain, and `processing`, which makes messages
\* wait, is never left set with nobody to clear it.
NothingStranded ==
    /\ queue # <<>> => DrainComing
    /\ processing => wake \/ \E m \in Msg : Owner(m)

\* A turn whose abort signal was set before its terminal event is reported
\* cancelled or failed, never completed or handed off.
AbortedTurnNeverCompletes ==
    \A m \in Msg :
        m \in aborted /\ answers'[m] # answers[m]
            => answers'[m][Len(answers'[m])] \notin {"complete", "handoff"}

\* A cancel takes effect on the turn it was meant for, and only a cancel costs
\* messages their turn.
AbortsAreHonoured == [][AbortedTurnNeverCompletes /\ GivesUpOnlyOnAbort]_vars

\* A message sent to the conversation is eventually finished with.
SentIsResolved == \A m \in Msg : stage[m] # "new" ~> stage[m] \in Finished

\* The messages of the turn, or command, that holds the conversation.
InTurn == {m \in Msg : Owner(m) \/ \E l \in Msg : m \in members[l]}
Over   == {m \in Msg : stage[m] \in Finished}

Promise == INSTANCE ConversationPromise
               WITH turn    <- InTurn,
                    over    <- Over,
                    waiting <- {m \in Msg : stage[m] # "new"} \ (InTurn \cup Over)

\* The queue, the batches and the drains implement one turn at a time.
ImplementsPromise == Promise!Spec
=============================================================================
