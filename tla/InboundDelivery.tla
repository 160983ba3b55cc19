--------------------------- MODULE InboundDelivery ---------------------------
(***************************************************************************)
(* Messages that arrive from a channel (Telegram, Slack, ...) by way of    *)
(* the gateway's webhook: the row that records each and deduplicates its   *)
(* redeliveries, the request handler that intercepts or dispatches it, the *)
(* background task that runs a turn and delivers the reply, and the sweep  *)
(* that retries the rows whose processing or delivery failed.              *)
(*                                                                         *)
(* The daemon is one JavaScript thread: an action is the code between two  *)
(* awaits.  The database survives a crash, everything else is lost.  The   *)
(* gateway is the environment: it may deliver a message again at any time. *)
(*                                                                         *)
(* A message's kind stands for its content: "chat" goes to the agent,      *)
(* "secret" is blocked by the ingress scan, "invite" carries an invite     *)
(* code, "verify" a verification code, and "legacy" is a row an older      *)
(* version left as failed, whose payload has no trust class.               *)
(***************************************************************************)
EXTENDS Integers

CONSTANTS Message,      \* (channel, chat, external id) triples: what a row is keyed by
          Chat,         \* conversations
          ChatOf,       \* the conversation a message belongs to
          Kinds,        \* the kinds of message considered
          Sweep,        \* the retry sweep, as a worker beside the background tasks
          NoMessage,    \* the sweep is between two rows
          MaxAttempts,  \* RETRY_MAX_ATTEMPTS
          MaxSegments,  \* bound: segments of a reply
          MaxSends,     \* bound: webhook calls per message
          MaxReplays,   \* bound: dead letters replayed
          MaxCrashes    \* bound: crashes

ASSUME InboundAssumption ==
    /\ ChatOf \in [Message -> Chat]
    /\ Kinds \subseteq {"chat", "secret", "invite", "verify", "legacy"}
    /\ Sweep \notin Message
    /\ NoMessage \notin Message
    /\ MaxAttempts \in Nat \ {0}
    /\ MaxSegments \in Nat /\ MaxSends \in Nat
    /\ MaxReplays \in Nat /\ MaxCrashes \in Nat

VARIABLES
    kind,       \* [Message -> Kinds]: content, fixed
    row,        \* [Message -> Rows]: channel_inbound_events
    handler,    \* [Message -> Steps]: the request that recorded the row
    again,      \* messages a duplicate request is delivering the stored reply of
    timer,      \* messages whose verification reply is retried by a timer
    step,       \* [Worker -> ...]: where each background task and the sweep are
    size,       \* [Worker -> Nat]: segments of the reply being delivered
    sent,       \* [Worker -> Nat]: segments of it the gateway acknowledged
    sweepOn,    \* sweepInProgress
    todo,       \* rows of the sweep's snapshot still to visit
    at,         \* the row the sweep is processing
    sends, replays, crashes,   \* counters for the bounds
    ran,        \* history: messages a turn was started for
    answered,   \* history: replies acknowledged in full
    applied,    \* history: invites redeemed and codes consumed
    told,       \* history: messages whose verification reply was acknowledged
    abandoned   \* history: messages a crash or an exception left with nobody

disk      == <<row, kind>>
requests  == <<handler, again, timer>>
work      == <<step, size, sent, sweepOn, todo, at>>
bounds    == <<sends, replays, crashes>>
history   == <<ran, answered, applied, told, abandoned>>
vars      == <<disk, requests, work, bounds, history>>

Worker   == Message \union {Sweep}
Statuses == {"none", "pending", "processed", "failed", "dead_letter"}
Payloads == {"none", "request", "reply", "legacy"}

Rows == [status : Statuses, attempts : 0..MaxAttempts, due : BOOLEAN,
         payload : Payloads, linked : BOOLEAN, segments : 0..MaxSegments]

NewRow(status, due, payload) ==
    [status |-> status, attempts |-> 0, due |-> due,
     payload |-> payload, linked |-> FALSE, segments |-> 0]

NoRow    == NewRow("none", FALSE, "none")
Recorded == NewRow("pending", FALSE, "none")
Legacy   == NewRow("failed", TRUE, "legacy")

\* The row a worker is processing.
At(w) == IF w = Sweep THEN at ELSE w

Owners(m) == {w \in Worker : step[w] # "idle" /\ At(w) = m}

TypeOK ==
    /\ kind \in [Message -> Kinds]
    /\ row \in [Message -> Rows]
    /\ handler \in [Message -> {"none", "intercepts", "telling"}]
    /\ again \subseteq Message /\ timer \subseteq Message
    /\ step \in [Worker -> {"idle", "prepare", "turn", "reply"}]
    /\ size \in [Worker -> 0..MaxSegments] /\ sent \in [Worker -> 0..MaxSegments]
    /\ sweepOn \in BOOLEAN /\ todo \subseteq Message
    /\ at \in Message \union {NoMessage}
    /\ sends \in [Message -> 0..MaxSends]
    /\ replays \in 0..MaxReplays /\ crashes \in 0..MaxCrashes
    /\ ran \subseteq Message /\ told \subseteq Message /\ abandoned \subseteq Message
    /\ answered \in [Message -> Nat] /\ applied \in [Message -> Nat]

Init ==
    /\ kind \in [Message -> Kinds]
    /\ row = [m \in Message |-> IF kind[m] = "legacy" THEN Legacy ELSE NoRow]
    /\ handler = [m \in Message |-> "none"]
    /\ again = {} /\ timer = {}
    /\ step = [w \in Worker |-> "idle"]
    /\ size = [w \in Worker |-> 0] /\ sent = [w \in Worker |-> 0]
    /\ sweepOn = FALSE /\ todo = {} /\ at = NoMessage
    /\ sends = [m \in Message |-> 0] /\ replays = 0 /\ crashes = 0
    /\ ran = {} /\ told = {} /\ abandoned = {}
    /\ answered = [m \in Message |-> 0] /\ applied = [m \in Message |-> 0]

-----------------------------------------------------------------------------
\* The webhook request.

\* recordInbound finds the row: one (channel, chat, id) is one event.
IsDuplicate(m) == row[m].status # "none"

CountSend(m) ==
    /\ sends[m] < MaxSends
    /\ sends' = [sends EXCEPT ![m] = @ + 1]
    /\ UNCHANGED <<replays, crashes>>

\* A first delivery is recorded; the intercepts that follow await.
Receive(m) ==
    /\ ~IsDuplicate(m) /\ kind[m] # "invite"
    /\ CountSend(m)
    /\ row' = [row EXCEPT ![m] = Recorded]
    /\ handler' = [handler EXCEPT ![m] = "intercepts"]
    /\ UNCHANGED <<kind, again, timer, work, history>>

\* An invite code is redeemed in the tick that records the row.  When the
\* redemption throws, the row is deleted again so that a redelivery retries.
ReceiveInvite(m) ==
    /\ ~IsDuplicate(m) /\ kind[m] = "invite"
    /\ CountSend(m)
    /\ \/ /\ row' = [row EXCEPT ![m] = Recorded]
          /\ handler' = [handler EXCEPT ![m] = "telling"]
          /\ applied' = [applied EXCEPT ![m] = @ + 1]
       \/ UNCHANGED <<row, handler, applied>>
    /\ UNCHANGED <<kind, again, timer, work, ran, answered, told, abandoned>>

\* A redelivery only retries a verification reply that could not be sent.
ReceiveDuplicate(m) ==
    /\ IsDuplicate(m)
    /\ CountSend(m)
    /\ again' = IF row[m].payload = "reply" THEN again \union {m} ELSE again
    /\ UNCHANGED <<disk, handler, timer, work, history>>

\* The intercepts let a chat message pass: its payload is stored and the
\* background task starts.
Dispatch(m) ==
    /\ handler[m] = "intercepts" /\ kind[m] = "chat"
    /\ row' = [row EXCEPT ![m].payload = "request"]
    /\ handler' = [handler EXCEPT ![m] = "none"]
    /\ step' = [step EXCEPT ![m] = "prepare"]
    /\ UNCHANGED <<kind, again, timer, size, sent, sweepOn, todo, at, bounds, history>>

\* The scan finds a secret: the payload stored for it is cleared and the
\* message counts as processed.
Blocked_Stored(r) == [r EXCEPT !.payload = "request", !.status = "processed"]
Blocked(r)        == [r EXCEPT !.payload = "none", !.status = "processed"]

Block(m) ==
    /\ handler[m] = "intercepts" /\ kind[m] = "secret"
    /\ row' = [row EXCEPT ![m] = Blocked(@)]
    /\ handler' = [handler EXCEPT ![m] = "none"]
    /\ UNCHANGED <<kind, again, timer, work, bounds, history>>

\* A verification code is consumed before its reply is delivered.
Consume(m) ==
    /\ handler[m] = "intercepts" /\ kind[m] = "verify"
    /\ applied' = [applied EXCEPT ![m] = @ + 1]
    /\ handler' = [handler EXCEPT ![m] = "telling"]
    /\ UNCHANGED <<disk, again, timer, work, bounds, ran, answered, told, abandoned>>

\* The invite's reply is best effort; the row is processed either way.
TellInvite(m) ==
    /\ handler[m] = "telling" /\ kind[m] = "invite"
    /\ row' = [row EXCEPT ![m].status = "processed"]
    /\ handler' = [handler EXCEPT ![m] = "none"]
    /\ UNCHANGED <<kind, again, timer, work, bounds, history>>

\* The verification reply is delivered, or stored for the redeliveries to
\* retry, with one retry of its own on a timer.
TellVerified(m) ==
    /\ handler[m] = "telling" /\ kind[m] = "verify"
    /\ handler' = [handler EXCEPT ![m] = "none"]
    /\ \/ /\ told' = told \union {m}
          /\ UNCHANGED <<row, timer>>
       \/ /\ row' = [row EXCEPT ![m].payload = "reply"]
          /\ timer' = timer \union {m}
          /\ UNCHANGED told
    /\ UNCHANGED <<kind, again, work, bounds, ran, answered, applied, abandoned>>

\* A retry of the stored reply ends: cleared when it was delivered, kept
\* otherwise.
Retried_Cleared(r, delivered) == [r EXCEPT !.payload = "none"]
Retried(r, delivered) == [r EXCEPT !.payload = IF delivered THEN "none" ELSE @]

RetryReply(m) ==
    /\ \E delivered \in BOOLEAN :
        /\ row' = [row EXCEPT ![m] = Retried(@, delivered)]
        /\ told' = IF delivered THEN told \union {m} ELSE told
    /\ UNCHANGED <<kind, handler, work, bounds, ran, answered, applied, abandoned>>

TellAgain(m) ==
    /\ m \in again
    /\ again' = again \ {m}
    /\ UNCHANGED timer
    /\ RetryReply(m)

TimerFires(m) ==
    /\ m \in timer
    /\ timer' = timer \ {m}
    /\ UNCHANGED again
    /\ RetryReply(m)

\* An intercept throws: the gateway is told of an error, the row stays.
HandlerThrows(m) ==
    /\ handler[m] = "intercepts"
    /\ handler' = [handler EXCEPT ![m] = "none"]
    /\ abandoned' = abandoned \union {m}
    /\ UNCHANGED <<disk, again, timer, work, bounds, ran, answered, applied, told>>

-----------------------------------------------------------------------------
\* Processing, by the background task of a message or by the sweep.

\* recordProcessingFailure, and markRetryableFailure when not fatal.
Exhausted(attempts) == attempts >= MaxAttempts

Failure(r, fatal) ==
    [r EXCEPT !.attempts = @ + 1,
              !.status   = IF fatal \/ Exhausted(r.attempts + 1)
                           THEN "dead_letter" ELSE "failed",
              !.due      = FALSE]

Rest(w) ==
    /\ step' = [step EXCEPT ![w] = "idle"]
    /\ size' = [size EXCEPT ![w] = 0]
    /\ sent' = [sent EXCEPT ![w] = 0]
    /\ at' = IF w = Sweep THEN NoMessage ELSE at

Fail(w, fatal) ==
    /\ row' = [row EXCEPT ![At(w)] = Failure(@, fatal)]
    /\ Rest(w)
    /\ UNCHANGED <<kind, requests, sweepOn, todo, bounds, history>>

\* prepareConversationForMessage: no turn may be running in the conversation.
Begin(w) ==
    /\ step[w] = "prepare"
    /\ \A v \in Worker : step[v] = "turn" => ChatOf[At(v)] # ChatOf[At(w)]
    /\ step' = [step EXCEPT ![w] = "turn"]
    /\ ran' = ran \union {At(w)}
    /\ UNCHANGED <<disk, requests, size, sent, sweepOn, todo, at, bounds,
                   answered, applied, told, abandoned>>

\* One is (another worker's, or a turn from elsewhere): the error has no
\* status, so it classifies as fatal.
RejectBusy(w) == step[w] = "prepare" /\ Fail(w, TRUE)

\* processMessage throws.
BreakTurn(w) == step[w] = "turn" /\ \E fatal \in BOOLEAN : Fail(w, fatal)

\* The turn ends: the row is linked and marked processed, then the reply is
\* delivered.  The sweep resets the progress of the reply before.
Progress(w, n, segments) == IF w = Sweep /\ n > 0 THEN 0 ELSE segments

EndTurn(w) ==
    /\ step[w] = "turn"
    /\ \E n \in 0..MaxSegments :
        /\ row' = [row EXCEPT ![At(w)].linked = TRUE,
                              ![At(w)].status = "processed",
                              ![At(w)].segments = Progress(w, n, @)]
        /\ IF n = 0
           THEN /\ Rest(w)
                /\ answered' = [answered EXCEPT ![At(w)] = @ + 1]
           ELSE /\ step' = [step EXCEPT ![w] = "reply"]
                /\ size' = [size EXCEPT ![w] = n]
                /\ UNCHANGED <<sent, at, answered>>
    /\ UNCHANGED <<kind, requests, sweepOn, todo, bounds, ran, applied, told, abandoned>>

\* A segment is acknowledged and the progress recorded.
DeliverSegment(w) ==
    /\ step[w] = "reply"
    /\ row' = [row EXCEPT ![At(w)].segments = sent[w] + 1]
    /\ IF sent[w] + 1 = size[w]
       THEN Rest(w) /\ answered' = [answered EXCEPT ![At(w)] = @ + 1]
       ELSE /\ sent' = [sent EXCEPT ![w] = @ + 1]
            /\ UNCHANGED <<step, size, at, answered>>
    /\ UNCHANGED <<kind, requests, sweepOn, todo, bounds, ran, applied, told, abandoned>>

\* A segment fails (or its acknowledgement is lost): the event has failed,
\* although the message was processed.
LoseSegment(w) == step[w] = "reply" /\ \E fatal \in BOOLEAN : Fail(w, fatal)

-----------------------------------------------------------------------------
\* The sweep.

\* getRetryableEvents
Retryable_Unfinished == {m \in Message : row[m].status \in {"failed", "pending"}}
Retryable == {m \in Message : row[m].status = "failed" /\ row[m].due}

\* The timer's callback returns while a sweep is in progress.
MaySweep_Overlapping == TRUE
MaySweep == ~sweepOn

StartSweep ==
    /\ MaySweep /\ Retryable # {}
    /\ sweepOn' = TRUE
    /\ todo' = Retryable
    /\ UNCHANGED <<disk, requests, step, size, sent, at, bounds, history>>

\* A row whose payload cannot be replayed fails at once: for good without a
\* payload, one attempt at a time without a trust class.
Unusable_Skipped(r) == r
Unusable(r) == Failure(r, r.payload # "legacy")

SweepUnusable(m) ==
    /\ sweepOn /\ at = NoMessage /\ m \in todo
    /\ row[m].payload # "request"
    /\ todo' = todo \ {m}
    /\ row' = [row EXCEPT ![m] = Unusable(@)]
    /\ UNCHANGED <<kind, requests, step, size, sent, sweepOn, at, bounds, history>>

SweepTakes(m) ==
    /\ sweepOn /\ at = NoMessage /\ m \in todo
    /\ row[m].payload = "request"
    /\ todo' = todo \ {m}
    /\ at' = m
    /\ step' = [step EXCEPT ![Sweep] = "prepare"]
    /\ UNCHANGED <<disk, requests, size, sent, sweepOn, bounds, history>>

EndSweep ==
    /\ sweepOn /\ at = NoMessage /\ todo = {}
    /\ sweepOn' = FALSE
    /\ UNCHANGED <<disk, requests, step, size, sent, todo, at, bounds, history>>

\* retryAfter passes.
BackoffEnds(m) ==
    /\ row[m].status = "failed" /\ ~row[m].due
    /\ row' = [row EXCEPT ![m].due = TRUE]
    /\ UNCHANGED <<kind, requests, work, bounds, history>>

\* replayDeadLetters
Replay(m) ==
    /\ row[m].status = "dead_letter" /\ replays < MaxReplays
    /\ row' = [row EXCEPT ![m].status = "failed", ![m].attempts = 0, ![m].due = TRUE]
    /\ replays' = replays + 1
    /\ UNCHANGED <<kind, requests, work, sends, crashes, history>>

\* Messages in somebody's hands that a restart does not pick up: the sweep
\* only looks for failed rows.
InHand == {m \in Message : \/ handler[m] # "none"
                           \/ Owners(m) # {} /\ row[m].status # "failed"}

\* The process dies.  A synchronous stretch of a handler may be cut between
\* two of its writes: a secret stored but not yet cleared, an invite recorded
\* but not yet redeemed.
Crash ==
    /\ crashes < MaxCrashes
    /\ crashes' = crashes + 1
    /\ \/ UNCHANGED row /\ abandoned' = abandoned \union InHand
       \/ \E m \in Message :
            /\ handler[m] = "intercepts" /\ kind[m] = "secret"
            /\ row' = [row EXCEPT ![m].payload = "request"]
            /\ abandoned' = abandoned \union InHand
       \/ \E m \in Message :
            /\ ~IsDuplicate(m) /\ kind[m] = "invite"
            /\ row' = [row EXCEPT ![m] = Recorded]
            /\ abandoned' = abandoned \union InHand \union {m}
    /\ handler' = [m \in Message |-> "none"]
    /\ again' = {} /\ timer' = {}
    /\ step' = [w \in Worker |-> "idle"]
    /\ sweepOn' = FALSE /\ todo' = {} /\ at' = NoMessage
    /\ size' = [w \in Worker |-> 0] /\ sent' = [w \in Worker |-> 0]
    /\ UNCHANGED <<kind, sends, replays, ran, answered, applied, told>>

Handle(m)  == \/ Dispatch(m) \/ Block(m) \/ Consume(m)
              \/ TellInvite(m) \/ TellVerified(m) \/ HandlerThrows(m)
Advance(w) == \/ Begin(w) \/ RejectBusy(w) \/ BreakTurn(w) \/ EndTurn(w)
              \/ DeliverSegment(w) \/ LoseSegment(w)

Next ==
    \/ \E m \in Message :
        \/ Receive(m) \/ ReceiveInvite(m) \/ ReceiveDuplicate(m)
        \/ Handle(m) \/ TellAgain(m) \/ TimerFires(m)
        \/ SweepUnusable(m) \/ SweepTakes(m) \/ BackoffEnds(m) \/ Replay(m)
    \/ \E w \in Worker : Advance(w)
    \/ StartSweep \/ EndSweep \/ Crash

Spec == Init /\ [][Next]_vars

\* Requests and turns end, deliveries time out, timers and the sweep's
\* interval fire.  Nothing is assumed of the gateway or of the operator.
FairSpec ==
    /\ Spec
    /\ \A m \in Message : /\ WF_vars(Handle(m)) /\ WF_vars(TimerFires(m))
                          /\ WF_vars(SweepUnusable(m) \/ SweepTakes(m))
                          /\ WF_vars(BackoffEnds(m))
    /\ \A w \in Worker : WF_vars(Advance(w))
    /\ WF_vars(StartSweep) /\ WF_vars(EndSweep)

-----------------------------------------------------------------------------
\* No two workers ever process one message: the background task of a message
\* lets go of its row before the sweep can see it as failed, and a sweep
\* never overlaps another (runtime/http-server.ts, sweepInProgress).
OneOwner ==
    \A v, w \in Worker :
        step[v] # "idle" /\ step[w] # "idle" /\ At(v) = At(w) => v = w

\* Whatever is redelivered, retried, replayed or lost in a crash, a reply is
\* acknowledged in full at most once per message; and a message at rest as
\* processed has been answered, unless a crash cut its delivery short.
AnsweredOnce ==
    \A m \in Message :
        /\ answered[m] <= 1
        /\ kind[m] = "chat" /\ row[m].status = "processed" /\ Owners(m) = {}
           => answered[m] = 1 \/ m \in abandoned

\* The recorded progress is that of the reply being delivered, never of the
\* one an earlier attempt generated.
ProgressIsOfThisReply ==
    \A w \in Worker : step[w] = "reply" => row[At(w)].segments = sent[w]

\* A row fails at most MaxAttempts times between replays: the last failure
\* makes it a dead letter, and only a row with attempts left is retried.
RetriesAreBounded ==
    \A m \in Message :
        /\ row[m].status = "failed" => row[m].attempts < MaxAttempts
        /\ row[m].status = "dead_letter" => row[m].attempts \in 1..MaxAttempts

\* Only chat messages reach the agent, by whatever way - first delivery,
\* sweep or replay -, and the payload of a blocked message stays on disk only
\* when a crash hit the scan.
OnlyChatRuns ==
    /\ \A m \in ran : kind[m] = "chat"
    /\ \A m \in Message : kind[m] = "secret" /\ row[m].payload # "none" => m \in abandoned

\* An invite or a code is used at most once however often it is redelivered,
\* and the sender of a consumed code is told, or somebody still holds the
\* reply, or it is stored for the next redelivery.
CodeIsUsedOnceAndTold ==
    \A m \in Message :
        /\ applied[m] <= 1
        /\ kind[m] = "verify" /\ applied[m] = 1 /\ m \notin told
           => handler[m] = "telling" \/ row[m].payload = "reply" \/ m \in abandoned

\* Retrying ends: from some point on every recorded message is processed or a
\* dead letter with nobody working on it, except those a crash or an exception
\* abandoned and the verification codes, whose rows are never closed.
Settled(m) ==
    \/ row[m].status = "none" \/ kind[m] = "verify" \/ m \in abandoned
    \/ row[m].status \in {"processed", "dead_letter"} /\ Owners(m) = {}

EverythingSettles == \A m \in Message : <>[]Settled(m)

=============================================================================
