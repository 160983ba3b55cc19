# Verification of the assistant daemon

This directory holds TLA+ models of the core of `assistant/`, the daemon that runs a
personal assistant: it takes messages from desktop, web, mail, phone and chat channels,
answers them with an agent loop, and does background work (memory, reminders, outreach)
against one SQLite database. Eight parts are modelled and model-checked with TLC, and their
safety properties are proved with TLAPS:

| module | models | proofs |
|---|---|---|
| `ConversationTurns` | how messages sent to one conversation become turns | `ConversationTurns_proofs` |
| `ConversationPromise` | the abstract specification of that: one turn at a time | |
| `QdrantBreaker` | the circuit breaker in front of the vector store | `QdrantBreaker_proofs` |
| `MemoryJobs` | the memory job queue, its worker, and the breaker its embed jobs share | `MemoryJobs_proofs` |
| `Schedules` | reminders and recurring schedules, their tick and their runs | `Schedules_proofs` |
| `Confirmations` | permission prompts: the prompter, the pending interactions, the guardian's records | `Confirmations_proofs` |
| `ToolGrants` | tool calls of trusted contacts that wait for the guardian's one-time grants | `ToolGrants_proofs` |
| `InboundDelivery` | channel messages: recording, interception, processing, delivery, retries | `InboundDelivery_proofs` |
| `EmailSequences` | contacts enrolled in lists of email steps, inside the scheduler's tick | `EmailSequences_proofs` |

`MC*.tla` instantiate them for TLC; the `.cfg` files give the constants their values.
`PROJECT.json` maps every definition to the lines it models and lists the runs, findings,
hazards, theorems and mutants.

To check: `tlc -config schedules.cfg MCSchedules` (and likewise for the other runs),
`tlapm Schedules_proofs.tla` (and likewise).

## Inventory

The daemon is one JavaScript process. A handler runs without interruption from one `await`
to the next; SQLite is called synchronously, so a store function is atomic and a crash
falls between two of them. What makes the system hard is therefore: state that is checked
before an `await` and used after it, several timers and routes working on the same rows,
writes that throw (`SQLITE_BUSY` after bounded retries, a foreign key), external calls that
fail or hang, and crashes between a claim and its settlement.

| component | state | operations | met by | correct when |
|---|---|---|---|---|
| Conversation turn queue (`daemon/conversation-process.ts`, `conversation-queue-manager.ts`, `conversation-messaging.ts`, `conversation-agent-loop.ts`, `runtime/routes/conversation-routes.ts`, `runtime/agent-wake.ts`) | `processing`, abort controller, queue, the batch a drain has taken | post, enqueue, drain, batch, run, hand off, abort, delete, wake, slash commands | HTTP routes, channels, wakes, subagents, schedules | one agent loop at a time; every message answered exactly once; nothing stranded or forgotten |
| Conversation history (`daemon/conversation.ts`, `conversation-history.ts`) | the in-memory messages, the rows in `messages` | persist, push, pop on failure, compact, undo, regenerate | the turn queue | memory and database agree |
| Qdrant breaker (`memory/qdrant-circuit-breaker.ts`) | state, counter, opening time, probe flag | allow, record success, record failure | embed jobs, semantic search | never stuck open; closed exactly while calls do not keep failing |
| Memory jobs (`memory/jobs-store.ts`, `jobs-worker.ts`, `indexer.ts`, `auto-analysis-enqueue.ts`) | rows of `memory_jobs`; the worker's `tickRunning` | enqueue, upsert, supersede, claim, complete, defer, retry, fail, fail stalled, reset at start | the indexer, compaction, idle timers, the handlers themselves | no trigger lost, no row orphaned or settled twice, every row settled |
| Schedules (`schedule/schedule-store.ts`, `scheduler.ts`, `runtime/routes/schedule-routes.ts`) | rows of `cron_jobs` and `cron_runs`; `tickRunning` | create, edit, toggle, cancel, delete, claim, run, complete, fail, run by hand | the agent's tools, clients | a reminder fires unless cancelled; each run is closed once |
| Permission prompts (`permissions/prompter.ts`, `runtime/pending-interactions.ts`, `memory/canonical-guardian-store.ts`, `approvals/`) | waiting tool calls, the map of what can be answered, rows of `canonical_guardian_requests` | prompt, time out, answer, cascade, decide, sweep, expire at start | tool executor, clients, channels, the guardian | the three agree; the first decision wins and is what the call is told |
| Tool grants (`tools/tool-approval-handler.ts`, `tool-grant-request-helper.ts`, `memory/scoped-approval-grants.ts`) | requests and their stamps, one-time grants, calls that poll | escalate, join, poll, mint, consume, revoke, expire | tool executor, the guardian | an approval is used once, for what it was about; one given in time is not reported as missing |
| Inbound delivery (`memory/delivery-*.ts`, `runtime/channel-retry-sweep.ts`, `runtime/routes/inbound-message-handler.ts` and its stages) | rows of `channel_inbound_events`, background tasks, the sweep | record, intercept, dispatch, process, deliver, fail, sweep, replay | channel webhooks, the operator | each message processed and answered once; every one settled |
| Subagents (`subagent/manager.ts`) | managed subagents, their conversations | spawn, send, finish, abort, dispose, sweep | tools of a parent conversation | one terminal status; no conversation torn down while it works |
| Sequences (`sequence/`) | enrollments with a next step time | enroll, claim, advance, reschedule, exit on reply | the scheduler's tick, the mail watcher | an active enrollment has a next step |
| Watchers, work items, tasks | small claim-and-reset status fields | poll, run, reset | the scheduler's tick, clients | orphans are reset |
| Voice calls (`calls/`) | calls, one active-call lease | start, turn, end, recover | the gateway | the lease is given back |
| The rest: permissions, event hub, notifications, retrieval, migrations, backups, git service, ACP sessions, eviction, credential executor, gateway, clients | see `PROJECT.json` | | | |

The parts meet at these points. Routes, channels, schedules and subagents all send messages
to a conversation through `persistUserMessage` or its queue. A turn indexes its messages,
which triggers memory jobs; embed jobs and searches share the breaker. The scheduler's tick
sends messages and runs sequences and watchers. Tool calls in a turn wait for guardian
requests.

`PROJECT.json` lists the hazards one by one, at the line where each bites, with the
properties that cover it or the reason why none does yet.

## Conventions

* An action is a handler from one `await` to the next, or a whole store operation.
* Definitions keep the names of the code where they can.
* A definition named `X_Y` is `X` with the plausible bug `Y`. The model never uses it; it is
  there to show, by being put in the place of `X`, that a property depends on `X`.
* History variables (`unseen`, `held`, `dropped`, `answers`, `told`, `grant`, `ran`, `answered`,
  `applied`, `abandoned`, `done`, `drafted`, `stranded`) record what properties talk about; no
  guard reads them.
* Bounds are constants (number of messages, rows, crashes) and are marked as bounds where
  they are declared. The specifications themselves are unbounded otherwise.
* A crash keeps what the database holds and loses the rest. Where it may hit between two
  writes of one synchronous stretch, the crash action says which.

## ConversationTurns

One conversation and the messages `Msg` sent to it. `stage[m]` says where the handler of a
message is; a message in a stage of `Owning` leads a turn or runs a command and has set
`conversation.processing`. `queue` is `MessageQueue.items` and `bytes` its `currentBytes`, `tails` the rest of a batch that
was already shifted out of it, `members` is `successfulBatch`, `drains` counts `drainQueue`
calls that have not looked at the queue yet, `controller` is the conversation's abort
controller and `ctl` the one a loop captured.

Awaits that wait for I/O separate actions: the message write (`addMessage` retries with a
sleep), the key lookups of `/models`, the compaction's LLM call, the agent loop, the turn
commit. The awaits in `drainQueue` (`resolveSlash` and friends) resolve as microtasks for
everything that is batched. A callback of the event loop cannot run between two microtasks,
yet nothing in `drainQueue` relies on that and a comment in `subagent/manager.ts` expects
the opposite. So the drain is several actions, and `MicrotaskLag` bounds how many pending
microtasks a callback may overtake: 0 is the event loop as it is, 1 and more ask what would
happen if an await of the drain became a real one. Safety is checked at lag 1 and proved at
every lag. One over-approximation: a wake awaits the drain it starts before the next wake
starts; the model lets the next one start at once.

Slash commands on the idle path look up keys *before* they claim the conversation
(`"checked"`), which is what `turns_overlap` shows; where `"command"` is not among `Kinds`
the runs and proofs are about everything else.

Fairness: `WF` of `DrainTake` (promises are scheduled) and `SF` of the steps that wait for
I/O. Writes retry a bounded number of times; LLM calls and commits have timeouts. Strong
fairness is needed only because a pending microtask disables a callback for a moment; the
event loop serves callbacks in order. Sending, cancelling, deleting and waking are not fair.

| run | what it shows |
|---|---|
| `turns_safety` | text, single and `/compact` messages, all writes may fail, lag 1: the counter of the queue's bytes is what the queue holds, and the budget is kept (`BudgetKept`); one owner, one terminal event per message, a cancel is honoured by the turn it was meant for and only a cancel costs a batch its messages, and every step is a step of `ConversationPromise` |
| `turns_live` | with slash commands, whose turns may overlap: still nothing answered twice or misplaced, nothing waits without somebody who will drain, `processing` is set only while somebody will clear it, and every message sent is finished with |
| `turns_overlap` | *violation*: a command that looked up keys while a turn started claims and releases the conversation under it; two agent loops run |

Bounds: three messages, budget two, sizes 1, 1 and 3. Three are the fewest with a head, a
persisted tail and a tail that fails, or a turn, a batch behind it and a message in between;
the third is larger than the whole budget, so it is refused behind anything and accepted by
an empty queue, where it then waits alone (`BudgetKept` allows that and no more). `FailSites` names the writes that may throw: `turns_live` leaves out the first
message's and the one before `/compact`, where the code does strand (see Divergences);
`turns_safety` contains both, and `OneOwner` and `AnsweredExactlyOnce` are unaffected.

`ConversationPromise` knows messages that wait, the messages of the turn under way, and those
that are over. The refinement mapping takes as the turn every message that owns the
conversation or is a member of a lead's turn. It says that two turns never mix, that a turn
ends for all its members at once, and that what is over is never taken up again.

Not modelled: the contents of the in-memory history, the canned first greeting, regeneration,
`server.processMessage`, the analysis conversation, the voice bridge, interface and trust
context of a message, and eviction of an idle conversation.

## QdrantBreaker

`breaker`, `failures` and `probing` are the module variables of the code. The cooldown is the
flag `cooled`; the counter stops at `Threshold`, past which the code never tells values
apart. A call is let through at once (`Begin`) and answers later (`Succeed`, `Fail`), so calls
let through while the breaker was closed may answer when it is open or half open; their
outcome counts like a probe's, as in the code. `up` is Qdrant, external.

`breaker.cfg`: four callers, threshold three (four, so that one call is still out when three
failures have opened the breaker). Fairness: callers keep coming, calls answer or time out,
the cooldown passes. `HalfOpenHasProbe` and `ClosedBelowThreshold` are also proved. They imply
that two branches of the code are never taken: opening from half-open (`recordFailure`) always
finds the counter at the threshold already, and a half-open breaker without a probe
(`allows`) does not exist.

## MemoryJobs

The rows of one conversation. `kind` stands for the job type (`embed` and `media` for any two of the
seven embed types: the jobs of one type and conversation run one after the other, those of two types
may overlap, and call the breaker while they do) and, for `conversation_analyze`,
its trigger group; `when` for `runAfter` (in the future, passed, or set to now); `batch` and
`groups` for the tick's local variables (claimed and not started, groups the task pool has
started); `doing` for the handler of each row. The triggers are the indexer's, the
auto-analysis enqueuer's and the worker's own clean-up. `unseen` is the history of triggers
that no handler has started on since; `held` remembers which handler took one. Triggers may
arrive while the worker is down, since the rows are all there is to it. A store update that
throws leaves its row `running` and `doing` `"stuck"`: no handler, until the stall check. So does
a claim that throws half way (`TickBreaks`, which comes after the tick's stall check and has marked some
of the rows it selected).
`Breaker` is an instance of `QdrantBreaker` whose callers are the jobs and `Search`.

| run | what it shows |
|---|---|
| `jobs_store` | two rows, each of one of two embed types or a clean-up, one searcher, throwing updates, a crash: no `running` row without a worker after a restart, no settled row touched again, every row settled |
| `jobs_triggers` | three rows, extraction and all analysis kinds, a crash: every trigger no handler has started on has a row that will be worked, and an immediate analysis is not pushed back |

Bounds: three rows are one that runs, one pending and one that supersedes; attempts and
deferrals of two make "one more than the last" reachable; one crash reaches every step before
and after it. Rows are symmetric in `jobs_triggers`, which checks only safety; the run with a
liveness property uses no symmetry.

Fairness: the worker's timer fires and time passes (`TimelyTick`, a tick that finds what has
stalled, strongly fair because a crash or an early tick may come in between), a crashed
daemon is restarted, handlers end (`HandlersEnd`, justified by the timeouts of their provider
calls; see Divergences for what happens without it). `JobsSettle` assumes that searches cease: a
searcher that takes every probe could keep embed jobs waiting, which is what the code allows.

`NoTriggerLost` is checked without throwing updates: one that throws leaves the row stuck, the
stall check fails it, and its trigger is gone with it.

Not modelled: what handlers compute, several embed calls in one job, the clock of the clean-up
window, the order of the claim (`runAfter`, nondeterministic here), legacy job types.

## Schedules

Rows of `cron_jobs` and the number of their runs in `cron_runs` that say `running`. `due` is
"`nextRunAt` has passed". The tick claims all due rows at once (`Tick`) and works through its
snapshots, recurring ones first (`Begins`, then `Succeeds` or `Fails`), while users edit, toggle,
cancel, delete and run rows by hand. `Modes` are `notify`, `message` (execute with a plain
message, whose run is opened before and closed after) and `task` (execute with `run_task:`,
whose run is added when it is over). Deleting a row deletes its runs (`ON DELETE CASCADE`,
with foreign keys switched on in `db-connection.ts:19`), and a run cannot be inserted for a
row that is gone: outside the `try` that ends the tick (`Abort`). `dropped` records the rows
whose claim was cut short by that or by a crash.

| run | what it shows |
|---|---|
| `schedules` | a firing reminder is in the tick's hands, a cancelled one never starts, every run is closed once, a due reminder fires in the end |

Bounds: two rows, one of them also run by hand (once at a time), one crash. Two rows are what
it takes for one to cost the other its turn. `schedules` leaves out the task mode, which
differs from `notify` only for deleted one-shots; the proofs include it.

Fairness: the timer fires, the tick goes on, what it starts ends, and what is tried again and
again succeeds at last (`SF` of `Succeeds`; the code has no limit on the retries of a one-shot).
`FiringIsHeld`, `DueOneShotFires` make an exception for rows in `dropped`: after a crash nothing
ever resets a firing row, and its runs that say `running` are never closed, which is why
`RunsAreClosed` stops at the first crash.

Not modelled: cron and RRULE arithmetic (a recurring row's next run is computed, is never, or
fails, nondeterministically), `lastStatus`, `retryCount`, quiet and reuse options, watchers and
sequences in the same tick.

## Confirmations

The permission prompts `Request` of one conversation. A prompt lives in three places that the
code keeps in step by hand: `prompt[r]` is what `PermissionPrompter` has told the tool call that
waits on it, `registered` are the keys of `pendingInteractions`, by which clients answer, and
`record[r]` is the status of the canonical `tool_approval` request, by which the guardian decides.
All of it is synchronous code, so each action is one such piece: showing a prompt (`Ask`), its
timer, an aborted turn, the four ways to answer (`Confirm` for `POST /v1/confirm` and the channels'
`handleChannelDecision`, which take the entry first; `ConfirmByPrompt` for a connected client, which
goes by the prompt; `GuardianDecides`, which commits the record first), a new message, which denies
what is outstanding and expires orphaned records, the expiry sweep and a restart. `Reach` says which
sibling prompts a decision cascades to.

| run | what it shows |
|---|---|
| `confirmations` | the three views agree: a waiting call can be answered, nothing ran that is denied on record, nothing allowed is left pending, no record outlives a restart (`ViewsAgree`); a decision recorded while a call waits is what it is told; the first decision stands; every record is closed in the end |
| `confirmations_applied` | *violation*: a guardian's approval of a prompt that has timed out is reported as applied |

Bounds: three prompts, so that a cascade leaves one out, one crash. Fairness: prompt timers,
deadlines and the sweep's interval. Nobody has to answer.

Not modelled: secret prompts and host-access prompts (same map, other kinds), ACP permissions,
the trust rules an "always" decision writes, and what delivers a prompt to a channel.

## ToolGrants

Tool calls of one trusted contact in one conversation. `ToolOf[c]` stands for the tool with the
digest of its input. A call that finds a grant consumes it and runs (`Invoke`); one that does not
files a request or joins the pending one for the same thing, stamps it
(`followupState = inline_wait_active:<time>`) and polls: for a rejection, then for a grant, until its
budget is over or its turn is aborted. The guardian's approval mints a grant at once when the stamp is
fresh, and otherwise after a notice to the requester (`notifying`), during which the daemon may
die. `active[r]` counts the grants of `r` that can be used; grants end by time or revocation.
`sameMs` is there because a request's id is made from the time in milliseconds: a second one in
the same millisecond is refused by the primary key (`Collide`).

`grants`: each approval is used at most once and for the tool it was about (`UsedAsApproved`); the
guardian is not asked twice at once, and while the daemon lives a stamp that silences the retry
notice has a call behind it (`AskingIsSound`); a call that reports that no approval came in time is
right, unless another call took the grant, it ended, or the requester is being told to retry
(`ApprovedInTimeRuns`); every approval gets to its grant unless the daemon dies or the mint fails
(`ApprovalYieldsGrant`).

Bounds: three calls, two of them for one thing and one for another, so that a call can share a
request, find a grant and retry; two requests; one crash. Fairness: polls go on and budgets end,
notices return, deadlines pass, the sweep runs. The run may stop: its calls are used up.

One abstraction: between the failed look for a grant and the filing of a request there is no `await`,
so they are one step. Not modelled: grants bound to a request id and the retry polling of voice
calls, several requesters, and a guardian who is replaced while a request is pending.

## InboundDelivery

`row[m]` is the row of `channel_inbound_events` that records a channel message and deduplicates its
redeliveries. `kind[m]` stands for its content: `chat` goes to the agent, `secret` is blocked by the
ingress scan, `invite` and `verify` carry codes, and `legacy` is a failed row without a trust class.
`handler[m]` is the request that recorded the row, `step[w]` is where a worker is, a worker being the
background task of a message or the sweep, which processes one row at a time (`at`) of a snapshot
(`todo`). `again` and `timer` are redeliveries and timers that retry a stored verification reply. A
turn may be refused because the conversation is busy (`RejectBusy`: the error has no status and
counts as fatal), may throw, or ends; then the row is marked processed, and the reply is delivered
segment by segment. A failure of either costs an attempt (`Failure`).

Three abstractions: storing the payload and the intercepts' later awaits, up to the dispatch, are one
step (a crash in between leaves a row that nobody looks at, with a payload or without); a
verification code is the right one (a wrong one is answered, and its answer retried, in the same
way, but grants nothing); and every message names a reply address, without which the code has
nothing to deliver or to retry.

`inbound`: no two workers ever have one message; a reply is acknowledged in full at most once,
and a processed message at rest was answered unless a crash cut in; only chat ever reaches the agent,
by any way; a code is used at most once, and its reply is told, held or stored; every message is
settled in the end. Not covered by that: what a crash abandons. A row that is `pending` or
`processed` when the daemon dies is looked at by no sweep, and its redeliveries are duplicates.

Bounds: two messages of one chat, so that turns collide, every pair of kinds; `MaxAttempts` is 3
for the code's 8, which makes the first, a middle and the last attempt different; replies of up to
two segments; each message sent twice; two replays, two crashes. Fairness: requests and turns end,
deliveries time out, timers and the sweep's interval fire. Nothing is assumed of the gateway or of
the operator.

Not modelled: edits, reactions, escalations and the other intercepts of the handler, delivery
acknowledgements (written, never read), `claimRunDelivery` (not used by this flow), the sweep's limit
of 20 rows a pass, and the length of the backoff.

## EmailSequences

One sequence, with `plan` for its steps (`send`, `draft` for a step that needs approval, `hasty` for
one whose delay is below the guardrails' minimum), and its enrollments. A phase of the scheduler's
tick claims a batch of due enrollments (`Claim` clears their next step time), and processes each from
the snapshot in `todo`: skip, complete, defer, or start the step's turn (`current`). A turn ends as a
draft, as a send (logged in `hour` and `day`, which are in memory only), or throws; and the store may
throw before the turn (`ThrowEarly`) and after the mail is out (`StoreThrows`). An enrollment whose
processing threw is tried again from its step, so that this mail is sent again: `NoStepTwice` is about
the steps the row has advanced past. While a turn runs, the operator pauses, resumes, cancels, edits
and deletes anything. Replies are matched by the watchers, which the same tick runs *before* this
phase: hence `MayMatch`.

`sequences`: steps are sent in order and none twice; an active enrollment without a next step is in
the engine's hands, waits for its draft, or was stranded, by a crash or by a store that throws twice; a
reply is the last word; and
every enrollment moves on, except those a guardrail holds that time does not lift.

Bounds: three enrollments, two of one contact, a batch of two; plans of one step and of two; one send an
hour, two a day; a cap of three active enrollments, which three reach; and two incidents (operator's
operations other than enrolling, turns and stores that throw, crashes). Fairness: the tick's turns end, time
passes, and, since the oldest due are claimed first, one that stays due is claimed in the end (`SF` of
`ClaimWith`).

Not modelled: several sequences under one daily cap, `exitOnReply = false`, the importer, analytics,
changes of the guardrails' configuration, and which thread a step's messages were in (`thread` only
says that one is known).

## Proofs

TLAPS proves these for every set of messages, callers or schedules and every value of the bounds:

* `ConversationTurns_proofs`, in layers, each of which rests on those before it:
  - Wherever writes fail, whatever is sent and at any microtask lag: `TypeCorrect`,
    `InOnePlaceHolds` and `AnsweredAtMostOnceHolds`. `PlaceInv` says of each stage what it means
    for the places a message can be in: the queue holds exactly the messages at `"queued"`, each
    once; the tails and members of a lead exist only while the lead is at a stage that has a
    batch, they are at the stages that belong to the lead's, and no message is in two batches.
    A step takes a message out of one place and puts it in the next, so each proof cuts a
    sequence, appends to one or joins two; the lemmas about stretches and concatenations at the
    front of the module are what those steps share. That no second terminal event is sent
    follows from one lemma about every step: it leaves a message's events and whether it is
    `Settled` alone, or settles it with one event, or ends a turn of the HTTP route that
    could not start, which has none.
  - When neither a write of the HTTP route nor the one before a compaction fails
    (`{"post", "compact"} \cap FailSites = {}`): `NothingStrandedHolds`. The controller belongs to a
    turn under way (`ControllerTurns`), and a queue that no one holds has a drain to come, a busy
    flag without a controller a command or a wake (`Drained`). The two failures are left out because the code
    strands there (see Divergences).
  - When no slash command that looks up keys is sent (`"command" \notin Kinds`):
    `OneOwnerHolds`, `OneAgentLoopHolds`, `AnsweredExactlyOnceHolds`, `AbortsAreHonouredHolds` and
    `ImplementsPromiseHolds`; what such a command does is shown by `turns_overlap`. `OneOwner`
    is not far from inductive: a loop's end releases the conversation without a look at who
    holds it, so the invariant has to say that the one who releases is the only one that could
    have held it. With one owner, the controller a turn started with is the conversation's
    for as long as the turn runs, and the one its loop captured (`CtlOK`); so a cancel marks the turn that is
    running (`AbortOK`), and no turn is refused its loop because its controller is gone, which is
    the one end nobody hears of.
  - The refinement: the invariant, `TurnInv`, gives what the mapping needs (a message in a
    turn is its owner's or a member of it). Each action is one step of `ConversationPromise`:
    sending is `Submit` or `Open`, taking the queue's front is `Open`, persisting a tail or
    starting the loop with what was persisted is `Extend`, cancelling, deleting and refusing what waits
    is `Resolve`, the end of a turn or a command is `Close`, and the rest stutter. There is one lemma for each
    of those forms (`Submits`, `Opens`, `Extends`, `Resolves`, `Closes`, `Stutters`) and
    one step for each action.
* `QdrantBreaker_proofs`: `HalfOpenHasProbeHolds` and `ClosedBelowThresholdHolds`, which need
  each other: a late failure of an old call finds the breaker half open and must be known to
  find the counter at the threshold, so that it opens it.
* `Schedules_proofs`: `TypeCorrect`, `FiringIsHeldHolds`, `RunsAreClosedHolds` and
  `CancelledNeverRunsHolds`, all from one inductive invariant: snapshots belong to a tick that
  runs, a row has one snapshot at most, a one-shot's snapshot is of a row that is firing or
  deleted, rows not yet created have no runs, and the runs under way are covered by open runs
  (which is what keeps the count from going below zero).
* `MemoryJobs_proofs`: `TypeCorrect`, `NoOrphansHolds`, `FinishedStaysFinishedHolds`,
  `ImmediateNotPostponedHolds`, and, when updates do not throw (`StoreFails = FALSE`),
  `NoTriggerLostHolds`. The invariant says that only running rows are in the worker's hands and
  each in one place, that between batches no handler is at work (so the stall check at the start
  of a tick can only meet rows that have none, which is why no settled row is settled again),
  that a row that is not settled has an attempt and a deferral left, and that an inserted row has
  a kind. For the triggers: what a handler took is held only while it is at work, so that the row
  of every trigger a crash gives back is still running.

* `Confirmations_proofs`: `ViewsAgreeHolds`, `FirstDecision`, `WaiterIsTold`. Two facts make
  `ViewsAgree` inductive: a prompt not yet shown has no record, and no call still waits when its
  record says denied (every path that denies on record tells the call in the same step).
* `ToolGrants_proofs`: `GrantsAreBound`, `AsksSoundly` and `ApprovedInTimeRunsHolds`. Nothing comes of a request before it is
  approved and its grant minted; a grant that can be used has not been, and no two calls used one
  (the count in `OneUsePerApproval` follows); what a grant was used for is what its request was about.
  `ApprovedInTimeRunsHolds` needs two facts more: what a waiting call waits for is what it asked for
  (`WaitsAsAsked`), and an approval has its grant or lost it, unless the requester is still being
  told to retry (`ApprovalOnItsWay`). A call that gives up saw no grant in the same step, so the one
  that was minted for it has been used or has ended.
* `InboundDelivery_proofs`: `OwnedByOne`, `RepliesOnce`, `ProgressIsCurrent`, `Bounded`, `KeptOut`
  and `CodesOnce`, for any number of messages, attempts, segments and crashes. The invariant ties a
  row's status to who holds it: a handler or a task has a pending row until its turn ends, the
  sweep a failed one; what is answered is processed and in nobody's hands. That the sweep and a task
  never meet follows from it, without any lock.
* `EmailSequences_proofs`: `InOrderAndOnce`, `NobodyForgotten`, `RepliesAreFinal` and `Capped`. A
  claimed enrollment is in the engine's hands once, and its row's step is the snapshot's unless it
  was deleted: whatever the operator does to a row, only the end of a turn changes its step.

The assumptions are the named `ASSUME`s of the modules. Each proof has one step per action.

Proved and in no run: that the states of the conversation, of the breaker, of `Confirmations`, `ToolGrants`,
`InboundDelivery` and `EmailSequences` are well formed (`TypeCorrect` of each), that the send caps
hold, that a row fails at most `MaxAttempts` times and that recorded progress is of the reply under
delivery.

Left to TLC: the liveness properties (`SentIsResolved`, `SelfHeals`, `JobsSettle`, `DueOneShotFires`,
`RequestsClose`, `ApprovalYieldsGrant`, `EverythingSettles`, `EnrollmentsMoveOn`), because the prover has
no support for liveness under fairness; and `BudgetKept`, because the sum of the sizes of what
is queued is a recursion over the queue, which is out of its reach too. Every other property of the passing runs is a theorem.

## Divergences

Two have a run: `turns_overlap` and `confirmations_applied` (`findings` in `PROJECT.json`). These were
met while modelling; the models contain the behaviour, and the properties make room for it by name.

* A cancel while a batch is written leaves its unwritten tails without any event
  (`conversation-process.ts:1193`); `NothingForgotten` states the contrary.
* When the write of the message that opened a turn fails, the queue behind it is not drained
  (`conversation-messaging.ts:352`); when the write before `/compact` throws, `processing` stays set
  (`conversation-routes.ts:2103`). Adding `"post"` or `"compact"` to `FailSites` in `turns_live`
  violates `NothingStranded`.
* The stall check is at the start of a tick, and the tick that waits for a handler that never ends
  keeps all later ticks out (`jobs-worker.ts:103`, `:157`); `StalledAreFailed` states the contrary.
* A claimed schedule that is deleted before its turn throws outside of any `try`: the tick ends, and
  the other claimed reminders say `firing` for good (`scheduler.ts:319`), as after a crash;
  `NothingDropped` states the contrary.
* `qdrant-circuit-breaker.ts:9` speaks of one probe; a late answer of an old call clears the probe
  flag, so that there can be two. No property of the breaker suffers.
* `indexer.ts:193` says that a batch crossing always takes effect at once; a later message of the same
  conversation pushes the shared row back to the idle timeout.
* `delivery-channels.ts:86` says that a retry resumes after the segments that were delivered; the
  retry runs the turn again and delivers its new reply from the first segment
  (`channel-retry-sweep.ts:221`).
* `guardrails.ts:4` says that a guardrail defers a send to the next tick. The cap counts the
  enrollment being processed, and two active enrollments of one contact count each other: at the
  cap, and for duplicates, the deferral repeats until somebody intervenes (`Explained`).
* `engine.ts:207` says that a step cannot be sent twice because the enrollment advances next; when the
  write that advances it throws, the step is tried, and mailed, again (`engine.ts:57`).
* `engine.ts:182` leaves the advance of a drafted step to an approval flow that no code in the
  repository is; an operator who pauses and resumes the enrollment gets the same draft again.

## Not modelled

The daemon is about a tenth of the repository's 460,000 lines, and most of the rest is
user interface (the Swift and terminal clients), provider and channel adapters, media streaming,
prompts, configuration schemas, migrations and skills: pure I/O or data, where there is no state
machine to check. The models cover the parts of the daemon where state is shared between handlers,
timers and restarts. `PROJECT.json` lists every other component with its reason. Of those, these
have states worth a model: the in-memory history (a failed write pops the last element, which need not
be its own; `conversation-messaging.ts:549`), the release of a subagent's conversation
(`subagent/manager.ts:511`), the voice calls' lease, watchers and work items (a claim-and-reset status
field each, as in `EmailSequences`).

## Plan

Done: the inventory; the turn queue with its abstract specification, the breaker, the job queue,
the schedules, permission prompts, tool grants, inbound delivery and email sequences; the proofs of
their safety and action properties and of the refinement. Next, in this order:

1. `ConversationHistory`: the array in memory against the rows, under failing writes, compaction,
   undo and regeneration; then eviction and the release of a subagent's conversation, as compositions
   with `ConversationTurns`.
2. Watchers, work items and the voice calls' lease, whose rows are claimed and reset as those of
   `Schedules` and `EmailSequences` are.
