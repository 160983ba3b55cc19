----------------------------- MODULE MemoryJobs -----------------------------
(***************************************************************************)
(* The memory job queue of one conversation: rows in memory_jobs, the      *)
(* triggers that insert or postpone them, the worker that claims and runs  *)
(* them, and the Qdrant circuit breaker embed jobs go through.  Store      *)
(* operations are synchronous; handlers run concurrently.  The daemon may  *)
(* crash at any step: the rows survive, everything else is lost.           *)
(***************************************************************************)
EXTENDS Naturals, FiniteSets

CONSTANTS
    Job,           \* the rows that may be inserted (bound)
    Search,        \* other callers of Qdrant
    Threshold,     \* FAILURE_THRESHOLD of the breaker
    Kinds,         \* the kinds of job that are enqueued
    BatchSize,     \* config.memory.jobs.batchSize
    Concurrency,   \* config.memory.jobs.workerConcurrency
    MaxAttempts,   \* RETRY_MAX_ATTEMPTS
    MaxDeferrals,  \* MAX_DEFERRALS
    StoreFails,    \* updates of a row may throw (SQLITE_BUSY)
    MaxCrashes     \* how often the daemon crashes (bound)

\* "embed", "media": two of EMBED_JOB_TYPES.  "extract": graph_extract.  "now" and
\* "later": conversation_analyze of the immediate and the debounced trigger
\* group; "legacy": the same without a trigger group, from an older build.
\* "prune": a clean-up job, enqueued by the worker itself.
AllKinds == {"embed", "media", "extract", "now", "later", "legacy", "prune"}
Embeds   == {"embed", "media"}
Analysis == {"now", "later", "legacy"}

ASSUME KindsAssumption == Kinds \subseteq AllKinds
ASSUME LimitsAssumption ==
    /\ BatchSize \in Nat \ {0} /\ Concurrency \in Nat \ {0}
    /\ MaxAttempts \in Nat \ {0} /\ MaxDeferrals \in Nat \ {0}
    /\ Threshold \in Nat \ {0}
    /\ StoreFails \in BOOLEAN /\ MaxCrashes \in Nat

VARIABLES
    kind,       \* type (and trigger group) of each row
    status,     \* status of each row, "absent" until it is inserted
    when,       \* runAfter: "later", "due" (it has passed), "asap" (set to now)
    attempts,   \* attempts of each row
    deferrals,  \* deferrals of each row
    worker,     \* the worker: not started, idle, or running a batch
    batch,      \* claimed rows whose handler has not started
    groups,     \* job groups the task pool has started and not finished
    doing,      \* what the handler of each row is doing
    unseen,     \* triggers that no handler has started on since
    held,       \* rows whose handling took the trigger of their work
    crashes,
    breaker, failures, cooled, probing, calls, up   \* see QdrantBreaker

jobVars == <<kind, status, when, attempts, deferrals, worker, batch, groups, doing,
             unseen, held, crashes>>
breakerVars == <<breaker, failures, cooled, probing, calls, up>>
vars == <<jobVars, breakerVars>>

Breaker == INSTANCE QdrantBreaker WITH Call <- Job \cup Search

TypeOK ==
    /\ kind \in [Job -> AllKinds \cup {"none"}]
    /\ status \in [Job -> {"absent", "pending", "running", "completed", "failed"}]
    /\ when \in [Job -> {"later", "due", "asap"}]
    /\ attempts \in [Job -> 0..MaxAttempts]
    /\ deferrals \in [Job -> 0..MaxDeferrals]
    /\ worker \in {"down", "idle", "batch"}
    /\ batch \subseteq Job
    /\ groups \subseteq AllKinds \cup {"analyze"}
    /\ doing \in [Job -> {"none", "working", "qdrant", "stuck"}]
    /\ unseen \subseteq {"extract", "analyze"}
    /\ held \subseteq Job
    /\ crashes \in 0..MaxCrashes
    /\ Breaker!TypeOK

\* The database may hold an analysis row of an older build.
Init ==
    /\ \E old \in SUBSET Job :
          /\ Cardinality(old) <= 1
          /\ old # {} => "legacy" \in Kinds
          /\ kind = [j \in Job |-> IF j \in old THEN "legacy" ELSE "none"]
          /\ status = [j \in Job |-> IF j \in old THEN "pending" ELSE "absent"]
          /\ unseen = IF old = {} THEN {} ELSE {"analyze"}
    /\ when = [j \in Job |-> "later"]
    /\ attempts = [j \in Job |-> 0]
    /\ deferrals = [j \in Job |-> 0]
    /\ worker = "idle"
    /\ batch = {} /\ groups = {}
    /\ doing = [j \in Job |-> "none"]
    /\ held = {}
    /\ crashes = 0
    /\ Breaker!Init
-----------------------------------------------------------------------------
(* Helpers.  A definition named X_Y is X with the plausible bug Y; the model   *)
(* never uses it.                                                             *)

Rows(k)    == {j \in Job : kind[j] = k}
Pending(k) == {j \in Rows(k) : status[j] = "pending"}
Claimable  == {j \in Job : status[j] = "pending" /\ when[j] # "later"}
Embedding  == {j \in Job : kind[j] \in Embeds}
InFlight   == {j \in Job : doing[j] \in {"working", "qdrant"}}

AtMost(n, m) == IF n < m THEN n ELSE m

\* The group whose jobs run one after the other: type and conversation.
Group(j) == IF kind[j] \in Analysis THEN "analyze" ELSE kind[j]

\* The trigger a job works off, when it has one.
Work(j) == IF kind[j] \in Analysis THEN {"analyze"} ELSE {kind[j]} \cap {"extract"}

\* The pending rows an upsert of kind k finds.
Matching_AnyGroup(k) == IF k \in Analysis THEN UNION {Pending(a) : a \in Analysis}
                                          ELSE Pending(k)
Matching(k) == IF k \in Analysis THEN Pending(k) \cup Pending("legacy") ELSE Pending(k)

\* Insert a row of kind k or, when candidates is not empty, give one of them its
\* runAfter and trigger group; the rows of done are completed by the way.
Put(candidates, k, w, done) ==
    \E j \in IF candidates # {} THEN candidates ELSE {i \in Job : status[i] = "absent"} :
        /\ kind' = [kind EXCEPT ![j] = k]
        /\ when' = [when EXCEPT ![j] = w]
        /\ status' = [i \in Job |-> IF i \in done THEN "completed"
                                    ELSE IF i = j THEN "pending" ELSE status[i]]

\* upsertDebouncedJob, upsertAutoAnalysisJob
Upsert(k, w, done) == Put(Matching(k), k, w, done)

-----------------------------------------------------------------------------
(* Triggers *)

EnqueueEmbed ==
    /\ \E k \in Embeds \cap Kinds : Put({}, k, "asap", {})
    /\ UNCHANGED <<attempts, deferrals, worker, batch, groups, doing, unseen, held,
                   crashes, breakerVars>>

\* A message is indexed: extraction at once when a batch of messages is complete,
\* else when the conversation has been idle.
TriggerExtract ==
    /\ "extract" \in Kinds
    /\ \E w \in {"later", "asap"} : Upsert("extract", w, {})
    /\ unseen' = unseen \cup {"extract"}
    /\ UNCHANGED <<attempts, deferrals, worker, batch, groups, doing, held, crashes,
                   breakerVars>>

\* The pending debounced rows an immediate analysis makes redundant.
Superseded == Pending("later")

\* enqueueAutoAnalysisIfEnabled: batch or compaction, and idle or lifecycle.
TriggerNow ==
    /\ "now" \in Kinds
    /\ Upsert("now", "asap", Superseded)
    /\ unseen' = unseen \cup {"analyze"}
    /\ UNCHANGED <<attempts, deferrals, worker, batch, groups, doing, held, crashes,
                   breakerVars>>

TriggerLater ==
    /\ "later" \in Kinds
    /\ Upsert("later", "later", {})
    /\ unseen' = unseen \cup {"analyze"}
    /\ UNCHANGED <<attempts, deferrals, worker, batch, groups, doing, held, crashes,
                   breakerVars>>

\* runAfter passes.
FallsDue(j) ==
    /\ status[j] = "pending" /\ when[j] = "later"
    /\ when' = [when EXCEPT ![j] = "due"]
    /\ UNCHANGED <<kind, status, attempts, deferrals, worker, batch, groups, doing,
                   unseen, held, crashes, breakerVars>>
-----------------------------------------------------------------------------
(* The worker *)

\* How many embed jobs may be claimed: none while the breaker is open, except
\* one to probe Qdrant when it has cooled down.
EmbedLimit_NoProbe(slots) == IF breaker = "closed" THEN slots ELSE 0
EmbedLimit(slots) ==
    IF breaker = "closed" THEN slots
    ELSE IF breaker = "open" /\ cooled THEN AtMost(1, slots) ELSE 0

\* tick() does nothing while a tick runs.
MayTick_Reentrant == worker # "down"
MayTick == worker = "idle"

\* What claimMemoryJobs may select: embed jobs fill the slots that are left.
Selected(others, embeds) ==
    /\ Cardinality(others) = AtMost(BatchSize, Cardinality(Claimable \ Embedding))
    /\ Cardinality(embeds) = AtMost(EmbedLimit(BatchSize - Cardinality(others)),
                                    Cardinality(Claimable \cap Embedding))

\* failStalledJobs: running rows that took too long are failed.
FailStalled(stalled) ==
    /\ MayTick
    /\ stalled \subseteq {j \in Job : status[j] = "running"}
    /\ held' = held \ stalled

\* Rows that stalled are failed, and those of claimed are claimed.
Claimed(stalled, claimed) ==
    status' = [j \in Job |-> IF j \in stalled THEN "failed"
                             ELSE IF j \in claimed THEN "running" ELSE status[j]]

\* runMemoryJobsOnce: fail the running rows that stalled, then claim a batch,
\* embed jobs last.
Tick(stalled) ==
    /\ FailStalled(stalled)
    /\ \E others \in SUBSET (Claimable \ Embedding),
          embeds \in SUBSET (Claimable \cap Embedding) :
          /\ Selected(others, embeds)
          /\ batch' = batch \cup others \cup embeds
          /\ Claimed(stalled, others \cup embeds)
    /\ doing' = [j \in Job |-> IF j \in stalled /\ doing[j] = "stuck" THEN "none"
                                                                     ELSE doing[j]]
    /\ worker' = "batch"
    /\ UNCHANGED <<kind, when, attempts, deferrals, groups, unseen, crashes, breakerVars>>

\* claimMemoryJobs throws on the way: the rows it has claimed are in no batch.
TickBreaks(stalled) ==
    /\ StoreFails
    /\ FailStalled(stalled)
    /\ \E others \in SUBSET (Claimable \ Embedding),
          embeds \in SUBSET (Claimable \cap Embedding) :
          \E claimed \in SUBSET (others \cup embeds) \ {others \cup embeds} :
              /\ Selected(others, embeds)
              /\ claimed \cap embeds # {} => others \subseteq claimed
              /\ Claimed(stalled, claimed)
              /\ doing' = [j \in Job |->
                             IF j \in claimed THEN "stuck"
                             ELSE IF j \in stalled /\ doing[j] = "stuck" THEN "none"
                             ELSE doing[j]]
    /\ UNCHANGED <<kind, when, attempts, deferrals, worker, batch, groups, unseen,
                   crashes, breakerVars>>

\* Claimed jobs of one group run in sequence, at most Concurrency groups at a
\* time, groups of embed jobs last.
MayStart(j) ==
    /\ \A i \in InFlight : Group(i) # Group(j)
    /\ \/ Group(j) \in groups
       \/ /\ Cardinality(groups) < Concurrency
          /\ kind[j] \in Embeds => \A i \in batch : Group(i) \in groups \cup Embeds

\* The handler starts, and sees what has triggered it.
Start(j) ==
    /\ worker = "batch" /\ j \in batch
    /\ MayStart(j)
    /\ batch' = batch \ {j}
    /\ groups' = groups \cup {Group(j)}
    /\ doing' = [doing EXCEPT ![j] = "working"]
    /\ held' = IF Work(j) \cap unseen # {} THEN held \cup {j} ELSE held
    /\ unseen' = unseen \ Work(j)
    /\ UNCHANGED <<kind, status, when, attempts, deferrals, worker, crashes, breakerVars>>

\* The handler of j is over: the next job of its group, or another group.
Leave(j, st) ==
    /\ doing' = [doing EXCEPT ![j] = st]
    /\ groups' = IF \E i \in batch : Group(i) = Group(j) THEN groups
                                                        ELSE groups \ {Group(j)}
    /\ UNCHANGED <<worker, batch, crashes>>

\* The row of j is settled: its work is done, or given up.
Settled(j, st) ==
    /\ status' = [status EXCEPT ![j] = st]
    /\ held' = held \ {j}
    /\ Leave(j, "none")
    /\ UNCHANGED <<kind, when, unseen>>

\* The row of j goes back to pending, with its work.
Postponed(j) ==
    /\ status' = [status EXCEPT ![j] = "pending"]
    /\ when' = [when EXCEPT ![j] = "later"]
    /\ unseen' = IF j \in held THEN unseen \cup Work(j) ELSE unseen
    /\ held' = held \ {j}
    /\ Leave(j, "none")
    /\ UNCHANGED kind

\* The update of the row throws: it stays "running" with no handler.
Stuck(j) ==
    /\ StoreFails
    /\ Leave(j, "stuck")
    /\ UNCHANGED <<kind, status, when, attempts, deferrals, unseen, held>>

\* attempts >= maxAttempts
OutOfAttempts_OffByOne(n) == n > MaxAttempts
OutOfAttempts(n) == n >= MaxAttempts
OutOfDeferrals(n) == n >= MaxDeferrals

\* deferMemoryJob
Defer(j) ==
    /\ deferrals' = [deferrals EXCEPT ![j] = @ + 1]
    /\ IF OutOfDeferrals(deferrals[j] + 1) THEN Settled(j, "failed") ELSE Postponed(j)
    /\ UNCHANGED attempts

\* failMemoryJob, after a retryable error and after a fatal one (maxAttempts 1).
Retry(j) ==
    /\ attempts' = [attempts EXCEPT ![j] = @ + 1]
    /\ IF OutOfAttempts(attempts[j] + 1) THEN Settled(j, "failed") ELSE Postponed(j)
    /\ UNCHANGED deferrals

GiveUp(j) ==
    /\ attempts' = [attempts EXCEPT ![j] = @ + 1]
    /\ Settled(j, "failed")
    /\ UNCHANGED deferrals

\* completeMemoryJob; when it throws, the error is handled as a fatal one.
Finish(j) ==
    \/ Settled(j, "completed") /\ UNCHANGED <<attempts, deferrals>>
    \/ StoreFails /\ GiveUp(j)
    \/ Stuck(j)

Succeeds(j) ==
    /\ doing[j] = "working"
    /\ Finish(j)
    /\ UNCHANGED breakerVars

\* handleJobError
Fails(j) ==
    /\ doing[j] = "working"
    /\ Defer(j) \/ Retry(j) \/ GiveUp(j) \/ Stuck(j)
    /\ UNCHANGED breakerVars

\* enqueueAutoAnalysisIfEnabled for a follow-up, before the row is completed.
FollowUp_None(j) == Put({j}, kind[j], when[j], {j})
FollowUp(j) == Upsert("later", "later", {j})

\* The rolling analysis conversation is busy: the handler did nothing and asks
\* for a follow-up.
Skips(j) ==
    /\ doing[j] = "working" /\ kind[j] \in Analysis /\ "later" \in Kinds
    /\ FollowUp(j)
    /\ unseen' = unseen \cup {"analyze"}
    /\ held' = held \ {j}
    /\ Leave(j, "none")
    /\ UNCHANGED <<attempts, deferrals, breakerVars>>

\* An embed job has its vector and writes it to Qdrant, through the breaker.
CallsQdrant(j) ==
    /\ doing[j] = "working" /\ kind[j] \in Embeds
    /\ \/ /\ Breaker!Begin(j)
          /\ doing' = [doing EXCEPT ![j] = "qdrant"]
          /\ UNCHANGED <<kind, status, when, attempts, deferrals, worker, batch, groups,
                         unseen, held, crashes>>
       \/ /\ Breaker!Refuses
          /\ Defer(j) \/ Stuck(j)
          /\ UNCHANGED breakerVars

QdrantAnswers(j) ==
    /\ doing[j] = "qdrant"
    /\ \/ Breaker!Succeed(j) /\ Finish(j)
       \/ Breaker!Fail(j) /\ (Retry(j) \/ GiveUp(j) \/ Stuck(j))

\* The batch is over.  The worker may find the clean-up window elapsed: it then
\* enqueues a clean-up unless one is pending or running.
BatchEnds ==
    /\ worker = "batch" /\ batch = {} /\ InFlight = {}
    /\ worker' = "idle"
    /\ \/ UNCHANGED <<kind, status, when>>
       \/ /\ "prune" \in Kinds
          /\ \A j \in Rows("prune") : status[j] \notin {"pending", "running"}
          /\ Put({}, "prune", "asap", {})
    /\ UNCHANGED <<attempts, deferrals, batch, groups, doing, unseen, held, crashes,
                   breakerVars>>
-----------------------------------------------------------------------------
(* The rest of the daemon, and its crashes *)

SearchQdrant(s) ==
    /\ Breaker!Begin(s) \/ Breaker!Succeed(s) \/ Breaker!Fail(s)
    /\ UNCHANGED jobVars

BreakerCools == Breaker!CoolDown /\ UNCHANGED jobVars
QdrantToggles == Breaker!Toggle /\ UNCHANGED jobVars

Crash ==
    /\ worker # "down" /\ crashes < MaxCrashes
    /\ crashes' = crashes + 1
    /\ worker' = "down"
    /\ batch' = {} /\ groups' = {}
    /\ doing' = [j \in Job |-> "none"]
    /\ unseen' = unseen \cup UNION {Work(j) : j \in held}
    /\ held' = {}
    /\ breaker' = "closed" /\ failures' = 0 /\ cooled' = FALSE /\ probing' = FALSE
    /\ calls' = [c \in Job \cup Search |-> "none"]
    /\ UNCHANGED <<kind, status, when, attempts, deferrals, up>>

\* resetRunningJobsToPending
Recovered_None == status
Recovered == [j \in Job |-> IF status[j] = "running" THEN "pending" ELSE status[j]]

\* startMemoryJobsWorker
Restart ==
    /\ worker = "down"
    /\ status' = Recovered
    /\ worker' = "idle"
    /\ UNCHANGED <<kind, when, attempts, deferrals, batch, groups, doing, unseen, held,
                   crashes, breakerVars>>
-----------------------------------------------------------------------------
Handler(j) ==
    Succeeds(j) \/ Fails(j) \/ Skips(j) \/ CallsQdrant(j) \/ QdrantAnswers(j)

Next ==
    \/ EnqueueEmbed \/ TriggerExtract \/ TriggerNow \/ TriggerLater
    \/ \E j \in Job : FallsDue(j) \/ Start(j) \/ Handler(j)
    \/ \E stalled \in SUBSET Job : Tick(stalled) \/ TickBreaks(stalled)
    \/ BatchEnds
    \/ \E s \in Search : SearchQdrant(s)
    \/ BreakerCools \/ QdrantToggles \/ Crash \/ Restart

Spec == Init /\ [][Next]_vars

\* The worker's timer fires, time passes for runAfter, for the breaker's cooldown
\* and for rows whose update failed (TimelyTick), and a crashed daemon is started
\* again.
TimelyTick ==
    \E stalled \in SUBSET Job :
        /\ {j \in Job : doing[j] = "stuck"} \subseteq stalled
        /\ Tick(stalled)
WorkerFairness ==
    /\ SF_vars(TimelyTick)
    /\ WF_vars(BatchEnds) /\ WF_vars(BreakerCools) /\ WF_vars(Restart)
    /\ \A j \in Job : WF_vars(FallsDue(j)) /\ WF_vars(Start(j))

\* Handlers end: their requests to providers and to Qdrant time out.
HandlersEnd == \A j \in Job : WF_vars(Handler(j))

FairSpec == Spec /\ WorkerFairness /\ HandlersEnd
\* A handler may hang: nothing in the worker limits how long it takes.
HangSpec == Spec /\ WorkerFairness
-----------------------------------------------------------------------------
\* A "running" row is in the hands of the worker, or stuck until it stalls: after a
\* crash none is left claimed by a process that is gone.
NoOrphans ==
    \A j \in Job : status[j] = "running" /\ worker # "down" =>
        j \in batch \/ doing[j] # "none"

\* Every trigger no handler has started on since has a row that will be worked:
\* superseding, coalescing, skipping, retrying and crashing drop none.  (When an
\* update of the store throws on the way, it may be dropped.)
NoTriggerLost ==
    \A w \in unseen : \E j \in Job :
        /\ w \in Work(j)
        /\ status[j] = "pending" \/ j \in batch \/ (status[j] = "running" /\ worker = "down")

\* A row that completed or failed is never touched again: the stall check never
\* fails a row whose handler is still at work and settles it later.
FinishedStaysFinished ==
    [][\A j \in Job : status[j] \in {"completed", "failed"} =>
            status'[j] = status[j] /\ attempts'[j] = attempts[j]]_vars

\* "separate rows so an idle enqueue cannot push an already-scheduled immediate
\* row's `runAfter` into the future"
ImmediateNotPostponed ==
    [][\A j \in Pending("now") : when[j] = "asap" /\ status'[j] = "pending" =>
            kind'[j] = "now" /\ when'[j] = "asap"]_vars

\* Every row is eventually completed or given up, whether Qdrant answers or not, and
\* however updates fail, once no search takes the breaker's probes from the worker.
JobsSettle ==
    <>[](\A s \in Search : calls[s] = "none") =>
        \A j \in Job : status[j] \in {"pending", "running"}
                            ~> status[j] \in {"completed", "failed"}

\* "Fail jobs that have been running longer than the configured timeout"
StalledAreFailed == \A j \in Job : status[j] = "running" ~> status[j] # "running"
=============================================================================
