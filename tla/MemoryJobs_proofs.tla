-------------------------- MODULE MemoryJobs_proofs --------------------------
(***************************************************************************)
(* Proofs about the memory job queue, for any number of rows, searches,    *)
(* attempts and crashes: what the worker holds and what the rows say       *)
(* belong together, and no trigger is lost on the way.                     *)
(***************************************************************************)
EXTENDS MemoryJobs, TLAPS

\* TypeOK without the breaker.
QueueTypeOK ==
    /\ kind \in [Job -> AllKinds \cup {"none"}]
    /\ status \in [Job -> {"absent", "pending", "running", "completed", "failed"}]
    /\ when \in [Job -> {"later", "due", "asap"}]
    /\ attempts \in [Job -> 0..MaxAttempts]
    /\ deferrals \in [Job -> 0..MaxDeferrals]
    /\ worker \in {"down", "idle", "batch"}
    /\ batch \subseteq Job
    /\ groups \subseteq AllKinds \cup {"analyze"}
    /\ doing \in [Job -> {"none", "working", "qdrant", "stuck"}]
    /\ unseen \subseteq {"extract", "analyze"}
    /\ held \subseteq Job
    /\ crashes \in 0..MaxCrashes

\* A row that was inserted has a kind.
HasKind == \A j \in Job : status[j] # "absent" => kind[j] \in AllKinds

\* A row that is not settled has an attempt and a deferral left.
HasAttempts ==
    \A j \in Job : status[j] \in {"absent", "pending", "running"} =>
        attempts[j] < MaxAttempts /\ deferrals[j] < MaxDeferrals

\* Only running rows are in the worker's hands, and each in one place.
HeldRun ==
    /\ \A j \in batch : status[j] = "running" /\ doing[j] = "none"
    /\ \A j \in Job : doing[j] # "none" => status[j] = "running"

\* Between batches no handler is at work, so a stalled row has none.
RestingHoldsNothing ==
    /\ worker # "batch" => batch = {} /\ InFlight = {}
    /\ worker = "down" => \A j \in Job : doing[j] = "none"

QInv ==
    /\ QueueTypeOK
    /\ HasKind /\ HasAttempts /\ HeldRun /\ RestingHoldsNothing /\ NoOrphans
IInv == QInv /\ Breaker!TypeOK

USE LimitsAssumption
-----------------------------------------------------------------------------
(* The breaker *)

\* The breaker's part of a step keeps its type, whoever calls.
LEMMA BreakerType ==
    ASSUME Breaker!TypeOK,
           NEW c \in Job \cup Search,
           Breaker!Begin(c) \/ Breaker!Succeed(c) \/ Breaker!Fail(c)
               \/ Breaker!CoolDown \/ Breaker!Toggle \/ UNCHANGED breakerVars
    PROVE  Breaker!TypeOK'
<1>1. CASE Breaker!Begin(c)
  BY <1>1 DEF Breaker!TypeOK, Breaker!Begin
<1>2. CASE Breaker!Succeed(c)
  <2>1. 0 \in 0..Threshold
    OBVIOUS
  <2> QED
    BY <1>2, <2>1 DEF Breaker!TypeOK, Breaker!Succeed
<1>3. CASE Breaker!Fail(c)
  <2>1. Breaker!FailuresNow \in 0..Threshold
    BY DEF Breaker!TypeOK, Breaker!FailuresNow
  <2> QED
    BY <1>3, <2>1 DEF Breaker!TypeOK, Breaker!Fail
<1>4. CASE Breaker!CoolDown \/ Breaker!Toggle \/ UNCHANGED breakerVars
  BY <1>4 DEF Breaker!TypeOK, Breaker!CoolDown, Breaker!Toggle, breakerVars
<1> QED
  BY <1>1, <1>2, <1>3, <1>4
-----------------------------------------------------------------------------
(* Inserting, and settling *)

\* An insert or upsert keeps the rows well formed, when the candidates and the rows it
\* completes on the way are pending.
LEMMA PutInv ==
    ASSUME QInv, NEW C \in SUBSET Job, NEW k \in AllKinds, NEW w \in {"later", "asap"},
           NEW D \in SUBSET Job, Put(C, k, w, D),
           \A j \in C \cup D : status[j] = "pending",
           UNCHANGED <<attempts, deferrals, worker, batch, groups, doing, held, crashes>>,
           unseen' \subseteq {"extract", "analyze"}
    PROVE  QInv'
<1> USE DEF QInv
<1>0. PICK j \in IF C # {} THEN C ELSE {i \in Job : status[i] = "absent"} :
           /\ kind' = [kind EXCEPT ![j] = k]
           /\ when' = [when EXCEPT ![j] = w]
           /\ status' = [i \in Job |-> IF i \in D THEN "completed"
                                       ELSE IF i = j THEN "pending" ELSE status[i]]
  BY DEF Put
<1>1. j \in Job /\ status[j] \in {"absent", "pending"}
  BY <1>0
<1>2. QueueTypeOK'
  BY <1>0, <1>1 DEF QueueTypeOK
<1>3. HasKind' /\ HasAttempts'
  BY <1>0, <1>1 DEF HasKind, HasAttempts, QueueTypeOK
<1>4. HeldRun' /\ RestingHoldsNothing' /\ NoOrphans'
  BY <1>0, <1>1 DEF HeldRun, RestingHoldsNothing, NoOrphans, InFlight, QueueTypeOK
<1> QED
  BY <1>2, <1>3, <1>4

\* A handler at work leaves: its row, which was running, gets the status st, and only a
\* row that stays running keeps a handler, stuck.
LEMMA LeaveInv ==
    ASSUME QInv, NEW j \in Job, doing[j] \in {"working", "qdrant"},
           NEW st \in {"pending", "running", "completed", "failed"},
           status' = [status EXCEPT ![j] = st],
           Leave(j, IF st = "running" THEN "stuck" ELSE "none"),
           kind' = kind,
           when' \in [Job -> {"later", "due", "asap"}],
           unseen' \subseteq {"extract", "analyze"}, held' \subseteq Job,
           attempts' \in [Job -> 0..MaxAttempts],
           deferrals' \in [Job -> 0..MaxDeferrals],
           \A i \in Job \ {j} : attempts'[i] = attempts[i] /\ deferrals'[i] = deferrals[i],
           st \in {"pending", "running"} =>
               attempts'[j] < MaxAttempts /\ deferrals'[j] < MaxDeferrals
    PROVE  QInv'
<1> USE DEF QInv
<1>0. status[j] = "running" /\ j \notin batch
  BY DEF HeldRun
<1>1. doing' \in [Job -> {"none", "working", "qdrant", "stuck"}]
      /\ groups' \subseteq AllKinds \cup {"analyze"}
  BY DEF Leave, QueueTypeOK
<1>2. QueueTypeOK'
  BY <1>1 DEF Leave, QueueTypeOK
<1>3. HasKind' /\ HasAttempts'
  BY <1>0 DEF HasKind, HasAttempts, QueueTypeOK
<1>4. HeldRun'
  BY <1>0 DEF HeldRun, Leave, QueueTypeOK
<1>5. worker = "batch" /\ worker' = worker
  BY DEF RestingHoldsNothing, QueueTypeOK, InFlight, Leave
<1>6. RestingHoldsNothing'
  BY <1>5 DEF RestingHoldsNothing
<1>7. NoOrphans'
  BY <1>0 DEF NoOrphans, Leave, QueueTypeOK
<1> QED
  BY <1>2, <1>3, <1>4, <1>6, <1>7

\* The ways a handler's row is settled, goes back or gets stuck.
LEMMA OutcomeInv ==
    ASSUME QInv, NEW j \in Job, doing[j] \in {"working", "qdrant"},
           Defer(j) \/ Retry(j) \/ GiveUp(j) \/ Finish(j) \/ Stuck(j)
    PROVE  QInv'
<1>0. /\ QueueTypeOK /\ status[j] = "running" /\ Work(j) \subseteq {"extract", "analyze"}
      /\ attempts[j] < MaxAttempts /\ deferrals[j] < MaxDeferrals
  BY DEF QInv, HeldRun, HasAttempts, Work
<1>1. /\ [attempts EXCEPT ![j] = @ + 1] \in [Job -> 0..MaxAttempts]
      /\ [deferrals EXCEPT ![j] = @ + 1] \in [Job -> 0..MaxDeferrals]
  BY <1>0 DEF QueueTypeOK
<1>2. ASSUME NEW st \in {"completed", "failed"}, Settled(j, st),
             \/ UNCHANGED <<attempts, deferrals>>
             \/ attempts' = [attempts EXCEPT ![j] = @ + 1] /\ UNCHANGED deferrals
             \/ deferrals' = [deferrals EXCEPT ![j] = @ + 1] /\ UNCHANGED attempts
      PROVE  QInv'
  <2>1. /\ attempts' \in [Job -> 0..MaxAttempts] /\ deferrals' \in [Job -> 0..MaxDeferrals]
        /\ \A i \in Job \ {j} : attempts'[i] = attempts[i] /\ deferrals'[i] = deferrals[i]
    BY <1>0, <1>1, <1>2 DEF QueueTypeOK
  <2>2. /\ status' = [status EXCEPT ![j] = st] /\ Leave(j, "none") /\ kind' = kind
        /\ when' \in [Job -> {"later", "due", "asap"}]
        /\ unseen' \subseteq {"extract", "analyze"} /\ held' \subseteq Job
    BY <1>0, <1>2 DEF Settled, QueueTypeOK
  <2> QED
    BY <2>1, <2>2, LeaveInv
<1>3. ASSUME Postponed(j),
             \/ attempts' = [attempts EXCEPT ![j] = @ + 1] /\ UNCHANGED deferrals
                /\ ~OutOfAttempts(attempts[j] + 1)
             \/ deferrals' = [deferrals EXCEPT ![j] = @ + 1] /\ UNCHANGED attempts
                /\ ~OutOfDeferrals(deferrals[j] + 1)
      PROVE  QInv'
  <2>1. /\ attempts' \in [Job -> 0..MaxAttempts] /\ deferrals' \in [Job -> 0..MaxDeferrals]
        /\ \A i \in Job \ {j} : attempts'[i] = attempts[i] /\ deferrals'[i] = deferrals[i]
    BY <1>0, <1>1, <1>3 DEF QueueTypeOK
  <2>2. /\ status' = [status EXCEPT ![j] = "pending"] /\ Leave(j, "none") /\ kind' = kind
        /\ when' \in [Job -> {"later", "due", "asap"}]
        /\ unseen' \subseteq {"extract", "analyze"} /\ held' \subseteq Job
    BY <1>0, <1>3 DEF Postponed, QueueTypeOK
  <2>3. attempts'[j] < MaxAttempts /\ deferrals'[j] < MaxDeferrals
    BY <1>0, <1>3 DEF OutOfAttempts, OutOfDeferrals, QueueTypeOK
  <2> QED
    BY <2>1, <2>2, <2>3, LeaveInv
<1>4. ASSUME Stuck(j) PROVE QInv'
  <2>1. status' = [status EXCEPT ![j] = "running"] /\ Leave(j, "stuck")
    BY <1>0, <1>4 DEF Stuck, QueueTypeOK
  <2>2. /\ kind' = kind /\ when' \in [Job -> {"later", "due", "asap"}]
        /\ unseen' \subseteq {"extract", "analyze"} /\ held' \subseteq Job
        /\ attempts' \in [Job -> 0..MaxAttempts] /\ deferrals' \in [Job -> 0..MaxDeferrals]
        /\ \A i \in Job \ {j} : attempts'[i] = attempts[i] /\ deferrals'[i] = deferrals[i]
        /\ attempts'[j] < MaxAttempts /\ deferrals'[j] < MaxDeferrals
    BY <1>0, <1>4 DEF Stuck, QueueTypeOK
  <2> QED
    BY <2>1, <2>2, LeaveInv
<1>5. CASE Defer(j)
  BY <1>2, <1>3, <1>5 DEF Defer
<1>6. CASE Retry(j)
  BY <1>2, <1>3, <1>6 DEF Retry
<1>7. CASE GiveUp(j)
  BY <1>2, <1>7 DEF GiveUp
<1>8. CASE Finish(j)
  BY <1>2, <1>4, <1>7, <1>8 DEF Finish
<1> QED
  BY <1>4, <1>5, <1>6, <1>7, <1>8
-----------------------------------------------------------------------------
(* Each operation preserves the invariant *)

LEMMA InitInv == Init => IInv
<1> SUFFICES ASSUME Init PROVE IInv
  OBVIOUS
<1>0. /\ 0 \in 0..MaxAttempts /\ 0 \in 0..MaxDeferrals /\ 0 \in 0..MaxCrashes /\ 0 \in 0..Threshold
      /\ 0 < MaxAttempts /\ 0 < MaxDeferrals
  OBVIOUS
<1>1. PICK old \in SUBSET Job :
          /\ kind = [j \in Job |-> IF j \in old THEN "legacy" ELSE "none"]
          /\ status = [j \in Job |-> IF j \in old THEN "pending" ELSE "absent"]
          /\ unseen = IF old = {} THEN {} ELSE {"analyze"}
  BY DEF Init
<1>2. QueueTypeOK
  <2>1. /\ kind \in [Job -> AllKinds \cup {"none"}]
        /\ status \in [Job -> {"absent", "pending", "running", "completed", "failed"}]
        /\ unseen \subseteq {"extract", "analyze"}
    BY <1>1 DEF AllKinds
  <2> QED
    BY <1>0, <2>1 DEF Init, QueueTypeOK
<1>3. HasKind /\ HasAttempts /\ HeldRun /\ RestingHoldsNothing /\ NoOrphans
  BY <1>0, <1>1 DEF Init, HasKind, AllKinds, HasAttempts, HeldRun, RestingHoldsNothing, NoOrphans, InFlight
<1>4. Breaker!TypeOK
  BY <1>0 DEF Init, Breaker!Init, Breaker!TypeOK
<1> QED
  BY <1>2, <1>3, <1>4 DEF IInv, QInv

\* The rows an upsert looks at, or supersedes, are pending.
LEMMA MatchingPending ==
    ASSUME NEW k, NEW j \in Matching(k) \cup Superseded
    PROVE  j \in Job /\ status[j] = "pending"
  BY DEF Matching, Superseded, Pending, Rows

LEMMA TriggersInv ==
    ASSUME QInv, EnqueueEmbed \/ TriggerExtract \/ TriggerNow \/ TriggerLater
    PROVE  QInv'
<1>0. /\ unseen \subseteq {"extract", "analyze"}
      /\ Embeds \cup {"extract", "now", "later"} \subseteq AllKinds
  BY DEF QInv, QueueTypeOK, AllKinds, Embeds
<1>1. CASE EnqueueEmbed
  <2>1. {} \in SUBSET Job /\ \A j \in {} \cup {} : status[j] = "pending"
    OBVIOUS
  <2>2. PICK k \in Embeds : Put({}, k, "asap", {})
    BY <1>1 DEF EnqueueEmbed
  <2>3. /\ k \in AllKinds
        /\ UNCHANGED <<attempts, deferrals, worker, batch, groups, doing, held, crashes>>
        /\ unseen' \subseteq {"extract", "analyze"}
    BY <1>0, <1>1 DEF EnqueueEmbed
  <2> QED
    BY <2>1, <2>2, <2>3, PutInv
<1>2. CASE TriggerExtract
  <2>0. PICK C, D : C = Matching("extract") /\ D = {}
    OBVIOUS
  <2>1. PICK w \in {"later", "asap"} : Put(C, "extract", w, D)
    BY <1>2, <2>0 DEF TriggerExtract, Upsert
  <2>2. C \in SUBSET Job /\ D \in SUBSET Job /\ \A j \in C \cup D : status[j] = "pending"
    BY <2>0, MatchingPending
  <2>3. /\ UNCHANGED <<attempts, deferrals, worker, batch, groups, doing, held, crashes>>
        /\ unseen' \subseteq {"extract", "analyze"} /\ "extract" \in AllKinds
    BY <1>0, <1>2 DEF TriggerExtract
  <2> QED
    BY ONLY <2>1, <2>2, <2>3, PutInv, QInv, LimitsAssumption
<1>3. CASE TriggerNow
  <2>1. Put(Matching("now"), "now", "asap", Superseded)
    BY <1>3 DEF TriggerNow, Upsert
  <2>2. Matching("now") \in SUBSET Job /\ Superseded \in SUBSET Job
        /\ \A j \in Matching("now") \cup Superseded : status[j] = "pending"
    BY MatchingPending
  <2> QED
    BY <1>0, <1>3, <2>1, <2>2, PutInv DEF TriggerNow
<1>4. CASE TriggerLater
  <2>1. Put(Matching("later"), "later", "later", {})
    BY <1>4 DEF TriggerLater, Upsert
  <2>2. Matching("later") \in SUBSET Job /\ {} \in SUBSET Job
        /\ \A j \in Matching("later") \cup {} : status[j] = "pending"
    BY MatchingPending
  <2>3. /\ UNCHANGED <<attempts, deferrals, worker, batch, groups, doing, held, crashes>>
        /\ unseen' \subseteq {"extract", "analyze"} /\ "later" \in AllKinds
    BY <1>0, <1>4 DEF TriggerLater
  <2> QED
    BY <1>0, <1>4, <2>1, <2>2, <2>3, PutInv
<1> QED
  BY <1>1, <1>2, <1>3, <1>4

LEMMA FallsDueInv == ASSUME QInv, NEW j \in Job, FallsDue(j) PROVE QInv'
<1>1. QueueTypeOK'
  BY DEF QInv, QueueTypeOK, FallsDue
<1>2. HasKind' /\ HasAttempts' /\ HeldRun' /\ RestingHoldsNothing' /\ NoOrphans'
  BY DEF QInv, FallsDue, HasKind, HasAttempts, HeldRun, RestingHoldsNothing, NoOrphans, InFlight
<1> QED
  BY <1>1, <1>2 DEF QInv

\* What a tick finds when it may run: no row in the worker's hands but stuck ones.
LEMMA IdleIs ==
    ASSUME QInv, MayTick
    PROVE  batch = {} /\ \A j \in Job : doing[j] \in {"none", "stuck"}
  BY DEF QInv, QueueTypeOK, MayTick, RestingHoldsNothing, InFlight

LEMMA TickInv == ASSUME QInv, NEW stalled \in SUBSET Job, Tick(stalled) PROVE QInv'
<1>0. batch = {} /\ \A j \in Job : doing[j] \in {"none", "stuck"}
  BY IdleIs DEF Tick, FailStalled, Claimed
<1>1. PICK claimed \in SUBSET Claimable :
          /\ batch' = claimed
          /\ status' = [j \in Job |-> IF j \in stalled THEN "failed"
                                      ELSE IF j \in claimed THEN "running" ELSE status[j]]
  <2>1. PICK others \in SUBSET (Claimable \ Embedding),
             embeds \in SUBSET (Claimable \cap Embedding) :
                 /\ batch' = batch \cup others \cup embeds
                 /\ status' = [j \in Job |-> IF j \in stalled THEN "failed"
                                             ELSE IF j \in others \cup embeds THEN "running"
                                             ELSE status[j]]
    BY DEF Tick, FailStalled, Claimed
  <2> QED
    BY <1>0, <2>1
<1>2. /\ \A j \in claimed : j \in Job /\ status[j] = "pending"
      /\ \A j \in stalled : status[j] = "running"
  BY <1>1 DEF Claimable, Tick, FailStalled, Claimed
<1>3. QueueTypeOK'
  BY <1>1, <1>2 DEF QInv, QueueTypeOK, Tick, FailStalled, Claimed
<1>4. HasKind' /\ HasAttempts'
  BY <1>1, <1>2 DEF QInv, QueueTypeOK, HasKind, HasAttempts, Tick, FailStalled, Claimed
<1>5. HeldRun'
  BY <1>0, <1>1, <1>2 DEF QInv, QueueTypeOK, HeldRun, Tick, FailStalled, Claimed
<1>6. RestingHoldsNothing'
  BY DEF RestingHoldsNothing, Tick, FailStalled, Claimed
<1>7. NoOrphans'
  <2> SUFFICES ASSUME NEW j \in Job, status'[j] = "running"
               PROVE  j \in batch' \/ doing'[j] # "none"
    BY DEF NoOrphans
  <2>1. j \notin stalled
    BY <1>1
  <2>2. CASE j \in claimed
    BY <1>1, <2>2
  <2>3. CASE j \notin claimed
    <3>1. status[j] = "running" /\ worker # "down"
      BY <1>1, <2>1, <2>3 DEF Tick, FailStalled, Claimed, MayTick
    <3>2. doing[j] # "none" /\ doing'[j] = doing[j]
      BY <1>0, <2>1, <3>1 DEF QInv, NoOrphans, Tick, FailStalled, Claimed
    <3> QED
      BY <3>2
  <2> QED
    BY <2>2, <2>3
<1> QED
  BY <1>3, <1>4, <1>5, <1>6, <1>7 DEF QInv

LEMMA TickBreaksInv ==
    ASSUME QInv, NEW stalled \in SUBSET Job, TickBreaks(stalled) PROVE QInv'
<1>0. batch = {} /\ \A j \in Job : doing[j] \in {"none", "stuck"}
  BY IdleIs DEF TickBreaks, FailStalled
<1>1. PICK claimed \in SUBSET Claimable :
          /\ status' = [j \in Job |-> IF j \in stalled THEN "failed"
                                      ELSE IF j \in claimed THEN "running" ELSE status[j]]
          /\ doing' = [j \in Job |-> IF j \in claimed THEN "stuck"
                                     ELSE IF j \in stalled /\ doing[j] = "stuck" THEN "none"
                                     ELSE doing[j]]
  <2>1. PICK others \in SUBSET (Claimable \ Embedding),
             embeds \in SUBSET (Claimable \cap Embedding) :
             \E claimed \in SUBSET (others \cup embeds) \ {others \cup embeds} :
                 /\ Selected(others, embeds)
                 /\ claimed \cap embeds # {} => others \subseteq claimed
                 /\ Claimed(stalled, claimed)
                 /\ doing' = [j \in Job |-> IF j \in claimed THEN "stuck"
                                ELSE IF j \in stalled /\ doing[j] = "stuck" THEN "none"
                                ELSE doing[j]]
    BY Zenon DEF TickBreaks
  <2>2. PICK claimed \in SUBSET (others \cup embeds) :
                 /\ Claimed(stalled, claimed)
                 /\ doing' = [j \in Job |-> IF j \in claimed THEN "stuck"
                                ELSE IF j \in stalled /\ doing[j] = "stuck" THEN "none"
                                ELSE doing[j]]
    BY <2>1
  <2>3. claimed \in SUBSET Claimable
    OBVIOUS
  <2> QED
    BY <2>2, <2>3 DEF Claimed
<1>2. /\ \A j \in claimed : j \in Job /\ status[j] = "pending"
      /\ \A j \in stalled : status[j] = "running"
  BY <1>1 DEF Claimable, TickBreaks, FailStalled
<1>3. QueueTypeOK'
  BY <1>1 DEF QInv, QueueTypeOK, TickBreaks, FailStalled
<1>4. HasKind' /\ HasAttempts' /\ HeldRun'
  BY <1>0, <1>1, <1>2 DEF QInv, QueueTypeOK, HasKind, HasAttempts, HeldRun, TickBreaks,
                          FailStalled
<1>5. NoOrphans'
  BY <1>0, <1>1, <1>2 DEF QInv, QueueTypeOK, NoOrphans, TickBreaks, FailStalled
<1>6. RestingHoldsNothing'
  BY <1>0, <1>1 DEF QInv, QueueTypeOK, RestingHoldsNothing, InFlight, TickBreaks, FailStalled,
                    MayTick
<1> QED
  BY <1>3, <1>4, <1>5, <1>6 DEF QInv

LEMMA StartInv == ASSUME QInv, NEW j \in Job, Start(j) PROVE QInv'
<1>0. status[j] = "running"
  BY DEF QInv, HeldRun, Start
<1>1. groups' \subseteq AllKinds \cup {"analyze"}
  <2>1. kind[j] \in AllKinds
    BY <1>0 DEF QInv, QueueTypeOK, HasKind
  <2> QED
    BY <2>1 DEF QInv, QueueTypeOK, Start, Group
<1>2. QueueTypeOK'
  BY <1>1 DEF QInv, QueueTypeOK, Start
<1>3. HasKind' /\ HasAttempts' /\ HeldRun' /\ NoOrphans' /\ RestingHoldsNothing'
  BY <1>0 DEF QInv, QueueTypeOK, HasKind, HasAttempts, HeldRun, NoOrphans, RestingHoldsNothing, Start
<1> QED
  BY <1>2, <1>3 DEF QInv

\* The follow-up is another row than the one its handler completes.
LEMMA SkipsInv == ASSUME QInv, NEW j \in Job, Skips(j) PROVE QInv'
<1> USE DEF QInv
<1>0. /\ status[j] = "running" /\ j \notin batch /\ worker = "batch"
      /\ doing' = [doing EXCEPT ![j] = "none"]
  BY DEF HeldRun, RestingHoldsNothing, InFlight, QueueTypeOK, Skips, Leave
<1>1. PICK i \in IF Matching("later") # {} THEN Matching("later")
                                           ELSE {l \in Job : status[l] = "absent"} :
          /\ kind' = [kind EXCEPT ![i] = "later"]
          /\ when' = [when EXCEPT ![i] = "later"]
          /\ status' = [l \in Job |-> IF l \in {j} THEN "completed"
                                      ELSE IF l = i THEN "pending" ELSE status[l]]
  BY DEF Skips, FollowUp, Upsert, Put
<1>2. i \in Job /\ status[i] \in {"absent", "pending"} /\ i # j
  BY <1>0, <1>1, MatchingPending
<1>3. groups' \subseteq AllKinds \cup {"analyze"} /\ unseen' \subseteq {"extract", "analyze"}
  BY DEF QueueTypeOK, Skips, Leave
<1>4. QueueTypeOK'
  BY <1>0, <1>1, <1>2, <1>3 DEF QueueTypeOK, AllKinds, Skips, Leave
<1>5. HasKind'
  BY <1>0, <1>1, <1>2 DEF QueueTypeOK, HasKind, AllKinds
<1>6. HasAttempts'
  BY <1>0, <1>1, <1>2 DEF QueueTypeOK, HasAttempts, Skips
<1>7. HeldRun' /\ RestingHoldsNothing' /\ NoOrphans'
  BY <1>0, <1>1, <1>2 DEF QueueTypeOK, HeldRun, RestingHoldsNothing, NoOrphans, Skips, Leave
<1> QED
  BY <1>4, <1>5, <1>6, <1>7

LEMMA HandlerInv == ASSUME IInv, NEW j \in Job, Handler(j) PROVE IInv'
<1> USE DEF IInv
<1>0. UNCHANGED breakerVars => Breaker!TypeOK'
  BY BreakerType
<1>1. CASE Succeeds(j)
  BY <1>0, <1>1, OutcomeInv DEF Succeeds
<1>2. CASE Fails(j)
  BY <1>0, <1>2, OutcomeInv DEF Fails
<1>3. CASE Skips(j)
  BY <1>0, <1>3, SkipsInv DEF Skips
<1>4. CASE CallsQdrant(j)
  <2>1. ASSUME Breaker!Begin(j), doing' = [doing EXCEPT ![j] = "qdrant"], doing[j] = "working",
               UNCHANGED <<kind, status, when, attempts, deferrals, worker, batch, groups,
                           unseen, held, crashes>>
        PROVE  QInv'
    <3>1. status[j] = "running" /\ j \notin batch /\ worker = "batch"
      BY <2>1 DEF QInv, HeldRun, RestingHoldsNothing, InFlight, QueueTypeOK
    <3>2. QueueTypeOK' /\ HasKind' /\ HasAttempts'
      BY <2>1 DEF QInv, QueueTypeOK, HasKind, HasAttempts
    <3>3. HeldRun' /\ RestingHoldsNothing' /\ NoOrphans'
      BY <2>1, <3>1 DEF QInv, QueueTypeOK, HeldRun, RestingHoldsNothing, NoOrphans
    <3> QED
      BY <3>2, <3>3 DEF QInv
  <2>2. ASSUME Defer(j) \/ Stuck(j), doing[j] = "working" PROVE QInv'
    BY <2>2, OutcomeInv
  <2>3. QInv'
    BY <1>4, <2>1, <2>2 DEF CallsQdrant
  <2>4. Breaker!TypeOK'
    BY <1>4, BreakerType DEF CallsQdrant
  <2> QED
    BY <2>3, <2>4
<1>5. CASE QdrantAnswers(j)
  <2>1. QInv'
    BY <1>5, OutcomeInv DEF QdrantAnswers
  <2>2. Breaker!TypeOK'
    BY <1>5, BreakerType DEF QdrantAnswers
  <2> QED
    BY <2>1, <2>2
<1> QED
  BY <1>1, <1>2, <1>3, <1>4, <1>5 DEF Handler

LEMMA BatchEndsInv == ASSUME QInv, BatchEnds PROVE QInv'
<1>1. CASE UNCHANGED <<kind, status, when>>
  <2>1. QueueTypeOK' /\ HasKind' /\ HasAttempts' /\ HeldRun'
    BY <1>1 DEF QInv, QueueTypeOK, HasKind, HasAttempts, HeldRun, BatchEnds
  <2>2. RestingHoldsNothing' /\ NoOrphans'
    BY <1>1 DEF QInv, RestingHoldsNothing, NoOrphans, InFlight, BatchEnds
  <2> QED
    BY <2>1, <2>2 DEF QInv
<1>2. CASE Put({}, "prune", "asap", {})
  <2>1. PICK j \in {i \in Job : status[i] = "absent"} :
            /\ kind' = [kind EXCEPT ![j] = "prune"]
            /\ when' = [when EXCEPT ![j] = "asap"]
            /\ status' = [i \in Job |-> IF i \in {} THEN "completed"
                                        ELSE IF i = j THEN "pending" ELSE status[i]]
    BY <1>2 DEF Put
  <2>2. QueueTypeOK' /\ HasKind' /\ HasAttempts'
    BY <2>1 DEF QInv, QueueTypeOK, HasKind, HasAttempts, AllKinds, BatchEnds
  <2>3. HeldRun' /\ RestingHoldsNothing' /\ NoOrphans'
    BY <2>1 DEF QInv, QueueTypeOK, HeldRun, RestingHoldsNothing, NoOrphans, InFlight, BatchEnds
  <2> QED
    BY <2>2, <2>3 DEF QInv
<1> QED
  BY <1>1, <1>2 DEF BatchEnds

LEMMA CrashInv == ASSUME IInv, Crash PROVE IInv'
<1>1. unseen' \subseteq {"extract", "analyze"}
  BY DEF IInv, QInv, QueueTypeOK, Crash, Work
<1>2. QueueTypeOK' /\ HasKind' /\ HasAttempts'
  BY <1>1 DEF IInv, QInv, QueueTypeOK, HasKind, HasAttempts, Crash
<1>3. HeldRun' /\ RestingHoldsNothing' /\ NoOrphans'
  BY DEF HeldRun, RestingHoldsNothing, NoOrphans, InFlight, Crash
<1>4. Breaker!TypeOK'
  <2>1. 0 \in 0..Threshold
    OBVIOUS
  <2> QED
    BY <2>1 DEF IInv, Breaker!TypeOK, Crash
<1> QED
  BY <1>2, <1>3, <1>4 DEF IInv, QInv

LEMMA RestartInv == ASSUME QInv, Restart PROVE QInv'
<1>1. QueueTypeOK' /\ HasKind' /\ HasAttempts'
  BY DEF QInv, QueueTypeOK, HasKind, HasAttempts, Restart, Recovered
<1>2. HeldRun' /\ RestingHoldsNothing' /\ NoOrphans'
  BY DEF QInv, QueueTypeOK, HeldRun, RestingHoldsNothing, NoOrphans, InFlight, Restart,
         Recovered
<1> QED
  BY <1>1, <1>2 DEF QInv

LEMMA StutterInv == ASSUME QInv, UNCHANGED jobVars PROVE QInv'
<1>1. QueueTypeOK' /\ HasKind' /\ HasAttempts'
  BY DEF QInv, QueueTypeOK, HasKind, HasAttempts, jobVars
<1>2. HeldRun' /\ RestingHoldsNothing' /\ NoOrphans'
  BY DEF QInv, HeldRun, RestingHoldsNothing, NoOrphans, InFlight, jobVars
<1> QED
  BY <1>1, <1>2 DEF QInv

LEMMA NextInv == IInv /\ [Next]_vars => IInv'
<1> SUFFICES ASSUME IInv, [Next]_vars PROVE IInv'
  OBVIOUS
<1>0. UNCHANGED breakerVars => Breaker!TypeOK'
  BY DEF IInv, Breaker!TypeOK, breakerVars
<1>1. CASE EnqueueEmbed \/ TriggerExtract \/ TriggerNow \/ TriggerLater
  <2>1. UNCHANGED breakerVars
    BY <1>1 DEF EnqueueEmbed, TriggerExtract, TriggerNow, TriggerLater
  <2> QED
    BY <1>0, <1>1, <2>1, TriggersInv DEF IInv
<1>2. ASSUME NEW j \in Job, FallsDue(j) PROVE IInv'
  BY <1>0, <1>2, FallsDueInv DEF IInv, FallsDue
<1>3. ASSUME NEW j \in Job, Start(j) PROVE IInv'
  BY <1>0, <1>3, StartInv DEF IInv, Start
<1>4. ASSUME NEW j \in Job, Handler(j) PROVE IInv'
  BY <1>4, HandlerInv
<1>5. ASSUME NEW stalled \in SUBSET Job, Tick(stalled) PROVE IInv'
  BY <1>0, <1>5, TickInv DEF IInv, Tick, FailStalled, Claimed
<1>6. ASSUME NEW stalled \in SUBSET Job, TickBreaks(stalled) PROVE IInv'
  BY <1>0, <1>6, TickBreaksInv DEF IInv, TickBreaks, FailStalled, Claimed
<1>7. CASE BatchEnds
  BY <1>0, <1>7, BatchEndsInv DEF IInv, BatchEnds
<1>8. ASSUME NEW s \in Search, SearchQdrant(s) PROVE IInv'
  BY <1>8, StutterInv, BreakerType DEF IInv, SearchQdrant
<1>9. CASE BreakerCools
  BY <1>9, StutterInv DEF IInv, BreakerCools, Breaker!CoolDown, Breaker!TypeOK
<1>10. CASE QdrantToggles
  BY <1>10, StutterInv DEF IInv, QdrantToggles, Breaker!Toggle, Breaker!TypeOK
<1>11. CASE Crash
  BY <1>11, CrashInv
<1>12. CASE Restart
  BY <1>0, <1>12, RestartInv DEF IInv, Restart
<1>13. CASE UNCHANGED vars
  BY <1>0, <1>13, StutterInv DEF IInv, vars, jobVars
<1> QED
  BY <1>1, <1>2, <1>3, <1>4, <1>5, <1>6, <1>7, <1>8, <1>9, <1>10, <1>11, <1>12, <1>13 DEF Next

\* The invariant holds in every state the queue reaches.
THEOREM InvariantHolds == Spec => []IInv
  BY InitInv, NextInv, PTL DEF Spec

\* The state stays well formed; in particular no row is worked more often than it has
\* attempts and deferrals, and the breaker's count stays within its threshold.
THEOREM TypeCorrect == Spec => []TypeOK
<1>1. IInv => TypeOK
  BY DEF IInv, QInv, QueueTypeOK, TypeOK
<1> QED
  BY <1>1, InvariantHolds, PTL

\* While the worker is up, a running row is in its hands, or its update has thrown and it
\* waits for the stall check: no crash orphans one.
THEOREM NoOrphansHolds == Spec => []NoOrphans
<1>1. IInv => NoOrphans
  BY DEF IInv, QInv
<1> QED
  BY <1>1, InvariantHolds, PTL
-----------------------------------------------------------------------------
(* Settled rows and immediate analyses *)

\* A handler touches its own row only, and no row's kind.
LEMMA OutcomeLocal ==
    ASSUME QInv, NEW j \in Job,
           Defer(j) \/ Retry(j) \/ GiveUp(j) \/ Finish(j) \/ Stuck(j)
    PROVE  /\ kind' = kind /\ batch' = batch /\ worker' = worker
           /\ \A i \in Job \ {j} : /\ status'[i] = status[i] /\ when'[i] = when[i]
                                   /\ attempts'[i] = attempts[i] /\ doing'[i] = doing[i]
<1> USE DEF QInv, QueueTypeOK, Leave
<1>1. ASSUME NEW st, Settled(j, st)
      PROVE  /\ kind' = kind /\ when' = when /\ batch' = batch /\ worker' = worker
             /\ \A i \in Job \ {j} : status'[i] = status[i] /\ doing'[i] = doing[i]
  BY <1>1 DEF Settled
<1>2. ASSUME Postponed(j)
      PROVE  /\ kind' = kind /\ batch' = batch /\ worker' = worker
             /\ \A i \in Job \ {j} : /\ status'[i] = status[i] /\ when'[i] = when[i]
                                     /\ doing'[i] = doing[i]
  BY <1>2 DEF Postponed
<1>3. CASE Stuck(j)
  BY <1>3 DEF Stuck
<1>4. CASE Defer(j)
  BY <1>1, <1>2, <1>4 DEF Defer
<1>5. CASE Retry(j)
  BY <1>1, <1>2, <1>5 DEF Retry
<1>6. CASE GiveUp(j)
  BY <1>1, <1>6 DEF GiveUp
<1>7. CASE Finish(j)
  BY <1>1, <1>3, <1>6, <1>7 DEF Finish
<1> QED
  BY <1>3, <1>4, <1>5, <1>6, <1>7

SettledStay ==
    \A j \in Job : status[j] \in {"completed", "failed"} =>
        status'[j] = status[j] /\ attempts'[j] = attempts[j]

ImmediateStay ==
    \A j \in Pending("now") : when[j] = "asap" /\ status'[j] = "pending" =>
        kind'[j] = "now" /\ when'[j] = "asap"

\* An upsert touches a row it inserts, or pending rows, and postpones an immediate one
\* only when it is itself for immediate rows, and then not at all.
LEMMA PutKeeps ==
    ASSUME QInv, NEW C \in SUBSET Job, NEW k, NEW w, NEW D \in SUBSET Job, Put(C, k, w, D),
           \A j \in C : status[j] = "pending" /\ (kind[j] = "now" => k = "now" /\ w = "asap"),
           \A j \in D : status[j] \in {"pending", "running"},
           UNCHANGED attempts
    PROVE  SettledStay /\ ImmediateStay
<1>1. PICK j \in IF C # {} THEN C ELSE {i \in Job : status[i] = "absent"} :
           /\ kind' = [kind EXCEPT ![j] = k]
           /\ when' = [when EXCEPT ![j] = w]
           /\ status' = [i \in Job |-> IF i \in D THEN "completed"
                                       ELSE IF i = j THEN "pending" ELSE status[i]]
  BY DEF Put
<1>2. /\ j \in Job /\ status[j] \in {"absent", "pending"}
      /\ status[j] = "pending" /\ kind[j] = "now" => k = "now" /\ w = "asap"
  BY <1>1
<1>3. SettledStay
  BY <1>1, <1>2 DEF QInv, QueueTypeOK, SettledStay
<1>4. ImmediateStay
  BY <1>1, <1>2 DEF QInv, QueueTypeOK, ImmediateStay, Pending, Rows
<1> QED
  BY <1>3, <1>4

LEMMA StepKeeps == IInv /\ [Next]_vars => SettledStay /\ ImmediateStay
<1> SUFFICES ASSUME IInv, [Next]_vars PROVE SettledStay /\ ImmediateStay
  OBVIOUS
<1> USE DEF IInv
<1>0. ASSUME UNCHANGED <<kind, status, when, attempts>> PROVE SettledStay /\ ImmediateStay
  BY <1>0 DEF SettledStay, ImmediateStay, Pending, Rows
<1>1. CASE EnqueueEmbed
  BY <1>1, PutKeeps DEF EnqueueEmbed
<1>2. CASE TriggerExtract
  <2>1. PICK w \in {"later", "asap"} : Put(Matching("extract"), "extract", w, {})
    BY <1>2 DEF TriggerExtract, Upsert
  <2>2. /\ Matching("extract") \in SUBSET Job
        /\ \A j \in Matching("extract") : status[j] = "pending" /\ kind[j] # "now"
    BY DEF Matching, Pending, Rows, Analysis
  <2> QED
    BY <1>2, <2>1, <2>2, PutKeeps DEF TriggerExtract
<1>3. CASE TriggerNow
  <2>1. /\ Matching("now") \in SUBSET Job /\ Superseded \in SUBSET Job
        /\ \A j \in Matching("now") \cup Superseded : status[j] = "pending"
    BY MatchingPending
  <2> QED
    BY <1>3, <2>1, PutKeeps DEF TriggerNow, Upsert
<1>4. CASE TriggerLater
  <2>1. /\ Matching("later") \in SUBSET Job
        /\ \A j \in Matching("later") : status[j] = "pending" /\ kind[j] # "now"
    BY DEF Matching, Pending, Rows
  <2> QED
    BY <1>4, <2>1, PutKeeps DEF TriggerLater, Upsert
<1>5. ASSUME NEW j \in Job, FallsDue(j) PROVE SettledStay /\ ImmediateStay
  BY <1>5 DEF QInv, QueueTypeOK, FallsDue, SettledStay, ImmediateStay, Pending, Rows
<1>6. ASSUME NEW j \in Job, Start(j) PROVE SettledStay /\ ImmediateStay
  BY <1>0, <1>6 DEF Start
<1>7. ASSUME NEW j \in Job, Handler(j) PROVE SettledStay /\ ImmediateStay
  <2>1. status[j] = "running"
    BY <1>7 DEF QInv, HeldRun, Handler, Succeeds, Fails, Skips, CallsQdrant, QdrantAnswers
  <2>2. ASSUME Defer(j) \/ Retry(j) \/ GiveUp(j) \/ Finish(j) \/ Stuck(j)
        PROVE  SettledStay /\ ImmediateStay
    BY <2>1, <2>2, OutcomeLocal DEF SettledStay, ImmediateStay, Pending, Rows
  <2>3. CASE Skips(j)
    <3>1. /\ Matching("later") \in SUBSET Job
          /\ \A i \in Matching("later") : status[i] = "pending" /\ kind[i] # "now"
      BY DEF Matching, Pending, Rows
    <3>2. Put(Matching("later"), "later", "later", {j}) /\ UNCHANGED attempts
      BY <2>3 DEF Skips, FollowUp, Upsert
    <3>3. {j} \in SUBSET Job /\ \A i \in {j} : status[i] \in {"pending", "running"}
      BY <2>1
    <3> QED
      BY <3>1, <3>2, <3>3, PutKeeps
  <2>4. CASE CallsQdrant(j)
    BY <1>0, <2>2, <2>4 DEF CallsQdrant
  <2> QED
    BY <1>7, <2>2, <2>3, <2>4 DEF Handler, Succeeds, Fails, QdrantAnswers
<1>8. ASSUME NEW stalled \in SUBSET Job, Tick(stalled) PROVE SettledStay /\ ImmediateStay
  BY <1>8 DEF QInv, QueueTypeOK, Tick, FailStalled, Claimed, Claimable, SettledStay, ImmediateStay, Pending, Rows
<1>9. ASSUME NEW stalled \in SUBSET Job, TickBreaks(stalled) PROVE SettledStay /\ ImmediateStay
  BY <1>9 DEF QInv, QueueTypeOK, TickBreaks, FailStalled, Claimed, Claimable, SettledStay, ImmediateStay, Pending,
              Rows
<1>10. CASE BatchEnds
  <2>1. CASE UNCHANGED <<kind, status, when>>
    BY <1>0, <1>10, <2>1 DEF BatchEnds
  <2>2. CASE Put({}, "prune", "asap", {})
    BY <1>10, <2>2, PutKeeps DEF BatchEnds
  <2> QED
    BY <1>10, <2>1, <2>2 DEF BatchEnds
<1>11. ASSUME NEW s \in Search, SearchQdrant(s) PROVE SettledStay /\ ImmediateStay
  BY <1>0, <1>11 DEF SearchQdrant, jobVars
<1>12. CASE BreakerCools \/ QdrantToggles \/ UNCHANGED vars
  BY <1>0, <1>12 DEF BreakerCools, QdrantToggles, vars, jobVars
<1>13. CASE Crash
  BY <1>0, <1>13 DEF Crash
<1>14. CASE Restart
  BY <1>14 DEF QInv, QueueTypeOK, Restart, Recovered, SettledStay, ImmediateStay, Pending, Rows
<1> QED
  BY <1>1, <1>2, <1>3, <1>4, <1>5, <1>6, <1>7, <1>8, <1>9, <1>10, <1>11, <1>12, <1>13, <1>14
     DEF Next

\* A settled row is never settled again, by a handler, a tick or an upsert: the stall
\* check can only meet rows without a handler.
THEOREM FinishedStaysFinishedHolds == Spec => FinishedStaysFinished
<1>1. IInv /\ [Next]_vars => SettledStay
  BY StepKeeps
<1>2. SettledStay =>
          [\A j \in Job : status[j] \in {"completed", "failed"} =>
                status'[j] = status[j] /\ attempts'[j] = attempts[j]]_vars
  BY DEF SettledStay
<1> QED
  BY <1>1, <1>2, InvariantHolds, PTL DEF Spec, FinishedStaysFinished

\* Neither a debounced trigger nor a follow-up pushes back an immediate analysis.
THEOREM ImmediateNotPostponedHolds == Spec => ImmediateNotPostponed
<1>1. IInv /\ [Next]_vars => ImmediateStay
  BY StepKeeps
<1>2. ImmediateStay =>
          [\A j \in Pending("now") : when[j] = "asap" /\ status'[j] = "pending" =>
                kind'[j] = "now" /\ when'[j] = "asap"]_vars
  BY DEF ImmediateStay
<1> QED
  BY <1>1, <1>2, InvariantHolds, PTL DEF Spec, ImmediateNotPostponed
-----------------------------------------------------------------------------
(* Triggers, as long as no update of the store throws *)

\* Without throwing updates every handler is at work, and what a handler has taken is held
\* only while it is.
HeldAtWork ==
    /\ \A j \in Job : doing[j] # "stuck"
    /\ \A j \in held : doing[j] # "none"

TInv == HeldAtWork /\ NoTriggerLost

\* The trigger that a row of kind k works off.
WorkOf(k) == IF k \in Analysis THEN {"analyze"} ELSE {k} \cap {"extract"}

LEMMA WorkIs == \A j \in Job : Work(j) = WorkOf(kind[j]) /\ (Work(j))' = WorkOf(kind'[j])
  BY DEF Work, WorkOf

\* The row an upsert leaves pending works off what it and the rows it replaces would have.
LEMMA PutTrigger ==
    ASSUME QInv, NoTriggerLost,
           NEW C \in SUBSET Job, NEW k \in AllKinds, NEW w, NEW D \in SUBSET Job,
           Put(C, k, w, D), C \cap D = {},
           \A j \in C \cup D : Work(j) \subseteq WorkOf(k),
           \A j \in D : status[j] # "absent",
           unseen' \subseteq unseen \cup WorkOf(k),
           UNCHANGED <<batch, worker>>
    PROVE  NoTriggerLost'
<1>1. PICK j \in IF C # {} THEN C ELSE {i \in Job : status[i] = "absent"} :
           /\ kind' = [kind EXCEPT ![j] = k]
           /\ when' = [when EXCEPT ![j] = w]
           /\ status' = [i \in Job |-> IF i \in D THEN "completed"
                                       ELSE IF i = j THEN "pending" ELSE status[i]]
  BY DEF Put
<1>2. /\ j \in Job /\ j \notin D /\ (status[j] = "absent" \/ Work(j) \subseteq WorkOf(k))
      /\ kind'[j] = k /\ status'[j] = "pending"
  BY <1>1 DEF QInv, QueueTypeOK
<1> SUFFICES ASSUME NEW v \in unseen'
             PROVE  \E i \in Job :
                       /\ v \in (Work(i))'
                       /\ \/ status'[i] = "pending" \/ i \in batch'
                          \/ status'[i] = "running" /\ worker' = "down"
  BY DEF NoTriggerLost
<1>3. CASE v \in WorkOf(k)
  BY <1>2, <1>3, WorkIs
<1>4. CASE v \notin WorkOf(k)
  <2>1. PICK r \in Job :
           /\ v \in Work(r)
           /\ status[r] = "pending" \/ r \in batch \/ (status[r] = "running" /\ worker = "down")
    BY <1>4 DEF NoTriggerLost
  <2>2. r \notin D /\ r # j
    BY <1>2, <1>4, <2>1 DEF QInv, HeldRun
  <2>3. kind'[r] = kind[r] /\ status'[r] = status[r]
    BY <1>1, <2>2 DEF QInv, QueueTypeOK
  <2> QED
    BY <2>1, <2>3, WorkIs
<1> QED
  BY <1>3, <1>4

LEMMA TriggersKeep ==
    ASSUME QInv, TInv, EnqueueEmbed \/ TriggerExtract \/ TriggerNow \/ TriggerLater
    PROVE  TInv'
<1>0. HeldAtWork'
  BY DEF TInv, HeldAtWork, EnqueueEmbed, TriggerExtract, TriggerNow, TriggerLater
<1>1. CASE EnqueueEmbed
  <2>1. PICK k \in Embeds : Put({}, k, "asap", {})
    BY <1>1 DEF EnqueueEmbed
  <2>2. /\ {} \in SUBSET Job /\ k \in AllKinds
        /\ unseen' = unseen /\ UNCHANGED <<batch, worker>>
    BY <1>1 DEF EnqueueEmbed, Embeds, AllKinds
  <2> QED
    BY <1>0, <2>1, <2>2, PutTrigger DEF TInv
<1>2. CASE TriggerExtract
  <2>1. PICK w \in {"later", "asap"} : Put(Matching("extract"), "extract", w, {})
    BY <1>2 DEF TriggerExtract, Upsert
  <2>2. /\ Matching("extract") \in SUBSET Job /\ {} \in SUBSET Job
        /\ \A j \in Matching("extract") \cup {} : Work(j) \subseteq WorkOf("extract")
        /\ Matching("extract") \cap {} = {}
    BY WorkIs DEF Matching, Pending, Rows, Analysis
  <2>3. /\ "extract" \in AllKinds /\ unseen' \subseteq unseen \cup WorkOf("extract")
        /\ UNCHANGED <<batch, worker>>
    BY <1>2 DEF TriggerExtract, AllKinds, WorkOf, Analysis
  <2> QED
    BY <1>0, <2>1, <2>2, <2>3, PutTrigger DEF TInv
<1>3. CASE TriggerNow
  <2>1. Put(Matching("now"), "now", "asap", Superseded)
    BY <1>3 DEF TriggerNow, Upsert
  <2>2. /\ Matching("now") \in SUBSET Job /\ Superseded \in SUBSET Job
        /\ \A j \in Matching("now") \cup Superseded : Work(j) \subseteq WorkOf("now")
        /\ \A j \in Superseded : status[j] # "absent"
        /\ Matching("now") \cap Superseded = {}
    BY WorkIs DEF Matching, Superseded, Pending, Rows, Analysis, WorkOf
  <2>3. /\ "now" \in AllKinds /\ unseen' \subseteq unseen \cup WorkOf("now")
        /\ UNCHANGED <<batch, worker>>
    BY <1>3 DEF TriggerNow, AllKinds, WorkOf, Analysis
  <2> QED
    BY <1>0, <2>1, <2>2, <2>3, PutTrigger DEF TInv
<1>4. CASE TriggerLater
  <2>1. Put(Matching("later"), "later", "later", {})
    BY <1>4 DEF TriggerLater, Upsert
  <2>2. /\ Matching("later") \in SUBSET Job /\ {} \in SUBSET Job
        /\ \A j \in Matching("later") \cup {} : Work(j) \subseteq WorkOf("later")
        /\ Matching("later") \cap {} = {}
    BY WorkIs DEF Matching, Pending, Rows, Analysis, WorkOf
  <2>3. /\ "later" \in AllKinds /\ unseen' \subseteq unseen \cup WorkOf("later")
        /\ UNCHANGED <<batch, worker>>
    BY <1>4 DEF TriggerLater, AllKinds, WorkOf, Analysis
  <2> QED
    BY <1>0, <2>1, <2>2, <2>3, PutTrigger DEF TInv
<1> QED
  BY <1>1, <1>2, <1>3, <1>4

\* A handler that leaves drops no trigger: its row is none that is relied on, and a row that
\* goes back to pending takes what the handler held with it.
LEMMA OutcomeKeeps ==
    ASSUME StoreFails = FALSE, QInv, TInv, NEW j \in Job, doing[j] \in {"working", "qdrant"},
           Defer(j) \/ Retry(j) \/ GiveUp(j) \/ Finish(j) \/ Stuck(j)
    PROVE  TInv'
<1>0. /\ status[j] = "running" /\ j \notin batch /\ worker = "batch"
      /\ held \subseteq Job /\ kind' = kind /\ batch' = batch /\ worker' = worker
      /\ \A i \in Job \ {j} : status'[i] = status[i] /\ doing'[i] = doing[i]
  BY OutcomeLocal DEF QInv, QueueTypeOK, HeldRun, RestingHoldsNothing, InFlight
<1>1. \/ doing'[j] = "none" /\ held' = held \ {j} /\ unseen' = unseen
      \/ /\ doing'[j] = "none" /\ held' = held \ {j} /\ status'[j] = "pending"
         /\ unseen' \subseteq unseen \cup Work(j)
  <2> USE DEF QInv, QueueTypeOK, Leave
  <2>1. ASSUME NEW st, Settled(j, st)
        PROVE  doing'[j] = "none" /\ held' = held \ {j} /\ unseen' = unseen
    BY <2>1 DEF Settled
  <2>2. ASSUME Postponed(j)
        PROVE  /\ doing'[j] = "none" /\ held' = held \ {j} /\ status'[j] = "pending"
               /\ unseen' \subseteq unseen \cup Work(j)
    BY <2>2 DEF Postponed
  <2> QED
    BY <2>1, <2>2 DEF Defer, Retry, GiveUp, Finish, Stuck
<1>2. HeldAtWork'
  BY <1>0, <1>1 DEF TInv, HeldAtWork
<1>3. NoTriggerLost'
  <2> SUFFICES ASSUME NEW v \in unseen'
               PROVE  \E i \in Job : /\ v \in (Work(i))'
                                     /\ status'[i] = "pending" \/ i \in batch'
    BY DEF NoTriggerLost
  <2>1. \A i \in Job : (Work(i))' = Work(i)
    BY <1>0 DEF Work
  <2>2. CASE v \in unseen
    <3>1. PICK r \in Job : v \in Work(r) /\ (status[r] = "pending" \/ r \in batch)
      BY <1>0, <2>2 DEF TInv, NoTriggerLost
    <3> QED
      BY <1>0, <2>1, <3>1
  <2>3. CASE v \notin unseen
    BY <1>1, <2>1, <2>3
  <2> QED
    BY <2>2, <2>3
<1> QED
  BY <1>2, <1>3 DEF TInv

LEMMA SkipsKeeps == ASSUME QInv, TInv, NEW j \in Job, Skips(j) PROVE TInv'
<1>0. /\ status[j] = "running" /\ j \notin batch /\ worker = "batch" /\ held \subseteq Job
      /\ doing' = [doing EXCEPT ![j] = "none"] /\ held' = held \ {j}
      /\ unseen' = unseen \cup {"analyze"} /\ batch' = batch /\ worker' = worker
  BY DEF QInv, QueueTypeOK, HeldRun, RestingHoldsNothing, InFlight, Skips, Leave
<1>1. HeldAtWork'
  BY <1>0 DEF QInv, QueueTypeOK, TInv, HeldAtWork
<1>2. NoTriggerLost'
  <2>1. /\ Matching("later") \in SUBSET Job /\ {j} \in SUBSET Job /\ "later" \in AllKinds
        /\ \A i \in Matching("later") : status[i] = "pending"
    BY MatchingPending DEF AllKinds
  <2>2. /\ Matching("later") \cap {j} = {}
        /\ \A i \in {j} : status[i] # "absent"
        /\ \A i \in Matching("later") \cup {j} : Work(i) \subseteq WorkOf("later")
    BY <1>0, <2>1 DEF Skips, Matching, Pending, Rows, Analysis, Work, WorkOf
  <2>3. Put(Matching("later"), "later", "later", {j})
    BY DEF Skips, FollowUp, Upsert
  <2>4. unseen' \subseteq unseen \cup WorkOf("later") /\ UNCHANGED <<batch, worker>>
    BY <1>0 DEF WorkOf, Analysis
  <2> QED
    BY <2>1, <2>2, <2>3, <2>4, PutTrigger DEF TInv
<1> QED
  BY <1>1, <1>2 DEF TInv

LEMMA HandlerKeeps ==
    ASSUME StoreFails = FALSE, IInv, TInv, NEW j \in Job, Handler(j) PROVE TInv'
<1>1. ASSUME Defer(j) \/ Retry(j) \/ GiveUp(j) \/ Finish(j) \/ Stuck(j),
             doing[j] \in {"working", "qdrant"}
      PROVE  TInv'
  BY <1>1, OutcomeKeeps DEF IInv
<1>2. CASE Skips(j)
  BY <1>2, SkipsKeeps DEF IInv
<1>3. ASSUME doing[j] = "working", doing' = [doing EXCEPT ![j] = "qdrant"],
             UNCHANGED <<kind, status, when, attempts, deferrals, worker, batch, groups,
                         unseen, held, crashes>>
      PROVE  TInv'
  <2>1. HeldAtWork'
    BY <1>3 DEF IInv, QInv, QueueTypeOK, TInv, HeldAtWork
  <2>2. NoTriggerLost'
    BY <1>3 DEF TInv, NoTriggerLost, Work
  <2> QED
    BY <2>1, <2>2 DEF TInv
<1> QED
  BY <1>1, <1>2, <1>3 DEF Handler, Succeeds, Fails, CallsQdrant, QdrantAnswers

\* A tick finds no running row, so it can fail none, and claims only pending ones.
LEMMA TickKeeps == ASSUME QInv, TInv, NEW stalled \in SUBSET Job, Tick(stalled) PROVE TInv'
<1>1. batch = {} /\ held = {} /\ \A j \in Job : doing[j] = "none"
  BY IdleIs DEF QInv, QueueTypeOK, TInv, HeldAtWork, Tick, FailStalled, Claimed
<1>2. \A j \in Job : status[j] # "running"
  BY <1>1 DEF QInv, NoOrphans, Tick, FailStalled, Claimed, MayTick
<1>3. stalled = {}
  BY <1>2 DEF Tick, FailStalled, Claimed
<1>4. HeldAtWork'
  BY <1>1, <1>3 DEF QInv, QueueTypeOK, HeldAtWork, Tick, FailStalled, Claimed
<1>5. \A j \in Job : status[j] = "pending" => status'[j] = "pending" \/ j \in batch'
  BY <1>3 DEF QInv, QueueTypeOK, Tick, FailStalled, Claimed
<1>6. NoTriggerLost'
  BY <1>1, <1>2, <1>5 DEF TInv, NoTriggerLost, Work, Tick, FailStalled, Claimed
<1> QED
  BY <1>4, <1>6 DEF TInv

LEMMA StartKeeps == ASSUME QInv, TInv, NEW j \in Job, Start(j) PROVE TInv'
<1>1. HeldAtWork'
  BY DEF QInv, QueueTypeOK, TInv, HeldAtWork, Start
<1>2. NoTriggerLost'
  <2> SUFFICES ASSUME NEW v \in unseen'
               PROVE  \E i \in Job : /\ v \in (Work(i))'
                                     /\ status'[i] = "pending" \/ i \in batch'
    BY DEF NoTriggerLost
  <2>1. v \in unseen /\ v \notin Work(j) /\ worker = "batch"
    BY DEF Start
  <2>2. PICK r \in Job : v \in Work(r) /\ (status[r] = "pending" \/ r \in batch)
    BY <2>1 DEF TInv, NoTriggerLost
  <2>3. (Work(r))' = Work(r)
    BY DEF Work, Start
  <2> QED
    BY <2>1, <2>2, <2>3 DEF Start
<1> QED
  BY <1>1, <1>2 DEF TInv

LEMMA BatchEndsKeeps == ASSUME QInv, TInv, BatchEnds PROVE TInv'
<1>1. HeldAtWork'
  BY DEF TInv, HeldAtWork, BatchEnds
<1>2. NoTriggerLost'
  <2> SUFFICES ASSUME NEW v \in unseen
               PROVE  \E i \in Job : v \in (Work(i))' /\ status'[i] = "pending"
    BY DEF NoTriggerLost, BatchEnds
  <2>1. PICK r \in Job : v \in Work(r) /\ status[r] = "pending"
    BY DEF TInv, NoTriggerLost, BatchEnds
  <2>2. kind'[r] = kind[r] /\ status'[r] = status[r]
    BY <2>1 DEF QInv, QueueTypeOK, BatchEnds, Put
  <2> QED
    BY <2>1, <2>2, WorkIs
<1> QED
  BY <1>1, <1>2 DEF TInv

\* A crash gives the triggers back that handlers held; their rows are reset at the restart.
LEMMA CrashKeeps == ASSUME QInv, TInv, Crash PROVE TInv'
<1>1. HeldAtWork'
  BY DEF HeldAtWork, Crash
<1>2. NoTriggerLost'
  <2> SUFFICES ASSUME NEW v \in unseen'
               PROVE  \E i \in Job : v \in (Work(i))' /\ status'[i] \in {"pending", "running"}
    BY DEF NoTriggerLost, Crash
  <2>1. \A i \in Job : (Work(i))' = Work(i) /\ status'[i] = status[i]
    BY DEF Work, Crash
  <2>2. CASE v \in unseen
    BY <2>1, <2>2 DEF QInv, HeldRun, TInv, NoTriggerLost
  <2>3. CASE v \notin unseen
    <3>1. PICK j \in held : v \in Work(j)
      BY <2>3 DEF Crash
    <3>2. j \in Job /\ status[j] = "running"
      BY DEF QInv, QueueTypeOK, HeldRun, TInv, HeldAtWork
    <3> QED
      BY <2>1, <3>1, <3>2
  <2> QED
    BY <2>2, <2>3
<1> QED
  BY <1>1, <1>2 DEF TInv

LEMMA RestartKeeps == ASSUME QInv, TInv, Restart PROVE TInv'
<1>1. HeldAtWork'
  BY DEF TInv, HeldAtWork, Restart
<1>2. \A j \in Job : (Work(j))' = Work(j)
  BY DEF Work, Restart
<1>3. NoTriggerLost'
  BY <1>2 DEF QInv, QueueTypeOK, TInv, NoTriggerLost, RestingHoldsNothing, Restart, Recovered
<1> QED
  BY <1>1, <1>3 DEF TInv

LEMMA RestKeeps ==
    ASSUME TInv, UNCHANGED <<kind, status, worker, batch, doing, unseen, held>> PROVE TInv'
  BY DEF TInv, HeldAtWork, NoTriggerLost, Work

LEMMA TriggersStep == ASSUME StoreFails = FALSE, IInv, TInv, [Next]_vars PROVE TInv'
<1> USE DEF IInv
<1>1. CASE EnqueueEmbed \/ TriggerExtract \/ TriggerNow \/ TriggerLater
  BY <1>1, TriggersKeep
<1>2. ASSUME NEW j \in Job, FallsDue(j) PROVE TInv'
  BY <1>2, RestKeeps DEF FallsDue
<1>3. ASSUME NEW j \in Job, Start(j) PROVE TInv'
  BY <1>3, StartKeeps
<1>4. ASSUME NEW j \in Job, Handler(j) PROVE TInv'
  BY <1>4, HandlerKeeps
<1>5. ASSUME NEW stalled \in SUBSET Job, Tick(stalled) PROVE TInv'
  BY <1>5, TickKeeps
<1>6. \A stalled \in SUBSET Job : ~TickBreaks(stalled)
  BY DEF TickBreaks, FailStalled, Claimed
<1>7. CASE BatchEnds
  BY <1>7, BatchEndsKeeps
<1>8. ASSUME NEW s \in Search, SearchQdrant(s) PROVE TInv'
  BY <1>8, RestKeeps DEF SearchQdrant, jobVars
<1>9. CASE BreakerCools \/ QdrantToggles \/ UNCHANGED vars
  BY <1>9, RestKeeps DEF BreakerCools, QdrantToggles, vars, jobVars
<1>10. CASE Crash
  BY <1>10, CrashKeeps
<1>11. CASE Restart
  BY <1>11, RestartKeeps
<1> QED
  BY <1>1, <1>2, <1>3, <1>4, <1>5, <1>6, <1>7, <1>8, <1>9, <1>10, <1>11 DEF Next

LEMMA InitTriggers == Init => TInv
<1> SUFFICES ASSUME Init PROVE TInv
  OBVIOUS
<1>1. PICK old \in SUBSET Job :
          /\ kind = [j \in Job |-> IF j \in old THEN "legacy" ELSE "none"]
          /\ status = [j \in Job |-> IF j \in old THEN "pending" ELSE "absent"]
          /\ unseen = IF old = {} THEN {} ELSE {"analyze"}
  BY DEF Init
<1>2. HeldAtWork
  BY DEF Init, HeldAtWork
<1>3. NoTriggerLost
  <2>1. CASE old = {}
    BY <1>1, <2>1 DEF NoTriggerLost
  <2>2. ASSUME NEW j \in old PROVE NoTriggerLost
    <3>1. j \in Job /\ status[j] = "pending" /\ kind[j] = "legacy" /\ unseen = {"analyze"}
      BY <1>1
    <3>2. "analyze" \in Work(j)
      BY <3>1 DEF Work, Analysis
    <3> QED
      BY <3>1, <3>2 DEF NoTriggerLost
  <2> QED
    BY <2>1, <2>2
<1> QED
  BY <1>2, <1>3 DEF TInv

\* As long as no update of the store throws, superseding, coalescing, skipping, deferring,
\* retrying and crashing lose no trigger: a row that will be worked stands for it.
THEOREM NoTriggerLostHolds ==
    ASSUME StoreFails = FALSE
    PROVE  Spec => []NoTriggerLost
<1>1. Init => IInv /\ TInv
  BY InitInv, InitTriggers
<1>2. IInv /\ TInv /\ [Next]_vars => IInv' /\ TInv'
  BY NextInv, TriggersStep
<1>3. IInv /\ TInv => NoTriggerLost
  BY DEF TInv
<1> QED
  BY <1>1, <1>2, <1>3, PTL DEF Spec
=============================================================================
