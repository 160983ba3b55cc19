---------------------------- MODULE EmailSequences ----------------------------
(***************************************************************************)
(* Email sequences: contacts are enrolled in a list of steps, and a phase  *)
(* of the scheduler's tick claims the enrollments that are due and has the *)
(* assistant carry out the current step of each, one after the other.      *)
(*                                                                         *)
(* The tick never overlaps itself, but a step is a whole turn of the       *)
(* assistant: while it runs the operator may pause, cancel, edit or delete *)
(* anything.  Replies are matched by the watchers, in the same tick and    *)
(* before this phase.  The module has one sequence; its steps are "send",  *)
(* "draft" (needs approval) or "hasty" (delay below the minimum).          *)
(***************************************************************************)
EXTENDS Integers, Sequences, FiniteSets

CONSTANTS Enrollment,    \* enrollments, each for a contact
          Contact,
          ContactOf,
          Plans,         \* the lists of steps the sequence may be given
          MaxSteps,      \* the longest of them
          NoOne,         \* no step is running
          BatchSize,     \* BATCH_SIZE
          HourlyRate,    \* perSequenceHourlyRate
          DailyCap,      \* dailySendCap
          MaxActive,     \* maxActiveEnrollments
          MaxIncidents   \* bound: the operator's operations, turns that throw, crashes

Steps   == 0..(MaxSteps - 1)
Current == [who : Enrollment, step : Steps, draft : BOOLEAN, last : BOOLEAN]

ASSUME SequencesAssumption ==
    /\ NoOne \notin Current
    /\ ContactOf \in [Enrollment -> Contact]
    /\ Plans \subseteq Seq({"send", "draft", "hasty"})
    /\ \A p \in Plans : Len(p) \in 1..MaxSteps
    /\ MaxSteps \in Nat /\ BatchSize \in Nat /\ MaxActive \in Nat
    /\ HourlyRate \in Nat /\ DailyCap \in Nat
    /\ MaxIncidents \in Nat

VARIABLES
    sequence,   \* "active", "paused" or "deleted"
    plan,       \* the sequence's steps
    row,        \* [Enrollment -> Rows]: sequence_enrollments
    todo,       \* <<enrollment, step>> claimed and not yet processed
    current,    \* the step being carried out, as read before it started
    hour, day,  \* entries of the send log of this hour and of today
    incidents,  \* counter for the bound
    done,       \* history: [Enrollment -> steps sent and advanced past]
    drafted,    \* history: <<enrollment, step>> left as a draft
    stranded    \* history: enrollments lost to the engine by a crash or a store that throws

work    == <<todo, current>>
sendLog == <<hour, day>>
history == <<done, drafted, stranded>>
vars    == <<sequence, plan, row, work, sendLog, incidents, history>>

Ended    == {"completed", "replied", "cancelled", "deleted"}
Statuses == Ended \union {"none", "active", "paused"}

\* next: null, in the future, or due.  thread: a turn has ended, so that its
\* messages may name the thread replies come in (that they do not is the case
\* of no reply).  recent: ended within the cooldown.
Rows == {r \in [status : Statuses, step : 0..MaxSteps, next : {"null", "later", "due"},
                 thread : BOOLEAN, recent : BOOLEAN] :
            r.status \in {"none", "deleted"} => r.next = "null"}

NewRow(status, next) ==
    [status |-> status, step |-> 0, next |-> next, thread |-> FALSE, recent |-> FALSE]

TypeOK ==
    /\ sequence \in {"active", "paused", "deleted"}
    /\ plan \in Plans
    /\ row \in [Enrollment -> Rows]
    /\ todo \subseteq Enrollment \X (0..MaxSteps)
    /\ current \in Current \union {NoOne}
    /\ hour \in Nat /\ day \in Nat
    /\ incidents \in 0..MaxIncidents
    /\ done \in [Enrollment -> SUBSET Steps]
    /\ drafted \subseteq Enrollment \X Steps
    /\ stranded \subseteq Enrollment

Init ==
    /\ sequence = "active"
    /\ plan \in Plans
    /\ row = [e \in Enrollment |-> NewRow("none", "null")]
    /\ todo = {} /\ current = NoOne
    /\ hour = 0 /\ day = 0
    /\ incidents = 0
    /\ done = [e \in Enrollment |-> {}]
    /\ drafted = {} /\ stranded = {}

InHands(e) == \/ \E s \in 0..MaxSteps : <<e, s>> \in todo
              \/ current # NoOne /\ current.who = e

Idle == todo = {} /\ current = NoOne

-----------------------------------------------------------------------------
\* The store's operations on a row.  A deleted row takes no update.

Write(r, new) == IF r.status = "deleted" THEN r ELSE new

Exit(r, reason) ==
    Write(r, [r EXCEPT !.status = reason, !.next = "null",
                       !.recent = reason \in {"completed", "replied"}])

Reschedule(r) == Write(r, [r EXCEPT !.next = "later"])

Advance_Staying(r, last) ==
    Write(r, [r EXCEPT !.thread = TRUE, !.next = IF last THEN "null" ELSE "later"])
Advance(r, last) ==
    Write(r, [r EXCEPT !.step = @ + 1, !.thread = TRUE,
                       !.next = IF last THEN "null" ELSE "later"])

-----------------------------------------------------------------------------
Incident == incidents < MaxIncidents /\ incidents' = incidents + 1

\* The operator's tools.

Edit == Incident /\ UNCHANGED <<work, sendLog>>

\* The tool enrolls without asking the guardrails.
Enroll(e) ==
    /\ row[e].status = "none" /\ sequence # "deleted"
    /\ row' = [row EXCEPT ![e] = NewRow("active", "later")]
    /\ UNCHANGED <<sequence, plan, work, sendLog, incidents, history>>

Pause(e) ==
    /\ row[e].status = "active"
    /\ Edit
    /\ row' = [row EXCEPT ![e].status = "paused", ![e].next = "null"]
    /\ UNCHANGED <<sequence, plan, history>>

Resume(e) ==
    /\ row[e].status = "paused" /\ sequence = "active"
    /\ Edit
    /\ row' = [row EXCEPT ![e].status = "active", ![e].next = "due"]
    /\ stranded' = stranded \ {e}
    /\ UNCHANGED <<sequence, plan, done, drafted>>

Cancel(e) ==
    /\ row[e].status \in {"active", "paused"}
    /\ Edit
    /\ row' = [row EXCEPT ![e] = Exit(@, "cancelled")]
    /\ UNCHANGED <<sequence, plan, history>>

\* The sequence's status or its steps are replaced.
UpdateSequence ==
    /\ sequence # "deleted"
    /\ Edit
    /\ sequence' \in {"active", "paused"}
    /\ plan' \in Plans
    /\ <<sequence', plan'>> # <<sequence, plan>>
    /\ UNCHANGED <<row, history>>

\* Its enrollments go with it.
DeleteSequence ==
    /\ sequence # "deleted"
    /\ Edit
    /\ sequence' = "deleted"
    /\ row' = [e \in Enrollment |->
                 IF row[e].status = "none" THEN row[e]
                 ELSE [row[e] EXCEPT !.status = "deleted", !.next = "null"]]
    /\ UNCHANGED <<plan, history>>

-----------------------------------------------------------------------------
\* The tick.

\* The watchers' phase comes first: a reply in the thread of an active
\* enrollment ends it.
MayMatch_DuringSteps == TRUE
MayMatch == Idle

Reply(e) ==
    /\ MayMatch
    /\ row[e].status = "active" /\ row[e].thread
    /\ row' = [row EXCEPT ![e] = Exit(@, "replied")]
    /\ UNCHANGED <<sequence, plan, work, sendLog, incidents, history>>

\* claimDueEnrollments: the oldest due ones, at most a batch.
Due == {e \in Enrollment : row[e].status = "active" /\ row[e].next = "due"}

Claimed(r) == [r EXCEPT !.next = "null"]

Claim(batch) ==
    /\ Idle
    /\ batch # {} /\ batch \subseteq Due
    /\ batch # Due => Cardinality(batch) = BatchSize
    /\ Cardinality(batch) <= BatchSize
    /\ row' = [e \in Enrollment |-> IF e \in batch THEN Claimed(row[e]) ELSE row[e]]
    /\ todo' = {<<e, row[e].step>> : e \in batch}
    /\ UNCHANGED <<sequence, plan, current, sendLog, incidents, history>>

\* checkAllPreSend
Active == {e \in Enrollment : row[e].status = "active"}

Duplicate(e) == \E f \in Active \ {e} : ContactOf[f] = ContactOf[e]
CoolingDown_Forever(e) ==
    \E f \in Enrollment : /\ ContactOf[f] = ContactOf[e]
                          /\ row[f].status \in {"completed", "replied"}
CoolingDown(e) ==
    \E f \in Enrollment : /\ ContactOf[f] = ContactOf[e]
                          /\ row[f].status \in {"completed", "replied"} /\ row[f].recent
AtCap == Cardinality(Active) >= MaxActive

RateReached == hour >= HourlyRate \/ day >= DailyCap

Guarded(e, s) ==
    RateReached \/ plan[s + 1] = "hasty" \/ AtCap \/ Duplicate(e) \/ CoolingDown(e)

\* Whatever is thrown, an enrollment that is still active is retried, unless
\* that write throws as well.  Until then its row became r.
Retried_Not(r) == r
Retried(r) == IF r.status = "active" THEN Reschedule(r) ELSE r

Retry(e, r) ==
    \/ /\ row' = [row EXCEPT ![e] = Retried(r)]
       /\ UNCHANGED stranded
    \/ /\ row' = [row EXCEPT ![e] = r]
       /\ stranded' = stranded \union {e}

\* processEnrollment, up to the assistant's turn: the enrollment is taken as
\* it was when claimed, the sequence as it is now.
Drop(e, s) ==
    /\ current = NoOne
    /\ todo' = todo \ {<<e, s>>}
    /\ UNCHANGED <<sequence, plan, current, sendLog, incidents, history>>

\* The sequence is gone, and the row with it.
SkipDeleted(e, s) == sequence = "deleted" /\ UNCHANGED row /\ Drop(e, s)

SkipPaused(e, s) ==
    /\ sequence = "paused"
    /\ row' = [row EXCEPT ![e] = Reschedule(@)]
    /\ Drop(e, s)

OutOfSteps(e, s) ==
    /\ sequence = "active" /\ s >= Len(plan)
    /\ row' = [row EXCEPT ![e] = Exit(@, "completed")]
    /\ Drop(e, s)

Defer(e, s) ==
    /\ sequence = "active" /\ s < Len(plan) /\ Guarded(e, s)
    /\ row' = [row EXCEPT ![e] = Reschedule(@)]
    /\ Drop(e, s)

Start(e, s) ==
    /\ current = NoOne
    /\ sequence = "active" /\ s < Len(plan) /\ ~Guarded(e, s)
    /\ todo' = todo \ {<<e, s>>}
    /\ current' = [who |-> e, step |-> s, draft |-> plan[s + 1] = "draft",
                   last |-> s + 1 >= Len(plan)]
    /\ UNCHANGED <<sequence, plan, row, sendLog, incidents, history>>

\* A write before the turn throws: that of the row, or of the turn's conversation.
ThrowEarly(e, s) ==
    /\ current = NoOne
    /\ Incident
    /\ Retry(e, row[e])
    /\ todo' = todo \ {<<e, s>>}
    /\ UNCHANGED <<sequence, plan, current, sendLog, done, drafted>>

Process(e, s) == \/ SkipDeleted(e, s) \/ SkipPaused(e, s) \/ OutOfSteps(e, s)
                 \/ Defer(e, s) \/ Start(e, s) \/ ThrowEarly(e, s)

\* The turn returns.  A draft leaves the enrollment where it is, with no next
\* step; a send is logged and the enrollment advances, or completes.
FinishDraft ==
    /\ current # NoOne /\ current.draft
    /\ row' = [row EXCEPT ![current.who] = Write(@, [@ EXCEPT !.thread = TRUE])]
    /\ drafted' = drafted \union {<<current.who, current.step>>}
    /\ current' = NoOne
    /\ UNCHANGED <<sequence, plan, todo, sendLog, incidents, done, stranded>>

FinishSend ==
    /\ current # NoOne /\ ~current.draft
    /\ hour' = hour + 1 /\ day' = day + 1
    /\ LET advanced == Advance(row[current.who], current.last)
       IN  row' = [row EXCEPT ![current.who] =
                     IF current.last THEN Exit(advanced, "completed") ELSE advanced]
    /\ done' = [done EXCEPT ![current.who] = @ \union {current.step}]
    /\ current' = NoOne
    /\ UNCHANGED <<sequence, plan, todo, incidents, drafted, stranded>>

\* The turn throws.
Throw ==
    /\ current # NoOne
    /\ Incident
    /\ Retry(current.who, row[current.who])
    /\ current' = NoOne
    /\ UNCHANGED <<sequence, plan, todo, sendLog, done, drafted>>

\* The mail is out and logged, and the store throws: when the enrollment should
\* advance, so that the step is sent again, or when it should complete.
StoreThrows ==
    /\ current # NoOne /\ ~current.draft
    /\ Incident
    /\ hour' = hour + 1 /\ day' = day + 1
    /\ current' = NoOne
    /\ \/ /\ Retry(current.who, row[current.who])
          /\ UNCHANGED done
       \/ /\ current.last
          /\ Retry(current.who, Advance(row[current.who], TRUE))
          /\ done' = [done EXCEPT ![current.who] = @ \union {current.step}]
    /\ UNCHANGED <<sequence, plan, todo, drafted>>

-----------------------------------------------------------------------------
\* Time and crashes.

DelayPasses(e) ==
    /\ row[e].next = "later"
    /\ row' = [row EXCEPT ![e].next = "due"]
    /\ UNCHANGED <<sequence, plan, work, sendLog, incidents, history>>

CooldownPasses(e) ==
    /\ row[e].recent
    /\ row' = [row EXCEPT ![e].recent = FALSE]
    /\ UNCHANGED <<sequence, plan, work, sendLog, incidents, history>>

\* The oldest send leaves the window of the hour; midnight comes.
HourPasses ==
    /\ hour > 0 /\ hour' = hour - 1
    /\ UNCHANGED <<sequence, plan, row, work, day, incidents, history>>

DayPasses ==
    /\ day > 0 /\ day' = 0
    /\ UNCHANGED <<sequence, plan, row, work, hour, incidents, history>>

\* The batch and the send log are in memory only.
Crash ==
    /\ Incident
    /\ todo' = {} /\ current' = NoOne
    /\ hour' = 0 /\ day' = 0
    /\ stranded' = stranded \union {e \in Enrollment : InHands(e)}
    /\ UNCHANGED <<sequence, plan, row, done, drafted>>

Operator == \/ \E e \in Enrollment : Enroll(e) \/ Pause(e) \/ Resume(e) \/ Cancel(e)
            \/ UpdateSequence \/ DeleteSequence
Carry == \/ \E c \in todo : Process(c[1], c[2])
         \/ FinishDraft \/ FinishSend \/ Throw \/ StoreThrows
Time == \/ \E e \in Enrollment : DelayPasses(e) \/ CooldownPasses(e)
        \/ HourPasses \/ DayPasses

Next ==
    \/ Operator \/ Carry \/ Time \/ Crash
    \/ \E e \in Enrollment : Reply(e)
    \/ Idle /\ \E batch \in SUBSET Due : Claim(batch)

Spec == Init /\ [][Next]_vars

ClaimWith(e) == /\ Idle /\ e \in Due
                /\ \E batch \in SUBSET Enrollment : e \in batch /\ Claim(batch)

\* The tick's timer fires and turns end; the oldest due enrollments are
\* claimed first, so one that stays due is claimed in the end.  Time passes.
FairSpec ==
    /\ Spec
    /\ WF_vars(Carry) /\ WF_vars(HourPasses \/ DayPasses)
    /\ \A e \in Enrollment : /\ SF_vars(ClaimWith(e))
                             /\ WF_vars(DelayPasses(e) \/ CooldownPasses(e))

-----------------------------------------------------------------------------
\* Steps are sent in order, none is left out, and none the row has advanced past
\* is started again, whatever is paused, resumed, edited, retried or restarted
\* in between: the snapshot taken at the claim is still the row's step.
NoStepTwice ==
    /\ \A e \in Enrollment :
        row[e].status \notin {"none", "deleted"} => done[e] = 0..(row[e].step - 1)
    /\ current # NoOne => current.step \notin done[current.who]

\* A send is only started while the log is below both caps, and nothing else
\* is logged until it ends: the log never passes them.
CapsHold == hour <= HourlyRate /\ day <= DailyCap

\* An active enrollment without a next step is in the engine's hands or waits
\* for the approval of its draft; or a crash stranded it (or a store that throws
\* twice), as nothing restores what a claim cleared.
NotForgotten ==
    \A e \in Enrollment :
        row[e].status = "active" /\ row[e].next = "null"
        => InHands(e) \/ <<e, row[e].step>> \in drafted \/ e \in stranded

\* A contact who replied gets no further step of that enrollment, and the
\* reply stays on record.
RepliesStop ==
    [][\A e \in Enrollment : row[e].status = "replied" =>
          row'[e].status \in {"replied", "deleted"} /\ ~InHands(e)']_vars

\* Every enrollment ends, is paused or belongs to a paused sequence, unless it
\* waits for an approval, was stranded, or is held by a guardrail that time
\* does not lift: the cap, a duplicate or a step that is too hasty.
Explained(e) ==
    \/ row[e].status # "active" \/ sequence # "active"
    \/ <<e, row[e].step>> \in drafted \/ e \in stranded
    \/ AtCap \/ Duplicate(e)
    \/ row[e].step < Len(plan) /\ plan[row[e].step + 1] = "hasty"

EnrollmentsMoveOn == <>[](\A e \in Enrollment : Explained(e))

=============================================================================
