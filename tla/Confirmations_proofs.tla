------------------------ MODULE Confirmations_proofs ------------------------
(***************************************************************************)
(* The safety properties of Confirmations, for any number of prompts and   *)
(* of crashes.                                                             *)
(***************************************************************************)
EXTENDS Confirmations, TLAPS

Status == {"absent", "pending", "approved", "denied", "expired"}

\* A prompt that was never shown has no record.
FreshIsUnrecorded == \A r \in Request : prompt[r] = "none" => record[r] = "absent"

\* A denial recorded is a denial told: no call still waits against the record.
DeniedIsTold == \A r \in Request : prompt[r] = "asking" => record[r] # "denied"

IInv ==
    /\ TypeOK
    /\ WaitingCanBeAnswered
    /\ FreshIsUnrecorded
    /\ DeniedIsTold
    /\ NeverAgainstTheRecord
    /\ AllowedIsClosed
    /\ NoRecordOutlivesItsPrompt
-----------------------------------------------------------------------------
\* The compare-and-swap of resolveCanonicalGuardianRequest keeps the statuses statuses,
\* changes pending ones only, and leaves none of R pending.
LEMMA ResolveFacts ==
    ASSUME NEW known \in [Request -> Status], NEW R, NEW status \in Status
    PROVE  /\ Resolve(known, R, status) \in [Request -> Status]
           /\ \A r \in Request :
                /\ (known[r] # "pending" \/ r \notin R) => Resolve(known, R, status)[r] = known[r]
                /\ (known[r] = "pending" /\ r \in R) => Resolve(known, R, status)[r] = status
  BY DEF Resolve

\* handleConfirmationResponse: what a verdict decides is a status.
LEMMA StatusOfFacts ==
    ASSUME NEW verdict \in Verdicts
    PROVE  /\ StatusOf(verdict) \in {"approved", "denied"}
           /\ StatusOf(verdict) = "denied" <=> verdict = "deny"
  BY DEF StatusOf, Verdicts

\* A cascade reaches calls that wait and are registered, and no others.
LEMMA ReachFacts ==
    ASSUME NEW r \in Request, NEW verdict \in Verdicts,
           NEW scope \in {"once", "conversation", "always"},
           NEW S \in Reach(r, verdict, scope)
    PROVE  S \subseteq Asking \cap registered
  BY DEF Reach

\* What an answer does to the three views: a set T of waiting calls is told the
\* verdict, T is empty or holds r, and each of T whose record was pending has it
\* resolved accordingly.  "known" is the record when the answer begins.
LEMMA RespondFacts ==
    ASSUME IInv, NEW r \in Request, NEW verdict \in Verdicts,
           NEW scope \in {"once", "conversation", "always"},
           NEW known \in [Request -> Status], Respond(r, verdict, scope, known)
    PROVE  \E T \in SUBSET Asking :
              /\ r \in Asking => r \in T
              /\ prompt' = [q \in Request |-> IF q \in T THEN verdict ELSE prompt[q]]
              /\ registered' = registered \ (T \cup {r})
              /\ record' \in [Request -> Status]
              /\ \A q \in Request :
                    /\ (q \notin T \/ known[q] # "pending") => record'[q] = known[q]
                    /\ (q \in T /\ known[q] = "pending") => record'[q] = StatusOf(verdict)
<1>1. CASE r \notin Asking
  <2>1. /\ prompt' = prompt /\ registered' = registered \ ({} \cup {r})
        /\ record' = known
    BY <1>1 DEF Respond
  <2>2. prompt' = [q \in Request |-> IF q \in {} THEN verdict ELSE prompt[q]]
    BY <2>1 DEF IInv, TypeOK
  <2>3. /\ r \in Asking => r \in {}
        /\ record' \in [Request -> Status]
        /\ \A q \in Request :
              /\ (q \notin {} \/ known[q] # "pending") => record'[q] = known[q]
              /\ (q \in {} /\ known[q] = "pending") => record'[q] = StatusOf(verdict)
    BY <1>1, <2>1
  <2> WITNESS {} \in SUBSET Asking
  <2>. QED BY <2>1, <2>2, <2>3
<1>2. CASE r \in Asking
  <2>1. PICK S \in Reach(r, verdict, scope) :
           /\ prompt' = [q \in Request |-> IF q \in Answered(r, S) THEN verdict ELSE prompt[q]]
           /\ registered' = registered \ (S \cup {r})
           /\ record' = Synced(known, Answered(r, S), verdict)
    BY <1>2 DEF Respond
  <2> DEFINE T == Answered(r, S)
  <2>2. T = S \cup {r} /\ T \subseteq Asking
    BY <1>2, ReachFacts DEF Answered
  <2>3. record' = Resolve(known, T, StatusOf(verdict)) /\ StatusOf(verdict) \in Status
    BY <2>1, StatusOfFacts DEF Synced, Status
  <2>4. registered' = registered \ (T \cup {r})
    BY <2>1, <2>2
  <2>5. /\ record' \in [Request -> Status]
        /\ \A q \in Request :
              /\ (q \notin T \/ known[q] # "pending") => record'[q] = known[q]
              /\ (q \in T /\ known[q] = "pending") => record'[q] = StatusOf(verdict)
    BY <2>3, ResolveFacts
  <2> HIDE DEF T
  <2>6. T \in SUBSET Asking /\ r \in T
    BY <2>2
  <2>7. prompt' = [q \in Request |-> IF q \in T THEN verdict ELSE prompt[q]]
    BY <2>1 DEF T
  <2>. QED BY <2>4, <2>5, <2>6, <2>7
<1>. QED BY <1>1, <1>2

-----------------------------------------------------------------------------
\* Each step preserves the invariant.
LEMMA InitInv == Init => IInv
<1> SUFFICES ASSUME Init PROVE IInv
  OBVIOUS
<1>1. TypeOK
  BY BoundsAssumption DEF Init, TypeOK
<1>. QED
  BY <1>1 DEF Init, IInv, Asking, WaitingCanBeAnswered, FreshIsUnrecorded, DeniedIsTold,
     NeverAgainstTheRecord, AllowedIsClosed, NoRecordOutlivesItsPrompt

\* Steps that answer nobody: only the statuses of records and prompts change.
LEMMA SimpleInv ==
    ASSUME IInv, NEW r \in Request, Ask(r) \/ TimesOut(r) \/ Lapse(r) \/ AbortTurn
    PROVE  IInv'
<1> USE DEF IInv, TypeOK, Asking, WaitingCanBeAnswered, FreshIsUnrecorded, DeniedIsTold,
     NeverAgainstTheRecord, AllowedIsClosed, NoRecordOutlivesItsPrompt, Verdicts
<1>1. CASE Ask(r) BY <1>1 DEF Ask
<1>2. CASE TimesOut(r) BY <1>2 DEF TimesOut
<1>3. CASE Lapse(r) BY <1>3 DEF Lapse
<1>4. CASE AbortTurn BY <1>4 DEF AbortTurn
<1>. QED BY <1>1, <1>2, <1>3, <1>4

\* The sweep, the restart and a new message resolve what is pending.
LEMMA SweepInv == ASSUME IInv, Sweep PROVE IInv'
<1>1. /\ record' \in [Request -> Status]
      /\ \A r \in Request :
           /\ record[r] # "pending" => record'[r] = record[r]
           /\ record[r] = "pending" => record'[r] \in {"pending", "expired"}
  BY ResolveFacts DEF Sweep, IInv, TypeOK, Status
<1>. QED
  BY <1>1 DEF Sweep, IInv, TypeOK, Asking, WaitingCanBeAnswered, FreshIsUnrecorded,
     DeniedIsTold, NeverAgainstTheRecord, AllowedIsClosed, NoRecordOutlivesItsPrompt,
     Verdicts, Status

LEMMA CrashInv == ASSUME IInv, Crash PROVE IInv'
<1>1. /\ record' \in [Request -> Status]
      /\ \A r \in Request :
           /\ record[r] # "pending" => record'[r] = record[r]
           /\ record[r] = "pending" => record'[r] = "expired"
  BY ResolveFacts DEF Crash, IInv, TypeOK, Status, Outlived
<1>2. crashes' \in 0..MaxCrashes
  BY BoundsAssumption DEF Crash, IInv, TypeOK
<1>. QED
  BY <1>1, <1>2 DEF Crash, IInv, TypeOK, Asking, WaitingCanBeAnswered, FreshIsUnrecorded,
     DeniedIsTold, NeverAgainstTheRecord, AllowedIsClosed, NoRecordOutlivesItsPrompt,
     Verdicts, Status

LEMMA NewMessageFacts ==
    ASSUME IInv, NewMessage
    PROVE  /\ record' \in [Request -> Status]
           /\ \A r \in Request :
                /\ record[r] # "pending" => record'[r] = record[r]
                /\ record[r] = "pending" => record'[r] \in {"pending", "denied", "expired"}
<1> DEFINE denied == Resolve(record, registered \ LeftRegistered, "denied")
<1>1. /\ denied \in [Request -> Status]
      /\ \A r \in Request :
           /\ record[r] # "pending" => denied[r] = record[r]
           /\ record[r] = "pending" => denied[r] \in {"pending", "denied"}
  BY ResolveFacts DEF IInv, TypeOK, Status
<1>2. record' = Resolve(denied, Request \ LeftRegistered, "expired")
  BY DEF NewMessage
<1> HIDE DEF denied
<1>3. record' \in [Request -> Status] /\ \A r \in Request :
           \/ record'[r] = denied[r]
           \/ denied[r] = "pending" /\ record'[r] = "expired"
  BY <1>1, <1>2, ResolveFacts, "expired" \in Status DEF Status
<1>. QED BY <1>1, <1>3

LEMMA NewMessageInv == ASSUME IInv, NewMessage PROVE IInv'
<1>1. /\ record' \in [Request -> Status]
      /\ \A r \in Request :
           /\ record[r] # "pending" => record'[r] = record[r]
           /\ record[r] = "pending" => record'[r] \in {"pending", "denied", "expired"}
  BY NewMessageFacts
<1>2. registered' \subseteq registered /\ Asking' = {}
  BY DEF NewMessage, LeftRegistered, Asking, IInv, TypeOK, Verdicts
<1>3. \A r \in Request : prompt'[r] = prompt[r] \/ (prompt[r] = "asking" /\ prompt'[r] = "deny")
  BY DEF NewMessage, Asking
<1>4. TypeOK'
  BY <1>1, <1>2 DEF NewMessage, IInv, TypeOK, Verdicts, Status
<1>5. WaitingCanBeAnswered'
  BY <1>2 DEF WaitingCanBeAnswered
<1>6. \A r \in Request : prompt'[r] # "asking"
  BY <1>2 DEF Asking
<1>7. DeniedIsTold'
  BY <1>6 DEF DeniedIsTold
<1>8. FreshIsUnrecorded' /\ NeverAgainstTheRecord' /\ AllowedIsClosed' /\ NoRecordOutlivesItsPrompt'
  <2>1. \A r \in Request : prompt'[r] \in {"none", "allow", "lost"} => prompt'[r] = prompt[r]
    BY <1>3
  <2>2. \A r \in Request : record[r] = "pending" \/ record'[r] = record[r]
    BY <1>1
  <2>. QED BY <2>1, <2>2 DEF IInv, FreshIsUnrecorded, NeverAgainstTheRecord, AllowedIsClosed,
                             NoRecordOutlivesItsPrompt
<1>. QED BY <1>4, <1>5, <1>7, <1>8 DEF IInv

\* An answer: after RespondFacts, what is left is to look at each request.
LEMMA RespondInv ==
    ASSUME IInv, NEW r \in Request, NEW verdict \in Verdicts,
           NEW scope \in {"once", "conversation", "always"},
           Respond(r, verdict, scope, record), UNCHANGED <<late, told, crashes>>
    PROVE  IInv'
<1>1. record \in [Request -> Status]
  BY DEF IInv, TypeOK, Status
<1>2. PICK T \in SUBSET Asking :
           /\ r \in Asking => r \in T
           /\ prompt' = [q \in Request |-> IF q \in T THEN verdict ELSE prompt[q]]
           /\ registered' = registered \ (T \cup {r})
           /\ record' \in [Request -> Status]
           /\ \A q \in Request :
                 /\ (q \notin T \/ record[q] # "pending") => record'[q] = record[q]
                 /\ (q \in T /\ record[q] = "pending") => record'[q] = StatusOf(verdict)
  BY <1>1, RespondFacts
<1>3. TypeOK'
  BY <1>2 DEF IInv, TypeOK, Status
<1>4. WaitingCanBeAnswered'
  BY <1>2 DEF IInv, Asking, WaitingCanBeAnswered, Verdicts
<1>5. FreshIsUnrecorded' /\ NoRecordOutlivesItsPrompt'
  BY <1>2 DEF IInv, Asking, FreshIsUnrecorded, NoRecordOutlivesItsPrompt, Verdicts
<1>6. DeniedIsTold' /\ NeverAgainstTheRecord' /\ AllowedIsClosed'
  BY <1>2, StatusOfFacts DEF IInv, Asking, DeniedIsTold, NeverAgainstTheRecord,
     AllowedIsClosed, Verdicts
<1>. QED BY <1>3, <1>4, <1>5, <1>6 DEF IInv

LEMMA ConfirmInv ==
    ASSUME IInv, NEW r \in Request, Confirm(r) \/ ConfirmByPrompt(r)
    PROVE  IInv'
  BY RespondInv DEF Confirm, ConfirmByPrompt

\* The guardian's decision: the record first, then the call, which is the one told.
LEMMA GuardianFacts ==
    ASSUME IInv, NEW r \in Request, GuardianDecides(r)
    PROVE  \E verdict \in Verdicts, T \in SUBSET Asking :
              /\ record[r] = "pending"
              /\ r \in Asking => r \in T
              /\ prompt' = [q \in Request |-> IF q \in T THEN verdict ELSE prompt[q]]
              /\ registered' = registered \ (T \cup {r})
              /\ record' \in [Request -> Status] /\ record'[r] = StatusOf(verdict)
              /\ \A q \in Request \ {r} :
                    /\ (q \notin T \/ record[q] # "pending") => record'[q] = record[q]
                    /\ (q \in T /\ record[q] = "pending") => record'[q] = StatusOf(verdict)
<1>1. PICK verdict \in Verdicts, scope \in {"once", "conversation"} :
        LET decided == [record EXCEPT ![r] = StatusOf(verdict)]
        IN  IF r \in registered
            THEN /\ Respond(r, verdict, scope, decided)
                 /\ told' = [told EXCEPT ![r] = verdict]
            ELSE /\ record' = decided
                 /\ UNCHANGED <<prompt, registered, told>>
  BY DEF GuardianDecides
<1> DEFINE decided == [record EXCEPT ![r] = StatusOf(verdict)]
<1>2. record[r] = "pending"
  BY DEF GuardianDecides, MayDecide
<1>3. /\ decided \in [Request -> Status]
      /\ decided[r] = StatusOf(verdict) /\ decided[r] # "pending"
      /\ \A q \in Request \ {r} : decided[q] = record[q]
  BY StatusOfFacts DEF IInv, TypeOK, Status
<1>4. CASE r \in registered
  <2>1. Respond(r, verdict, scope, decided)
    BY <1>1, <1>4
  <2> HIDE DEF decided
  <2>2. PICK T \in SUBSET Asking :
           /\ r \in Asking => r \in T
           /\ prompt' = [q \in Request |-> IF q \in T THEN verdict ELSE prompt[q]]
           /\ registered' = registered \ (T \cup {r})
           /\ record' \in [Request -> Status]
           /\ \A q \in Request :
                 /\ (q \notin T \/ decided[q] # "pending") => record'[q] = decided[q]
                 /\ (q \in T /\ decided[q] = "pending") => record'[q] = StatusOf(verdict)
    BY <1>3, <2>1, RespondFacts
  <2>3. record'[r] = StatusOf(verdict)
    BY <1>3, <2>2
  <2>4. \A q \in Request \ {r} :
           /\ (q \notin T \/ record[q] # "pending") => record'[q] = record[q]
           /\ (q \in T /\ record[q] = "pending") => record'[q] = StatusOf(verdict)
    BY <1>3, <2>2
  <2> WITNESS verdict \in Verdicts, T \in SUBSET Asking
  <2>. QED BY <1>2, <2>2, <2>3, <2>4
<1>5. CASE r \notin registered
  <2>1. record' = decided /\ prompt' = prompt /\ registered' = registered
    BY <1>1, <1>5
  <2>2. r \notin Asking
    BY <1>5 DEF IInv, WaitingCanBeAnswered
  <2>3. /\ prompt' = [q \in Request |-> IF q \in {} THEN verdict ELSE prompt[q]]
        /\ registered' = registered \ ({} \cup {r})
    BY <1>5, <2>1 DEF IInv, TypeOK
  <2> WITNESS verdict \in Verdicts, {} \in SUBSET Asking
  <2>. QED BY <1>2, <1>3, <2>1, <2>2, <2>3
<1>. QED BY <1>4, <1>5

LEMMA GuardianInv == ASSUME IInv, NEW r \in Request, GuardianDecides(r) PROVE IInv'
<1>1. PICK verdict \in Verdicts, T \in SUBSET Asking :
        /\ record[r] = "pending"
        /\ r \in Asking => r \in T
        /\ prompt' = [q \in Request |-> IF q \in T THEN verdict ELSE prompt[q]]
        /\ registered' = registered \ (T \cup {r})
        /\ record' \in [Request -> Status] /\ record'[r] = StatusOf(verdict)
        /\ \A q \in Request \ {r} :
              /\ (q \notin T \/ record[q] # "pending") => record'[q] = record[q]
              /\ (q \in T /\ record[q] = "pending") => record'[q] = StatusOf(verdict)
  BY GuardianFacts
<1>2. TypeOK'
  <2>1. told' \in [Request -> {"none"} \cup Verdicts] /\ UNCHANGED <<late, crashes>>
    BY DEF GuardianDecides, IInv, TypeOK
  <2>. QED BY <1>1, <2>1 DEF IInv, TypeOK, Status
<1>3. WaitingCanBeAnswered'
  BY <1>1 DEF IInv, Asking, WaitingCanBeAnswered, Verdicts
<1>4. FreshIsUnrecorded' /\ NoRecordOutlivesItsPrompt'
  BY <1>1, StatusOfFacts DEF IInv, Asking, FreshIsUnrecorded, NoRecordOutlivesItsPrompt, Verdicts
<1>5. DeniedIsTold' /\ NeverAgainstTheRecord' /\ AllowedIsClosed'
  BY <1>1, StatusOfFacts DEF IInv, Asking, DeniedIsTold, NeverAgainstTheRecord,
     AllowedIsClosed, Verdicts
<1>. QED BY <1>2, <1>3, <1>4, <1>5 DEF IInv
-----------------------------------------------------------------------------
LEMMA NextInv == IInv /\ [Next]_vars => IInv'
<1> SUFFICES ASSUME IInv, [Next]_vars PROVE IInv'
  OBVIOUS
<1>1. ASSUME NEW r \in Request, Ask(r) \/ TimesOut(r) \/ Lapse(r) PROVE IInv'
  BY <1>1, SimpleInv
<1>2. CASE AbortTurn
  <2>1. PICK r \in Request : TRUE
    BY <1>2 DEF AbortTurn, Asking
  <2>. QED BY <1>2, <2>1, SimpleInv
<1>3. ASSUME NEW r \in Request, Confirm(r) \/ ConfirmByPrompt(r) PROVE IInv'
  BY <1>3, ConfirmInv
<1>4. ASSUME NEW r \in Request, GuardianDecides(r) PROVE IInv'
  BY <1>4, GuardianInv
<1>5. CASE UNCHANGED vars
  BY <1>5 DEF vars, IInv, TypeOK, Asking, WaitingCanBeAnswered, FreshIsUnrecorded,
     DeniedIsTold, NeverAgainstTheRecord, AllowedIsClosed, NoRecordOutlivesItsPrompt
<1>. QED
  BY <1>1, <1>2, <1>3, <1>4, <1>5, SweepInv, CrashInv, NewMessageInv DEF Next

\* Types hold.
THEOREM TypeCorrect == Spec => []TypeOK
<1>1. IInv => TypeOK
  BY DEF IInv
<1>. QED BY <1>1, InitInv, NextInv, PTL DEF Spec

\* The three views of a prompt stay in step: a tool call that waits has its entry,
\* a call that went ahead was not denied on record, its record is closed, and after a
\* restart so is every record whose prompt was in the old process's memory.
THEOREM ViewsAgreeHolds == Spec => []ViewsAgree
<1>1. IInv => ViewsAgree
  BY DEF IInv, ViewsAgree
<1>. QED BY <1>1, InitInv, NextInv, PTL DEF Spec

\* What every step does to a record that is not pending: nothing, unless it is the one
\* Ask creates.
LEMMA RecordStep ==
    ASSUME IInv, [Next]_vars, NEW r \in Request
    PROVE  record[r] \in {"approved", "denied", "expired"} => record'[r] = record[r]
<1> SUFFICES ASSUME record[r] \in {"approved", "denied", "expired"}
             PROVE  record'[r] = record[r]
  OBVIOUS
<1>1. ASSUME NEW q \in Request, Ask(q) PROVE record'[r] = record[r]
  BY <1>1 DEF Ask, IInv, FreshIsUnrecorded, TypeOK
<1>2. ASSUME NEW q \in Request, TimesOut(q) \/ Lapse(q) PROVE record'[r] = record[r]
  BY <1>2 DEF TimesOut, Lapse
<1>3. ASSUME NEW q \in Request, Confirm(q) \/ ConfirmByPrompt(q) PROVE record'[r] = record[r]
  <2>1. record \in [Request -> Status]
    BY DEF IInv, TypeOK, Status
  <2>2. PICK verdict \in Verdicts, scope \in {"once", "conversation", "always"} :
          Respond(q, verdict, scope, record)
    BY <1>3 DEF Confirm, ConfirmByPrompt
  <2>. QED BY <2>1, <2>2, RespondFacts
<1>4. ASSUME NEW q \in Request, GuardianDecides(q) PROVE record'[r] = record[r]
  BY <1>4, GuardianFacts
<1>5. CASE AbortTurn BY <1>5 DEF AbortTurn
<1>6. CASE NewMessage BY <1>6, NewMessageFacts
<1>7. CASE Sweep \/ Crash
  BY <1>7, ResolveFacts, "expired" \in Status DEF Sweep, Crash, IInv, TypeOK, Status
<1>8. CASE UNCHANGED vars BY <1>8 DEF vars
<1>. QED
  BY <1>1, <1>2, <1>3, <1>4, <1>5, <1>6, <1>7, <1>8 DEF Next

\* The compare-and-swap: the first decision, or the expiry, stands.
THEOREM FirstDecision == Spec => FirstDecisionStands
<1>1. IInv /\ [Next]_vars =>
        [\A r \in Request : record[r] \in {"approved", "denied", "expired"}
            => record'[r] = record[r]]_vars
  BY RecordStep
<1>. QED BY <1>1, InitInv, NextInv, PTL DEF Spec, FirstDecisionStands

\* A decision that is recorded while a call waits is what the call is told in the same
\* step, by whichever path it came.
LEMMA DecisionStep ==
    ASSUME IInv, Next, NEW r \in Request, NEW verdict \in Verdicts,
           r \in Asking, record[r] = "pending", record'[r] = StatusOf(verdict)
    PROVE  prompt'[r] = verdict
<1>1. record'[r] # record[r] /\ record'[r] \in {"approved", "denied"}
  BY StatusOfFacts
<1>2. \A v \in Verdicts : StatusOf(v) = StatusOf(verdict) => v = verdict
  BY DEF StatusOf, Verdicts
<1>3. ASSUME NEW q \in Request, Ask(q) \/ TimesOut(q) \/ Lapse(q) PROVE prompt'[r] = verdict
  BY <1>1, <1>3 DEF Ask, TimesOut, Lapse, IInv, TypeOK, Asking
<1>4. ASSUME NEW q \in Request, Confirm(q) \/ ConfirmByPrompt(q) PROVE prompt'[r] = verdict
  <2>1. record \in [Request -> Status]
    BY DEF IInv, TypeOK, Status
  <2>2. PICK v \in Verdicts, scope \in {"once", "conversation", "always"} :
          Respond(q, v, scope, record)
    BY <1>4 DEF Confirm, ConfirmByPrompt
  <2>. QED BY <1>1, <1>2, <2>1, <2>2, RespondFacts
<1>5. ASSUME NEW q \in Request, GuardianDecides(q) PROVE prompt'[r] = verdict
  BY <1>1, <1>2, <1>5, GuardianFacts
<1>6. CASE NewMessage
  <2>1. record'[r] = "denied"
    BY <1>1, <1>6, NewMessageFacts
  <2>2. prompt'[r] = "deny"
    BY <1>6 DEF NewMessage, IInv, TypeOK
  <2>. QED BY <2>1, <2>2 DEF StatusOf, Verdicts
<1>7. CASE AbortTurn \/ Sweep \/ Crash
  BY <1>1, <1>7, ResolveFacts, "expired" \in Status
  DEF AbortTurn, Sweep, Crash, IInv, TypeOK, Status
<1>. QED
  BY <1>3, <1>4, <1>5, <1>6, <1>7 DEF Next

\* A recorded decision reaches the call that waits for it.
THEOREM WaiterIsTold == Spec => DecisionReachesTheWaiter
<1>1. IInv /\ [Next]_vars =>
        [\A r \in Request, verdict \in Verdicts :
          (r \in Asking /\ record[r] = "pending" /\ record'[r] = StatusOf(verdict))
              => prompt'[r] = verdict]_vars
  BY DecisionStep
<1>. QED BY <1>1, InitInv, NextInv, PTL DEF Spec, DecisionReachesTheWaiter
=============================================================================
