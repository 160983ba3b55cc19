--------------------------- MODULE Confirmations ---------------------------
(***************************************************************************)
(* The permission prompts of one conversation.  A tool call that needs     *)
(* permission waits on a prompt of the PermissionPrompter; the same prompt *)
(* is an entry of the pending-interactions map, by which clients answer,   *)
(* and a canonical guardian request of kind tool_approval in the database, *)
(* by which the guardian decides.  The three are kept in step by hand, in  *)
(* synchronous code: every action below is one such piece.                 *)
(***************************************************************************)
EXTENDS Naturals

CONSTANTS
    Request,      \* the prompts that may be shown (bound)
    MaxCrashes    \* how often the daemon dies (bound)

ASSUME BoundsAssumption == MaxCrashes \in Nat

VARIABLES
    prompt,       \* what the prompter has told the waiting tool call
    record,       \* status of the canonical request in the database
    registered,   \* the keys of pendingInteractions
    late,         \* requests whose expiresAt has passed
    told,         \* history: the guardian's decision was reported as applied
    crashes

vars == <<prompt, record, registered, late, told, crashes>>

Verdicts == {"allow", "deny"}

TypeOK ==
    /\ prompt \in [Request -> {"none", "asking", "lost"} \cup Verdicts]
    /\ record \in [Request -> {"absent", "pending", "approved", "denied", "expired"}]
    /\ registered \subseteq Request
    /\ late \subseteq Request
    /\ told \in [Request -> {"none"} \cup Verdicts]
    /\ crashes \in 0..MaxCrashes

Init ==
    /\ prompt = [r \in Request |-> "none"]
    /\ record = [r \in Request |-> "absent"]
    /\ registered = {} /\ late = {}
    /\ told = [r \in Request |-> "none"]
    /\ crashes = 0

Asking == {r \in Request : prompt[r] = "asking"}

\* resolveCanonicalGuardianRequest, on the statuses known, for the requests R: only
\* those still pending change.
Resolve_Overwriting(known, R, status) == [r \in Request |-> IF r \in R THEN status ELSE known[r]]
Resolve(known, R, status) ==
    [r \in Request |-> IF r \in R /\ known[r] = "pending" THEN status ELSE known[r]]
-----------------------------------------------------------------------------
(* The tool call's side: the prompter *)

\* prompt: the client is sent the request, which registers it and records it; the
\* record may fail, and the error is only logged.
Ask(r) ==
    /\ prompt[r] = "none"
    /\ prompt' = [prompt EXCEPT ![r] = "asking"]
    /\ registered' = registered \cup {r}
    /\ \E s \in {"pending", "absent"} : record' = [record EXCEPT ![r] = s]
    /\ UNCHANGED <<late, told, crashes>>

\* The timer denies the call and leaves the entry and the record as they are.
TimesOut(r) ==
    /\ prompt[r] = "asking"
    /\ prompt' = [prompt EXCEPT ![r] = "deny"]
    /\ UNCHANGED <<record, registered, late, told, crashes>>

\* abortConversation denies every call of the turn, and so does the turn's signal.
AbortTurn ==
    /\ Asking # {}
    /\ prompt' = [r \in Request |-> IF r \in Asking THEN "deny" ELSE prompt[r]]
    /\ UNCHANGED <<record, registered, late, told, crashes>>
-----------------------------------------------------------------------------
(* Answers.  A decision reaches over the other prompts of the conversation: not at *)
(* all, all of them (for ten minutes or for the conversation), or those a rule     *)
(* matches (always).                                                               *)

Reach(r, verdict, scope) ==
    LET siblings == (Asking \cap registered) \ {r}
    IN  CASE scope = "once" -> {{}}
          [] scope = "conversation" -> IF verdict = "allow" THEN {siblings} ELSE {{}}
          [] scope = "always" -> SUBSET siblings

StatusOf(verdict) == IF verdict = "allow" THEN "approved" ELSE "denied"

\* The calls that are told, of those whose entries are consumed.
Answered_Alone(r, S) == {r}
Answered(r, S) == S \cup {r}

Synced(known, R, verdict) == Resolve(known, R, StatusOf(verdict))

\* handleConfirmationResponse, by a caller that takes r's entry from the map whatever
\* happens: nothing else when the prompt is not waiting; or the call is told, its
\* record follows, and its siblings are consumed and told the same.
Respond(r, verdict, scope, known) ==
    IF r \notin Asking
    THEN /\ record' = known
         /\ registered' = registered \ {r}
         /\ UNCHANGED prompt
    ELSE \E S \in Reach(r, verdict, scope) :
            /\ prompt' = [q \in Request |-> IF q \in Answered(r, S) THEN verdict ELSE prompt[q]]
            /\ registered' = registered \ (S \cup {r})
            /\ record' = Synced(known, Answered(r, S), verdict)

\* POST /v1/confirm, and the channel's handleChannelDecision: the entry is consumed
\* first, and what it says is applied to a prompt that may be gone.
Confirm(r) ==
    /\ r \in registered
    /\ \E verdict \in Verdicts, scope \in {"once", "conversation", "always"} :
          Respond(r, verdict, scope, record)
    /\ UNCHANGED <<late, told, crashes>>

\* A confirmation response of a connected client goes by the prompt instead.
ConfirmByPrompt(r) ==
    /\ r \in Asking
    /\ \E verdict \in Verdicts, scope \in {"once", "conversation", "always"} :
          Respond(r, verdict, scope, record)
    /\ UNCHANGED <<late, told, crashes>>

\* applyCanonicalGuardianDecision and the resolver of tool_approval: the record is
\* resolved first; without an entry the resolver reports a failure, and with one the
\* decision is reported as applied.
MayDecide_Again(r) == record[r] # "absent" /\ r \notin late
MayDecide(r) == record[r] = "pending" /\ r \notin late

GuardianDecides(r) ==
    /\ MayDecide(r)
    /\ \E verdict \in Verdicts, scope \in {"once", "conversation"} :
          LET decided == [record EXCEPT ![r] = StatusOf(verdict)]
          IN  IF r \in registered
              THEN /\ Respond(r, verdict, scope, decided)
                   /\ told' = [told EXCEPT ![r] = verdict]
              ELSE /\ record' = decided
                   /\ UNCHANGED <<prompt, registered, told>>
    /\ UNCHANGED <<late, crashes>>
-----------------------------------------------------------------------------
(* A new message of the user *)

\* expireOrphanedCanonicalRequests
Orphans(left) == {r \in Request : record[r] = "pending" /\ r \notin left}

\* With prompts outstanding, the entries of all are denied and taken from the map;
\* then the records without an entry are expired.
LeftRegistered == IF Asking = {} THEN registered ELSE {}

NewMessage ==
    /\ prompt' = [r \in Request |-> IF r \in Asking THEN "deny" ELSE prompt[r]]
    /\ registered' = LeftRegistered
    /\ LET denied == Resolve(record, registered \ LeftRegistered, "denied")
       IN  record' = Resolve(denied, Request \ LeftRegistered, "expired")
    /\ UNCHANGED <<late, told, crashes>>
-----------------------------------------------------------------------------
(* Time, the sweep and the restart *)

Lapse(r) ==
    /\ record[r] = "pending" /\ r \notin late
    /\ late' = late \cup {r}
    /\ UNCHANGED <<prompt, record, registered, told, crashes>>

\* sweepExpiredCanonicalGuardianRequests, every minute
Swept_Registered == {r \in late : record[r] = "pending" /\ r \in registered}
Swept == {r \in late : record[r] = "pending"}

Sweep ==
    /\ Swept # {}
    /\ record' = Resolve(record, Swept, "expired")
    /\ UNCHANGED <<prompt, registered, late, told, crashes>>

\* The daemon dies; on start the requests that were bound to its memory are expired.
Outlived == Request

Crash ==
    /\ crashes < MaxCrashes
    /\ crashes' = crashes + 1
    /\ prompt' = [r \in Request |-> IF r \in Asking THEN "lost" ELSE prompt[r]]
    /\ registered' = {}
    /\ record' = Resolve(record, Outlived, "expired")
    /\ UNCHANGED <<late, told>>
-----------------------------------------------------------------------------
Next ==
    \/ \E r \in Request :
          \/ Ask(r) \/ TimesOut(r) \/ Confirm(r) \/ ConfirmByPrompt(r)
          \/ GuardianDecides(r) \/ Lapse(r)
    \/ AbortTurn \/ NewMessage \/ Sweep \/ Crash

Spec == Init /\ [][Next]_vars

\* Clocks go on: a prompt's timer fires, a deadline passes, the sweep runs.
Fairness ==
    /\ WF_vars(Sweep)
    /\ \A r \in Request : WF_vars(TimesOut(r)) /\ WF_vars(Lapse(r))

FairSpec == Spec /\ Fairness
-----------------------------------------------------------------------------
\* A tool call that waits on its prompt can be answered: no path takes its entry away
\* and leaves it waiting.
WaitingCanBeAnswered == Asking \subseteq registered

\* No tool ran that the record says was denied, whoever answered the prompt, through
\* which of its three faces, and whatever answer came second.
NeverAgainstTheRecord ==
    \A r \in Request : ~(prompt[r] = "allow" /\ record[r] = "denied")

\* A decision recorded while the call waits is the one the call is told.
DecisionReachesTheWaiter ==
    [][\A r \in Request, verdict \in Verdicts :
          (r \in Asking /\ record[r] = "pending" /\ record'[r] = StatusOf(verdict))
              => prompt'[r] = verdict]_vars

\* Once decided or expired, a request keeps its status: the compare-and-swap.
FirstDecisionStands ==
    [][\A r \in Request : record[r] \in {"approved", "denied", "expired"}
            => record'[r] = record[r]]_vars

\* A call that goes ahead leaves no pending record for a later reply to match.
AllowedIsClosed == \A r \in Request : prompt[r] = "allow" => record[r] # "pending"

\* After a restart no record waits for a prompt that died with the old process.
NoRecordOutlivesItsPrompt ==
    \A r \in Request : prompt[r] = "lost" => record[r] # "pending"

\* The prompter, the map of what can be answered and the database agree on each prompt,
\* however answers, time-outs, aborts, new messages, sweeps and restarts interleave.
ViewsAgree ==
    /\ WaitingCanBeAnswered
    /\ NeverAgainstTheRecord
    /\ AllowedIsClosed
    /\ NoRecordOutlivesItsPrompt

\* Every recorded request is closed in the end, even when its prompt is gone.
RequestsClose == \A r \in Request : (record[r] = "pending") ~> (record[r] # "pending")

\* "the interaction was resolved by another path (e.g. timeout)" is a failure of the
\* resolver: a decision reported as applied is what the tool call was told.
AppliedIsApplied == \A r \in Request : told[r] # "none" => prompt[r] = told[r]
=============================================================================
