----------------------------- MODULE ToolGrants -----------------------------
(***************************************************************************)
(* Tool calls of a trusted contact that need the guardian.  A call without *)
(* a grant files a request (or joins the pending one for the same tool and *)
(* input), stamps it and polls for up to a minute; the guardian's approval *)
(* mints one scoped grant, which the first call to look for it consumes.   *)
(* All calls are of one requester in one conversation.  Store operations   *)
(* are synchronous; the guardian's decision waits only while it delivers a *)
(* notice to the requester, before it mints.                               *)
(***************************************************************************)
EXTENDS Naturals, FiniteSets

CONSTANTS
    Call,         \* the tool calls that may be made (bound)
    Request,      \* the requests that may be filed (bound)
    Tool,         \* what a call may be for: a tool with the digest of its input
    ToolOf,       \* what each call is for
    None,         \* no request
    MaxCrashes    \* how often the daemon dies (bound)

ASSUME ToolAssumption == Tool # {} /\ ToolOf \in [Call -> Tool]
ASSUME NoneAssumption == None \notin Request
ASSUME BoundsAssumption == MaxCrashes \in Nat

VARIABLES
    call,         \* what has become of each call
    waitsFor,     \* the request a waiting call has stamped
    ranOn,        \* the request whose grant the call consumed
    record,       \* status of each canonical request
    about,        \* the tool each request is for
    late,         \* requests whose expiresAt has passed
    stamp,        \* followupState: "none", "fresh" inline_wait_active, or "stale"
    notifying,    \* approvals that deliver their notice and have not minted yet
    active,       \* active grants of each request
    sameMs,       \* a request was created in this millisecond
    grant,        \* history: the grant of each request, "none", "minted" or "lost"
    crashes

callVars == <<call, waitsFor, ranOn>>
requestVars == <<record, about, late, stamp, sameMs>>
grantVars == <<notifying, active, grant>>
vars == <<callVars, requestVars, grantVars, crashes>>

Outcomes == {"ran", "refused", "rejected", "timed out", "cancelled", "error", "lost"}

TypeOK ==
    /\ call \in [Call -> {"none", "waiting"} \cup Outcomes]
    /\ waitsFor \in [Call -> Request \cup {None}]
    /\ ranOn \in [Call -> Request \cup {None}]
    /\ record \in [Request -> {"absent", "pending", "approved", "denied", "expired"}]
    /\ about \in [Request -> Tool]
    /\ late \subseteq Request
    /\ stamp \in [Request -> {"none", "fresh", "stale"}]
    /\ notifying \subseteq Request
    /\ active \in [Request -> Nat]
    /\ sameMs \in BOOLEAN
    /\ grant \in [Request -> {"none", "minted", "lost"}]
    /\ crashes \in 0..MaxCrashes

Init ==
    /\ call = [c \in Call |-> "none"]
    /\ waitsFor = [c \in Call |-> None]
    /\ ranOn = [c \in Call |-> None]
    /\ record = [r \in Request |-> "absent"]
    /\ about = [r \in Request |-> CHOOSE t \in Tool : TRUE]
    /\ late = {} /\ sameMs = FALSE
    /\ stamp = [r \in Request |-> "none"]
    /\ notifying = {}
    /\ grant = [r \in Request |-> "none"]
    /\ active = [r \in Request |-> 0]
    /\ crashes = 0

Waiters(r) == {c \in Call : call[c] = "waiting" /\ waitsFor[c] = r}
-----------------------------------------------------------------------------
(* Grants *)

\* The grants a call may consume: active ones for its tool and input, of any request.
Grants(c) == {r \in Request : about[r] = ToolOf[c] /\ active[r] > 0}

\* consumeScopedApprovalGrantByToolSignature picks one and marks it consumed.
Used_Kept(r) == active
Used(r) == [active EXCEPT ![r] = @ - 1]

Consume(c, r) ==
    /\ r \in Grants(c)
    /\ active' = Used(r)
    /\ ranOn' = [ranOn EXCEPT ![c] = r]
    /\ call' = [call EXCEPT ![c] = "ran"]

\* mintCanonicalRequestGrant, which may fail: the error is only logged.
Mint(r) ==
    \/ /\ active' = [active EXCEPT ![r] = @ + 1]
       /\ grant' = [grant EXCEPT ![r] = "minted"]
    \/ /\ grant' = [grant EXCEPT ![r] = "lost"]
       /\ UNCHANGED active

\* A grant's time is over, or the voice call it belongs to ends and revokes it.
GrantEnds(r) ==
    /\ active[r] > 0
    /\ active' = [active EXCEPT ![r] = 0]
    /\ UNCHANGED <<callVars, requestVars, notifying, grant, crashes>>
-----------------------------------------------------------------------------
(* The gate of a tool call *)

\* A call that finds a grant runs at once.
Invoke(c) ==
    /\ call[c] = "none"
    /\ \E r \in Request : Consume(c, r)
    /\ UNCHANGED <<waitsFor, requestVars, notifying, grant, crashes>>

\* One that may not escalate, for its sender is unknown or no guardian is bound, is
\* refused.
Refuse(c) ==
    /\ call[c] = "none" /\ Grants(c) = {}
    /\ call' = [call EXCEPT ![c] = "refused"]
    /\ UNCHANGED <<waitsFor, ranOn, requestVars, grantVars, crashes>>

Waits(c, r) ==
    /\ call' = [call EXCEPT ![c] = "waiting"]
    /\ waitsFor' = [waitsFor EXCEPT ![c] = r]
    /\ stamp' = [stamp EXCEPT ![r] = "fresh"]

\* The pending request for the same tool and input, late or not.
Pending(c) == {r \in Request : record[r] = "pending" /\ about[r] = ToolOf[c]}

Join(c) ==
    /\ call[c] = "none" /\ Grants(c) = {}
    /\ \E r \in Pending(c) : Waits(c, r)
    /\ UNCHANGED <<ranOn, record, about, late, sameMs, grantVars, crashes>>

MayFile(c) == Pending(c) = {}

File(c, r) ==
    /\ call[c] = "none" /\ Grants(c) = {}
    /\ MayFile(c)
    /\ record[r] = "absent" /\ ~sameMs
    /\ Waits(c, r)
    /\ record' = [record EXCEPT ![r] = "pending"]
    /\ about' = [about EXCEPT ![r] = ToolOf[c]]
    /\ sameMs' = TRUE
    /\ UNCHANGED <<ranOn, late, grantVars, crashes>>

\* A request's id is its requester and the time in milliseconds: a second one in the
\* same millisecond is refused by the database, and the call fails.
Collide(c) ==
    /\ call[c] = "none" /\ Grants(c) = {}
    /\ MayFile(c) /\ sameMs
    /\ call' = [call EXCEPT ![c] = "error"]
    /\ UNCHANGED <<waitsFor, ranOn, requestVars, grantVars, crashes>>

NextMs ==
    /\ sameMs
    /\ sameMs' = FALSE
    /\ UNCHANGED <<callVars, record, about, late, stamp, grantVars, crashes>>
-----------------------------------------------------------------------------
(* waitForInlineGrant.  However the wait ends, the request's stamp is cleared. *)

Cleared_NotOnCancel(c, outcome) ==
    IF outcome = "cancelled" THEN stamp ELSE [stamp EXCEPT ![waitsFor[c]] = "none"]
Cleared(c, outcome) == [stamp EXCEPT ![waitsFor[c]] = "none"]

Leaves(c, outcome) ==
    /\ stamp' = Cleared(c, outcome)
    /\ UNCHANGED <<waitsFor, record, about, late, sameMs, notifying, grant, crashes>>

Ends(c, outcome) ==
    /\ call' = [call EXCEPT ![c] = outcome]
    /\ Leaves(c, outcome)
    /\ UNCHANGED <<ranOn, active>>

\* A poll looks at the request for a rejection, then for a grant.
Rejected(c) == call[c] = "waiting" /\ record[waitsFor[c]] = "denied"

PollRejected(c) == Rejected(c) /\ Ends(c, "rejected")

PollGranted(c) ==
    /\ call[c] = "waiting" /\ ~Rejected(c)
    /\ \E r \in Request : Consume(c, r)
    /\ Leaves(c, "ran")

\* The budget is over after a poll in vain.
PolledInVain_Unlooked(c) == call[c] = "waiting"
PolledInVain(c) == call[c] = "waiting" /\ ~Rejected(c) /\ Grants(c) = {}

GivesUp(c) == PolledInVain(c) /\ Ends(c, "timed out")

\* The turn is aborted; the next look at the signal is before the next poll.
Cancel(c) == call[c] = "waiting" /\ Ends(c, "cancelled")
-----------------------------------------------------------------------------
(* The guardian *)

MayDecide(r) == record[r] = "pending" /\ r \notin late

Deny(r) ==
    /\ MayDecide(r)
    /\ record' = [record EXCEPT ![r] = "denied"]
    /\ UNCHANGED <<callVars, about, late, stamp, sameMs, grantVars, crashes>>

\* With a fresh stamp the waiting call will resume by itself: the requester is not
\* told to retry, and the grant is minted in the same step.
Approve(r) ==
    /\ MayDecide(r)
    /\ record' = [record EXCEPT ![r] = "approved"]
    /\ IF stamp[r] = "fresh"
       THEN Mint(r) /\ UNCHANGED notifying
       ELSE notifying' = notifying \cup {r} /\ UNCHANGED <<active, grant>>
    /\ UNCHANGED <<callVars, about, late, stamp, sameMs, crashes>>

\* The notice is delivered, or was not: either way the grant is minted now.
Notified_Silent(r) ==
    /\ r \in notifying
    /\ notifying' = notifying \ {r}
    /\ UNCHANGED <<callVars, requestVars, active, grant, crashes>>
Notified(r) ==
    /\ r \in notifying
    /\ notifying' = notifying \ {r}
    /\ Mint(r)
    /\ UNCHANGED <<callVars, requestVars, crashes>>
-----------------------------------------------------------------------------
(* Time, the sweep and the restart *)

Lapse(r) ==
    /\ record[r] = "pending" /\ r \notin late
    /\ late' = late \cup {r}
    /\ UNCHANGED <<callVars, record, about, stamp, sameMs, grantVars, crashes>>

Expire(r) ==
    /\ record[r] = "pending" /\ r \in late
    /\ record' = [record EXCEPT ![r] = "expired"]
    /\ UNCHANGED <<callVars, about, late, stamp, sameMs, grantVars, crashes>>

\* A stamp is stale 30 seconds after the longest wait that may have made it.
GoesStale(r) ==
    /\ stamp[r] = "fresh" /\ Waiters(r) = {}
    /\ stamp' = [stamp EXCEPT ![r] = "stale"]
    /\ UNCHANGED <<callVars, record, about, late, sameMs, grantVars, crashes>>

\* The daemon dies; the start expires late requests, and keeps the others and the
\* grants.
Crash ==
    /\ crashes < MaxCrashes
    /\ crashes' = crashes + 1
    /\ call' = [c \in Call |-> IF call[c] = "waiting" THEN "lost" ELSE call[c]]
    /\ record' = [r \in Request |-> IF record[r] = "pending" /\ r \in late
                                    THEN "expired" ELSE record[r]]
    /\ notifying' = {} /\ sameMs' = FALSE
    /\ grant' = [r \in Request |-> IF r \in notifying THEN "lost" ELSE grant[r]]
    /\ UNCHANGED <<waitsFor, ranOn, about, late, stamp, active>>
-----------------------------------------------------------------------------
Next ==
    \/ \E c \in Call :
          \/ Invoke(c) \/ Refuse(c) \/ Join(c) \/ Collide(c)
          \/ \E r \in Request : File(c, r)
          \/ PollRejected(c) \/ PollGranted(c) \/ GivesUp(c) \/ Cancel(c)
    \/ \E r \in Request :
          \/ Deny(r) \/ Approve(r) \/ Notified(r) \/ GrantEnds(r)
          \/ Lapse(r) \/ Expire(r) \/ GoesStale(r)
    \/ NextMs \/ Crash

Spec == Init /\ [][Next]_vars

\* Polls go on and the budget of a wait ends; deliveries return; deadlines pass and
\* the sweep runs.
Fairness ==
    /\ \A c \in Call :
          WF_vars(PollRejected(c)) /\ WF_vars(PollGranted(c)) /\ WF_vars(GivesUp(c))
    /\ \A r \in Request :
          WF_vars(Notified(r)) /\ WF_vars(Lapse(r)) /\ WF_vars(Expire(r)) /\ WF_vars(GoesStale(r))

FairSpec == Spec /\ Fairness
-----------------------------------------------------------------------------
UsesOf(r) == {c \in Call : ranOn[c] = r}

\* One approval, one use: whichever calls look for the grant, however often they
\* poll, and across a restart.
OneUsePerApproval == \A r \in Request : Cardinality(UsesOf(r)) + active[r] <= 1

\* No call runs on a request the guardian did not approve, or for another tool.
RunsOnlyAsApproved ==
    \A c \in Call : ranOn[c] # None =>
        record[ranOn[c]] = "approved" /\ about[ranOn[c]] = ToolOf[c]

\* A grant is good for one call, and for what the guardian approved.
UsedAsApproved == OneUsePerApproval /\ RunsOnlyAsApproved

\* The guardian is never asked twice at once for the same thing.
AskedOnce ==
    \A r, q \in Request :
        (record[r] = "pending" /\ record[q] = "pending" /\ about[r] = about[q]) => r = q

\* While the daemon lives, a stamp that keeps the requester from being told to retry
\* has a call behind it that will pick the grant up.
StampHasWaiter ==
    crashes = 0 => \A r \in Request : stamp[r] = "fresh" => Waiters(r) # {}

\* Asking neither nags the guardian nor leaves the requester without an answer.
AskingIsSound == AskedOnce /\ StampHasWaiter

\* A call reports that no approval came in time for an approved request only when
\* another call used the grant, it ended or could not be minted, or the requester is
\* being told to retry.
ApprovedInTimeRuns ==
    [][\A c \in Call :
          (call[c] = "waiting" /\ call'[c] = "timed out" /\ record[waitsFor[c]] = "approved")
              => LET r == waitsFor[c]
                 IN  \/ UsesOf(r) # {}
                     \/ grant[r] = "lost" \/ (grant[r] = "minted" /\ active[r] = 0)
                     \/ r \in notifying]_vars

\* Every approval gets to its grant, also when the notice to the requester comes
\* first; only a crash or a failing store may lose it.
ApprovalYieldsGrant ==
    \A r \in Request : (record[r] = "approved") ~> (grant[r] # "none")
=============================================================================
