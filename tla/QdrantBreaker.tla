--------------------------- MODULE QdrantBreaker ---------------------------
(***************************************************************************)
(* The circuit breaker every Qdrant operation goes through                 *)
(* (withQdrantBreaker).  A call decides synchronously whether it is let    *)
(* through and records its outcome when Qdrant answers, in any order: a    *)
(* call let through while the breaker was closed may answer after the      *)
(* breaker opened, cooled down and let a probe through.                    *)
(***************************************************************************)
EXTENDS Naturals, FiniteSets

CONSTANTS
    Call,       \* the callers that may be in a Qdrant operation at once
    Threshold   \* FAILURE_THRESHOLD

ASSUME ThresholdAssumption == Threshold \in Nat \ {0}

VARIABLES
    breaker,    \* breakerState
    failures,   \* consecutiveFailures, which stops mattering at Threshold
    cooled,     \* COOLDOWN_MS have passed since openedAt
    probing,    \* halfOpenProbeInFlight
    calls,      \* what each caller is doing
    up          \* Qdrant answers (external)

bvars == <<breaker, failures, cooled, probing, calls, up>>

TypeOK ==
    /\ breaker \in {"closed", "open", "half-open"}
    /\ failures \in 0..Threshold
    /\ cooled \in BOOLEAN
    /\ probing \in BOOLEAN
    /\ calls \in [Call -> {"none", "call", "probe"}]
    /\ up \in BOOLEAN

Init ==
    /\ breaker = "closed"
    /\ failures = 0
    /\ cooled = FALSE
    /\ probing = FALSE
    /\ calls = [c \in Call |-> "none"]
    /\ up \in BOOLEAN

-----------------------------------------------------------------------------
\* allows() returns true, as a plain call or as a probe.
LetsThrough == breaker = "closed"
LetsProbe_OnlyHalfOpen == breaker = "half-open" /\ ~probing
LetsProbe == (breaker = "open" /\ cooled) \/ (breaker = "half-open" /\ ~probing)

\* The call is let through.
Begin(c) ==
    /\ calls[c] = "none"
    /\ \/ /\ LetsThrough
          /\ calls' = [calls EXCEPT ![c] = "call"]
          /\ UNCHANGED <<breaker, probing>>
       \/ /\ LetsProbe
          /\ calls' = [calls EXCEPT ![c] = "probe"]
          /\ breaker' = "half-open"
          /\ probing' = TRUE
    /\ UNCHANGED <<failures, cooled, up>>

\* The call would throw QdrantCircuitOpenError.
Refuses == ~LetsThrough /\ ~LetsProbe

\* recordSuccess
Succeed(c) ==
    /\ calls[c] # "none"
    /\ up
    /\ calls' = [calls EXCEPT ![c] = "none"]
    /\ breaker' = "closed"
    /\ failures' = 0
    /\ cooled' = FALSE
    /\ probing' = FALSE
    /\ UNCHANGED up

\* The count after one more failure, and whether that opens the breaker.
FailuresNow == IF failures < Threshold THEN failures + 1 ELSE Threshold

Opens_OffByOne(c) == FailuresNow > Threshold \/ breaker = "half-open"
Opens_ProbeOnly(c) ==
    IF breaker = "half-open" THEN calls[c] = "probe" ELSE FailuresNow >= Threshold
Opens(c) == FailuresNow >= Threshold \/ breaker = "half-open"

\* recordFailure
Fail(c) ==
    /\ calls[c] # "none"
    /\ ~up
    /\ calls' = [calls EXCEPT ![c] = "none"]
    /\ failures' = FailuresNow
    /\ probing' = FALSE
    /\ IF Opens(c)
       THEN breaker' = "open" /\ cooled' = FALSE
       ELSE UNCHANGED <<breaker, cooled>>
    /\ UNCHANGED up

CoolDown ==
    /\ breaker = "open" /\ ~cooled
    /\ cooled' = TRUE
    /\ UNCHANGED <<breaker, failures, probing, calls, up>>

\* Qdrant goes down or comes back.
Toggle ==
    /\ up' = ~up
    /\ UNCHANGED <<breaker, failures, cooled, probing, calls>>

Next ==
    \/ \E c \in Call : Begin(c) \/ Succeed(c) \/ Fail(c)
    \/ CoolDown \/ Toggle

Spec == Init /\ [][Next]_bvars

\* Callers keep coming, Qdrant answers or times out, and time passes.
Fairness ==
    /\ WF_bvars(CoolDown)
    /\ \A c \in Call : SF_bvars(Begin(c)) /\ WF_bvars(Succeed(c) \/ Fail(c))

FairSpec == Spec /\ Fairness
-----------------------------------------------------------------------------
\* A half-open breaker refuses every call until its probe answers, so there must
\* be one: otherwise Qdrant would stay disabled for good.
HalfOpenHasProbe ==
    breaker = "half-open" => probing /\ \E c \in Call : calls[c] = "probe"

\* The breaker is closed exactly while fewer than Threshold calls in a row
\* failed, whatever the order in which concurrent calls answer: only a success
\* closes it, and the re-opening of a failed probe needs no count of its own.
ClosedBelowThreshold == breaker = "closed" <=> failures < Threshold

\* When Qdrant is back for good, the breaker closes for good.
SelfHeals == <>[]up => <>[](breaker = "closed")
=============================================================================
