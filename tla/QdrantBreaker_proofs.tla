------------------------ MODULE QdrantBreaker_proofs ------------------------
(***************************************************************************)
(* Proofs about the circuit breaker, for any set of callers and any        *)
(* threshold.                                                              *)
(***************************************************************************)
EXTENDS QdrantBreaker, TLAPS

\* What is inductive: the breaker's state decides the count, and a half-open
\* breaker's probe is in flight.
IInv == TypeOK /\ ClosedBelowThreshold /\ HalfOpenHasProbe

LEMMA InitInv == Init => IInv
<1> SUFFICES ASSUME Init PROVE IInv
  OBVIOUS
<1>0. 0 \in 0..Threshold
  BY ThresholdAssumption
<1>1. TypeOK
  BY <1>0 DEF Init, TypeOK
<1>2. ClosedBelowThreshold /\ HalfOpenHasProbe
  BY ThresholdAssumption DEF Init, ClosedBelowThreshold, HalfOpenHasProbe
<1> QED
  BY <1>1, <1>2 DEF IInv

\* The count goes up by one, and stays at the threshold.
LEMMA FailuresType ==
    ASSUME failures \in 0..Threshold
    PROVE  FailuresNow \in 0..Threshold
  BY ThresholdAssumption DEF FailuresNow

LEMMA BeginInv == ASSUME IInv, NEW c \in Call, Begin(c) PROVE IInv'
<1> USE DEF IInv
<1>1. calls' \in [Call -> {"none", "call", "probe"}]
  BY DEF TypeOK, Begin
<1>2. breaker' \in {"closed", "open", "half-open"} /\ probing' \in BOOLEAN
  BY DEF TypeOK, Begin
<1>3. failures' \in 0..Threshold /\ cooled' \in BOOLEAN /\ up' \in BOOLEAN
  BY DEF TypeOK, Begin
<1>4. CASE LetsThrough /\ UNCHANGED <<breaker, probing, failures>>
  BY <1>1, <1>2, <1>3, <1>4
     DEF LetsThrough, TypeOK, ClosedBelowThreshold, HalfOpenHasProbe
<1>5. ASSUME LetsProbe, breaker' = "half-open", probing' = TRUE,
             failures' = failures, calls' = [calls EXCEPT ![c] = "probe"]
      PROVE  IInv'
  <2>1. breaker # "closed" /\ calls'[c] = "probe"
    BY <1>5 DEF LetsProbe, TypeOK
  <2> QED
    BY <1>1, <1>2, <1>3, <1>5, <2>1 DEF TypeOK, ClosedBelowThreshold, HalfOpenHasProbe
<1> QED
  BY <1>4, <1>5 DEF Begin

LEMMA SucceedInv == ASSUME IInv, NEW c \in Call, Succeed(c) PROVE IInv'
<1>0. 0 \in 0..Threshold
  BY ThresholdAssumption
<1>1. TypeOK'
  BY <1>0 DEF IInv, TypeOK, Succeed
<1>2. ClosedBelowThreshold' /\ HalfOpenHasProbe'
  BY ThresholdAssumption DEF ClosedBelowThreshold, HalfOpenHasProbe, Succeed
<1> QED
  BY <1>1, <1>2 DEF IInv

LEMMA FailInv == ASSUME IInv, NEW c \in Call, Fail(c) PROVE IInv'
<1>1. failures' \in 0..Threshold /\ calls' \in [Call -> {"none", "call", "probe"}]
  BY FailuresType DEF IInv, TypeOK, Fail
<1>2. /\ breaker' \in {"closed", "open", "half-open"}
      /\ cooled' \in BOOLEAN /\ probing' \in BOOLEAN /\ up' \in BOOLEAN
  BY DEF IInv, TypeOK, Fail
<1>3. CASE Opens(c)
  <2>1. breaker' = "open"
    BY <1>3 DEF Fail
  <2>2. FailuresNow >= Threshold
    \* a half-open breaker has the count that opened it
    <3>1. CASE breaker = "half-open"
      BY <3>1, ThresholdAssumption
         DEF IInv, TypeOK, ClosedBelowThreshold, FailuresNow
    <3> QED
      BY <1>3, <3>1 DEF Opens
  <2>3. ~(failures' < Threshold)
    BY <2>2, <1>1, ThresholdAssumption DEF Fail
  <2> QED
    BY <1>1, <1>2, <2>1, <2>3 DEF IInv, TypeOK, ClosedBelowThreshold, HalfOpenHasProbe
<1>4. CASE ~Opens(c)
  <2>1. breaker' = breaker /\ breaker # "half-open" /\ ~(FailuresNow >= Threshold)
    BY <1>4 DEF Fail, Opens
  <2>2. failures' < Threshold
    BY <2>1, <1>1, ThresholdAssumption DEF Fail
  <2>3. failures < Threshold
    BY <2>1, ThresholdAssumption DEF IInv, TypeOK, FailuresNow
  <2> QED
    BY <1>1, <1>2, <2>1, <2>2, <2>3
       DEF IInv, TypeOK, ClosedBelowThreshold, HalfOpenHasProbe
<1> QED
  BY <1>3, <1>4

LEMMA StepInv == IInv /\ [Next]_bvars => IInv'
<1> SUFFICES ASSUME IInv, [Next]_bvars PROVE IInv'
  OBVIOUS
<1>1. ASSUME NEW c \in Call, Begin(c) \/ Succeed(c) \/ Fail(c) PROVE IInv'
  BY <1>1, BeginInv, SucceedInv, FailInv
<1>2. CASE CoolDown
  BY <1>2, SMT DEF IInv, TypeOK, ClosedBelowThreshold, HalfOpenHasProbe, CoolDown
<1>3. CASE Toggle
  BY <1>3, SMT DEF IInv, TypeOK, ClosedBelowThreshold, HalfOpenHasProbe, Toggle
<1>4. CASE UNCHANGED bvars
  BY <1>4, SMT DEF IInv, TypeOK, ClosedBelowThreshold, HalfOpenHasProbe, bvars
<1> QED
  BY <1>1, <1>2, <1>3, <1>4 DEF Next

LEMMA Invariant == Spec => []IInv
  BY InitInv, StepInv, PTL DEF Spec

\* The breaker's state is well formed whatever the calls do.
THEOREM TypeCorrect == Spec => []TypeOK
  BY Invariant, PTL DEF IInv

\* A half-open breaker always has the probe that will decide it, so it never
\* refuses everybody for good.
THEOREM HalfOpenHasProbeHolds == Spec => []HalfOpenHasProbe
  BY Invariant, PTL DEF IInv

\* The breaker is closed exactly while the count is below the threshold, however
\* late the calls of an earlier period answer.
THEOREM ClosedBelowThresholdHolds == Spec => []ClosedBelowThreshold
  BY Invariant, PTL DEF IInv

=============================================================================
