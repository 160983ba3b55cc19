-------------------------- MODULE ToolGrants_proofs --------------------------
(***************************************************************************)
(* The safety properties of ToolGrants and the action property that an     *)
(* approval in time is not lost on the call that waits for it, for any     *)
(* calls, requests and tools and any number of crashes.                    *)
(***************************************************************************)
EXTENDS ToolGrants, FiniteSetTheorems, TLAPS

\* Nothing comes of a request before it is approved and its grant minted.
NothingBeforeTheMint ==
    /\ notifying \subseteq {r \in Request : record[r] = "approved"}
    /\ \A r \in Request : (record[r] # "approved" \/ r \in notifying) =>
          active[r] = 0 /\ \A c \in Call : ranOn[c] # r

\* OneUsePerApproval without counting: a grant that can be used has not been, and no
\* two calls used one.
OneUse ==
    \A r \in Request :
        /\ active[r] \in {0, 1}
        /\ active[r] = 1 => \A c \in Call : ranOn[c] # r
        /\ \A c, d \in Call : ranOn[c] = r /\ ranOn[d] = r => c = d

\* What a grant was used for is what the request was about.
RanAsAsked == \A c \in Call : ranOn[c] # None => about[ranOn[c]] = ToolOf[c]

\* A waiting call has a request, which is on record.
WaitsForRequest ==
    \A c \in Call : call[c] = "waiting" => waitsFor[c] \in Request

IInv ==
    /\ TypeOK
    /\ NothingBeforeTheMint /\ OneUse /\ RanAsAsked
    /\ AskedOnce
    /\ WaitsForRequest /\ StampHasWaiter
-----------------------------------------------------------------------------
LEMMA InitInv == Init => IInv
<1> SUFFICES ASSUME Init PROVE IInv
  OBVIOUS
<1>1. TypeOK
  <2>1. 0 \in 0..MaxCrashes
    BY BoundsAssumption
  <2>2. (CHOOSE t \in Tool : TRUE) \in Tool
    BY ToolAssumption
  <2>. QED BY <2>1, <2>2 DEF Init, TypeOK
<1>. QED
  BY <1>1, NoneAssumption DEF Init, IInv, NothingBeforeTheMint, OneUse, RanAsAsked,
     AskedOnce, WaitsForRequest, StampHasWaiter
-----------------------------------------------------------------------------
(* A call looks for a grant *)

\* Consuming: the one use is now the call's, and the grant is gone.
LEMMA ConsumeInv ==
    ASSUME IInv, NEW c \in Call, NEW r \in Request, Consume(c, r),
           UNCHANGED <<record, about, notifying>>
    PROVE  /\ NothingBeforeTheMint' /\ OneUse' /\ RanAsAsked'
           /\ active' \in [Request -> Nat]
<1>1. /\ about[r] = ToolOf[c] /\ active[r] = 1
      /\ active' = [active EXCEPT ![r] = 0] /\ ranOn' = [ranOn EXCEPT ![c] = r]
  <2>1. about[r] = ToolOf[c] /\ active[r] > 0
    BY DEF Consume, Grants
  <2>2. active[r] = 1
    BY <2>1 DEF IInv, OneUse
  <2>3. active' = [active EXCEPT ![r] = active[r] - 1] /\ ranOn' = [ranOn EXCEPT ![c] = r]
    BY DEF Consume, Used
  <2>. QED BY <2>1, <2>2, <2>3
<1>2. record[r] = "approved" /\ r \notin notifying /\ \A d \in Call : ranOn[d] # r
  BY <1>1 DEF IInv, OneUse, NothingBeforeTheMint
<1>3. NothingBeforeTheMint'
  BY <1>1, <1>2 DEF IInv, TypeOK, NothingBeforeTheMint
<1>4. OneUse'
  BY <1>1, <1>2 DEF IInv, TypeOK, OneUse
<1>5. RanAsAsked'
  BY <1>1 DEF IInv, TypeOK, RanAsAsked
<1>6. active' \in [Request -> Nat]
  BY <1>1 DEF IInv, TypeOK
<1>. QED BY <1>3, <1>4, <1>5, <1>6

\* A stamp set by a call that waits, or cleared by one that stops waiting.
LEMMA WaitsInv ==
    ASSUME IInv, NEW c \in Call, NEW r \in Request, Waits(c, r),
           call[c] = "none", UNCHANGED crashes
    PROVE  WaitsForRequest' /\ StampHasWaiter'
<1>1. WaitsForRequest'
  BY DEF Waits, IInv, TypeOK, WaitsForRequest
<1>2. ASSUME crashes = 0, NEW q \in Request, stamp'[q] = "fresh"
      PROVE  \E d \in Call : call'[d] = "waiting" /\ waitsFor'[d] = q
  <2>1. CASE q = r BY <2>1 DEF Waits, IInv, TypeOK
  <2>2. CASE q # r
    <3>1. PICK d \in Call : call[d] = "waiting" /\ waitsFor[d] = q
      BY <1>2, <2>2 DEF Waits, IInv, TypeOK, StampHasWaiter, Waiters
    <3>. QED BY <2>2, <3>1 DEF Waits, IInv, TypeOK
  <2>. QED BY <2>1, <2>2
<1>. QED BY <1>1, <1>2 DEF StampHasWaiter, Waiters

LEMMA LeavesInv ==
    ASSUME IInv, NEW c \in Call, NEW outcome \in Outcomes, call[c] = "waiting",
           Leaves(c, outcome), call' = [call EXCEPT ![c] = outcome]
    PROVE  /\ WaitsForRequest' /\ StampHasWaiter'
           /\ stamp' \in [Request -> {"none", "fresh", "stale"}]
<1>1. /\ waitsFor[c] \in Request /\ stamp' = [stamp EXCEPT ![waitsFor[c]] = "none"]
      /\ UNCHANGED <<waitsFor, crashes>>
  BY DEF Leaves, Cleared, IInv, WaitsForRequest
<1>2. WaitsForRequest'
  BY <1>1 DEF IInv, TypeOK, WaitsForRequest, Outcomes
<1>3. ASSUME crashes = 0, NEW q \in Request, stamp'[q] = "fresh"
      PROVE  \E d \in Call : call'[d] = "waiting" /\ waitsFor'[d] = q
  <2>1. q # waitsFor[c] /\ stamp[q] = "fresh"
    BY <1>1, <1>3 DEF IInv, TypeOK
  <2>2. PICK d \in Call : call[d] = "waiting" /\ waitsFor[d] = q
    BY <1>3, <2>1 DEF IInv, StampHasWaiter, Waiters
  <2>. QED BY <1>1, <2>1, <2>2 DEF IInv, TypeOK
<1>4. stamp' \in [Request -> {"none", "fresh", "stale"}]
  BY <1>1 DEF IInv, TypeOK
<1>. QED BY <1>1, <1>2, <1>3, <1>4 DEF StampHasWaiter, Waiters

\* A call that was not waiting and does not wait now moves no stamp's waiter.
LEMMA AsideInv ==
    ASSUME IInv, NEW c \in Call, NEW outcome \in Outcomes, call[c] = "none",
           call' = [call EXCEPT ![c] = outcome], UNCHANGED <<waitsFor, stamp, crashes>>
    PROVE  WaitsForRequest' /\ StampHasWaiter'
<1>1. WaitsForRequest'
  BY DEF IInv, TypeOK, WaitsForRequest, Outcomes
<1>2. ASSUME crashes = 0, NEW q \in Request, stamp'[q] = "fresh"
      PROVE  \E d \in Call : call'[d] = "waiting" /\ waitsFor'[d] = q
  <2>1. PICK d \in Call : call[d] = "waiting" /\ waitsFor[d] = q
    BY <1>2 DEF IInv, StampHasWaiter, Waiters
  <2>. QED BY <2>1 DEF IInv, TypeOK
<1>. QED BY <1>1, <1>2 DEF StampHasWaiter, Waiters
-----------------------------------------------------------------------------
LEMMA InvokeInv == ASSUME IInv, NEW c \in Call, Invoke(c) PROVE IInv'
<1>1. PICK r \in Request : Consume(c, r)
  BY DEF Invoke
<1>2. /\ NothingBeforeTheMint' /\ OneUse' /\ RanAsAsked'
      /\ active' \in [Request -> Nat]
  BY <1>1, ConsumeInv DEF Invoke, requestVars
<1>3. WaitsForRequest' /\ StampHasWaiter'
  BY <1>1, AsideInv DEF Invoke, Consume, requestVars, Outcomes
<1>4. TypeOK'
  BY <1>1, <1>2 DEF Invoke, Consume, IInv, TypeOK, requestVars, Outcomes
<1>5. AskedOnce'
  BY DEF Invoke, IInv, AskedOnce, requestVars
<1>. QED BY <1>2, <1>3, <1>4, <1>5 DEF IInv

LEMMA TurnedAwayInv == ASSUME IInv, NEW c \in Call, Refuse(c) \/ Collide(c) PROVE IInv'
<1>1. PICK outcome \in Outcomes :
        /\ call[c] = "none" /\ call' = [call EXCEPT ![c] = outcome]
        /\ UNCHANGED <<waitsFor, ranOn, requestVars, grantVars, crashes>>
  BY DEF Refuse, Collide, Outcomes
<1>2. WaitsForRequest' /\ StampHasWaiter'
  BY <1>1, AsideInv DEF requestVars
<1>3. TypeOK'
  BY <1>1 DEF IInv, TypeOK, requestVars, grantVars
<1>4. NothingBeforeTheMint' /\ OneUse' /\ RanAsAsked' /\ AskedOnce'
  BY <1>1 DEF IInv, NothingBeforeTheMint, OneUse, RanAsAsked, AskedOnce, requestVars, grantVars
<1>. QED BY <1>2, <1>3, <1>4 DEF IInv

LEMMA JoinInv == ASSUME IInv, NEW c \in Call, Join(c) PROVE IInv'
<1>1. PICK r \in Request : Waits(c, r) /\ call[c] = "none"
  BY DEF Join, Pending
<1>2. WaitsForRequest' /\ StampHasWaiter'
  BY <1>1, WaitsInv DEF Join
<1>3. TypeOK'
  BY <1>1 DEF Join, Waits, IInv, TypeOK, grantVars
<1>4. NothingBeforeTheMint' /\ OneUse' /\ RanAsAsked' /\ AskedOnce'
  BY DEF Join, IInv, NothingBeforeTheMint, OneUse, RanAsAsked, AskedOnce, grantVars
<1>. QED BY <1>2, <1>3, <1>4 DEF IInv

LEMMA FileInv == ASSUME IInv, NEW c \in Call, NEW r \in Request, File(c, r) PROVE IInv'
<1>1. WaitsForRequest' /\ StampHasWaiter'
  BY WaitsInv DEF File
<1>2. TypeOK'
  BY ToolAssumption DEF File, Waits, IInv, TypeOK, grantVars
<1>3. NothingBeforeTheMint' /\ OneUse'
  BY DEF File, IInv, TypeOK, NothingBeforeTheMint, OneUse, grantVars
<1>4. RanAsAsked'
  <2>1. \A d \in Call : ranOn[d] # r
    BY DEF File, IInv, NothingBeforeTheMint
  <2>. QED BY <2>1 DEF File, IInv, TypeOK, RanAsAsked, grantVars
<1>5. AskedOnce'
  <2>1. \A q \in Request : ~(record[q] = "pending" /\ about[q] = ToolOf[c])
    BY DEF File, MayFile, Pending
  <2>. QED BY <2>1, ToolAssumption DEF File, IInv, TypeOK, AskedOnce
<1>. QED BY <1>1, <1>2, <1>3, <1>4, <1>5 DEF IInv

LEMMA PollGrantedInv == ASSUME IInv, NEW c \in Call, PollGranted(c) PROVE IInv'
<1>1. PICK r \in Request : Consume(c, r)
  BY DEF PollGranted
<1>2. /\ call' = [call EXCEPT ![c] = "ran"] /\ "ran" \in Outcomes
      /\ call[c] = "waiting" /\ Leaves(c, "ran")
  BY <1>1 DEF PollGranted, Consume, Outcomes
<1>3. /\ WaitsForRequest' /\ StampHasWaiter'
      /\ stamp' \in [Request -> {"none", "fresh", "stale"}]
  BY <1>2, LeavesInv
<1>4. /\ NothingBeforeTheMint' /\ OneUse' /\ RanAsAsked'
      /\ active' \in [Request -> Nat]
  BY <1>1, <1>2, ConsumeInv DEF Leaves
<1>5. TypeOK'
  BY <1>1, <1>2, <1>3, <1>4 DEF Consume, Leaves, IInv, TypeOK, Outcomes
<1>6. AskedOnce'
  BY <1>2 DEF Leaves, IInv, AskedOnce
<1>. QED BY <1>3, <1>4, <1>5, <1>6 DEF IInv

LEMMA EndsInv ==
    ASSUME IInv, NEW c \in Call, PollRejected(c) \/ GivesUp(c) \/ Cancel(c)
    PROVE  IInv'
<1>1. PICK outcome \in Outcomes : call[c] = "waiting" /\ Ends(c, outcome)
  BY DEF PollRejected, Rejected, GivesUp, PolledInVain, Cancel, Outcomes
<1>2. /\ WaitsForRequest' /\ StampHasWaiter'
      /\ stamp' \in [Request -> {"none", "fresh", "stale"}]
  BY <1>1, LeavesInv DEF Ends
<1>3. TypeOK'
  BY <1>1, <1>2 DEF Ends, Leaves, IInv, TypeOK
<1>4. NothingBeforeTheMint' /\ OneUse' /\ RanAsAsked' /\ AskedOnce'
  BY <1>1 DEF Ends, Leaves, IInv, NothingBeforeTheMint, OneUse, RanAsAsked, AskedOnce
<1>. QED BY <1>2, <1>3, <1>4 DEF IInv
-----------------------------------------------------------------------------
(* The guardian, time and the restart *)

LEMMA DenyInv == ASSUME IInv, NEW r \in Request, Deny(r) PROVE IInv'
<1>1. record[r] = "pending" /\ record' = [record EXCEPT ![r] = "denied"]
  BY DEF Deny, MayDecide
<1>2. TypeOK'
  BY DEF Deny, IInv, TypeOK, callVars, grantVars
<1>3. NothingBeforeTheMint' /\ OneUse' /\ RanAsAsked' /\ AskedOnce'
  BY <1>1 DEF Deny, IInv, TypeOK, NothingBeforeTheMint, OneUse, RanAsAsked, AskedOnce,
     callVars, grantVars
<1>4. WaitsForRequest' /\ StampHasWaiter'
  BY DEF Deny, IInv, WaitsForRequest, StampHasWaiter, Waiters, callVars
<1>. QED BY <1>2, <1>3, <1>4 DEF IInv

\* Minting: for a request of which nothing came so far.
LEMMA MintFacts ==
    ASSUME IInv, NEW r \in Request, Mint(r), active[r] = 0
    PROVE  /\ active' \in [Request -> Nat] /\ active'[r] \in {0, 1}
           /\ \A q \in Request : q # r => active'[q] = active[q]
           /\ grant' \in [Request -> {"none", "minted", "lost"}]
  BY DEF Mint, IInv, TypeOK

LEMMA ApproveInv == ASSUME IInv, NEW r \in Request, Approve(r) PROVE IInv'
<1>1. /\ record[r] = "pending" /\ record' = [record EXCEPT ![r] = "approved"]
      /\ active[r] = 0 /\ \A c \in Call : ranOn[c] # r
      /\ UNCHANGED <<callVars, about, late, stamp, sameMs, crashes>>
  BY DEF Approve, MayDecide, IInv, NothingBeforeTheMint
<1>2. WaitsForRequest' /\ StampHasWaiter'
  BY <1>1 DEF IInv, WaitsForRequest, StampHasWaiter, Waiters, callVars
<1>3. RanAsAsked' /\ AskedOnce'
  BY <1>1 DEF IInv, TypeOK, RanAsAsked, AskedOnce, callVars
<1>4. CASE stamp[r] = "fresh"
  <2>1. Mint(r) /\ UNCHANGED notifying
    BY <1>4 DEF Approve
  <2>2. /\ active' \in [Request -> Nat] /\ active'[r] \in {0, 1}
        /\ \A q \in Request : q # r => active'[q] = active[q]
        /\ grant' \in [Request -> {"none", "minted", "lost"}]
    BY <1>1, <2>1, MintFacts
  <2>3. TypeOK'
    BY <1>1, <2>1, <2>2 DEF IInv, TypeOK, callVars
  <2>4. NothingBeforeTheMint'
    BY <1>1, <2>1, <2>2 DEF IInv, TypeOK, NothingBeforeTheMint, callVars
  <2>5. OneUse'
    BY <1>1, <2>2 DEF IInv, OneUse, callVars
  <2>. QED BY <1>2, <1>3, <2>3, <2>4, <2>5 DEF IInv
<1>5. CASE stamp[r] # "fresh"
  <2>1. notifying' = notifying \cup {r} /\ UNCHANGED <<active, grant>>
    BY <1>5 DEF Approve
  <2>2. TypeOK'
    BY <1>1, <2>1 DEF IInv, TypeOK, callVars
  <2>3. NothingBeforeTheMint' /\ OneUse'
    BY <1>1, <2>1 DEF IInv, TypeOK, NothingBeforeTheMint, OneUse, callVars
  <2>. QED BY <1>2, <1>3, <2>2, <2>3 DEF IInv
<1>. QED BY <1>4, <1>5

LEMMA NotifiedInv == ASSUME IInv, NEW r \in Request, Notified(r) PROVE IInv'
<1>1. /\ active[r] = 0 /\ \A c \in Call : ranOn[c] # r
      /\ record[r] = "approved" /\ notifying' = notifying \ {r}
      /\ UNCHANGED <<callVars, requestVars, crashes>>
  BY DEF Notified, IInv, NothingBeforeTheMint
<1>2. /\ active' \in [Request -> Nat] /\ active'[r] \in {0, 1}
      /\ \A q \in Request : q # r => active'[q] = active[q]
      /\ grant' \in [Request -> {"none", "minted", "lost"}]
  BY <1>1, MintFacts DEF Notified
<1>3. TypeOK'
  BY <1>1, <1>2 DEF IInv, TypeOK, callVars, requestVars
<1>4. NothingBeforeTheMint'
  BY <1>1, <1>2 DEF IInv, TypeOK, NothingBeforeTheMint, callVars, requestVars
<1>5. OneUse'
  BY <1>1, <1>2 DEF IInv, OneUse, callVars
<1>6. RanAsAsked' /\ AskedOnce' /\ WaitsForRequest' /\ StampHasWaiter'
  BY <1>1 DEF IInv, RanAsAsked, AskedOnce, WaitsForRequest, StampHasWaiter, Waiters,
     callVars, requestVars
<1>. QED BY <1>3, <1>4, <1>5, <1>6 DEF IInv

LEMMA GrantEndsInv == ASSUME IInv, NEW r \in Request, GrantEnds(r) PROVE IInv'
<1>1. TypeOK'
  BY DEF GrantEnds, IInv, TypeOK, callVars, requestVars
<1>2. NothingBeforeTheMint' /\ OneUse'
  BY DEF GrantEnds, IInv, TypeOK, NothingBeforeTheMint, OneUse, callVars, requestVars
<1>3. RanAsAsked' /\ AskedOnce' /\ WaitsForRequest' /\ StampHasWaiter'
  BY DEF GrantEnds, IInv, RanAsAsked, AskedOnce, WaitsForRequest, StampHasWaiter, Waiters,
     callVars, requestVars
<1>. QED BY <1>1, <1>2, <1>3 DEF IInv

\* The passing of time changes deadlines, stamps nobody waits behind, and pending
\* requests that expire.
LEMMA TimeInv ==
    ASSUME IInv, NEW r \in Request, Lapse(r) \/ Expire(r) \/ GoesStale(r)
    PROVE  IInv'
<1>1. CASE Lapse(r)
  <2>1. TypeOK'
    BY <1>1 DEF Lapse, IInv, TypeOK, callVars, grantVars
  <2>. QED
    BY <1>1, <2>1 DEF Lapse, IInv, NothingBeforeTheMint, OneUse, RanAsAsked,
       AskedOnce, WaitsForRequest, StampHasWaiter, Waiters, callVars, grantVars
<1>2. CASE Expire(r)
  <2>1. TypeOK'
    BY <1>2 DEF Expire, IInv, TypeOK, callVars, grantVars
  <2>2. NothingBeforeTheMint' /\ AskedOnce'
    BY <1>2 DEF Expire, IInv, TypeOK, NothingBeforeTheMint, AskedOnce, callVars, grantVars
  <2>3. OneUse' /\ RanAsAsked' /\ WaitsForRequest' /\ StampHasWaiter'
    BY <1>2 DEF Expire, IInv, OneUse, RanAsAsked, WaitsForRequest, StampHasWaiter, Waiters,
       callVars, grantVars
  <2>. QED BY <2>1, <2>2, <2>3 DEF IInv
<1>3. CASE GoesStale(r)
  <2>1. TypeOK'
    BY <1>3 DEF GoesStale, IInv, TypeOK, callVars, grantVars
  <2>2. StampHasWaiter'
    BY <1>3 DEF GoesStale, IInv, TypeOK, StampHasWaiter, Waiters, callVars
  <2>. QED
    BY <1>3, <2>1, <2>2 DEF GoesStale, IInv, NothingBeforeTheMint, OneUse, RanAsAsked,
       AskedOnce, WaitsForRequest, callVars, grantVars
<1>. QED BY <1>1, <1>2, <1>3

LEMMA CrashInv == ASSUME IInv, Crash PROVE IInv'
<1>1. TypeOK'
  <2>1. crashes' \in 0..MaxCrashes
    BY BoundsAssumption DEF Crash, IInv, TypeOK
  <2>. QED BY <2>1 DEF Crash, IInv, TypeOK, Outcomes
<1>2. NothingBeforeTheMint' /\ OneUse' /\ RanAsAsked'
  BY DEF Crash, IInv, TypeOK, NothingBeforeTheMint, OneUse, RanAsAsked
<1>3. AskedOnce'
  BY DEF Crash, IInv, AskedOnce
<1>4. WaitsForRequest'
  BY DEF Crash, IInv, WaitsForRequest
<1>5. StampHasWaiter'
  <2>1. crashes' # 0
    BY BoundsAssumption DEF Crash, IInv, TypeOK
  <2>. QED BY <2>1 DEF StampHasWaiter
<1>. QED BY <1>1, <1>2, <1>3, <1>4, <1>5 DEF IInv
-----------------------------------------------------------------------------
LEMMA NextInv == IInv /\ [Next]_vars => IInv'
<1> SUFFICES ASSUME IInv, [Next]_vars PROVE IInv'
  OBVIOUS
<1>1. ASSUME NEW c \in Call,
             \/ Invoke(c) \/ Refuse(c) \/ Join(c) \/ Collide(c)
             \/ \E r \in Request : File(c, r)
             \/ PollRejected(c) \/ PollGranted(c) \/ GivesUp(c) \/ Cancel(c)
      PROVE  IInv'
  BY <1>1, InvokeInv, TurnedAwayInv, JoinInv, FileInv, PollGrantedInv, EndsInv
<1>2. ASSUME NEW r \in Request,
             \/ Deny(r) \/ Approve(r) \/ Notified(r) \/ GrantEnds(r)
             \/ Lapse(r) \/ Expire(r) \/ GoesStale(r)
      PROVE  IInv'
  BY <1>2, DenyInv, ApproveInv, NotifiedInv, GrantEndsInv, TimeInv
<1>3. CASE NextMs
  <2>1. TypeOK'
    BY <1>3 DEF NextMs, IInv, TypeOK, callVars, grantVars
  <2>. QED
    BY <1>3, <2>1 DEF NextMs, IInv, NothingBeforeTheMint, OneUse, RanAsAsked,
       AskedOnce, WaitsForRequest, StampHasWaiter, Waiters, callVars, grantVars
<1>4. CASE UNCHANGED vars
  BY <1>4 DEF vars, callVars, requestVars, grantVars, IInv, TypeOK, NothingBeforeTheMint,
     OneUse, RanAsAsked, AskedOnce, WaitsForRequest, StampHasWaiter, Waiters
<1>. QED BY <1>1, <1>2, <1>3, <1>4, CrashInv DEF Next

\* Types hold.
THEOREM TypeCorrect == Spec => []TypeOK
<1>1. IInv => TypeOK
  BY DEF IInv
<1>. QED BY <1>1, InitInv, NextInv, PTL DEF Spec

\* Counting the uses of a grant: none, or the one.
LEMMA UsesCounted == IInv => OneUsePerApproval
<1> SUFFICES ASSUME IInv, NEW r \in Request
             PROVE  Cardinality(UsesOf(r)) + active[r] <= 1
  BY DEF OneUsePerApproval
<1>1. active[r] \in {0, 1}
  BY DEF IInv, OneUse
<1>2. CASE UsesOf(r) = {}
  BY <1>1, <1>2, FS_EmptySet
<1>3. CASE UsesOf(r) # {}
  <2>1. PICK c \in Call : UsesOf(r) = {c}
    BY <1>3 DEF UsesOf, IInv, OneUse
  <2>2. active[r] = 0
    BY <1>1, <1>3 DEF UsesOf, IInv, OneUse
  <2>3. Cardinality({c}) = 1
    BY FS_Singleton
  <2>. QED BY <2>1, <2>2, <2>3
<1>. QED BY <1>2, <1>3

\* What the guardian grants is used as asked: one use for each approval, by a call for
\* the tool the request was about, on a request that was approved.
THEOREM GrantsAreBound == Spec => []UsedAsApproved
<1>1. IInv => RunsOnlyAsApproved
  <2> SUFFICES ASSUME IInv, NEW c \in Call, ranOn[c] # None
               PROVE  record[ranOn[c]] = "approved" /\ about[ranOn[c]] = ToolOf[c]
    BY DEF RunsOnlyAsApproved
  <2>1. ranOn[c] \in Request
    BY DEF IInv, TypeOK
  <2>. QED BY <2>1 DEF IInv, NothingBeforeTheMint, RanAsAsked
<1>2. IInv => UsedAsApproved
  BY <1>1, UsesCounted DEF UsedAsApproved
<1>. QED BY <1>2, InitInv, NextInv, PTL DEF Spec

\* The guardian is asked once, and the stamp that silences the retry notice has a call
\* behind it while the daemon lives.
THEOREM AsksSoundly == Spec => []AskingIsSound
<1>1. IInv => AskingIsSound
  BY DEF IInv, AskingIsSound
<1>. QED BY <1>1, InitInv, NextInv, PTL DEF Spec
-----------------------------------------------------------------------------
(* A call that gives up *)

\* A waiting call waits for a request on record that asks for what it needs.
WaitsAsAsked ==
    \A c \in Call : call[c] = "waiting" =>
        record[waitsFor[c]] # "absent" /\ about[waitsFor[c]] = ToolOf[c]

\* An approval whose notice is delivered has its grant, or lost it.
ApprovalOnItsWay ==
    \A r \in Request : record[r] = "approved" => r \in notifying \/ grant[r] # "none"

\* A request on record stays on record, about what it was filed for.
LEMMA RecordStays ==
    ASSUME IInv, [Next]_vars, NEW r \in Request, record[r] # "absent"
    PROVE  record'[r] # "absent" /\ about'[r] = about[r]
<1>0. record \in [Request -> {"absent", "pending", "approved", "denied", "expired"}]
  BY DEF IInv, TypeOK
<1>1. ASSUME NEW c \in Call, NEW q \in Request, File(c, q)
      PROVE  record'[r] # "absent" /\ about'[r] = about[r]
  <2>1. r # q
    BY <1>1 DEF File
  <2>2. record'[r] = record[r] /\ about'[r] = about[r]
    BY <1>1, <2>1 DEF File, IInv, TypeOK
  <2>. QED BY <2>2
<1>2. ASSUME NEW q \in Request, Deny(q) \/ Approve(q) \/ Expire(q)
      PROVE  record'[r] # "absent" /\ about'[r] = about[r]
  <2>1. about' = about /\ \E st \in {"denied", "approved", "expired"} : record' = [record EXCEPT ![q] = st]
    BY <1>2 DEF Deny, Approve, Expire
  <2>. QED BY <1>0, <2>1
<1>3. ASSUME NEW c \in Call, PollGranted(c) \/ PollRejected(c) \/ GivesUp(c) \/ Cancel(c)
      PROVE  UNCHANGED <<record, about>>
  BY <1>3 DEF PollGranted, PollRejected, GivesUp, Cancel, Ends, Leaves
<1>4. ASSUME NEW c \in Call, Invoke(c) \/ Refuse(c) \/ Join(c) \/ Collide(c)
      PROVE  UNCHANGED <<record, about>>
  BY <1>4 DEF Invoke, Refuse, Join, Collide, requestVars
<1>5. ASSUME NEW q \in Request, Notified(q) \/ GrantEnds(q) \/ Lapse(q) \/ GoesStale(q)
      PROVE  UNCHANGED <<record, about>>
  BY <1>5 DEF Notified, GrantEnds, Lapse, GoesStale, requestVars
<1>6. CASE NextMs \/ UNCHANGED vars
  BY <1>6 DEF NextMs, vars, requestVars
<1>7. CASE Crash
  BY <1>0, <1>7 DEF Crash
<1>. QED BY <1>1, <1>2, <1>3, <1>4, <1>5, <1>6, <1>7 DEF Next

\* A call begins to wait for the request it joins or files, and for no other after.
LEMMA NextWaitsAsAsked == IInv /\ WaitsAsAsked /\ [Next]_vars => WaitsAsAsked'
<1>. SUFFICES ASSUME IInv, WaitsAsAsked, [Next]_vars, NEW c \in Call, call'[c] = "waiting"
              PROVE  record'[waitsFor'[c]] # "absent" /\ about'[waitsFor'[c]] = ToolOf[c]
  BY DEF WaitsAsAsked
<1>0. TypeOK /\ WaitsForRequest
  BY DEF IInv
<1>1. CASE call[c] = "waiting" /\ waitsFor'[c] = waitsFor[c]
  <2>1. waitsFor[c] \in Request /\ record[waitsFor[c]] # "absent" /\ about[waitsFor[c]] = ToolOf[c]
    BY <1>0, <1>1 DEF WaitsForRequest, WaitsAsAsked
  <2>. QED BY <1>1, <2>1, RecordStays
<1>2. ASSUME NEW d \in Call, Invoke(d) \/ Refuse(d) \/ Collide(d)
      PROVE  call[c] = "waiting" /\ waitsFor'[c] = waitsFor[c]
  BY <1>0, <1>2 DEF Invoke, Consume, Refuse, Collide, TypeOK
<1>3. ASSUME NEW d \in Call, Join(d)
      PROVE  \/ call[c] = "waiting" /\ waitsFor'[c] = waitsFor[c]
             \/ record'[waitsFor'[c]] # "absent" /\ about'[waitsFor'[c]] = ToolOf[c]
  <2>1. PICK r \in Pending(d) : Waits(d, r)
    BY <1>3 DEF Join
  <2>2. r \in Request /\ record[r] = "pending" /\ about[r] = ToolOf[d]
    BY DEF Pending
  <2>3. record' = record /\ about' = about
    BY <1>3 DEF Join
  <2>4. c = d => waitsFor'[c] = r
    BY <1>0, <2>1 DEF Waits, TypeOK
  <2>5. c # d => call'[c] = call[c] /\ waitsFor'[c] = waitsFor[c]
    BY <1>0, <2>1 DEF Waits, TypeOK
  <2>. QED BY <2>2, <2>3, <2>4, <2>5
<1>4. ASSUME NEW d \in Call, NEW r \in Request, File(d, r)
      PROVE  \/ call[c] = "waiting" /\ waitsFor'[c] = waitsFor[c]
             \/ record'[waitsFor'[c]] # "absent" /\ about'[waitsFor'[c]] = ToolOf[c]
  <2>1. Waits(d, r) /\ record'[r] = "pending" /\ about'[r] = ToolOf[d]
    BY <1>0, <1>4 DEF File, TypeOK
  <2>2. c = d => waitsFor'[c] = r
    BY <1>0, <2>1 DEF Waits, TypeOK
  <2>3. c # d => call'[c] = call[c] /\ waitsFor'[c] = waitsFor[c]
    BY <1>0, <2>1 DEF Waits, TypeOK
  <2>. QED BY <2>1, <2>2, <2>3
<1>5. ASSUME NEW d \in Call, PollGranted(d) \/ PollRejected(d) \/ GivesUp(d) \/ Cancel(d)
      PROVE  call[c] = "waiting" /\ waitsFor'[c] = waitsFor[c]
  <2>1. waitsFor' = waitsFor
        /\ \E o \in {"ran", "rejected", "timed out", "cancelled"} : call' = [call EXCEPT ![d] = o]
    BY <1>5 DEF PollGranted, Consume, PollRejected, GivesUp, Cancel, Ends, Leaves
  <2>. QED BY <1>0, <2>1 DEF TypeOK
<1>6. ASSUME \/ \E r \in Request : \/ Deny(r) \/ Approve(r) \/ Notified(r) \/ GrantEnds(r)
                                   \/ Lapse(r) \/ Expire(r) \/ GoesStale(r)
             \/ NextMs \/ UNCHANGED vars
      PROVE  call[c] = "waiting" /\ waitsFor'[c] = waitsFor[c]
  BY <1>6 DEF Deny, Approve, Notified, GrantEnds, Lapse, Expire, GoesStale, NextMs, vars, callVars
<1>7. ASSUME Crash PROVE FALSE
  BY <1>7 DEF Crash
<1>. QED BY <1>1, <1>2, <1>3, <1>4, <1>5, <1>6, <1>7 DEF Next

\* An approval mints, or leaves the minting to its notice; a crash in between loses the
\* grant.
LEMMA NextApprovalOnItsWay == IInv /\ ApprovalOnItsWay /\ [Next]_vars => ApprovalOnItsWay'
<1>. SUFFICES ASSUME IInv, ApprovalOnItsWay, [Next]_vars, NEW r \in Request, record'[r] = "approved"
              PROVE  r \in notifying' \/ grant'[r] # "none"
  BY DEF ApprovalOnItsWay
<1> DEFINE Goal == r \in notifying' \/ grant'[r] # "none"
<1>0. TypeOK
  BY DEF IInv
<1>1. ASSUME record[r] = "approved", UNCHANGED <<notifying, grant>> PROVE Goal
  BY <1>1 DEF ApprovalOnItsWay
<1>2. ASSUME NEW q \in Request, Approve(q) PROVE Goal
  <2>1. CASE r = q
    <3>1. \A m : Mint(m) => grant' \in {[grant EXCEPT ![m] = "minted"], [grant EXCEPT ![m] = "lost"]}
      BY DEF Mint
    <3>2. CASE stamp[q] = "fresh"
      <4>1. grant'[q] \in {"minted", "lost"}
        BY <1>0, <1>2, <3>1, <3>2 DEF Approve, TypeOK
      <4>. QED BY <2>1, <4>1
    <3>3. CASE stamp[q] # "fresh"
      BY <1>2, <2>1, <3>3 DEF Approve
    <3>. QED BY <3>2, <3>3
  <2>2. CASE r # q
    <3>1. record[r] = "approved"
      BY <1>0, <1>2, <2>2 DEF Approve, TypeOK
    <3>2. grant'[r] = grant[r] /\ (r \in notifying => r \in notifying')
      BY <1>0, <1>2, <2>2 DEF Approve, Mint, TypeOK
    <3>. QED BY <3>1, <3>2 DEF ApprovalOnItsWay
  <2>. QED BY <2>1, <2>2
<1>3. ASSUME NEW q \in Request, Notified(q) PROVE Goal
  <2>1. record[r] = "approved" /\ notifying' = notifying \ {q}
    BY <1>3 DEF Notified, requestVars
  <2>2. IF r = q THEN grant'[r] \in {"minted", "lost"} ELSE grant'[r] = grant[r]
    BY <1>0, <1>3 DEF Notified, Mint, TypeOK
  <2>. QED BY <2>1, <2>2 DEF ApprovalOnItsWay
<1>4. ASSUME NEW q \in Request, Deny(q) \/ Expire(q) PROVE Goal
  <2>1. record[r] = "approved"
    BY <1>0, <1>4 DEF Deny, Expire, TypeOK
  <2>. QED BY <1>1, <1>4, <2>1 DEF Deny, Expire, grantVars
<1>5. ASSUME NEW c \in Call, NEW q \in Request, File(c, q) PROVE Goal
  <2>1. record[r] = "approved"
    BY <1>0, <1>5 DEF File, TypeOK
  <2>. QED BY <1>1, <1>5, <2>1 DEF File, grantVars
<1>6. ASSUME Crash PROVE Goal
  <2>1. record[r] = "approved" /\ grant'[r] = IF r \in notifying THEN "lost" ELSE grant[r]
    BY <1>0, <1>6 DEF Crash, TypeOK
  <2>. QED BY <2>1 DEF ApprovalOnItsWay
<1>7. ASSUME NEW c \in Call, Invoke(c) \/ Refuse(c) \/ Join(c) \/ Collide(c) PROVE Goal
  <2>1. UNCHANGED <<record, notifying, grant>>
    BY <1>7 DEF Invoke, Refuse, Join, Collide, requestVars, grantVars
  <2>. QED BY <1>1, <2>1
<1>8. ASSUME NEW c \in Call, PollGranted(c) \/ PollRejected(c) \/ GivesUp(c) \/ Cancel(c)
      PROVE  Goal
  <2>1. UNCHANGED <<record, notifying, grant>>
    BY <1>8 DEF PollGranted, PollRejected, GivesUp, Cancel, Ends, Leaves
  <2>. QED BY <1>1, <2>1
<1>9. ASSUME \/ \E q \in Request : GrantEnds(q) \/ Lapse(q) \/ GoesStale(q)
             \/ NextMs \/ UNCHANGED vars
      PROVE  Goal
  <2>1. UNCHANGED <<record, notifying, grant>>
    BY <1>9 DEF GrantEnds, Lapse, GoesStale, NextMs, vars, requestVars, grantVars
  <2>. QED BY <1>1, <2>1
<1>. QED BY <1>2, <1>3, <1>4, <1>5, <1>6, <1>7, <1>8, <1>9 DEF Next

\* Only a wait whose budget is over is reported as timed out.
LEMMA OnlyGivesUp ==
    ASSUME IInv, [Next]_vars, NEW c \in Call, call[c] = "waiting", call'[c] = "timed out"
    PROVE  GivesUp(c)
<1>0. TypeOK
  BY DEF IInv
<1>1. ASSUME NEW d \in Call,
             \/ Invoke(d) \/ Refuse(d) \/ Join(d) \/ Collide(d)
             \/ \E r \in Request : File(d, r)
      PROVE  FALSE
  BY <1>0, <1>1 DEF Invoke, Consume, Refuse, Join, Collide, File, Waits, TypeOK
<1>2. ASSUME NEW d \in Call, PollGranted(d) \/ PollRejected(d) \/ Cancel(d) PROVE FALSE
  BY <1>0, <1>2 DEF PollGranted, Consume, PollRejected, Cancel, Ends, TypeOK
<1>3. ASSUME NEW d \in Call, GivesUp(d) PROVE d = c
  BY <1>0, <1>3 DEF GivesUp, Ends, TypeOK
<1>4. ASSUME \/ \E r \in Request : \/ Deny(r) \/ Approve(r) \/ Notified(r) \/ GrantEnds(r)
                                   \/ Lapse(r) \/ Expire(r) \/ GoesStale(r)
             \/ NextMs \/ Crash \/ UNCHANGED vars
      PROVE  FALSE
  BY <1>4 DEF Deny, Approve, Notified, GrantEnds, Lapse, Expire, GoesStale, NextMs, Crash,
     vars, callVars
<1>. QED BY <1>1, <1>2, <1>3, <1>4 DEF Next

\* A grant has no use left or one, so that with none above 0 it has none.
LEMMA NotOne == ASSUME NEW n \in {0, 1}, ~(n > 0) PROVE n = 0
  OBVIOUS

\* A call gives up on an approved request only when the grant was used, ended or could
\* not be minted, or the requester is being told to retry.
THEOREM ApprovedInTimeRunsHolds == Spec => ApprovedInTimeRuns
<1> DEFINE GrantGone(r) == \/ UsesOf(r) # {}
                           \/ grant[r] = "lost" \/ (grant[r] = "minted" /\ active[r] = 0)
                           \/ r \in notifying
           Told == \A c \in Call :
                      (call[c] = "waiting" /\ call'[c] = "timed out"
                           /\ record[waitsFor[c]] = "approved")
                      => GrantGone(waitsFor[c])
<1>1. Init => WaitsAsAsked /\ ApprovalOnItsWay
  BY DEF Init, WaitsAsAsked, ApprovalOnItsWay
<1>2. ASSUME IInv, WaitsAsAsked, ApprovalOnItsWay, [Next]_vars PROVE Told
  <2>. SUFFICES ASSUME NEW c \in Call, call[c] = "waiting", call'[c] = "timed out",
                       record[waitsFor[c]] = "approved"
                PROVE  GrantGone(waitsFor[c])
    OBVIOUS
  <2>1. PICK r \in Request : r = waitsFor[c]
    BY <1>2 DEF IInv, WaitsForRequest
  <2>2. Grants(c) = {}
    BY <1>2, OnlyGivesUp DEF GivesUp, PolledInVain
  <2>3. about[r] = ToolOf[c]
    BY <1>2, <2>1 DEF WaitsAsAsked
  <2>4. active[r] = 0
    <3>1. active[r] \in {0, 1} /\ ~(active[r] > 0)
      BY <1>2, <2>2, <2>3 DEF IInv, OneUse, Grants
    <3>. QED BY <3>1, NotOne
  <2>5. r \in notifying \/ grant[r] \in {"minted", "lost"}
    BY <1>2, <2>1 DEF ApprovalOnItsWay, IInv, TypeOK
  <2>. QED BY <2>1, <2>4, <2>5
<1>3. [][Told]_vars => ApprovedInTimeRuns
  BY DEF ApprovedInTimeRuns
<1>4. IInv /\ WaitsAsAsked /\ ApprovalOnItsWay /\ [Next]_vars => [Told]_vars
  BY <1>2
<1>. HIDE DEF Told
<1>. QED
  BY <1>1, <1>3, <1>4, InitInv, NextInv, NextWaitsAsAsked, NextApprovalOnItsWay, PTL DEF Spec
=============================================================================
