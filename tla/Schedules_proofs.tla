-------------------------- MODULE Schedules_proofs --------------------------
(***************************************************************************)
(* Proofs about the schedules, for any set of rows and any number of       *)
(* crashes: what the tick has claimed and what the rows say belong         *)
(* together, and every run is closed once.                                 *)
(***************************************************************************)
EXTENDS Schedules, TLAPS

\* Between ticks nothing is claimed, so a new tick overwrites no claim.
IdleHoldsNothing == ~ticking => claimed = {} /\ current = Nobody

\* A row that is there has a mode, which its snapshots take over.
HasMode == \A s \in Schedule : Exists(s) => mode[s] \in Modes

\* A row has one snapshot: no other one settles it first.
OneSnapshot ==
    /\ \A i, j \in claimed : i.id = j.id => i = j
    /\ \A j \in claimed : j.id # current.id

\* A claimed one-shot stays firing until its turn, unless it is deleted.
SnapshotsFire == \A j \in claimed : j.oneShot => status[j.id] \in {"firing", "deleted"}

\* Nothing refers to a row before it is created.
Unborn ==
    \A s \in Schedule : status[s] = "absent" =>
        /\ running[s] = 0 /\ s \notin manual /\ current.id # s
        /\ \A j \in claimed : j.id # s

\* Closing a run never finds none, also when a crash has left some open.
RunsAreCovered == \A s \in Schedule : Exists(s) => UnderWay(s) <= running[s]

IInv ==
    /\ TypeOK
    /\ IdleHoldsNothing /\ HasMode
    /\ OneSnapshot /\ SnapshotsFire /\ FiringIsHeld
    /\ Unborn /\ RunsAreCovered /\ RunsAreClosed
-----------------------------------------------------------------------------
\* Each operation preserves the invariant; the tick's, and those of users between its
\* steps.
LEMMA InitInv == Init => IInv
<1> SUFFICES ASSUME Init PROVE IInv
  OBVIOUS
<1>1. TypeOK
  <2>1. 0 \in 0..MaxCrashes
    BY BoundsAssumption
  <2>2. running \in [Schedule -> Nat] /\ claimed \subseteq Snapshots
    BY DEF Init
  <2> QED
    BY <2>1, <2>2 DEF Init, TypeOK
<1>2. IdleHoldsNothing /\ HasMode /\ OneSnapshot /\ SnapshotsFire /\ FiringIsHeld
  BY DEF Init, IdleHoldsNothing, HasMode, OneSnapshot, SnapshotsFire, FiringIsHeld, Exists
<1>3. Unborn /\ RunsAreCovered /\ RunsAreClosed
  BY NoneAssumption DEF Init, Unborn, RunsAreCovered, RunsAreClosed, Exists, Nobody
<1> QED
  BY <1>1, <1>2, <1>3 DEF IInv

\* What a snapshot holds, and that it is one.
LEMMA SnapshotIs ==
    ASSUME TypeOK, NEW j \in claimed
    PROVE  /\ j \in Snapshots /\ j # Nobody
           /\ j.id \in Schedule /\ j.oneShot \in BOOLEAN /\ j.mode \in Modes
  BY NoneAssumption DEF TypeOK, Snapshots, Nobody

LEMMA CurrentIs ==
    ASSUME TypeOK, current # Nobody
    PROVE  /\ current \in Snapshots
           /\ current.id \in Schedule /\ current.oneShot \in BOOLEAN /\ current.mode \in Modes
  BY DEF TypeOK, Snapshots

LEMMA NobodyIs == Nobody.id = None /\ Nobody.oneShot = FALSE /\ Nobody.mode = "none"
  BY DEF Nobody

LEMMA CreateInv == ASSUME IInv, NEW s \in Schedule, Create(s) PROVE IInv'
<1> USE DEF IInv
<1>1. TypeOK'
  BY DEF Create, TypeOK, rowVars, tickVars
<1>2. IdleHoldsNothing' /\ HasMode'
  BY DEF Create, TypeOK, IdleHoldsNothing, HasMode, Exists, rowVars, tickVars
<1>3. OneSnapshot' /\ SnapshotsFire' /\ FiringIsHeld'
  BY DEF Create, TypeOK, OneSnapshot, SnapshotsFire, FiringIsHeld, Held, rowVars, tickVars
<1>4. Unborn'
  BY DEF Create, TypeOK, Unborn, rowVars, tickVars
<1>5. RunsAreCovered'
  BY DEF Create, TypeOK, RunsAreCovered, Unborn, UnderWay, Exists, tickVars
<1>6. RunsAreClosed'
  BY DEF Create, TypeOK, RunsAreClosed, Unborn, UnderWay, Exists, tickVars
<1> QED
  BY <1>1, <1>2, <1>3, <1>4, <1>5, <1>6

LEMMA ToggleInv == ASSUME IInv, NEW s \in Schedule, Toggle(s) PROVE IInv'
<1> USE DEF IInv
<1>1. TypeOK'
  BY DEF Toggle, TypeOK, rowVars, tickVars
<1>2. IdleHoldsNothing' /\ HasMode'
  BY DEF Toggle, TypeOK, IdleHoldsNothing, HasMode, Exists, rowVars, tickVars
<1>3. OneSnapshot' /\ SnapshotsFire' /\ FiringIsHeld'
  BY DEF Toggle, TypeOK, OneSnapshot, SnapshotsFire, FiringIsHeld, Held, rowVars, tickVars
<1>4. Unborn' /\ RunsAreCovered' /\ RunsAreClosed'
  BY DEF Toggle, TypeOK, Unborn, RunsAreCovered, RunsAreClosed, UnderWay, Exists, rowVars,
       tickVars
<1> QED
  BY <1>1, <1>2, <1>3, <1>4

LEMMA EditInv == ASSUME IInv, NEW s \in Schedule, Edit(s) PROVE IInv'
<1> USE DEF IInv
<1>1. TypeOK'
  BY DEF Edit, TypeOK, rowVars, tickVars
<1>2. IdleHoldsNothing' /\ HasMode'
  BY DEF Edit, TypeOK, IdleHoldsNothing, HasMode, Exists, rowVars, tickVars
<1>3. OneSnapshot' /\ SnapshotsFire' /\ FiringIsHeld'
  BY DEF Edit, TypeOK, OneSnapshot, SnapshotsFire, FiringIsHeld, Held, rowVars, tickVars
<1>4. Unborn' /\ RunsAreCovered' /\ RunsAreClosed'
  BY DEF Edit, TypeOK, Unborn, RunsAreCovered, RunsAreClosed, UnderWay, Exists, rowVars,
       tickVars
<1> QED
  BY <1>1, <1>2, <1>3, <1>4

LEMMA CancelInv == ASSUME IInv, NEW s \in Schedule, Cancel(s) PROVE IInv'
<1> USE DEF IInv
<1>1. TypeOK'
  BY DEF Cancel, TypeOK, rowVars, tickVars, MayCancel
<1>2. IdleHoldsNothing' /\ HasMode'
  BY DEF Cancel, TypeOK, IdleHoldsNothing, HasMode, Exists, rowVars, tickVars, MayCancel
<1>3. OneSnapshot' /\ SnapshotsFire' /\ FiringIsHeld'
  BY DEF Cancel, TypeOK, OneSnapshot, SnapshotsFire, FiringIsHeld, Held, rowVars,
       tickVars, MayCancel
<1>4. Unborn' /\ RunsAreCovered' /\ RunsAreClosed'
  BY DEF Cancel, TypeOK, Unborn, RunsAreCovered, RunsAreClosed, UnderWay, Exists, rowVars,
       tickVars, MayCancel
<1> QED
  BY <1>1, <1>2, <1>3, <1>4

LEMMA DeleteInv == ASSUME IInv, NEW s \in Schedule, Delete(s) PROVE IInv'
<1> USE DEF IInv
<1>1. TypeOK'
  BY DEF Delete, TypeOK, rowVars, tickVars
<1>2. IdleHoldsNothing' /\ HasMode'
  BY DEF Delete, TypeOK, IdleHoldsNothing, HasMode, Exists, rowVars, tickVars
<1>3. OneSnapshot' /\ SnapshotsFire' /\ FiringIsHeld'
  BY DEF Delete, TypeOK, OneSnapshot, SnapshotsFire, FiringIsHeld, Held, rowVars, tickVars
<1>4. Unborn' /\ RunsAreCovered' /\ RunsAreClosed'
  BY DEF Delete, TypeOK, Unborn, RunsAreCovered, RunsAreClosed, UnderWay, Exists, rowVars,
       tickVars
<1> QED
  BY <1>1, <1>2, <1>3, <1>4

LEMMA FallsDueInv == ASSUME IInv, NEW s \in Schedule, FallsDue(s) PROVE IInv'
<1> USE DEF IInv
<1>1. TypeOK'
  BY DEF FallsDue, TypeOK, rowVars, tickVars
<1>2. IdleHoldsNothing' /\ HasMode'
  BY DEF FallsDue, TypeOK, IdleHoldsNothing, HasMode, Exists, rowVars, tickVars
<1>3. OneSnapshot' /\ SnapshotsFire' /\ FiringIsHeld'
  BY DEF FallsDue, TypeOK, OneSnapshot, SnapshotsFire, FiringIsHeld, Held, rowVars, tickVars
<1>4. Unborn' /\ RunsAreCovered' /\ RunsAreClosed'
  BY DEF FallsDue, TypeOK, Unborn, RunsAreCovered, RunsAreClosed, UnderWay, Exists,
       rowVars, tickVars
<1> QED
  BY <1>1, <1>2, <1>3, <1>4

LEMMA RunNowInv == ASSUME IInv, NEW s \in Schedule, RunNow(s) PROVE IInv'
<1> USE DEF IInv
<1>1. TypeOK'
  BY DEF RunNow, TypeOK, rowVars, tickVars, Opened
<1>2. IdleHoldsNothing' /\ HasMode'
  BY DEF RunNow, TypeOK, IdleHoldsNothing, HasMode, Exists, rowVars, tickVars, Opened
<1>3. OneSnapshot' /\ SnapshotsFire' /\ FiringIsHeld'
  BY DEF RunNow, TypeOK, OneSnapshot, SnapshotsFire, FiringIsHeld, Held, rowVars,
       tickVars, Opened, Exists
<1>4. Unborn' /\ RunsAreCovered' /\ RunsAreClosed'
  BY DEF RunNow, TypeOK, Unborn, RunsAreCovered, RunsAreClosed, UnderWay, Exists, rowVars,
       tickVars, Opened
<1> QED
  BY <1>1, <1>2, <1>3, <1>4

LEMMA RunNowEndsInv == ASSUME IInv, NEW s \in Schedule, RunNowEnds(s) PROVE IInv'
<1> USE DEF IInv
<1>1. TypeOK'
  <2>1. running' \in [Schedule -> Nat]
    BY DEF RunNowEnds, Closed, TypeOK, RunsAreCovered, UnderWay
  <2> QED
    BY <2>1 DEF RunNowEnds, TypeOK, rowVars, tickVars
<1>2. IdleHoldsNothing' /\ HasMode'
  BY DEF RunNowEnds, TypeOK, IdleHoldsNothing, HasMode, Exists, rowVars, tickVars, Closed
<1>3. OneSnapshot' /\ SnapshotsFire' /\ FiringIsHeld'
  BY DEF RunNowEnds, TypeOK, OneSnapshot, SnapshotsFire, FiringIsHeld, Held, rowVars,
       tickVars, Closed
<1>4. Unborn' /\ RunsAreCovered' /\ RunsAreClosed'
  BY DEF RunNowEnds, TypeOK, Unborn, RunsAreCovered, RunsAreClosed, UnderWay, Exists,
       rowVars, tickVars, Closed
<1> QED
  BY <1>1, <1>2, <1>3, <1>4

LEMMA TickInv == ASSUME IInv, Tick PROVE IInv'
<1> USE DEF IInv
<1>1. TypeOK'
  <2>1. claimed' \subseteq Snapshots
    BY DEF Tick, TypeOK, Claim, Snapshots, Exists, HasMode
  <2>2. /\ status' \in [Schedule -> {"absent", "active", "firing", "fired", "cancelled", "deleted"}]
        /\ enabled' \in [Schedule -> BOOLEAN] /\ due' \in [Schedule -> BOOLEAN]
    BY DEF Tick, TypeOK
  <2> QED
    BY <2>1, <2>2 DEF Tick, TypeOK
<1>2. IdleHoldsNothing' /\ HasMode'
  BY DEF Tick, TypeOK, IdleHoldsNothing, HasMode, Exists, rowVars, Claim
<1>3. SnapshotsFire'
  BY DEF Tick, TypeOK, SnapshotsFire, rowVars, Claim, Exists
<1>4. OneSnapshot'
  <2>1. current' = Nobody
    BY DEF Tick, IdleHoldsNothing
  <2> QED
    BY <2>1, NobodyIs, NoneAssumption DEF Tick, Claim, OneSnapshot
<1>5. FiringIsHeld'
  <2> SUFFICES ASSUME NEW s \in Schedule, status'[s] = "firing", s \notin dropped'
               PROVE  Held(s)'
    BY DEF FiringIsHeld
  <2>1. status[s] # "firing"
    BY NobodyIs DEF Tick, IdleHoldsNothing, FiringIsHeld, Held
  <2>2. Claim(s) \in claimed' /\ ~cron[s]
    BY <2>1 DEF Tick, TypeOK
  <2>3. Claim(s).id = s /\ Claim(s).oneShot
    BY <2>2 DEF Claim
  <2> QED
    BY <2>2, <2>3 DEF Held
<1>6. Unborn' /\ RunsAreCovered' /\ RunsAreClosed'
  BY DEF Tick, TypeOK, Unborn, RunsAreCovered, RunsAreClosed, UnderWay, Exists, rowVars,
       Claim
<1> QED
  BY <1>1, <1>2, <1>3, <1>4, <1>5, <1>6

\* An error that ends the tick, with nothing in hand or with a row that is gone.
LEMMA AbortInv ==
    ASSUME IInv, Abort, UNCHANGED <<rowVars, running, manual, crashes>>,
           current = Nobody \/ ~Exists(current.id)
    PROVE  IInv'
<1> USE DEF IInv
<1>1. TypeOK'
  <2>1. {j.id : j \in claimed} \subseteq Schedule
    BY SnapshotIs
  <2> QED
    BY <2>1 DEF Abort, rowVars, TypeOK
<1>2. IdleHoldsNothing' /\ HasMode' /\ OneSnapshot' /\ SnapshotsFire'
  BY DEF Abort, rowVars, Exists, IdleHoldsNothing, HasMode, OneSnapshot, SnapshotsFire
<1>3. FiringIsHeld'
  BY NobodyIs DEF Abort, rowVars, Exists, Held, FiringIsHeld
<1>4. Unborn'
  BY NobodyIs, NoneAssumption DEF Abort, rowVars, Unborn
<1>5. \A s \in Schedule : Exists(s) => Exists(s)' /\ UnderWay(s)' = UnderWay(s)
  BY NobodyIs DEF Abort, rowVars, Exists, UnderWay
<1>6. RunsAreCovered' /\ RunsAreClosed'
  BY <1>5 DEF Abort, rowVars, Exists, RunsAreCovered, RunsAreClosed
<1> QED
  BY <1>1, <1>2, <1>3, <1>4, <1>6

LEMMA BeginsInv == ASSUME IInv, NEW j \in claimed, Begins(j) PROVE IInv'
<1> USE DEF IInv
<1>1. CASE j.mode = "message" /\ ~Exists(j.id)
  BY <1>1, AbortInv DEF Begins
<1>2. CASE ~(j.mode = "message" /\ ~Exists(j.id))
  <2>0. /\ ticking /\ current = Nobody
        /\ claimed' = claimed \ {j} /\ current' = j
        /\ UNCHANGED <<rowVars, ticking, manual, crashes, dropped>>
    BY <1>2 DEF Begins
  <2>1. \/ running' = running /\ j.mode # "message"
        \/ running' = Opened(j.id) /\ j.mode = "message" /\ Exists(j.id)
    BY <1>2 DEF Begins
  <2>2. TypeOK'
    <3>1. running' \in [Schedule -> Nat]
      BY <2>1, SnapshotIs DEF Opened, TypeOK
    <3> QED
      BY <2>0, <3>1, SnapshotIs DEF rowVars, TypeOK
  <2>3. IdleHoldsNothing' /\ HasMode'
    BY <2>0 DEF rowVars, Exists, IdleHoldsNothing, HasMode
  <2>4. OneSnapshot' /\ SnapshotsFire'
    BY <2>0 DEF rowVars, OneSnapshot, SnapshotsFire
  <2>5. FiringIsHeld'
    <3>1. \A s \in Schedule : Held(s) => Held(s)'
      BY <2>0, NobodyIs DEF Held
    <3> QED
      BY <2>0, <3>1 DEF rowVars, FiringIsHeld
  <2>6. Unborn'
    <3>1. \A s \in Schedule : status[s] = "absent" => s # j.id /\ running'[s] = running[s]
      BY <2>1, SnapshotIs DEF Opened, Unborn, TypeOK
    <3> QED
      BY <2>0, <3>1 DEF rowVars, Unborn
  <2>7. \A s \in Schedule :
           UnderWay(s)' = UnderWay(s) + (IF s = j.id /\ j.mode = "message" THEN 1 ELSE 0)
    BY <2>0, NobodyIs, SnapshotIs, NoneAssumption DEF UnderWay
  <2>8. \A s \in Schedule :
           running'[s] = running[s] + (IF s = j.id /\ j.mode = "message" THEN 1 ELSE 0)
    BY <2>1, SnapshotIs DEF Opened, TypeOK
  <2>9. \A s \in Schedule : UnderWay(s) \in Nat /\ running[s] \in Nat /\ Exists(s)' = Exists(s)
    BY <2>0 DEF UnderWay, TypeOK, rowVars, Exists
  <2>10. RunsAreCovered' /\ RunsAreClosed'
    BY <2>0, <2>7, <2>8, <2>9 DEF RunsAreCovered, RunsAreClosed
  <2> QED
    BY <2>2, <2>3, <2>4, <2>5, <2>6, <2>10
<1> QED
  BY <1>1, <1>2

LEMMA SucceedsInv == ASSUME IInv, NEW s \in Schedule, Succeeds(s) PROVE IInv'
<1> USE DEF IInv
<1>1. TypeOK'
  <2>1. running' \in [Schedule -> Nat]
    BY DEF Succeeds, Leave, Closed, TypeOK, RunsAreCovered, UnderWay
  <2>2. status' \in [Schedule -> {"absent", "active", "firing", "fired", "cancelled", "deleted"}]
    BY DEF Succeeds, Completed, TypeOK
  <2>3. enabled' \in [Schedule -> BOOLEAN]
    BY DEF Succeeds, Leave, TypeOK
  <2> QED
    BY <2>1, <2>2, <2>3 DEF Succeeds, Leave, TypeOK
<1>2. IdleHoldsNothing' /\ HasMode'
  BY CurrentIs, NobodyIs, NoneAssumption DEF Succeeds, TypeOK, IdleHoldsNothing, HasMode,
       Exists, Leave, Closed, Completed, Failed
<1>3. FiringIsHeld'
  BY CurrentIs, NobodyIs, NoneAssumption DEF Succeeds, TypeOK, FiringIsHeld, Held, Leave,
       Closed, Completed, Failed
<1>4. OneSnapshot'
  BY SnapshotIs, NobodyIs, NoneAssumption DEF Succeeds, Leave, OneSnapshot
<1>5. SnapshotsFire'
  BY SnapshotIs DEF Succeeds, Leave, Completed, Failed, TypeOK, OneSnapshot, SnapshotsFire
<1>6. RunsAreCovered' /\ RunsAreClosed'
  BY CurrentIs, NobodyIs, NoneAssumption DEF Succeeds, TypeOK, RunsAreCovered,
       RunsAreClosed, UnderWay, Exists, Leave, Closed, Completed, Failed
<1>7. Unborn'
  BY NobodyIs, NoneAssumption DEF Succeeds, Leave, Completed, Failed, Closed, Exists, TypeOK, Unborn
<1> QED
  BY <1>1, <1>2, <1>3, <1>4, <1>5, <1>6, <1>7

LEMMA FailsInv == ASSUME IInv, NEW s \in Schedule, Fails(s) PROVE IInv'
<1> USE DEF IInv
<1>1. TypeOK'
  <2>1. running' \in [Schedule -> Nat]
    BY DEF Fails, Leave, Closed, TypeOK, RunsAreCovered, UnderWay
  <2>2. status' \in [Schedule -> {"absent", "active", "firing", "fired", "cancelled", "deleted"}]
    BY DEF Fails, Failed, TypeOK
  <2>3. enabled' \in [Schedule -> BOOLEAN]
    BY DEF Fails, Leave, TypeOK
  <2> QED
    BY <2>1, <2>2, <2>3 DEF Fails, Leave, TypeOK
<1>2. IdleHoldsNothing' /\ HasMode'
  BY CurrentIs, NobodyIs, NoneAssumption DEF Fails, TypeOK, IdleHoldsNothing, HasMode,
       Exists, Leave, Closed, Completed, Failed
<1>3. FiringIsHeld'
  BY CurrentIs, NobodyIs, NoneAssumption DEF Fails, TypeOK, FiringIsHeld, Held, Leave,
       Closed, Completed, Failed
<1>4. OneSnapshot'
  BY SnapshotIs, NobodyIs, NoneAssumption DEF Fails, Leave, OneSnapshot
<1>5. SnapshotsFire'
  BY SnapshotIs DEF Fails, Leave, Completed, Failed, TypeOK, OneSnapshot, SnapshotsFire
<1>6. RunsAreCovered' /\ RunsAreClosed'
  BY CurrentIs, NobodyIs, NoneAssumption DEF Fails, TypeOK, RunsAreCovered, RunsAreClosed,
       UnderWay, Exists, Leave, Closed, Completed, Failed
<1>7. Unborn'
  BY NobodyIs, NoneAssumption DEF Fails, Leave, Completed, Failed, Closed, Exists, TypeOK, Unborn
<1> QED
  BY <1>1, <1>2, <1>3, <1>4, <1>5, <1>6, <1>7

LEMMA BreaksInv == ASSUME IInv, Breaks PROVE IInv'
  BY AbortInv DEF Breaks, RunFails

LEMMA TickEndsInv == ASSUME IInv, TickEnds PROVE IInv'
<1> USE DEF IInv
<1>1. TypeOK'
  BY DEF TickEnds, TypeOK, rowVars, tickVars
<1>2. IdleHoldsNothing' /\ HasMode'
  BY DEF TickEnds, TypeOK, IdleHoldsNothing, HasMode, Exists, rowVars, tickVars
<1>3. OneSnapshot' /\ SnapshotsFire' /\ FiringIsHeld'
  BY DEF TickEnds, TypeOK, OneSnapshot, SnapshotsFire, FiringIsHeld, Held, rowVars, tickVars
<1>4. Unborn' /\ RunsAreCovered' /\ RunsAreClosed'
  BY DEF TickEnds, TypeOK, Unborn, RunsAreCovered, RunsAreClosed, UnderWay, Exists,
       rowVars, tickVars
<1> QED
  BY <1>1, <1>2, <1>3, <1>4

LEMMA CrashInv == ASSUME IInv, Crash PROVE IInv'
<1> USE DEF IInv
<1>1. TypeOK'
  <2>1. dropped' \subseteq Schedule
    BY SnapshotIs, CurrentIs, NobodyIs DEF Crash, TypeOK
  <2>2. crashes' \in 0..MaxCrashes
    BY BoundsAssumption DEF Crash, TypeOK
  <2> QED
    BY <2>1, <2>2 DEF Crash, TypeOK, rowVars
<1>2. IdleHoldsNothing' /\ HasMode'
  BY NobodyIs, NoneAssumption DEF Crash, TypeOK, IdleHoldsNothing, HasMode, Exists,
       rowVars, tickVars
<1>3. OneSnapshot' /\ SnapshotsFire' /\ FiringIsHeld'
  BY NobodyIs, NoneAssumption DEF Crash, TypeOK, OneSnapshot, SnapshotsFire, FiringIsHeld,
       Held, rowVars, tickVars
<1>4. Unborn' /\ RunsAreCovered' /\ RunsAreClosed'
  BY NobodyIs, NoneAssumption DEF Crash, TypeOK, Unborn, RunsAreCovered, RunsAreClosed,
       UnderWay, Exists, rowVars, tickVars
<1> QED
  BY <1>1, <1>2, <1>3, <1>4

LEMMA StepInv == ASSUME IInv, [Next]_vars PROVE IInv'
<1>1. CASE UNCHANGED vars
  BY <1>1 DEF vars, rowVars, tickVars, IInv, TypeOK, IdleHoldsNothing, HasMode, OneSnapshot,
              SnapshotsFire, FiringIsHeld, Held, Unborn, RunsAreCovered, RunsAreClosed,
              UnderWay, Exists
<1>2. ASSUME NEW s \in Schedule,
             \/ Create(s) \/ Toggle(s) \/ Edit(s) \/ Cancel(s) \/ Delete(s) \/ FallsDue(s)
             \/ RunNow(s) \/ RunNowEnds(s) \/ Succeeds(s) \/ Fails(s)
      PROVE  IInv'
  BY <1>2, CreateInv, ToggleInv, EditInv, CancelInv, DeleteInv, FallsDueInv, RunNowInv,
     RunNowEndsInv, SucceedsInv, FailsInv
<1>3. ASSUME NEW j \in claimed, Begins(j) PROVE IInv'
  BY <1>3, BeginsInv
<1>4. CASE Tick \/ Breaks \/ TickEnds \/ Crash
  BY <1>4, TickInv, BreaksInv, TickEndsInv, CrashInv
<1> QED
  BY <1>1, <1>2, <1>3, <1>4 DEF Next

\* The inductive invariant: snapshots, rows and runs agree in every reachable state.
THEOREM InvariantHolds == Spec => []IInv
  BY InitInv, StepInv, PTL DEF Spec
-----------------------------------------------------------------------------
\* The state of the schedules stays well formed; in particular completeScheduleRun
\* never closes a run that is not open.
THEOREM TypeCorrect == Spec => []TypeOK
  BY InvariantHolds, PTL DEF IInv

\* No claimed reminder is let go of, by an error, an edit, a deletion or a failure,
\* except by a tick that is cut short: failOneShot and completeOneShot settle it.
THEOREM FiringIsHeldHolds == Spec => []FiringIsHeld
  BY InvariantHolds, PTL DEF IInv

\* Until the first crash, the runs that say "running" are the ones under way: the
\* tick and a manual run each close their own.
THEOREM RunsAreClosedHolds == Spec => []RunsAreClosed
  BY InvariantHolds, PTL DEF IInv

\* cancelSchedule and the claim exclude each other: a one-shot that starts is still
\* claimed, so a cancellation that was reported did happen.
LEMMA StartIsClaimed ==
    ASSUME IInv, [Next]_vars, current' # current, current'.oneShot
    PROVE  status[current'.id] \in {"firing", "deleted"}
<1>1. current' # Nobody
  BY NobodyIs
<1>2. PICK j \in claimed : Begins(j)
  BY <1>1 DEF Next, vars, rowVars, tickVars, Create, Toggle, Edit, Cancel, Delete, FallsDue,
              RunNow, RunNowEnds, Succeeds, Fails, Leave, Tick, Breaks, Abort, TickEnds, Crash
<1>3. current' = j
  BY <1>1, <1>2 DEF Begins, Abort
<1> QED
  BY <1>3 DEF IInv, SnapshotsFire

THEOREM CancelledNeverRunsHolds == Spec => CancelledNeverRuns
<1>1. IInv /\ [Next]_vars =>
        [current' # current /\ current'.oneShot =>
            status[current'.id] \in {"firing", "deleted"}]_vars
  BY StartIsClaimed
<1> QED
  BY <1>1, InvariantHolds, PTL DEF Spec, CancelledNeverRuns
=============================================================================
