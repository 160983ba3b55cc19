------------------------ MODULE EmailSequences_proofs ------------------------
(***************************************************************************)
(* The safety of the sequence engine, for any enrollments, plans, caps and *)
(* number of incidents.                                                    *)
(*                                                                         *)
(* An enrollment is in the engine's hands at most once, with the step its  *)
(* row still has (HandsOK): whatever the operator does in the meantime, a  *)
(* row's step only changes when the engine ends the turn it started.  From *)
(* it follow what was done (DoneOK), that a row is never left without a    *)
(* next step by accident (NotForgotten) and that a reply, which is matched *)
(* between two batches, is the last word (RepliedOK).                      *)
(***************************************************************************)
EXTENDS EmailSequences, TLAPS

HandsOK ==
    /\ \A e \in Enrollment : \A s, t \in 0..MaxSteps :
        <<e, s>> \in todo =>
            /\ row[e].status # "none"
            /\ row[e].status # "deleted" => row[e].step = s
            /\ <<e, t>> \in todo => s = t
            /\ current # NoOne => current.who # e
    /\ current # NoOne =>
        /\ row[current.who].status # "none"
        /\ row[current.who].status # "deleted" => row[current.who].step = current.step

SequenceOK ==
    \A e \in Enrollment :
        /\ row[e].status = "deleted" => sequence = "deleted"
        /\ sequence = "deleted" => row[e].status \in {"none", "deleted"}

DoneOK ==
    /\ \A e \in Enrollment :
        /\ row[e].status = "none" => done[e] = {} /\ row[e].step = 0
        /\ row[e].status # "deleted" => done[e] = 0..(row[e].step - 1)
    /\ current # NoOne => current.step \notin done[current.who]

CapsOK ==
    /\ CapsHold
    /\ current # NoOne => hour < HourlyRate /\ day < DailyCap

RepliedOK == \A e \in Enrollment : row[e].status = "replied" => ~InHands(e)

IInv == /\ TypeOK /\ HandsOK /\ SequenceOK /\ DoneOK /\ CapsOK
        /\ NotForgotten /\ RepliedOK

-----------------------------------------------------------------------------
\* What the store's operations do to a row.
LEMMA ExitRow ==
    ASSUME NEW r \in Rows, NEW reason \in {"completed", "replied", "cancelled"}
    PROVE  /\ Exit(r, reason) \in Rows /\ Exit(r, reason).step = r.step
           /\ Exit(r, reason).status = IF r.status = "deleted" THEN "deleted" ELSE reason
<1>1. reason \in Statuses /\ (reason \in {"completed", "replied"}) \in BOOLEAN
  BY DEF Statuses, Ended
<1>2. CASE r.status = "deleted"
  BY <1>2 DEF Exit, Write
<1>3. CASE r.status # "deleted"
  <2>. DEFINE x == [r EXCEPT !.status = reason, !.next = "null",
                             !.recent = reason \in {"completed", "replied"}]
  <2>1. Exit(r, reason) = x
    BY <1>3 DEF Exit, Write
  <2>2. x \in Rows /\ x.step = r.step /\ x.status = reason
    BY <1>1 DEF Rows
  <2>. QED BY <1>3, <2>1, <2>2
<1>. QED BY <1>2, <1>3

LEMMA RescheduleRow ==
    ASSUME NEW r \in Rows, r.status # "none"
    PROVE  /\ Reschedule(r) \in Rows /\ Reschedule(r).step = r.step
           /\ Reschedule(r).status = r.status
           /\ r.status # "deleted" => Reschedule(r).next = "later"
  BY DEF Rows, Reschedule, Write

LEMMA RetriedRow ==
    ASSUME NEW r \in Rows
    PROVE  /\ Retried(r) \in Rows /\ Retried(r).step = r.step
           /\ Retried(r).status = r.status
           /\ r.status = "active" => Retried(r).next = "later"
<1>1. CASE r.status = "active"
  BY <1>1, RescheduleRow DEF Retried
<1>2. CASE r.status # "active"
  BY <1>2 DEF Retried
<1>. QED BY <1>1, <1>2

\* Advancing moves a row to its next step, unless it was deleted.
LEMMA AdvanceRow ==
    ASSUME NEW r \in Rows, r.status # "none", r.step + 1 \in 0..MaxSteps, NEW last \in BOOLEAN
    PROVE  /\ Advance(r, last) \in Rows
           /\ Advance(r, last).status = r.status
           /\ r.status # "deleted" => Advance(r, last).step = r.step + 1
           /\ r.status = "deleted" => Advance(r, last).step = r.step
           /\ r.status # "deleted" /\ ~last => Advance(r, last).next = "later"
  BY DEF Rows, Advance, Write

LEMMA UpTo ==
    ASSUME NEW n \in Nat PROVE 0..(n - 1) \union {n} = 0..(n + 1 - 1)
  OBVIOUS

LEMMA NextStep ==
    ASSUME NEW n \in Nat, NEW m, m = n + 1, NEW D, D = 0..(n - 1)
    PROVE  D \union {n} = 0..(m - 1)
  OBVIOUS

\* What keeps every row's step and deletion keeps the hands in order.
LEMMA HandsKept ==
    ASSUME IInv, UNCHANGED <<todo, current>>,
           \A f \in Enrollment :
               /\ row'[f].step = row[f].step
               /\ row[f].status # "none" => row'[f].status # "none"
               /\ row[f].status = "deleted" => row'[f].status = "deleted"
    PROVE  HandsOK'
<1>1. current # NoOne => current.who \in Enrollment
  BY DEF IInv, TypeOK, Current
<1>. QED BY <1>1 DEF IInv, HandsOK

LEMMA InitInv == Init => IInv
<1> SUFFICES ASSUME Init PROVE IInv
  OBVIOUS
<1>1. NewRow("none", "null") \in Rows
  BY SequencesAssumption DEF NewRow, Rows, Statuses, Ended
<1>2. TypeOK
  BY <1>1, SequencesAssumption DEF Init, TypeOK
<1>3. \A e \in Enrollment : /\ row[e].status = "none" /\ row[e].step = 0 /\ done[e] = {}
                            /\ todo = {} /\ current = NoOne
  BY DEF Init, NewRow
<1>4. 0..(0 - 1) = {}
  OBVIOUS
<1>5. HandsOK /\ SequenceOK /\ DoneOK /\ NotForgotten /\ RepliedOK
  BY <1>3, <1>4 DEF Init, HandsOK, SequenceOK, DoneOK, NotForgotten, RepliedOK
<1>6. CapsOK
  BY SequencesAssumption DEF Init, CapsOK, CapsHold
<1>. QED BY <1>2, <1>5, <1>6 DEF IInv
-----------------------------------------------------------------------------
(* The operator and time *)

LEMMA EnrollInv == ASSUME IInv, NEW e \in Enrollment, Enroll(e) PROVE IInv'
<1>a. row[e] \in Rows /\ row' = [row EXCEPT ![e] = NewRow("active", "later")]
  BY DEF Enroll, IInv, TypeOK
<1>b. /\ NewRow("active", "later") \in Rows
      /\ NewRow("active", "later").status = "active"
      /\ NewRow("active", "later").next = "later"
      /\ NewRow("active", "later").step = 0
  BY <1>a, ExitRow, RescheduleRow, RetriedRow, SequencesAssumption DEF Enroll, Rows, Statuses,
     Ended, NewRow
<1>1. TypeOK'
  BY <1>a, <1>b, SequencesAssumption DEF Enroll, work, sendLog, history, IInv, TypeOK
<1>2. HandsOK'
  BY <1>a, <1>b, SequencesAssumption DEF Enroll, work, sendLog, history, IInv, TypeOK, HandsOK
<1>3. SequenceOK'
  BY <1>a, <1>b, SequencesAssumption DEF Enroll, work, sendLog, history, IInv, TypeOK,
     SequenceOK
<1>4. DoneOK'
  BY <1>a, <1>b, SequencesAssumption DEF Enroll, work, sendLog, history, IInv, TypeOK, DoneOK,
     HandsOK
<1>5. CapsOK'
  BY <1>a, <1>b, SequencesAssumption DEF Enroll, work, sendLog, history, IInv, TypeOK, CapsOK,
     CapsHold
<1>6. NotForgotten'
  BY <1>a, <1>b, SequencesAssumption DEF Enroll, work, sendLog, history, IInv, TypeOK,
     NotForgotten, InHands
<1>7. RepliedOK'
  BY <1>a, <1>b, SequencesAssumption DEF Enroll, work, sendLog, history, IInv, TypeOK,
     RepliedOK, InHands
<1>. QED BY <1>1, <1>2, <1>3, <1>4, <1>5, <1>6, <1>7 DEF IInv

LEMMA PauseInv == ASSUME IInv, NEW e \in Enrollment, Pause(e) PROVE IInv'
<1>a. row[e] \in Rows /\ row' = [row EXCEPT ![e] = [row[e] EXCEPT !.status = "paused", !.next = "null"]]
  BY DEF Pause, IInv, TypeOK
<1>b. /\ [row[e] EXCEPT !.status = "paused", !.next = "null"] \in Rows
      /\ [row[e] EXCEPT !.status = "paused", !.next = "null"].status = "paused"
      /\ [row[e] EXCEPT !.status = "paused", !.next = "null"].step = row[e].step
  BY <1>a, ExitRow, RescheduleRow, RetriedRow, SequencesAssumption DEF Pause, Rows, Statuses,
     Ended, NewRow
<1>1. TypeOK'
  BY <1>a, <1>b, SequencesAssumption DEF Pause, Edit, Incident, work, sendLog, history, IInv,
     TypeOK
<1>2. HandsOK'
  <2>1. \A f \in Enrollment :
          /\ row'[f].step = row[f].step
          /\ row[f].status # "none" => row'[f].status # "none"
          /\ row[f].status = "deleted" => row'[f].status = "deleted"
    BY <1>a, <1>b DEF Pause, IInv, TypeOK
  <2>2. UNCHANGED <<todo, current>>
    BY DEF Pause, Edit, work
  <2>. QED BY <2>1, <2>2, HandsKept
<1>3. SequenceOK'
  BY <1>a, <1>b, SequencesAssumption DEF Pause, Edit, Incident, work, sendLog, history, IInv,
     TypeOK, SequenceOK
<1>4. DoneOK'
  BY <1>a, <1>b, SequencesAssumption DEF Pause, Edit, Incident, work, sendLog, history, IInv,
     TypeOK, DoneOK, HandsOK
<1>5. CapsOK'
  BY <1>a, <1>b, SequencesAssumption DEF Pause, Edit, Incident, work, sendLog, history, IInv,
     TypeOK, CapsOK, CapsHold
<1>6. NotForgotten'
  BY <1>a, <1>b, SequencesAssumption DEF Pause, Edit, Incident, work, sendLog, history, IInv,
     TypeOK, NotForgotten, InHands
<1>7. RepliedOK'
  BY <1>a, <1>b, SequencesAssumption DEF Pause, Edit, Incident, work, sendLog, history, IInv,
     TypeOK, RepliedOK, InHands
<1>. QED BY <1>1, <1>2, <1>3, <1>4, <1>5, <1>6, <1>7 DEF IInv

LEMMA ResumeInv == ASSUME IInv, NEW e \in Enrollment, Resume(e) PROVE IInv'
<1>a. row[e] \in Rows /\ row' = [row EXCEPT ![e] = [row[e] EXCEPT !.status = "active", !.next = "due"]]
  BY DEF Resume, IInv, TypeOK
<1>b. /\ [row[e] EXCEPT !.status = "active", !.next = "due"] \in Rows
      /\ [row[e] EXCEPT !.status = "active", !.next = "due"].status = "active"
      /\ [row[e] EXCEPT !.status = "active", !.next = "due"].next = "due"
      /\ [row[e] EXCEPT !.status = "active", !.next = "due"].step = row[e].step
  BY <1>a, ExitRow, RescheduleRow, RetriedRow, SequencesAssumption DEF Resume, Rows, Statuses,
     Ended, NewRow
<1>1. TypeOK'
  BY <1>a, <1>b, SequencesAssumption DEF Resume, Edit, Incident, work, sendLog, history, IInv,
     TypeOK
<1>2. HandsOK'
  <2>1. \A f \in Enrollment :
          /\ row'[f].step = row[f].step
          /\ row[f].status # "none" => row'[f].status # "none"
          /\ row[f].status = "deleted" => row'[f].status = "deleted"
    BY <1>a, <1>b DEF Resume, IInv, TypeOK
  <2>2. UNCHANGED <<todo, current>>
    BY DEF Resume, Edit, work
  <2>. QED BY <2>1, <2>2, HandsKept
<1>3. SequenceOK'
  BY <1>a, <1>b, SequencesAssumption DEF Resume, Edit, Incident, work, sendLog, history, IInv,
     TypeOK, SequenceOK
<1>4. DoneOK'
  BY <1>a, <1>b, SequencesAssumption DEF Resume, Edit, Incident, work, sendLog, history, IInv,
     TypeOK, DoneOK, HandsOK
<1>5. CapsOK'
  BY <1>a, <1>b, SequencesAssumption DEF Resume, Edit, Incident, work, sendLog, history, IInv,
     TypeOK, CapsOK, CapsHold
<1>6. NotForgotten'
  BY <1>a, <1>b, SequencesAssumption DEF Resume, Edit, Incident, work, sendLog, history, IInv,
     TypeOK, NotForgotten, InHands
<1>7. RepliedOK'
  BY <1>a, <1>b, SequencesAssumption DEF Resume, Edit, Incident, work, sendLog, history, IInv,
     TypeOK, RepliedOK, InHands
<1>. QED BY <1>1, <1>2, <1>3, <1>4, <1>5, <1>6, <1>7 DEF IInv

LEMMA CancelInv == ASSUME IInv, NEW e \in Enrollment, Cancel(e) PROVE IInv'
<1>a. row[e] \in Rows /\ row' = [row EXCEPT ![e] = Exit(row[e], "cancelled")]
  BY DEF Cancel, IInv, TypeOK
<1>b. /\ Exit(row[e], "cancelled") \in Rows
      /\ Exit(row[e], "cancelled").status = "cancelled"
      /\ Exit(row[e], "cancelled").step = row[e].step
  BY <1>a, ExitRow, RescheduleRow, RetriedRow, SequencesAssumption DEF Cancel, Rows, Statuses,
     Ended, NewRow
<1>1. TypeOK'
  BY <1>a, <1>b, SequencesAssumption DEF Cancel, Edit, Incident, work, sendLog, history, IInv,
     TypeOK
<1>2. HandsOK'
  BY <1>a, <1>b, SequencesAssumption DEF Cancel, Edit, Incident, work, sendLog, history, IInv,
     TypeOK, HandsOK
<1>3. SequenceOK'
  BY <1>a, <1>b, SequencesAssumption DEF Cancel, Edit, Incident, work, sendLog, history, IInv,
     TypeOK, SequenceOK
<1>4. DoneOK'
  BY <1>a, <1>b, SequencesAssumption DEF Cancel, Edit, Incident, work, sendLog, history, IInv,
     TypeOK, DoneOK, HandsOK
<1>5. CapsOK'
  BY <1>a, <1>b, SequencesAssumption DEF Cancel, Edit, Incident, work, sendLog, history, IInv,
     TypeOK, CapsOK, CapsHold
<1>6. NotForgotten'
  BY <1>a, <1>b, SequencesAssumption DEF Cancel, Edit, Incident, work, sendLog, history, IInv,
     TypeOK, NotForgotten, InHands
<1>7. RepliedOK'
  BY <1>a, <1>b, SequencesAssumption DEF Cancel, Edit, Incident, work, sendLog, history, IInv,
     TypeOK, RepliedOK, InHands
<1>. QED BY <1>1, <1>2, <1>3, <1>4, <1>5, <1>6, <1>7 DEF IInv

LEMMA ReplyInv == ASSUME IInv, NEW e \in Enrollment, Reply(e) PROVE IInv'
<1>a. row[e] \in Rows /\ row' = [row EXCEPT ![e] = Exit(row[e], "replied")]
  BY DEF Reply, IInv, TypeOK
<1>b. /\ Exit(row[e], "replied") \in Rows
      /\ Exit(row[e], "replied").status = "replied"
      /\ Exit(row[e], "replied").step = row[e].step
  BY <1>a, ExitRow, RescheduleRow, RetriedRow, SequencesAssumption DEF Reply, Rows, Statuses,
     Ended, NewRow
<1>1. TypeOK'
  BY <1>a, <1>b, SequencesAssumption DEF Reply, MayMatch, Idle, work, sendLog, history, IInv,
     TypeOK
<1>2. HandsOK'
  BY <1>a, <1>b, SequencesAssumption DEF Reply, MayMatch, Idle, work, sendLog, history, IInv,
     TypeOK, HandsOK
<1>3. SequenceOK'
  BY <1>a, <1>b, SequencesAssumption DEF Reply, MayMatch, Idle, work, sendLog, history, IInv,
     TypeOK, SequenceOK
<1>4. DoneOK'
  BY <1>a, <1>b, SequencesAssumption DEF Reply, MayMatch, Idle, work, sendLog, history, IInv,
     TypeOK, DoneOK, HandsOK
<1>5. CapsOK'
  BY <1>a, <1>b, SequencesAssumption DEF Reply, MayMatch, Idle, work, sendLog, history, IInv,
     TypeOK, CapsOK, CapsHold
<1>6. NotForgotten'
  BY <1>a, <1>b, SequencesAssumption DEF Reply, MayMatch, Idle, work, sendLog, history, IInv,
     TypeOK, NotForgotten, InHands
<1>7. RepliedOK'
  BY <1>a, <1>b, SequencesAssumption DEF Reply, MayMatch, Idle, work, sendLog, history, IInv,
     TypeOK, RepliedOK, InHands
<1>. QED BY <1>1, <1>2, <1>3, <1>4, <1>5, <1>6, <1>7 DEF IInv

LEMMA DelayPassesInv == ASSUME IInv, NEW e \in Enrollment, DelayPasses(e) PROVE IInv'
<1>a. row[e] \in Rows /\ row' = [row EXCEPT ![e] = [row[e] EXCEPT !.next = "due"]]
  BY DEF DelayPasses, IInv, TypeOK
<1>b. /\ [row[e] EXCEPT !.next = "due"] \in Rows
      /\ [row[e] EXCEPT !.next = "due"].status = row[e].status
      /\ [row[e] EXCEPT !.next = "due"].step = row[e].step
      /\ [row[e] EXCEPT !.next = "due"].next = "due"
  BY <1>a, ExitRow, RescheduleRow, RetriedRow, SequencesAssumption DEF DelayPasses, Rows,
     Statuses, Ended, NewRow
<1>1. TypeOK'
  BY <1>a, <1>b, SequencesAssumption DEF DelayPasses, work, sendLog, history, IInv, TypeOK
<1>2. HandsOK'
  BY <1>a, <1>b, SequencesAssumption DEF DelayPasses, work, sendLog, history, IInv, TypeOK,
     HandsOK
<1>3. SequenceOK'
  BY <1>a, <1>b, SequencesAssumption DEF DelayPasses, work, sendLog, history, IInv, TypeOK,
     SequenceOK
<1>4. DoneOK'
  BY <1>a, <1>b, SequencesAssumption DEF DelayPasses, work, sendLog, history, IInv, TypeOK,
     DoneOK, HandsOK
<1>5. CapsOK'
  BY <1>a, <1>b, SequencesAssumption DEF DelayPasses, work, sendLog, history, IInv, TypeOK,
     CapsOK, CapsHold
<1>6. NotForgotten'
  BY <1>a, <1>b, SequencesAssumption DEF DelayPasses, work, sendLog, history, IInv, TypeOK,
     NotForgotten, InHands
<1>7. RepliedOK'
  BY <1>a, <1>b, SequencesAssumption DEF DelayPasses, work, sendLog, history, IInv, TypeOK,
     RepliedOK, InHands
<1>. QED BY <1>1, <1>2, <1>3, <1>4, <1>5, <1>6, <1>7 DEF IInv

LEMMA CooldownPassesInv == ASSUME IInv, NEW e \in Enrollment, CooldownPasses(e) PROVE IInv'
<1>a. row[e] \in Rows /\ row' = [row EXCEPT ![e] = [row[e] EXCEPT !.recent = FALSE]]
  BY DEF CooldownPasses, IInv, TypeOK
<1>b. /\ [row[e] EXCEPT !.recent = FALSE] \in Rows
      /\ [row[e] EXCEPT !.recent = FALSE].status = row[e].status
      /\ [row[e] EXCEPT !.recent = FALSE].step = row[e].step
      /\ [row[e] EXCEPT !.recent = FALSE].next = row[e].next
  BY <1>a, ExitRow, RescheduleRow, RetriedRow, SequencesAssumption DEF CooldownPasses, Rows,
     Statuses, Ended, NewRow
<1>1. TypeOK'
  BY <1>a, <1>b, SequencesAssumption DEF CooldownPasses, work, sendLog, history, IInv, TypeOK
<1>2. HandsOK'
  BY <1>a, <1>b, SequencesAssumption DEF CooldownPasses, work, sendLog, history, IInv, TypeOK,
     HandsOK
<1>3. SequenceOK'
  BY <1>a, <1>b, SequencesAssumption DEF CooldownPasses, work, sendLog, history, IInv, TypeOK,
     SequenceOK
<1>4. DoneOK'
  BY <1>a, <1>b, SequencesAssumption DEF CooldownPasses, work, sendLog, history, IInv, TypeOK,
     DoneOK, HandsOK
<1>5. CapsOK'
  BY <1>a, <1>b, SequencesAssumption DEF CooldownPasses, work, sendLog, history, IInv, TypeOK,
     CapsOK, CapsHold
<1>6. NotForgotten'
  BY <1>a, <1>b, SequencesAssumption DEF CooldownPasses, work, sendLog, history, IInv, TypeOK,
     NotForgotten, InHands
<1>7. RepliedOK'
  BY <1>a, <1>b, SequencesAssumption DEF CooldownPasses, work, sendLog, history, IInv, TypeOK,
     RepliedOK, InHands
<1>. QED BY <1>1, <1>2, <1>3, <1>4, <1>5, <1>6, <1>7 DEF IInv

LEMMA UpdateSequenceInv == ASSUME IInv, UpdateSequence PROVE IInv'
<1>1. TypeOK'
  BY SequencesAssumption DEF UpdateSequence, Edit, Incident, work, sendLog, history, IInv,
     TypeOK
<1>2. HandsOK'
  BY SequencesAssumption DEF UpdateSequence, Edit, Incident, work, sendLog, history, IInv,
     TypeOK, HandsOK
<1>3. SequenceOK'
  BY SequencesAssumption DEF UpdateSequence, Edit, Incident, work, sendLog, history, IInv,
     TypeOK, SequenceOK
<1>4. DoneOK'
  BY SequencesAssumption DEF UpdateSequence, Edit, Incident, work, sendLog, history, IInv,
     TypeOK, DoneOK, HandsOK
<1>5. CapsOK'
  BY SequencesAssumption DEF UpdateSequence, Edit, Incident, work, sendLog, history, IInv,
     TypeOK, CapsOK, CapsHold
<1>6. NotForgotten'
  BY SequencesAssumption DEF UpdateSequence, Edit, Incident, work, sendLog, history, IInv,
     TypeOK, NotForgotten, InHands
<1>7. RepliedOK'
  BY SequencesAssumption DEF UpdateSequence, Edit, Incident, work, sendLog, history, IInv,
     TypeOK, RepliedOK, InHands
<1>. QED BY <1>1, <1>2, <1>3, <1>4, <1>5, <1>6, <1>7 DEF IInv

LEMMA DeleteSequenceInv == ASSUME IInv, DeleteSequence PROVE IInv'
<1>a. /\ row' \in [Enrollment -> Rows]
      /\ \A e \in Enrollment : IF row[e].status = "none" THEN row'[e] = row[e]
                                ELSE row'[e].status = "deleted" /\ row'[e].step = row[e].step
  <2>1. row' = [e \in Enrollment |->
                  IF row[e].status = "none" THEN row[e]
                  ELSE [row[e] EXCEPT !.status = "deleted", !.next = "null"]]
    BY DEF DeleteSequence
  <2>2. \A e \in Enrollment : row[e] \in Rows
    BY DEF IInv, TypeOK
  <2>3. \A r \in Rows : /\ [r EXCEPT !.status = "deleted", !.next = "null"] \in Rows
                        /\ [r EXCEPT !.status = "deleted", !.next = "null"].status = "deleted"
                        /\ [r EXCEPT !.status = "deleted", !.next = "null"].step = r.step
    BY DEF Rows, Statuses, Ended
  <2>. QED BY <2>1, <2>2, <2>3
<1>1. TypeOK'
  <2>1. sequence' = "deleted" /\ UNCHANGED <<plan, todo, current, hour, day, done, drafted, stranded>>
    BY DEF DeleteSequence, Edit, work, sendLog, history
  <2>2. incidents' \in 0..MaxIncidents
    <3>1. Incident
      BY DEF DeleteSequence, Edit
    <3>. QED BY <3>1, SequencesAssumption DEF Incident, IInv, TypeOK
  <2>. QED BY <1>a, <2>1, <2>2 DEF IInv, TypeOK
<1>2. HandsOK'
  <2>1. \A f \in Enrollment :
          /\ row'[f].step = row[f].step
          /\ row[f].status # "none" => row'[f].status # "none"
          /\ row[f].status = "deleted" => row'[f].status = "deleted"
    BY <1>a DEF DeleteSequence, IInv, TypeOK
  <2>2. UNCHANGED <<todo, current>>
    BY DEF DeleteSequence, Edit, work
  <2>. QED BY <2>1, <2>2, HandsKept
<1>3. SequenceOK'
  BY <1>a, SequencesAssumption DEF DeleteSequence, Edit, Incident, work, sendLog, history, IInv,
     TypeOK, SequenceOK
<1>4. DoneOK'
  BY <1>a, SequencesAssumption DEF DeleteSequence, Edit, Incident, work, sendLog, history, IInv,
     TypeOK, DoneOK, HandsOK
<1>5. CapsOK'
  BY <1>a, SequencesAssumption DEF DeleteSequence, Edit, Incident, work, sendLog, history, IInv,
     TypeOK, CapsOK, CapsHold
<1>6. NotForgotten'
  BY <1>a, SequencesAssumption DEF DeleteSequence, Edit, Incident, work, sendLog, history, IInv,
     TypeOK, NotForgotten, InHands
<1>7. RepliedOK'
  BY <1>a, SequencesAssumption DEF DeleteSequence, Edit, Incident, work, sendLog, history, IInv,
     TypeOK, RepliedOK, InHands
<1>. QED BY <1>1, <1>2, <1>3, <1>4, <1>5, <1>6, <1>7 DEF IInv

LEMMA HourPassesInv == ASSUME IInv, HourPasses PROVE IInv'
<1>1. TypeOK'
  BY SequencesAssumption DEF HourPasses, work, sendLog, history, IInv, TypeOK
<1>2. HandsOK'
  BY SequencesAssumption DEF HourPasses, work, sendLog, history, IInv, TypeOK, HandsOK
<1>3. SequenceOK'
  BY SequencesAssumption DEF HourPasses, work, sendLog, history, IInv, TypeOK, SequenceOK
<1>4. DoneOK'
  BY SequencesAssumption DEF HourPasses, work, sendLog, history, IInv, TypeOK, DoneOK, HandsOK
<1>5. CapsOK'
  BY SequencesAssumption DEF HourPasses, work, sendLog, history, IInv, TypeOK, CapsOK, CapsHold
<1>6. NotForgotten'
  BY SequencesAssumption DEF HourPasses, work, sendLog, history, IInv, TypeOK, NotForgotten,
     InHands
<1>7. RepliedOK'
  BY SequencesAssumption DEF HourPasses, work, sendLog, history, IInv, TypeOK, RepliedOK,
     InHands
<1>. QED BY <1>1, <1>2, <1>3, <1>4, <1>5, <1>6, <1>7 DEF IInv

LEMMA DayPassesInv == ASSUME IInv, DayPasses PROVE IInv'
<1>1. TypeOK'
  BY SequencesAssumption DEF DayPasses, work, sendLog, history, IInv, TypeOK
<1>2. HandsOK'
  BY SequencesAssumption DEF DayPasses, work, sendLog, history, IInv, TypeOK, HandsOK
<1>3. SequenceOK'
  BY SequencesAssumption DEF DayPasses, work, sendLog, history, IInv, TypeOK, SequenceOK
<1>4. DoneOK'
  BY SequencesAssumption DEF DayPasses, work, sendLog, history, IInv, TypeOK, DoneOK, HandsOK
<1>5. CapsOK'
  BY SequencesAssumption DEF DayPasses, work, sendLog, history, IInv, TypeOK, CapsOK, CapsHold
<1>6. NotForgotten'
  BY SequencesAssumption DEF DayPasses, work, sendLog, history, IInv, TypeOK, NotForgotten,
     InHands
<1>7. RepliedOK'
  BY SequencesAssumption DEF DayPasses, work, sendLog, history, IInv, TypeOK, RepliedOK, InHands
<1>. QED BY <1>1, <1>2, <1>3, <1>4, <1>5, <1>6, <1>7 DEF IInv
-----------------------------------------------------------------------------
(* The engine *)

LEMMA ClaimInv == ASSUME IInv, NEW batch \in SUBSET Enrollment, Claim(batch) PROVE IInv'
<1>a. /\ row' \in [Enrollment -> Rows]
      /\ \A e \in Enrollment : /\ row'[e].status = row[e].status /\ row'[e].step = row[e].step
                               /\ e \notin batch => row'[e] = row[e]
                               /\ e \in batch => row[e].status = "active"
  BY DEF Claim, Claimed, Due, IInv, TypeOK, Rows
<1>b. /\ \A e \in Enrollment : row[e].step \in 0..MaxSteps
      /\ \A e \in Enrollment, s \in 0..MaxSteps :
            <<e, s>> \in todo' <=> e \in batch /\ s = row[e].step
      /\ todo' \subseteq Enrollment \X (0..MaxSteps)
      /\ current = NoOne /\ current' = NoOne /\ todo = {}
  BY DEF Claim, Idle, IInv, TypeOK, Rows
<1>1. TypeOK'
  BY <1>a, <1>b, SequencesAssumption DEF Claim, work, sendLog, history, IInv, TypeOK
<1>2. HandsOK'
  BY <1>a, <1>b, SequencesAssumption DEF Claim, work, sendLog, history, IInv, TypeOK, HandsOK
<1>3. SequenceOK'
  BY <1>a, <1>b, SequencesAssumption DEF Claim, work, sendLog, history, IInv, TypeOK, SequenceOK
<1>4. DoneOK'
  BY <1>a, <1>b, SequencesAssumption DEF Claim, work, sendLog, history, IInv, TypeOK, DoneOK,
     HandsOK
<1>5. CapsOK'
  BY <1>a, <1>b, SequencesAssumption DEF Claim, work, sendLog, history, IInv, TypeOK, CapsOK,
     CapsHold
<1>6. NotForgotten'
  BY <1>a, <1>b, SequencesAssumption DEF Claim, work, sendLog, history, IInv, TypeOK,
     NotForgotten, InHands
<1>7. RepliedOK'
  BY <1>a, <1>b, SequencesAssumption DEF Claim, work, sendLog, history, IInv, TypeOK, RepliedOK,
     InHands
<1>. QED BY <1>1, <1>2, <1>3, <1>4, <1>5, <1>6, <1>7 DEF IInv

LEMMA SkipDeletedInv == ASSUME IInv, NEW e \in Enrollment, NEW s \in 0..MaxSteps,
      <<e, s>> \in todo, SkipDeleted(e, s) PROVE IInv'
<1>a. row[e] \in Rows /\ row[e].status # "none" /\ <<e, s>> \in todo /\ current = NoOne
  BY DEF SkipDeleted, Drop, IInv, TypeOK, HandsOK
<1>1. TypeOK'
  BY <1>a, SequencesAssumption DEF SkipDeleted, Drop, work, sendLog, history, IInv, TypeOK
<1>2. HandsOK'
  BY <1>a, SequencesAssumption DEF SkipDeleted, Drop, work, sendLog, history, IInv, TypeOK,
     HandsOK
<1>3. SequenceOK'
  BY <1>a, SequencesAssumption DEF SkipDeleted, Drop, work, sendLog, history, IInv, TypeOK,
     SequenceOK
<1>4. DoneOK'
  BY <1>a, SequencesAssumption DEF SkipDeleted, Drop, work, sendLog, history, IInv, TypeOK,
     DoneOK, HandsOK
<1>5. CapsOK'
  BY <1>a, SequencesAssumption DEF SkipDeleted, Drop, work, sendLog, history, IInv, TypeOK,
     CapsOK, CapsHold
<1>6. NotForgotten'
  <2>1. \A f \in Enrollment : row[f].status # "active"
    BY DEF SkipDeleted, IInv, SequenceOK
  <2>. QED BY <2>1 DEF SkipDeleted, NotForgotten
<1>7. RepliedOK'
  BY <1>a, SequencesAssumption DEF SkipDeleted, Drop, work, sendLog, history, IInv, TypeOK,
     RepliedOK, InHands
<1>. QED BY <1>1, <1>2, <1>3, <1>4, <1>5, <1>6, <1>7 DEF IInv

LEMMA SkipPausedInv == ASSUME IInv, NEW e \in Enrollment, NEW s \in 0..MaxSteps,
      <<e, s>> \in todo, SkipPaused(e, s) PROVE IInv'
<1>a. row[e] \in Rows /\ row[e].status # "none" /\ <<e, s>> \in todo /\ current = NoOne
  BY DEF SkipPaused, Drop, IInv, TypeOK, HandsOK
<1>b. /\ row' = [row EXCEPT ![e] = Reschedule(row[e])]
      /\ Reschedule(row[e]) \in Rows /\ Reschedule(row[e]).step = row[e].step
      /\ Reschedule(row[e]).status = row[e].status
      /\ (Reschedule(row[e]).status # "deleted" => Reschedule(row[e]).next = "later")
  BY <1>a, ExitRow, RescheduleRow, RetriedRow DEF SkipPaused
<1>1. TypeOK'
  BY <1>a, <1>b, SequencesAssumption DEF SkipPaused, Drop, work, sendLog, history, IInv, TypeOK
<1>2. HandsOK'
  BY <1>a, <1>b, SequencesAssumption DEF SkipPaused, Drop, work, sendLog, history, IInv, TypeOK,
     HandsOK
<1>3. SequenceOK'
  BY <1>a, <1>b, SequencesAssumption DEF SkipPaused, Drop, work, sendLog, history, IInv, TypeOK,
     SequenceOK
<1>4. DoneOK'
  BY <1>a, <1>b, SequencesAssumption DEF SkipPaused, Drop, work, sendLog, history, IInv, TypeOK,
     DoneOK, HandsOK
<1>5. CapsOK'
  BY <1>a, <1>b, SequencesAssumption DEF SkipPaused, Drop, work, sendLog, history, IInv, TypeOK,
     CapsOK, CapsHold
<1>6. NotForgotten'
  BY <1>a, <1>b, SequencesAssumption DEF SkipPaused, Drop, work, sendLog, history, IInv, TypeOK,
     NotForgotten, InHands
<1>7. RepliedOK'
  BY <1>a, <1>b, SequencesAssumption DEF SkipPaused, Drop, work, sendLog, history, IInv, TypeOK,
     RepliedOK, InHands
<1>. QED BY <1>1, <1>2, <1>3, <1>4, <1>5, <1>6, <1>7 DEF IInv

LEMMA OutOfStepsInv == ASSUME IInv, NEW e \in Enrollment, NEW s \in 0..MaxSteps,
      <<e, s>> \in todo, OutOfSteps(e, s) PROVE IInv'
<1>a. row[e] \in Rows /\ row[e].status # "none" /\ <<e, s>> \in todo /\ current = NoOne
  BY DEF OutOfSteps, Drop, IInv, TypeOK, HandsOK
<1>b. /\ row' = [row EXCEPT ![e] = Exit(row[e], "completed")]
      /\ Exit(row[e], "completed") \in Rows /\ Exit(row[e], "completed").step = row[e].step
      /\ Exit(row[e], "completed").status = IF row[e].status = "deleted" THEN "deleted" ELSE "completed"
  BY <1>a, ExitRow, RescheduleRow, RetriedRow DEF OutOfSteps
<1>1. TypeOK'
  BY <1>a, <1>b, SequencesAssumption DEF OutOfSteps, Drop, work, sendLog, history, IInv, TypeOK
<1>2. HandsOK'
  BY <1>a, <1>b, SequencesAssumption DEF OutOfSteps, Drop, work, sendLog, history, IInv, TypeOK,
     HandsOK
<1>3. SequenceOK'
  BY <1>a, <1>b, SequencesAssumption DEF OutOfSteps, Drop, work, sendLog, history, IInv, TypeOK,
     SequenceOK
<1>4. DoneOK'
  BY <1>a, <1>b, SequencesAssumption DEF OutOfSteps, Drop, work, sendLog, history, IInv, TypeOK,
     DoneOK, HandsOK
<1>5. CapsOK'
  BY <1>a, <1>b, SequencesAssumption DEF OutOfSteps, Drop, work, sendLog, history, IInv, TypeOK,
     CapsOK, CapsHold
<1>6. NotForgotten'
  BY <1>a, <1>b, SequencesAssumption DEF OutOfSteps, Drop, work, sendLog, history, IInv, TypeOK,
     NotForgotten, InHands
<1>7. RepliedOK'
  BY <1>a, <1>b, SequencesAssumption DEF OutOfSteps, Drop, work, sendLog, history, IInv, TypeOK,
     RepliedOK, InHands
<1>. QED BY <1>1, <1>2, <1>3, <1>4, <1>5, <1>6, <1>7 DEF IInv

LEMMA DeferInv == ASSUME IInv, NEW e \in Enrollment, NEW s \in 0..MaxSteps,
      <<e, s>> \in todo, Defer(e, s) PROVE IInv'
<1>a. row[e] \in Rows /\ row[e].status # "none" /\ <<e, s>> \in todo /\ current = NoOne
  BY DEF Defer, Drop, IInv, TypeOK, HandsOK
<1>b. /\ row' = [row EXCEPT ![e] = Reschedule(row[e])]
      /\ Reschedule(row[e]) \in Rows /\ Reschedule(row[e]).step = row[e].step
      /\ Reschedule(row[e]).status = row[e].status
      /\ (Reschedule(row[e]).status # "deleted" => Reschedule(row[e]).next = "later")
  BY <1>a, ExitRow, RescheduleRow, RetriedRow DEF Defer
<1>1. TypeOK'
  BY <1>a, <1>b, SequencesAssumption DEF Defer, Drop, work, sendLog, history, IInv, TypeOK
<1>2. HandsOK'
  BY <1>a, <1>b, SequencesAssumption DEF Defer, Drop, work, sendLog, history, IInv, TypeOK,
     HandsOK
<1>3. SequenceOK'
  BY <1>a, <1>b, SequencesAssumption DEF Defer, Drop, work, sendLog, history, IInv, TypeOK,
     SequenceOK
<1>4. DoneOK'
  BY <1>a, <1>b, SequencesAssumption DEF Defer, Drop, work, sendLog, history, IInv, TypeOK,
     DoneOK, HandsOK
<1>5. CapsOK'
  BY <1>a, <1>b, SequencesAssumption DEF Defer, Drop, work, sendLog, history, IInv, TypeOK,
     CapsOK, CapsHold
<1>6. NotForgotten'
  BY <1>a, <1>b, SequencesAssumption DEF Defer, Drop, work, sendLog, history, IInv, TypeOK,
     NotForgotten, InHands
<1>7. RepliedOK'
  BY <1>a, <1>b, SequencesAssumption DEF Defer, Drop, work, sendLog, history, IInv, TypeOK,
     RepliedOK, InHands
<1>. QED BY <1>1, <1>2, <1>3, <1>4, <1>5, <1>6, <1>7 DEF IInv

LEMMA StartInv == ASSUME IInv, NEW e \in Enrollment, NEW s \in 0..MaxSteps,
      <<e, s>> \in todo, Start(e, s) PROVE IInv'
<1>a. row[e].status \notin {"none", "deleted"} /\ row[e].step = s /\ current = NoOne
  BY DEF Start, IInv, HandsOK, SequenceOK
<1>b. /\ s \in Steps /\ current' \in Current /\ current'.who = e /\ current'.step = s
      /\ current' # NoOne
  <2>1. plan \in Plans /\ Len(plan) \in 1..MaxSteps /\ s < Len(plan)
    BY SequencesAssumption DEF Start, IInv, TypeOK
  <2>2. s \in Steps
    BY <2>1, SequencesAssumption DEF Steps
  <2>3. PICK d \in BOOLEAN, l \in BOOLEAN :
          current' = [who |-> e, step |-> s, draft |-> d, last |-> l]
    <3>. DEFINE d == plan[s + 1] = "draft"
                l == s + 1 >= Len(plan)
    <3>1. d \in BOOLEAN /\ l \in BOOLEAN
      BY <2>1, SequencesAssumption
    <3>2. current' = [who |-> e, step |-> s, draft |-> d, last |-> l]
      BY DEF Start
    <3>. QED BY <3>1, <3>2
  <2>4. current' \in Current
    BY <2>2, <2>3 DEF Current
  <2>. QED BY <2>2, <2>3, <2>4, SequencesAssumption
<1>c. hour < HourlyRate /\ day < DailyCap
  BY SequencesAssumption DEF Start, Guarded, RateReached, IInv, TypeOK
<1>d. done[e] = 0..(s - 1) /\ s \notin 0..(s - 1)
  BY <1>a DEF IInv, DoneOK
<1>e. /\ todo' = todo \ {<<e, s>>}
      /\ UNCHANGED <<sequence, plan, row, hour, day, incidents, done, drafted, stranded>>
  BY DEF Start, sendLog, history
<1>1. TypeOK'
  BY <1>a, <1>b, <1>c, <1>d, <1>e DEF IInv, TypeOK
<1>2. HandsOK'
  BY <1>a, <1>b, <1>c, <1>d, <1>e DEF IInv, TypeOK, HandsOK
<1>3. SequenceOK'
  BY <1>a, <1>b, <1>c, <1>d, <1>e DEF IInv, TypeOK, SequenceOK
<1>4. DoneOK'
  BY <1>a, <1>b, <1>c, <1>d, <1>e DEF IInv, TypeOK, DoneOK, HandsOK
<1>5. CapsOK'
  BY <1>a, <1>b, <1>c, <1>d, <1>e DEF IInv, TypeOK, CapsOK, CapsHold
<1>6. NotForgotten'
  BY <1>a, <1>b, <1>c, <1>d, <1>e DEF IInv, TypeOK, NotForgotten, InHands
<1>7. RepliedOK'
  BY <1>a, <1>b, <1>c, <1>d, <1>e DEF IInv, TypeOK, RepliedOK, InHands
<1>. QED BY <1>1, <1>2, <1>3, <1>4, <1>5, <1>6, <1>7 DEF IInv

LEMMA FinishDraftInv == ASSUME IInv, FinishDraft PROVE IInv'
<1>a. /\ current \in Current /\ current.who \in Enrollment /\ current.step \in Steps
      /\ current.last \in BOOLEAN /\ row[current.who] \in Rows
      /\ row[current.who].status # "none"
  BY DEF FinishDraft, IInv, TypeOK, HandsOK, Current
<1>b. /\ row' = [row EXCEPT ![current.who] = Write(row[current.who], [row[current.who] EXCEPT !.thread = TRUE])]
      /\ Write(row[current.who], [row[current.who] EXCEPT !.thread = TRUE]) \in Rows
      /\ Write(row[current.who], [row[current.who] EXCEPT !.thread = TRUE]).status = row[current.who].status
      /\ Write(row[current.who], [row[current.who] EXCEPT !.thread = TRUE]).step = row[current.who].step
  BY <1>a DEF FinishDraft, Write, Rows
<1>c. <<current.who, current.step>> \in Enrollment \X Steps
  BY <1>a
<1>1. TypeOK'
  BY <1>a, <1>b, <1>c, SequencesAssumption DEF FinishDraft, work, sendLog, history, IInv, TypeOK
<1>2. HandsOK'
  BY <1>a, <1>b, <1>c, SequencesAssumption DEF FinishDraft, work, sendLog, history, IInv,
     TypeOK, HandsOK
<1>3. SequenceOK'
  BY <1>a, <1>b, <1>c, SequencesAssumption DEF FinishDraft, work, sendLog, history, IInv,
     TypeOK, SequenceOK
<1>4. DoneOK'
  BY <1>a, <1>b, <1>c, SequencesAssumption DEF FinishDraft, work, sendLog, history, IInv,
     TypeOK, DoneOK, HandsOK
<1>5. CapsOK'
  BY <1>a, <1>b, <1>c, SequencesAssumption DEF FinishDraft, work, sendLog, history, IInv,
     TypeOK, CapsOK, CapsHold
<1>6. NotForgotten'
  <2> SUFFICES ASSUME NEW e \in Enrollment, row'[e].status = "active", row'[e].next = "null"
               PROVE  InHands(e)' \/ <<e, row'[e].step>> \in drafted' \/ e \in stranded'
    BY DEF NotForgotten
  <2>1. CASE e = current.who
    <3>1. row[e].status = "active" /\ row'[e].step = current.step
      BY <1>a, <1>b, <2>1 DEF FinishDraft, IInv, TypeOK, HandsOK
    <3>. QED BY <2>1, <3>1 DEF FinishDraft
  <2>2. CASE e # current.who
    <3>1. row'[e] = row[e]
      BY <1>b, <2>2 DEF IInv, TypeOK
    <3>. QED BY <2>2, <3>1 DEF FinishDraft, IInv, NotForgotten, InHands
  <2>. QED BY <2>1, <2>2
<1>7. RepliedOK'
  BY <1>a, <1>b, <1>c, SequencesAssumption DEF FinishDraft, work, sendLog, history, IInv,
     TypeOK, RepliedOK, InHands
<1>. QED BY <1>1, <1>2, <1>3, <1>4, <1>5, <1>6, <1>7 DEF IInv

LEMMA FinishSendInv == ASSUME IInv, FinishSend PROVE IInv'
<1>a. /\ current \in Current /\ current.who \in Enrollment /\ current.step \in Steps
      /\ current.last \in BOOLEAN /\ row[current.who] \in Rows
      /\ row[current.who].status # "none"
  BY DEF FinishSend, IInv, TypeOK, HandsOK, Current
<1>b. current.step + 1 \in 0..MaxSteps
  BY <1>a, SequencesAssumption DEF Steps
<1>c. PICK r \in Rows :
        /\ row' = [row EXCEPT ![current.who] = r]
        /\ row[current.who].status = "deleted" => r.status = "deleted"
        /\ row[current.who].status # "deleted" =>
             /\ r.step = row[current.who].step + 1
             /\ r.status \in {row[current.who].status, "completed"}
             /\ r.status = "active" => r.next = "later"
  <2>. DEFINE q == row[current.who]
              ad == Advance(q, current.last)
              r == IF current.last THEN Exit(ad, "completed") ELSE ad
  <2>1. CASE q.status = "deleted"
    <3>1. ad = q
      BY <2>1 DEF Advance, Write
    <3>2. r \in Rows /\ r.status = "deleted" /\ row' = [row EXCEPT ![current.who] = r]
      BY <1>a, <2>1, <3>1, ExitRow, RescheduleRow, RetriedRow DEF FinishSend
    <3>. HIDE DEF r
    <3>. QED BY <2>1, <3>2
  <2>2. CASE q.status # "deleted"
    <3>1. q.step = current.step
      BY <2>2 DEF FinishSend, IInv, HandsOK
    <3>2. /\ ad \in Rows /\ ad.status = q.status /\ ad.step = q.step + 1
          /\ ~current.last => ad.next = "later"
      BY <1>a, <1>b, <2>2, <3>1, AdvanceRow
    <3>3. Exit(ad, "completed") \in Rows /\ Exit(ad, "completed").step = ad.step
          /\ Exit(ad, "completed").status = "completed"
      BY <2>2, <3>2, ExitRow, RescheduleRow, RetriedRow
    <3>4. row' = [row EXCEPT ![current.who] = r]
      BY DEF FinishSend
    <3>5. r \in Rows /\ r.step = q.step + 1 /\ r.status \in {q.status, "completed"}
          /\ (r.status = "active" => r.next = "later")
      BY <3>2, <3>3
    <3>. HIDE DEF r
    <3>. QED BY <2>2, <3>4, <3>5
  <2>. QED BY <2>1, <2>2
<1>d. row[current.who].status # "deleted" =>
        /\ row[current.who].step = current.step
        /\ done'[current.who] = 0..(current.step + 1 - 1)
  <2> SUFFICES ASSUME row[current.who].status # "deleted"
               PROVE  /\ row[current.who].step = current.step
                      /\ done'[current.who] = 0..(current.step + 1 - 1)
    OBVIOUS
  <2>1. row[current.who].step = current.step
    BY DEF FinishSend, IInv, HandsOK
  <2>2. done[current.who] = 0..(current.step - 1)
    BY <1>a, <2>1 DEF IInv, DoneOK
  <2>3. done'[current.who] = done[current.who] \union {current.step}
    BY <1>a DEF FinishSend, IInv, TypeOK
  <2>4. current.step \in Nat
    BY <1>a, SequencesAssumption DEF Steps
  <2>5. 0..(current.step - 1) \union {current.step} = 0..(current.step + 1 - 1)
    BY <2>4, UpTo
  <2>. QED BY <2>1, <2>2, <2>3, <2>5
<1>e. /\ current' = NoOne /\ hour' = hour + 1 /\ day' = day + 1
      /\ done' = [done EXCEPT ![current.who] = @ \union {current.step}]
      /\ current # NoOne
      /\ UNCHANGED <<sequence, plan, todo, incidents, drafted, stranded>>
  BY DEF FinishSend
<1>1. TypeOK'
  BY <1>a, <1>c, <1>d, <1>e, SequencesAssumption DEF IInv, TypeOK
<1>2. HandsOK'
  BY <1>a, <1>c, <1>d, <1>e, SequencesAssumption DEF IInv, TypeOK, HandsOK
<1>3. SequenceOK'
  BY <1>a, <1>c, <1>d, <1>e, SequencesAssumption DEF IInv, TypeOK, SequenceOK
<1>4. DoneOK'
  <2>1. \A e \in Enrollment : e # current.who => row'[e] = row[e] /\ done'[e] = done[e]
    BY <1>c, <1>e DEF IInv, TypeOK
  <2>2. row'[current.who].status # "none"
    BY <1>a, <1>c DEF IInv, TypeOK
  <2>3. CASE row[current.who].status = "deleted"
    <3>1. row'[current.who].status = "deleted"
      BY <1>a, <1>c, <2>3 DEF IInv, TypeOK
    <3>. QED BY <1>a, <1>e, <2>1, <3>1 DEF IInv, DoneOK
  <2>4. CASE row[current.who].status # "deleted"
    <3>1. row'[current.who].step = current.step + 1
      BY <1>a, <1>c, <1>d, <2>4 DEF IInv, TypeOK
    <3>2. done'[current.who] = 0..(row'[current.who].step - 1)
      BY <1>a, <1>d, <2>4, <3>1, SequencesAssumption DEF Steps
    <3>. QED BY <1>a, <1>e, <2>1, <2>2, <3>2 DEF IInv, DoneOK
  <2>. QED BY <2>3, <2>4
<1>5. CapsOK'
  BY <1>a, <1>c, <1>d, <1>e, SequencesAssumption DEF IInv, TypeOK, CapsOK, CapsHold
<1>6. NotForgotten'
  BY <1>a, <1>c, <1>d, <1>e, SequencesAssumption DEF IInv, TypeOK, NotForgotten, InHands
<1>7. RepliedOK'
  BY <1>a, <1>c, <1>d, <1>e, SequencesAssumption DEF IInv, TypeOK, RepliedOK, InHands
<1>. QED BY <1>1, <1>2, <1>3, <1>4, <1>5, <1>6, <1>7 DEF IInv

\* A retried enrollment has a next step if it is active, or is stranded.
LEMMA RetryRow ==
    ASSUME NEW e \in Enrollment, NEW x \in Rows, Retry(e, x)
    PROVE  \E r \in Rows :
             /\ row' = [row EXCEPT ![e] = r]
             /\ r.status = x.status /\ r.step = x.step
             /\ \/ /\ stranded' = stranded
                   /\ r.status = "active" => r.next = "later"
                \/ stranded' = stranded \union {e}
<1>1. CASE row' = [row EXCEPT ![e] = Retried(x)] /\ UNCHANGED stranded
  <2>. DEFINE r == Retried(x)
  <2>1. r \in Rows /\ r.step = x.step /\ r.status = x.status
        /\ (r.status = "active" => r.next = "later")
    BY RetriedRow
  <2>2. row' = [row EXCEPT ![e] = r] /\ stranded' = stranded
    BY <1>1
  <2>. HIDE DEF r
  <2>. QED BY <2>1, <2>2
<1>2. CASE row' = [row EXCEPT ![e] = x] /\ stranded' = stranded \union {e}
  BY <1>2
<1>. QED BY <1>1, <1>2 DEF Retry

LEMMA ThrowEarlyInv == ASSUME IInv, NEW e \in Enrollment, NEW s \in 0..MaxSteps,
      <<e, s>> \in todo, ThrowEarly(e, s) PROVE IInv'
<1>a. row[e] \in Rows /\ row[e].status # "none" /\ <<e, s>> \in todo /\ current = NoOne
  BY DEF ThrowEarly, IInv, TypeOK, HandsOK
<1>b. PICK r \in Rows :
        /\ row' = [row EXCEPT ![e] = r]
        /\ r.status = row[e].status /\ r.step = row[e].step
        /\ \/ stranded' = stranded /\ (r.status = "active" => r.next = "later")
           \/ stranded' = stranded \union {e}
  BY <1>a, RetryRow DEF ThrowEarly
<1>c. /\ todo' = todo \ {<<e, s>>} /\ incidents' \in 0..MaxIncidents
      /\ UNCHANGED <<sequence, plan, current, hour, day, done, drafted>>
  BY SequencesAssumption DEF ThrowEarly, Incident, sendLog, IInv, TypeOK
<1>1. TypeOK'
  BY <1>a, <1>b, <1>c, SequencesAssumption DEF IInv, TypeOK
<1>2. HandsOK'
  BY <1>a, <1>b, <1>c, SequencesAssumption DEF IInv, TypeOK, HandsOK
<1>3. SequenceOK'
  BY <1>a, <1>b, <1>c, SequencesAssumption DEF IInv, TypeOK, SequenceOK
<1>4. DoneOK'
  BY <1>a, <1>b, <1>c, SequencesAssumption DEF IInv, TypeOK, DoneOK, HandsOK
<1>5. CapsOK'
  BY <1>c DEF IInv, CapsOK, CapsHold
<1>6. NotForgotten'
  BY <1>a, <1>b, <1>c, SequencesAssumption DEF IInv, TypeOK, NotForgotten, InHands
<1>7. RepliedOK'
  BY <1>a, <1>b, <1>c, SequencesAssumption DEF IInv, TypeOK, RepliedOK, InHands
<1>. QED BY <1>1, <1>2, <1>3, <1>4, <1>5, <1>6, <1>7 DEF IInv

LEMMA ThrowInv == ASSUME IInv, Throw PROVE IInv'
<1>a. /\ current \in Current /\ current.who \in Enrollment /\ current # NoOne
      /\ row[current.who] \in Rows /\ row[current.who].status # "none"
  BY DEF Throw, IInv, TypeOK, HandsOK, Current
<1>b. PICK r \in Rows :
        /\ row' = [row EXCEPT ![current.who] = r]
        /\ r.status = row[current.who].status /\ r.step = row[current.who].step
        /\ \/ stranded' = stranded /\ (r.status = "active" => r.next = "later")
           \/ stranded' = stranded \union {current.who}
  BY <1>a, RetryRow DEF Throw
<1>c. /\ current' = NoOne /\ incidents' \in 0..MaxIncidents
      /\ UNCHANGED <<sequence, plan, todo, hour, day, done, drafted>>
  BY SequencesAssumption DEF Throw, Retry, Incident, sendLog, IInv, TypeOK
<1>1. TypeOK'
  BY <1>a, <1>b, <1>c, SequencesAssumption DEF IInv, TypeOK
<1>2. HandsOK'
  BY <1>a, <1>b, <1>c, SequencesAssumption DEF IInv, TypeOK, HandsOK
<1>3. SequenceOK'
  BY <1>a, <1>b, <1>c, SequencesAssumption DEF IInv, TypeOK, SequenceOK
<1>4. DoneOK'
  BY <1>a, <1>b, <1>c, SequencesAssumption DEF IInv, TypeOK, DoneOK, HandsOK
<1>5. CapsOK'
  BY <1>c DEF IInv, CapsOK, CapsHold
<1>6. NotForgotten'
  BY <1>a, <1>b, <1>c, SequencesAssumption DEF IInv, TypeOK, NotForgotten, InHands
<1>7. RepliedOK'
  BY <1>a, <1>b, <1>c, SequencesAssumption DEF IInv, TypeOK, RepliedOK, InHands
<1>. QED BY <1>1, <1>2, <1>3, <1>4, <1>5, <1>6, <1>7 DEF IInv

\* Whether the store throws before or after the advance: the row's step and what
\* was done stay together.
LEMMA StoreThrowsInv == ASSUME IInv, StoreThrows PROVE IInv'
<1>. DEFINE q == row[current.who]
<1>a. /\ current \in Current /\ current.who \in Enrollment /\ current.step \in Steps
      /\ current # NoOne /\ q \in Rows /\ q.status # "none"
      /\ q.status # "deleted" => q.step = current.step
  BY DEF StoreThrows, IInv, TypeOK, HandsOK, Current
<1>b. current.step + 1 \in 0..MaxSteps /\ current.step \in Nat
  BY <1>a, SequencesAssumption DEF Steps
<1>c. /\ current' = NoOne /\ incidents' \in 0..MaxIncidents
      /\ hour' = hour + 1 /\ day' = day + 1
      /\ UNCHANGED <<sequence, plan, todo, drafted>>
  <2>1. incidents < MaxIncidents /\ incidents' = incidents + 1
    BY DEF StoreThrows, Incident
  <2>2. incidents' \in 0..MaxIncidents
    BY <2>1, SequencesAssumption DEF IInv, TypeOK
  <2>3. current' = NoOne
    BY DEF StoreThrows, Retry
  <2>. QED BY <2>2, <2>3 DEF StoreThrows
<1>d. PICK r \in Rows :
        /\ row' = [row EXCEPT ![current.who] = r]
        /\ r.status = q.status
        /\ \/ stranded' = stranded /\ (r.status = "active" => r.next = "later")
           \/ stranded' = stranded \union {current.who}
        /\ \/ r.step = q.step /\ done' = done
           \/ /\ r.step = IF q.status = "deleted" THEN q.step ELSE q.step + 1
              /\ done' = [done EXCEPT ![current.who] = @ \union {current.step}]
  <2>1. CASE Retry(current.who, q) /\ UNCHANGED done
    <3>. HIDE DEF q
    <3>. QED BY <1>a, <2>1, RetryRow
  <2>2. CASE /\ Retry(current.who, Advance(q, TRUE))
             /\ done' = [done EXCEPT ![current.who] = @ \union {current.step}]
    <3>. DEFINE ad == Advance(q, TRUE)
    <3>1. /\ ad \in Rows /\ ad.status = q.status
          /\ ad.step = IF q.status = "deleted" THEN q.step ELSE q.step + 1
      <4>1. CASE q.status = "deleted"
        BY <1>a, <4>1 DEF Advance, Write
      <4>2. CASE q.status # "deleted"
        BY <1>a, <1>b, <4>2, AdvanceRow
      <4>. QED BY <4>1, <4>2
    <3>2. Retry(current.who, ad)
      BY <2>2
    <3>. HIDE DEF ad
    <3>. QED BY <1>a, <2>2, <3>1, <3>2, RetryRow
  <2>. QED BY <2>1, <2>2 DEF StoreThrows
<1>e. row' \in [Enrollment -> Rows] /\ row'[current.who] = r
      /\ \A e \in Enrollment : e # current.who => row'[e] = row[e] /\ done'[e] = done[e]
  BY <1>a, <1>d DEF IInv, TypeOK
<1>1. TypeOK'
  BY <1>a, <1>c, <1>d, SequencesAssumption DEF IInv, TypeOK
<1>2. HandsOK'
  BY <1>a, <1>c, <1>d, SequencesAssumption DEF IInv, TypeOK, HandsOK
<1>3. SequenceOK'
  BY <1>a, <1>c, <1>d, SequencesAssumption DEF IInv, TypeOK, SequenceOK
<1>4. DoneOK'
  <2>1. r.status # "deleted" => done'[current.who] = 0..(r.step - 1)
    <3>1. CASE r.step = q.step /\ done' = done
      BY <1>a, <1>d, <3>1 DEF IInv, DoneOK
    <3>2. CASE /\ r.step = IF q.status = "deleted" THEN q.step ELSE q.step + 1
               /\ done' = [done EXCEPT ![current.who] = @ \union {current.step}]
      <4> SUFFICES ASSUME r.status # "deleted"
                   PROVE  done'[current.who] = 0..(r.step - 1)
        OBVIOUS
      <4>1. done[current.who] = 0..(current.step - 1) /\ r.step = current.step + 1
        BY <1>a, <1>d, <3>2 DEF IInv, DoneOK
      <4>2. done'[current.who] = done[current.who] \union {current.step}
        BY <1>a, <3>2 DEF IInv, TypeOK
      <4>3. current.step \in Nat
        BY <1>b
      <4>4. done[current.who] \union {current.step} = 0..(r.step - 1)
        BY <4>1, <4>3, NextStep
      <4>. QED BY <4>2, <4>4
    <3>. QED BY <1>d, <3>1, <3>2
  <2>2. r.status # "none"
    BY <1>a, <1>d
  <2>. QED BY <1>a, <1>c, <1>e, <2>1, <2>2 DEF IInv, DoneOK
<1>5. CapsOK'
  BY <1>a, <1>c, SequencesAssumption DEF IInv, TypeOK, CapsOK, CapsHold
<1>6. NotForgotten'
  BY <1>a, <1>c, <1>d, SequencesAssumption DEF IInv, TypeOK, NotForgotten, InHands
<1>7. RepliedOK'
  BY <1>a, <1>c, <1>d, SequencesAssumption DEF IInv, TypeOK, RepliedOK, InHands
<1>. QED BY <1>1, <1>2, <1>3, <1>4, <1>5, <1>6, <1>7 DEF IInv

LEMMA CrashInv == ASSUME IInv, Crash PROVE IInv'
<1>1. TypeOK'
  BY SequencesAssumption DEF Crash, Incident, work, sendLog, history, InHands, IInv, TypeOK
<1>2. HandsOK'
  BY SequencesAssumption DEF Crash, Incident, work, sendLog, history, InHands, IInv, TypeOK,
     HandsOK
<1>3. SequenceOK'
  BY SequencesAssumption DEF Crash, Incident, work, sendLog, history, InHands, IInv, TypeOK,
     SequenceOK
<1>4. DoneOK'
  BY SequencesAssumption DEF Crash, Incident, work, sendLog, history, InHands, IInv, TypeOK,
     DoneOK, HandsOK
<1>5. CapsOK'
  BY SequencesAssumption DEF Crash, Incident, work, sendLog, history, InHands, IInv, TypeOK,
     CapsOK, CapsHold
<1>6. NotForgotten'
  BY SequencesAssumption DEF Crash, Incident, work, sendLog, history, InHands, IInv, TypeOK,
     NotForgotten, InHands
<1>7. RepliedOK'
  BY SequencesAssumption DEF Crash, Incident, work, sendLog, history, InHands, IInv, TypeOK,
     RepliedOK, InHands
<1>. QED BY <1>1, <1>2, <1>3, <1>4, <1>5, <1>6, <1>7 DEF IInv
-----------------------------------------------------------------------------
LEMMA StutterInv == ASSUME IInv, UNCHANGED vars PROVE IInv'
  BY DEF IInv, TypeOK, HandsOK, SequenceOK, DoneOK, CapsOK, CapsHold, NotForgotten, RepliedOK,
         InHands, vars, work, sendLog, history

LEMMA NextInv == ASSUME IInv, [Next]_vars PROVE IInv'
<1>1. CASE Operator
  <2>1. CASE \E e \in Enrollment : Enroll(e) \/ Pause(e) \/ Resume(e) \/ Cancel(e)
    BY <2>1, EnrollInv, PauseInv, ResumeInv, CancelInv
  <2>. QED BY <1>1, <2>1, UpdateSequenceInv, DeleteSequenceInv DEF Operator
<1>2. CASE Carry
  <2>1. CASE \E c \in todo : Process(c[1], c[2])
    <3>0. PICK c \in todo : Process(c[1], c[2])
      BY <2>1
    <3>a. c \in Enrollment \X (0..MaxSteps)
      BY <3>0 DEF IInv, TypeOK
    <3>b. c[1] \in Enrollment /\ c[2] \in 0..MaxSteps /\ c = <<c[1], c[2]>>
      BY <3>a
    <3>1. PICK e \in Enrollment, s \in 0..MaxSteps : <<e, s>> \in todo /\ Process(e, s)
      BY <3>0, <3>b
    <3>. QED BY <3>1, SkipDeletedInv, SkipPausedInv, OutOfStepsInv, DeferInv, StartInv, ThrowEarlyInv
         DEF Process
  <2>. QED BY <1>2, <2>1, FinishDraftInv, FinishSendInv, ThrowInv, StoreThrowsInv
       DEF Carry
<1>3. CASE Time
  BY <1>3, DelayPassesInv, CooldownPassesInv, HourPassesInv, DayPassesInv DEF Time
<1>4. CASE \E e \in Enrollment : Reply(e)
  BY <1>4, ReplyInv
<1>5. CASE Idle /\ \E batch \in SUBSET Due : Claim(batch)
  BY <1>5, ClaimInv DEF Due
<1>. QED BY <1>1, <1>2, <1>3, <1>4, <1>5, CrashInv, StutterInv DEF Next

LEMMA Invariance == Spec => []IInv
<1>. QED BY InitInv, NextInv, PTL DEF Spec

\* Sequence, rows, batch, send log and histories stay well formed
\* (sequence/store.ts, sequence/engine.ts).
THEOREM TypeCorrect == Spec => []TypeOK
<1>1. IInv => TypeOK
  BY DEF IInv
<1>. QED BY <1>1, Invariance, PTL

\* Steps are sent in order and none is started again once the row advanced past it,
\* although the engine works from a snapshot and rows are paused, resumed,
\* cancelled and deleted under it (processEnrollment, advanceEnrollment).
THEOREM InOrderAndOnce == Spec => []NoStepTwice
<1>1. IInv => NoStepTwice
  BY DEF IInv, DoneOK, NoStepTwice
<1>. QED BY <1>1, Invariance, PTL

\* The send log never passes the caps (checkDailyCap, checkHourlyRate).
THEOREM Capped == Spec => []CapsHold
<1>1. IInv => CapsHold
  BY DEF IInv, CapsOK
<1>. QED BY <1>1, Invariance, PTL

\* What a claim clears is restored on every path of runSequencesOnce that
\* leaves an enrollment active, except for drafts, crashes and a store that
\* throws twice.
THEOREM NobodyForgotten == Spec => []NotForgotten
<1>1. IInv => NotForgotten
  BY DEF IInv
<1>. QED BY <1>1, Invariance, PTL

\* The only steps that touch an enrollment that replied delete it.
LEMMA RepliedStep ==
    ASSUME IInv, [Next]_vars, NEW e \in Enrollment, row[e].status = "replied"
    PROVE  row'[e].status \in {"replied", "deleted"}
<1>1. row[e] \in Rows /\ ~InHands(e) /\ (current # NoOne => current.who # e)
      /\ \A s \in 0..MaxSteps : <<e, s>> \notin todo
  BY DEF IInv, TypeOK, RepliedOK, InHands
<1>2. CASE Operator
  <2>1. CASE \E f \in Enrollment : Enroll(f) \/ Pause(f) \/ Resume(f) \/ Cancel(f)
    <3>1. PICK f \in Enrollment : Enroll(f) \/ Pause(f) \/ Resume(f) \/ Cancel(f)
      BY <2>1
    <3>2. f # e
      BY <3>1 DEF Enroll, Pause, Resume, Cancel
    <3>. QED BY <3>1, <3>2 DEF Enroll, Pause, Resume, Cancel, IInv, TypeOK
  <2>2. CASE UpdateSequence
    BY <2>2 DEF UpdateSequence
  <2>3. CASE DeleteSequence
    <3>1. row'[e] = [row[e] EXCEPT !.status = "deleted", !.next = "null"]
      BY <2>3 DEF DeleteSequence
    <3>. QED BY <1>1, <3>1 DEF Rows
  <2>. QED BY <1>2, <2>1, <2>2, <2>3 DEF Operator
<1>3. CASE Carry
  <2>1. CASE \E c \in todo : Process(c[1], c[2])
    <3>0. PICK c \in todo : Process(c[1], c[2])
      BY <2>1
    <3>a. c \in Enrollment \X (0..MaxSteps)
      BY <3>0 DEF IInv, TypeOK
    <3>b. c[1] \in Enrollment /\ c[2] \in 0..MaxSteps /\ c = <<c[1], c[2]>>
      BY <3>a
    <3>1. PICK f \in Enrollment, s \in 0..MaxSteps : <<f, s>> \in todo /\ Process(f, s)
      BY <3>0, <3>b
    <3>2. f # e
      BY <1>1, <3>1
    <3>. QED BY <3>1, <3>2 DEF Process, SkipDeleted, SkipPaused, OutOfSteps, Defer, Start,
                               ThrowEarly, Retry, IInv, TypeOK
  <2>2. CASE FinishDraft \/ FinishSend \/ Throw \/ StoreThrows
    BY <1>1, <2>2 DEF FinishDraft, FinishSend, Throw, StoreThrows, Retry, IInv, TypeOK
  <2>. QED BY <1>3, <2>1, <2>2 DEF Carry
<1>4. CASE Time
  BY <1>1, <1>4 DEF Time, DelayPasses, CooldownPasses, HourPasses, DayPasses, IInv, TypeOK, Rows
<1>5. CASE \E f \in Enrollment : Reply(f)
  BY <1>1, <1>5 DEF Reply, IInv, TypeOK
<1>6. CASE Idle /\ \E batch \in SUBSET Due : Claim(batch)
  BY <1>6 DEF Claim, Due, IInv, TypeOK
<1>7. CASE Crash \/ UNCHANGED vars
  BY <1>7 DEF Crash, vars
<1>. QED BY <1>2, <1>3, <1>4, <1>5, <1>6, <1>7 DEF Next

\* Deleting an enrollment puts nothing in the engine's hands.
LEMMA DeletedStep ==
    ASSUME IInv, [Next]_vars, NEW e \in Enrollment, row[e].status = "replied",
           row'[e].status = "deleted"
    PROVE  ~InHands(e)'
<1>1. ~InHands(e) /\ (current # NoOne => current.who # e)
      /\ \A s \in 0..MaxSteps : <<e, s>> \notin todo
  BY DEF IInv, RepliedOK, InHands
<1>2. CASE Operator \/ Time \/ (\E f \in Enrollment : Reply(f)) \/ UNCHANGED vars
  <2>1. UNCHANGED <<todo, current>>
    BY <1>2 DEF Operator, Enroll, Pause, Resume, Cancel, UpdateSequence, DeleteSequence, Edit,
                Time, DelayPasses, CooldownPasses, HourPasses, DayPasses, Reply, work, vars
  <2>. QED BY <1>1, <2>1 DEF InHands
<1>3. CASE Carry
  <2>1. CASE \E c \in todo : Process(c[1], c[2])
    <3>0. PICK c \in todo : Process(c[1], c[2])
      BY <2>1
    <3>a. c \in Enrollment \X (0..MaxSteps)
      BY <3>0 DEF IInv, TypeOK
    <3>b. c[1] \in Enrollment /\ c[2] \in 0..MaxSteps /\ c = <<c[1], c[2]>>
      BY <3>a
    <3>1. PICK f \in Enrollment, s \in 0..MaxSteps : <<f, s>> \in todo /\ Process(f, s)
      BY <3>0, <3>b
    <3>2. f # e
      BY <1>1, <3>1
    <3>. QED BY <1>1, <3>1, <3>2 DEF Process, SkipDeleted, SkipPaused, OutOfSteps, Defer, Start,
                                     ThrowEarly, Drop, InHands
  <2>2. CASE FinishDraft \/ FinishSend \/ Throw \/ StoreThrows
    BY <1>1, <2>2 DEF FinishDraft, FinishSend, Throw, StoreThrows, Retry, InHands
  <2>. QED BY <1>3, <2>1, <2>2 DEF Carry
<1>4. CASE Idle /\ \E batch \in SUBSET Due : Claim(batch)
  BY <1>4 DEF Claim, Due, Idle, InHands
<1>5. CASE Crash
  BY <1>5 DEF Crash, InHands
<1>. QED BY <1>2, <1>3, <1>4, <1>5 DEF Next

\* A contact who replied gets no further step of that enrollment, and the
\* reply stays on record (reply-matcher.ts; the tick's phases are in order).
THEOREM RepliesAreFinal == Spec => RepliesStop
<1>1. IInv /\ IInv' /\ [Next]_vars =>
        [\A e \in Enrollment : row[e].status = "replied" =>
            row'[e].status \in {"replied", "deleted"} /\ ~InHands(e)']_vars
  <2> SUFFICES ASSUME IInv, IInv', [Next]_vars, NEW e \in Enrollment, row[e].status = "replied"
               PROVE  row'[e].status \in {"replied", "deleted"} /\ ~InHands(e)'
    OBVIOUS
  <2>1. row'[e].status \in {"replied", "deleted"}
    BY RepliedStep
  <2>2. CASE row'[e].status = "replied"
    BY <2>1, <2>2 DEF IInv, RepliedOK
  <2>3. CASE row'[e].status = "deleted"
    BY <2>3, DeletedStep
  <2>. QED BY <2>1, <2>2, <2>3
<1>. QED BY <1>1, Invariance, PTL DEF Spec, RepliesStop

=============================================================================
