------------------------ MODULE InboundDelivery_proofs ------------------------
(***************************************************************************)
(* The safety properties of InboundDelivery, for any messages, chats and   *)
(* limits and any number of redeliveries, replays and crashes.             *)
(***************************************************************************)
EXTENDS InboundDelivery, TLAPS

\* What a row's status says of its kind and its counters.
RowOK ==
    \A m \in Message :
        /\ row[m].status \in {"failed", "dead_letter"} => kind[m] \in {"chat", "legacy"}
        /\ kind[m] = "legacy" => row[m].status \in {"failed", "dead_letter"}
                                 /\ row[m].payload = "legacy"
        /\ row[m].status # "dead_letter" => row[m].attempts < MaxAttempts
        /\ row[m].status = "dead_letter" => row[m].attempts >= 1
        /\ row[m].status \in {"none", "pending"} => row[m].segments = 0
        /\ row[m].status = "none" => row[m].payload = "none"
        /\ row[m].payload = "reply" => kind[m] = "verify"
        /\ kind[m] = "secret" /\ row[m].payload # "none" => m \in abandoned

\* The request handler of a message holds its pending row, and no task does.
HandlerOK ==
    \A m \in Message :
        /\ handler[m] # "none" => row[m].status = "pending" /\ step[m] = "idle"
        /\ handler[m] = "telling" => kind[m] \in {"invite", "verify"}

\* A background task has a chat message whose row is pending until its turn
\* has ended and processed from then on.
TaskOK ==
    \A m \in Message : step[m] # "idle" =>
        /\ kind[m] = "chat"
        /\ row[m].status = IF step[m] = "reply" THEN "processed" ELSE "pending"

\* The sweep's rows have failed until its turn with them has ended, and no
\* background task has them.
SweepOK ==
    /\ step[Sweep] # "idle" <=> at # NoMessage
    /\ at # NoMessage =>
        /\ sweepOn /\ at \notin todo
        /\ kind[at] = "chat" /\ step[at] = "idle"
        /\ row[at].status = IF step[Sweep] = "reply" THEN "processed" ELSE "failed"
    /\ \A m \in todo : row[m].status = "failed"

\* A reply is delivered segment by segment.
ReplyOK ==
    \A w \in Worker :
        /\ step[w] = "reply" => /\ sent[w] < size[w]
                                /\ row[At(w)].segments = sent[w]
        /\ step[w] # "reply" => sent[w] = 0 /\ size[w] = 0

\* An answered message is in nobody's hands, and a processed one in nobody's
\* hands is answered or abandoned.
AnsweredOK ==
    \A m \in Message :
        /\ answered[m] \in {0, 1}
        /\ answered[m] = 1 =>
             row[m].status = "processed" /\ step[m] = "idle" /\ at # m
        /\ kind[m] = "chat" /\ row[m].status = "processed" /\ step[m] = "idle" /\ at # m
             => answered[m] = 1 \/ m \in abandoned

\* A code is used after its row is recorded.
CodeOK ==
    \A m \in Message :
        /\ applied[m] \in {0, 1}
        /\ applied[m] = 1 => row[m].status # "none" /\ handler[m] # "intercepts"
        /\ m \in again \union timer => kind[m] = "verify"
        /\ kind[m] = "verify" /\ applied[m] = 1 /\ m \notin told
             => handler[m] = "telling" \/ row[m].payload = "reply" \/ m \in abandoned

RanOK == \A m \in ran : kind[m] = "chat"

IInv == /\ TypeOK /\ RowOK /\ HandlerOK /\ TaskOK /\ SweepOK
        /\ ReplyOK /\ AnsweredOK /\ CodeOK /\ RanOK
-----------------------------------------------------------------------------
LEMMA NewRows == /\ NoRow \in Rows /\ NoRow.status = "none" /\ NoRow.payload = "none"
                 /\ NoRow.attempts = 0 /\ NoRow.segments = 0
                 /\ Recorded \in Rows /\ Recorded.status = "pending"
                 /\ Recorded.payload = "none"
                 /\ Recorded.attempts = 0 /\ Recorded.segments = 0
                 /\ Legacy \in Rows /\ Legacy.status = "failed"
                 /\ Legacy.payload = "legacy"
                 /\ Legacy.attempts = 0 /\ Legacy.segments = 0
  BY InboundAssumption DEF NoRow, Recorded, Legacy, NewRow, Rows, Statuses, Payloads

\* A failure costs an attempt; the last one, or a fatal one, is the end.
LEMMA FailureRow ==
    ASSUME NEW r \in Rows, NEW fatal \in BOOLEAN, r.attempts < MaxAttempts
    PROVE  /\ Failure(r, fatal) \in Rows
           /\ Failure(r, fatal).status \in {"failed", "dead_letter"}
           /\ Failure(r, fatal).status = "failed" => Failure(r, fatal).attempts < MaxAttempts
           /\ Failure(r, fatal).attempts >= 1
           /\ Failure(r, fatal).payload = r.payload
           /\ Failure(r, fatal).segments = r.segments
<1>1. r.attempts + 1 \in 0..MaxAttempts /\ r.attempts \in Nat /\ MaxAttempts \in Nat
  BY InboundAssumption DEF Rows
<1>2. Failure(r, fatal) \in Rows
  BY <1>1 DEF Failure, Rows, Statuses
<1>3. /\ Failure(r, fatal).attempts = r.attempts + 1
      /\ Failure(r, fatal).payload = r.payload /\ Failure(r, fatal).segments = r.segments
      /\ Failure(r, fatal).status =
           IF fatal \/ r.attempts + 1 >= MaxAttempts THEN "dead_letter" ELSE "failed"
  BY DEF Failure, Exhausted, Rows
<1>. QED BY <1>1, <1>2, <1>3

LEMMA InitInv == Init => IInv
<1> SUFFICES ASSUME Init PROVE IInv
  OBVIOUS
<1>1. TypeOK
  <2>1. row \in [Message -> Rows]
    BY NewRows DEF Init
  <2>2. 0 \in 0..MaxSends /\ 0 \in 0..MaxReplays /\ 0 \in 0..MaxCrashes /\ 0 \in 0..MaxSegments
    BY InboundAssumption
  <2>. QED BY <2>1, <2>2 DEF Init, TypeOK
<1>2. /\ \A m \in Message : row[m] = IF kind[m] = "legacy" THEN Legacy ELSE NoRow
      /\ \A m \in Message : handler[m] = "none" /\ answered[m] = 0 /\ applied[m] = 0
      /\ \A w \in Worker : step[w] = "idle" /\ size[w] = 0 /\ sent[w] = 0
      /\ again = {} /\ timer = {} /\ todo = {} /\ ran = {} /\ at = NoMessage
  BY DEF Init
<1>7. \A m \in Message :
        /\ row[m].attempts = 0 /\ row[m].segments = 0
        /\ kind[m] = "legacy" => row[m].status = "failed" /\ row[m].payload = "legacy"
        /\ kind[m] # "legacy" => row[m].status = "none" /\ row[m].payload = "none"
  BY <1>2, NewRows
<1>3. RowOK
  <2>1. MaxAttempts > 0
    BY InboundAssumption
  <2>. SUFFICES ASSUME NEW m \in Message PROVE RowOK!(m)
    BY DEF RowOK
  <2>2. CASE kind[m] = "legacy"
    BY <1>7, <2>1, <2>2
  <2>3. CASE kind[m] # "legacy"
    BY <1>7, <2>1, <2>3
  <2>. QED BY <2>2, <2>3
<1>4. HandlerOK /\ CodeOK /\ RanOK
  BY <1>2 DEF HandlerOK, CodeOK, RanOK
<1>5. TaskOK /\ SweepOK /\ ReplyOK
  BY <1>2 DEF TaskOK, SweepOK, ReplyOK, Worker
<1>6. AnsweredOK
  <2>1. \A m \in Message : answered[m] = 0 /\ row[m].status # "processed"
    BY <1>2, <1>7
  <2>. SUFFICES ASSUME NEW m \in Message PROVE AnsweredOK!(m)
    BY DEF AnsweredOK
  <2>. QED BY <2>1
<1>. QED BY <1>1, <1>3, <1>4, <1>5, <1>6 DEF IInv
-----------------------------------------------------------------------------
(* The request, and the steps of the sweep that only touch a row *)

LEMMA ReceiveInv == ASSUME IInv, NEW m \in Message, Receive(m) PROVE IInv'
<1>1. TypeOK'
  <2>1. Recorded \in Rows
    BY NewRows
  <2>2. row' \in [Message -> Rows]
    BY <2>1 DEF Receive, IInv, TypeOK
  <2>3. sends' \in [Message -> 0..MaxSends]
    BY InboundAssumption DEF Receive, CountSend, IInv, TypeOK
  <2>. QED
    BY <2>2, <2>3 DEF Receive, CountSend, IInv, TypeOK, disk, requests, work, bounds, history,
       Worker
<1>2. RowOK'
  BY NewRows, InboundAssumption DEF Receive, IsDuplicate, CountSend, IInv, TypeOK, RowOK, Rows,
     Statuses, Payloads, HandlerOK, disk, requests, work, bounds, history, Worker, At
<1>3. HandlerOK'
  BY NewRows, InboundAssumption DEF Receive, IsDuplicate, CountSend, IInv, TypeOK, HandlerOK,
     Rows, Statuses, Payloads, TaskOK, RowOK, disk, requests, work, bounds, history, Worker, At
<1>4. TaskOK'
  BY NewRows, InboundAssumption DEF Receive, IsDuplicate, CountSend, IInv, TypeOK, TaskOK,
     HandlerOK, RowOK, disk, requests, work, bounds, history, Worker, At
<1>5. SweepOK'
  BY NewRows, InboundAssumption DEF Receive, IsDuplicate, CountSend, IInv, TypeOK, SweepOK,
     HandlerOK, TaskOK, RowOK, disk, requests, work, bounds, history, Worker, At
<1>6. ReplyOK'
  BY NewRows, InboundAssumption DEF Receive, IsDuplicate, CountSend, IInv, TypeOK, ReplyOK,
     TaskOK, RowOK, HandlerOK, SweepOK, disk, requests, work, bounds, history, Worker, At
<1>7. AnsweredOK'
  BY NewRows, InboundAssumption DEF Receive, IsDuplicate, CountSend, IInv, TypeOK, AnsweredOK,
     Rows, Statuses, Payloads, HandlerOK, TaskOK, SweepOK, RowOK, disk, requests, work, bounds,
     history, Worker, At
<1>8. CodeOK'
  BY NewRows, InboundAssumption DEF Receive, IsDuplicate, CountSend, IInv, TypeOK, CodeOK, Rows,
     Statuses, Payloads, RowOK, HandlerOK, disk, requests, work, bounds, history, Worker, At
<1>9. RanOK'
  BY NewRows, InboundAssumption DEF Receive, IsDuplicate, CountSend, IInv, TypeOK, RanOK, disk,
     requests, work, bounds, history, Worker, At
<1>. QED BY <1>1, <1>2, <1>3, <1>4, <1>5, <1>6, <1>7, <1>8, <1>9 DEF IInv

LEMMA ReceiveInviteInv == ASSUME IInv, NEW m \in Message, ReceiveInvite(m) PROVE IInv'
<1>1. TypeOK'
  <2>1. Recorded \in Rows
    BY NewRows
  <2>2. row' \in [Message -> Rows]
    BY <2>1 DEF ReceiveInvite, IInv, TypeOK
  <2>3. sends' \in [Message -> 0..MaxSends]
    BY InboundAssumption DEF ReceiveInvite, CountSend, IInv, TypeOK
  <2>. QED
    BY <2>2, <2>3 DEF ReceiveInvite, CountSend, IInv, TypeOK, disk, requests, work, bounds,
       history, Worker
<1>2. RowOK'
  <2>1. CASE UNCHANGED row
    BY <2>1 DEF ReceiveInvite, IInv, TypeOK, RowOK
  <2>2. CASE row' = [row EXCEPT ![m] = Recorded]
    BY <2>2, NewRows, InboundAssumption DEF ReceiveInvite, IInv, TypeOK, RowOK
  <2>. QED BY <2>1, <2>2 DEF ReceiveInvite
<1>3. HandlerOK'
  <2>1. CASE UNCHANGED <<row, handler, applied>>
    BY <2>1 DEF ReceiveInvite, IInv, TypeOK, HandlerOK, RowOK, TaskOK, work, Worker, At
  <2>2. CASE row' = [row EXCEPT ![m] = Recorded]
    BY <2>2, NewRows, InboundAssumption DEF ReceiveInvite, IsDuplicate, IInv, TypeOK, HandlerOK,
       RowOK, TaskOK, work, Worker, At
  <2>. QED BY <2>1, <2>2 DEF ReceiveInvite
<1>4. TaskOK'
  <2>1. CASE UNCHANGED <<row, handler, applied>>
    BY <2>1 DEF ReceiveInvite, IInv, TypeOK, TaskOK, HandlerOK, RowOK, work, Worker, At
  <2>2. CASE row' = [row EXCEPT ![m] = Recorded]
    BY <2>2, NewRows, InboundAssumption DEF ReceiveInvite, IsDuplicate, IInv, TypeOK, TaskOK,
       HandlerOK, RowOK, work, Worker, At
  <2>. QED BY <2>1, <2>2 DEF ReceiveInvite
<1>5. SweepOK'
  <2>1. CASE UNCHANGED <<row, handler, applied>>
    BY <2>1 DEF ReceiveInvite, IInv, TypeOK, SweepOK, HandlerOK, TaskOK, RowOK, work, Worker, At
  <2>2. CASE row' = [row EXCEPT ![m] = Recorded]
    BY <2>2, NewRows, InboundAssumption DEF ReceiveInvite, IsDuplicate, IInv, TypeOK, SweepOK,
       HandlerOK, TaskOK, RowOK, work, Worker, At
  <2>. QED BY <2>1, <2>2 DEF ReceiveInvite
<1>6. ReplyOK'
  <2>1. CASE UNCHANGED <<row, handler, applied>>
    BY <2>1 DEF ReceiveInvite, IInv, TypeOK, ReplyOK, TaskOK, RowOK, HandlerOK, SweepOK, work,
       Worker, At
  <2>2. CASE row' = [row EXCEPT ![m] = Recorded]
    BY <2>2, NewRows, InboundAssumption DEF ReceiveInvite, IsDuplicate, IInv, TypeOK, ReplyOK,
       TaskOK, RowOK, HandlerOK, SweepOK, work, Worker, At
  <2>. QED BY <2>1, <2>2 DEF ReceiveInvite
<1>7. AnsweredOK'
  <2>1. CASE UNCHANGED row
    BY <2>1 DEF ReceiveInvite, IInv, AnsweredOK, work
  <2>2. CASE row' = [row EXCEPT ![m] = Recorded]
    BY <2>2, NewRows DEF ReceiveInvite, IsDuplicate, IInv, TypeOK, AnsweredOK, work
  <2>. QED BY <2>1, <2>2 DEF ReceiveInvite
<1>8. CodeOK'
  <2>1. CASE UNCHANGED <<row, handler, applied>>
    BY <2>1 DEF ReceiveInvite, IInv, TypeOK, CodeOK, RowOK, HandlerOK, work, Worker, At
  <2>2. CASE row' = [row EXCEPT ![m] = Recorded]
    BY <2>2, NewRows, InboundAssumption DEF ReceiveInvite, IsDuplicate, IInv, TypeOK, CodeOK,
       RowOK, HandlerOK, work, Worker, At
  <2>. QED BY <2>1, <2>2 DEF ReceiveInvite
<1>9. RanOK'
  BY NewRows, InboundAssumption DEF ReceiveInvite, IsDuplicate, CountSend, IInv, TypeOK, RanOK,
     disk, requests, work, bounds, history, Worker, At
<1>. QED BY <1>1, <1>2, <1>3, <1>4, <1>5, <1>6, <1>7, <1>8, <1>9 DEF IInv

LEMMA ReceiveDuplicateInv == ASSUME IInv, NEW m \in Message, ReceiveDuplicate(m) PROVE IInv'
<1>1. TypeOK'
  BY InboundAssumption DEF ReceiveDuplicate, IsDuplicate, CountSend, IInv, TypeOK, Rows,
     Statuses, Payloads, RowOK, disk, requests, work, bounds, history, Worker, At
<1>2. RowOK'
  BY InboundAssumption DEF ReceiveDuplicate, IsDuplicate, CountSend, IInv, TypeOK, RowOK, Rows,
     Statuses, Payloads, HandlerOK, disk, requests, work, bounds, history, Worker, At
<1>3. HandlerOK'
  BY InboundAssumption DEF ReceiveDuplicate, IsDuplicate, CountSend, IInv, TypeOK, HandlerOK,
     Rows, Statuses, Payloads, TaskOK, RowOK, disk, requests, work, bounds, history, Worker, At
<1>4. TaskOK'
  BY InboundAssumption DEF ReceiveDuplicate, IsDuplicate, CountSend, IInv, TypeOK, TaskOK,
     HandlerOK, RowOK, disk, requests, work, bounds, history, Worker, At
<1>5. SweepOK'
  BY InboundAssumption DEF ReceiveDuplicate, IsDuplicate, CountSend, IInv, TypeOK, SweepOK,
     HandlerOK, TaskOK, RowOK, disk, requests, work, bounds, history, Worker, At
<1>6. ReplyOK'
  BY InboundAssumption DEF ReceiveDuplicate, IsDuplicate, CountSend, IInv, TypeOK, ReplyOK,
     TaskOK, RowOK, HandlerOK, SweepOK, disk, requests, work, bounds, history, Worker, At
<1>7. AnsweredOK'
  BY InboundAssumption DEF ReceiveDuplicate, IsDuplicate, CountSend, IInv, TypeOK, AnsweredOK,
     Rows, Statuses, Payloads, HandlerOK, TaskOK, SweepOK, RowOK, disk, requests, work, bounds,
     history, Worker, At
<1>8. CodeOK'
  BY InboundAssumption DEF ReceiveDuplicate, IsDuplicate, CountSend, IInv, TypeOK, CodeOK, Rows,
     Statuses, Payloads, RowOK, HandlerOK, disk, requests, work, bounds, history, Worker, At
<1>9. RanOK'
  BY InboundAssumption DEF ReceiveDuplicate, IsDuplicate, CountSend, IInv, TypeOK, RanOK, disk,
     requests, work, bounds, history, Worker, At
<1>. QED BY <1>1, <1>2, <1>3, <1>4, <1>5, <1>6, <1>7, <1>8, <1>9 DEF IInv

LEMMA DispatchInv == ASSUME IInv, NEW m \in Message, Dispatch(m) PROVE IInv'
<1>1. TypeOK'
  <2>1. row[m] \in Rows
    BY DEF IInv, TypeOK
  <2>2. [row[m] EXCEPT !.payload = "request"] \in Rows
    BY <2>1, InboundAssumption DEF Rows, Statuses, Payloads, IInv
  <2>3. row' \in [Message -> Rows]
    BY <2>2 DEF Dispatch, IInv, TypeOK
  <2>. QED
    BY <2>3 DEF Dispatch, IInv, TypeOK, disk, requests, work, bounds, history, Worker
<1>2. RowOK'
  BY InboundAssumption DEF Dispatch, IInv, TypeOK, RowOK, Rows, Statuses, Payloads, HandlerOK,
     disk, requests, work, bounds, history, Worker, At
<1>3. HandlerOK'
  BY InboundAssumption DEF Dispatch, IInv, TypeOK, HandlerOK, Rows, Statuses, Payloads, TaskOK,
     RowOK, disk, requests, work, bounds, history, Worker, At
<1>4. TaskOK'
  BY InboundAssumption DEF Dispatch, IInv, TypeOK, TaskOK, HandlerOK, RowOK, disk, requests,
     work, bounds, history, Worker, At
<1>5. SweepOK'
  BY InboundAssumption DEF Dispatch, IInv, TypeOK, SweepOK, HandlerOK, TaskOK, RowOK, disk,
     requests, work, bounds, history, Worker, At
<1>6. ReplyOK'
  BY InboundAssumption DEF Dispatch, IInv, TypeOK, ReplyOK, TaskOK, RowOK, HandlerOK, SweepOK,
     disk, requests, work, bounds, history, Worker, At
<1>7. AnsweredOK'
  BY InboundAssumption DEF Dispatch, IInv, TypeOK, AnsweredOK, Rows, Statuses, Payloads,
     HandlerOK, TaskOK, SweepOK, RowOK, disk, requests, work, bounds, history, Worker, At
<1>8. CodeOK'
  BY InboundAssumption DEF Dispatch, IInv, TypeOK, CodeOK, Rows, Statuses, Payloads, RowOK,
     HandlerOK, disk, requests, work, bounds, history, Worker, At
<1>9. RanOK'
  BY InboundAssumption DEF Dispatch, IInv, TypeOK, RanOK, disk, requests, work, bounds, history,
     Worker, At
<1>. QED BY <1>1, <1>2, <1>3, <1>4, <1>5, <1>6, <1>7, <1>8, <1>9 DEF IInv

LEMMA BlockInv == ASSUME IInv, NEW m \in Message, Block(m) PROVE IInv'
<1>1. TypeOK'
  <2>1. row[m] \in Rows
    BY DEF IInv, TypeOK
  <2>2. Blocked(row[m]) \in Rows
    BY <2>1, InboundAssumption DEF Rows, Statuses, Payloads, Blocked
  <2>3. row' \in [Message -> Rows]
    BY <2>2 DEF Block, IInv, TypeOK
  <2>. QED
    BY <2>3 DEF Block, IInv, TypeOK, disk, requests, work, bounds, history, Worker
<1>2. RowOK'
  BY InboundAssumption DEF Block, Blocked, IInv, TypeOK, RowOK, Rows, Statuses, Payloads,
     HandlerOK, disk, requests, work, bounds, history, Worker, At
<1>3. HandlerOK'
  BY InboundAssumption DEF Block, Blocked, IInv, TypeOK, HandlerOK, Rows, Statuses, Payloads,
     TaskOK, RowOK, disk, requests, work, bounds, history, Worker, At
<1>4. TaskOK'
  BY InboundAssumption DEF Block, Blocked, IInv, TypeOK, TaskOK, HandlerOK, RowOK, disk,
     requests, work, bounds, history, Worker, At
<1>5. SweepOK'
  BY InboundAssumption DEF Block, Blocked, IInv, TypeOK, SweepOK, HandlerOK, TaskOK, RowOK,
     disk, requests, work, bounds, history, Worker, At
<1>6. ReplyOK'
  BY InboundAssumption DEF Block, Blocked, IInv, TypeOK, ReplyOK, TaskOK, RowOK, HandlerOK,
     SweepOK, disk, requests, work, bounds, history, Worker, At
<1>7. AnsweredOK'
  BY InboundAssumption DEF Block, Blocked, IInv, TypeOK, AnsweredOK, Rows, Statuses, Payloads,
     HandlerOK, TaskOK, SweepOK, RowOK, disk, requests, work, bounds, history, Worker, At
<1>8. CodeOK'
  BY InboundAssumption DEF Block, Blocked, IInv, TypeOK, CodeOK, Rows, Statuses, Payloads,
     RowOK, HandlerOK, disk, requests, work, bounds, history, Worker, At
<1>9. RanOK'
  BY InboundAssumption DEF Block, Blocked, IInv, TypeOK, RanOK, disk, requests, work, bounds,
     history, Worker, At
<1>. QED BY <1>1, <1>2, <1>3, <1>4, <1>5, <1>6, <1>7, <1>8, <1>9 DEF IInv

LEMMA ConsumeInv == ASSUME IInv, NEW m \in Message, Consume(m) PROVE IInv'
<1>1. TypeOK'
  BY InboundAssumption DEF Consume, IInv, TypeOK, Rows, Statuses, Payloads, RowOK, disk,
     requests, work, bounds, history, Worker, At
<1>2. RowOK'
  BY InboundAssumption DEF Consume, IInv, TypeOK, RowOK, Rows, Statuses, Payloads, HandlerOK,
     disk, requests, work, bounds, history, Worker, At
<1>3. HandlerOK'
  BY InboundAssumption DEF Consume, IInv, TypeOK, HandlerOK, Rows, Statuses, Payloads, TaskOK,
     RowOK, disk, requests, work, bounds, history, Worker, At
<1>4. TaskOK'
  BY InboundAssumption DEF Consume, IInv, TypeOK, TaskOK, HandlerOK, RowOK, disk, requests,
     work, bounds, history, Worker, At
<1>5. SweepOK'
  BY InboundAssumption DEF Consume, IInv, TypeOK, SweepOK, HandlerOK, TaskOK, RowOK, disk,
     requests, work, bounds, history, Worker, At
<1>6. ReplyOK'
  BY InboundAssumption DEF Consume, IInv, TypeOK, ReplyOK, TaskOK, RowOK, HandlerOK, SweepOK,
     disk, requests, work, bounds, history, Worker, At
<1>7. AnsweredOK'
  BY InboundAssumption DEF Consume, IInv, TypeOK, AnsweredOK, Rows, Statuses, Payloads,
     HandlerOK, TaskOK, SweepOK, RowOK, disk, requests, work, bounds, history, Worker, At
<1>8. CodeOK'
  BY InboundAssumption DEF Consume, IInv, TypeOK, CodeOK, Rows, Statuses, Payloads, RowOK,
     HandlerOK, disk, requests, work, bounds, history, Worker, At
<1>9. RanOK'
  BY InboundAssumption DEF Consume, IInv, TypeOK, RanOK, disk, requests, work, bounds, history,
     Worker, At
<1>. QED BY <1>1, <1>2, <1>3, <1>4, <1>5, <1>6, <1>7, <1>8, <1>9 DEF IInv

LEMMA TellInviteInv == ASSUME IInv, NEW m \in Message, TellInvite(m) PROVE IInv'
<1>1. TypeOK'
  <2>1. row[m] \in Rows
    BY DEF IInv, TypeOK
  <2>2. [row[m] EXCEPT !.status = "processed"] \in Rows
    BY <2>1, InboundAssumption DEF Rows, Statuses, Payloads, IInv
  <2>3. row' \in [Message -> Rows]
    BY <2>2 DEF TellInvite, IInv, TypeOK
  <2>. QED
    BY <2>3 DEF TellInvite, IInv, TypeOK, disk, requests, work, bounds, history, Worker
<1>2. RowOK'
  BY InboundAssumption DEF TellInvite, IInv, TypeOK, RowOK, Rows, Statuses, Payloads, HandlerOK,
     disk, requests, work, bounds, history, Worker, At
<1>3. HandlerOK'
  BY InboundAssumption DEF TellInvite, IInv, TypeOK, HandlerOK, Rows, Statuses, Payloads,
     TaskOK, RowOK, disk, requests, work, bounds, history, Worker, At
<1>4. TaskOK'
  BY InboundAssumption DEF TellInvite, IInv, TypeOK, TaskOK, HandlerOK, RowOK, disk, requests,
     work, bounds, history, Worker, At
<1>5. SweepOK'
  BY InboundAssumption DEF TellInvite, IInv, TypeOK, SweepOK, HandlerOK, TaskOK, RowOK, disk,
     requests, work, bounds, history, Worker, At
<1>6. ReplyOK'
  BY InboundAssumption DEF TellInvite, IInv, TypeOK, ReplyOK, TaskOK, RowOK, HandlerOK, SweepOK,
     disk, requests, work, bounds, history, Worker, At
<1>7. AnsweredOK'
  BY InboundAssumption DEF TellInvite, IInv, TypeOK, AnsweredOK, Rows, Statuses, Payloads,
     HandlerOK, TaskOK, SweepOK, RowOK, disk, requests, work, bounds, history, Worker, At
<1>8. CodeOK'
  BY InboundAssumption DEF TellInvite, IInv, TypeOK, CodeOK, Rows, Statuses, Payloads, RowOK,
     HandlerOK, disk, requests, work, bounds, history, Worker, At
<1>9. RanOK'
  BY InboundAssumption DEF TellInvite, IInv, TypeOK, RanOK, disk, requests, work, bounds,
     history, Worker, At
<1>. QED BY <1>1, <1>2, <1>3, <1>4, <1>5, <1>6, <1>7, <1>8, <1>9 DEF IInv

LEMMA TellVerifiedInv == ASSUME IInv, NEW m \in Message, TellVerified(m) PROVE IInv'
<1>1. TypeOK'
  <2>1. row[m] \in Rows
    BY DEF IInv, TypeOK
  <2>2. [row[m] EXCEPT !.payload = "reply"] \in Rows
    BY <2>1, InboundAssumption DEF Rows, Statuses, Payloads, IInv
  <2>3. row' \in [Message -> Rows]
    BY <2>2 DEF TellVerified, IInv, TypeOK
  <2>. QED
    BY <2>3 DEF TellVerified, IInv, TypeOK, disk, requests, work, bounds, history, Worker
<1>2. RowOK'
  <2>1. kind[m] = "verify" /\ row[m].status = "pending"
    BY DEF TellVerified, IInv, HandlerOK
  <2>2. CASE UNCHANGED row
    BY <2>2 DEF TellVerified, IInv, RowOK
  <2>3. CASE row' = [row EXCEPT ![m].payload = "reply"]
    BY <2>1, <2>3 DEF TellVerified, IInv, TypeOK, RowOK, Rows
  <2>. QED BY <2>2, <2>3 DEF TellVerified
<1>3. HandlerOK'
  BY InboundAssumption DEF TellVerified, IInv, TypeOK, HandlerOK, Rows, Statuses, Payloads,
     TaskOK, RowOK, disk, requests, work, bounds, history, Worker, At
<1>4. TaskOK'
  BY InboundAssumption DEF TellVerified, IInv, TypeOK, TaskOK, HandlerOK, RowOK, disk, requests,
     work, bounds, history, Worker, At
<1>5. SweepOK'
  BY InboundAssumption DEF TellVerified, IInv, TypeOK, SweepOK, HandlerOK, TaskOK, RowOK, disk,
     requests, work, bounds, history, Worker, At
<1>6. ReplyOK'
  BY InboundAssumption DEF TellVerified, IInv, TypeOK, ReplyOK, TaskOK, RowOK, HandlerOK,
     SweepOK, disk, requests, work, bounds, history, Worker, At
<1>7. AnsweredOK'
  BY InboundAssumption DEF TellVerified, IInv, TypeOK, AnsweredOK, Rows, Statuses, Payloads,
     HandlerOK, TaskOK, SweepOK, RowOK, disk, requests, work, bounds, history, Worker, At
<1>8. CodeOK'
  BY InboundAssumption DEF TellVerified, IInv, TypeOK, CodeOK, Rows, Statuses, Payloads, RowOK,
     HandlerOK, disk, requests, work, bounds, history, Worker, At
<1>9. RanOK'
  BY InboundAssumption DEF TellVerified, IInv, TypeOK, RanOK, disk, requests, work, bounds,
     history, Worker, At
<1>. QED BY <1>1, <1>2, <1>3, <1>4, <1>5, <1>6, <1>7, <1>8, <1>9 DEF IInv

LEMMA TellAgainInv == ASSUME IInv, NEW m \in Message, TellAgain(m) PROVE IInv'
<1>1. TypeOK'
  <2>1. PICK delivered \in BOOLEAN : /\ row' = [row EXCEPT ![m] = Retried(row[m], delivered)]
                                     /\ told' = IF delivered THEN told \union {m} ELSE told
    BY DEF TellAgain, RetryReply
  <2>2. Retried(row[m], delivered) \in Rows
    BY DEF Retried, IInv, TypeOK, Rows, Payloads
  <2>3. row' \in [Message -> Rows]
    BY <2>1, <2>2 DEF IInv, TypeOK
  <2>. QED
    BY <2>1, <2>3 DEF TellAgain, RetryReply, IInv, TypeOK, disk, requests, work, bounds,
       history, Worker
<1>2. RowOK'
  <2>1. kind[m] = "verify"
    BY DEF TellAgain, IInv, CodeOK
  <2>2. PICK delivered \in BOOLEAN : row' = [row EXCEPT ![m] = Retried(row[m], delivered)]
    BY DEF TellAgain, RetryReply
  <2>. QED
    BY <2>1, <2>2 DEF TellAgain, RetryReply, Retried, IInv, TypeOK, RowOK, Rows
<1>3. HandlerOK'
  BY InboundAssumption DEF TellAgain, RetryReply, Retried, IInv, TypeOK, HandlerOK, Rows,
     Statuses, Payloads, TaskOK, RowOK, disk, requests, work, bounds, history, Worker, At
<1>4. TaskOK'
  BY InboundAssumption DEF TellAgain, RetryReply, Retried, IInv, TypeOK, TaskOK, HandlerOK,
     RowOK, disk, requests, work, bounds, history, Worker, At
<1>5. SweepOK'
  BY InboundAssumption DEF TellAgain, RetryReply, Retried, IInv, TypeOK, SweepOK, HandlerOK,
     TaskOK, RowOK, disk, requests, work, bounds, history, Worker, At
<1>6. ReplyOK'
  BY InboundAssumption DEF TellAgain, RetryReply, Retried, IInv, TypeOK, ReplyOK, TaskOK, RowOK,
     HandlerOK, SweepOK, disk, requests, work, bounds, history, Worker, At
<1>7. AnsweredOK'
  BY InboundAssumption DEF TellAgain, RetryReply, Retried, IInv, TypeOK, AnsweredOK, Rows,
     Statuses, Payloads, HandlerOK, TaskOK, SweepOK, RowOK, disk, requests, work, bounds,
     history, Worker, At
<1>8. CodeOK'
  BY InboundAssumption DEF TellAgain, RetryReply, Retried, IInv, TypeOK, CodeOK, Rows, Statuses,
     Payloads, RowOK, HandlerOK, disk, requests, work, bounds, history, Worker, At
<1>9. RanOK'
  BY InboundAssumption DEF TellAgain, RetryReply, Retried, IInv, TypeOK, RanOK, disk, requests,
     work, bounds, history, Worker, At
<1>. QED BY <1>1, <1>2, <1>3, <1>4, <1>5, <1>6, <1>7, <1>8, <1>9 DEF IInv

LEMMA TimerFiresInv == ASSUME IInv, NEW m \in Message, TimerFires(m) PROVE IInv'
<1>1. TypeOK'
  <2>1. PICK delivered \in BOOLEAN : /\ row' = [row EXCEPT ![m] = Retried(row[m], delivered)]
                                     /\ told' = IF delivered THEN told \union {m} ELSE told
    BY DEF TimerFires, RetryReply
  <2>2. Retried(row[m], delivered) \in Rows
    BY DEF Retried, IInv, TypeOK, Rows, Payloads
  <2>3. row' \in [Message -> Rows]
    BY <2>1, <2>2 DEF IInv, TypeOK
  <2>. QED
    BY <2>1, <2>3 DEF TimerFires, RetryReply, IInv, TypeOK, disk, requests, work, bounds,
       history, Worker
<1>2. RowOK'
  <2>1. kind[m] = "verify"
    BY DEF TimerFires, IInv, CodeOK
  <2>2. PICK delivered \in BOOLEAN : row' = [row EXCEPT ![m] = Retried(row[m], delivered)]
    BY DEF TimerFires, RetryReply
  <2>. QED
    BY <2>1, <2>2 DEF TimerFires, RetryReply, Retried, IInv, TypeOK, RowOK, Rows
<1>3. HandlerOK'
  BY InboundAssumption DEF TimerFires, RetryReply, Retried, IInv, TypeOK, HandlerOK, Rows,
     Statuses, Payloads, TaskOK, RowOK, disk, requests, work, bounds, history, Worker, At
<1>4. TaskOK'
  BY InboundAssumption DEF TimerFires, RetryReply, Retried, IInv, TypeOK, TaskOK, HandlerOK,
     RowOK, disk, requests, work, bounds, history, Worker, At
<1>5. SweepOK'
  BY InboundAssumption DEF TimerFires, RetryReply, Retried, IInv, TypeOK, SweepOK, HandlerOK,
     TaskOK, RowOK, disk, requests, work, bounds, history, Worker, At
<1>6. ReplyOK'
  BY InboundAssumption DEF TimerFires, RetryReply, Retried, IInv, TypeOK, ReplyOK, TaskOK,
     RowOK, HandlerOK, SweepOK, disk, requests, work, bounds, history, Worker, At
<1>7. AnsweredOK'
  BY InboundAssumption DEF TimerFires, RetryReply, Retried, IInv, TypeOK, AnsweredOK, Rows,
     Statuses, Payloads, HandlerOK, TaskOK, SweepOK, RowOK, disk, requests, work, bounds,
     history, Worker, At
<1>8. CodeOK'
  BY InboundAssumption DEF TimerFires, RetryReply, Retried, IInv, TypeOK, CodeOK, Rows,
     Statuses, Payloads, RowOK, HandlerOK, disk, requests, work, bounds, history, Worker, At
<1>9. RanOK'
  BY InboundAssumption DEF TimerFires, RetryReply, Retried, IInv, TypeOK, RanOK, disk, requests,
     work, bounds, history, Worker, At
<1>. QED BY <1>1, <1>2, <1>3, <1>4, <1>5, <1>6, <1>7, <1>8, <1>9 DEF IInv

LEMMA HandlerThrowsInv == ASSUME IInv, NEW m \in Message, HandlerThrows(m) PROVE IInv'
<1>1. TypeOK'
  BY InboundAssumption DEF HandlerThrows, IInv, TypeOK, Rows, Statuses, Payloads, RowOK, disk,
     requests, work, bounds, history, Worker, At
<1>2. RowOK'
  BY InboundAssumption DEF HandlerThrows, IInv, TypeOK, RowOK, Rows, Statuses, Payloads,
     HandlerOK, disk, requests, work, bounds, history, Worker, At
<1>3. HandlerOK'
  BY InboundAssumption DEF HandlerThrows, IInv, TypeOK, HandlerOK, Rows, Statuses, Payloads,
     TaskOK, RowOK, disk, requests, work, bounds, history, Worker, At
<1>4. TaskOK'
  BY InboundAssumption DEF HandlerThrows, IInv, TypeOK, TaskOK, HandlerOK, RowOK, disk,
     requests, work, bounds, history, Worker, At
<1>5. SweepOK'
  BY InboundAssumption DEF HandlerThrows, IInv, TypeOK, SweepOK, HandlerOK, TaskOK, RowOK, disk,
     requests, work, bounds, history, Worker, At
<1>6. ReplyOK'
  BY InboundAssumption DEF HandlerThrows, IInv, TypeOK, ReplyOK, TaskOK, RowOK, HandlerOK,
     SweepOK, disk, requests, work, bounds, history, Worker, At
<1>7. AnsweredOK'
  BY InboundAssumption DEF HandlerThrows, IInv, TypeOK, AnsweredOK, Rows, Statuses, Payloads,
     HandlerOK, TaskOK, SweepOK, RowOK, disk, requests, work, bounds, history, Worker, At
<1>8. CodeOK'
  BY InboundAssumption DEF HandlerThrows, IInv, TypeOK, CodeOK, Rows, Statuses, Payloads, RowOK,
     HandlerOK, disk, requests, work, bounds, history, Worker, At
<1>9. RanOK'
  BY InboundAssumption DEF HandlerThrows, IInv, TypeOK, RanOK, disk, requests, work, bounds,
     history, Worker, At
<1>. QED BY <1>1, <1>2, <1>3, <1>4, <1>5, <1>6, <1>7, <1>8, <1>9 DEF IInv

LEMMA SweepUnusableInv == ASSUME IInv, NEW m \in Message, SweepUnusable(m) PROVE IInv'
<1>0. /\ row[m] \in Rows /\ row[m].status = "failed" /\ row[m].attempts < MaxAttempts
      /\ kind[m] \in {"chat", "legacy"} /\ step[m] = "idle" /\ handler[m] = "none" /\ at # m
      /\ row[m].payload # "reply"
  <2>1. row[m].status = "failed" /\ at = NoMessage
    BY DEF SweepUnusable, IInv, SweepOK
  <2>2. row[m] \in Rows /\ row[m].attempts < MaxAttempts /\ kind[m] \in {"chat", "legacy"}
        /\ row[m].payload # "reply"
    BY <2>1 DEF IInv, TypeOK, RowOK
  <2>3. step[m] = "idle" /\ handler[m] = "none"
    BY <2>1 DEF IInv, TaskOK, HandlerOK
  <2>. QED BY <2>1, <2>2, <2>3, InboundAssumption
<1>a. PICK fatal \in BOOLEAN : row' = [row EXCEPT ![m] = Failure(row[m], fatal)]
  BY DEF SweepUnusable, Unusable
<1>b. /\ Failure(row[m], fatal) \in Rows
      /\ Failure(row[m], fatal).status \in {"failed", "dead_letter"}
      /\ Failure(row[m], fatal).status = "failed" => Failure(row[m], fatal).attempts < MaxAttempts
      /\ Failure(row[m], fatal).attempts >= 1
      /\ Failure(row[m], fatal).payload = row[m].payload
      /\ Failure(row[m], fatal).segments = row[m].segments
  BY <1>0, InboundAssumption, FailureRow
<1>1. TypeOK'
  <2>1. row' \in [Message -> Rows]
    BY <1>a, <1>b DEF IInv, TypeOK
  <2>. QED BY <2>1 DEF SweepUnusable, IInv, TypeOK, disk, requests, work, bounds, history
<1>2. RowOK'
  BY <1>0, <1>a, <1>b DEF SweepUnusable, IInv, TypeOK, RowOK, disk, requests, work, bounds,
     history, Worker, At
<1>3. HandlerOK'
  BY <1>0, <1>a, <1>b DEF SweepUnusable, IInv, TypeOK, HandlerOK, disk, requests, work, bounds,
     history, Worker, At
<1>4. TaskOK'
  BY <1>0, <1>a, <1>b DEF SweepUnusable, IInv, TypeOK, TaskOK, disk, requests, work, bounds,
     history, Worker, At
<1>5. SweepOK'
  BY <1>0, <1>a, <1>b DEF SweepUnusable, IInv, TypeOK, SweepOK, disk, requests, work, bounds,
     history, Worker, At
<1>6. ReplyOK'
  BY <1>0, <1>a, <1>b DEF SweepUnusable, IInv, TypeOK, ReplyOK, SweepOK, TaskOK, disk, requests,
     work, bounds, history, Worker, At
<1>7. AnsweredOK'
  BY <1>0, <1>a, <1>b DEF SweepUnusable, IInv, TypeOK, AnsweredOK, disk, requests, work, bounds,
     history, Worker, At
<1>8. CodeOK'
  BY <1>0, <1>a, <1>b DEF SweepUnusable, IInv, TypeOK, CodeOK, disk, requests, work, bounds,
     history, Worker, At
<1>9. RanOK'
  BY <1>0, <1>a, <1>b DEF SweepUnusable, IInv, TypeOK, RanOK, disk, requests, work, bounds,
     history, Worker, At
<1>. QED BY <1>1, <1>2, <1>3, <1>4, <1>5, <1>6, <1>7, <1>8, <1>9 DEF IInv

LEMMA SweepTakesInv == ASSUME IInv, NEW m \in Message, SweepTakes(m) PROVE IInv'
<1>1. TypeOK'
  BY InboundAssumption DEF SweepTakes, IInv, TypeOK, Rows, Statuses, Payloads, RowOK, disk,
     requests, work, bounds, history, Worker, At
<1>2. RowOK'
  BY InboundAssumption DEF SweepTakes, IInv, TypeOK, RowOK, Rows, Statuses, Payloads, HandlerOK,
     disk, requests, work, bounds, history, Worker, At
<1>3. HandlerOK'
  BY InboundAssumption DEF SweepTakes, IInv, TypeOK, HandlerOK, Rows, Statuses, Payloads,
     TaskOK, RowOK, disk, requests, work, bounds, history, Worker, At
<1>4. TaskOK'
  BY InboundAssumption DEF SweepTakes, IInv, TypeOK, TaskOK, HandlerOK, RowOK, disk, requests,
     work, bounds, history, Worker, At
<1>5. SweepOK'
  BY InboundAssumption DEF SweepTakes, IInv, TypeOK, SweepOK, HandlerOK, TaskOK, RowOK, disk,
     requests, work, bounds, history, Worker, At
<1>6. ReplyOK'
  BY InboundAssumption DEF SweepTakes, IInv, TypeOK, ReplyOK, TaskOK, RowOK, HandlerOK, SweepOK,
     disk, requests, work, bounds, history, Worker, At
<1>7. AnsweredOK'
  BY InboundAssumption DEF SweepTakes, IInv, TypeOK, AnsweredOK, Rows, Statuses, Payloads,
     HandlerOK, TaskOK, SweepOK, RowOK, disk, requests, work, bounds, history, Worker, At
<1>8. CodeOK'
  BY InboundAssumption DEF SweepTakes, IInv, TypeOK, CodeOK, Rows, Statuses, Payloads, RowOK,
     HandlerOK, disk, requests, work, bounds, history, Worker, At
<1>9. RanOK'
  BY InboundAssumption DEF SweepTakes, IInv, TypeOK, RanOK, disk, requests, work, bounds,
     history, Worker, At
<1>. QED BY <1>1, <1>2, <1>3, <1>4, <1>5, <1>6, <1>7, <1>8, <1>9 DEF IInv

LEMMA BackoffEndsInv == ASSUME IInv, NEW m \in Message, BackoffEnds(m) PROVE IInv'
<1>1. TypeOK'
  <2>1. row[m] \in Rows
    BY DEF IInv, TypeOK
  <2>2. [row[m] EXCEPT !.due = TRUE] \in Rows
    BY <2>1, InboundAssumption DEF Rows, Statuses, Payloads, IInv
  <2>3. row' \in [Message -> Rows]
    BY <2>2 DEF BackoffEnds, IInv, TypeOK
  <2>. QED
    BY <2>3 DEF BackoffEnds, IInv, TypeOK, disk, requests, work, bounds, history, Worker
<1>2. RowOK'
  BY InboundAssumption DEF BackoffEnds, IInv, TypeOK, RowOK, Rows, Statuses, Payloads,
     HandlerOK, disk, requests, work, bounds, history, Worker, At
<1>3. HandlerOK'
  BY InboundAssumption DEF BackoffEnds, IInv, TypeOK, HandlerOK, Rows, Statuses, Payloads,
     TaskOK, RowOK, disk, requests, work, bounds, history, Worker, At
<1>4. TaskOK'
  BY InboundAssumption DEF BackoffEnds, IInv, TypeOK, TaskOK, HandlerOK, RowOK, disk, requests,
     work, bounds, history, Worker, At
<1>5. SweepOK'
  BY InboundAssumption DEF BackoffEnds, IInv, TypeOK, SweepOK, HandlerOK, TaskOK, RowOK, disk,
     requests, work, bounds, history, Worker, At
<1>6. ReplyOK'
  BY InboundAssumption DEF BackoffEnds, IInv, TypeOK, ReplyOK, TaskOK, RowOK, HandlerOK,
     SweepOK, disk, requests, work, bounds, history, Worker, At
<1>7. AnsweredOK'
  BY InboundAssumption DEF BackoffEnds, IInv, TypeOK, AnsweredOK, Rows, Statuses, Payloads,
     HandlerOK, TaskOK, SweepOK, RowOK, disk, requests, work, bounds, history, Worker, At
<1>8. CodeOK'
  BY InboundAssumption DEF BackoffEnds, IInv, TypeOK, CodeOK, Rows, Statuses, Payloads, RowOK,
     HandlerOK, disk, requests, work, bounds, history, Worker, At
<1>9. RanOK'
  BY InboundAssumption DEF BackoffEnds, IInv, TypeOK, RanOK, disk, requests, work, bounds,
     history, Worker, At
<1>. QED BY <1>1, <1>2, <1>3, <1>4, <1>5, <1>6, <1>7, <1>8, <1>9 DEF IInv

LEMMA ReplayInv == ASSUME IInv, NEW m \in Message, Replay(m) PROVE IInv'
<1>1. TypeOK'
  BY InboundAssumption DEF Replay, IInv, TypeOK, Rows, Statuses, Payloads, RowOK, disk,
     requests, work, bounds, history, Worker, At
<1>2. RowOK'
  BY InboundAssumption DEF Replay, IInv, TypeOK, RowOK, Rows, Statuses, Payloads, HandlerOK,
     disk, requests, work, bounds, history, Worker, At
<1>3. HandlerOK'
  BY InboundAssumption DEF Replay, IInv, TypeOK, HandlerOK, Rows, Statuses, Payloads, TaskOK,
     RowOK, disk, requests, work, bounds, history, Worker, At
<1>4. TaskOK'
  BY InboundAssumption DEF Replay, IInv, TypeOK, TaskOK, HandlerOK, RowOK, disk, requests, work,
     bounds, history, Worker, At
<1>5. SweepOK'
  BY InboundAssumption DEF Replay, IInv, TypeOK, SweepOK, HandlerOK, TaskOK, RowOK, disk,
     requests, work, bounds, history, Worker, At
<1>6. ReplyOK'
  BY InboundAssumption DEF Replay, IInv, TypeOK, ReplyOK, TaskOK, RowOK, HandlerOK, SweepOK,
     disk, requests, work, bounds, history, Worker, At
<1>7. AnsweredOK'
  BY InboundAssumption DEF Replay, IInv, TypeOK, AnsweredOK, Rows, Statuses, Payloads,
     HandlerOK, TaskOK, SweepOK, RowOK, disk, requests, work, bounds, history, Worker, At
<1>8. CodeOK'
  BY InboundAssumption DEF Replay, IInv, TypeOK, CodeOK, Rows, Statuses, Payloads, RowOK,
     HandlerOK, disk, requests, work, bounds, history, Worker, At
<1>9. RanOK'
  BY InboundAssumption DEF Replay, IInv, TypeOK, RanOK, disk, requests, work, bounds, history,
     Worker, At
<1>. QED BY <1>1, <1>2, <1>3, <1>4, <1>5, <1>6, <1>7, <1>8, <1>9 DEF IInv
-----------------------------------------------------------------------------
(* The whole-state steps *)

LEMMA StartSweepInv == ASSUME IInv, StartSweep PROVE IInv'
<1>1. TypeOK'
  BY DEF StartSweep, Retryable, IInv, TypeOK, disk, requests, bounds, history
<1>2. at = NoMessage /\ \A m \in todo' : row[m].status = "failed"
  BY DEF StartSweep, MaySweep, Retryable, IInv, SweepOK
<1>3. SweepOK'
  BY <1>2 DEF StartSweep, IInv, SweepOK, disk, requests, bounds, history
<1>4. RowOK' /\ HandlerOK' /\ TaskOK' /\ AnsweredOK' /\ CodeOK' /\ RanOK'
  BY DEF StartSweep, IInv, RowOK, HandlerOK, TaskOK, AnsweredOK, CodeOK, RanOK,
     disk, requests, bounds, history
<1>5. ReplyOK'
  BY DEF StartSweep, IInv, ReplyOK, At, disk, requests, bounds, history
<1>. QED BY <1>1, <1>3, <1>4, <1>5 DEF IInv

LEMMA EndSweepInv == ASSUME IInv, EndSweep PROVE IInv'
<1>1. TypeOK' /\ SweepOK'
  BY DEF EndSweep, IInv, TypeOK, SweepOK, disk, requests, bounds, history
<1>2. RowOK' /\ HandlerOK' /\ TaskOK' /\ AnsweredOK' /\ CodeOK' /\ RanOK'
  BY DEF EndSweep, IInv, RowOK, HandlerOK, TaskOK, AnsweredOK, CodeOK, RanOK,
     disk, requests, bounds, history
<1>3. ReplyOK'
  BY DEF EndSweep, IInv, ReplyOK, At, disk, requests, bounds, history
<1>. QED BY <1>1, <1>2, <1>3 DEF IInv

\* A crash frees every row: what it abandons is what the invariant exempts.
LEMMA CrashInv == ASSUME IInv, Crash PROVE IInv'
<1>1. /\ handler' = [m \in Message |-> "none"] /\ again' = {} /\ timer' = {}
      /\ step' = [w \in Worker |-> "idle"]
      /\ sweepOn' = FALSE /\ todo' = {} /\ at' = NoMessage
      /\ size' = [w \in Worker |-> 0] /\ sent' = [w \in Worker |-> 0]
      /\ UNCHANGED <<kind, sends, replays, ran, answered, applied, told>>
      /\ crashes' \in 0..MaxCrashes
  BY InboundAssumption DEF Crash, IInv, TypeOK
<1>2. /\ InHand \subseteq abandoned' /\ abandoned \subseteq abandoned'
      /\ abandoned' \subseteq Message
  BY DEF Crash, InHand, IInv, TypeOK
<1>0. /\ \A w \in Worker : step'[w] = "idle" /\ size'[w] = 0 /\ sent'[w] = 0
      /\ \A m \in Message : step'[m] = "idle" /\ at' # m /\ handler'[m] = "none"
      /\ step'[Sweep] = "idle"
      /\ 0 \in 0..MaxSegments
  BY <1>1, InboundAssumption DEF Worker
<1>a. /\ size' \in [Worker -> 0..MaxSegments] /\ sent' \in [Worker -> 0..MaxSegments]
      /\ step' \in [Worker -> {"idle", "prepare", "turn", "reply"}]
      /\ handler' \in [Message -> {"none", "intercepts", "telling"}]
  BY <1>0, <1>1
<1>3. HandlerOK' /\ TaskOK' /\ SweepOK' /\ ReplyOK' /\ RanOK'
  <2>1. HandlerOK' /\ TaskOK'
    BY <1>0 DEF HandlerOK, TaskOK
  <2>2. SweepOK'
    BY <1>0, <1>1 DEF SweepOK
  <2>3. ReplyOK'
    BY <1>0 DEF ReplyOK
  <2>4. RanOK'
    BY <1>1 DEF RanOK, IInv
  <2>. QED BY <2>1, <2>2, <2>3, <2>4
<1>4. \A m \in Message : answered[m] = 1 => step[m] = "idle" /\ at # m
  BY DEF IInv, AnsweredOK
<1>5. \A m \in Message : row[m].status = "processed" /\ (step[m] # "idle" \/ at = m) => m \in InHand
  <2>1. SUFFICES ASSUME NEW m \in Message, row[m].status = "processed", step[m] # "idle" \/ at = m
                 PROVE  Owners(m) # {}
    BY DEF InHand
  <2>2. CASE step[m] # "idle"
    <3>1. m \in Owners(m)
      BY <2>2, InboundAssumption DEF Owners, Worker, At
    <3>. QED BY <3>1
  <2>3. CASE at = m
    <3>1. Sweep \in Owners(m)
      BY <2>3, InboundAssumption DEF Owners, Worker, At, IInv, SweepOK
    <3>. QED BY <3>1
  <2>. QED BY <2>1, <2>2, <2>3
<1>6. \A m \in Message : handler[m] # "none" => m \in abandoned'
  BY <1>2 DEF InHand
<1>7. CASE UNCHANGED row
  <2>1. TypeOK'
    BY <1>a, <1>1, <1>2, <1>7 DEF IInv, TypeOK
  <2>2. RowOK'
    BY <1>1, <1>2, <1>7 DEF IInv, RowOK
  <2>3. AnsweredOK'
    BY <1>0, <1>1, <1>2, <1>4, <1>5, <1>7 DEF IInv, AnsweredOK
  <2>4. CodeOK'
    BY <1>1, <1>2, <1>6, <1>7 DEF IInv, CodeOK
  <2>. QED BY <1>3, <2>1, <2>2, <2>3, <2>4 DEF IInv
<1>8. ASSUME NEW m \in Message, handler[m] = "intercepts", kind[m] = "secret",
             row' = [row EXCEPT ![m].payload = "request"]
      PROVE  IInv'
  <2>1. row[m] \in Rows /\ [row[m] EXCEPT !.payload = "request"] \in Rows
    BY DEF IInv, TypeOK, Rows, Payloads
  <2>2. row' = [row EXCEPT ![m] = [row[m] EXCEPT !.payload = "request"]]
    BY <1>8
  <2>3. TypeOK'
    <3>1. row' \in [Message -> Rows]
      BY <2>1, <2>2 DEF IInv, TypeOK
    <3>. QED BY <3>1, <1>a, <1>1, <1>2 DEF IInv, TypeOK
  <2>4. RowOK'
    BY <1>1, <1>2, <1>6, <1>8 DEF IInv, TypeOK, RowOK, HandlerOK, Rows
  <2>5. AnsweredOK'
    BY <1>0, <1>1, <1>2, <1>4, <1>5, <1>8 DEF IInv, TypeOK, AnsweredOK, Rows
  <2>6. CodeOK'
    BY <1>1, <1>2, <1>6, <1>8 DEF IInv, TypeOK, CodeOK, Rows
  <2>. QED BY <1>3, <2>3, <2>4, <2>5, <2>6 DEF IInv
<1>9. ASSUME NEW m \in Message, ~IsDuplicate(m), kind[m] = "invite",
             row' = [row EXCEPT ![m] = Recorded]
      PROVE  IInv'
  <2>1. Recorded \in Rows
    BY NewRows
  <2>2. /\ Recorded.status = "pending" /\ Recorded.attempts = 0
        /\ Recorded.segments = 0 /\ Recorded.payload = "none"
    BY NewRows
  <2>3. TypeOK'
    <3>1. row' \in [Message -> Rows]
      BY <1>9, <2>1 DEF IInv, TypeOK
    <3>. QED BY <3>1, <1>a, <1>1, <1>2 DEF IInv, TypeOK
  <2>4. RowOK'
    BY <1>1, <1>2, <1>9, <2>2, InboundAssumption DEF IInv, TypeOK, RowOK
  <2>5. AnsweredOK'
    BY <1>0, <1>1, <1>2, <1>4, <1>5, <1>9, <2>2 DEF IInv, TypeOK, AnsweredOK, IsDuplicate
  <2>6. CodeOK'
    BY <1>1, <1>2, <1>6, <1>9, <2>2 DEF IInv, TypeOK, CodeOK, IsDuplicate
  <2>. QED BY <1>3, <2>3, <2>4, <2>5, <2>6 DEF IInv
<1>. QED BY <1>7, <1>8, <1>9 DEF Crash
-----------------------------------------------------------------------------
(* The steps of a worker with the row it has *)

\* What a worker has is nobody else's, and can still be answered or fail.
LEMMA OwnerFacts ==
    ASSUME IInv, NEW w \in Worker, step[w] # "idle"
    PROVE  /\ At(w) \in Message /\ row[At(w)] \in Rows
           /\ kind[At(w)] = "chat" /\ handler[At(w)] = "none"
           /\ row[At(w)].status \in {"pending", "failed", "processed"}
           /\ row[At(w)].status = "processed" <=> step[w] = "reply"
           /\ row[At(w)].attempts < MaxAttempts
           /\ At(w) \notin todo /\ answered[At(w)] = 0
           /\ \A v \in Worker : step[v] # "idle" /\ At(v) = At(w) => v = w
<1>1. CASE w = Sweep
  <2>1. at \in Message /\ At(w) = at /\ at # NoMessage
    BY <1>1, InboundAssumption DEF At, IInv, SweepOK, TypeOK
  <2>2. /\ kind[at] = "chat" /\ step[at] = "idle" /\ at \notin todo
        /\ row[at].status = IF step[Sweep] = "reply" THEN "processed" ELSE "failed"
    BY <2>1 DEF IInv, SweepOK
  <2>3. handler[at] = "none" /\ row[at] \in Rows /\ row[at].attempts < MaxAttempts
    BY <2>1, <2>2 DEF IInv, HandlerOK, TypeOK, RowOK
  <2>4. answered[at] = 0
    BY <2>1 DEF IInv, AnsweredOK
  <2>5. \A v \in Worker : step[v] # "idle" /\ At(v) = at => v = w
    BY <1>1, <2>2 DEF At, Worker
  <2>. QED BY <1>1, <2>1, <2>2, <2>3, <2>4, <2>5
<1>2. CASE w # Sweep
  <2>1. w \in Message /\ At(w) = w
    BY <1>2 DEF At, Worker
  <2>2. kind[w] = "chat" /\ row[w].status = IF step[w] = "reply" THEN "processed" ELSE "pending"
    BY <2>1 DEF IInv, TaskOK
  <2>3. handler[w] = "none" /\ row[w] \in Rows /\ row[w].attempts < MaxAttempts
    BY <2>1, <2>2 DEF IInv, HandlerOK, TypeOK, RowOK
  <2>4. answered[w] = 0 /\ w \notin todo
    BY <2>1, <2>2 DEF IInv, AnsweredOK, SweepOK
  <2>5. at # w
    BY <2>1, InboundAssumption DEF IInv, SweepOK
  <2>6. \A v \in Worker : step[v] # "idle" /\ At(v) = w => v = w
    BY <2>5 DEF At
  <2>. QED BY <2>1, <2>2, <2>3, <2>4, <2>6
<1>. QED BY <1>1, <1>2

\* A worker that lets go of a row.
LEMMA RestFacts ==
    ASSUME IInv, NEW w \in Worker, step[w] # "idle", Rest(w)
    PROVE  /\ step' \in [Worker -> {"idle", "prepare", "turn", "reply"}]
           /\ size' \in [Worker -> 0..MaxSegments] /\ sent' \in [Worker -> 0..MaxSegments]
           /\ at' \in Message \union {NoMessage}
           /\ \A v \in Worker : /\ v = w => step'[v] = "idle" /\ size'[v] = 0 /\ sent'[v] = 0
                                /\ v # w => /\ step'[v] = step[v] /\ size'[v] = size[v]
                                            /\ sent'[v] = sent[v]
           /\ w = Sweep => at' = NoMessage
           /\ w # Sweep => at' = at
           /\ step'[At(w)] = "idle" /\ at' # At(w)
           /\ \A v \in Worker : step'[v] # "idle" => v # w /\ At(v)' = At(v) /\ At(v) # At(w)
<1>1. 0 \in 0..MaxSegments
  BY InboundAssumption
<1>2. /\ step' = [step EXCEPT ![w] = "idle"] /\ size' = [size EXCEPT ![w] = 0]
      /\ sent' = [sent EXCEPT ![w] = 0] /\ at' = IF w = Sweep THEN NoMessage ELSE at
  BY DEF Rest
<1>3. /\ step' \in [Worker -> {"idle", "prepare", "turn", "reply"}]
      /\ size' \in [Worker -> 0..MaxSegments] /\ sent' \in [Worker -> 0..MaxSegments]
      /\ at' \in Message \union {NoMessage}
  BY <1>1, <1>2 DEF IInv, TypeOK
<1>4. \A v \in Worker : /\ v = w => step'[v] = "idle" /\ size'[v] = 0 /\ sent'[v] = 0
                        /\ v # w => /\ step'[v] = step[v] /\ size'[v] = size[v]
                                    /\ sent'[v] = sent[v]
  BY <1>2 DEF IInv, TypeOK
<1>5. At(w) \in Message /\ \A v \in Worker : step[v] # "idle" /\ At(v) = At(w) => v = w
  BY OwnerFacts
<1>6. \A v \in Worker : step'[v] # "idle" => v # w /\ At(v)' = At(v) /\ At(v) # At(w)
  BY <1>2, <1>4, <1>5 DEF At
<1>7. step'[At(w)] = "idle"
  <2>1. At(w) \in Worker /\ At(w) # Sweep
    BY <1>5, InboundAssumption DEF Worker
  <2>2. CASE At(w) = w
    BY <2>2, <1>4
  <2>3. CASE At(w) # w
    BY <2>1, <2>3, <1>4, <1>5 DEF At
  <2>. QED BY <2>2, <2>3
<1>8. at' # At(w)
  <2>1. CASE w = Sweep
    BY <2>1, <1>2, <1>5, InboundAssumption
  <2>2. CASE w # Sweep
    <3>1. at = w => step[Sweep] # "idle" /\ At(Sweep) = w
      BY <2>2, <1>5, InboundAssumption DEF IInv, SweepOK, At
    <3>. QED BY <2>2, <3>1, <1>2, <1>5 DEF At, Worker
  <2>. QED BY <2>1, <2>2
<1>. QED BY <1>2, <1>3, <1>4, <1>6, <1>7, <1>8

\* Letting go of a row that was changed to r, answered n times so far.
LEMMA ReleaseInv ==
    ASSUME IInv, NEW w \in Worker, step[w] # "idle", Rest(w),
           NEW r \in Rows, row' = [row EXCEPT ![At(w)] = r],
           r.status \in {"failed", "dead_letter", "processed"},
           r.status # "dead_letter" => r.attempts < MaxAttempts,
           r.status = "dead_letter" => r.attempts >= 1,
           r.payload = row[At(w)].payload,
           answered' = [answered EXCEPT ![At(w)] = IF r.status = "processed" THEN @ + 1 ELSE @],
           UNCHANGED <<kind, requests, sweepOn, todo, bounds, ran, applied, told, abandoned>>
    PROVE  IInv'
<1>. DEFINE m == At(w)
<1>1. /\ m \in Message /\ row[m] \in Rows /\ kind[m] = "chat" /\ handler[m] = "none"
      /\ row[m].status \in {"pending", "failed", "processed"}
      /\ m \notin todo /\ answered[m] = 0
  BY OwnerFacts
<1>. HIDE DEF m
<1>2. row'[m] = r /\ \A n \in Message : n # m => row'[n] = row[n]
  BY <1>1 DEF IInv, TypeOK, m
<1>3. /\ answered'[m] = IF r.status = "processed" THEN 1 ELSE 0
      /\ \A n \in Message : n # m => answered'[n] = answered[n]
      /\ answered' \in [Message -> Nat]
  BY <1>1 DEF IInv, TypeOK, m
<1>4. TypeOK'
  <2>1. row' \in [Message -> Rows]
    BY <1>1 DEF IInv, TypeOK, m
  <2>. QED BY <2>1, <1>3, RestFacts DEF IInv, TypeOK, requests, bounds
<1>5. RowOK'
  BY <1>1, <1>2 DEF IInv, RowOK, m
<1>6. step'[m] = "idle" /\ at' # m /\ \A n \in Message : n # m => step'[n] = step[n] \/ step'[n] = "idle"
  BY RestFacts DEF m, Worker
<1>7. HandlerOK'
  BY <1>1, <1>2, <1>6 DEF IInv, HandlerOK, requests
<1>8. TaskOK'
  BY <1>2, <1>6 DEF IInv, TaskOK
<1>9. SweepOK'
  <2>1. CASE w = Sweep
    <3>1. step'[Sweep] = "idle" /\ at' = NoMessage
      BY <2>1, RestFacts DEF Worker
    <3>. QED BY <3>1, <1>1, <1>2 DEF IInv, SweepOK, TypeOK
  <2>2. CASE w # Sweep
    <3>1. step'[Sweep] = step[Sweep] /\ at' = at /\ at # m
      BY <2>2, <1>6, RestFacts DEF Worker
    <3>2. at # NoMessage => at \in Message
      BY DEF IInv, TypeOK
    <3>. QED BY <3>1, <3>2, <1>1, <1>2, <1>6 DEF IInv, SweepOK, TypeOK
  <2>. QED BY <2>1, <2>2
<1>10. ReplyOK'
  <2>. SUFFICES ASSUME NEW v \in Worker PROVE ReplyOK!(v)'
    BY DEF ReplyOK
  <2>1. CASE v = w
    BY <2>1, RestFacts
  <2>2. CASE v # w
    <3>1. step'[v] = step[v] /\ size'[v] = size[v] /\ sent'[v] = sent[v]
      BY <2>2, RestFacts
    <3>2. step[v] # "idle" => At(v)' = At(v) /\ At(v) # m /\ At(v) \in Message
      BY <3>1, RestFacts, OwnerFacts DEF m
    <3>. QED BY <3>1, <3>2, <1>2 DEF IInv, ReplyOK
  <2>. QED BY <2>1, <2>2
<1>11. AnsweredOK'
  <2>. SUFFICES ASSUME NEW n \in Message PROVE AnsweredOK!(n)'
    BY DEF AnsweredOK
  <2>1. CASE n = m
    BY <2>1, <1>2, <1>3, <1>6
  <2>2. CASE n # m
    <3>1. /\ step[n] = "idle" => step'[n] = "idle"
          /\ step'[n] = "idle" => step[n] = "idle"
      BY <2>2, RestFacts, InboundAssumption DEF m, At, Worker
    <3>2. at' = n <=> at = n
      BY <2>2, RestFacts, InboundAssumption DEF m, At
    <3>. QED BY <2>2, <3>1, <3>2, <1>2, <1>3 DEF IInv, AnsweredOK
  <2>. QED BY <2>1, <2>2
<1>12. CodeOK' /\ RanOK'
  BY <1>1, <1>2 DEF IInv, CodeOK, RanOK, requests
<1>. QED BY <1>4, <1>5, <1>7, <1>8, <1>9, <1>10, <1>11, <1>12 DEF IInv

LEMMA FailInv ==
    ASSUME IInv, NEW w \in Worker, step[w] # "idle", NEW fatal \in BOOLEAN, Fail(w, fatal)
    PROVE  IInv'
<1>1. row[At(w)] \in Rows /\ row[At(w)].attempts < MaxAttempts
  BY OwnerFacts
<1>2. /\ Failure(row[At(w)], fatal) \in Rows
      /\ Failure(row[At(w)], fatal).status \in {"failed", "dead_letter"}
      /\ Failure(row[At(w)], fatal).status = "failed"
           => Failure(row[At(w)], fatal).attempts < MaxAttempts
      /\ Failure(row[At(w)], fatal).attempts >= 1
      /\ Failure(row[At(w)], fatal).payload = row[At(w)].payload
  BY <1>1, FailureRow
<1>3. /\ row' = [row EXCEPT ![At(w)] = Failure(row[At(w)], fatal)] /\ Rest(w)
      /\ UNCHANGED <<kind, requests, sweepOn, todo, bounds, ran, applied, told, abandoned>>
      /\ answered' = answered
  BY DEF Fail, history
<1>4. answered' = [answered EXCEPT ![At(w)] =
                     IF Failure(row[At(w)], fatal).status = "processed" THEN @ + 1 ELSE @]
  BY <1>2, <1>3 DEF IInv, TypeOK
<1>. QED BY <1>2, <1>3, <1>4, ReleaseInv

LEMMA BeginInv == ASSUME IInv, NEW w \in Worker, Begin(w) PROVE IInv'
<1>. DEFINE m == At(w)
<1>1. step[w] = "prepare" /\ step' = [step EXCEPT ![w] = "turn"] /\ ran' = ran \union {m}
  BY DEF Begin
<1>2. m \in Message /\ kind[m] = "chat" /\ row[m].status # "processed"
  BY <1>1, OwnerFacts
<1>3. UNCHANGED <<disk, requests, size, sent, sweepOn, todo, at, bounds, answered, applied,
                  told, abandoned>>
  BY DEF Begin
<1>. HIDE DEF m
<1>4. \A v \in Worker : step'[v] = IF v = w THEN "turn" ELSE step[v]
  BY <1>1 DEF IInv, TypeOK
<1>5. TypeOK' /\ RowOK' /\ CodeOK' /\ RanOK'
  BY <1>1, <1>2, <1>3 DEF IInv, TypeOK, RowOK, CodeOK, RanOK, disk, requests, bounds
<1>6. HandlerOK' /\ TaskOK' /\ AnsweredOK'
  <2>1. \A n \in Message : /\ step'[n] = "idle" <=> step[n] = "idle"
                           /\ step'[n] = "reply" <=> step[n] = "reply"
    BY <1>1, <1>4 DEF Worker
  <2>. QED BY <2>1, <1>3 DEF IInv, HandlerOK, TaskOK, AnsweredOK, disk, requests
<1>7. SweepOK'
  <2>1. /\ step'[Sweep] = "idle" <=> step[Sweep] = "idle"
        /\ step'[Sweep] = "reply" <=> step[Sweep] = "reply"
        /\ \A n \in Message : step'[n] = "idle" <=> step[n] = "idle"
    BY <1>1, <1>4 DEF Worker
  <2>. QED BY <2>1, <1>3 DEF IInv, SweepOK, TypeOK, disk
<1>8. ReplyOK'
  BY <1>1, <1>3, <1>4 DEF IInv, ReplyOK, At, disk
<1>. QED BY <1>5, <1>6, <1>7, <1>8 DEF IInv

\* A worker that keeps its row goes on, or starts, delivering a reply.
LEMMA ReplyInv ==
    ASSUME IInv, NEW w \in Worker, step[w] \in {"turn", "reply"},
           NEW r \in Rows, row' = [row EXCEPT ![At(w)] = r],
           r.status = "processed", r.attempts < MaxAttempts, r.payload = row[At(w)].payload,
           step' = [step EXCEPT ![w] = "reply"],
           size' \in [Worker -> 0..MaxSegments], sent' \in [Worker -> 0..MaxSegments],
           \A v \in Worker : v # w => size'[v] = size[v] /\ sent'[v] = sent[v],
           sent'[w] < size'[w], r.segments = sent'[w],
           UNCHANGED <<kind, requests, sweepOn, todo, at, bounds, history>>
    PROVE  IInv'
<1>. DEFINE m == At(w)
<1>1. /\ m \in Message /\ row[m] \in Rows /\ kind[m] = "chat" /\ handler[m] = "none"
      /\ row[m].status \in {"pending", "failed", "processed"}
      /\ m \notin todo /\ answered[m] = 0
      /\ \A v \in Worker : step[v] # "idle" /\ At(v) = m => v = w
  BY OwnerFacts
<1>a. step[m] # "idle" \/ at = m
  BY DEF At, m
<1>. HIDE DEF m
<1>2. row'[m] = r /\ \A n \in Message : n # m => row'[n] = row[n]
  BY <1>1 DEF IInv, TypeOK, m
<1>3. \A v \in Worker : step'[v] = IF v = w THEN "reply" ELSE step[v]
  BY DEF IInv, TypeOK
<1>4. TypeOK'
  <2>1. row' \in [Message -> Rows]
    BY <1>1 DEF IInv, TypeOK, m
  <2>. QED BY <2>1 DEF IInv, TypeOK, requests, bounds, history
<1>5. RowOK' /\ CodeOK' /\ RanOK'
  BY <1>1, <1>2 DEF IInv, RowOK, CodeOK, RanOK, requests, history
<1>6. \A n \in Message : n # m => n # w
  BY <1>1, InboundAssumption DEF m, At
<1>7. HandlerOK'
  BY <1>1, <1>2, <1>3, <1>6 DEF IInv, HandlerOK, requests, Worker
<1>8. TaskOK'
  <2>. SUFFICES ASSUME NEW n \in Message PROVE TaskOK!(n)'
    BY DEF TaskOK
  <2>1. CASE n # m
    BY <2>1, <1>2, <1>3, <1>6 DEF IInv, TaskOK, Worker
  <2>2. CASE n = m
    <3>1. step'[m] # "idle" => w = m
      BY <1>1, <1>3, InboundAssumption DEF m, At, Worker
    <3>. QED BY <2>2, <3>1, <1>1, <1>2, <1>3 DEF Worker
  <2>. QED BY <2>1, <2>2
<1>9. SweepOK'
  <2>1. CASE w = Sweep
    <3>1. at = m /\ step[at] = "idle" /\ at # NoMessage
      BY <2>1, <1>1, InboundAssumption DEF m, At, IInv, SweepOK
    <3>2. step'[Sweep] = "reply" /\ step'[at] = "idle"
      BY <2>1, <3>1, <1>1, <1>3, InboundAssumption DEF Worker
    <3>. QED BY <3>1, <3>2, <1>1, <1>2 DEF IInv, SweepOK, TypeOK
  <2>2. CASE w # Sweep
    <3>1. m = w /\ step[m] # "idle" /\ at # m
      BY <2>2, <1>1, InboundAssumption DEF m, At, Worker, IInv, SweepOK
    <3>2. step'[Sweep] = step[Sweep]
      BY <2>2, <1>3 DEF Worker
    <3>3. at # NoMessage => at \in Message /\ step'[at] = step[at] /\ row'[at] = row[at]
      BY <3>1, <1>2, <1>3 DEF IInv, TypeOK, Worker
    <3>. QED BY <3>1, <3>2, <3>3, <1>1, <1>2 DEF IInv, SweepOK, TypeOK
  <2>. QED BY <2>1, <2>2
<1>10. ReplyOK'
  <2>. SUFFICES ASSUME NEW v \in Worker PROVE ReplyOK!(v)'
    BY DEF ReplyOK
  <2>1. CASE v = w
    BY <2>1, <1>2, <1>3 DEF m, At
  <2>2. CASE v # w
    <3>1. step'[v] = step[v] /\ At(v)' = At(v)
      BY <2>2, <1>3 DEF At
    <3>2. step[v] # "idle" => At(v) # m /\ At(v) \in Message
      BY <2>2, <1>1, OwnerFacts
    <3>. QED BY <2>2, <3>1, <3>2, <1>2 DEF IInv, ReplyOK
  <2>. QED BY <2>1, <2>2
<1>11. AnsweredOK'
  <2>. SUFFICES ASSUME NEW n \in Message PROVE AnsweredOK!(n)'
    BY DEF AnsweredOK
  <2>1. CASE n = m
    <3>1. step'[m] # "idle" \/ at' = m
      BY <1>a, <1>1, <1>3 DEF Worker
    <3>. QED BY <2>1, <3>1, <1>1 DEF history
  <2>2. CASE n # m
    BY <2>2, <1>2, <1>3, <1>6 DEF IInv, AnsweredOK, history, Worker
  <2>. QED BY <2>1, <2>2
<1>. QED BY <1>4, <1>5, <1>7, <1>8, <1>9, <1>10, <1>11 DEF IInv

LEMMA EndTurnInv == ASSUME IInv, NEW w \in Worker, EndTurn(w) PROVE IInv'
<1>. DEFINE m == At(w)
            r(n) == [row[m] EXCEPT !.linked = TRUE, !.status = "processed",
                                   !.segments = Progress(w, n, row[m].segments)]
<1>1. step[w] = "turn"
  BY DEF EndTurn
<1>2. /\ m \in Message /\ row[m] \in Rows /\ row[m].attempts < MaxAttempts
      /\ row[m].status \in {"pending", "failed"}
  BY <1>1, OwnerFacts
<1>3. PICK n \in 0..MaxSegments :
        /\ row' = [row EXCEPT ![m] = r(n)]
        /\ IF n = 0
           THEN Rest(w) /\ answered' = [answered EXCEPT ![m] = @ + 1]
           ELSE /\ step' = [step EXCEPT ![w] = "reply"]
                /\ size' = [size EXCEPT ![w] = n]
                /\ UNCHANGED <<sent, at, answered>>
        /\ UNCHANGED <<kind, requests, sweepOn, todo, bounds, ran, applied, told, abandoned>>
  BY DEF EndTurn
<1>4. Progress(w, n, row[m].segments) \in 0..MaxSegments
  BY <1>2, InboundAssumption DEF Progress, Rows
<1>5. /\ r(n) \in Rows /\ r(n).status = "processed" /\ r(n).attempts < MaxAttempts
      /\ r(n).payload = row[m].payload /\ r(n).segments = Progress(w, n, row[m].segments)
  BY <1>2, <1>4 DEF Rows, Statuses
<1>. HIDE DEF r
<1>6. CASE n = 0
  <2>1. answered' = [answered EXCEPT ![m] = IF r(n).status = "processed" THEN @ + 1 ELSE @]
    BY <1>3, <1>5, <1>6
  <2>. QED BY <2>1, <1>1, <1>3, <1>5, <1>6, ReleaseInv
<1>7. CASE n # 0
  <2>1. sent[w] = 0
    BY <1>1 DEF IInv, ReplyOK
  <2>2. Progress(w, n, row[m].segments) = 0
    <3>1. CASE w = Sweep
      BY <3>1, <1>7 DEF Progress
    <3>2. CASE w # Sweep
      <4>1. m = w /\ row[m].status = "pending"
        BY <3>2, <1>1, <1>2 DEF At, Worker, IInv, TaskOK
      <4>. QED BY <3>2, <4>1, <1>2 DEF Progress, IInv, RowOK
    <3>. QED BY <3>1, <3>2
  <2>3. /\ size' \in [Worker -> 0..MaxSegments] /\ sent' \in [Worker -> 0..MaxSegments]
        /\ \A v \in Worker : v # w => size'[v] = size[v] /\ sent'[v] = sent[v]
        /\ sent'[w] < size'[w] /\ r(n).segments = sent'[w]
    BY <1>3, <1>5, <1>7, <2>1, <2>2 DEF IInv, TypeOK
  <2>4. UNCHANGED <<kind, requests, sweepOn, todo, at, bounds, history>>
    BY <1>3, <1>7 DEF history
  <2>. QED BY <1>1, <1>3, <1>5, <1>7, <2>3, <2>4, ReplyInv
<1>. QED BY <1>6, <1>7

LEMMA DeliverSegmentInv == ASSUME IInv, NEW w \in Worker, DeliverSegment(w) PROVE IInv'
<1>. DEFINE m == At(w)
            r == [row[m] EXCEPT !.segments = sent[w] + 1]
<1>1. step[w] = "reply" /\ row' = [row EXCEPT ![m] = r]
  BY DEF DeliverSegment
<1>2. /\ m \in Message /\ row[m] \in Rows /\ row[m].attempts < MaxAttempts
      /\ row[m].status = "processed"
  BY <1>1, OwnerFacts
<1>3. /\ sent[w] < size[w] /\ size[w] \in 0..MaxSegments /\ sent[w] \in 0..MaxSegments
      /\ MaxSegments \in Nat
  BY <1>1, InboundAssumption DEF IInv, ReplyOK, TypeOK
<1>4. /\ r \in Rows /\ r.status = "processed" /\ r.attempts < MaxAttempts
      /\ r.payload = row[m].payload /\ r.segments = sent[w] + 1
  <2>1. sent[w] + 1 \in 0..MaxSegments
    BY <1>3
  <2>. QED BY <1>2, <2>1 DEF Rows
<1>. HIDE DEF r
<1>5. CASE sent[w] + 1 = size[w]
  <2>1. /\ Rest(w)
        /\ answered' = [answered EXCEPT ![m] = IF r.status = "processed" THEN @ + 1 ELSE @]
        /\ UNCHANGED <<kind, requests, sweepOn, todo, bounds, ran, applied, told, abandoned>>
    BY <1>4, <1>5 DEF DeliverSegment
  <2>. QED BY <2>1, <1>1, <1>4, ReleaseInv
<1>6. CASE sent[w] + 1 # size[w]
  <2>1. /\ sent' = [sent EXCEPT ![w] = sent[w] + 1]
        /\ UNCHANGED <<step, size, kind, requests, sweepOn, todo, at, bounds, history>>
    BY <1>6 DEF DeliverSegment, history
  <2>2. step' = [step EXCEPT ![w] = "reply"]
    BY <1>1, <2>1 DEF IInv, TypeOK
  <2>3. /\ size' \in [Worker -> 0..MaxSegments] /\ sent' \in [Worker -> 0..MaxSegments]
        /\ \A v \in Worker : v # w => size'[v] = size[v] /\ sent'[v] = sent[v]
        /\ sent'[w] < size'[w] /\ r.segments = sent'[w]
    BY <1>3, <1>4, <1>6, <2>1 DEF IInv, TypeOK
  <2>. QED BY <1>1, <1>4, <2>1, <2>2, <2>3, ReplyInv
<1>. QED BY <1>5, <1>6

LEMMA AdvanceInv == ASSUME IInv, NEW w \in Worker, Advance(w) PROVE IInv'
<1>1. CASE Begin(w)
  BY <1>1, BeginInv
<1>2. CASE RejectBusy(w)
  BY <1>2, FailInv DEF RejectBusy
<1>3. CASE BreakTurn(w)
  BY <1>3, FailInv DEF BreakTurn
<1>4. CASE EndTurn(w)
  BY <1>4, EndTurnInv
<1>5. CASE DeliverSegment(w)
  BY <1>5, DeliverSegmentInv
<1>6. CASE LoseSegment(w)
  BY <1>6, FailInv DEF LoseSegment
<1>. QED BY <1>1, <1>2, <1>3, <1>4, <1>5, <1>6 DEF Advance
-----------------------------------------------------------------------------
LEMMA StutterInv == ASSUME IInv, UNCHANGED vars PROVE IInv'
  BY DEF IInv, TypeOK, RowOK, HandlerOK, TaskOK, SweepOK, ReplyOK, AnsweredOK, CodeOK, RanOK,
     At, vars, disk, requests, work, bounds, history

LEMMA NextInv == ASSUME IInv, [Next]_vars PROVE IInv'
<1>1. CASE \E m \in Message : Receive(m) \/ ReceiveInvite(m) \/ ReceiveDuplicate(m)
  BY <1>1, ReceiveInv, ReceiveInviteInv, ReceiveDuplicateInv
<1>2. CASE \E m \in Message : Handle(m)
  BY <1>2, DispatchInv, BlockInv, ConsumeInv, TellInviteInv, TellVerifiedInv, HandlerThrowsInv
     DEF Handle
<1>3. CASE \E m \in Message : TellAgain(m) \/ TimerFires(m)
  BY <1>3, TellAgainInv, TimerFiresInv
<1>4. CASE \E m \in Message : SweepUnusable(m) \/ SweepTakes(m) \/ BackoffEnds(m) \/ Replay(m)
  BY <1>4, SweepUnusableInv, SweepTakesInv, BackoffEndsInv, ReplayInv
<1>5. CASE \E w \in Worker : Advance(w)
  BY <1>5, AdvanceInv
<1>6. CASE StartSweep \/ EndSweep \/ Crash
  BY <1>6, StartSweepInv, EndSweepInv, CrashInv
<1>7. CASE UNCHANGED vars
  BY <1>7, StutterInv
<1>. QED BY <1>1, <1>2, <1>3, <1>4, <1>5, <1>6, <1>7 DEF Next

LEMMA Invariance == Spec => []IInv
<1>1. Init => IInv
  BY InitInv
<1>2. IInv /\ [Next]_vars => IInv'
  BY NextInv
<1>. QED BY <1>1, <1>2, PTL DEF Spec
-----------------------------------------------------------------------------
\* Every variable keeps its type: in particular a row never counts more than
\* MaxAttempts failures (memory/delivery-status.ts, recordProcessingFailure).
THEOREM TypeCorrect == Spec => []TypeOK
<1>1. IInv => TypeOK
  BY DEF IInv
<1>. QED BY <1>1, Invariance, PTL

\* However requests, background tasks and sweeps interleave, no message is
\* processed by two workers at once (runtime/channel-retry-sweep.ts,
\* background-dispatch.ts).
THEOREM OwnedByOne == Spec => []OneOwner
<1>1. IInv => OneOwner
  BY OwnerFacts DEF OneOwner
<1>. QED BY <1>1, Invariance, PTL

\* A message is answered in full at most once, and rests as processed only
\* when it was, or when a crash abandoned it.
THEOREM RepliesOnce == Spec => []AnsweredOnce
<1>1. IInv => AnsweredOnce
  <2>. SUFFICES ASSUME IInv, NEW m \in Message PROVE AnsweredOnce!(m)
    BY DEF AnsweredOnce
  <2>1. answered[m] \in {0, 1}
    BY DEF IInv, AnsweredOK
  <2>2. Owners(m) = {} => step[m] = "idle" /\ at # m
    <3>1. step[m] # "idle" => m \in Owners(m)
      BY InboundAssumption DEF Owners, At, Worker
    <3>2. at = m => Sweep \in Owners(m)
      BY InboundAssumption DEF Owners, At, Worker, IInv, SweepOK
    <3>. QED BY <3>1, <3>2
  <2>. QED BY <2>1, <2>2 DEF IInv, AnsweredOK
<1>. QED BY <1>1, Invariance, PTL

\* The delivery progress on disk is that of the reply being delivered
\* (memory/delivery-channels.ts, updateDeliveredSegmentCount).
THEOREM ProgressIsCurrent == Spec => []ProgressIsOfThisReply
<1>1. IInv => ProgressIsOfThisReply
  BY DEF IInv, ReplyOK, ProgressIsOfThisReply
<1>. QED BY <1>1, Invariance, PTL

\* Retrying stops at the limit (memory/delivery-status.ts).
THEOREM Bounded == Spec => []RetriesAreBounded
<1>1. IInv => RetriesAreBounded
  <2>. SUFFICES ASSUME IInv, NEW m \in Message PROVE RetriesAreBounded!(m)
    BY DEF RetriesAreBounded
  <2>1. row[m].attempts \in 0..MaxAttempts /\ MaxAttempts \in Nat
    BY InboundAssumption DEF IInv, TypeOK, Rows
  <2>. QED BY <2>1 DEF IInv, RowOK
<1>. QED BY <1>1, Invariance, PTL

\* Only chat messages reach the agent, and a blocked one leaves no payload
\* behind unless the scan was cut (inbound-stages/secret-ingress-check.ts).
THEOREM KeptOut == Spec => []OnlyChatRuns
<1>1. IInv => OnlyChatRuns
  BY DEF IInv, RanOK, RowOK, OnlyChatRuns
<1>. QED BY <1>1, Invariance, PTL

\* Codes are used at most once and their senders told
\* (inbound-stages/verification-intercept.ts, acl-enforcement.ts).
THEOREM CodesOnce == Spec => []CodeIsUsedOnceAndTold
<1>1. IInv => CodeIsUsedOnceAndTold
  <2>. SUFFICES ASSUME IInv, NEW m \in Message PROVE CodeIsUsedOnceAndTold!(m)
    BY DEF CodeIsUsedOnceAndTold
  <2>. QED BY DEF IInv, CodeOK
<1>. QED BY <1>1, Invariance, PTL
=============================================================================
