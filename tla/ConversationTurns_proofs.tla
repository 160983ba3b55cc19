---------------------- MODULE ConversationTurns_proofs ----------------------
(***************************************************************************)
(* Proofs about ConversationTurns, for every set of messages, every budget *)
(* and any microtask lag.  TypeOK, InOnePlace and AnsweredAtMostOnce hold  *)
(* wherever writes fail and whatever is sent.  NothingStranded holds when  *)
(* neither a write of the HTTP route nor the one before a compaction       *)
(* fails.  OneOwner, AnsweredExactlyOnce, AbortsAreHonoured and the        *)
(* refinement of ConversationPromise hold when no slash command that looks *)
(* up provider keys is sent: the runs show what such a command does.       *)
(***************************************************************************)
EXTENDS ConversationTurns, FiniteSetTheorems, TLAPS

\* The head of a batch is among the messages its turn answers, and while a
\* tail is written there is one.
LeadOK ==
    \A m \in Msg :
        /\ stage[m] \in {"gathering", "looping", "yielding", "settling"} => m \in members[m]
        /\ stage[m] = "gathering" => tails[m] # <<>>

\* Without slash commands that look up keys, none is under way.
NoCommands == \A m \in Msg : kind[m] # "command" /\ stage[m] \notin {"checked", "command"}

TInv == TypeOK /\ LeadOK
-----------------------------------------------------------------------------
(* Sequences of messages: the queue and the tails of a batch *)

\* No element of s occurs twice.
Distinct(s) == \A i, j \in 1..Len(s) : (s[i] = s[j]) => (i = j)

\* A stretch of a sequence of messages is one.
LEMMA SubSeqType ==
    ASSUME NEW s \in Seq(Msg), NEW a \in Nat \ {0}, NEW b \in 0..Len(s)
    PROVE  SubSeq(s, a, b) \in Seq(Msg)
OBVIOUS

\* What a stretch of a sequence holds, and where.
LEMMA SubSeqAt ==
    ASSUME NEW s \in Seq(Msg), NEW a \in Nat \ {0}, NEW b \in 0..Len(s)
    PROVE  /\ Len(SubSeq(s, a, b)) = IF a <= b THEN b - a + 1 ELSE 0
           /\ \A i \in 1..Len(SubSeq(s, a, b)) : SubSeq(s, a, b)[i] = s[a + i - 1]
OBVIOUS

\* The empty sequence has no element, and every other one its head.
LEMMA NoElems ==
    /\ <<>> \in Seq(Msg) /\ Elems(<<>>) = {} /\ Distinct(<<>>)
    /\ \A s \in Seq(Msg) : s # <<>> => Head(s) \in Elems(s)
BY DEF Elems, Distinct

\* Appending adds one element.
LEMMA AppendElems ==
    ASSUME NEW s \in Seq(Msg), NEW m \in Msg
    PROVE  /\ Append(s, m) \in Seq(Msg)
           /\ Elems(Append(s, m)) = Elems(s) \cup {m}
           /\ Distinct(s) /\ m \notin Elems(s) => Distinct(Append(s, m))
<1> DEFINE t == Append(s, m)
<1>1. t \in Seq(Msg) /\ Len(t) = Len(s) + 1 /\ t[Len(s) + 1] = m
      /\ \A i \in 1..Len(s) : t[i] = s[i]
  OBVIOUS
<1>2. Len(s) \in Nat
  OBVIOUS
<1> HIDE DEF t
<1>3. Elems(t) = Elems(s) \cup {m}
  <2>1. \A i \in 1..Len(t) : i \in 1..Len(s) \/ i = Len(s) + 1
    BY <1>1, <1>2
  <2>2. Elems(t) \subseteq Elems(s) \cup {m}
    BY <1>1, <2>1 DEF Elems
  <2>3. 1..Len(s) \subseteq 1..Len(t) /\ Len(s) + 1 \in 1..Len(t)
    BY <1>1, <1>2
  <2>4. Elems(s) \cup {m} \subseteq Elems(t)
    BY <1>1, <2>3 DEF Elems
  <2> QED BY <2>2, <2>4
<1>4. ASSUME Distinct(s), m \notin Elems(s) PROVE Distinct(t)
  <2>1. \A i \in 1..Len(s) : s[i] # m
    BY <1>4 DEF Elems
  <2> QED BY <1>1, <1>2, <1>4, <2>1 DEF Distinct
<1> QED BY <1>1, <1>3, <1>4 DEF t

\* A sequence is its head and its tail.
LEMMA HeadTailElems ==
    ASSUME NEW s \in Seq(Msg), s # <<>>
    PROVE  /\ Head(s) \in Msg /\ Tail(s) \in Seq(Msg)
           /\ Elems(s) = {Head(s)} \cup Elems(Tail(s))
           /\ Distinct(s) => Distinct(Tail(s)) /\ Head(s) \notin Elems(Tail(s))
<1> DEFINE t == Tail(s)
<1>1. /\ t \in Seq(Msg) /\ Len(s) \in Nat \ {0} /\ Len(t) = Len(s) - 1 /\ Head(s) = s[1]
      /\ \A i \in 1..Len(t) : t[i] = s[i + 1]
  OBVIOUS
<1> HIDE DEF t
<1>2. \A i \in 1..Len(s) : i = 1 \/ (i - 1 \in 1..Len(t) /\ t[i - 1] = s[i])
  BY <1>1
<1>3. 1 \in 1..Len(s) /\ \A i \in 1..Len(t) : i + 1 \in 1..Len(s)
  BY <1>1
<1>4. Elems(s) = {s[1]} \cup Elems(t)
  <2>1. Elems(s) \subseteq {s[1]} \cup Elems(t)
    BY <1>2 DEF Elems
  <2>2. {s[1]} \cup Elems(t) \subseteq Elems(s)
    BY <1>1, <1>3 DEF Elems
  <2> QED BY <2>1, <2>2
<1>5. ASSUME Distinct(s) PROVE Distinct(t) /\ s[1] \notin Elems(t)
  <2>1. \A i \in 1..Len(t) : t[i] # s[1]
    BY <1>1, <1>3, <1>5 DEF Distinct
  <2>2. ASSUME NEW i \in 1..Len(t), NEW j \in 1..Len(t), t[i] = t[j] PROVE i = j
    <3>1. i + 1 = j + 1
      BY <1>1, <1>3, <1>5, <2>2 DEF Distinct
    <3> QED BY <3>1
  <2> QED BY <2>1, <2>2 DEF Distinct, Elems
<1>6. s[1] \in Msg
  BY <1>1, <1>3
<1> QED BY <1>1, <1>4, <1>5, <1>6 DEF t

\* What one drain takes, the head and a run, and what it leaves are the whole queue.
LEMMA CutElems ==
    ASSUME NEW s \in Seq(Msg), NEW n \in 1..Len(s)
    PROVE  /\ s[1] \in Msg
           /\ SubSeq(s, 2, n) \in Seq(Msg) /\ SubSeq(s, n + 1, Len(s)) \in Seq(Msg)
           /\ Elems(s) = {s[1]} \cup Elems(SubSeq(s, 2, n)) \cup Elems(SubSeq(s, n + 1, Len(s)))
           /\ Distinct(s) =>
                /\ Distinct(SubSeq(s, 2, n)) /\ Distinct(SubSeq(s, n + 1, Len(s)))
                /\ s[1] \notin Elems(SubSeq(s, 2, n)) \cup Elems(SubSeq(s, n + 1, Len(s)))
                /\ Elems(SubSeq(s, 2, n)) \cap Elems(SubSeq(s, n + 1, Len(s))) = {}
<1> DEFINE b == SubSeq(s, 2, n)
           c == SubSeq(s, n + 1, Len(s))
<1>1. n \in Nat \ {0} /\ Len(s) \in Nat /\ n <= Len(s) /\ n \in 0..Len(s) /\ n + 1 \in Nat \ {0}
      /\ Len(s) \in 0..Len(s)
  OBVIOUS
<1>2. b \in Seq(Msg) /\ c \in Seq(Msg)
  BY <1>1, SubSeqType
<1>3. Len(b) = n - 1 /\ \A i \in 1..Len(b) : b[i] = s[i + 1]
  BY <1>1, SubSeqAt
<1>4. Len(c) = Len(s) - n /\ \A i \in 1..Len(c) : c[i] = s[n + i]
  BY <1>1, SubSeqAt
<1> HIDE DEF b, c
<1>5. Elems(b) = {s[i] : i \in 2..n}
  <2>1. \A i \in 1..Len(b) : i + 1 \in 2..n
    BY <1>1, <1>3
  <2>2. \A i \in 2..n : i - 1 \in 1..Len(b) /\ b[i - 1] = s[i]
    BY <1>1, <1>3
  <2>3. \A x \in Elems(b) : x \in {s[i] : i \in 2..n}
    BY <1>3, <2>1 DEF Elems
  <2>4. \A x \in {s[i] : i \in 2..n} : x \in Elems(b)
    BY <2>2 DEF Elems
  <2> QED BY <2>3, <2>4
<1>6. Elems(c) = {s[i] : i \in (n + 1)..Len(s)}
  <2>1. \A i \in 1..Len(c) : n + i \in (n + 1)..Len(s)
    BY <1>1, <1>4
  <2>2. \A i \in (n + 1)..Len(s) : i - n \in 1..Len(c) /\ c[i - n] = s[i]
    BY <1>1, <1>4
  <2> QED BY <1>4, <2>1, <2>2 DEF Elems
<1>7. 1..Len(s) = {1} \cup (2..n) \cup ((n + 1)..Len(s))
  BY <1>1
<1>8. Elems(s) = {s[1]} \cup Elems(b) \cup Elems(c)
  BY <1>5, <1>6, <1>7 DEF Elems
<1>9. ASSUME Distinct(s)
      PROVE  /\ Distinct(b) /\ Distinct(c)
             /\ s[1] \notin Elems(b) \cup Elems(c)
             /\ Elems(b) \cap Elems(c) = {}
  <2>1. \A i, j \in 1..Len(s) : s[i] = s[j] => i = j
    BY <1>9 DEF Distinct
  <2>2. 1 \notin 2..n /\ 1 \notin (n + 1)..Len(s) /\ (2..n) \cap ((n + 1)..Len(s)) = {}
    BY <1>1
  <2>3. s[1] \notin Elems(b) \cup Elems(c) /\ Elems(b) \cap Elems(c) = {}
    BY <1>5, <1>6, <1>7, <2>1, <2>2
  <2>4. ASSUME NEW i \in 1..Len(b), NEW j \in 1..Len(b), b[i] = b[j] PROVE i = j
    <3>1. i + 1 = j + 1
      BY <1>1, <1>3, <2>1, <2>4
    <3> QED BY <3>1
  <2>5. ASSUME NEW i \in 1..Len(c), NEW j \in 1..Len(c), c[i] = c[j] PROVE i = j
    <3>1. n + i = n + j
      BY <1>1, <1>4, <2>1, <2>5
    <3> QED BY <3>1, <1>1
  <2> QED BY <2>3, <2>4, <2>5 DEF Distinct
<1>10. s[1] \in Msg
  BY <1>1
<1> QED BY <1>2, <1>8, <1>9, <1>10 DEF b, c

\* What the concatenation of two sequences holds, and where.
LEMMA ConcatAt ==
    ASSUME NEW b \in Seq(Msg), NEW c \in Seq(Msg)
    PROVE  /\ b \o c \in Seq(Msg) /\ Len(b \o c) = Len(b) + Len(c)
           /\ \A j \in 1..Len(b) : (b \o c)[j] = b[j]
           /\ \A j \in 1..Len(c) : (b \o c)[Len(b) + j] = c[j]
OBVIOUS

\* A sequence that leaves out one place of another.
LEMMA WithoutPlace ==
    ASSUME NEW s \in Seq(Msg), NEW i \in 1..Len(s), Distinct(s), NEW t \in Seq(Msg),
           Len(t) = Len(s) - 1,
           \A j \in 1..(i - 1) : t[j] = s[j],
           \A j \in i..(Len(s) - 1) : t[j] = s[j + 1]
    PROVE  Distinct(t) /\ Elems(t) = Elems(s) \ {s[i]}
<1> DEFINE at(j) == IF j < i THEN j ELSE j + 1
<1>1. i \in Nat \ {0} /\ Len(s) \in Nat /\ i <= Len(s)
  OBVIOUS
<1>2. \A j \in 1..Len(t) : at(j) \in 1..Len(s) /\ at(j) # i /\ t[j] = s[at(j)]
  <2>1. \A j \in 1..Len(t) : j \in 1..(i - 1) \/ j \in i..(Len(s) - 1)
    BY <1>1
  <2> QED BY <1>1, <2>1
<1>3. \A j, k \in 1..Len(t) : at(j) = at(k) => j = k
  BY <1>1
<1>4. ASSUME NEW k \in 1..Len(s), k # i PROVE \E j \in 1..Len(t) : at(j) = k
  <2>1. CASE k < i
    <3>1. k \in 1..Len(t) /\ at(k) = k
      BY <1>1, <2>1
    <3> QED BY <3>1
  <2>2. CASE k > i
    <3>1. k - 1 \in 1..Len(t) /\ at(k - 1) = k
      BY <1>1, <2>2
    <3> QED BY <3>1
  <2> QED BY <1>1, <1>4, <2>1, <2>2
<1> HIDE DEF at
<1>5. Distinct(t)
  BY <1>2, <1>3 DEF Distinct
<1>6. \A j \in 1..Len(t) : t[j] \in Elems(s) /\ t[j] # s[i]
  BY <1>2 DEF Distinct, Elems
<1>7. ASSUME NEW k \in 1..Len(s), s[k] # s[i] PROVE s[k] \in Elems(t)
  <2>1. k # i
    BY <1>7
  <2>2. PICK j \in 1..Len(t) : at(j) = k
    BY <1>4, <2>1
  <2>3. t[j] = s[k]
    BY <1>2, <2>2
  <2> QED BY <2>3 DEF Elems
<1> QED BY <1>5, <1>6, <1>7 DEF Elems

\* Cutting place i out of a sequence removes its element and nothing else.
LEMMA WithoutElems ==
    ASSUME NEW s \in Seq(Msg), NEW i \in 1..Len(s), Distinct(s)
    PROVE  LET t == SubSeq(s, 1, i - 1) \o SubSeq(s, i + 1, Len(s))
           IN  t \in Seq(Msg) /\ Distinct(t) /\ Elems(t) = Elems(s) \ {s[i]}
<1> DEFINE b == SubSeq(s, 1, i - 1)
           c == SubSeq(s, i + 1, Len(s))
           t == b \o c
<1>1. i \in Nat \ {0} /\ Len(s) \in Nat /\ i <= Len(s) /\ i - 1 \in 0..Len(s)
      /\ i + 1 \in Nat \ {0} /\ Len(s) \in 0..Len(s) /\ 1 \in Nat \ {0}
  OBVIOUS
<1>2. b \in Seq(Msg) /\ c \in Seq(Msg)
  BY <1>1, SubSeqType
<1>3. Len(b) = i - 1 /\ \A j \in 1..Len(b) : b[j] = s[j]
  BY <1>1, SubSeqAt
<1>4. Len(c) = Len(s) - i /\ \A j \in 1..Len(c) : c[j] = s[i + j]
  BY <1>1, SubSeqAt
<1> HIDE DEF b, c
<1>6. /\ t \in Seq(Msg) /\ Len(t) = Len(b) + Len(c)
      /\ \A j \in 1..Len(b) : t[j] = b[j]
      /\ \A j \in 1..Len(c) : t[Len(b) + j] = c[j]
  BY <1>2, ConcatAt
<1> HIDE DEF t
<1>7. Len(t) = Len(s) - 1
  BY <1>1, <1>3, <1>4, <1>6
<1>8. \A j \in 1..(i - 1) : t[j] = s[j]
  BY <1>3, <1>6
<1>9. ASSUME NEW j \in i..(Len(s) - 1) PROVE t[j] = s[j + 1]
  <2>1. j - (i - 1) \in 1..(Len(s) - i) /\ (i - 1) + (j - (i - 1)) = j
        /\ i + (j - (i - 1)) = j + 1
    BY <1>1
  <2>2. t[(i - 1) + (j - (i - 1))] = c[j - (i - 1)] /\ c[j - (i - 1)] = s[i + (j - (i - 1))]
    BY <1>3, <1>4, <1>6, <2>1
  <2> QED BY <2>1, <2>2
<1>10. Distinct(t) /\ Elems(t) = Elems(s) \ {s[i]}
  <2>1. t \in Seq(Msg) /\ \A j \in i..(Len(s) - 1) : t[j] = s[j + 1]
    BY <1>6, <1>9
  <2> QED BY <1>7, <1>8, <2>1, WithoutPlace, Zenon
<1> QED BY <1>6, <1>10 DEF t, b, c
-----------------------------------------------------------------------------
(* The operators the actions are built from *)

\* A terminal event keeps every client's list of events well formed.
LEMMA TellType ==
    ASSUME answers \in [Msg -> Seq(Outcomes)], NEW S, NEW o \in Outcomes, Tell(S, o)
    PROVE  answers' \in [Msg -> Seq(Outcomes)]
BY DEF Tell

\* Moving messages keeps every message at a stage.
LEMMA MovedType ==
    ASSUME stage \in [Msg -> Stages], NEW S, NEW st \in Stages
    PROVE  Moved(S, st) \in [Msg -> Stages]
BY DEF Moved

\* Elems of a sequence over Msg are messages.
LEMMA ElemsType ==
    ASSUME NEW s \in Seq(Msg) PROVE Elems(s) \subseteq Msg
BY DEF Elems

\* Starting, or refusing to start, the loop of a turn keeps the state typed and
\* the lead among its members.
LEMMA LaunchType ==
    ASSUME TInv, NEW lead \in Msg, NEW S \in SUBSET Msg, lead \in S,
           NEW gone, NEW failed, NEW drained, Launch(lead, S, gone, failed, drained)
    PROVE  /\ stage' \in [Msg -> Stages]
           /\ tails' \in [Msg -> Seq(Msg)]
           /\ members' \in [Msg -> SUBSET Msg]
           /\ ctl' \in [Msg -> Msg \cup {None}]
           /\ answers' \in [Msg -> Seq(Outcomes)]
           /\ LeadOK'
<1> USE DEF TInv, TypeOK
<1>1. "done" \in Stages /\ "dropped" \in Stages /\ "looping" \in Stages /\ "member" \in Stages
  BY DEF Stages, Owning, Batched, Finished
<1>2. stage' \in [Msg -> Stages]
  BY <1>1 DEF Launch
<1>3. tails' \in [Msg -> Seq(Msg)] /\ members' \in [Msg -> SUBSET Msg]
  BY DEF Launch
<1>4. ctl' \in [Msg -> Msg \cup {None}]
  BY DEF Launch
<1>5. answers' \in [Msg -> Seq(Outcomes)]
  BY DEF Launch, Tell, Outcomes
<1>6. LeadOK'
  <2> SUFFICES ASSUME NEW m \in Msg
               PROVE  /\ stage'[m] \in {"gathering", "looping", "yielding", "settling"}
                            => m \in members'[m]
                      /\ stage'[m] = "gathering" => tails'[m] # <<>>
    BY DEF LeadOK
  <2>1. CASE m = lead
    BY <2>1 DEF Launch, LeadOK
  <2>2. CASE m # lead
    BY <2>2 DEF Launch, LeadOK
  <2> QED BY <2>1, <2>2
<1> QED BY <1>2, <1>3, <1>4, <1>5, <1>6

\* So does persisting the next tail of a batch.
LEMMA GatherNextType ==
    ASSUME TInv, NEW lead \in Msg, NEW S \in SUBSET Msg, lead \in S, NEW failed,
           NEW rest \in Seq(Msg), NEW stop,
           GatherNext(lead, S, failed, rest, stop)
    PROVE  /\ stage' \in [Msg -> Stages]
           /\ tails' \in [Msg -> Seq(Msg)]
           /\ members' \in [Msg -> SUBSET Msg]
           /\ ctl' \in [Msg -> Msg \cup {None}]
           /\ answers' \in [Msg -> Seq(Outcomes)]
           /\ LeadOK'
<1>1. CASE rest = <<>> \/ stop
  BY <1>1, LaunchType DEF GatherNext
<1>2. CASE ~(rest = <<>> \/ stop)
  <2>1. /\ stage \in [Msg -> Stages]
        /\ "tailPersist" \in Stages /\ "gathering" \in Stages
        /\ "done" \in Stages /\ "held" \in Stages
    BY DEF TInv, TypeOK, Stages, Owning, Batched, Finished
  <2>2. stage' \in [Msg -> Stages]
    BY <1>2, <2>1 DEF GatherNext
  <2> USE DEF TInv, TypeOK
  <2>3. tails' \in [Msg -> Seq(Msg)] /\ members' \in [Msg -> SUBSET Msg]
    BY <1>2 DEF GatherNext
  <2>4. ctl' \in [Msg -> Msg \cup {None}]
    BY <1>2 DEF GatherNext
  <2>5. answers' \in [Msg -> Seq(Outcomes)]
    BY <1>2, TellType DEF GatherNext, Outcomes
  <2>6. LeadOK'
    <3> SUFFICES ASSUME NEW m \in Msg
                 PROVE  /\ stage'[m] \in {"gathering", "looping", "yielding", "settling"}
                              => m \in members'[m]
                        /\ stage'[m] = "gathering" => tails'[m] # <<>>
      BY DEF LeadOK
    <3>1. CASE m = lead
      BY <1>2, <3>1 DEF GatherNext, LeadOK
    <3>2. CASE m # lead
      <4>1. stage'[m] \in {"tailPersist", "done", "held", stage[m]}
        BY <1>2, <3>2 DEF GatherNext
      <4>2. tails'[m] = tails[m] /\ members'[m] = members[m]
        BY <1>2, <3>2 DEF GatherNext
      <4> QED BY <4>1, <4>2 DEF LeadOK
    <3> QED BY <3>1, <3>2
  <2> QED BY <2>2, <2>3, <2>4, <2>5, <2>6
<1> QED BY <1>1, <1>2

\* Going on after a failed head keeps the state typed.
LEMMA DrainOnType ==
    ASSUME TInv, NEW m \in Msg, stage[m] \in {"dispatch", "drainPersist"}, DrainOn(m)
    PROVE  /\ stage' \in [Msg -> Stages]
           /\ tails' \in [Msg -> Seq(Msg)]
           /\ drains' \in Nat
           /\ members' = members => LeadOK'
<1> USE DEF TInv, TypeOK
<1>1. "done" \in Stages /\ "dispatch" \in Stages
  BY DEF Stages, Draining, Finished
<1>2. CASE tails[m] = <<>>
  <2>1. stage' \in [Msg -> Stages] /\ tails' = tails /\ drains' \in Nat
    BY <1>1, <1>2, MovedType DEF DrainOn, DrainAgain
  <2>2. members' = members => LeadOK'
    BY <1>2 DEF DrainOn, Moved, LeadOK
  <2> QED BY <2>1, <2>2
<1>3. CASE tails[m] # <<>>
  <2> DEFINE h == Head(tails[m])
  <2>1. h \in Msg /\ Tail(tails[m]) \in Seq(Msg)
    BY <1>3
  <2>2. stage' = [stage EXCEPT ![m] = "done", ![h] = "dispatch"]
    BY <1>3 DEF DrainOn
  <2>3. tails' = [tails EXCEPT ![m] = <<>>, ![h] = Tail(tails[m])] /\ drains' = drains
    BY <1>3 DEF DrainOn
  <2> HIDE DEF h
  <2>4. stage' \in [Msg -> Stages] /\ tails' \in [Msg -> Seq(Msg)] /\ drains' \in Nat
    <3>1. stage' \in [Msg -> Stages]
      BY <1>1, <2>1, <2>2
    <3>2. [tails EXCEPT ![m] = <<>>] \in [Msg -> Seq(Msg)]
      OBVIOUS
    <3>3. tails' \in [Msg -> Seq(Msg)]
      BY <2>1, <2>3, <3>2
    <3> QED BY <2>3, <3>1, <3>3
  <2>5. ASSUME members' = members, NEW a \in Msg
        PROVE  /\ stage'[a] \in {"gathering", "looping", "yielding", "settling"}
                    => a \in members'[a]
               /\ stage'[a] = "gathering" => tails'[a] # <<>>
    BY <2>1, <2>2, <2>3, <2>5 DEF LeadOK
  <2> QED BY <2>4, <2>5 DEF LeadOK
<1> QED BY <1>2, <1>3
-----------------------------------------------------------------------------
(* Type correctness *)

\* The conversation starts idle and well formed.
LEMMA InitTInv == Init => TInv
<1> SUFFICES ASSUME Init PROVE TInv
  OBVIOUS
<1>1. TypeOK
  <2>1. "new" \in Stages
    BY DEF Stages
  <2>2. stage \in [Msg -> Stages]
    BY <2>1 DEF Init
  <2>3. /\ tails \in [Msg -> Seq(Msg)]
        /\ answers \in [Msg -> Seq(Outcomes)]
        /\ queue \in Seq(Msg)
    BY DEF Init
  <2> QED BY <2>2, <2>3 DEF Init, TypeOK
<1>2. LeadOK
  BY DEF Init, LeadOK
<1> QED BY <1>1, <1>2 DEF TInv

\* A step that keeps every stage, or takes messages out of their turn, needs
\* only this much for LeadOK.
LEMMA LeadKept ==
    ASSUME LeadOK,
           \A m \in Msg : stage'[m] \in {"gathering", "looping", "yielding", "settling"} =>
                /\ stage[m] \in {"gathering", "looping", "yielding", "settling"}
                /\ members'[m] = members[m]
                /\ stage'[m] = "gathering" =>
                      stage[m] = "gathering" /\ tails'[m] = tails[m]
    PROVE  LeadOK'
BY DEF LeadOK

\* Every step keeps the state typed and the leads among their members.
LEMMA NextTInv == TInv /\ [Next]_vars => TInv'
<1> SUFFICES ASSUME TInv, [Next]_vars PROVE TInv'
  OBVIOUS
<1> USE DEF TInv, TypeOK
<1> USE SizeAssumption, SitesAssumption, LagAssumption, NoneAssumption
<1>st. /\ {"new", "checked", "queued", "dispatch", "drainCommand", "drainCompact",
           "postPersist", "drainPersist", "gathering", "yielding", "settling",
           "command", "compactSave", "compacting", "held", "done"} \subseteq Stages
       /\ Outcomes = {"complete", "handoff", "cancelled", "error", "rejected", "deleted"}
  BY DEF Stages, Owning, Draining, Batched, Finished, Outcomes
<1>da. DrainAgain => drains' \in Nat
  BY DEF DrainAgain
<1>1. ASSUME NEW m \in Msg, Post(m) PROVE TInv'
  <2>1. CASE processing
    <3>1. stage' = Moved({m}, "queued") \/ stage' = Moved({m}, "done")
      BY <1>1, <2>1 DEF Post, Enqueue
    <3>2. stage' \in [Msg -> Stages]
      BY <1>st, <3>1, MovedType
    <3>3. queue' \in Seq(Msg)
      <4>1. queue' = Append(queue, m) \/ queue' = queue
        BY <1>1, <2>1 DEF Post, Enqueue
      <4>2. queue \in Seq(Msg) /\ m \in Msg
        BY <1>1
      <4> HIDE DEF TInv, TypeOK
      <4>3. Append(queue, m) \in Seq(Msg)
        BY <4>2
      <4> QED BY <4>1, <4>2, <4>3
    <3>4. answers' \in [Msg -> Seq(Outcomes)]
      <4>1. answers' = answers \/ Tell({m}, "rejected")
        BY <1>1, <2>1 DEF Post, Enqueue
      <4> QED BY <4>1, <1>st, TellType
    <3>5. LeadOK'
      BY <1>1, <3>1, LeadKept DEF Post, Moved
    <3> QED BY <1>1, <2>1, <3>2, <3>3, <3>4, <3>5 DEF Post, Enqueue
  <2>2. CASE ~processing
    <3>1. \E st \in {"checked", "compactSave", "postPersist"} : stage' = Moved({m}, st)
      BY <1>1, <2>2 DEF Post, StartIdle
    <3>2. stage' \in [Msg -> Stages]
      BY <1>st, <3>1, MovedType
    <3>3. LeadOK'
      BY <1>1, <3>1, LeadKept DEF Post, Moved
    <3>4. processing' \in BOOLEAN /\ controller' \in Msg \cup {None}
      BY <1>1, <2>2 DEF Post, StartIdle
    <3>5. UNCHANGED <<kind, aborted, queue, drains, tails, members, ctl, answers, wake>>
      BY <1>1, <2>2 DEF Post, StartIdle
    <3> QED BY <3>2, <3>3, <3>4, <3>5
  <2> QED BY <2>1, <2>2
<1>2. ASSUME NEW m \in Msg, PostPersisted(m) PROVE TInv'
  <2>1. Launch(m, {m}, {}, {}, FALSE)
        /\ UNCHANGED <<kind, processing, controller, aborted, queue, drains, wake>>
    BY <1>2 DEF PostPersisted
  <2> QED BY <2>1, LaunchType
<1>3. ASSUME NEW m \in Msg, PostPersistFails(m) PROVE TInv'
  <2>1. stage' \in [Msg -> Stages]
    BY <1>3, <1>st, MovedType DEF PostPersistFails
  <2>2. answers' \in [Msg -> Seq(Outcomes)]
    BY <1>3, <1>st, TellType DEF PostPersistFails
  <2>3. LeadOK'
    BY <1>3, LeadKept DEF PostPersistFails, Moved
  <2> QED BY <1>3, <2>1, <2>2, <2>3 DEF PostPersistFails
<1>4. ASSUME NEW m \in Msg, DispatchCommand(m) PROVE TInv'
  <2>1. \E st \in {"drainCommand", "drainCompact"} : stage' = Moved({m}, st)
    BY <1>4 DEF DispatchCommand
  <2>2. stage' \in [Msg -> Stages]
    BY <1>st, <2>1, MovedType
  <2>3. LeadOK'
    BY <1>4, <2>1, LeadKept DEF DispatchCommand, Moved
  <2> QED BY <1>4, <2>2, <2>3 DEF DispatchCommand
<1>5. ASSUME NEW m \in Msg, DispatchText(m) PROVE TInv'
  <2>1. CASE MayClaim
    <3>1. stage' \in [Msg -> Stages]
      BY <1>5, <2>1, <1>st, MovedType DEF DispatchText
    <3>2. LeadOK'
      BY <1>5, <2>1, LeadKept DEF DispatchText, Moved
    <3> QED BY <1>5, <2>1, <3>1, <3>2 DEF DispatchText
  <2>2. CASE ~MayClaim
    <3>1. answers' \in [Msg -> Seq(Outcomes)]
      BY <1>5, <2>2, <1>st, TellType DEF DispatchText
    <3>2. stage' \in [Msg -> Stages] /\ tails' \in [Msg -> Seq(Msg)] /\ drains' \in Nat
          /\ LeadOK'
      BY <1>5, <2>2, DrainOnType DEF DispatchText
    <3> QED BY <1>5, <2>2, <3>1, <3>2 DEF DispatchText
  <2> QED BY <2>1, <2>2
<1>6. ASSUME NEW m \in Msg, DrainPersisted(m) PROVE TInv'
  <2>1. GatherNext(m, {m}, {}, tails[m], Aborted)
        /\ UNCHANGED <<kind, processing, controller, aborted, queue, drains, wake>>
    BY <1>6 DEF DrainPersisted
  <2> QED BY <2>1, GatherNextType
<1>7. ASSUME NEW m \in Msg, DrainPersistFails(m) PROVE TInv'
  <2>1. answers' \in [Msg -> Seq(Outcomes)]
    BY <1>7, <1>st, TellType DEF DrainPersistFails
  <2>2. stage' \in [Msg -> Stages] /\ tails' \in [Msg -> Seq(Msg)] /\ drains' \in Nat
        /\ LeadOK'
    BY <1>7, DrainOnType DEF DrainPersistFails
  <2> QED BY <1>7, <2>1, <2>2 DEF DrainPersistFails
<1>8. ASSUME NEW m \in Msg, TailPersisted(m) PROVE TInv'
  <2> DEFINE S == members[m] \cup {Head(tails[m])}
             rest == Tail(tails[m])
  <2>1. m \in members[m] /\ tails[m] # <<>>
    BY <1>8 DEF TailPersisted, LeadOK
  <2>2. S \in SUBSET Msg /\ m \in S /\ rest \in Seq(Msg)
    BY <2>1
  <2>3. GatherNext(m, S, {}, rest, Aborted)
        /\ UNCHANGED <<kind, processing, controller, aborted, queue, drains, wake>>
    BY <1>8 DEF TailPersisted
  <2> HIDE DEF S, rest
  <2> QED BY <2>2, <2>3, GatherNextType
<1>9. ASSUME NEW m \in Msg, TailPersistFails(m) PROVE TInv'
  <2> DEFINE rest == Tail(tails[m])
             failed == {Head(tails[m])}
  <2>1. m \in members[m] /\ tails[m] # <<>>
    BY <1>9 DEF TailPersistFails, LeadOK
  <2>2. rest \in Seq(Msg) /\ members[m] \in SUBSET Msg
    BY <2>1
  <2>3. GatherNext(m, members[m], failed, rest, FALSE)
        /\ UNCHANGED <<kind, processing, controller, aborted, queue, drains, wake>>
    BY <1>9 DEF TailPersistFails, Surviving
  <2> HIDE DEF failed, rest
  <2> QED BY <2>1, <2>2, <2>3, GatherNextType
<1>10. ASSUME NEW m \in Msg, LoopYields(m) PROVE TInv'
  <2>1. stage' \in [Msg -> Stages]
    BY <1>10, <1>st, MovedType DEF LoopYields
  <2>2. LeadOK'
    BY <1>10 DEF LoopYields, Moved, LeadOK
  <2> QED BY <1>10, <2>1, <2>2 DEF LoopYields
<1>11. ASSUME NEW m \in Msg, LoopAnswers(m) PROVE TInv'
  <2>1. stage' \in [Msg -> Stages]
    BY <1>11, <1>st, MovedType DEF LoopAnswers
  <2>2. LeadOK'
    BY <1>11 DEF LoopAnswers, Moved, LeadOK
  <2>3. \E outcome \in Outcomes : Tell(members[m], outcome)
    BY <1>11, <1>st DEF LoopAnswers, Verdict
  <2>4. answers' \in [Msg -> Seq(Outcomes)]
    BY <2>3, TellType
  <2> QED BY <1>11, <2>1, <2>2, <2>4 DEF LoopAnswers
<1>12. ASSUME NEW m \in Msg, LoopEnds(m) PROVE TInv'
  <2>1. stage' \in [Msg -> Stages]
    BY <1>12, <1>st, MovedType DEF LoopEnds
  <2>2. LeadOK'
    <3>1. stage' = [a \in Msg |-> IF a \in members[m] THEN "done" ELSE stage[a]]
          /\ members' = [members EXCEPT ![m] = {}] /\ tails' = tails /\ m \in members[m]
      BY <1>12 DEF LoopEnds, Moved, LeadOK
    <3> QED BY <3>1 DEF LeadOK
  <2> QED BY <1>12, <1>da, <2>1, <2>2 DEF LoopEnds, Release
<1>13. ASSUME NEW m \in Msg, CommandStarts(m) PROVE TInv'
  <2>1. stage' \in [Msg -> Stages]
    BY <1>13, <1>st, MovedType DEF CommandStarts
  <2>2. LeadOK'
    BY <1>13, LeadKept DEF CommandStarts, Moved
  <2> QED BY <1>13, <2>1, <2>2 DEF CommandStarts
<1>14. ASSUME NEW m \in Msg, CommandEnds(m) PROVE TInv'
  <2>1. stage' \in [Msg -> Stages]
    BY <1>14, <1>st, MovedType DEF CommandEnds
  <2>2. LeadOK'
    BY <1>14, LeadKept DEF CommandEnds, Moved
  <2>3. answers' \in [Msg -> Seq(Outcomes)]
    <3>1. Tell({m}, "complete") \/ Tell({m}, "error")
      BY <1>14 DEF CommandEnds
    <3> QED BY <3>1, <1>st, TellType
  <2> QED BY <1>14, <1>da, <2>1, <2>2, <2>3 DEF CommandEnds, Release
<1>15. ASSUME NEW m \in Msg, CompactSaved(m) PROVE TInv'
  <2>1. stage' \in [Msg -> Stages]
    BY <1>15, <1>st, MovedType DEF CompactSaved
  <2>2. LeadOK'
    BY <1>15, LeadKept DEF CompactSaved, Moved
  <2> QED BY <1>15, <2>1, <2>2 DEF CompactSaved
<1>16. ASSUME NEW m \in Msg, CompactSaveFails(m) PROVE TInv'
  <2>1. stage' \in [Msg -> Stages]
    BY <1>16, <1>st, MovedType DEF CompactSaveFails
  <2>2. answers' \in [Msg -> Seq(Outcomes)]
    BY <1>16, <1>st, TellType DEF CompactSaveFails
  <2>3. LeadOK'
    BY <1>16, LeadKept DEF CompactSaveFails, Moved
  <2> QED BY <1>16, <2>1, <2>2, <2>3 DEF CompactSaveFails
<1>17. ASSUME NEW m \in Msg, CompactEnds(m) PROVE TInv'
  <2>1. stage' \in [Msg -> Stages]
    BY <1>17, <1>st, MovedType DEF CompactEnds
  <2>2. answers' \in [Msg -> Seq(Outcomes)]
    BY <1>17, <1>st, TellType DEF CompactEnds
  <2>3. LeadOK'
    BY <1>17, LeadKept DEF CompactEnds, Moved
  <2> QED BY <1>17, <1>da, <2>1, <2>2, <2>3 DEF CompactEnds, Release
<1>18. ASSUME NEW m \in Msg, DrainedCommandEnds(m) PROVE TInv'
  <2>1. stage' \in [Msg -> Stages]
    BY <1>18, <1>st, MovedType DEF DrainedCommandEnds
  <2>2. answers' \in [Msg -> Seq(Outcomes)]
    BY <1>18, <1>st, TellType DEF DrainedCommandEnds
  <2>3. LeadOK'
    BY <1>18, LeadKept DEF DrainedCommandEnds, Moved
  <2> QED BY <1>18, <1>da, <2>1, <2>2, <2>3 DEF DrainedCommandEnds
<1>19. ASSUME NEW m \in Msg, DeleteQueued(m) PROVE TInv'
  <2>1. stage' \in [Msg -> Stages]
    BY <1>19, <1>st, MovedType DEF DeleteQueued
  <2>2. answers' \in [Msg -> Seq(Outcomes)]
    BY <1>19, <1>st, TellType DEF DeleteQueued
  <2>3. LeadOK'
    BY <1>19, LeadKept DEF DeleteQueued, Moved
  <2>4. queue' \in Seq(Msg)
    <3>1. PICK i \in 1..Len(queue) : queue' = QueueWithout(i)
      BY <1>19 DEF DeleteQueued
    <3>2. queue \in Seq(Msg)
      OBVIOUS
    <3> HIDE DEF TInv, TypeOK
    <3>3. /\ 1 \in Nat \ {0} /\ i - 1 \in 0..Len(queue)
          /\ i + 1 \in Nat \ {0} /\ Len(queue) \in 0..Len(queue)
      BY <3>2
    <3>4. SubSeq(queue, 1, i - 1) \in Seq(Msg) /\ SubSeq(queue, i + 1, Len(queue)) \in Seq(Msg)
      BY <3>2, <3>3, SubSeqType
    <3> QED BY <3>1, <3>4, ConcatAt DEF QueueWithout
  <2> QED BY <1>19, <2>1, <2>2, <2>3, <2>4 DEF DeleteQueued
<1>20. CASE DrainTake
  <2>1. drains' \in Nat
    BY <1>20 DEF DrainTake
  <2>2. CASE queue = <<>>
    BY <1>20, <2>1, <2>2 DEF DrainTake, LeadOK
  <2>3. CASE queue # <<>>
    <3> DEFINE head == queue[1]
               rest(n) == SubSeq(queue, 2, n)
    <3>1. PICK n \in 1..Len(queue) :
              /\ queue' = QueueAfter(n)
              /\ stage' = [Moved(Elems(rest(n)), "held") EXCEPT ![head] = "dispatch"]
              /\ tails' = [tails EXCEPT ![head] = rest(n)]
      BY <1>20, <2>3 DEF DrainTake
    <3>2. head \in Msg /\ rest(n) \in Seq(Msg) /\ queue' \in Seq(Msg)
      <4>1. head \in Msg
        BY <2>3
      <4>2. rest(n) \in Seq(Msg) /\ SubSeq(queue, n + 1, Len(queue)) \in Seq(Msg)
        <5>1. queue \in Seq(Msg)
          OBVIOUS
        <5> HIDE DEF TInv, TypeOK
        <5> QED BY <5>1, CutElems
      <4> QED BY <3>1, <4>1, <4>2 DEF QueueAfter
    <3>3. Moved(Elems(rest(n)), "held") \in [Msg -> Stages]
      BY <1>st, MovedType
    <3> HIDE DEF head, rest
    <3>4. stage' \in [Msg -> Stages] /\ tails' \in [Msg -> Seq(Msg)]
      BY <1>st, <3>1, <3>2, <3>3
    <3>5. \A a \in Msg : /\ stage'[a] \in {"dispatch", "held", stage[a]}
                         /\ a = head => stage'[a] = "dispatch"
                         /\ a # head => tails'[a] = tails[a]
      BY <3>1, <3>2, <3>3 DEF Moved
    <3>6. LeadOK'
      BY <1>20, <3>5, LeadKept DEF DrainTake
    <3> QED BY <1>20, <2>1, <3>2, <3>4, <3>6 DEF DrainTake
  <2> QED BY <2>2, <2>3
<1>21. CASE Abort
  <2>1. stage' \in [Msg -> Stages]
    BY <1>21, <1>st, MovedType DEF Abort
  <2>2. answers' \in [Msg -> Seq(Outcomes)]
    BY <1>21, <1>st, TellType DEF Abort
  <2>3. LeadOK'
    BY <1>21, LeadKept DEF Abort, Moved
  <2> QED BY <1>21, <2>1, <2>2, <2>3 DEF Abort, QueueAfterAbort
<1>22. CASE WakeStarts
  BY <1>22 DEF WakeStarts, LeadOK
<1>23. CASE WakeEnds
  BY <1>23, <1>da DEF WakeEnds, LeadOK, Release
<1>24. CASE UNCHANGED vars
  BY <1>24 DEF vars, LeadOK
<1> QED
  BY <1>1, <1>2, <1>3, <1>4, <1>5, <1>6, <1>7, <1>8, <1>9, <1>10, <1>11, <1>12, <1>13,
     <1>14, <1>15, <1>16, <1>17, <1>18, <1>19, <1>20, <1>21, <1>22, <1>23, <1>24
  DEF Next, Step

\* The state of a conversation stays well formed, whatever is sent, fails, is cancelled
\* or overlaps (daemon/conversation.ts, daemon/conversation-process.ts).
THEOREM TypeCorrect == Spec => []TypeOK
<1>1. TInv => TypeOK
  BY DEF TInv
<1> QED BY InitTInv, NextTInv, <1>1, PTL DEF Spec
-----------------------------------------------------------------------------
(* One holder of the conversation at a time *)

\* OneOwner is inductive only together with LeadOK: the end of a loop clears
\* `processing` for everybody, which is right only if it also ends its own lead.
Inv == TInv /\ NoCommands /\ OneOwner

\* A step that takes up no turn and leaves the flags alone.
LEMMA NobodyTakesUp ==
    ASSUME OneOwner, \A a \in Msg : stage'[a] \in Owning => stage[a] \in Owning,
           processing' = processing, wake' = wake
    PROVE  OneOwner'
BY DEF OneOwner, Owner

\* A step that opens the turn of m, or a command, in an idle conversation.
LEMMA TurnOpens ==
    ASSUME OneOwner, ~processing, NEW m \in Msg, processing' = TRUE, wake' = wake,
           \A a \in Msg : a # m /\ stage'[a] \in Owning => stage[a] \in Owning
    PROVE  OneOwner'
BY DEF OneOwner, Owner

\* A step that ends the turn of its holder m, whatever it does to `processing`.
LEMMA TurnCloses ==
    ASSUME OneOwner, NEW m \in Msg, stage[m] \in Owning, stage'[m] \notin Owning,
           \A a \in Msg : a # m /\ stage'[a] \in Owning => stage[a] \in Owning,
           processing' \in BOOLEAN, wake' = wake
    PROVE  OneOwner'
BY DEF OneOwner, Owner

\* Whether it starts or is refused, a loop adds no holder.
LEMMA LaunchOwner ==
    ASSUME TInv, NEW lead \in Msg, stage[lead] \in Owning, NEW S, NEW gone, NEW failed,
           NEW drained, Launch(lead, S, gone, failed, drained)
    PROVE  \A a \in Msg : /\ stage'[a] \in Owning => stage[a] \in Owning
                          /\ stage'[a] \notin {"checked", "command"}
                                \/ stage'[a] = stage[a]
<1> SUFFICES ASSUME NEW a \in Msg
             PROVE  /\ stage'[a] \in Owning => stage[a] \in Owning
                    /\ stage'[a] \notin {"checked", "command"} \/ stage'[a] = stage[a]
  OBVIOUS
<1>1. \/ stage'[a] \in {"dropped", "done", "member", stage[a]}
      \/ a = lead /\ stage'[a] = "looping"
  BY DEF Launch
<1>2. "dropped" \notin Owning /\ "done" \notin Owning /\ "member" \notin Owning
  BY DEF Owning
<1> QED BY <1>1, <1>2

\* Nor does persisting the next tail,
LEMMA GatherNextOwner ==
    ASSUME TInv, NEW lead \in Msg, stage[lead] \in Owning, NEW S, NEW failed, NEW rest,
           NEW stop, GatherNext(lead, S, failed, rest, stop)
    PROVE  \A a \in Msg : /\ stage'[a] \in Owning => stage[a] \in Owning
                          /\ stage'[a] \notin {"checked", "command"}
                                \/ stage'[a] = stage[a]
<1>1. CASE rest = <<>> \/ stop
  BY <1>1, LaunchOwner DEF GatherNext
<1>2. CASE ~(rest = <<>> \/ stop)
  <2> SUFFICES ASSUME NEW a \in Msg
               PROVE  /\ stage'[a] \in Owning => stage[a] \in Owning
                      /\ stage'[a] \notin {"checked", "command"} \/ stage'[a] = stage[a]
    OBVIOUS
  <2>1. \/ stage'[a] \in {"tailPersist", "done", "held", stage[a]}
        \/ a = lead /\ stage'[a] = "gathering"
    BY <1>2 DEF GatherNext
  <2>2. "tailPersist" \notin Owning /\ "done" \notin Owning /\ "held" \notin Owning
    BY DEF Owning
  <2> QED BY <2>1, <2>2
<1> QED BY <1>1, <1>2

\* or going on after a failed head.
LEMMA DrainOnOwner ==
    ASSUME TInv, NEW m \in Msg, DrainOn(m)
    PROVE  /\ stage'[m] \notin Owning
           /\ \A a \in Msg : stage'[a] \in {"done", "dispatch", stage[a]}
<1>0. "dispatch" \notin Owning /\ "done" \notin Owning
  BY DEF Owning
<1>1. CASE tails[m] = <<>>
  BY <1>0, <1>1 DEF DrainOn, Moved, TInv, TypeOK
<1>2. CASE tails[m] # <<>>
  <2>1. Head(tails[m]) \in Msg
    BY <1>2 DEF TInv, TypeOK
  <2>2. stage' = [stage EXCEPT ![m] = "done", ![Head(tails[m])] = "dispatch"]
    BY <1>2 DEF DrainOn
  <2> QED BY <1>0, <2>1, <2>2 DEF TInv, TypeOK
<1> QED BY <1>1, <1>2

\* No step makes a message a command that looks up keys.
LEMMA NextNoCommands == TInv /\ NoCommands /\ [Next]_vars => NoCommands'
<1> SUFFICES ASSUME TInv, NoCommands, [Next]_vars PROVE NoCommands'
  OBVIOUS
<1> DEFINE Fresh(a) == stage'[a] \notin {"checked", "command"} \/ stage'[a] = stage[a]
<1>1. kind' = kind
  BY DEF Next, Step, Post, PostPersisted, PostPersistFails, DispatchCommand, DispatchText,
         DrainPersisted, DrainPersistFails, TailPersisted, TailPersistFails, LoopYields,
         LoopAnswers, LoopEnds, CommandStarts, CommandEnds, CompactSaved, CompactSaveFails,
         CompactEnds, DrainedCommandEnds, DeleteQueued, DrainTake, Abort, WakeStarts,
         WakeEnds, vars
<1>2. ASSUME NEW m \in Msg, Post(m) PROVE \A a \in Msg : Fresh(a)
  <2>1. kind[m] # "command"
    BY <1>2 DEF NoCommands
  <2>2. CASE processing
    BY <1>2, <2>2 DEF Post, Enqueue, Moved
  <2>3. CASE ~processing
    BY <1>2, <2>1, <2>3 DEF Post, StartIdle, Moved
  <2> QED BY <2>2, <2>3
<1>3. ASSUME NEW m \in Msg, PostPersisted(m) \/ DrainPersisted(m) \/ TailPersisted(m)
                                \/ TailPersistFails(m)
      PROVE  \A a \in Msg : Fresh(a)
  <2>1. stage[m] \in Owning
    BY <1>3 DEF PostPersisted, DrainPersisted, TailPersisted, TailPersistFails, Owning
  <2>2. CASE PostPersisted(m)
    BY <1>3, <2>1, <2>2, LaunchOwner DEF PostPersisted
  <2>3. CASE DrainPersisted(m)
    BY <1>3, <2>1, <2>3, GatherNextOwner DEF DrainPersisted
  <2>4. CASE TailPersisted(m)
    BY <1>3, <2>1, <2>4, GatherNextOwner DEF TailPersisted
  <2>5. CASE TailPersistFails(m)
    BY <1>3, <2>1, <2>5, GatherNextOwner DEF TailPersistFails
  <2> QED BY <1>3, <2>2, <2>3, <2>4, <2>5
<1>4. ASSUME NEW m \in Msg, DispatchText(m) \/ DrainPersistFails(m)
      PROVE  \A a \in Msg : Fresh(a)
  <2>1. CASE DrainOn(m)
    BY <1>4, <2>1, DrainOnOwner
  <2>2. CASE stage' = Moved({m}, "drainPersist")
    BY <1>4, <2>2 DEF Moved
  <2> QED BY <1>4, <2>1, <2>2 DEF DispatchText, DrainPersistFails
<1>5. ASSUME NEW m \in Msg,
             \/ PostPersistFails(m) \/ DispatchCommand(m) \/ LoopYields(m) \/ LoopAnswers(m)
             \/ LoopEnds(m) \/ CommandEnds(m) \/ CompactSaved(m) \/ CompactSaveFails(m)
             \/ CompactEnds(m) \/ DrainedCommandEnds(m) \/ DeleteQueued(m)
      PROVE  \A a \in Msg : Fresh(a)
  BY <1>5 DEF PostPersistFails, DispatchCommand, LoopYields, LoopAnswers, LoopEnds,
              CommandEnds, CompactSaved, CompactSaveFails, CompactEnds, DrainedCommandEnds,
              DeleteQueued, Moved
<1>6. ASSUME NEW m \in Msg, CommandStarts(m) PROVE FALSE
  BY <1>6 DEF CommandStarts, NoCommands
<1>7. ASSUME DrainTake PROVE \A a \in Msg : Fresh(a)
  <2>1. CASE queue = <<>>
    BY <1>7, <2>1 DEF DrainTake
  <2>2. CASE queue # <<>>
    <3>1. PICK n \in 1..Len(queue) :
             stage' = [Moved(Elems(SubSeq(queue, 2, n)), "held")
                          EXCEPT ![queue[1]] = "dispatch"]
      BY <1>7, <2>2 DEF DrainTake
    <3>2. \A a \in Msg : stage'[a] \in {"dispatch", "held", stage[a]}
      BY <3>1 DEF Moved
    <3> QED BY <3>2
  <2> QED BY <2>1, <2>2
<1>8. ASSUME Abort PROVE \A a \in Msg : Fresh(a)
  BY <1>8 DEF Abort, Moved
<1>wk. ASSUME WakeStarts \/ WakeEnds \/ UNCHANGED vars PROVE \A a \in Msg : Fresh(a)
  BY <1>wk DEF WakeStarts, WakeEnds, vars
<1> HIDE DEF Fresh
<1>9. \A a \in Msg : Fresh(a)
  BY <1>2, <1>3, <1>4, <1>5, <1>6, <1>7, <1>8, <1>wk DEF Next, Step
<1> QED BY <1>1, <1>9 DEF NoCommands, Fresh

\* Every step keeps the conversation in one holder's hands.
LEMMA NextOneOwner == Inv /\ [Next]_vars => OneOwner'
<1> SUFFICES ASSUME Inv, [Next]_vars PROVE OneOwner'
  OBVIOUS
<1> USE DEF Inv, TInv
<1>st. /\ Owning \cap {"new", "checked", "queued", "dispatch", "drainCommand",
                       "drainCompact", "held", "done", "dropped"} = {}
       /\ {"postPersist", "drainPersist", "gathering", "looping", "yielding", "settling",
           "command", "compactSave", "compacting"} = Owning
  BY DEF Owning
<1>ty. processing \in BOOLEAN /\ wake \in BOOLEAN /\ stage \in [Msg -> Stages]
  BY DEF TypeOK
<1>1. ASSUME NEW m \in Msg, Post(m) PROVE OneOwner'
  <2>1. CASE processing
    BY <1>1, <1>st, <2>1, NobodyTakesUp DEF Post, Enqueue, Moved
  <2>2. CASE ~processing
    <3>1. kind[m] # "command"
      BY <1>1 DEF NoCommands
    <3>2. processing' = TRUE /\ wake' = wake
          /\ \A a \in Msg : a # m => stage'[a] = stage[a]
      BY <1>1, <2>2, <3>1 DEF Post, StartIdle, Moved
    <3> QED BY <1>1, <2>2, <3>2, TurnOpens
  <2> QED BY <2>1, <2>2
<1>2. ASSUME NEW m \in Msg, PostPersisted(m) PROVE OneOwner'
  BY <1>2, <1>st, LaunchOwner, NobodyTakesUp DEF PostPersisted
<1>3. ASSUME NEW m \in Msg, PostPersistFails(m) PROVE OneOwner'
  BY <1>3, <1>st, <1>ty, TurnCloses DEF PostPersistFails, Moved
<1>4. ASSUME NEW m \in Msg, DispatchCommand(m) PROVE OneOwner'
  BY <1>4, <1>st, NobodyTakesUp DEF DispatchCommand, Moved
<1>5. ASSUME NEW m \in Msg, DispatchText(m) PROVE OneOwner'
  <2>1. CASE MayClaim
    <3>1. ~processing /\ processing' = TRUE /\ wake' = wake
          /\ \A a \in Msg : a # m => stage'[a] = stage[a]
      BY <1>5, <2>1 DEF DispatchText, MayClaim, Moved
    <3> QED BY <1>5, <3>1, TurnOpens
  <2>2. CASE ~MayClaim
    <3>1. DrainOn(m) /\ processing' = processing /\ wake' = wake
      BY <1>5, <2>2 DEF DispatchText
    <3>2. \A a \in Msg : stage'[a] \in {"done", "dispatch", stage[a]}
      BY <1>5, <3>1, DrainOnOwner
    <3> QED BY <1>st, <3>1, <3>2, NobodyTakesUp
  <2> QED BY <2>1, <2>2
<1>6. ASSUME NEW m \in Msg, DrainPersisted(m) PROVE OneOwner'
  BY <1>6, <1>st, GatherNextOwner, NobodyTakesUp DEF DrainPersisted
<1>7. ASSUME NEW m \in Msg, DrainPersistFails(m) PROVE OneOwner'
  <2>1. DrainOn(m) /\ stage[m] \in Owning /\ processing' = FALSE /\ wake' = wake
    BY <1>7, <1>st DEF DrainPersistFails
  <2>2. /\ stage'[m] \notin Owning
        /\ \A a \in Msg : stage'[a] \in Owning => stage[a] \in Owning
    BY <1>7, <1>st, <2>1, DrainOnOwner
  <2> QED BY <1>7, <2>1, <2>2, TurnCloses
<1>8. ASSUME NEW m \in Msg, TailPersisted(m) PROVE OneOwner'
  BY <1>8, <1>st, GatherNextOwner, NobodyTakesUp DEF TailPersisted
<1>9. ASSUME NEW m \in Msg, TailPersistFails(m) PROVE OneOwner'
  BY <1>9, <1>st, GatherNextOwner, NobodyTakesUp DEF TailPersistFails
<1>10. ASSUME NEW m \in Msg, LoopYields(m) PROVE OneOwner'
  BY <1>10, <1>st, NobodyTakesUp DEF LoopYields, Moved
<1>11. ASSUME NEW m \in Msg, LoopAnswers(m) PROVE OneOwner'
  BY <1>11, <1>st, NobodyTakesUp DEF LoopAnswers, Moved
<1>12. ASSUME NEW m \in Msg, LoopEnds(m) PROVE OneOwner'
  <2>1. m \in members[m] /\ stage[m] \in Owning
    BY <1>12, <1>st DEF LoopEnds, LeadOK
  <2>2. stage'[m] \notin Owning /\ processing' = FALSE /\ wake' = wake
        /\ \A a \in Msg : stage'[a] \in Owning => stage[a] \in Owning
    BY <1>12, <1>st, <2>1 DEF LoopEnds, Release, Moved
  <2> QED BY <1>12, <2>1, <2>2, TurnCloses
<1>13. ASSUME NEW m \in Msg, CommandStarts(m) \/ CommandEnds(m) PROVE OneOwner'
  BY <1>13 DEF CommandStarts, CommandEnds, NoCommands
<1>14. ASSUME NEW m \in Msg, CompactSaved(m) PROVE OneOwner'
  BY <1>14, <1>st, NobodyTakesUp DEF CompactSaved, Moved
<1>15. ASSUME NEW m \in Msg, CompactSaveFails(m) PROVE OneOwner'
  BY <1>15, <1>st, NobodyTakesUp DEF CompactSaveFails, Moved
<1>16. ASSUME NEW m \in Msg, CompactEnds(m) PROVE OneOwner'
  <2>1. stage[m] \in Owning /\ stage'[m] \notin Owning /\ processing' = FALSE /\ wake' = wake
        /\ \A a \in Msg : stage'[a] \in Owning => stage[a] \in Owning
    BY <1>16, <1>st DEF CompactEnds, Release, Moved
  <2> QED BY <1>16, <2>1, TurnCloses
<1>17. ASSUME NEW m \in Msg, DrainedCommandEnds(m) PROVE OneOwner'
  BY <1>17, <1>st, NobodyTakesUp DEF DrainedCommandEnds, Moved
<1>18. ASSUME NEW m \in Msg, DeleteQueued(m) PROVE OneOwner'
  BY <1>18, <1>st, NobodyTakesUp DEF DeleteQueued, Moved
<1>19. ASSUME DrainTake PROVE OneOwner'
  <2>1. CASE queue = <<>>
    BY <1>19, <2>1, NobodyTakesUp DEF DrainTake
  <2>2. CASE queue # <<>>
    <3>1. PICK n \in 1..Len(queue) :
             stage' = [Moved(Elems(SubSeq(queue, 2, n)), "held")
                          EXCEPT ![queue[1]] = "dispatch"]
      BY <1>19, <2>2 DEF DrainTake
    <3>2. \A a \in Msg : stage'[a] \in {"dispatch", "held", stage[a]}
      BY <3>1 DEF Moved
    <3> QED BY <1>19, <1>st, <3>2, NobodyTakesUp DEF DrainTake
  <2> QED BY <2>1, <2>2
<1>20. ASSUME Abort PROVE OneOwner'
  BY <1>20, <1>st, NobodyTakesUp DEF Abort, Moved
<1>21. ASSUME WakeStarts PROVE OneOwner'
  BY <1>21 DEF WakeStarts, OneOwner, Owner
<1>22. ASSUME WakeEnds PROVE OneOwner'
  BY <1>22 DEF WakeEnds, Release, OneOwner, Owner
<1>23. ASSUME UNCHANGED vars PROVE OneOwner'
  BY <1>23, NobodyTakesUp DEF vars
<1> QED
  BY <1>1, <1>2, <1>3, <1>4, <1>5, <1>6, <1>7, <1>8, <1>9, <1>10, <1>11, <1>12, <1>13,
     <1>14, <1>15, <1>16, <1>17, <1>18, <1>19, <1>20, <1>21, <1>22, <1>23
  DEF Next, Step

\* Unless slash commands that look up keys are sent, at most one turn, compaction
\* or wake holds the conversation at a time, and `processing` says so.
THEOREM OneOwnerHolds ==
    ASSUME "command" \notin Kinds
    PROVE  Spec => []OneOwner
<1>1. Init => NoCommands /\ OneOwner
  BY DEF Init, NoCommands, OneOwner, Owner, Owning
<1>2. Init => Inv
  BY <1>1, InitTInv DEF Inv
<1>3. Inv /\ [Next]_vars => Inv'
  BY NextTInv, NextNoCommands, NextOneOwner DEF Inv
<1>4. Inv => OneOwner
  BY DEF Inv
<1> QED BY <1>2, <1>3, <1>4, PTL DEF Spec

\* So no two agent loops, of turns or of wakes, ever run at once.
THEOREM OneAgentLoopHolds ==
    ASSUME "command" \notin Kinds
    PROVE  Spec => []OneAgentLoop
<1>1. OneOwner => OneAgentLoop
  BY DEF OneOwner, OneAgentLoop, Owner, Running, Owning
<1> QED BY <1>1, OneOwnerHolds, PTL
-----------------------------------------------------------------------------
(* Every message in one place *)

\* Stages of a message that leads tails, and of one that leads members.
Heading == {"dispatch", "drainPersist", "gathering"}
Leading == {"gathering", "looping", "yielding", "settling"}
\* The messages that l leads, and the stages they are at.
BatchOf(l) == (members[l] \ {l}) \cup Elems(tails[l])
TailStage(l, x) == IF stage[l] = "gathering" /\ x = Head(tails[l]) THEN "tailPersist" ELSE "held"
MemberStage(l) == IF stage[l] = "gathering" THEN "held" ELSE "member"

\* The queue holds what is queued, once.
QueueOK ==
    /\ Distinct(queue)
    /\ \A m \in Msg : (stage[m] = "queued") = (m \in Elems(queue))

\* A batch is at the stages its lead is at, and only text is batched.
BatchOK(l) ==
    /\ Distinct(tails[l])
    /\ tails[l] # <<>> => stage[l] \in Heading /\ kind[l] = "text"
    /\ members[l] # {} => stage[l] \in Leading
    /\ \A x \in Elems(tails[l]) :
          stage[x] = TailStage(l, x) /\ x \notin members[l] /\ kind[x] = "text"
    /\ \A x \in members[l] \ {l} : stage[x] = MemberStage(l)

\* Who is in a batch has one lead.
OneLead ==
    /\ \A k, l, x \in Msg : x \in BatchOf(k) /\ x \in BatchOf(l) => k = l
    /\ \A x \in Msg : stage[x] \in Batched => \E l \in Msg : x \in BatchOf(l)

BatchesOK == (\A l \in Msg : BatchOK(l)) /\ OneLead

\* InOnePlace is inductive only with what each stage says about the queue, the tails
\* and the members.
PlaceInv == TInv /\ QueueOK /\ BatchesOK

\* Everybody in a batch is at a stage of a batch's messages.
LEMMA BatchStages ==
    ASSUME TInv, BatchesOK, NEW l \in Msg
    PROVE  /\ BatchOf(l) \subseteq Msg
           /\ \A x \in BatchOf(l) : stage[x] \in {"held", "tailPersist", "member"}
           /\ l \notin BatchOf(l) /\ l \notin Elems(tails[l])
           /\ BatchOf(l) # {} => stage[l] \in Heading \cup Leading
<1>1. Elems(tails[l]) \subseteq Msg /\ members[l] \subseteq Msg
  BY ElemsType DEF TInv, TypeOK
<1>2. \A x \in BatchOf(l) : stage[x] \in {"held", "tailPersist", "member"}
  BY DEF BatchesOK, BatchOK, BatchOf, TailStage, MemberStage
<1>3. Elems(tails[l]) # {} => tails[l] # <<>>
  BY NoElems
<1>4. BatchOf(l) # {} => stage[l] \in Heading \cup Leading
  BY <1>3 DEF BatchesOK, BatchOK, BatchOf
<1>5. \A st \in Heading \cup Leading : st \notin {"held", "tailPersist", "member"}
  BY DEF Heading, Leading
<1>. QED BY <1>1, <1>2, <1>4, <1>5 DEF BatchOf

\* A step that moves no message of a batch and keeps the leads where they lead.
LEMMA BatchesKept ==
    ASSUME TInv, BatchesOK, kind' = kind, tails' = tails, members' = members,
           \A m \in Msg :
              /\ stage[m] \in Batched \/ stage'[m] \in Batched => stage'[m] = stage[m]
              /\ (stage[m] = "gathering") = (stage'[m] = "gathering")
              /\ tails[m] # <<>> => stage'[m] \in Heading
              /\ members[m] # {} => stage'[m] \in Leading
    PROVE  BatchesOK'
<1>0. \A l \in Msg : Elems(tails[l]) \subseteq Msg /\ members[l] \subseteq Msg
  BY ElemsType DEF TInv, TypeOK
<1>1. ASSUME NEW l \in Msg PROVE BatchOK(l)'
  <2>1. \A x \in Elems(tails[l]) : stage'[x] = stage[x]
    BY <1>0 DEF BatchesOK, BatchOK, TailStage, Batched
  <2>2. \A x \in members[l] \ {l} : stage'[x] = stage[x]
    BY <1>0 DEF BatchesOK, BatchOK, MemberStage, Batched
  <2>3. \A x : TailStage(l, x)' = TailStage(l, x) /\ MemberStage(l)' = MemberStage(l)
    BY DEF TailStage, MemberStage
  <2>. QED BY <2>1, <2>2, <2>3 DEF BatchesOK, BatchOK
<1>2. \A l \in Msg : BatchOf(l)' = BatchOf(l)
  BY DEF BatchOf
<1>3. OneLead'
  BY <1>2 DEF OneLead, BatchesOK
<1>. QED BY <1>1, <1>3 DEF BatchesOK

\* A step that leaves the queue alone.
LEMMA QueueKept ==
    ASSUME QueueOK, queue' = queue,
           \A m \in Msg : (stage'[m] = "queued") = (stage[m] = "queued")
    PROVE  QueueOK'
BY DEF QueueOK

\* The turn of lead has its batch up to rest behind it, S persisted and failed not.
Gathers(lead, S, failed, rest) ==
    /\ stage[lead] \in {"postPersist", "drainPersist", "gathering"}
    /\ lead \in S /\ rest \in Seq(Msg) /\ Distinct(rest)
    /\ S \cup failed \cup Elems(rest) = {lead} \cup BatchOf(lead)
    /\ S \cap failed = {} /\ S \cap Elems(rest) = {} /\ failed \cap Elems(rest) = {}
    /\ \A x \in Elems(rest) : stage[x] = "held"
    /\ rest # <<>> => kind[lead] = "text" /\ \A x \in Elems(rest) : kind[x] = "text"

\* The batches of other leads are apart from the messages of this one.
LEMMA OthersApart ==
    ASSUME PlaceInv, NEW lead \in Msg, NEW S, NEW failed, NEW rest,
           Gathers(lead, S, failed, rest), NEW l \in Msg, l # lead
    PROVE  /\ lead \notin BatchOf(l)
           /\ BatchOf(l) \cap (S \cup failed \cup Elems(rest)) = {}
           /\ l \in S \cup failed \cup Elems(rest) => BatchOf(l) = {} /\ stage[l] \in Batched
<1>1. BatchesOK /\ TInv /\ OneLead
  BY DEF PlaceInv, BatchesOK
<1>2. lead \notin BatchOf(l)
  BY <1>1, BatchStages DEF Gathers
<1>3. BatchOf(l) \cap (S \cup failed \cup Elems(rest)) = {}
  <2>1. BatchOf(l) \cap BatchOf(lead) = {}
    BY <1>1, BatchStages DEF OneLead
  <2>2. BatchOf(l) \cap ({lead} \cup BatchOf(lead)) = {}
    BY <1>2, <2>1
  <2>. QED BY <2>2 DEF Gathers
<1>4. ASSUME l \in S \cup failed \cup Elems(rest) PROVE BatchOf(l) = {} /\ stage[l] \in Batched
  <2>1. l \in BatchOf(lead)
    BY <1>4 DEF Gathers
  <2>2. stage[l] \in {"held", "tailPersist", "member"}
    BY <1>1, <2>1, BatchStages
  <2>3. stage[l] \notin Heading \cup Leading
    BY <2>2 DEF Heading, Leading
  <2>4. BatchOf(l) = {}
    BY <1>1, <2>3, BatchStages
  <2>. QED BY <2>2, <2>4 DEF Batched
<1>. QED BY <1>2, <1>3, <1>4

\* What a batch of another lead is, when the step touches only lead's messages.
LEMMA OtherBatch ==
    ASSUME PlaceInv, NEW l \in Msg, kind' = kind,
           tails'[l] = tails[l], members'[l] = members[l],
           stage'[l] = stage[l] \/ (tails[l] = <<>> /\ members[l] = {}),
           \A x \in BatchOf(l) : stage'[x] = stage[x]
    PROVE  BatchOK(l)' /\ BatchOf(l)' = BatchOf(l)
<1>1. BatchOK(l)
  BY DEF PlaceInv, BatchesOK
<1>2. \A x : tails[l] # <<>> \/ members[l] # {}
              => TailStage(l, x)' = TailStage(l, x) /\ MemberStage(l)' = MemberStage(l)
  BY DEF TailStage, MemberStage
<1>3. tails[l] = <<>> => Elems(tails[l]) = {}
  BY NoElems
<1>4. \A x \in Elems(tails[l]) : stage'[x] = stage[x]
  BY DEF BatchOf
<1>5. \A x \in members[l] \ {l} : stage'[x] = stage[x]
  BY DEF BatchOf
<1>. QED BY <1>1, <1>2, <1>3, <1>4, <1>5 DEF BatchOK, BatchOf

\* What starting or refusing a loop does to the batch it is given.
LEMMA LaunchMoves ==
    ASSUME PlaceInv, NEW lead \in Msg, NEW S, NEW failed, NEW rest, NEW drained,
           Gathers(lead, S, failed, rest), Launch(lead, S, Elems(rest), failed, drained)
    PROVE  /\ \A x \in Msg : x \notin {lead} \cup BatchOf(lead) => stage'[x] = stage[x]
           /\ \A x \in failed : stage'[x] = "done"
           /\ \A x \in Elems(rest) : stage'[x] = "dropped"
           /\ stage'[lead] = IF controller = None THEN "done" ELSE "looping"
           /\ \A x \in S \ {lead} : stage'[x] = IF controller = None THEN "done" ELSE "member"
           /\ tails' = [tails EXCEPT ![lead] = <<>>]
           /\ members' = [members EXCEPT ![lead] = IF controller = None THEN {} ELSE S]
<1>1. BatchOf(lead) \subseteq Msg
  BY BatchStages DEF PlaceInv
<1>2. \A x \in Msg : stage'[x] = CASE x \in Elems(rest) -> "dropped"
                                   [] x \in failed -> "done"
                                   [] x \in S -> IF controller = None THEN "done"
                                                 ELSE IF x = lead THEN "looping"
                                                 ELSE "member"
                                   [] OTHER -> stage[x]
  BY DEF Launch
<1>3. /\ \A x : x \notin {lead} \cup BatchOf(lead) => x \notin Elems(rest) /\ x \notin failed /\ x \notin S
      /\ \A x \in failed : x \in Msg /\ x \notin S /\ x \notin Elems(rest)
      /\ \A x \in Elems(rest) : x \in Msg /\ x \notin S /\ x \notin failed
      /\ \A x \in S : x \in Msg /\ x \notin Elems(rest) /\ x \notin failed
      /\ lead \in S
  BY <1>1 DEF Gathers
<1>4. \A x \in Msg : x \notin {lead} \cup BatchOf(lead) => stage'[x] = stage[x]
  BY <1>2, <1>3
<1>5. \A x \in failed : stage'[x] = "done"
  BY <1>2, <1>3
<1>6. \A x \in Elems(rest) : stage'[x] = "dropped"
  BY <1>2, <1>3
<1>7. \A x \in S : stage'[x] = IF controller = None THEN "done"
                               ELSE IF x = lead THEN "looping" ELSE "member"
  BY <1>2, <1>3
<1>. QED BY <1>3, <1>4, <1>5, <1>6, <1>7 DEF Launch

\* What persisting the next tail does to the batch it belongs to.
LEMMA GatherMoves ==
    ASSUME PlaceInv, NEW lead \in Msg, NEW S, NEW failed, NEW rest, NEW stop,
           Gathers(lead, S, failed, rest), rest # <<>>, ~stop,
           GatherNext(lead, S, failed, rest, stop)
    PROVE  /\ \A x \in Msg : x \notin {lead} \cup BatchOf(lead) => stage'[x] = stage[x]
           /\ \A x \in failed : stage'[x] = "done"
           /\ Head(rest) \in Elems(rest)
           /\ \A x \in Elems(rest) : stage'[x] = IF x = Head(rest) THEN "tailPersist" ELSE stage[x]
           /\ stage'[lead] = "gathering"
           /\ \A x \in S \ {lead} : stage'[x] = "held"
           /\ tails' = [tails EXCEPT ![lead] = rest]
           /\ members' = [members EXCEPT ![lead] = S]
<1>1. BatchOf(lead) \subseteq Msg
  BY BatchStages DEF PlaceInv
<1>2. PICK h : h = Head(rest)
  OBVIOUS
<1>3. /\ \A x \in Msg : stage'[x] = CASE x = h -> "tailPersist"
                                      [] x = lead -> "gathering"
                                      [] x \in failed -> "done"
                                      [] x \in S \ {lead} -> "held"
                                      [] OTHER -> stage[x]
      /\ tails' = [tails EXCEPT ![lead] = rest]
      /\ members' = [members EXCEPT ![lead] = S]
  BY <1>2 DEF GatherNext
<1>4. h \in Elems(rest)
  BY <1>2, NoElems DEF Gathers
<1>5. /\ \A x : x \notin {lead} \cup BatchOf(lead) => x \notin Elems(rest) /\ x \notin failed /\ x \notin S
      /\ \A x \in failed : x \in Msg /\ x \notin S /\ x \notin Elems(rest)
      /\ \A x \in Elems(rest) : x \in Msg /\ x \notin S /\ x \notin failed /\ x # lead
      /\ \A x \in S : x \in Msg /\ x \notin Elems(rest) /\ x \notin failed
      /\ lead \in S
  BY <1>1 DEF Gathers
<1>6. \A x \in Msg : x \notin {lead} \cup BatchOf(lead) => stage'[x] = stage[x]
  BY <1>3, <1>4, <1>5
<1>7. \A x \in failed : stage'[x] = "done"
  BY <1>3, <1>4, <1>5
<1>8. \A x \in Elems(rest) : stage'[x] = IF x = h THEN "tailPersist" ELSE stage[x]
  BY <1>3, <1>5
<1>9. stage'[lead] = "gathering" /\ \A x \in S \ {lead} : stage'[x] = "held"
  BY <1>3, <1>4, <1>5
<1>. QED BY <1>2, <1>3, <1>4, <1>6, <1>7, <1>8, <1>9

\* What goes on after a failed head: the queue, or the rest of its batch.
LEMMA DrainOnMoves ==
    ASSUME PlaceInv, NEW m \in Msg, stage[m] \in {"dispatch", "drainPersist"}, DrainOn(m)
    PROVE  /\ stage'[m] = "done"
           /\ \/ /\ tails[m] = <<>> /\ tails' = tails /\ drains' = drains + 1
                 /\ \A x \in Msg \ {m} : stage'[x] = stage[x]
              \/ /\ tails[m] # <<>> /\ drains' = drains
                 /\ Head(tails[m]) \in Msg \ {m} /\ Tail(tails[m]) \in Seq(Msg)
                 /\ Head(tails[m]) \in BatchOf(m) /\ stage[Head(tails[m])] = "held"
                 /\ stage'[Head(tails[m])] = "dispatch"
                 /\ \A x \in Msg \ {m, Head(tails[m])} : stage'[x] = stage[x]
                 /\ tails' = [tails EXCEPT ![m] = <<>>, ![Head(tails[m])] = Tail(tails[m])]
<1>1. TInv /\ BatchesOK /\ TypeOK
  BY DEF PlaceInv, TInv
<1>2. CASE tails[m] = <<>>
  <2>1. tails' = tails /\ stage' = [stage EXCEPT ![m] = "done"] /\ drains' = drains + 1
    BY <1>1, <1>2 DEF DrainOn, Moved, TypeOK, DrainAgain
  <2>. QED BY <1>1, <1>2, <2>1 DEF TypeOK
<1>3. CASE tails[m] # <<>>
  <2>1. PICK h \in Msg, t \in Seq(Msg) : h = Head(tails[m]) /\ t = Tail(tails[m])
    BY <1>1, <1>3, HeadTailElems DEF TypeOK
  <2>2. h \in Elems(tails[m])
    BY <1>1, <1>3, <2>1, HeadTailElems DEF TypeOK
  <2>3. h \in BatchOf(m) /\ h # m
    BY <1>1, <2>2, BatchStages DEF BatchOf
  <2>4. stage' = [stage EXCEPT ![m] = "done", ![h] = "dispatch"] /\ drains' = drains
        /\ tails' = [tails EXCEPT ![m] = <<>>, ![h] = t]
    BY <1>3, <2>1 DEF DrainOn
  <2>5. stage'[m] = "done" /\ stage'[h] = "dispatch"
        /\ \A x \in Msg \ {m, h} : stage'[x] = stage[x]
    BY <1>1, <2>1, <2>3, <2>4 DEF TypeOK
  <2>6. stage[h] = "held"
    BY <1>1, <2>2 DEF BatchesOK, BatchOK, TailStage
  <2>. QED BY <1>3, <2>1, <2>3, <2>4, <2>5, <2>6
<1>. QED BY <1>2, <1>3

\* What a drain takes out of the queue.
LEMMA TakeMoves ==
    ASSUME PlaceInv, DrainTake, queue # <<>>
    PROVE  \E h \in Msg, rest \in Seq(Msg), left \in Seq(Msg) :
              /\ queue' = left /\ drains' = drains - 1
              /\ Elems(queue) = {h} \cup Elems(rest) \cup Elems(left)
              /\ stage'[h] = "dispatch"
              /\ \A x \in Elems(rest) : x \in Msg /\ x # h /\ stage'[x] = "held"
              /\ \A x \in Msg : x # h /\ x \notin Elems(rest) => stage'[x] = stage[x]
              /\ \A x \in {h} \cup Elems(rest) : stage[x] = "queued"
              /\ tails' = [tails EXCEPT ![h] = rest]
<1>1. QueueOK /\ TypeOK
  BY DEF PlaceInv, TInv
<1>2. PICK n \in 1..Len(queue) :
            /\ queue' = QueueAfter(n)
            /\ stage' = [Moved(Elems(SubSeq(queue, 2, n)), "held") EXCEPT ![queue[1]] = "dispatch"]
            /\ tails' = [tails EXCEPT ![queue[1]] = SubSeq(queue, 2, n)]
  BY DEF DrainTake
<1>3. PICK h, rest, left : h = queue[1] /\ rest = SubSeq(queue, 2, n)
                           /\ left = SubSeq(queue, n + 1, Len(queue))
  OBVIOUS
<1>4. /\ h \in Msg /\ rest \in Seq(Msg) /\ left \in Seq(Msg)
      /\ Elems(queue) = {h} \cup Elems(rest) \cup Elems(left)
      /\ h \notin Elems(rest) /\ Elems(rest) \subseteq Msg
  BY <1>1, <1>3, CutElems, ElemsType DEF TypeOK, QueueOK
<1>5. queue' = left /\ drains' = drains - 1
  BY <1>2, <1>3 DEF QueueAfter, DrainTake
<1>6. stage' = [Moved(Elems(rest), "held") EXCEPT ![h] = "dispatch"]
      /\ tails' = [tails EXCEPT ![h] = rest]
  BY <1>2, <1>3
<1>7. \A x \in Msg : stage'[x] = IF x = h THEN "dispatch" ELSE IF x \in Elems(rest) THEN "held" ELSE stage[x]
  BY <1>4, <1>6 DEF Moved
<1>8. \A x \in {h} \cup Elems(rest) : stage[x] = "queued"
  BY <1>1, <1>4 DEF QueueOK
<1>9. \A x \in Elems(rest) : x \in Msg /\ x # h /\ stage'[x] = "held"
  BY <1>4, <1>7
<1>. QED BY <1>4, <1>5, <1>6, <1>7, <1>8, <1>9

\* Starting, or refusing, a loop leaves every message in one place.
LEMMA LaunchPlaces ==
    ASSUME PlaceInv, NEW lead \in Msg, NEW S, NEW failed, NEW rest, NEW drained,
           Gathers(lead, S, failed, rest),
           Launch(lead, S, Elems(rest), failed, drained), kind' = kind, queue' = queue
    PROVE  QueueOK' /\ BatchesOK'
<1> DEFINE Ours == S \cup failed \cup Elems(rest)
           refused == controller = None
<1>1. TInv /\ QueueOK /\ BatchesOK /\ OneLead /\ TypeOK
  BY DEF PlaceInv, BatchesOK, TInv
<1>2. /\ Ours = {lead} \cup BatchOf(lead) /\ lead \in S /\ Ours \subseteq Msg
      /\ S \cap failed = {} /\ S \cap Elems(rest) = {}
      /\ stage[lead] \in {"postPersist", "drainPersist", "gathering"}
  BY <1>1, BatchStages DEF Gathers
<1>3. /\ tails' = [tails EXCEPT ![lead] = <<>>]
      /\ members' = [members EXCEPT ![lead] = IF refused THEN {} ELSE S]
      /\ \A x \in Msg \ Ours : stage'[x] = stage[x]
      /\ \A x \in Ours \ S : stage'[x] \in {"done", "dropped"}
      /\ stage'[lead] = IF refused THEN "done" ELSE "looping"
      /\ \A x \in S \ {lead} : stage'[x] = IF refused THEN "done" ELSE "member"
  BY <1>2, LaunchMoves
<1>4. tails'[lead] = <<>> /\ members'[lead] = IF refused THEN {} ELSE S
  BY <1>1, <1>3 DEF TypeOK
<1>5. ASSUME NEW l \in Msg, l # lead PROVE BatchOK(l)' /\ BatchOf(l)' = BatchOf(l)
  <2>1. tails'[l] = tails[l] /\ members'[l] = members[l]
    BY <1>1, <1>3, <1>5 DEF TypeOK
  <2>2. \A x \in BatchOf(l) : stage'[x] = stage[x]
    BY <1>1, <1>3, <1>5, OthersApart, BatchStages
  <2>3. stage'[l] = stage[l] \/ (tails[l] = <<>> /\ members[l] = {})
    <3>1. CASE l \in Ours
      <4>1. BatchOf(l) = {} /\ stage[l] \in Batched
        BY <1>5, <3>1, OthersApart
      <4>2. stage[l] \notin Heading /\ stage[l] \notin Leading
        BY <4>1 DEF Batched, Heading, Leading
      <4>. QED BY <1>1, <4>2 DEF BatchesOK, BatchOK
    <3>2. CASE l \notin Ours
      BY <1>3, <1>5, <3>2
    <3>. QED BY <3>1, <3>2
  <2>. QED BY <2>1, <2>2, <2>3, OtherBatch
<1>6. BatchOK(lead)' /\ BatchOf(lead)' = IF refused THEN {} ELSE S \ {lead}
  <2>1. Elems(<<>>) = {} /\ Distinct(<<>>)
    BY NoElems
  <2>2. BatchOf(lead)' = IF refused THEN {} ELSE S \ {lead}
    BY <1>4, <2>1 DEF BatchOf
  <2>3. ~refused => MemberStage(lead)' = "member" /\ stage'[lead] \in Leading
    BY <1>3 DEF MemberStage, Leading
  <2>4. \A x \in members'[lead] \ {lead} : stage'[x] = MemberStage(lead)'
    BY <1>3, <1>4, <2>3
  <2>. QED BY <1>4, <2>1, <2>2, <2>3, <2>4 DEF BatchOK
<1>7. OneLead'
  <2>1. ASSUME NEW k \in Msg, NEW l \in Msg, NEW x \in Msg, x \in BatchOf(k)', x \in BatchOf(l)'
        PROVE  k = l
    <3>1. CASE k # lead /\ l # lead
      BY <1>1, <1>5, <2>1, <3>1 DEF OneLead
    <3>2. ASSUME NEW j \in Msg, j # lead, x \in BatchOf(j)', x \in BatchOf(lead)' PROVE FALSE
      BY <1>5, <1>6, <3>2, OthersApart
    <3>. QED BY <2>1, <3>1, <3>2
  <2>2. ASSUME NEW x \in Msg, stage'[x] \in Batched PROVE \E l \in Msg : x \in BatchOf(l)'
    <3>1. CASE x \in Ours
      <4>1. x \in S \ {lead} /\ ~refused
        BY <1>3, <2>2, <3>1 DEF Batched
      <4>. QED BY <1>6, <4>1
    <3>2. CASE x \notin Ours
      <4>1. stage[x] \in Batched
        BY <1>3, <2>2, <3>2
      <4>2. PICK l \in Msg : x \in BatchOf(l)
        BY <1>1, <4>1 DEF OneLead
      <4>3. l # lead
        BY <1>2, <3>2, <4>2
      <4>. QED BY <1>5, <4>2, <4>3
    <3>. QED BY <3>1, <3>2
  <2>. QED BY <2>1, <2>2 DEF OneLead
<1>8. QueueOK'
  <2>1. \A x \in Ours : stage[x] # "queued" /\ stage'[x] # "queued"
    BY <1>1, <1>2, <1>3, BatchStages
  <2>. QED BY <1>1, <1>3, <2>1, QueueKept
<1>9. \A l \in Msg : BatchOK(l)'
  BY <1>5, <1>6
<1>. QED BY <1>7, <1>8, <1>9 DEF BatchesOK

\* So does persisting the next tail of a batch.
LEMMA GatherPlaces ==
    ASSUME PlaceInv, NEW lead \in Msg, NEW S, NEW failed, NEW rest, NEW stop,
           Gathers(lead, S, failed, rest),
           GatherNext(lead, S, failed, rest, stop), kind' = kind, queue' = queue
    PROVE  QueueOK' /\ BatchesOK'
<1> DEFINE Ours == S \cup failed \cup Elems(rest)
           h == Head(rest)
<1>0. CASE rest = <<>> \/ stop
  BY <1>0, LaunchPlaces DEF GatherNext
<1>. SUFFICES ASSUME ~(rest = <<>> \/ stop) PROVE QueueOK' /\ BatchesOK'
  BY <1>0
<1>1. TInv /\ QueueOK /\ BatchesOK /\ OneLead /\ TypeOK
  BY DEF PlaceInv, BatchesOK, TInv
<1>2. /\ Ours = {lead} \cup BatchOf(lead) /\ lead \in S /\ Ours \subseteq Msg
      /\ S \cap failed = {} /\ S \cap Elems(rest) = {} /\ failed \cap Elems(rest) = {}
      /\ stage[lead] \in {"postPersist", "drainPersist", "gathering"}
  BY <1>1, BatchStages DEF Gathers
<1>h. h \in Elems(rest) /\ h \notin S /\ h \notin failed /\ h # lead
  BY <1>2, NoElems DEF Gathers
<1>3. /\ tails' = [tails EXCEPT ![lead] = rest]
      /\ members' = [members EXCEPT ![lead] = S]
      /\ \A x \in Msg \ Ours : stage'[x] = stage[x]
      /\ \A x \in failed : stage'[x] = "done"
      /\ stage'[lead] = "gathering"
      /\ \A x \in S \ {lead} : stage'[x] = "held"
      /\ \A x \in Elems(rest) : stage'[x] = IF x = h THEN "tailPersist" ELSE stage[x]
  BY <1>2, GatherMoves
<1>4. tails'[lead] = rest /\ members'[lead] = S
  BY <1>1, <1>3 DEF TypeOK
<1>5. ASSUME NEW l \in Msg, l # lead PROVE BatchOK(l)' /\ BatchOf(l)' = BatchOf(l)
  <2>1. tails'[l] = tails[l] /\ members'[l] = members[l]
    BY <1>1, <1>3, <1>5 DEF TypeOK
  <2>2. \A x \in BatchOf(l) : stage'[x] = stage[x]
    BY <1>1, <1>3, <1>5, OthersApart, BatchStages
  <2>3. stage'[l] = stage[l] \/ (tails[l] = <<>> /\ members[l] = {})
    <3>1. CASE l \in Ours
      <4>1. BatchOf(l) = {} /\ stage[l] \in Batched
        BY <1>5, <3>1, OthersApart
      <4>2. stage[l] \notin Heading /\ stage[l] \notin Leading
        BY <4>1 DEF Batched, Heading, Leading
      <4>. QED BY <1>1, <4>2 DEF BatchesOK, BatchOK
    <3>2. CASE l \notin Ours
      BY <1>3, <1>5, <3>2
    <3>. QED BY <3>1, <3>2
  <2>. QED BY <2>1, <2>2, <2>3, OtherBatch
<1>6. BatchOK(lead)' /\ BatchOf(lead)' = (S \ {lead}) \cup Elems(rest)
  <2>1. BatchOf(lead)' = (S \ {lead}) \cup Elems(rest)
    BY <1>4 DEF BatchOf
  <2>2. stage'[lead] \in Heading /\ stage'[lead] \in Leading /\ stage'[lead] = "gathering"
    BY <1>3 DEF Heading, Leading
  <2>3. \A x \in members'[lead] \ {lead} : stage'[x] = MemberStage(lead)'
    BY <1>3, <1>4, <2>2 DEF MemberStage
  <2>4. \A x \in Elems(tails'[lead]) : stage'[x] = TailStage(lead, x)' /\ x \notin members'[lead]
    BY <1>2, <1>3, <1>4, <2>2 DEF TailStage, Gathers
  <2>5. Distinct(tails'[lead]) /\ kind'[lead] = "text"
        /\ \A x \in Elems(tails'[lead]) : kind'[x] = "text"
    BY <1>4 DEF Gathers
  <2>. QED BY <2>1, <2>2, <2>3, <2>4, <2>5 DEF BatchOK
<1>7. OneLead'
  <2>1. ASSUME NEW k \in Msg, NEW l \in Msg, NEW x \in Msg, x \in BatchOf(k)', x \in BatchOf(l)'
        PROVE  k = l
    <3>1. CASE k # lead /\ l # lead
      BY <1>1, <1>5, <2>1, <3>1 DEF OneLead
    <3>2. ASSUME NEW j \in Msg, j # lead, x \in BatchOf(j)', x \in BatchOf(lead)' PROVE FALSE
      BY <1>5, <1>6, <3>2, OthersApart
    <3>. QED BY <2>1, <3>1, <3>2
  <2>2. ASSUME NEW x \in Msg, stage'[x] \in Batched PROVE \E l \in Msg : x \in BatchOf(l)'
    <3>1. CASE x \in Ours
      <4>1. x \in (S \ {lead}) \cup Elems(rest)
        BY <1>3, <2>2, <3>1 DEF Batched
      <4>. QED BY <1>6, <4>1
    <3>2. CASE x \notin Ours
      <4>1. stage[x] \in Batched
        BY <1>3, <2>2, <3>2
      <4>2. PICK l \in Msg : x \in BatchOf(l)
        BY <1>1, <4>1 DEF OneLead
      <4>3. l # lead
        BY <1>2, <3>2, <4>2
      <4>. QED BY <1>5, <4>2, <4>3
    <3>. QED BY <3>1, <3>2
  <2>. QED BY <2>1, <2>2 DEF OneLead
<1>8. QueueOK'
  <2>1. \A x \in Ours : stage[x] # "queued" /\ stage'[x] # "queued"
    BY <1>1, <1>2, <1>3, BatchStages
  <2>. QED BY <1>1, <1>3, <2>1, QueueKept
<1>9. \A l \in Msg : BatchOK(l)'
  BY <1>5, <1>6
<1>. QED BY <1>7, <1>8, <1>9 DEF BatchesOK

\* A batch whose head failed passes to the next of its messages.
LEMMA DrainOnPlaces ==
    ASSUME PlaceInv, NEW m \in Msg, stage[m] \in {"dispatch", "drainPersist"}, DrainOn(m),
           kind' = kind, queue' = queue, members' = members
    PROVE  QueueOK' /\ BatchesOK'
<1>1. TInv /\ QueueOK /\ BatchesOK /\ OneLead /\ TypeOK
  BY DEF PlaceInv, BatchesOK, TInv
<1>2. members[m] = {} /\ stage[m] \notin Batched
  BY <1>1 DEF BatchesOK, BatchOK, Leading, Batched
<1>3. CASE tails[m] = <<>>
  <2>1. tails' = tails /\ stage' = [stage EXCEPT ![m] = "done"]
    BY <1>1, <1>3 DEF DrainOn, Moved, TypeOK
  <2>2. \A a \in Msg :
              /\ stage[a] \in Batched \/ stage'[a] \in Batched => stage'[a] = stage[a]
              /\ (stage[a] = "gathering") = (stage'[a] = "gathering")
              /\ tails[a] # <<>> => stage'[a] \in Heading
              /\ members[a] # {} => stage'[a] \in Leading
    BY <1>1, <1>2, <1>3, <2>1 DEF TypeOK, BatchesOK, BatchOK, Batched
  <2>3. BatchesOK'
    BY <1>1, <2>1, <2>2, BatchesKept
  <2>4. QueueOK'
    BY <1>1, <2>1, QueueKept DEF TypeOK
  <2>. QED BY <2>3, <2>4
<1>4. CASE tails[m] # <<>>
  <2>0. PICK h \in Msg, t \in Seq(Msg) : h = Head(tails[m]) /\ t = Tail(tails[m])
    BY <1>1, <1>4, HeadTailElems DEF TypeOK
  <2>1. /\ h \in Msg /\ t \in Seq(Msg) /\ Elems(tails[m]) = {h} \cup Elems(t)
        /\ Distinct(t) /\ h \notin Elems(t)
    BY <1>1, <1>4, <2>0, HeadTailElems DEF TypeOK, BatchesOK, BatchOK
  <2>2. /\ kind[m] = "text" /\ BatchOf(m) = {h} \cup Elems(t)
        /\ \A x \in {h} \cup Elems(t) : stage[x] = "held" /\ kind[x] = "text"
    BY <1>1, <1>2, <1>4, <2>1 DEF BatchesOK, BatchOK, TailStage, BatchOf
  <2>3. h # m /\ tails[h] = <<>> /\ members[h] = {} /\ m \notin {h} \cup Elems(t)
    BY <1>1, <1>2, <2>1, <2>2 DEF BatchesOK, BatchOK, Heading, Leading, Batched
  <2>4. stage' = [stage EXCEPT ![m] = "done", ![h] = "dispatch"]
        /\ tails' = [tails EXCEPT ![m] = <<>>, ![h] = t]
    BY <1>4, <2>0 DEF DrainOn
  <2>5. /\ stage'[m] = "done" /\ stage'[h] = "dispatch" /\ tails'[m] = <<>> /\ tails'[h] = t
        /\ \A x \in Msg \ {m, h} : stage'[x] = stage[x] /\ tails'[x] = tails[x]
    BY <1>1, <2>1, <2>3, <2>4 DEF TypeOK
  <2>6. ASSUME NEW l \in Msg, l # m, l # h PROVE BatchOK(l)' /\ BatchOf(l)' = BatchOf(l)
    <3>1. h \notin BatchOf(l) /\ m \notin BatchOf(l)
      <4>1. h \notin BatchOf(l)
        BY <1>1, <2>1, <2>2, <2>6 DEF OneLead
      <4>2. m \notin BatchOf(l)
        BY <1>1, <2>6, BatchStages
      <4>. QED BY <4>1, <4>2
    <3>2. \A x \in BatchOf(l) : stage'[x] = stage[x]
      BY <1>1, <2>5, <3>1, BatchStages
    <3>. QED BY <2>5, <2>6, <3>2, OtherBatch
  <2>7. BatchOK(m)' /\ BatchOf(m)' = {}
    BY <1>2, <2>5, NoElems DEF BatchOK, BatchOf
  <2>8. BatchOK(h)' /\ BatchOf(h)' = Elems(t)
    <3>1. \A x \in Elems(t) : x \in Msg \ {m, h}
      BY <1>1, <2>1, <2>2, <2>3, BatchStages
    <3>2. \A x \in Elems(t) : stage'[x] = "held" /\ kind'[x] = "text"
      BY <2>2, <2>5, <3>1
    <3>3. kind'[h] = "text" /\ stage'[h] \in Heading /\ members'[h] = {}
      BY <2>2, <2>3, <2>5 DEF Heading
    <3>4. \A x : TailStage(h, x)' = "held"
      BY <2>5 DEF TailStage
    <3>. QED BY <2>1, <2>5, <3>2, <3>3, <3>4 DEF BatchOK, BatchOf
  <2>9. OneLead'
    <3>1. ASSUME NEW k \in Msg, NEW l \in Msg, NEW x \in Msg, x \in BatchOf(k)', x \in BatchOf(l)'
          PROVE  k = l
      <4>1. ASSUME NEW j \in Msg, j # m, j # h, x \in BatchOf(j), x \in Elems(t) PROVE FALSE
        BY <1>1, <2>2, <4>1 DEF OneLead
      <4>. QED BY <1>1, <2>6, <2>7, <2>8, <3>1, <4>1 DEF OneLead
    <3>2. ASSUME NEW x \in Msg, stage'[x] \in Batched PROVE \E l \in Msg : x \in BatchOf(l)'
      <4>1. x # m /\ x # h /\ stage[x] \in Batched
        BY <2>5, <3>2 DEF Batched
      <4>2. PICK l \in Msg : x \in BatchOf(l)
        BY <1>1, <4>1 DEF OneLead
      <4>3. l # h
        <5>1. BatchOf(h) = {}
          BY <2>3, NoElems DEF BatchOf
        <5>. QED BY <4>2, <5>1
      <4>4. CASE l = m
        BY <2>1, <2>2, <2>8, <4>1, <4>2, <4>4
      <4>. QED BY <2>6, <4>2, <4>3, <4>4
    <3>. QED BY <3>1, <3>2 DEF OneLead
  <2>10. QueueOK'
    <3>1. \A x \in {m, h} : stage[x] # "queued" /\ stage'[x] # "queued"
      BY <2>2, <2>5
    <3>. QED BY <1>1, <2>5, <3>1, QueueKept
  <2>11. \A l \in Msg : BatchOK(l)'
    BY <2>6, <2>7, <2>8
  <2>. QED BY <2>9, <2>10, <2>11 DEF BatchesOK
<1>. QED BY <1>3, <1>4

\* A drain takes a run of the queue: its first message leads the others.
LEMMA TakePlaces ==
    ASSUME PlaceInv, DrainTake
    PROVE  QueueOK' /\ BatchesOK'
<1>1. TInv /\ QueueOK /\ BatchesOK /\ OneLead /\ TypeOK
  BY DEF PlaceInv, BatchesOK, TInv
<1>2. CASE queue = <<>>
  <2>1. stage' = stage /\ tails' = tails /\ members' = members /\ kind' = kind /\ queue' = queue
    BY <1>2 DEF DrainTake
  <2>2. QueueOK'
    BY <1>1, <2>1, QueueKept
  <2>3. \A l \in Msg : (tails[l] # <<>> => stage[l] \in Heading)
                       /\ (members[l] # {} => stage[l] \in Leading)
    BY <1>1 DEF BatchesOK, BatchOK
  <2>4. BatchesOK'
    BY <1>1, <2>1, <2>3, BatchesKept
  <2>. QED BY <2>2, <2>4
<1>3. CASE queue # <<>>
  <2>1. PICK n \in 1..Len(queue) :
            /\ IsBatch(n) /\ queue' = QueueAfter(n)
            /\ stage' = [Moved(Elems(SubSeq(queue, 2, n)), "held") EXCEPT ![queue[1]] = "dispatch"]
            /\ tails' = [tails EXCEPT ![queue[1]] = SubSeq(queue, 2, n)]
    BY <1>3 DEF DrainTake
  <2>2. PICK h, rest, left : h = queue[1] /\ rest = SubSeq(queue, 2, n)
                             /\ left = SubSeq(queue, n + 1, Len(queue))
    OBVIOUS
  <2>3. /\ h \in Msg /\ rest \in Seq(Msg) /\ left \in Seq(Msg)
        /\ Elems(queue) = {h} \cup Elems(rest) \cup Elems(left)
        /\ Distinct(rest) /\ Distinct(left)
        /\ h \notin Elems(rest) \cup Elems(left) /\ Elems(rest) \cap Elems(left) = {}
        /\ Elems(rest) \subseteq Msg
    BY <1>1, <2>2, CutElems, ElemsType DEF TypeOK, QueueOK
  <2>4. rest # <<>> => kind[h] = "text" /\ \A x \in Elems(rest) : kind[x] = "text"
    <3>1. CASE kind[queue[1]] # "text"
      <4>1. n = 1
        BY <2>1, <3>1 DEF IsBatch
      <4>2. Len(rest) = 0
        BY <1>1, <2>2, <4>1, SubSeqAt DEF TypeOK
      <4>. QED BY <2>3, <4>2
    <3>2. CASE kind[queue[1]] = "text"
      <4>1. \A i \in 1..n : kind[queue[i]] = "text"
        BY <2>1, <3>2 DEF IsBatch
      <4>2. \A i \in 1..Len(rest) : rest[i] = queue[i + 1] /\ i + 1 \in 1..n
        <5>1. Len(rest) = n - 1 /\ \A i \in 1..Len(rest) : rest[i] = queue[2 + i - 1]
          BY <1>1, <2>2, SubSeqAt DEF TypeOK
        <5>2. \A i \in 1..(n - 1) : 2 + i - 1 = i + 1 /\ i + 1 \in 1..n
          OBVIOUS
        <5>. QED BY <5>1, <5>2
      <4>3. \A x \in Elems(rest) : kind[x] = "text"
        BY <4>1, <4>2 DEF Elems
      <4>. QED BY <2>2, <3>2, <4>3
    <3>. QED BY <3>1, <3>2
  <2>5. /\ queue' = left /\ kind' = kind /\ members' = members
        /\ stage'[h] = "dispatch" /\ \A x \in Elems(rest) : stage'[x] = "held"
        /\ \A x \in Msg : x # h /\ x \notin Elems(rest) => stage'[x] = stage[x]
        /\ tails'[h] = rest /\ \A x \in Msg \ {h} : tails'[x] = tails[x]
    <3>1. stage' = [Moved(Elems(rest), "held") EXCEPT ![h] = "dispatch"]
          /\ tails' = [tails EXCEPT ![h] = rest]
      BY <2>1, <2>2
    <3>2. queue' = left /\ kind' = kind /\ members' = members
      BY <2>1, <2>2 DEF QueueAfter, DrainTake
    <3>3. Moved(Elems(rest), "held") = [x \in Msg |-> IF x \in Elems(rest) THEN "held" ELSE stage[x]]
      BY DEF Moved
    <3>4. stage'[h] = "dispatch" /\ tails'[h] = rest
      BY <1>1, <2>3, <3>1, <3>3 DEF TypeOK
    <3>5. \A x \in Msg : x # h => stage'[x] = IF x \in Elems(rest) THEN "held" ELSE stage[x]
      BY <2>3, <3>1, <3>3
    <3>6. \A x \in Msg \ {h} : tails'[x] = tails[x]
      BY <1>1, <2>3, <3>1 DEF TypeOK
    <3>. QED BY <2>3, <3>2, <3>4, <3>5, <3>6
  <2>6. \A x \in {h} \cup Elems(rest) : stage[x] = "queued" /\ tails[x] = <<>> /\ members[x] = {}
    <3>1. \A x \in {h} \cup Elems(rest) : x \in Msg /\ stage[x] = "queued"
      BY <1>1, <2>3 DEF QueueOK
    <3>. QED BY <1>1, <3>1 DEF BatchesOK, BatchOK, Heading, Leading
  <2>7. ASSUME NEW l \in Msg, l # h PROVE BatchOK(l)' /\ BatchOf(l)' = BatchOf(l)
    <3>1. \A x \in BatchOf(l) : x \in Msg /\ stage[x] # "queued"
      BY <1>1, BatchStages
    <3>2. \A x \in BatchOf(l) : stage'[x] = stage[x]
      BY <2>5, <2>6, <3>1
    <3>3. stage'[l] = stage[l] \/ (tails[l] = <<>> /\ members[l] = {})
      BY <2>5, <2>6, <2>7
    <3>4. tails'[l] = tails[l] /\ members'[l] = members[l] /\ kind' = kind
      BY <2>5, <2>7
    <3>. QED BY <3>2, <3>3, <3>4, OtherBatch
  <2>8. BatchOK(h)' /\ BatchOf(h)' = Elems(rest)
    <3>1. stage'[h] \in Heading /\ members'[h] = {} /\ \A x : TailStage(h, x)' = "held"
      BY <2>5, <2>6 DEF Heading, TailStage
    <3>2. tails'[h] = rest /\ Distinct(rest) /\ BatchOf(h)' = Elems(rest)
      BY <2>3, <2>5, <3>1 DEF BatchOf
    <3>3. \A x \in Elems(rest) : stage'[x] = TailStage(h, x)' /\ x \notin members'[h] /\ kind'[x] = "text"
      <4>1. Elems(rest) # {} => rest # <<>>
        BY NoElems
      <4>. QED BY <2>4, <2>5, <3>1, <4>1
    <3>4. rest # <<>> => kind'[h] = "text"
      BY <2>4, <2>5
    <3>. QED BY <3>1, <3>2, <3>3, <3>4 DEF BatchOK
  <2>9. OneLead'
    <3>1. ASSUME NEW k \in Msg, NEW l \in Msg, NEW x \in Msg, x \in BatchOf(k)', x \in BatchOf(l)'
          PROVE  k = l
      <4>1. ASSUME NEW j \in Msg, j # h, x \in BatchOf(j), x \in Elems(rest) PROVE FALSE
        BY <1>1, <2>6, <4>1, BatchStages
      <4>. QED BY <1>1, <2>7, <2>8, <3>1, <4>1 DEF OneLead
    <3>2. ASSUME NEW x \in Msg, stage'[x] \in Batched PROVE \E l \in Msg : x \in BatchOf(l)'
      <4>1. CASE x \in Elems(rest)
        BY <2>3, <2>8, <4>1
      <4>2. CASE x \notin Elems(rest)
        <5>1. x # h /\ stage[x] \in Batched
          BY <2>5, <3>2, <4>2 DEF Batched
        <5>2. PICK l \in Msg : x \in BatchOf(l)
          BY <1>1, <5>1 DEF OneLead
        <5>3. BatchOf(h) = {}
          BY <2>6, NoElems DEF BatchOf
        <5>. QED BY <2>7, <5>2, <5>3
      <4>. QED BY <4>1, <4>2
    <3>. QED BY <3>1, <3>2 DEF OneLead
  <2>10. QueueOK'
    <3>1. \A x \in Msg : (stage'[x] = "queued") = (x \in Elems(left))
      <4>1. \A x \in Msg : (stage[x] = "queued") = (x \in Elems(queue))
        BY <1>1 DEF QueueOK
      <4>. QED BY <2>3, <2>5, <4>1
    <3>. QED BY <2>3, <2>5, <3>1 DEF QueueOK
  <2>11. \A l \in Msg : BatchOK(l)'
    BY <2>7, <2>8
  <2>. QED BY <2>9, <2>10, <2>11 DEF BatchesOK
<1>. QED BY <1>2, <1>3

\* The end of a loop ends all its messages.
LEMMA EndPlaces ==
    ASSUME PlaceInv, NEW lead \in Msg, LoopEnds(lead)
    PROVE  QueueOK' /\ BatchesOK'
<1>1. TInv /\ QueueOK /\ BatchesOK /\ OneLead /\ TypeOK
  BY DEF PlaceInv, BatchesOK, TInv
<1>2. /\ stage[lead] = "settling" /\ stage' = Moved(members[lead], "done")
      /\ members' = [members EXCEPT ![lead] = {}]
      /\ kind' = kind /\ queue' = queue /\ tails' = tails
  BY DEF LoopEnds
<1>3. lead \in members[lead] /\ tails[lead] = <<>> /\ members[lead] \subseteq Msg
  BY <1>1, <1>2 DEF TInv, LeadOK, BatchesOK, BatchOK, Heading, TypeOK
<1>4. BatchOf(lead) = members[lead] \ {lead}
  BY <1>3, NoElems DEF BatchOf
<1>5. \A x \in Msg : stage'[x] = IF x \in members[lead] THEN "done" ELSE stage[x]
  BY <1>2 DEF Moved
<1>6. ASSUME NEW l \in Msg, l # lead PROVE BatchOK(l)' /\ BatchOf(l)' = BatchOf(l)
  <2>1. BatchOf(l) \cap members[lead] = {}
    <3>1. BatchOf(l) \cap BatchOf(lead) = {}
      BY <1>1, <1>6, BatchStages DEF OneLead
    <3>2. lead \notin BatchOf(l)
      BY <1>1, <1>2, <1>6, BatchStages
    <3>. QED BY <1>4, <3>1, <3>2
  <2>2. \A x \in BatchOf(l) : stage'[x] = stage[x]
    BY <1>1, <1>5, <2>1, BatchStages
  <2>3. stage'[l] = stage[l] \/ (tails[l] = <<>> /\ members[l] = {})
    <3>1. CASE l \in members[lead]
      <4>1. stage[l] = "member"
        BY <1>1, <1>2, <1>6, <3>1 DEF BatchesOK, BatchOK, MemberStage
      <4>. QED BY <1>1, <4>1 DEF BatchesOK, BatchOK, Heading, Leading
    <3>2. CASE l \notin members[lead]
      BY <1>5, <3>2
    <3>. QED BY <3>1, <3>2
  <2>4. tails'[l] = tails[l] /\ members'[l] = members[l] /\ kind' = kind
    BY <1>1, <1>2, <1>6 DEF TypeOK
  <2>. QED BY <2>2, <2>3, <2>4, OtherBatch
<1>7. BatchOK(lead)' /\ BatchOf(lead)' = {}
  <2>1. members'[lead] = {} /\ tails'[lead] = <<>>
    BY <1>1, <1>2, <1>3 DEF TypeOK
  <2>. QED BY <2>1, NoElems DEF BatchOK, BatchOf
<1>8. OneLead'
  <2>1. ASSUME NEW x \in Msg, stage'[x] \in Batched PROVE \E l \in Msg : x \in BatchOf(l)'
    <3>1. x \notin members[lead] /\ stage[x] \in Batched
      BY <1>5, <2>1 DEF Batched
    <3>2. PICK l \in Msg : x \in BatchOf(l)
      BY <1>1, <3>1 DEF OneLead
    <3>3. l # lead
      BY <1>4, <3>1, <3>2
    <3>. QED BY <1>6, <3>2, <3>3
  <2>2. \A k, l, x \in Msg : x \in BatchOf(k)' /\ x \in BatchOf(l)' => k = l
    BY <1>1, <1>6, <1>7 DEF OneLead
  <2>. QED BY <2>1, <2>2 DEF OneLead
<1>9. QueueOK'
  <2>1. \A x \in members[lead] : stage[x] # "queued"
    <3>1. \A x \in BatchOf(lead) : stage[x] # "queued"
      BY <1>1, BatchStages
    <3>. QED BY <1>2, <1>4, <3>1
  <2>2. \A x \in Msg : (stage'[x] = "queued") = (stage[x] = "queued")
    BY <1>5, <2>1
  <2>. QED BY <1>1, <1>2, <2>2, QueueKept
<1>10. \A l \in Msg : BatchOK(l)'
  BY <1>6, <1>7
<1>. QED BY <1>8, <1>9, <1>10 DEF BatchesOK

\* What each of the three steps that build a batch hands to Launch or GatherNext.
LEMMA GathersWhere ==
    ASSUME PlaceInv, NEW m \in Msg
    PROVE  /\ stage[m] = "postPersist" => Gathers(m, {m}, {}, <<>>)
           /\ stage[m] = "drainPersist" => Gathers(m, {m}, {}, tails[m])
           /\ stage[m] = "gathering" =>
                /\ Gathers(m, members[m] \cup {Head(tails[m])}, {}, Tail(tails[m]))
                /\ Gathers(m, members[m], {Head(tails[m])}, Tail(tails[m]))
<1>1. TInv /\ BatchesOK /\ TypeOK /\ BatchOK(m) /\ tails[m] \in Seq(Msg)
  BY DEF PlaceInv, BatchesOK, TInv, TypeOK
<1>2. m \notin BatchOf(m) /\ m \notin Elems(tails[m]) /\ Elems(tails[m]) \cap members[m] = {}
  BY <1>1, BatchStages DEF BatchOK
<1>3. ASSUME stage[m] = "postPersist" PROVE Gathers(m, {m}, {}, <<>>)
  <2>1. tails[m] = <<>> /\ members[m] = {}
    BY <1>1, <1>3 DEF BatchOK, Heading, Leading
  <2>2. BatchOf(m) = {}
    BY <2>1, NoElems DEF BatchOf
  <2>. QED BY <1>3, <2>2, NoElems DEF Gathers
<1>4. ASSUME stage[m] = "drainPersist" PROVE Gathers(m, {m}, {}, tails[m])
  <2>1. members[m] = {} /\ BatchOf(m) = Elems(tails[m])
    BY <1>1, <1>4 DEF BatchOK, Leading, BatchOf
  <2>2. \A x \in Elems(tails[m]) : stage[x] = "held" /\ kind[x] = "text"
    BY <1>1, <1>4 DEF BatchOK, TailStage
  <2>3. Distinct(tails[m]) /\ (tails[m] # <<>> => kind[m] = "text")
    BY <1>1 DEF BatchOK
  <2>. QED BY <1>1, <1>2, <1>4, <2>1, <2>2, <2>3 DEF Gathers
<1>5. ASSUME stage[m] = "gathering"
      PROVE  /\ Gathers(m, members[m] \cup {Head(tails[m])}, {}, Tail(tails[m]))
             /\ Gathers(m, members[m], {Head(tails[m])}, Tail(tails[m]))
  <2>1. m \in members[m] /\ tails[m] # <<>>
    BY <1>1, <1>5 DEF TInv, LeadOK
  <2>2. PICK h, rest : h = Head(tails[m]) /\ rest = Tail(tails[m])
    OBVIOUS
  <2>3. /\ h \in Msg /\ rest \in Seq(Msg) /\ Elems(tails[m]) = {h} \cup Elems(rest)
        /\ Distinct(rest) /\ h \notin Elems(rest)
    BY <1>1, <2>1, <2>2, HeadTailElems DEF BatchOK
  <2>4. {m} \cup BatchOf(m) = members[m] \cup {h} \cup Elems(rest)
    BY <2>1, <2>3 DEF BatchOf
  <2>5. \A x \in Elems(rest) : stage[x] = "held" /\ kind[x] = "text"
    BY <1>1, <2>2, <2>3 DEF BatchOK, TailStage
  <2>6. kind[m] = "text"
    BY <1>1, <2>1 DEF BatchOK
  <2>7. h \notin members[m] /\ members[m] \cap Elems(rest) = {}
    BY <1>2, <2>3
  <2>8. Gathers(m, members[m] \cup {h}, {}, rest)
    BY <1>5, <2>1, <2>3, <2>4, <2>5, <2>6, <2>7 DEF Gathers
  <2>9. Gathers(m, members[m], {h}, rest)
    BY <1>5, <2>1, <2>3, <2>4, <2>5, <2>6, <2>7 DEF Gathers
  <2>. QED BY <2>2, <2>8, <2>9
<1>. QED BY <1>3, <1>4, <1>5

\* One message that leads no batch, or stays the lead of its batch, moves.
LEMMA OneMoves ==
    ASSUME PlaceInv, NEW m \in Msg, NEW st, stage' = Moved({m}, st),
           kind' = kind, tails' = tails, members' = members,
           stage[m] \notin Batched \cup {"gathering"}, st \notin Batched \cup {"gathering"},
           tails[m] # <<>> => st \in Heading,
           members[m] # {} => st \in Leading
    PROVE  /\ BatchesOK'
           /\ queue' = queue /\ stage[m] # "queued" /\ st # "queued" => QueueOK'
<1>1. TInv /\ QueueOK /\ BatchesOK /\ \A l \in Msg : BatchOK(l)
  BY DEF PlaceInv, BatchesOK
<1>2. stage'[m] = st /\ \A x \in Msg : x # m => stage'[x] = stage[x]
  BY DEF Moved
<1>3. \A x \in Msg :
          /\ stage[x] \in Batched \/ stage'[x] \in Batched => stage'[x] = stage[x]
          /\ (stage[x] = "gathering") = (stage'[x] = "gathering")
          /\ tails[x] # <<>> => stage'[x] \in Heading
          /\ members[x] # {} => stage'[x] \in Leading
  <2>. SUFFICES ASSUME NEW x \in Msg
               PROVE  /\ stage[x] \in Batched \/ stage'[x] \in Batched => stage'[x] = stage[x]
                      /\ (stage[x] = "gathering") = (stage'[x] = "gathering")
                      /\ tails[x] # <<>> => stage'[x] \in Heading
                      /\ members[x] # {} => stage'[x] \in Leading
    OBVIOUS
  <2>1. CASE x = m
    BY <1>2, <2>1
  <2>2. CASE x # m
    BY <1>1, <1>2, <2>2 DEF BatchOK
  <2>. QED BY <2>1, <2>2
<1>4. BatchesOK'
  BY <1>1, <1>3, BatchesKept
<1>5. ASSUME queue' = queue, stage[m] # "queued", st # "queued" PROVE QueueOK'
  <2>1. \A x \in Msg : (stage'[x] = "queued") = (stage[x] = "queued")
    BY <1>2, <1>5
  <2>. QED BY <1>1, <1>5, <2>1, QueueKept
<1>. QED BY <1>4, <1>5

\* A message outside the heads and leads has no batch.
LEMMA LeadsNone ==
    ASSUME PlaceInv, NEW m \in Msg
    PROVE  /\ stage[m] \notin Heading => tails[m] = <<>>
           /\ stage[m] \notin Leading => members[m] = {}
           /\ kind[m] # "text" => tails[m] = <<>>
BY DEF PlaceInv, BatchesOK, BatchOK

\* Nothing is queued or batched at the start.
LEMMA InitPlaceInv == Init => PlaceInv
<1>. SUFFICES ASSUME Init PROVE PlaceInv
  OBVIOUS
<1>1. queue = <<>> /\ \A l \in Msg : stage[l] = "new" /\ tails[l] = <<>> /\ members[l] = {}
  BY DEF Init
<1>2. Distinct(queue) /\ Elems(queue) = {}
  BY <1>1, NoElems
<1>3. \A l \in Msg : Elems(tails[l]) = {} /\ Distinct(tails[l])
  BY <1>1, NoElems
<1>4. QueueOK
  BY <1>1, <1>2 DEF QueueOK
<1>5. \A l \in Msg : BatchOK(l) /\ BatchOf(l) = {}
  BY <1>1, <1>3 DEF BatchOK, BatchOf
<1>6. OneLead
  BY <1>1, <1>5 DEF OneLead, Batched
<1>. QED BY <1>4, <1>5, <1>6, InitTInv DEF PlaceInv, BatchesOK

\* A message that arrives is queued, refused, or takes the idle conversation.
LEMMA PostPlaces ==
    ASSUME PlaceInv, NEW m \in Msg, Post(m)
    PROVE  QueueOK' /\ BatchesOK'
<1>1. stage[m] = "new" /\ kind' = kind /\ tails' = tails /\ members' = members
  BY DEF Post
<1>2. tails[m] = <<>> /\ members[m] = {}
  BY <1>1, LeadsNone DEF Heading, Leading
<1>3. CASE processing /\ Fits(m)
  <2>1. queue' = Append(queue, m) /\ stage' = Moved({m}, "queued")
    BY <1>3 DEF Post, Enqueue
  <2>2. BatchesOK'
    BY <1>1, <1>2, <2>1, OneMoves DEF Batched
  <2>3. queue \in Seq(Msg) /\ QueueOK
    BY DEF PlaceInv, TInv, TypeOK
  <2>4. m \notin Elems(queue)
    BY <1>1, <2>3 DEF QueueOK
  <2>5. Distinct(queue') /\ Elems(queue') = Elems(queue) \cup {m}
    BY <2>1, <2>3, <2>4, AppendElems DEF QueueOK
  <2>6. \A x \in Msg : stage'[x] = IF x = m THEN "queued" ELSE stage[x]
    BY <2>1 DEF Moved
  <2>. QED BY <2>2, <2>3, <2>5, <2>6 DEF QueueOK
<1>4. CASE processing /\ ~Fits(m)
  <2>1. queue' = queue /\ stage' = Moved({m}, "done")
    BY <1>4 DEF Post, Enqueue
  <2>. QED BY <1>1, <1>2, <2>1, OneMoves DEF Batched
<1>5. CASE ~processing
  <2>1. PICK st \in {"checked", "compactSave", "postPersist"} :
            queue' = queue /\ stage' = Moved({m}, st)
    BY <1>5 DEF Post, StartIdle
  <2>. QED BY <1>1, <1>2, <2>1, OneMoves DEF Batched
<1>. QED BY <1>3, <1>4, <1>5

\* A cancel empties the queue; no queued message belongs to a batch.
LEMMA AbortPlaces ==
    ASSUME PlaceInv, Abort
    PROVE  QueueOK' /\ BatchesOK'
<1>1. TInv /\ QueueOK /\ BatchesOK /\ \A l \in Msg : BatchOK(l)
  BY DEF PlaceInv, BatchesOK
<1>2. /\ kind' = kind /\ tails' = tails /\ members' = members /\ queue' = <<>>
      /\ \A x \in Msg : stage'[x] = IF x \in Elems(queue) THEN "done" ELSE stage[x]
  BY DEF Abort, QueueAfterAbort, Moved
<1>3. \A x \in Msg : stage'[x] = IF stage[x] = "queued" THEN "done" ELSE stage[x]
  BY <1>1, <1>2 DEF QueueOK
<1>4. \A x \in Msg :
          /\ stage[x] \in Batched \/ stage'[x] \in Batched => stage'[x] = stage[x]
          /\ (stage[x] = "gathering") = (stage'[x] = "gathering")
          /\ tails[x] # <<>> => stage'[x] \in Heading
          /\ members[x] # {} => stage'[x] \in Leading
  BY <1>1, <1>3 DEF BatchOK, Batched, Heading, Leading
<1>5. BatchesOK'
  BY <1>1, <1>2, <1>4, BatchesKept
<1>6. QueueOK'
  <2>1. Distinct(queue') /\ Elems(queue') = {}
    BY <1>2, NoElems
  <2>. QED BY <1>3, <2>1 DEF QueueOK
<1>. QED BY <1>5, <1>6

\* A deleted message leaves the queue, and the queue keeps the others.
LEMMA DeletePlaces ==
    ASSUME PlaceInv, NEW m \in Msg, DeleteQueued(m)
    PROVE  QueueOK' /\ BatchesOK'
<1>1. queue \in Seq(Msg) /\ QueueOK
  BY DEF PlaceInv, TInv, TypeOK
<1>2. PICK i \in 1..Len(queue) :
          queue[i] = m /\ queue' = SubSeq(queue, 1, i - 1) \o SubSeq(queue, i + 1, Len(queue))
  BY DEF DeleteQueued, QueueWithout
<1>3. Distinct(queue') /\ Elems(queue') = Elems(queue) \ {m}
  BY <1>1, <1>2, WithoutElems DEF QueueOK
<1>4. stage' = Moved({m}, "done") /\ kind' = kind /\ tails' = tails /\ members' = members
  BY DEF DeleteQueued
<1>5. stage[m] = "queued"
  BY <1>1, <1>2 DEF QueueOK, Elems
<1>6. BatchesOK'
  <2>1. tails[m] = <<>> /\ members[m] = {}
    BY <1>5, LeadsNone DEF Heading, Leading
  <2>. QED BY <1>4, <1>5, <2>1, OneMoves DEF Batched
<1>7. \A x \in Msg : stage'[x] = IF x = m THEN "done" ELSE stage[x]
  BY <1>4 DEF Moved
<1>. QED BY <1>1, <1>3, <1>6, <1>7 DEF QueueOK

\* Every step keeps every message in its place.
LEMMA NextPlaceInv == PlaceInv /\ [Next]_vars => PlaceInv'
<1>. SUFFICES ASSUME PlaceInv, [Next]_vars PROVE QueueOK' /\ BatchesOK'
  BY NextTInv DEF PlaceInv
<1>1. ASSUME NEW m \in Msg, Post(m) PROVE QueueOK' /\ BatchesOK'
  BY <1>1, PostPlaces
<1>2. ASSUME NEW m \in Msg, PostPersisted(m) PROVE QueueOK' /\ BatchesOK'
  <2>1. /\ stage[m] = "postPersist" /\ Launch(m, {m}, {}, {}, FALSE)
        /\ kind' = kind /\ queue' = queue
    BY <1>2 DEF PostPersisted
  <2>2. Gathers(m, {m}, {}, <<>>)
    BY <2>1, GathersWhere
  <2>. QED BY <2>1, <2>2, NoElems, LaunchPlaces
<1>3. ASSUME NEW m \in Msg, PostPersistFails(m) PROVE QueueOK' /\ BatchesOK'
  <2>1. /\ stage[m] = "postPersist" /\ stage' = Moved({m}, "done")
        /\ kind' = kind /\ queue' = queue /\ tails' = tails /\ members' = members
    BY <1>3 DEF PostPersistFails
  <2>2. tails[m] = <<>> /\ members[m] = {}
    BY <2>1, LeadsNone DEF Heading, Leading
  <2>. QED BY <2>1, <2>2, OneMoves DEF Batched
<1>4. ASSUME NEW m \in Msg, DispatchCommand(m) PROVE QueueOK' /\ BatchesOK'
  <2>1. PICK st \in {"drainCommand", "drainCompact"} : stage' = Moved({m}, st)
    BY <1>4 DEF DispatchCommand
  <2>2. /\ stage[m] = "dispatch" /\ kind[m] # "text"
        /\ kind' = kind /\ queue' = queue /\ tails' = tails /\ members' = members
    BY <1>4 DEF DispatchCommand
  <2>3. tails[m] = <<>> /\ members[m] = {}
    BY <2>2, LeadsNone DEF Leading
  <2>. QED BY <2>1, <2>2, <2>3, OneMoves DEF Batched
<1>5. ASSUME NEW m \in Msg, DispatchText(m) PROVE QueueOK' /\ BatchesOK'
  <2>1. stage[m] = "dispatch" /\ kind' = kind /\ queue' = queue /\ members' = members
    BY <1>5 DEF DispatchText
  <2>2. CASE MayClaim
    <3>1. stage' = Moved({m}, "drainPersist") /\ tails' = tails
      BY <1>5, <2>2 DEF DispatchText
    <3>2. members[m] = {}
      BY <2>1, LeadsNone DEF Leading
    <3>. QED BY <2>1, <3>1, <3>2, OneMoves DEF Batched, Heading
  <2>3. CASE ~MayClaim
    <3>1. DrainOn(m)
      BY <1>5, <2>3 DEF DispatchText
    <3>. QED BY <2>1, <3>1, DrainOnPlaces
  <2>. QED BY <2>2, <2>3
<1>6. ASSUME NEW m \in Msg, DrainPersisted(m) PROVE QueueOK' /\ BatchesOK'
  <2>1. /\ stage[m] = "drainPersist" /\ GatherNext(m, {m}, {}, tails[m], Aborted)
        /\ kind' = kind /\ queue' = queue
    BY <1>6 DEF DrainPersisted
  <2>2. Gathers(m, {m}, {}, tails[m])
    BY <2>1, GathersWhere
  <2>. QED BY <2>1, <2>2, GatherPlaces
<1>7. ASSUME NEW m \in Msg, DrainPersistFails(m) PROVE QueueOK' /\ BatchesOK'
  BY <1>7, DrainOnPlaces DEF DrainPersistFails
<1>8. ASSUME NEW m \in Msg, TailPersisted(m) PROVE QueueOK' /\ BatchesOK'
  <2>1. PICK S, rest : S = members[m] \cup {Head(tails[m])} /\ rest = Tail(tails[m])
    OBVIOUS
  <2>2. /\ stage[m] = "gathering" /\ GatherNext(m, S, {}, rest, Aborted)
        /\ kind' = kind /\ queue' = queue
    BY <1>8, <2>1 DEF TailPersisted
  <2>3. Gathers(m, S, {}, rest)
    BY <2>1, <2>2, GathersWhere
  <2>. QED BY <2>2, <2>3, GatherPlaces
<1>9. ASSUME NEW m \in Msg, TailPersistFails(m) PROVE QueueOK' /\ BatchesOK'
  <2>1. PICK failed, rest : failed = {Head(tails[m])} /\ rest = Tail(tails[m])
    OBVIOUS
  <2>2. /\ stage[m] = "gathering" /\ GatherNext(m, members[m], failed, rest, FALSE)
        /\ kind' = kind /\ queue' = queue
    BY <1>9, <2>1 DEF TailPersistFails, Surviving
  <2>3. Gathers(m, members[m], failed, rest)
    BY <2>1, <2>2, GathersWhere
  <2>. QED BY <2>2, <2>3, GatherPlaces
<1>10. ASSUME NEW m \in Msg, LoopYields(m) \/ LoopAnswers(m) PROVE QueueOK' /\ BatchesOK'
  <2>1. PICK st \in {"yielding", "settling"} : stage' = Moved({m}, st)
    BY <1>10 DEF LoopYields, LoopAnswers
  <2>2. /\ stage[m] \in {"looping", "yielding"}
        /\ kind' = kind /\ queue' = queue /\ tails' = tails /\ members' = members
    BY <1>10 DEF LoopYields, LoopAnswers
  <2>3. tails[m] = <<>>
    BY <2>2, LeadsNone DEF Heading
  <2>. QED BY <2>1, <2>2, <2>3, OneMoves DEF Batched, Leading
<1>11. ASSUME NEW m \in Msg, LoopEnds(m) PROVE QueueOK' /\ BatchesOK'
  BY <1>11, EndPlaces
<1>12. ASSUME NEW m \in Msg,
              \/ CommandStarts(m) \/ CommandEnds(m) \/ CompactSaved(m) \/ CompactSaveFails(m)
              \/ CompactEnds(m) \/ DrainedCommandEnds(m)
       PROVE  QueueOK' /\ BatchesOK'
  <2>1. PICK st \in {"command", "compacting", "done"} : stage' = Moved({m}, st)
    BY <1>12 DEF CommandStarts, CommandEnds, CompactSaved, CompactSaveFails, CompactEnds,
                 DrainedCommandEnds
  <2>2. /\ stage[m] \in {"checked", "command", "compactSave", "compacting", "drainCommand",
                         "drainCompact"}
        /\ kind' = kind /\ queue' = queue /\ tails' = tails /\ members' = members
    BY <1>12 DEF CommandStarts, CommandEnds, CompactSaved, CompactSaveFails, CompactEnds,
                 DrainedCommandEnds
  <2>3. tails[m] = <<>> /\ members[m] = {}
    BY <2>2, LeadsNone DEF Heading, Leading
  <2>. QED BY <2>1, <2>2, <2>3, OneMoves DEF Batched
<1>13. ASSUME NEW m \in Msg, DeleteQueued(m) PROVE QueueOK' /\ BatchesOK'
  BY <1>13, DeletePlaces
<1>14. CASE DrainTake
  BY <1>14, TakePlaces
<1>15. CASE Abort
  BY <1>15, AbortPlaces
<1>16. CASE WakeStarts \/ WakeEnds \/ UNCHANGED vars
  <2>1. UNCHANGED <<kind, queue, stage, tails, members>>
    BY <1>16 DEF WakeStarts, WakeEnds, vars
  <2>2. \A l \in Msg : (tails[l] # <<>> => stage[l] \in Heading)
                       /\ (members[l] # {} => stage[l] \in Leading)
    BY DEF PlaceInv, BatchesOK, BatchOK
  <2>. QED BY <2>1, <2>2, BatchesKept, QueueKept DEF PlaceInv
<1>. QED
  BY <1>1, <1>2, <1>3, <1>4, <1>5, <1>6, <1>7, <1>8, <1>9, <1>10, <1>11, <1>12, <1>13,
     <1>14, <1>15, <1>16
  DEF Next, Step

\* Whatever is sent, fails or is aborted, every message is in exactly one place.
THEOREM InOnePlaceHolds == Spec => []InOnePlace
<1>1. ASSUME PlaceInv PROVE InOnePlace
  <2>1. TInv /\ QueueOK /\ BatchesOK /\ OneLead /\ \A l \in Msg : BatchOK(l)
    BY <1>1 DEF PlaceInv, BatchesOK
  <2>2. ASSUME NEW m \in Msg, stage[m] \in Batched
        PROVE  Cardinality({l \in Msg \ {m} : m \in members[l] \cup Elems(tails[l])}) = 1
    <3>1. PICK l \in Msg : m \in BatchOf(l)
      BY <2>1, <2>2 DEF OneLead
    <3>2. \A k \in Msg \ {m} : m \in BatchOf(k) <=> m \in members[k] \cup Elems(tails[k])
      BY DEF BatchOf
    <3>3. l # m
      BY <2>1, <3>1, BatchStages
    <3>4. {k \in Msg \ {m} : m \in members[k] \cup Elems(tails[k])} = {l}
      BY <2>1, <3>1, <3>2, <3>3 DEF OneLead
    <3>. QED BY <3>4, FS_Singleton
  <2>3. \A l \in Msg : Elems(tails[l]) \cap members[l] = {}
    BY <2>1 DEF BatchOK
  <2>. QED BY <2>1, <2>2, <2>3 DEF InOnePlace, QueueOK, Distinct
<1>. QED BY InitPlaceInv, NextPlaceInv, <1>1, PTL DEF Spec
-----------------------------------------------------------------------------
(* At most one terminal event *)

\* The turn of m has sent its terminal event and is settling.
MidTurn(m) == \E lead \in Msg : stage[lead] = "settling" /\ m \in members[lead]

\* Nothing more is due to the client of m.
Settled(m) == stage[m] = "done" \/ MidTurn(m)

\* What a step does for the client of m: nothing, its terminal event, or (a turn the
\* HTTP route fails to start, which is only logged) an end without an event.
Kept(m) == answers'[m] = answers[m] /\ Settled(m)' = Settled(m)
Told(m) == ~Settled(m) /\ Settled(m)' /\ Len(answers'[m]) = Len(answers[m]) + 1
LeftUntold(m) ==
    /\ stage[m] = "postPersist" /\ controller = None
    /\ answers'[m] = answers[m] /\ ~Settled(m)

\* Only members of a turn and messages that are over are settled.
LEMMA NotSettled ==
    ASSUME PlaceInv, NEW m \in Msg, stage[m] \notin {"done", "settling", "member"}
    PROVE  ~Settled(m)
<1>1. ASSUME NEW l \in Msg, stage[l] = "settling", m \in members[l] PROVE FALSE
  BY <1>1 DEF PlaceInv, BatchesOK, BatchOK, MemberStage
<1>. QED BY <1>1 DEF Settled, MidTurn

\* A step that tells the messages it finishes, and begins and ends no settling.
LEMMA Tells ==
    ASSUME PlaceInv, NEW D \in SUBSET Msg, NEW o, (answers' = answers /\ D = {}) \/ Tell(D, o),
           \A l \in Msg : /\ (stage'[l] = "settling") = (stage[l] = "settling")
                          /\ stage[l] = "settling" => members'[l] = members[l],
           \A x \in Msg : (stage'[x] = "done") = (stage[x] = "done" \/ x \in D),
           \A x \in D : stage[x] \notin {"done", "settling", "member"}
    PROVE  \A x \in Msg : Kept(x) \/ Told(x)
<1>. SUFFICES ASSUME NEW x \in Msg PROVE Kept(x) \/ Told(x)
  OBVIOUS
<1>1. MidTurn(x)' = MidTurn(x)
  BY DEF MidTurn
<1>2. CASE x \in D
  <2>1. ~Settled(x) /\ Settled(x)'
    BY <1>2, NotSettled DEF Settled
  <2>2. answers'[x] = Append(answers[x], o)
    BY <1>2 DEF Tell
  <2>3. answers[x] \in Seq(Outcomes)
    BY DEF PlaceInv, TInv, TypeOK
  <2>4. Len(answers'[x]) = Len(answers[x]) + 1
    BY <2>2, <2>3
  <2>. QED BY <2>1, <2>4 DEF Told
<1>3. CASE x \notin D
  <2>1. answers'[x] = answers[x]
    BY <1>3 DEF Tell
  <2>2. Settled(x)' = Settled(x)
    BY <1>1, <1>3 DEF Settled
  <2>. QED BY <2>1, <2>2 DEF Kept
<1>. QED BY <1>2, <1>3

\* A message that moves alone, told at its end or not told and not ended.
LEMMA MoveTells ==
    ASSUME PlaceInv, NEW m \in Msg, NEW st, stage' = Moved({m}, st), NEW o,
           members' = members,
           stage[m] \notin {"done", "settling", "member"}, st # "settling",
           IF st = "done" THEN Tell({m}, o) ELSE answers' = answers
    PROVE  \A x \in Msg : Kept(x) \/ Told(x)
<1>1. \A x \in Msg : stage'[x] = IF x = m THEN st ELSE stage[x]
  BY DEF Moved
<1>2. CASE st = "done"
  BY <1>1, <1>2, Tells
<1>3. CASE st # "done"
  <2>1. \A l \in Msg : /\ (stage'[l] = "settling") = (stage[l] = "settling")
                       /\ stage[l] = "settling" => members'[l] = members[l]
    BY <1>1
  <2>2. PICK D \in SUBSET Msg : D = {}
    OBVIOUS
  <2>3. \A x \in Msg : (stage'[x] = "done") = (stage[x] = "done" \/ x \in D)
    BY <1>1, <1>3, <2>2
  <2>4. \A x \in D : stage[x] \notin {"done", "settling", "member"}
    BY <2>2
  <2>5. answers' = answers
    BY <1>3
  <2>. QED BY <2>1, <2>2, <2>3, <2>4, <2>5, Tells
<1>. QED BY <1>2, <1>3

\* Starting a loop tells the tails that failed, and all of a drained batch whose
\* loop is refused.
LEMMA LaunchTells ==
    ASSUME PlaceInv, NEW lead \in Msg, NEW S, NEW failed, NEW rest, NEW drained,
           Gathers(lead, S, failed, rest), Launch(lead, S, Elems(rest), failed, drained),
           drained \in BOOLEAN, drained \/ controller # None
    PROVE  \A x \in Msg : Kept(x) \/ Told(x)
<1>1. TInv /\ BatchesOK /\ TypeOK
  BY DEF PlaceInv, TInv
<1>2. PICK D : D = failed \cup IF controller = None /\ drained THEN S ELSE {}
  OBVIOUS
<1>3. Tell(D, "error")
  BY <1>2 DEF Launch
<1>4. \A x \in {lead} \cup BatchOf(lead) :
          /\ x \in Msg /\ stage[x] \notin {"done", "settling", "member"}
          /\ (stage'[x] = "done") = (x \in D) /\ stage'[x] # "settling"
  <2>1. \A x \in BatchOf(lead) : x \in Msg /\ stage[x] \in {"held", "tailPersist"}
    <3>1. \A x \in Elems(tails[lead]) : stage[x] \in {"held", "tailPersist"}
      BY <1>1 DEF BatchesOK, BatchOK, TailStage
    <3>2. \A x \in members[lead] \ {lead} : stage[x] = "held"
      BY <1>1 DEF Gathers, BatchesOK, BatchOK, MemberStage, Leading
    <3>. QED BY <1>1, <3>1, <3>2, BatchStages DEF BatchOf
  <2>2. \A x \in failed : x \in D /\ stage'[x] = "done"
    BY <1>2, LaunchMoves
  <2>3. \A x \in Elems(rest) : x \notin D /\ stage'[x] = "dropped"
    BY <1>2, LaunchMoves DEF Gathers
  <2>4. \A x \in S : IF controller = None THEN stage'[x] = "done" /\ x \in D
                     ELSE stage'[x] \in {"looping", "member"} /\ x \notin D
    BY <1>2, LaunchMoves DEF Gathers
  <2>5. \A x \in {lead} \cup BatchOf(lead) : (stage'[x] = "done") = (x \in D) /\ stage'[x] # "settling"
    BY <2>2, <2>3, <2>4 DEF Gathers
  <2>. QED BY <2>1, <2>5 DEF Gathers
<1>5. \A x \in Msg : x \notin {lead} \cup BatchOf(lead) => stage'[x] = stage[x] /\ x \notin D
  BY <1>2, LaunchMoves DEF Gathers
<1>6. \A l \in Msg \ {lead} : members'[l] = members[l]
  BY <1>1, LaunchMoves DEF TypeOK
<1>7. D \in SUBSET Msg
  BY <1>2, <1>4 DEF Gathers
<1>8. \A l \in Msg : /\ (stage'[l] = "settling") = (stage[l] = "settling")
                     /\ stage[l] = "settling" => members'[l] = members[l]
  BY <1>4, <1>5, <1>6
<1>9. \A x \in Msg : (stage'[x] = "done") = (stage[x] = "done" \/ x \in D)
  BY <1>4, <1>5
<1>10. \A x \in D : stage[x] \notin {"done", "settling", "member"}
  BY <1>4, <1>5, <1>7
<1>. QED BY <1>3, <1>7, <1>8, <1>9, <1>10, Tells

\* Persisting the next tail tells the one that failed.
LEMMA GatherTells ==
    ASSUME PlaceInv, NEW lead \in Msg, NEW S, NEW failed, NEW rest, NEW stop,
           Gathers(lead, S, failed, rest), GatherNext(lead, S, failed, rest, stop)
    PROVE  \A x \in Msg : Kept(x) \/ Told(x)
<1>0. CASE rest = <<>> \/ stop
  BY <1>0, LaunchTells DEF GatherNext
<1>. SUFFICES ASSUME rest # <<>>, ~stop PROVE \A x \in Msg : Kept(x) \/ Told(x)
  BY <1>0
<1>1. TInv /\ BatchesOK /\ TypeOK /\ Tell(failed, "error")
  BY DEF PlaceInv, TInv, GatherNext
<1>2. \A x \in BatchOf(lead) : x \in Msg /\ stage[x] \in {"held", "tailPersist"}
  <2>1. \A x \in Elems(tails[lead]) : stage[x] \in {"held", "tailPersist"}
    BY <1>1 DEF BatchesOK, BatchOK, TailStage
  <2>2. \A x \in members[lead] \ {lead} : stage[x] = "held"
    BY <1>1 DEF Gathers, BatchesOK, BatchOK, MemberStage, Leading
  <2>. QED BY <1>1, <2>1, <2>2, BatchStages DEF BatchOf
<1>3. \A x \in {lead} \cup BatchOf(lead) : (stage'[x] = "done") = (x \in failed) /\ stage'[x] # "settling"
  <2>1. \A x \in failed : stage'[x] = "done"
    BY GatherMoves
  <2>2. \A x \in Elems(rest) : x \notin failed /\ stage'[x] \in {"tailPersist", "held"}
    BY GatherMoves DEF Gathers
  <2>3. \A x \in S : x \notin failed /\ stage'[x] \in {"gathering", "held"}
    BY GatherMoves DEF Gathers
  <2>. QED BY <2>1, <2>2, <2>3 DEF Gathers
<1>4. \A x \in Msg : x \notin {lead} \cup BatchOf(lead) => stage'[x] = stage[x] /\ x \notin failed
  BY GatherMoves DEF Gathers
<1>5. \A l \in Msg \ {lead} : members'[l] = members[l]
  BY <1>1, GatherMoves DEF TypeOK
<1>6. failed \in SUBSET Msg /\ stage[lead] \notin {"done", "settling", "member"}
  BY <1>2 DEF Gathers
<1>7. \A l \in Msg : /\ (stage'[l] = "settling") = (stage[l] = "settling")
                     /\ stage[l] = "settling" => members'[l] = members[l]
  BY <1>2, <1>3, <1>4, <1>5, <1>6
<1>8. \A x \in Msg : (stage'[x] = "done") = (stage[x] = "done" \/ x \in failed)
  BY <1>2, <1>3, <1>4, <1>6
<1>9. \A x \in failed : stage[x] \notin {"done", "settling", "member"}
  BY <1>2, <1>4, <1>6
<1>. QED BY <1>1, <1>6, <1>7, <1>8, <1>9, Tells

\* A failed head is told, and the message its batch passes to is not.
LEMMA DrainOnTells ==
    ASSUME PlaceInv, NEW m \in Msg, stage[m] \in {"dispatch", "drainPersist"}, DrainOn(m),
           members' = members, Tell({m}, "error")
    PROVE  \A x \in Msg : Kept(x) \/ Told(x)
<1>1. \A x \in Msg : (stage'[x] = "done") = (stage[x] = "done" \/ x \in {m})
  BY DrainOnMoves
<1>2. \A l \in Msg : (stage'[l] = "settling") = (stage[l] = "settling")
  BY DrainOnMoves
<1>. QED BY <1>1, <1>2, Tells

\* The one terminal event of a loop reaches every member of its turn.
LEMMA LoopTells ==
    ASSUME PlaceInv, NEW m \in Msg, LoopAnswers(m)
    PROVE  \A x \in Msg : Kept(x) \/ Told(x)
<1>1. TInv /\ BatchesOK /\ OneLead /\ TypeOK /\ members[m] \subseteq Msg
  BY DEF PlaceInv, BatchesOK, TInv, TypeOK
<1>2. PICK o : Tell(members[m], o)
  BY DEF LoopAnswers
<1>3. /\ stage[m] \in {"looping", "yielding"} /\ members' = members
      /\ \A x \in Msg : stage'[x] = IF x = m THEN "settling" ELSE stage[x]
  BY DEF LoopAnswers, Moved
<1>. SUFFICES ASSUME NEW x \in Msg PROVE Kept(x) \/ Told(x)
  OBVIOUS
<1>4. CASE x \in members[m]
  <2>1. stage[x] = "member" \/ x = m
    BY <1>1, <1>3, <1>4 DEF BatchesOK, BatchOK, MemberStage
  <2>2. ASSUME NEW l \in Msg, stage[l] = "settling", x \in members[l] PROVE FALSE
    <3>1. l # m /\ l # x
      BY <1>3, <2>1, <2>2
    <3>2. stage[x] = "member"
      BY <1>1, <2>2, <3>1 DEF BatchesOK, BatchOK, MemberStage
    <3>3. x # m
      BY <1>3, <3>2
    <3>. QED BY <1>1, <1>4, <2>2, <3>1, <3>3 DEF OneLead, BatchOf
  <2>3. ~Settled(x)
    BY <1>3, <2>1, <2>2 DEF Settled, MidTurn
  <2>4. Settled(x)'
    BY <1>3, <1>4 DEF Settled, MidTurn
  <2>5. answers'[x] = Append(answers[x], o) /\ answers[x] \in Seq(Outcomes)
    BY <1>1, <1>2, <1>4 DEF Tell, TypeOK
  <2>6. Len(answers'[x]) = Len(answers[x]) + 1
    BY <2>5
  <2>. QED BY <2>3, <2>4, <2>6 DEF Told
<1>5. CASE x \notin members[m]
  <2>1. x # m
    BY <1>1, <1>3, <1>5 DEF TInv, LeadOK
  <2>2. answers'[x] = answers[x]
    BY <1>2, <1>5 DEF Tell
  <2>3. MidTurn(x)' = MidTurn(x)
    BY <1>3, <1>5 DEF MidTurn
  <2>. QED BY <1>3, <2>1, <2>2, <2>3 DEF Kept, Settled
<1>. QED BY <1>4, <1>5

\* The end of a loop tells nobody again.
LEMMA EndTells ==
    ASSUME PlaceInv, NEW m \in Msg, LoopEnds(m)
    PROVE  \A x \in Msg : Kept(x)
<1>1. TInv /\ BatchesOK /\ TypeOK
  BY DEF PlaceInv, TInv
<1>2. /\ stage[m] = "settling" /\ members' = [members EXCEPT ![m] = {}] /\ answers' = answers
      /\ \A x \in Msg : stage'[x] = IF x \in members[m] THEN "done" ELSE stage[x]
  BY DEF LoopEnds, Moved
<1>3. m \in members[m]
  BY <1>1, <1>2 DEF TInv, LeadOK
<1>4. \A l \in Msg \ {m} : members'[l] = members[l]
                           /\ (stage'[l] = "settling") = (stage[l] = "settling")
  BY <1>1, <1>2 DEF TypeOK, BatchesOK, BatchOK, MemberStage
<1>5. ASSUME NEW x \in Msg PROVE Settled(x)' = Settled(x)
  <2>1. CASE x \in members[m]
    BY <1>2, <2>1 DEF Settled, MidTurn
  <2>2. CASE x \notin members[m]
    <3>1. stage'[m] # "settling"
      BY <1>2, <1>3
    <3>2. MidTurn(x)' = MidTurn(x)
      BY <1>2, <1>4, <2>2, <3>1 DEF MidTurn
    <3>. QED BY <1>2, <2>2, <3>2 DEF Settled
  <2>. QED BY <2>1, <2>2
<1>. QED BY <1>2, <1>5 DEF Kept

\* A message that is posted is told when the queue rejects it, and only then.
LEMMA PostTells ==
    ASSUME PlaceInv, NEW m \in Msg, Post(m)
    PROVE  \A x \in Msg : Kept(x) \/ Told(x)
<1>1. stage[m] = "new" /\ members' = members
  BY DEF Post
<1>2. CASE processing /\ ~Fits(m)
  <2>1. stage' = Moved({m}, "done") /\ Tell({m}, "rejected")
    BY <1>2 DEF Post, Enqueue
  <2>. QED BY <1>1, <2>1, MoveTells
<1>3. CASE ~(processing /\ ~Fits(m))
  <2>1. PICK st \in {"queued", "checked", "compactSave", "postPersist"} :
            stage' = Moved({m}, st) /\ answers' = answers
    BY <1>3 DEF Post, Enqueue, StartIdle
  <2>. QED BY <1>1, <2>1, MoveTells
<1>. QED BY <1>2, <1>3

\* A cancel tells what is queued.
LEMMA AbortTells ==
    ASSUME PlaceInv, Abort
    PROVE  \A x \in Msg : Kept(x) \/ Told(x)
<1>1. QueueOK /\ queue \in Seq(Msg)
  BY DEF PlaceInv, TInv, TypeOK
<1>2. PICK D : D = Elems(queue)
  OBVIOUS
<1>3. D \in SUBSET Msg /\ \A x \in Msg : (x \in D) = (stage[x] = "queued")
  BY <1>1, <1>2, ElemsType DEF QueueOK
<1>4. /\ Tell(D, "cancelled") /\ members' = members
      /\ \A x \in Msg : stage'[x] = IF x \in D THEN "done" ELSE stage[x]
  BY <1>2 DEF Abort, Moved
<1>. QED BY <1>3, <1>4, Tells

\* Every step tells each client at most once, and never one whose message is settled.
LEMMA NextTells ==
    ASSUME PlaceInv, [Next]_vars
    PROVE  \A x \in Msg : Kept(x) \/ Told(x) \/ LeftUntold(x)
<1>1. ASSUME NEW m \in Msg, Post(m) PROVE \A x \in Msg : Kept(x) \/ Told(x)
  BY <1>1, PostTells
<1>2. ASSUME NEW m \in Msg, PostPersisted(m)
      PROVE  \A x \in Msg : Kept(x) \/ Told(x) \/ LeftUntold(x)
  <2>1. stage[m] = "postPersist" /\ Launch(m, {m}, {}, {}, FALSE)
    BY <1>2 DEF PostPersisted
  <2>2. Gathers(m, {m}, {}, <<>>) /\ Elems(<<>>) = {}
    BY <2>1, GathersWhere, NoElems
  <2>3. CASE controller # None
    BY <2>1, <2>2, <2>3, LaunchTells
  <2>4. CASE controller = None
    <3>1. \A x \in Msg : stage'[x] = IF x = m THEN "done" ELSE stage[x]
      BY <2>1, <2>4 DEF Launch
    <3>2. answers' = answers
      BY <2>1, <2>4 DEF Launch, Tell, PlaceInv, TInv, TypeOK
    <3>3. members' = [members EXCEPT ![m] = {}] /\ members \in [Msg -> SUBSET Msg]
      BY <2>1, <2>4 DEF Launch, PlaceInv, TInv, TypeOK
    <3>4. \A x \in Msg : MidTurn(x)' = MidTurn(x)
      BY <2>1, <3>1, <3>3 DEF MidTurn
    <3>5. \A x \in Msg \ {m} : Kept(x)
      BY <3>1, <3>2, <3>4 DEF Kept, Settled
    <3>6. LeftUntold(m)
      BY <2>1, <2>4, <3>2, NotSettled DEF LeftUntold
    <3>. QED BY <3>5, <3>6
  <2>. QED BY <2>3, <2>4
<1>3. ASSUME NEW m \in Msg, PostPersistFails(m) PROVE \A x \in Msg : Kept(x) \/ Told(x)
  BY <1>3, MoveTells DEF PostPersistFails
<1>4. ASSUME NEW m \in Msg, DispatchCommand(m) PROVE \A x \in Msg : Kept(x) \/ Told(x)
  <2>1. PICK st \in {"drainCommand", "drainCompact"} : stage' = Moved({m}, st)
    BY <1>4 DEF DispatchCommand
  <2>. QED BY <1>4, <2>1, MoveTells DEF DispatchCommand
<1>5. ASSUME NEW m \in Msg, DispatchText(m) PROVE \A x \in Msg : Kept(x) \/ Told(x)
  <2>1. stage[m] = "dispatch" /\ members' = members
    BY <1>5 DEF DispatchText
  <2>2. CASE MayClaim
    <3>1. stage' = Moved({m}, "drainPersist") /\ answers' = answers
      BY <1>5, <2>2 DEF DispatchText
    <3>. QED BY <2>1, <3>1, MoveTells
  <2>3. CASE ~MayClaim
    BY <1>5, <2>1, <2>3, DrainOnTells DEF DispatchText
  <2>. QED BY <2>2, <2>3
<1>6. ASSUME NEW m \in Msg, DrainPersisted(m) PROVE \A x \in Msg : Kept(x) \/ Told(x)
  <2>1. stage[m] = "drainPersist" /\ GatherNext(m, {m}, {}, tails[m], Aborted)
    BY <1>6 DEF DrainPersisted
  <2>. QED BY <2>1, GathersWhere, GatherTells
<1>7. ASSUME NEW m \in Msg, DrainPersistFails(m) PROVE \A x \in Msg : Kept(x) \/ Told(x)
  BY <1>7, DrainOnTells DEF DrainPersistFails
<1>8. ASSUME NEW m \in Msg, TailPersisted(m) PROVE \A x \in Msg : Kept(x) \/ Told(x)
  <2>1. PICK S, rest : S = members[m] \cup {Head(tails[m])} /\ rest = Tail(tails[m])
    OBVIOUS
  <2>2. stage[m] = "gathering" /\ GatherNext(m, S, {}, rest, Aborted)
    BY <1>8, <2>1 DEF TailPersisted
  <2>3. Gathers(m, S, {}, rest)
    BY <2>1, <2>2, GathersWhere
  <2>. QED BY <2>2, <2>3, GatherTells
<1>9. ASSUME NEW m \in Msg, TailPersistFails(m) PROVE \A x \in Msg : Kept(x) \/ Told(x)
  <2>1. PICK failed, rest : failed = {Head(tails[m])} /\ rest = Tail(tails[m])
    OBVIOUS
  <2>2. stage[m] = "gathering" /\ GatherNext(m, members[m], failed, rest, FALSE)
    BY <1>9, <2>1 DEF TailPersistFails, Surviving
  <2>3. Gathers(m, members[m], failed, rest)
    BY <2>1, <2>2, GathersWhere
  <2>. QED BY <2>2, <2>3, GatherTells
<1>10. ASSUME NEW m \in Msg, LoopYields(m) PROVE \A x \in Msg : Kept(x) \/ Told(x)
  <2>1. PICK st \in {"yielding"} : stage' = Moved({m}, st)
    BY <1>10 DEF LoopYields
  <2>2. stage[m] = "looping" /\ members' = members /\ answers' = answers
    BY <1>10 DEF LoopYields
  <2>. QED BY <2>1, <2>2, MoveTells
<1>11. ASSUME NEW m \in Msg, LoopAnswers(m) PROVE \A x \in Msg : Kept(x) \/ Told(x)
  BY <1>11, LoopTells
<1>12. ASSUME NEW m \in Msg, LoopEnds(m) PROVE \A x \in Msg : Kept(x)
  BY <1>12, EndTells
<1>13. ASSUME NEW m \in Msg, CommandStarts(m) \/ CompactSaved(m)
       PROVE  \A x \in Msg : Kept(x) \/ Told(x)
  <2>1. PICK st \in {"command", "compacting"} : stage' = Moved({m}, st)
    BY <1>13 DEF CommandStarts, CompactSaved
  <2>2. stage[m] \in {"checked", "compactSave"} /\ members' = members /\ answers' = answers
    BY <1>13 DEF CommandStarts, CompactSaved
  <2>. QED BY <2>1, <2>2, MoveTells
<1>14. ASSUME NEW m \in Msg,
              CommandEnds(m) \/ CompactSaveFails(m) \/ CompactEnds(m) \/ DrainedCommandEnds(m)
       PROVE  \A x \in Msg : Kept(x) \/ Told(x)
  <2>1. PICK o : Tell({m}, o)
    BY <1>14 DEF CommandEnds, CompactSaveFails, CompactEnds, DrainedCommandEnds
  <2>2. /\ stage' = Moved({m}, "done") /\ members' = members
        /\ stage[m] \in {"command", "compactSave", "compacting", "drainCommand", "drainCompact"}
    BY <1>14 DEF CommandEnds, CompactSaveFails, CompactEnds, DrainedCommandEnds
  <2>. QED BY <2>1, <2>2, MoveTells
<1>15. ASSUME NEW m \in Msg, DeleteQueued(m) PROVE \A x \in Msg : Kept(x) \/ Told(x)
  <2>1. stage' = Moved({m}, "done") /\ members' = members /\ Tell({m}, "deleted")
        /\ m \in Elems(queue)
    BY <1>15 DEF DeleteQueued, Elems
  <2>2. stage[m] = "queued"
    BY <2>1 DEF PlaceInv, QueueOK
  <2>. QED BY <2>1, <2>2, MoveTells
<1>16. CASE DrainTake
  <2>1. members' = members /\ answers' = answers
    BY <1>16 DEF DrainTake
  <2>2. \A x \in Msg : \/ stage'[x] = stage[x]
                         \/ (stage[x] = "queued" /\ stage'[x] \in {"dispatch", "held"})
    <3>1. CASE queue = <<>>
      <4>1. stage' = stage
        BY <1>16, <3>1 DEF DrainTake
      <4>. QED BY <4>1
    <3>2. CASE queue # <<>>
      <4>1. PICK h \in Msg, rest \in Seq(Msg) :
                /\ stage'[h] = "dispatch"
                /\ \A x \in Elems(rest) : stage'[x] = "held"
                /\ \A x \in Msg : x # h /\ x \notin Elems(rest) => stage'[x] = stage[x]
                /\ \A x \in {h} \cup Elems(rest) : stage[x] = "queued"
        BY <1>16, <3>2, TakeMoves
      <4>. QED BY <4>1
    <3>. QED BY <3>1, <3>2
  <2>3. \A x \in Msg : Settled(x)' = Settled(x)
    BY <2>1, <2>2 DEF Settled, MidTurn
  <2>. QED BY <2>1, <2>3 DEF Kept
<1>17. CASE Abort
  BY <1>17, AbortTells
<1>18. CASE WakeStarts \/ WakeEnds \/ UNCHANGED vars
  <2>1. UNCHANGED <<stage, members, answers>>
    BY <1>18 DEF WakeStarts, WakeEnds, vars
  <2>. QED BY <2>1 DEF Kept, Settled, MidTurn
<1>. QED
  BY <1>1, <1>2, <1>3, <1>4, <1>5, <1>6, <1>7, <1>8, <1>9, <1>10, <1>11, <1>12, <1>13,
     <1>14, <1>15, <1>16, <1>17, <1>18
  DEF Next, Step

\* Until a message is settled its client has heard nothing, and then at most once.
AtMostOnce == \A m \in Msg : Len(answers[m]) <= IF Settled(m) THEN 1 ELSE 0

\* Whatever overlaps, fails or is aborted, no client gets a second terminal event.
THEOREM AnsweredAtMostOnceHolds == Spec => []AnsweredAtMostOnce
<1>1. Init => AtMostOnce
  BY DEF Init, AtMostOnce
<1>2. ASSUME PlaceInv, AtMostOnce, [Next]_vars PROVE AtMostOnce'
  <2>. SUFFICES ASSUME NEW m \in Msg
                PROVE  Len(answers'[m]) <= IF Settled(m)' THEN 1 ELSE 0
    BY DEF AtMostOnce
  <2>1. Len(answers[m]) \in Nat /\ Len(answers[m]) <= IF Settled(m) THEN 1 ELSE 0
    BY <1>2 DEF AtMostOnce, PlaceInv, TInv, TypeOK
  <2>2. Kept(m) \/ Told(m) \/ LeftUntold(m)
    BY <1>2, NextTells
  <2>3. CASE Kept(m)
    BY <2>1, <2>3 DEF Kept
  <2>4. CASE Told(m)
    BY <2>1, <2>4 DEF Told
  <2>5. CASE LeftUntold(m)
    BY <2>1, <2>5 DEF LeftUntold
  <2>. QED BY <2>2, <2>3, <2>4, <2>5
<1>3. PlaceInv /\ AtMostOnce => AnsweredAtMostOnce
  <2>. SUFFICES ASSUME PlaceInv, AtMostOnce, NEW m \in Msg PROVE Len(answers[m]) <= 1
    BY DEF AnsweredAtMostOnce
  <2>1. Len(answers[m]) \in Nat /\ Len(answers[m]) <= IF Settled(m) THEN 1 ELSE 0
    BY DEF AtMostOnce, PlaceInv, TInv, TypeOK
  <2>. QED BY <2>1
<1>. QED BY InitPlaceInv, NextPlaceInv, <1>1, <1>2, <1>3, PTL DEF Spec
-----------------------------------------------------------------------------
(* Nothing is stranded *)

\* Stages of a message whose turn holds, or would hold, an abort controller.
Turning == {"postPersist", "drainPersist"} \cup Leading
\* Stages of a slash command that holds the conversation.
Commanding == {"command", "compactSave", "compacting"}

\* Starting a loop moves only the messages of its batch, and captures the controller.
LEMMA LaunchStays ==
    ASSUME PlaceInv, NEW lead \in Msg, NEW S, NEW failed, NEW rest, NEW drained,
           Gathers(lead, S, failed, rest), Launch(lead, S, Elems(rest), failed, drained)
    PROVE  /\ \A x \in Msg : x # lead /\ stage[x] \notin Batched => stage'[x] = stage[x]
           /\ \A x \in Msg : x # lead /\ stage'[x] # stage[x] => stage'[x] \in Batched \cup Finished
           /\ \/ stage'[lead] = "looping"
              \/ (stage'[lead] = "done" /\ controller = None)
           /\ ctl' = [ctl EXCEPT ![lead] = controller]
           /\ \A x \in Msg : stage'[x] = "dropped" /\ stage[x] # "dropped" => rest # <<>>
           /\ \E D : Tell(D, "error")
<1>1. \A x \in BatchOf(lead) : stage[x] \in Batched
  BY BatchStages DEF PlaceInv, Batched
<1>2. \A x \in Msg : x # lead /\ stage[x] \notin Batched => stage'[x] = stage[x]
  BY <1>1, LaunchMoves
<1>3. \A x \in Msg \ {lead} :
          \/ stage'[x] = stage[x]
          \/ stage'[x] \in {"member", "done"}
          \/ (stage'[x] = "dropped" /\ x \in Elems(rest))
  <2>1. \A x \in {lead} \cup BatchOf(lead) : x \in S \/ x \in failed \/ x \in Elems(rest)
    BY DEF Gathers
  <2>. QED BY <2>1, LaunchMoves
<1>4. \A x \in Msg : x # lead /\ stage'[x] # stage[x] => stage'[x] \in Batched \cup Finished
  BY <1>3 DEF Batched, Finished
<1>5. \/ stage'[lead] = "looping"
      \/ (stage'[lead] = "done" /\ controller = None)
  BY LaunchMoves
<1>6. \A x \in Msg : stage'[x] = "dropped" /\ stage[x] # "dropped" => rest # <<>>
  BY <1>3, <1>5, NoElems
<1>. QED BY <1>2, <1>4, <1>5, <1>6 DEF Launch

\* So does persisting the next tail; only a stop gives up tails.
LEMMA GatherStays ==
    ASSUME PlaceInv, NEW lead \in Msg, NEW S, NEW failed, NEW rest, NEW stop,
           Gathers(lead, S, failed, rest), GatherNext(lead, S, failed, rest, stop)
    PROVE  /\ \A x \in Msg : x # lead /\ stage[x] \notin Batched => stage'[x] = stage[x]
           /\ \A x \in Msg : x # lead /\ stage'[x] # stage[x] => stage'[x] \in Batched \cup Finished
           /\ \/ stage'[lead] \in {"gathering", "looping"}
              \/ (stage'[lead] = "done" /\ controller = None)
           /\ \/ ctl' = [ctl EXCEPT ![lead] = controller]
              \/ (ctl' = ctl /\ stage'[lead] = "gathering")
           /\ \A x \in Msg : stage'[x] = "dropped" /\ stage[x] # "dropped" => stop
           /\ \E D : Tell(D, "error")
<1>1. CASE rest = <<>> \/ stop
  <2>1. Launch(lead, S, Elems(rest), failed, TRUE)
    BY <1>1 DEF GatherNext
  <2>. QED BY <1>1, <2>1, LaunchStays
<1>2. CASE ~(rest = <<>> \/ stop)
  <2>1. \A x \in BatchOf(lead) : stage[x] \in Batched
    BY BatchStages DEF PlaceInv, Batched
  <2>2. \A x \in Msg : x # lead /\ stage[x] \notin Batched => stage'[x] = stage[x]
    BY <1>2, <2>1, GatherMoves
  <2>3. \A x \in Msg \ {lead} : stage'[x] \in {stage[x], "done", "held", "tailPersist"}
    <3>1. \A x \in {lead} \cup BatchOf(lead) : x \in S \/ x \in failed \/ x \in Elems(rest)
      BY DEF Gathers
    <3>. QED BY <1>2, <3>1, GatherMoves
  <2>4. \A x \in Msg : x # lead /\ stage'[x] # stage[x] => stage'[x] \in Batched \cup Finished
    BY <2>3 DEF Batched, Finished
  <2>5. stage'[lead] = "gathering" /\ ctl' = ctl /\ Tell(failed, "error")
    BY <1>2, GatherMoves DEF GatherNext
  <2>. QED BY <2>2, <2>3, <2>4, <2>5
<1>. QED BY <1>1, <1>2

\* The four steps that build a batch.
Builds(m) == PostPersisted(m) \/ DrainPersisted(m) \/ TailPersisted(m) \/ TailPersistFails(m)

\* The lead stays a turn or was refused, nobody outside a batch moves, tails are given
\* up only when the turn was aborted, and only errors are told.
LEMMA BuildStays ==
    ASSUME PlaceInv, NEW m \in Msg, Builds(m)
    PROVE  /\ stage[m] \in {"postPersist", "drainPersist", "gathering"}
           /\ \A x \in Msg : x # m /\ stage[x] \notin Batched => stage'[x] = stage[x]
           /\ \A x \in Msg : x # m /\ stage'[x] # stage[x] => stage'[x] \in Batched \cup Finished
           /\ \/ stage'[m] \in {"gathering", "looping"}
              \/ (stage'[m] = "done" /\ controller = None)
           /\ \/ ctl' = [ctl EXCEPT ![m] = controller]
              \/ (ctl' = ctl /\ stage'[m] = "gathering")
           /\ \A x \in Msg : stage'[x] = "dropped" /\ stage[x] # "dropped" => Aborted
           /\ \E D : Tell(D, "error")
           /\ UNCHANGED <<kind, processing, controller, aborted, queue, drains, wake>>
<1>1. CASE PostPersisted(m)
  <2>1. stage[m] = "postPersist" /\ Launch(m, {m}, {}, {}, FALSE)
    BY <1>1 DEF PostPersisted
  <2>2. Gathers(m, {m}, {}, <<>>) /\ Elems(<<>>) = {}
    BY <2>1, GathersWhere, NoElems
  <2>. QED BY <1>1, <2>1, <2>2, LaunchStays DEF PostPersisted
<1>2. CASE DrainPersisted(m)
  <2>1. stage[m] = "drainPersist" /\ GatherNext(m, {m}, {}, tails[m], Aborted)
    BY <1>2 DEF DrainPersisted
  <2>2. Gathers(m, {m}, {}, tails[m])
    BY <2>1, GathersWhere
  <2>. QED BY <1>2, <2>1, <2>2, GatherStays DEF DrainPersisted
<1>3. CASE TailPersisted(m)
  <2>1. PICK S, rest : S = members[m] \cup {Head(tails[m])} /\ rest = Tail(tails[m])
    OBVIOUS
  <2>2. stage[m] = "gathering" /\ GatherNext(m, S, {}, rest, Aborted)
    BY <1>3, <2>1 DEF TailPersisted
  <2>3. Gathers(m, S, {}, rest)
    BY <2>1, <2>2, GathersWhere
  <2>. QED BY <1>3, <2>2, <2>3, GatherStays DEF TailPersisted
<1>4. CASE TailPersistFails(m)
  <2>1. PICK failed, rest : failed = {Head(tails[m])} /\ rest = Tail(tails[m])
    OBVIOUS
  <2>2. stage[m] = "gathering" /\ GatherNext(m, members[m], failed, rest, FALSE)
    BY <1>4, <2>1 DEF TailPersistFails, Surviving
  <2>3. Gathers(m, members[m], failed, rest)
    BY <2>1, <2>2, GathersWhere
  <2>. QED BY <1>4, <2>2, <2>3, GatherStays DEF TailPersistFails
<1>. QED BY <1>1, <1>2, <1>3, <1>4 DEF Builds

\* The steps that move m alone, from a stage to one of some others.
Hops(m, from, to) == stage[m] \in from /\ stage' \in {Moved({m}, st) : st \in to}

\* Nobody else moves.
LEMMA HopsAlone ==
    ASSUME NEW m \in Msg, NEW from, NEW to, Hops(m, from, to)
    PROVE  stage'[m] \in to /\ \A x \in Msg \ {m} : stage'[x] = stage[x]
BY DEF Hops, Moved

\* A turn ends only when the controller is given up with it, and a message that is
\* over stays over.
LEMMA TurnGoesOn ==
    ASSUME PlaceInv, [Next]_vars, NEW x \in Msg
    PROVE  /\ stage[x] \in Turning => \/ stage'[x] \in Turning
                                      \/ (stage'[x] = "done" /\ controller' = None)
           /\ stage[x] \in Finished => stage'[x] = stage[x]
<1> DEFINE Goal == /\ stage[x] \in Turning => \/ stage'[x] \in Turning
                                              \/ (stage'[x] = "done" /\ controller' = None)
                   /\ stage[x] \in Finished => stage'[x] = stage[x]
<1>st. /\ Turning = {"postPersist", "drainPersist", "gathering", "looping", "yielding", "settling"}
       /\ Finished = {"done", "dropped"}
  BY DEF Turning, Leading, Finished
<1>1. ASSUME NEW m \in Msg, Post(m) PROVE Goal
  <2>1. Hops(m, {"new"}, {"queued", "done", "checked", "compactSave", "postPersist"})
    BY <1>1 DEF Post, Enqueue, StartIdle, Hops
  <2>2. stage[m] = "new"
    BY <2>1 DEF Hops
  <2>. QED BY <1>st, <2>1, <2>2, HopsAlone
<1>2. ASSUME NEW m \in Msg, Builds(m) PROVE Goal
  BY <1>2, <1>st, BuildStays DEF Batched
<1>3. ASSUME NEW m \in Msg, PostPersistFails(m) PROVE Goal
  <2>1. Hops(m, {"postPersist"}, {"done"}) /\ controller' = None /\ stage[m] = "postPersist"
    BY <1>3 DEF PostPersistFails, Hops
  <2>. QED BY <1>st, <2>1, HopsAlone
<1>4. ASSUME NEW m \in Msg, DispatchCommand(m) PROVE Goal
  <2>1. Hops(m, {"dispatch"}, {"drainCommand", "drainCompact"}) /\ stage[m] = "dispatch"
    BY <1>4 DEF DispatchCommand, Hops
  <2>. QED BY <1>st, <2>1, HopsAlone
<1>5. ASSUME NEW m \in Msg, DispatchText(m) PROVE Goal
  <2>1. CASE MayClaim
    <3>1. Hops(m, {"dispatch"}, {"drainPersist"}) /\ stage[m] = "dispatch"
      BY <1>5, <2>1 DEF DispatchText, Hops
    <3>. QED BY <1>st, <3>1, HopsAlone
  <2>2. CASE ~MayClaim
    <3>1. stage[m] = "dispatch" /\ DrainOn(m)
      BY <1>5, <2>2 DEF DispatchText
    <3>. QED BY <1>st, <3>1, DrainOnMoves
  <2>. QED BY <2>1, <2>2
<1>6. ASSUME NEW m \in Msg, DrainPersistFails(m) PROVE Goal
  <2>1. stage[m] = "drainPersist" /\ DrainOn(m) /\ controller' = None
    BY <1>6 DEF DrainPersistFails
  <2>. QED BY <1>st, <2>1, DrainOnMoves
<1>7. ASSUME NEW m \in Msg, LoopYields(m) \/ LoopAnswers(m) PROVE Goal
  <2>1. Hops(m, {"looping", "yielding"}, {"yielding", "settling"}) /\ stage[m] \in {"looping", "yielding"}
    BY <1>7 DEF LoopYields, LoopAnswers, Hops
  <2>. QED BY <1>st, <2>1, HopsAlone
<1>8. ASSUME NEW m \in Msg, LoopEnds(m) PROVE Goal
  <2>1. /\ controller' = None
        /\ \A y \in Msg : stage'[y] = IF y \in members[m] THEN "done" ELSE stage[y]
    BY <1>8 DEF LoopEnds, Moved
  <2>2. \A y \in members[m] : stage[y] \in {"settling", "member"}
    BY <1>8 DEF LoopEnds, PlaceInv, BatchesOK, BatchOK, MemberStage
  <2>. QED BY <1>st, <2>1, <2>2
<1>9. ASSUME NEW m \in Msg,
             \/ CommandStarts(m) \/ CommandEnds(m) \/ CompactSaved(m) \/ CompactSaveFails(m)
             \/ CompactEnds(m) \/ DrainedCommandEnds(m)
      PROVE  Goal
  <2>1. Hops(m, {"checked", "command", "compactSave", "compacting", "drainCommand", "drainCompact"},
             {"command", "compacting", "done"})
    BY <1>9 DEF CommandStarts, CommandEnds, CompactSaved, CompactSaveFails, CompactEnds,
                DrainedCommandEnds, Hops
  <2>2. stage[m] \in {"checked", "command", "compactSave", "compacting", "drainCommand", "drainCompact"}
    BY <2>1 DEF Hops
  <2>. QED BY <1>st, <2>1, <2>2, HopsAlone
<1>10. ASSUME NEW m \in Msg, DeleteQueued(m) PROVE Goal
  <2>1. m \in Elems(queue) /\ stage' = Moved({m}, "done")
    BY <1>10 DEF DeleteQueued, Elems
  <2>2. stage[m] = "queued" /\ Hops(m, {"queued"}, {"done"})
    BY <2>1 DEF PlaceInv, QueueOK, Hops
  <2>. QED BY <1>st, <2>2, HopsAlone
<1>11. CASE DrainTake
  <2>1. CASE queue = <<>>
    <3>1. stage' = stage
      BY <1>11, <2>1 DEF DrainTake
    <3>. QED BY <3>1
  <2>2. CASE queue # <<>>
    <3>1. PICK h \in Msg, rest \in Seq(Msg) :
              /\ \A y \in Msg : y # h /\ y \notin Elems(rest) => stage'[y] = stage[y]
              /\ \A y \in {h} \cup Elems(rest) : stage[y] = "queued"
      BY <1>11, <2>2, TakeMoves
    <3>. QED BY <1>st, <3>1
  <2>. QED BY <2>1, <2>2
<1>12. CASE Abort
  <2>1. \A y \in Msg : stage'[y] = IF y \in Elems(queue) THEN "done" ELSE stage[y]
    BY <1>12 DEF Abort, Moved
  <2>2. \A y \in Msg : y \in Elems(queue) => stage[y] = "queued"
    BY DEF PlaceInv, QueueOK
  <2>. QED BY <1>st, <2>1, <2>2
<1>13. CASE WakeStarts \/ WakeEnds \/ UNCHANGED vars
  <2>1. stage' = stage
    BY <1>13 DEF WakeStarts, WakeEnds, vars
  <2>. QED BY <2>1
<1>. QED
  BY <1>1, <1>2, <1>3, <1>4, <1>5, <1>6, <1>7, <1>8, <1>9, <1>10, <1>11, <1>12, <1>13
  DEF Next, Step, Builds

\* The controller is kept, given up, or made by the turn that claims the idle
\* conversation.
LEMMA ControllerMoves ==
    ASSUME [Next]_vars
    PROVE  \/ controller' \in {controller, None}
           \/ \E m \in Msg : controller' = m /\ stage'[m] \in {"postPersist", "drainPersist"}
<1> DEFINE Goal == \/ controller' \in {controller, None}
                   \/ \E m \in Msg : controller' = m /\ stage'[m] \in {"postPersist", "drainPersist"}
<1>1. ASSUME NEW m \in Msg, Post(m) PROVE Goal
  <2>1. CASE processing
    BY <1>1, <2>1 DEF Post, Enqueue
  <2>2. CASE ~processing /\ kind[m] \in {"text", "solo"}
    <3>1. controller' = m /\ stage' = Moved({m}, "postPersist")
      BY <1>1, <2>2 DEF Post, StartIdle
    <3>. QED BY <3>1 DEF Moved
  <2>3. CASE ~processing /\ kind[m] \notin {"text", "solo"}
    BY <1>1, <2>3 DEF Post, StartIdle
  <2>. QED BY <2>1, <2>2, <2>3
<1>2. ASSUME NEW m \in Msg, DispatchText(m) PROVE Goal
  BY <1>2 DEF DispatchText, Moved
<1>3. CASE \/ \E m \in Msg : (\/ PostPersisted(m)   \/ PostPersistFails(m)
                              \/ DispatchCommand(m)
                              \/ DrainPersisted(m)  \/ DrainPersistFails(m)
                              \/ TailPersisted(m)   \/ TailPersistFails(m)
                              \/ LoopYields(m)      \/ LoopAnswers(m)       \/ LoopEnds(m)
                              \/ CommandStarts(m)   \/ CommandEnds(m)
                              \/ CompactSaved(m)    \/ CompactSaveFails(m)  \/ CompactEnds(m)
                              \/ DrainedCommandEnds(m) \/ DeleteQueued(m))
           \/ DrainTake \/ Abort \/ WakeStarts \/ WakeEnds \/ UNCHANGED vars
  BY <1>3
  DEF PostPersisted, PostPersistFails, DispatchCommand,
      DrainPersisted, DrainPersistFails, TailPersisted, TailPersistFails, LoopYields,
      LoopAnswers, LoopEnds, CommandStarts, CommandEnds, CompactSaved, CompactSaveFails,
      CompactEnds, DrainedCommandEnds, DeleteQueued, DrainTake, Abort, WakeStarts,
      WakeEnds, vars
<1>. QED BY <1>1, <1>2, <1>3 DEF Next, Step

\* The controller is always that of a turn under way.
ControllerTurns == controller # None => stage[controller] \in Turning

\* Every step keeps it so.
LEMMA NextControllerTurns ==
    ASSUME PlaceInv, ControllerTurns, [Next]_vars
    PROVE  ControllerTurns'
<1>1. controller \in Msg \cup {None}
  BY DEF PlaceInv, TInv, TypeOK
<1>2. CASE controller' = controller
  BY <1>1, <1>2, TurnGoesOn DEF ControllerTurns
<1>3. CASE controller' = None
  BY <1>3 DEF ControllerTurns
<1>4. CASE \E m \in Msg : controller' = m /\ stage'[m] \in {"postPersist", "drainPersist"}
  BY <1>4 DEF ControllerTurns, Turning
<1>. QED BY <1>2, <1>3, <1>4, ControllerMoves

\* What waits has a drain coming when `processing` does not hold it back, and
\* `processing` is set for a wake, a command or a turn.
Drained ==
    /\ queue # <<>> /\ ~processing => drains > 0 \/ \E m \in Msg : stage[m] \in Draining
    /\ processing /\ controller = None => wake \/ \E m \in Msg : stage[m] \in Commanding

\* A step that leaves queue, flags and drains alone and moves m between stages that
\* neither drain nor command.
LEMMA DrainedKept ==
    ASSUME Drained, queue' = queue \/ queue' = <<>> \/ queue # <<>>,
           processing' = processing, controller' = controller,
           drains' = drains, wake' = wake,
           \A x \in Msg : /\ stage[x] \in Draining => stage'[x] \in Draining
                          /\ stage[x] \in Commanding => stage'[x] \in Commanding
    PROVE  Drained'
<1>1. ASSUME queue' # <<>>, ~processing' PROVE drains' > 0 \/ \E m \in Msg : stage'[m] \in Draining
  BY <1>1 DEF Drained
<1>2. ASSUME processing', controller' = None PROVE wake' \/ \E m \in Msg : stage'[m] \in Commanding
  BY <1>2 DEF Drained
<1>. QED BY <1>1, <1>2 DEF Drained

\* A step that gives the conversation back and drains.
LEMMA DrainedAgain ==
    ASSUME ~processing', drains' > 0 \/ \E m \in Msg : stage'[m] \in Draining
    PROVE  Drained'
BY DEF Drained

\* A step after which the conversation is held.
LEMMA DrainedHeld ==
    ASSUME processing', controller' # None \/ wake' \/ \E m \in Msg : stage'[m] \in Commanding
    PROVE  Drained'
BY DEF Drained

\* Unless a first write fails (PostPersistFails gives the conversation back without
\* draining, CompactSaveFails keeps it for nobody), every step keeps a drain coming.
LEMMA NextDrained ==
    ASSUME {"post", "compact"} \cap FailSites = {}, PlaceInv, Drained, [Next]_vars
    PROVE  Drained'
<1>ty. drains \in Nat /\ TypeOK
  BY DEF PlaceInv, TInv, TypeOK
<1>st. /\ Draining = {"dispatch", "drainCommand", "drainCompact"}
       /\ Commanding = {"command", "compactSave", "compacting"}
  BY DEF Draining, Commanding
<1>1. ASSUME NEW m \in Msg, Post(m) PROVE Drained'
  <2>0. stage[m] = "new" /\ drains' = drains /\ wake' = wake
    BY <1>1 DEF Post
  <2>1. CASE processing
    <3>1. PICK st \in {"queued", "done"} : stage' = Moved({m}, st)
      BY <1>1, <2>1 DEF Post, Enqueue
    <3>2. processing' = processing /\ controller' = controller
      BY <1>1, <2>1 DEF Post, Enqueue
    <3>3. \A x \in Msg : stage[x] \in Commanding => stage'[x] \in Commanding
      BY <1>st, <2>0, <3>1 DEF Moved
    <3>. QED BY <2>0, <2>1, <3>2, <3>3 DEF Drained
  <2>2. CASE ~processing /\ kind[m] \in {"text", "solo"}
    <3>1. processing' /\ controller' = m
      BY <1>1, <2>2 DEF Post, StartIdle
    <3>. QED BY <3>1, NoneAssumption, DrainedHeld
  <2>3. CASE ~processing /\ kind[m] = "compact"
    <3>1. processing' /\ stage' = Moved({m}, "compactSave")
      BY <1>1, <2>3 DEF Post, StartIdle
    <3>2. stage'[m] \in Commanding
      BY <1>st, <3>1 DEF Moved
    <3>. QED BY <3>1, <3>2, DrainedHeld
  <2>4. CASE ~processing /\ kind[m] = "command"
    <3>0. processing = FALSE /\ processing' = (kind[m] # "command" \/ processing)
      BY <1>1, <1>ty, <2>4 DEF Post, StartIdle, TypeOK
    <3>1. processing' = processing /\ controller' = controller /\ queue' = queue
          /\ stage' = Moved({m}, "checked")
      BY <1>1, <2>4, <3>0 DEF Post, StartIdle
    <3>2. \A x \in Msg : x # m => stage'[x] = stage[x]
      BY <3>1 DEF Moved
    <3>. QED BY <1>st, <2>0, <3>1, <3>2, DrainedKept
  <2>5. kind[m] \in {"text", "solo", "command", "compact"}
    BY <1>ty, KindsAssumption DEF TypeOK, AllKinds
  <2>. QED BY <2>1, <2>2, <2>3, <2>4, <2>5
<1>2. ASSUME NEW m \in Msg, Builds(m) PROVE Drained'
  <2>1. \A x \in Msg : stage[x] \in Draining \cup Commanding => stage'[x] = stage[x]
    BY <1>2, <1>st, BuildStays DEF Batched
  <2>2. UNCHANGED <<queue, processing, controller, drains, wake>>
    BY <1>2, BuildStays
  <2>. QED BY <2>1, <2>2, DrainedKept
<1>3. ASSUME NEW m \in Msg, PostPersistFails(m) \/ CompactSaveFails(m) PROVE Drained'
  BY <1>3 DEF PostPersistFails, CompactSaveFails
<1>4. ASSUME NEW m \in Msg, DispatchCommand(m) PROVE Drained'
  <2>1. Hops(m, {"dispatch"}, {"drainCommand", "drainCompact"}) /\ stage[m] = "dispatch"
    BY <1>4 DEF DispatchCommand, Hops
  <2>2. \A x \in Msg : /\ stage[x] \in Draining => stage'[x] \in Draining
                       /\ stage[x] \in Commanding => stage'[x] \in Commanding
    BY <1>st, <2>1, HopsAlone
  <2>3. UNCHANGED <<queue, processing, controller, drains, wake>>
    BY <1>4 DEF DispatchCommand
  <2>. QED BY <2>2, <2>3, DrainedKept
<1>5. ASSUME NEW m \in Msg, DispatchText(m) PROVE Drained'
  <2>1. CASE MayClaim
    <3>1. processing' /\ controller' = m
      BY <1>5, <2>1 DEF DispatchText
    <3>. QED BY <3>1, NoneAssumption, DrainedHeld
  <2>2. CASE ~MayClaim
    <3>1. processing /\ processing' = processing /\ controller' = controller /\ wake' = wake
      BY <1>5, <2>2 DEF DispatchText, MayClaim
    <3>2. stage[m] = "dispatch" /\ DrainOn(m)
      BY <1>5, <2>2 DEF DispatchText
    <3>3. \A x \in Msg : stage[x] \in Commanding => stage'[x] \in Commanding
      BY <1>st, <3>2, DrainOnMoves
    <3>. QED BY <3>1, <3>3 DEF Drained
  <2>. QED BY <2>1, <2>2
<1>6. ASSUME NEW m \in Msg, DrainPersistFails(m) PROVE Drained'
  <2>1. stage[m] = "drainPersist" /\ DrainOn(m) /\ ~processing'
    BY <1>6 DEF DrainPersistFails
  <2>2. drains' > 0 \/ \E x \in Msg : stage'[x] \in Draining
    BY <1>ty, <1>st, <2>1, DrainOnMoves
  <2>. QED BY <2>1, <2>2, DrainedAgain
<1>7. ASSUME NEW m \in Msg, LoopYields(m) \/ LoopAnswers(m) PROVE Drained'
  <2>1. Hops(m, {"looping", "yielding"}, {"yielding", "settling"}) /\ stage[m] \in {"looping", "yielding"}
    BY <1>7 DEF LoopYields, LoopAnswers, Hops
  <2>2. UNCHANGED <<queue, processing, controller, drains, wake>>
    BY <1>7 DEF LoopYields, LoopAnswers
  <2>3. \A x \in Msg : stage[x] \in Draining \cup Commanding => stage'[x] = stage[x]
    BY <1>st, <2>1, HopsAlone
  <2>. QED BY <2>2, <2>3, DrainedKept
<1>8. ASSUME NEW m \in Msg, LoopEnds(m) \/ CompactEnds(m) PROVE Drained'
  <2>1. ~processing' /\ drains' > 0
    BY <1>8, <1>ty DEF LoopEnds, CompactEnds, Release, DrainAgain
  <2>. QED BY <2>1, DrainedAgain
<1>9. ASSUME NEW m \in Msg, CommandStarts(m) PROVE Drained'
  <2>1. processing' /\ stage'[m] \in Commanding
    BY <1>9, <1>st DEF CommandStarts, Moved
  <2>. QED BY <2>1, DrainedHeld
<1>10. ASSUME NEW m \in Msg, CommandEnds(m) PROVE Drained'
  <2>1. ~processing' /\ queue' = queue /\ stage[m] = "command"
        /\ (drains' = drains + 1 \/ (~processing /\ drains' = drains))
    BY <1>10 DEF CommandEnds, Release, DrainAgain
  <2>2. \A x \in Msg : x # m => stage'[x] = stage[x]
    BY <1>10 DEF CommandEnds, Moved
  <2>3. CASE drains' = drains + 1
    BY <1>ty, <2>1, <2>3, DrainedAgain
  <2>4. CASE ~processing /\ drains' = drains
    BY <1>st, <2>1, <2>2, <2>4 DEF Drained
  <2>. QED BY <2>1, <2>3, <2>4
<1>11. ASSUME NEW m \in Msg, CompactSaved(m) PROVE Drained'
  <2>1. Hops(m, {"compactSave"}, {"compacting"}) /\ stage[m] = "compactSave"
    BY <1>11 DEF CompactSaved, Hops
  <2>2. UNCHANGED <<queue, processing, controller, drains, wake>>
    BY <1>11 DEF CompactSaved
  <2>3. \A x \in Msg : /\ stage[x] \in Draining => stage'[x] \in Draining
                       /\ stage[x] \in Commanding => stage'[x] \in Commanding
    BY <1>st, <2>1, HopsAlone
  <2>. QED BY <2>2, <2>3, DrainedKept
<1>12. ASSUME NEW m \in Msg, DrainedCommandEnds(m) PROVE Drained'
  <2>1. /\ Hops(m, {"drainCommand", "drainCompact"}, {"done"})
        /\ stage[m] \in {"drainCommand", "drainCompact"}
        /\ drains' > 0 /\ UNCHANGED <<processing, controller, wake>>
    BY <1>12, <1>ty DEF DrainedCommandEnds, Hops, DrainAgain
  <2>2. \A x \in Msg : stage[x] \in Commanding => stage'[x] \in Commanding
    BY <1>st, <2>1, HopsAlone
  <2>. QED BY <2>1, <2>2 DEF Drained
<1>13. ASSUME NEW m \in Msg, DeleteQueued(m) PROVE Drained'
  <2>1. m \in Elems(queue) /\ queue # <<>> /\ stage' = Moved({m}, "done")
    BY <1>13, <1>ty, NoElems DEF DeleteQueued, Elems, TypeOK
  <2>2. stage[m] = "queued" /\ \A x \in Msg : x # m => stage'[x] = stage[x]
    BY <2>1 DEF PlaceInv, QueueOK, Moved
  <2>3. UNCHANGED <<processing, controller, drains, wake>>
    BY <1>13 DEF DeleteQueued
  <2>. QED BY <1>st, <2>1, <2>2, <2>3, DrainedKept
<1>14. CASE DrainTake
  <2>1. UNCHANGED <<processing, controller, wake>>
    BY <1>14 DEF DrainTake
  <2>2. CASE queue = <<>>
    <3>1. stage' = stage /\ queue' = <<>>
      BY <1>14, <2>2 DEF DrainTake
    <3>. QED BY <2>1, <3>1 DEF Drained
  <2>3. CASE queue # <<>>
    <3>1. PICK h \in Msg, rest \in Seq(Msg) :
              /\ stage'[h] = "dispatch"
              /\ \A y \in Msg : y # h /\ y \notin Elems(rest) => stage'[y] = stage[y]
              /\ \A y \in {h} \cup Elems(rest) : stage[y] = "queued"
      BY <1>14, <2>3, TakeMoves
    <3>2. \A x \in Msg : stage[x] \in Commanding => stage'[x] \in Commanding
      BY <1>st, <3>1
    <3>. QED BY <1>st, <2>1, <3>1, <3>2 DEF Drained
  <2>. QED BY <2>2, <2>3
<1>15. CASE Abort
  <2>1. UNCHANGED <<processing, controller, wake>> /\ processing
        /\ \A y \in Msg : stage'[y] = IF y \in Elems(queue) THEN "done" ELSE stage[y]
    BY <1>15 DEF Abort, Moved
  <2>2. \A x \in Msg : stage[x] \in Commanding => stage'[x] \in Commanding
    BY <1>st, <2>1 DEF PlaceInv, QueueOK
  <2>. QED BY <2>1, <2>2 DEF Drained
<1>16. CASE WakeStarts
  <2>1. processing' /\ wake'
    BY <1>16 DEF WakeStarts
  <2>. QED BY <2>1, DrainedHeld
<1>17. CASE WakeEnds
  <2>1. ~processing' /\ drains' > 0
    BY <1>17, <1>ty DEF WakeEnds, Release, DrainAgain
  <2>. QED BY <2>1, DrainedAgain
<1>18. CASE UNCHANGED vars
  BY <1>18 DEF vars, Drained
<1>. QED
  BY <1>1, <1>2, <1>3, <1>4, <1>5, <1>6, <1>7, <1>8, <1>9, <1>10, <1>11, <1>12, <1>13,
     <1>14, <1>15, <1>16, <1>17, <1>18
  DEF Next, Step, Builds

\* If the writes that first persist a posted message do not fail, nothing waits
\* without somebody who will drain, and `processing` is never left set for nobody,
\* whatever else fails, overlaps or is aborted.
THEOREM NothingStrandedHolds ==
    ASSUME {"post", "compact"} \cap FailSites = {}
    PROVE  Spec => []NothingStranded
<1>1. Init => ControllerTurns /\ Drained
  BY DEF Init, ControllerTurns, Drained
<1>2. PlaceInv /\ ControllerTurns /\ Drained /\ [Next]_vars => ControllerTurns' /\ Drained'
  BY NextControllerTurns, NextDrained
<1>3. ASSUME PlaceInv, ControllerTurns, Drained PROVE NothingStranded
  <2>1. controller \in Msg \cup {None}
    BY <1>3 DEF PlaceInv, TInv, TypeOK
  <2>2. processing => wake \/ \E m \in Msg : Owner(m)
    <3>1. Turning \subseteq Owning /\ Commanding \subseteq Owning
      BY DEF Turning, Leading, Commanding, Owning
    <3>2. CASE controller # None
      BY <1>3, <2>1, <3>1, <3>2 DEF ControllerTurns, Owner
    <3>3. CASE controller = None
      BY <1>3, <3>1, <3>3 DEF Drained, Owner
    <3>. QED BY <3>2, <3>3
  <2>3. queue # <<>> => DrainComing
    BY <1>3, <2>2 DEF Drained, DrainComing, Owner
  <2>. QED BY <2>2, <2>3 DEF NothingStranded
<1>. QED BY InitPlaceInv, NextPlaceInv, <1>1, <1>2, <1>3, PTL DEF Spec
-----------------------------------------------------------------------------
(* Exactly one terminal event *)

\* Without commands that look up keys, the turn under way holds the controller, and
\* its loop captured it.
CtlOK ==
    \A m \in Msg :
        /\ stage[m] \in Turning => controller = m
        /\ stage[m] \in {"looping", "yielding", "settling"} => ctl[m] = m

\* A step that starts no turn.
LEMMA CtlKept ==
    ASSUME CtlOK, controller' = controller, ctl' = ctl,
           \A x \in Msg : /\ stage'[x] \in Turning => stage[x] \in Turning
                          /\ stage'[x] \in {"looping", "yielding", "settling"}
                                => stage[x] \in {"looping", "yielding", "settling"}
    PROVE  CtlOK'
BY DEF CtlOK

\* A step that ends the turn of its holder.
LEMMA CtlFree ==
    ASSUME OneOwner, NEW m \in Msg, stage[m] \in Owning, stage'[m] \notin Turning,
           \A x \in Msg : x # m /\ stage'[x] \in Turning => stage[x] \in Turning
    PROVE  CtlOK'
<1>1. Turning \subseteq Owning /\ {"looping", "yielding", "settling"} \subseteq Turning
  BY DEF Turning, Leading, Owning
<1>2. \A x \in Msg : stage'[x] \notin Turning
  BY <1>1 DEF OneOwner, Owner
<1>. QED BY <1>1, <1>2 DEF CtlOK

\* A step that opens the turn of m in an idle conversation.
LEMMA CtlOpens ==
    ASSUME OneOwner, ~processing, NEW m \in Msg, controller' = m,
           stage'[m] \in {"postPersist", "drainPersist"},
           \A x \in Msg : x # m => stage'[x] = stage[x]
    PROVE  CtlOK'
<1>1. Turning \subseteq Owning /\ {"looping", "yielding", "settling"} \subseteq Turning
  BY DEF Turning, Leading, Owning
<1>2. \A x \in Msg : x # m => stage'[x] \notin Turning
  BY <1>1 DEF OneOwner, Owner
<1>. QED BY <1>1, <1>2 DEF CtlOK

\* Every step keeps it so.
LEMMA NextCtlOK ==
    ASSUME Inv, PlaceInv, CtlOK, [Next]_vars
    PROVE  CtlOK'
<1>oo. OneOwner /\ TypeOK
  BY DEF Inv, TInv
<1>st. /\ Turning = {"postPersist", "drainPersist", "gathering", "looping", "yielding", "settling"}
       /\ Turning \subseteq Owning
  BY DEF Turning, Leading, Owning
<1>1. ASSUME NEW m \in Msg, Post(m) PROVE CtlOK'
  <2>0. stage[m] = "new" /\ ctl' = ctl
    BY <1>1 DEF Post
  <2>1. CASE processing
    <3>1. PICK st \in {"queued", "done"} : stage' = Moved({m}, st) /\ controller' = controller
      BY <1>1, <2>1 DEF Post, Enqueue
    <3>. QED BY <1>st, <2>0, <3>1, CtlKept DEF Moved
  <2>2. CASE ~processing /\ kind[m] \in {"text", "solo"}
    <3>1. controller' = m /\ stage' = Moved({m}, "postPersist")
      BY <1>1, <2>2 DEF Post, StartIdle
    <3>. QED BY <1>oo, <2>2, <3>1, CtlOpens DEF Moved
  <2>3. CASE ~processing /\ kind[m] \notin {"text", "solo"}
    <3>1. PICK st \in {"checked", "compactSave"} : stage' = Moved({m}, st) /\ controller' = controller
      BY <1>1, <1>oo, <2>3, KindsAssumption DEF Post, StartIdle, TypeOK, AllKinds
    <3>. QED BY <1>st, <2>0, <3>1, CtlKept DEF Moved
  <2>. QED BY <2>1, <2>2, <2>3
<1>2. ASSUME NEW m \in Msg, Builds(m) PROVE CtlOK'
  <2>1. stage[m] \in Turning /\ controller = m /\ controller' = controller
    BY <1>2, <1>st, BuildStays DEF CtlOK
  <2>2. \A x \in Msg : x # m => stage'[x] = stage[x] \/ stage'[x] \notin Turning
    BY <1>2, <1>st, BuildStays DEF Batched, Finished
  <2>3. \A x \in Msg : x # m => stage'[x] \notin Turning
    BY <1>oo, <1>st, <2>1, <2>2 DEF OneOwner, Owner
  <2>4. stage'[m] \in {"looping", "yielding", "settling"} => ctl'[m] = m
    <3>1. \/ ctl' = [ctl EXCEPT ![m] = controller]
          \/ stage'[m] = "gathering"
      BY <1>2, BuildStays
    <3>2. ctl \in [Msg -> Msg \cup {None}]
      BY <1>oo DEF TypeOK
    <3>. QED BY <2>1, <3>1, <3>2
  <2>. QED BY <1>st, <2>1, <2>3, <2>4 DEF CtlOK
<1>3. ASSUME NEW m \in Msg, PostPersistFails(m) PROVE CtlOK'
  BY <1>3, <1>oo, <1>st, CtlFree DEF PostPersistFails, Moved
<1>4. ASSUME NEW m \in Msg, DispatchCommand(m) PROVE CtlOK'
  <2>1. Hops(m, {"dispatch"}, {"drainCommand", "drainCompact"}) /\ UNCHANGED <<controller, ctl>>
    BY <1>4 DEF DispatchCommand, Hops
  <2>. QED BY <1>st, <2>1, HopsAlone, CtlKept
<1>5. ASSUME NEW m \in Msg, DispatchText(m) PROVE CtlOK'
  <2>1. CASE MayClaim
    <3>1. ~processing /\ controller' = m /\ stage' = Moved({m}, "drainPersist")
      BY <1>5, <2>1 DEF DispatchText, MayClaim
    <3>. QED BY <1>oo, <3>1, CtlOpens DEF Moved
  <2>2. CASE ~MayClaim
    <3>1. DrainOn(m) /\ UNCHANGED <<controller, ctl>>
      BY <1>5, <2>2 DEF DispatchText
    <3>2. \A x \in Msg : stage'[x] \in {"done", "dispatch", stage[x]}
      BY <3>1, DrainOnOwner DEF Inv
    <3>. QED BY <1>st, <3>1, <3>2, CtlKept
  <2>. QED BY <2>1, <2>2
<1>6. ASSUME NEW m \in Msg, DrainPersistFails(m) PROVE CtlOK'
  <2>1. stage[m] = "drainPersist" /\ DrainOn(m)
    BY <1>6 DEF DrainPersistFails
  <2>2. stage'[m] \notin Turning /\ \A x \in Msg : x # m /\ stage'[x] \in Turning => stage[x] \in Turning
    BY <1>st, <2>1, DrainOnMoves
  <2>. QED BY <1>oo, <1>st, <2>1, <2>2, CtlFree
<1>7. ASSUME NEW m \in Msg, LoopYields(m) \/ LoopAnswers(m) PROVE CtlOK'
  <2>1. /\ Hops(m, {"looping", "yielding"}, {"yielding", "settling"})
        /\ stage[m] \in {"looping", "yielding"} /\ UNCHANGED <<controller, ctl>>
    BY <1>7 DEF LoopYields, LoopAnswers, Hops
  <2>. QED BY <1>st, <2>1, HopsAlone, CtlKept
<1>8. ASSUME NEW m \in Msg, LoopEnds(m) PROVE CtlOK'
  <2>1. /\ stage[m] = "settling" /\ m \in members[m]
        /\ \A x \in Msg : stage'[x] = IF x \in members[m] THEN "done" ELSE stage[x]
    BY <1>8 DEF LoopEnds, Moved, Inv, TInv, LeadOK
  <2>. QED BY <1>oo, <1>st, <2>1, CtlFree
<1>9. ASSUME NEW m \in Msg, CommandStarts(m) \/ CommandEnds(m) PROVE CtlOK'
  BY <1>9 DEF CommandStarts, CommandEnds, Inv, NoCommands
<1>10. ASSUME NEW m \in Msg,
              \/ CompactSaved(m) \/ CompactSaveFails(m) \/ CompactEnds(m)
              \/ DrainedCommandEnds(m) \/ DeleteQueued(m)
       PROVE  CtlOK'
  <2>1. PICK st \in {"compacting", "done"} :
            stage' = Moved({m}, st) /\ UNCHANGED <<controller, ctl>>
    BY <1>10 DEF CompactSaved, CompactSaveFails, CompactEnds, DrainedCommandEnds, DeleteQueued
  <2>. QED BY <1>st, <2>1, CtlKept DEF Moved
<1>11. CASE DrainTake
  <2>1. UNCHANGED <<controller, ctl>>
    BY <1>11 DEF DrainTake
  <2>2. \A x \in Msg : stage'[x] \in {stage[x], "dispatch", "held"}
    <3>1. CASE queue = <<>>
      <4>1. stage' = stage
        BY <1>11, <3>1 DEF DrainTake
      <4>. QED BY <4>1
    <3>2. CASE queue # <<>>
      <4>1. PICK h \in Msg, rest \in Seq(Msg) :
                /\ stage'[h] = "dispatch"
                /\ \A y \in Elems(rest) : stage'[y] = "held"
                /\ \A y \in Msg : y # h /\ y \notin Elems(rest) => stage'[y] = stage[y]
        BY <1>11, <3>2, TakeMoves
      <4>. QED BY <4>1
    <3>. QED BY <3>1, <3>2
  <2>. QED BY <1>st, <2>1, <2>2, CtlKept
<1>12. CASE Abort
  <2>1. UNCHANGED <<controller, ctl>>
        /\ \A y \in Msg : stage'[y] = IF y \in Elems(queue) THEN "done" ELSE stage[y]
    BY <1>12 DEF Abort, Moved
  <2>. QED BY <1>st, <2>1, CtlKept
<1>13. CASE WakeStarts \/ WakeEnds \/ UNCHANGED vars
  <2>1. UNCHANGED <<controller, ctl, stage>>
    BY <1>13 DEF WakeStarts, WakeEnds, vars
  <2>. QED BY <2>1 DEF CtlOK
<1>. QED
  BY <1>1, <1>2, <1>3, <1>4, <1>5, <1>6, <1>7, <1>8, <1>9, <1>10, <1>11, <1>12, <1>13
  DEF Next, Step, Builds

\* What is known without commands that look up keys.
TurnInv == Inv /\ PlaceInv /\ ControllerTurns /\ CtlOK

\* It holds at the start, and every step keeps it.
LEMMA TurnInvInductive ==
    ASSUME "command" \notin Kinds
    PROVE  (Init => TurnInv) /\ (TurnInv /\ [Next]_vars => TurnInv')
<1>1. Init => NoCommands /\ OneOwner /\ ControllerTurns /\ CtlOK
  BY DEF Init, NoCommands, OneOwner, Owner, Owning, ControllerTurns, CtlOK, Turning, Leading
<1>2. Init => TurnInv
  BY <1>1, InitTInv, InitPlaceInv DEF TurnInv, Inv
<1>3. ASSUME TurnInv, [Next]_vars PROVE TurnInv'
  <2>1. Inv'
    BY <1>3, NextTInv, NextNoCommands, NextOneOwner DEF TurnInv, Inv
  <2>2. PlaceInv'
    BY <1>3, NextPlaceInv DEF TurnInv
  <2>3. ControllerTurns'
    BY <1>3, NextControllerTurns DEF TurnInv
  <2>4. CtlOK'
    BY <1>3, NextCtlOK DEF TurnInv
  <2>. QED BY <2>1, <2>2, <2>3, <2>4 DEF TurnInv
<1>. QED BY <1>2, <1>3

\* Unless slash commands that look up keys are sent, every message the conversation
\* is done with got exactly one terminal event, and no other has one: no turn is ever
\* refused its loop, the one end nobody hears of.
THEOREM AnsweredExactlyOnceHolds ==
    ASSUME "command" \notin Kinds
    PROVE  Spec => []AnsweredExactlyOnce
<1> DEFINE Exact == \A m \in Msg : Len(answers[m]) = IF Settled(m) THEN 1 ELSE 0
<1>1. Init => Exact
  BY DEF Init, Settled, MidTurn
<1>2. ASSUME TurnInv, Exact, [Next]_vars PROVE Exact'
  <2>. SUFFICES ASSUME NEW m \in Msg PROVE Len(answers'[m]) = IF Settled(m)' THEN 1 ELSE 0
    OBVIOUS
  <2>1. Len(answers[m]) = IF Settled(m) THEN 1 ELSE 0
    BY <1>2
  <2>2. Kept(m) \/ Told(m) \/ LeftUntold(m)
    BY <1>2, NextTells DEF TurnInv
  <2>3. ~LeftUntold(m)
    BY <1>2, NoneAssumption DEF TurnInv, CtlOK, LeftUntold, Turning
  <2>4. CASE Kept(m)
    BY <2>1, <2>4 DEF Kept
  <2>5. CASE Told(m)
    BY <2>1, <2>5 DEF Told
  <2>. QED BY <2>2, <2>3, <2>4, <2>5
<1>3. Exact => AnsweredExactlyOnce
  BY DEF AnsweredExactlyOnce, Settled, MidTurn
<1>. HIDE DEF Exact
<1>. QED BY TurnInvInductive, <1>1, <1>2, <1>3, PTL DEF Spec
-----------------------------------------------------------------------------
(* Cancels reach their turn *)

\* Only turns, under way or over, are ever aborted.
AbortOK == \A m \in aborted : stage[m] \in Turning \cup {"done"}

\* Every step keeps it so: a cancel reaches the turn whose controller is set.
LEMMA NextAbortOK ==
    ASSUME PlaceInv, ControllerTurns, AbortOK, [Next]_vars
    PROVE  AbortOK'
<1>1. aborted \subseteq Msg /\ controller \in Msg \cup {None}
  BY DEF PlaceInv, TInv, TypeOK
<1>2. \A m \in aborted : stage'[m] \in Turning \cup {"done"}
  <2>1. "done" \in Finished
    BY DEF Finished
  <2>. QED BY <1>1, <2>1, TurnGoesOn DEF AbortOK
<1>3. CASE aborted' = aborted
  BY <1>2, <1>3 DEF AbortOK
<1>4. CASE Abort
  <2>1. aborted' = aborted \cup ({controller} \ {None})
        /\ controller' = controller
    BY <1>4 DEF Abort
  <2>2. ASSUME controller # None PROVE stage'[controller] \in Turning \cup {"done"}
    BY <1>1, <2>2, TurnGoesOn DEF ControllerTurns
  <2>. QED BY <1>2, <2>1, <2>2 DEF AbortOK
<1>5. aborted' = aborted \/ Abort
  BY DEF Next, Step, Post, PostPersisted, PostPersistFails, DispatchCommand, DispatchText,
         DrainPersisted, DrainPersistFails, TailPersisted, TailPersistFails, LoopYields,
         LoopAnswers, LoopEnds, CommandStarts, CommandEnds, CompactSaved, CompactSaveFails,
         CompactEnds, DrainedCommandEnds, DeleteQueued, DrainTake, WakeStarts, WakeEnds, vars
<1>. QED BY <1>3, <1>4, <1>5

\* The last event a client hears in a step that tells it something.
LEMMA LastTold ==
    ASSUME TypeOK, NEW S, NEW o, Tell(S, o), NEW x \in Msg, answers'[x] # answers[x]
    PROVE  x \in S /\ answers'[x][Len(answers'[x])] = o
<1>1. x \in S /\ answers'[x] = Append(answers[x], o) /\ answers[x] \in Seq(Outcomes)
  BY DEF Tell, TypeOK
<1>2. PICK s \in Seq(Outcomes) : s = answers[x]
  BY <1>1
<1>3. Append(s, o)[Len(Append(s, o))] = o
  OBVIOUS
<1>. QED BY <1>1, <1>2, <1>3

\* A step tells an aborted turn, and those answered with it, no completion.
LEMMA AbortedHearNoCompletion ==
    ASSUME TurnInv, AbortOK, [Next]_vars
    PROVE  AbortedTurnNeverCompletes
<1>. SUFFICES ASSUME NEW x \in Msg, x \in aborted, answers'[x] # answers[x]
              PROVE  answers'[x][Len(answers'[x])] \notin {"complete", "handoff"}
  BY DEF AbortedTurnNeverCompletes
<1>ty. TypeOK /\ PlaceInv /\ stage[x] \in Turning \cup {"done"}
  BY DEF TurnInv, PlaceInv, TInv, AbortOK
<1>st. Turning = {"postPersist", "drainPersist", "gathering", "looping", "yielding", "settling"}
  BY DEF Turning, Leading
<1>1. ASSUME NEW S, NEW o \in {"cancelled", "error", "rejected", "deleted"}, Tell(S, o)
      PROVE  answers'[x][Len(answers'[x])] \notin {"complete", "handoff"}
  <2>1. answers'[x][Len(answers'[x])] = o
    BY <1>1, <1>ty, LastTold
  <2>. QED BY <2>1
<1>2. ASSUME answers' = answers PROVE FALSE
  BY <1>2
<1>3. ASSUME NEW m \in Msg, Post(m)
      PROVE  answers' = answers \/ Tell({m}, "rejected")
  BY <1>3 DEF Post, Enqueue, StartIdle
<1>4. ASSUME NEW m \in Msg, Builds(m)
      PROVE  \E D : Tell(D, "error")
  BY <1>4, <1>ty, BuildStays
<1>5. ASSUME NEW m \in Msg, PostPersistFails(m) \/ DrainPersistFails(m) \/ CompactSaveFails(m)
      PROVE  Tell({m}, "error")
  BY <1>5 DEF PostPersistFails, DrainPersistFails, CompactSaveFails
<1>6. ASSUME NEW m \in Msg, DispatchText(m)
      PROVE  answers' = answers \/ Tell({m}, "error")
  BY <1>6 DEF DispatchText
<1>7. ASSUME NEW m \in Msg,
             DispatchCommand(m) \/ LoopYields(m) \/ LoopEnds(m) \/ CommandStarts(m) \/ CompactSaved(m)
      PROVE  answers' = answers
  BY <1>7 DEF DispatchCommand, LoopYields, LoopEnds, CommandStarts, CompactSaved
<1>8. ASSUME NEW m \in Msg, CommandEnds(m) PROVE FALSE
  BY <1>8 DEF CommandEnds, TurnInv, Inv, NoCommands
<1>9. ASSUME NEW m \in Msg, CompactEnds(m) \/ DrainedCommandEnds(m) PROVE FALSE
  <2>1. PICK o : Tell({m}, o)
    BY <1>9 DEF CompactEnds, DrainedCommandEnds
  <2>2. x = m
    BY <1>ty, <2>1, LastTold
  <2>3. stage[m] \in {"compacting", "drainCommand", "drainCompact"}
    BY <1>9 DEF CompactEnds, DrainedCommandEnds
  <2>. QED BY <1>ty, <1>st, <2>2, <2>3
<1>10. ASSUME NEW m \in Msg, LoopAnswers(m)
       PROVE  \E o \in {"cancelled", "error"} : Tell(members[m], o)
  <2>1. PICK o \in {"error", Verdict(m)} : Tell(members[m], o)
    BY <1>10 DEF LoopAnswers
  <2>2. stage[m] \in {"looping", "yielding"}
    BY <1>10 DEF LoopAnswers
  <2>3. x \in members[m]
    BY <1>ty, <2>1, LastTold
  <2>4. x = m
    <3>1. x # m => stage[x] = "member"
      BY <1>ty, <2>2, <2>3 DEF PlaceInv, BatchesOK, BatchOK, MemberStage
    <3>. QED BY <1>ty, <1>st, <3>1
  <2>5. ctl[m] = m
    BY <2>2 DEF TurnInv, CtlOK
  <2>6. Verdict(m) = "cancelled"
    BY <2>4, <2>5 DEF Verdict
  <2>. QED BY <2>1, <2>6
<1>11. ASSUME NEW m \in Msg, DeleteQueued(m) PROVE Tell({m}, "deleted")
  BY <1>11 DEF DeleteQueued
<1>12. ASSUME Abort PROVE Tell(Elems(queue), "cancelled")
  BY <1>12 DEF Abort
<1>13. ASSUME DrainTake \/ WakeStarts \/ WakeEnds \/ UNCHANGED vars PROVE answers' = answers
  BY <1>13 DEF DrainTake, WakeStarts, WakeEnds, vars
<1>14. answers' = answers \/ \E S : \E o \in {"cancelled", "error", "rejected", "deleted"} : Tell(S, o)
  <2>1. ASSUME NEW m \in Msg, Post(m) \/ Step(m) \/ DeleteQueued(m)
        PROVE  answers' = answers \/ \E S : \E o \in {"cancelled", "error", "rejected", "deleted"} : Tell(S, o)
    BY <2>1, <1>3, <1>4, <1>5, <1>6, <1>7, <1>8, <1>9, <1>10, <1>11 DEF Step, Builds
  <2>. QED BY <2>1, <1>12, <1>13 DEF Next
<1>. QED BY <1>1, <1>2, <1>14

\* A batch gives up messages only in a step that finds its turn aborted.
LEMMA GivesUpWhenAborted ==
    ASSUME PlaceInv, [Next]_vars
    PROVE  GivesUpOnlyOnAbort
<1>. SUFFICES ASSUME NEW x \in Msg, stage'[x] = "dropped", stage[x] # "dropped"
              PROVE  controller \in aborted
  BY DEF GivesUpOnlyOnAbort
<1>1. ASSUME NEW m \in Msg, Builds(m) PROVE controller \in aborted
  BY <1>1, BuildStays DEF Aborted
<1>2. ASSUME NEW m \in Msg, Post(m) PROVE FALSE
  BY <1>2 DEF Post, Enqueue, StartIdle, Moved
<1>3. ASSUME NEW m \in Msg, DispatchText(m) \/ DrainPersistFails(m) PROVE FALSE
  <2>1. DrainOn(m) \/ stage' = Moved({m}, "drainPersist")
    BY <1>3 DEF DispatchText, DrainPersistFails
  <2>2. CASE DrainOn(m)
    BY <2>2, DrainOnOwner DEF PlaceInv
  <2>3. CASE stage' = Moved({m}, "drainPersist")
    BY <2>3 DEF Moved
  <2>. QED BY <2>1, <2>2, <2>3
<1>4. ASSUME NEW m \in Msg,
             \/ PostPersistFails(m) \/ DispatchCommand(m) \/ LoopYields(m) \/ LoopAnswers(m)
             \/ LoopEnds(m) \/ CommandStarts(m) \/ CommandEnds(m) \/ CompactSaved(m)
             \/ CompactSaveFails(m) \/ CompactEnds(m) \/ DrainedCommandEnds(m) \/ DeleteQueued(m)
      PROVE  FALSE
  <2>1. \E S : \E st \in {"done", "drainCommand", "drainCompact", "yielding", "settling",
                          "command", "compacting"} : stage' = Moved(S, st)
    BY <1>4 DEF PostPersistFails, DispatchCommand, LoopYields, LoopAnswers, LoopEnds,
                CommandStarts, CommandEnds, CompactSaved, CompactSaveFails, CompactEnds,
                DrainedCommandEnds, DeleteQueued
  <2>. QED BY <2>1 DEF Moved
<1>5. ASSUME DrainTake PROVE FALSE
  <2>1. CASE queue = <<>>
    BY <1>5, <2>1 DEF DrainTake
  <2>2. CASE queue # <<>>
    <3>1. PICK h \in Msg, rest \in Seq(Msg) :
              /\ stage'[h] = "dispatch"
              /\ \A y \in Elems(rest) : stage'[y] = "held"
              /\ \A y \in Msg : y # h /\ y \notin Elems(rest) => stage'[y] = stage[y]
      BY <1>5, <2>2, TakeMoves
    <3>. QED BY <3>1
  <2>. QED BY <2>1, <2>2
<1>6. ASSUME Abort \/ WakeStarts \/ WakeEnds \/ UNCHANGED vars PROVE FALSE
  BY <1>6 DEF Abort, WakeStarts, WakeEnds, vars, Moved
<1>. QED
  BY <1>1, <1>2, <1>3, <1>4, <1>5, <1>6 DEF Next, Step, Builds

\* Unless slash commands that look up keys are sent, a cancel takes effect on the turn
\* it was meant for, and only a cancel costs messages their turn.
THEOREM AbortsAreHonouredHolds ==
    ASSUME "command" \notin Kinds
    PROVE  Spec => AbortsAreHonoured
<1>1. Init => AbortOK
  BY DEF Init, AbortOK
<1>2. TurnInv /\ AbortOK /\ [Next]_vars => AbortOK'
  BY NextAbortOK DEF TurnInv
<1>3. TurnInv /\ AbortOK /\ [Next]_vars => [AbortedTurnNeverCompletes /\ GivesUpOnlyOnAbort]_vars
  BY AbortedHearNoCompletion, GivesUpWhenAborted DEF TurnInv
<1>. QED BY TurnInvInductive, <1>1, <1>2, <1>3, PTL DEF Spec, AbortsAreHonoured
-----------------------------------------------------------------------------
(* One turn at a time: the refinement of ConversationPromise *)

\* The messages nobody has sent yet, and those the promise counts as waiting.
Fresh == {m \in Msg : stage[m] = "new"}
Waiting == {m \in Msg : stage[m] # "new"} \ (InTurn \cup Over)

\* x holds the conversation, is over, or is new, after the step as before it.
Alike(x) ==
    /\ (stage'[x] \in Owning) = (stage[x] \in Owning)
    /\ (stage'[x] \in Finished) = (stage[x] \in Finished)
    /\ (stage'[x] = "new") = (stage[x] = "new")

\* The turn under way is its holder and the members it answers.
LEMMA WhoIsInTurn ==
    ASSUME PlaceInv, OneOwner
    PROVE  /\ \A o \in Msg : Owner(o) => InTurn = {o} \cup members[o]
           /\ \A l \in Msg : ~Owner(l) => members[l] = {}
           /\ (\A o \in Msg : ~Owner(o)) => InTurn = {}
           /\ \A m \in InTurn : stage[m] \in Owning \cup {"held", "member"}
           /\ \A m \in InTurn : stage[m] # "new" /\ stage[m] \notin Finished
<1>1. Leading \subseteq Owning
  BY DEF Leading, Owning
<1>2. \A l \in Msg : ~Owner(l) => members[l] = {}
  BY <1>1, LeadsNone DEF Owner
<1>3. \A l \in Msg : members[l] \subseteq Msg
  BY DEF PlaceInv, TInv, TypeOK
<1>4. ASSUME NEW o \in Msg, Owner(o) PROVE InTurn = {o} \cup members[o]
  <2>1. \A l \in Msg : l # o => ~Owner(l)
    BY <1>4 DEF OneOwner
  <2>2. \A m \in Msg : m \in InTurn <=> m = o \/ m \in members[o]
    BY <1>2, <1>4, <2>1 DEF InTurn
  <2>. QED BY <1>3, <2>2 DEF InTurn
<1>5. ASSUME \A o \in Msg : ~Owner(o) PROVE InTurn = {}
  BY <1>2, <1>5 DEF InTurn
<1>6. \A m \in InTurn : stage[m] \in Owning \cup {"held", "member"}
  <2>1. ASSUME NEW m \in Msg, NEW l \in Msg, m \in members[l] PROVE stage[m] \in Owning \cup {"held", "member"}
    <3>1. m # l => stage[m] = MemberStage(l)
      BY <2>1 DEF PlaceInv, BatchesOK, BatchOK
    <3>2. m = l => stage[m] \in Owning
      BY <1>2, <2>1 DEF Owner
    <3>. QED BY <3>1, <3>2 DEF MemberStage
  <2>. QED BY <2>1 DEF InTurn, Owner
<1>7. \A st \in Owning \cup {"held", "member"} : st # "new" /\ st \notin Finished
  BY DEF Owning, Finished
<1>. QED BY <1>2, <1>4, <1>5, <1>6, <1>7

\* A new message waits or is refused.
LEMMA Submits ==
    ASSUME PlaceInv, OneOwner, NEW m \in Msg, stage[m] = "new", Fresh' = Fresh \ {m},
           InTurn' = InTurn, Over' = Over \/ Over' = Over \cup {m}
    PROVE  Promise!Next
<1>1. m \notin InTurn /\ m \notin Over /\ m \notin Waiting
  BY WhoIsInTurn DEF Over, Finished, Waiting
<1>2. Waiting = (Msg \ Fresh) \ (InTurn \cup Over) /\ Waiting' = (Msg \ Fresh') \ (InTurn' \cup Over')
  BY DEF Waiting, Fresh
<1>3. \/ Waiting' = Waiting \cup {m} /\ Over' = Over
      \/ Over' = Over \cup {m} /\ Waiting' = Waiting
  <2>1. m \in Fresh
    BY DEF Fresh
  <2>. QED BY <1>1, <1>2, <2>1
<1>4. Promise!Submit(m)
  BY <1>1, <1>3 DEF Promise!Submit, Promise!Known, Waiting
<1>. QED BY <1>4 DEF Promise!Next

\* A message opens a turn.
LEMMA Opens ==
    ASSUME InTurn = {}, NEW m \in Msg, stage[m] \notin Finished, InTurn' = {m}, Over' = Over,
           Fresh' = Fresh \ {m}
    PROVE  Promise!Next
<1>1. Waiting = (Msg \ Fresh) \ (InTurn \cup Over) /\ Waiting' = (Msg \ Fresh') \ (InTurn' \cup Over')
  BY DEF Waiting, Fresh
<1>2. Waiting' = Waiting \ {m}
  BY <1>1
<1>3. m \notin Over
  BY DEF Over
<1>4. Promise!Open(m)
  BY <1>2, <1>3 DEF Promise!Open, Waiting
<1>. QED BY <1>4 DEF Promise!Next

\* Waiting messages join the turn, others are given up.
LEMMA Extends ==
    ASSUME InTurn # {}, Fresh' = Fresh, NEW J \in SUBSET Waiting, NEW D \in SUBSET Waiting,
           J \cap D = {}, InTurn' = InTurn \cup J, Over' = Over \cup D
    PROVE  Promise!Next
<1>1. Waiting = (Msg \ Fresh) \ (InTurn \cup Over) /\ Waiting' = (Msg \ Fresh') \ (InTurn' \cup Over')
  BY DEF Waiting, Fresh
<1>2. Waiting' = Waiting \ (J \cup D)
  BY <1>1
<1>3. Promise!Extend(J, D)
  BY <1>2 DEF Promise!Extend, Waiting
<1>. QED BY <1>3 DEF Promise!Next, Waiting

\* Waiting messages are over without a turn.
LEMMA Resolves ==
    ASSUME Fresh' = Fresh, NEW D \in SUBSET Waiting, InTurn' = InTurn, Over' = Over \cup D
    PROVE  Promise!Next
<1>1. Waiting = (Msg \ Fresh) \ (InTurn \cup Over) /\ Waiting' = (Msg \ Fresh') \ (InTurn' \cup Over')
  BY DEF Waiting, Fresh
<1>2. Waiting' = Waiting \ D
  BY <1>1
<1>3. Promise!Resolve(D)
  BY <1>2 DEF Promise!Resolve, Waiting
<1>. QED BY <1>3 DEF Promise!Next, Waiting

\* The turn is over.
LEMMA Closes ==
    ASSUME Fresh' = Fresh, InTurn # {}, InTurn' = {}, Over' = Over \cup InTurn
    PROVE  Promise!Next
<1>1. Waiting = (Msg \ Fresh) \ (InTurn \cup Over) /\ Waiting' = (Msg \ Fresh') \ (InTurn' \cup Over')
  BY DEF Waiting, Fresh
<1>2. Waiting' = Waiting
  BY <1>1
<1>3. Promise!Close
  BY <1>2 DEF Promise!Close, Waiting
<1>. QED BY <1>3 DEF Promise!Next

\* The promise sees only the turn, what is over and what is new.
LEMMA Stutters ==
    ASSUME Fresh' = Fresh, InTurn' = InTurn, Over' = Over
    PROVE  UNCHANGED Promise!pvars
<1>1. Waiting = (Msg \ Fresh) \ (InTurn \cup Over) /\ Waiting' = (Msg \ Fresh') \ (InTurn' \cup Over')
  BY DEF Waiting, Fresh
<1>2. Waiting' = Waiting
  BY <1>1
<1>. QED BY <1>2 DEF Promise!pvars, Waiting

\* A step that leaves the turn, its members and the finished messages alone.
LEMMA AlikeStutters ==
    ASSUME \A x \in Msg : Alike(x), members' = members
    PROVE  UNCHANGED Promise!pvars
<1>1. Fresh' = Fresh /\ Over' = Over
  BY DEF Fresh, Over, Alike
<1>2. InTurn' = InTurn
  BY DEF InTurn, Owner, Alike
<1>. QED BY <1>1, <1>2, Stutters

\* A step that ends messages that wait.
LEMMA AlikeResolves ==
    ASSUME PlaceInv, OneOwner, NEW D \in SUBSET Msg,
           \A x \in D : stage[x] \in {"queued", "dispatch", "drainCommand", "drainCompact"}
                        /\ stage'[x] = "done",
           \A x \in Msg \ D : Alike(x), members' = members
    PROVE  Promise!Next
<1>1. /\ "done" \in Finished /\ "done" \notin Owning
      /\ {"new", "queued", "dispatch", "drainCommand", "drainCompact"} \cap (Finished \cup Owning) = {}
  BY DEF Finished, Owning
<1>2. D \subseteq Waiting
  <2>1. \A x \in D : x \notin InTurn
    BY <1>1, WhoIsInTurn
  <2>. QED BY <1>1, <2>1 DEF Waiting, Over
<1>3. Fresh' = Fresh
  BY DEF Fresh, Alike
<1>4. Over' = Over \cup D
  BY <1>1 DEF Over, Alike
<1>5. InTurn' = InTurn
  <2>1. \A x \in Msg : Owner(x)' = Owner(x)
    BY <1>1 DEF Owner, Alike
  <2>. QED BY <2>1 DEF InTurn
<1>. QED BY <1>2, <1>3, <1>4, <1>5, Resolves

\* A step that ends the turn with all its members.
LEMMA AlikeCloses ==
    ASSUME PlaceInv, OneOwner, NEW m \in Msg, Owner(m),
           \A x \in {m} \cup members[m] : stage'[x] = "done",
           \A x \in Msg : x \notin {m} \cup members[m] => Alike(x),
           \A l \in Msg : l # m => members'[l] = members[l],
           members'[m] = {}
    PROVE  Promise!Next
<1>1. "done" \in Finished /\ "done" \notin Owning /\ "done" # "new"
  BY DEF Finished, Owning
<1>2. InTurn = {m} \cup members[m] /\ InTurn \subseteq Msg
  BY WhoIsInTurn DEF InTurn
<1>3. \A x \in Msg : ~Owner(x)'
  <2>1. \A x \in Msg : x # m => ~Owner(x)
    BY DEF OneOwner
  <2>2. \A x \in Msg : x \in InTurn \/ stage'[x] \notin Owning
    BY <1>2, <2>1 DEF Owner, Alike
  <2>. QED BY <1>1, <1>2, <2>2 DEF Owner
<1>4. \A l \in Msg : members'[l] = {}
  <2>1. \A l \in Msg : l # m => members[l] = {}
    BY WhoIsInTurn DEF OneOwner
  <2>. QED BY <2>1
<1>5. InTurn' = {}
  BY <1>3, <1>4 DEF InTurn
<1>6. \A x \in InTurn : stage[x] # "new" /\ stage[x] \notin Finished /\ stage'[x] = "done"
  BY <1>2, WhoIsInTurn
<1>7. Fresh' = Fresh
  BY <1>1, <1>2, <1>6 DEF Fresh, Alike
<1>8. Over' = Over \cup InTurn
  BY <1>1, <1>2, <1>6 DEF Over, Alike
<1>. QED BY <1>2, <1>5, <1>7, <1>8, Closes

\* A step that opens the turn of m in an idle conversation.
LEMMA AlikeOpens ==
    ASSUME PlaceInv, OneOwner, ~processing, NEW m \in Msg, stage[m] \notin Finished,
           stage'[m] \in Owning, \A x \in Msg : x # m => stage'[x] = stage[x], members' = members
    PROVE  Promise!Next
<1>1. \A x \in Msg : ~Owner(x)
  BY DEF OneOwner
<1>2. InTurn = {} /\ \A l \in Msg : members[l] = {}
  BY <1>1, WhoIsInTurn
<1>3. InTurn' = {m}
  BY <1>1, <1>2 DEF InTurn, Owner
<1>4. \A st \in Owning : st \notin Finished /\ st # "new"
  BY DEF Owning, Finished
<1>5. Over' = Over /\ Fresh' = Fresh \ {m}
  BY <1>4 DEF Over, Fresh
<1>. QED BY <1>2, <1>3, <1>5, Opens

\* What joins the turn of lead and what is given up, out of the tails it led.
LEMMA JoinsAndLeaves ==
    ASSUME PlaceInv, OneOwner, NEW lead \in Msg, NEW S, NEW failed, NEW rest,
           Gathers(lead, S, failed, rest), members[lead] \subseteq S
    PROVE  /\ InTurn = {lead} \cup members[lead] /\ InTurn \subseteq S
           /\ S \ InTurn \in SUBSET Waiting
           /\ failed \cup Elems(rest) \in SUBSET Waiting
           /\ \A x \in {lead} \cup BatchOf(lead) :
                 x \in Msg /\ stage[x] # "new" /\ stage[x] \notin Finished
<1>1. TInv /\ BatchesOK /\ stage[lead] \in {"postPersist", "drainPersist", "gathering"}
  BY DEF PlaceInv, Gathers
<1>2. stage[lead] \in Owning /\ stage[lead] # "new" /\ stage[lead] \notin Finished
  BY <1>1 DEF Owning, Finished
<1>3. InTurn = {lead} \cup members[lead]
  BY <1>2, WhoIsInTurn DEF Owner
<1>4. InTurn \subseteq S
  BY <1>3 DEF Gathers
<1>5. \A x \in BatchOf(lead) : x \in Msg /\ stage[x] # "new" /\ stage[x] \notin Finished
  BY <1>1, BatchStages DEF Finished
<1>6. \A x \in {lead} \cup BatchOf(lead) : x \in InTurn \/ x \in Waiting
  BY <1>2, <1>5 DEF Waiting, Over
<1>7. S \ InTurn \subseteq Waiting
  BY <1>6 DEF Gathers
<1>8. failed \cup Elems(rest) \subseteq Waiting
  BY <1>4, <1>6 DEF Gathers
<1>. QED BY <1>2, <1>3, <1>4, <1>5, <1>7, <1>8

\* The lead of a batch being built holds the conversation.
LEMMA JoinsOwner ==
    ASSUME NEW lead \in Msg, NEW S, NEW failed, NEW rest, Gathers(lead, S, failed, rest)
    PROVE  Owner(lead)
BY DEF Gathers, Owner, Owning

\* Starting the loop closes the batch: the persisted are in, the others are over.
LEMMA LaunchExtends ==
    ASSUME PlaceInv, OneOwner, NEW lead \in Msg, NEW S, NEW failed,
           NEW rest, NEW drained,
           Gathers(lead, S, failed, rest), Launch(lead, S, Elems(rest), failed, drained),
           members[lead] \subseteq S, controller # None
    PROVE  Promise!Next
<1>1. /\ InTurn = {lead} \cup members[lead] /\ InTurn \subseteq S
      /\ S \ InTurn \in SUBSET Waiting /\ failed \cup Elems(rest) \in SUBSET Waiting
      /\ \A x \in {lead} \cup BatchOf(lead) :
                 x \in Msg /\ stage[x] # "new" /\ stage[x] \notin Finished
  BY JoinsAndLeaves
<1>2. /\ \A x \in Msg : x \notin {lead} \cup BatchOf(lead) => stage'[x] = stage[x]
      /\ \A x \in failed \cup Elems(rest) : stage'[x] \in {"done", "dropped"}
      /\ stage'[lead] = "looping" /\ \A x \in S : stage'[x] \in {"looping", "member"}
      /\ \A l \in Msg : members'[l] = IF l = lead THEN S ELSE members[l]
  <2>1. members' = [members EXCEPT ![lead] = S] /\ members \in [Msg -> SUBSET Msg]
    BY LaunchMoves DEF PlaceInv, TInv, TypeOK
  <2>. QED BY <2>1, LaunchMoves
<1>3. {lead} \cup BatchOf(lead) = S \cup failed \cup Elems(rest) /\ lead \in S
      /\ S \cap (failed \cup Elems(rest)) = {}
  BY DEF Gathers
<1>4. {"done", "dropped"} = Finished /\ {"looping", "member", "new"} \cap Finished = {}
      /\ "looping" \in Owning
  BY DEF Finished, Owning
<1>5. InTurn' = S
  <2>1. \A x \in Msg : Owner(x)' <=> x = lead
    <3>1. \A x \in Msg : x # lead => stage[x] \notin Owning
      BY <1>3, JoinsOwner DEF Owner, OneOwner
    <3>2. {"done", "dropped", "member"} \cap Owning = {}
      BY DEF Owning
    <3>3. \A x \in S \ {lead} : stage'[x] = "member"
      BY LaunchMoves
    <3>. QED BY <1>2, <1>3, <1>4, <3>1, <3>2, <3>3 DEF Owner
  <2>2. \A l \in Msg : members'[l] = IF l = lead THEN S ELSE {}
    <3>1. \A l \in Msg : l # lead => members[l] = {}
      BY JoinsOwner, WhoIsInTurn DEF OneOwner
    <3>. QED BY <1>2, <3>1
  <2>. QED BY <1>1, <1>3, <2>1, <2>2 DEF InTurn
<1>6. InTurn' = InTurn \cup (S \ InTurn)
  BY <1>1, <1>5
<1>7. Over' = Over \cup (failed \cup Elems(rest))
  BY <1>1, <1>2, <1>3, <1>4 DEF Over
<1>8. Fresh' = Fresh
  BY <1>1, <1>2, <1>3, <1>4 DEF Fresh
<1>9. InTurn # {} /\ (S \ InTurn) \cap (failed \cup Elems(rest)) = {}
  BY <1>1, <1>3
<1>. QED BY <1>1, <1>6, <1>7, <1>8, <1>9, Extends

\* Persisting the next tail takes it, or the one that failed, out of those that wait.
LEMMA GatherExtends ==
    ASSUME PlaceInv, OneOwner, NEW lead \in Msg, NEW S, NEW failed, NEW rest, NEW stop,
           Gathers(lead, S, failed, rest), GatherNext(lead, S, failed, rest, stop),
           members[lead] \subseteq S, controller # None
    PROVE  Promise!Next
<1>0. CASE rest = <<>> \/ stop
  BY <1>0, LaunchExtends DEF GatherNext
<1>. SUFFICES ASSUME rest # <<>>, ~stop PROVE Promise!Next
  BY <1>0
<1>1. /\ InTurn = {lead} \cup members[lead] /\ InTurn \subseteq S
      /\ S \ InTurn \in SUBSET Waiting /\ failed \in SUBSET Waiting
      /\ \A x \in {lead} \cup BatchOf(lead) :
                 x \in Msg /\ stage[x] # "new" /\ stage[x] \notin Finished
  BY JoinsAndLeaves
<1>2. /\ \A x \in Msg : x \notin {lead} \cup BatchOf(lead) => stage'[x] = stage[x]
      /\ \A x \in failed : stage'[x] = "done"
      /\ \A x \in Elems(rest) : stage'[x] \in {"tailPersist", "held"}
      /\ stage'[lead] = "gathering" /\ \A x \in S \ {lead} : stage'[x] = "held"
  BY GatherMoves DEF Gathers
<1>3. {lead} \cup BatchOf(lead) = S \cup failed \cup Elems(rest) /\ lead \in S
      /\ S \cap failed = {} /\ failed \cap Elems(rest) = {}
  BY DEF Gathers
<1>4. "done" \in Finished /\ {"gathering", "tailPersist", "held"} \cap Finished = {}
      /\ "gathering" \in Owning /\ {"done", "tailPersist", "held"} \cap Owning = {}
  BY DEF Finished, Owning
<1>5. InTurn' = S
  <2>1. \A x \in Msg : Owner(x)' <=> x = lead
    <3>1. \A x \in Msg : x # lead => stage[x] \notin Owning
      BY <1>3, JoinsOwner DEF Owner, OneOwner
    <3>. QED BY <1>2, <1>3, <1>4, <3>1 DEF Owner
  <2>2. \A l \in Msg : members'[l] = IF l = lead THEN S ELSE {}
    <3>1. \A l \in Msg : l # lead => members[l] = {}
      BY JoinsOwner, WhoIsInTurn DEF OneOwner
    <3>2. members' = [members EXCEPT ![lead] = S] /\ members \in [Msg -> SUBSET Msg]
      BY GatherMoves DEF PlaceInv, TInv, TypeOK
    <3>. QED BY <3>1, <3>2
  <2>. QED BY <1>1, <1>3, <2>1, <2>2 DEF InTurn
<1>6. InTurn' = InTurn \cup (S \ InTurn)
  BY <1>1, <1>5
<1>7. Over' = Over \cup failed
  BY <1>1, <1>2, <1>3, <1>4 DEF Over
<1>8. Fresh' = Fresh
  BY <1>1, <1>2, <1>3, <1>4 DEF Fresh
<1>9. InTurn # {} /\ (S \ InTurn) \cap failed = {}
  BY <1>1, <1>3
<1>. QED BY <1>1, <1>6, <1>7, <1>8, <1>9, Extends

\* So every step that builds a batch extends the turn it belongs to.
LEMMA BuildExtends ==
    ASSUME TurnInv, NEW m \in Msg, Builds(m)
    PROVE  Promise!Next
<1>1. PlaceInv /\ OneOwner /\ controller # None
  <2>1. stage[m] \in Turning
    BY BuildStays DEF TurnInv, Turning, Leading
  <2>. QED BY <2>1, NoneAssumption DEF TurnInv, Inv, CtlOK
<1>2. stage[m] # "gathering" => members[m] = {}
  <2>1. stage[m] \in {"postPersist", "drainPersist", "gathering"}
    BY <1>1, BuildStays
  <2>. QED BY <1>1, <2>1, LeadsNone DEF Leading
<1>3. CASE PostPersisted(m)
  <2>1. stage[m] = "postPersist" /\ Launch(m, {m}, {}, {}, FALSE)
    BY <1>3 DEF PostPersisted
  <2>2. Gathers(m, {m}, {}, <<>>) /\ Elems(<<>>) = {}
    BY <1>1, <2>1, GathersWhere, NoElems
  <2>. QED BY <1>1, <1>2, <2>1, <2>2, LaunchExtends
<1>4. CASE DrainPersisted(m)
  <2>1. stage[m] = "drainPersist" /\ GatherNext(m, {m}, {}, tails[m], Aborted)
    BY <1>4 DEF DrainPersisted
  <2>2. Gathers(m, {m}, {}, tails[m])
    BY <1>1, <2>1, GathersWhere
  <2>. QED BY <1>1, <1>2, <2>1, <2>2, GatherExtends
<1>5. CASE TailPersisted(m)
  <2>1. PICK S, rest : S = members[m] \cup {Head(tails[m])} /\ rest = Tail(tails[m])
    OBVIOUS
  <2>2. stage[m] = "gathering" /\ GatherNext(m, S, {}, rest, Aborted)
    BY <1>5, <2>1 DEF TailPersisted
  <2>3. Gathers(m, S, {}, rest)
    BY <1>1, <2>1, <2>2, GathersWhere
  <2>. QED BY <1>1, <2>1, <2>2, <2>3, GatherExtends
<1>6. CASE TailPersistFails(m)
  <2>1. PICK failed, rest : failed = {Head(tails[m])} /\ rest = Tail(tails[m])
    OBVIOUS
  <2>2. stage[m] = "gathering" /\ GatherNext(m, members[m], failed, rest, FALSE)
    BY <1>6, <2>1 DEF TailPersistFails, Surviving
  <2>3. Gathers(m, members[m], failed, rest)
    BY <1>1, <2>1, <2>2, GathersWhere
  <2>. QED BY <1>1, <2>2, <2>3, GatherExtends
<1>. QED BY <1>3, <1>4, <1>5, <1>6 DEF Builds

\* A message stays alike while it keeps its stage, waits, or holds the conversation.
LEMMA StaysAlike ==
    ASSUME NEW x \in Msg,
           \/ stage'[x] = stage[x]
           \/ (stage[x] \in Owning /\ stage'[x] \in Owning)
           \/ /\ stage[x] \in {"queued", "held", "dispatch", "drainCommand", "drainCompact"}
              /\ stage'[x] \in {"queued", "held", "dispatch", "drainCommand", "drainCompact"}
    PROVE  Alike(x)
<1>1. /\ "new" \notin Owning /\ Owning \cap Finished = {}
      /\ \A st \in {"queued", "held", "dispatch", "drainCommand", "drainCompact"} :
            st \notin Owning /\ st \notin Finished /\ st # "new"
  BY DEF Owning, Finished
<1>. QED BY <1>1 DEF Alike

\* A message that arrives waits, is refused, or opens a turn.
LEMMA PostPromise ==
    ASSUME TurnInv, NEW m \in Msg, Post(m)
    PROVE  Promise!Next
<1>1. PlaceInv /\ OneOwner /\ stage[m] = "new" /\ members' = members /\ kind[m] # "command"
  BY DEF TurnInv, Inv, NoCommands, Post
<1>2. "new" \notin Owning /\ {"new", "queued"} \cap Finished = {} /\ {"queued", "done"} \cap Owning = {}
      /\ "done" \in Finished
  BY DEF Owning, Finished
<1>3. CASE processing
  <2>1. PICK st \in {"queued", "done"} : stage' = Moved({m}, st)
    BY <1>3 DEF Post, Enqueue
  <2>2. \A x \in Msg : stage'[x] = IF x = m THEN st ELSE stage[x]
    BY <2>1 DEF Moved
  <2>3. Fresh' = Fresh \ {m}
    BY <2>2 DEF Fresh
  <2>4. Over' = Over \/ Over' = Over \cup {m}
    BY <1>1, <1>2, <2>2 DEF Over
  <2>5. InTurn' = InTurn
    <3>1. \A x \in Msg : Owner(x)' = Owner(x)
      BY <1>1, <1>2, <2>2 DEF Owner
    <3>. QED BY <1>1, <3>1 DEF InTurn
  <2>. QED BY <1>1, <2>3, <2>4, <2>5, Submits
<1>4. CASE ~processing
  <2>1. PICK st \in {"compactSave", "postPersist"} : stage' = Moved({m}, st)
    BY <1>1, <1>4 DEF Post, StartIdle
  <2>2. st \in Owning /\ \A x \in Msg : stage'[x] = IF x = m THEN st ELSE stage[x]
    BY <2>1 DEF Moved, Owning
  <2>. QED BY <1>1, <1>2, <1>4, <2>2, AlikeOpens
<1>. QED BY <1>3, <1>4

\* A drained message claims the idle conversation, or is over.
LEMMA DispatchPromise ==
    ASSUME TurnInv, NEW m \in Msg, DispatchText(m)
    PROVE  Promise!Next
<1>1. PlaceInv /\ OneOwner /\ stage[m] = "dispatch" /\ members' = members
  BY DEF TurnInv, Inv, DispatchText
<1>2. CASE MayClaim
  <2>1. ~processing /\ stage' = Moved({m}, "drainPersist")
    BY <1>2 DEF DispatchText, MayClaim
  <2>2. "dispatch" \notin Finished /\ "drainPersist" \in Owning
    BY DEF Finished, Owning
  <2>3. \A x \in Msg : stage'[x] = IF x = m THEN "drainPersist" ELSE stage[x]
    BY <2>1 DEF Moved
  <2>. QED BY <1>1, <2>1, <2>2, <2>3, AlikeOpens
<1>3. CASE ~MayClaim
  <2>1. DrainOn(m)
    BY <1>3 DEF DispatchText
  <2>2. stage'[m] = "done" /\ \A x \in Msg \ {m} : \/ stage'[x] = stage[x]
                                                   \/ (stage[x] = "held" /\ stage'[x] = "dispatch")
    BY <1>1, <2>1, DrainOnMoves
  <2>3. \A x \in Msg \ {m} : Alike(x)
    BY <2>2, StaysAlike
  <2>. QED BY <1>1, <2>2, <2>3, AlikeResolves
<1>. QED BY <1>2, <1>3

\* A turn that fails, and a compaction that ends, are over with all they answered.
LEMMA FailPromise ==
    ASSUME TurnInv, NEW m \in Msg,
           PostPersistFails(m) \/ DrainPersistFails(m) \/ CompactSaveFails(m) \/ CompactEnds(m)
    PROVE  Promise!Next
<1>1. PlaceInv /\ OneOwner /\ members' = members
  BY DEF TurnInv, Inv, PostPersistFails, DrainPersistFails, CompactSaveFails, CompactEnds
<1>2. stage[m] \in {"postPersist", "drainPersist", "compactSave", "compacting"}
  BY DEF PostPersistFails, DrainPersistFails, CompactSaveFails, CompactEnds
<1>3. Owner(m) /\ members[m] = {}
  BY <1>1, <1>2, LeadsNone DEF Owner, Owning, Leading
<1>4. stage'[m] = "done" /\ \A x \in Msg \ {m} : \/ stage'[x] = stage[x]
                                                 \/ (stage[x] = "held" /\ stage'[x] = "dispatch")
  <2>1. CASE DrainPersistFails(m)
    <3>1. stage[m] = "drainPersist" /\ DrainOn(m)
      BY <2>1 DEF DrainPersistFails
    <3>. QED BY <1>1, <3>1, DrainOnMoves
  <2>2. CASE PostPersistFails(m) \/ CompactSaveFails(m) \/ CompactEnds(m)
    BY <2>2 DEF PostPersistFails, CompactSaveFails, CompactEnds, Moved
  <2>. QED BY <2>1, <2>2
<1>5. \A x \in Msg \ {m} : Alike(x)
  BY <1>4, StaysAlike
<1>. QED BY <1>1, <1>3, <1>4, <1>5, AlikeCloses

\* So is a turn whose loop ends.
LEMMA EndPromise ==
    ASSUME TurnInv, NEW m \in Msg, LoopEnds(m)
    PROVE  Promise!Next
<1>1. PlaceInv /\ OneOwner /\ stage[m] = "settling" /\ m \in members[m]
      /\ members \in [Msg -> SUBSET Msg]
  BY DEF TurnInv, Inv, PlaceInv, TInv, TypeOK, LeadOK, LoopEnds
<1>2. /\ \A x \in Msg : stage'[x] = IF x \in members[m] THEN "done" ELSE stage[x]
      /\ members' = [members EXCEPT ![m] = {}]
  BY DEF LoopEnds, Moved
<1>3. Owner(m)
  BY <1>1 DEF Owner, Owning
<1>4. /\ \A x \in {m} \cup members[m] : stage'[x] = "done"
      /\ \A x \in Msg : x \notin {m} \cup members[m] => Alike(x)
  BY <1>1, <1>2, StaysAlike
<1>5. members'[m] = {} /\ \A l \in Msg : l # m => members'[l] = members[l]
  BY <1>1, <1>2
<1>. QED BY <1>1, <1>3, <1>4, <1>5, AlikeCloses

\* A drained command that is answered and a deleted message are over without a turn.
LEMMA OnePromise ==
    ASSUME TurnInv, NEW m \in Msg, DrainedCommandEnds(m) \/ DeleteQueued(m)
    PROVE  Promise!Next
<1>1. PlaceInv /\ OneOwner /\ members' = members /\ stage' = Moved({m}, "done")
  BY DEF TurnInv, Inv, DrainedCommandEnds, DeleteQueued
<1>2. DeleteQueued(m) => m \in Elems(queue)
  BY DEF DeleteQueued, Elems
<1>3. stage[m] \in {"queued", "dispatch", "drainCommand", "drainCompact"}
  BY <1>1, <1>2 DEF DrainedCommandEnds, PlaceInv, QueueOK
<1>4. \A x \in Msg : stage'[x] = IF x = m THEN "done" ELSE stage[x]
  BY <1>1 DEF Moved
<1>5. \A x \in Msg \ {m} : Alike(x)
  BY <1>4, StaysAlike
<1>. QED BY <1>1, <1>3, <1>4, <1>5, AlikeResolves

\* A cancel is the end of all that is queued; the turn goes on.
LEMMA AbortPromise ==
    ASSUME TurnInv, Abort
    PROVE  Promise!Next
<1>1. PlaceInv /\ OneOwner /\ members' = members /\ QueueOK /\ queue \in Seq(Msg)
  BY DEF TurnInv, Inv, PlaceInv, TInv, TypeOK, Abort
<1>2. PICK D : D = Elems(queue)
  OBVIOUS
<1>3. D \in SUBSET Msg /\ \A x \in D : stage[x] = "queued"
  BY <1>1, <1>2, ElemsType DEF QueueOK
<1>4. \A x \in Msg : stage'[x] = IF x \in D THEN "done" ELSE stage[x]
  BY <1>2 DEF Abort, Moved
<1>5. \A x \in Msg \ D : Alike(x)
  BY <1>4, StaysAlike
<1>6. \A x \in D : stage[x] \in {"queued", "dispatch", "drainCommand", "drainCompact"}
                   /\ stage'[x] = "done"
  BY <1>3, <1>4
<1>. QED BY <1>1, <1>3, <1>5, <1>6, AlikeResolves

\* The steps of a turn, of a drain and of a wake that the promise does not see.
LEMMA QuietPromise ==
    ASSUME TurnInv,
           \/ \E m \in Msg : \/ DispatchCommand(m) \/ LoopYields(m) \/ LoopAnswers(m)
                             \/ CompactSaved(m)
           \/ DrainTake \/ WakeStarts \/ WakeEnds \/ UNCHANGED vars
    PROVE  UNCHANGED Promise!pvars
<1>1. members' = members
  BY DEF DispatchCommand, LoopYields, LoopAnswers, CompactSaved, DrainTake, WakeStarts,
         WakeEnds, vars
<1>2. ASSUME NEW m \in Msg, DispatchCommand(m) \/ LoopYields(m) \/ LoopAnswers(m) \/ CompactSaved(m)
      PROVE  \A x \in Msg : Alike(x)
  <2>1. \/ Hops(m, {"dispatch"}, {"drainCommand", "drainCompact"})
        \/ Hops(m, {"looping", "yielding", "compactSave"}, {"yielding", "settling", "compacting"})
    BY <1>2 DEF DispatchCommand, LoopYields, LoopAnswers, CompactSaved, Hops
  <2>2. CASE Hops(m, {"dispatch"}, {"drainCommand", "drainCompact"})
    <3>1. stage[m] = "dispatch"
      BY <2>2 DEF Hops
    <3>. QED BY <2>2, <3>1, HopsAlone, StaysAlike
  <2>3. CASE Hops(m, {"looping", "yielding", "compactSave"}, {"yielding", "settling", "compacting"})
    <3>1. stage[m] \in {"looping", "yielding", "compactSave"}
      BY <2>3 DEF Hops
    <3>2. {"looping", "yielding", "compactSave", "settling", "compacting"} \subseteq Owning
      BY DEF Owning
    <3>3. stage'[m] \in Owning /\ \A x \in Msg \ {m} : stage'[x] = stage[x]
      BY <2>3, <3>2, HopsAlone
    <3>. QED BY <3>1, <3>2, <3>3, StaysAlike
  <2>. QED BY <2>1, <2>2, <2>3
<1>3. ASSUME DrainTake, queue # <<>> PROVE \A x \in Msg : Alike(x)
  <2>1. PICK h \in Msg, rest \in Seq(Msg) :
            /\ stage'[h] = "dispatch"
            /\ \A x \in Elems(rest) : stage'[x] = "held"
            /\ \A x \in Msg : x # h /\ x \notin Elems(rest) => stage'[x] = stage[x]
            /\ \A x \in {h} \cup Elems(rest) : stage[x] = "queued"
    BY <1>3, TakeMoves DEF TurnInv
  <2>2. \A x \in Msg : \/ stage'[x] = stage[x]
                       \/ (stage[x] = "queued" /\ stage'[x] \in {"dispatch", "held"})
    BY <2>1
  <2>. QED BY <2>2, StaysAlike
<1>4. ASSUME (DrainTake /\ queue = <<>>) \/ WakeStarts \/ WakeEnds \/ UNCHANGED vars
      PROVE  \A x \in Msg : Alike(x)
  <2>1. stage' = stage
    BY <1>4 DEF DrainTake, WakeStarts, WakeEnds, vars
  <2>. QED BY <2>1, StaysAlike
<1>. QED BY <1>1, <1>2, <1>3, <1>4, AlikeStutters

\* Unless slash commands that look up keys are sent, the queue, the batches and the
\* drains implement one turn at a time: a turn answers its messages together, and
\* no message that is over is taken up again.
THEOREM ImplementsPromiseHolds ==
    ASSUME "command" \notin Kinds
    PROVE  Spec => ImplementsPromise
<1>1. Init => Promise!Init
  <2>. SUFFICES ASSUME Init PROVE Promise!Init
    OBVIOUS
  <2>1. \A x \in Msg : stage[x] = "new" /\ members[x] = {}
    BY DEF Init
  <2>2. InTurn = {} /\ Over = {}
    BY <2>1 DEF InTurn, Over, Owner, Owning, Finished
  <2>. QED BY <2>1, <2>2 DEF Promise!Init
<1>2. ASSUME TurnInv, [Next]_vars PROVE [Promise!Next]_(Promise!pvars)
  <2>1. ASSUME NEW m \in Msg, Post(m) PROVE Promise!Next
    BY <1>2, <2>1, PostPromise
  <2>2. ASSUME NEW m \in Msg, Builds(m) PROVE Promise!Next
    BY <1>2, <2>2, BuildExtends
  <2>3. ASSUME NEW m \in Msg, DispatchText(m) PROVE Promise!Next
    BY <1>2, <2>3, DispatchPromise
  <2>4. ASSUME NEW m \in Msg,
               PostPersistFails(m) \/ DrainPersistFails(m) \/ CompactSaveFails(m) \/ CompactEnds(m)
        PROVE  Promise!Next
    BY <1>2, <2>4, FailPromise
  <2>5. ASSUME NEW m \in Msg, LoopEnds(m) PROVE Promise!Next
    BY <1>2, <2>5, EndPromise
  <2>6. ASSUME NEW m \in Msg, DrainedCommandEnds(m) \/ DeleteQueued(m) PROVE Promise!Next
    BY <1>2, <2>6, OnePromise
  <2>7. ASSUME NEW m \in Msg, CommandStarts(m) \/ CommandEnds(m) PROVE FALSE
    BY <1>2, <2>7 DEF CommandStarts, CommandEnds, TurnInv, Inv, NoCommands
  <2>8. CASE Abort
    BY <1>2, <2>8, AbortPromise
  <2>9. CASE \/ \E m \in Msg : \/ DispatchCommand(m) \/ LoopYields(m) \/ LoopAnswers(m)
                               \/ CompactSaved(m)
             \/ DrainTake \/ WakeStarts \/ WakeEnds \/ UNCHANGED vars
    BY <1>2, <2>9, QuietPromise
  <2>. QED
    BY <1>2, <2>1, <2>2, <2>3, <2>4, <2>5, <2>6, <2>7, <2>8, <2>9 DEF Next, Step, Builds
<1>. QED BY TurnInvInductive, <1>1, <1>2, PTL DEF Spec, ImplementsPromise, Promise!Spec
=============================================================================
