-------------------------- MODULE WifiEloopProofs --------------------------
(***************************************************************************)
(* Proofs about the event loop, for any number of tasks, callbacks,         *)
(* timeouts and messages and any size of the queue: the types; that no      *)
(* timeout is called before its time; and, before the 32-bit millisecond    *)
(* clock reaches its sign bit (24.8 days), that the list of timeouts is in  *)
(* order and the loop never sleeps past one of them.                        *)
(***************************************************************************)
EXTENDS WifiEloop, SequenceTheorems, WellFoundedInduction, TLAPS

-----------------------------------------------------------------------------
(* The clock                                                                *)

\* Half the range of the clock is where its sign bit begins.
LEMMA Halves ==
    /\ ClockMod \in Nat /\ ClockMod > 1
    /\ ClockMod \div 2 \in Nat /\ ClockMod \div 2 > 0
    /\ ClockMod \div 2 + ClockMod \div 2 = ClockMod
  BY EloopAssumption DEF EloopAssumption

\* A time cut to the width of the clock.
LEMMA Cut ==
    ASSUME NEW a \in Nat
    PROVE  /\ a % ClockMod \in 0..ClockMod-1
           /\ a < ClockMod => a % ClockMod = a
  BY EloopAssumption DEF EloopAssumption

\* Below the sign bit SYS_TIME_AFTER_EQ is the order of the numbers, in either
\* build.
LEMMA AfterEqEarly ==
    ASSUME NEW a \in Nat, NEW b \in Nat,
           a < ClockMod \div 2, b < ClockMod \div 2
    PROVE  AfterEq(a, b) <=> a >= b
  <1> DEFINE h == ClockMod \div 2
  <1>1. /\ ClockMod \in Nat /\ h \in Nat /\ h + h = ClockMod /\ h > 0
    BY Halves
  <1>2. ASSUME WrapSub PROVE AfterEq(a, b) <=> a >= b
    <2>1. a >= b => (a + ClockMod - b) % ClockMod = a - b
      <3>1. a >= b => /\ a - b \in Nat /\ a - b < ClockMod
                      /\ a + ClockMod - b = (a - b) + ClockMod
        BY <1>1
      <3>2. ASSUME NEW x \in Nat, x < ClockMod
            PROVE  (x + ClockMod) % ClockMod = x
        BY <3>2, <1>1
      <3> QED BY <3>1, <3>2
    <2>2. a < b => (a + ClockMod - b) % ClockMod = a + ClockMod - b
      <3>1. a < b => a + ClockMod - b \in Nat /\ a + ClockMod - b < ClockMod
        BY <1>1
      <3> QED BY <3>1, Cut
    <2>3. a >= b => a - b < h
      BY <1>1
    <2>4. a < b => ~(a + ClockMod - b < h)
      BY <1>1
    <2> QED BY <1>2, <2>1, <2>2, <2>3, <2>4 DEF AfterEq
  <1>3. ASSUME ~WrapSub PROVE AfterEq(a, b) <=> a >= b
    <2>1. Signed(a) = a + h /\ Signed(b) = b + h
      <3>1. a + h \in Nat /\ a + h < ClockMod /\ b + h \in Nat /\ b + h < ClockMod
        BY <1>1
      <3> QED BY <3>1, Cut DEF Signed
    <2> QED BY <1>1, <1>3, <2>1 DEF AfterEq
  <1> QED BY <1>2, <1>3

\* At any time a build whose subtraction wraps finds that a time ahead of the
\* clock, by no more than half its range, has not come.
LEMMA AfterEqWraps ==
    ASSUME WrapSub, NEW c \in Nat, NEW u \in Nat, c < u,
           u <= c + ClockMod \div 2
    PROVE  ~AfterEq(c % ClockMod, u % ClockMod)
  <1> DEFINE M == ClockMod
             h == ClockMod \div 2
             r == c % M
             s == u % M
             k == (u \div M) - (c \div M)
  <1>1. M \in Nat /\ M > 0 /\ h \in Nat /\ h + h = M /\ h > 0
    BY Halves
  <1>2. r \in 0..M-1 /\ s \in 0..M-1
    BY Cut
  <1>3. /\ c \div M \in Int /\ u \div M \in Int
        /\ c = M * (c \div M) + r /\ u = M * (u \div M) + s
    BY <1>1
  <1>4. k \in Int /\ u - c = M * k + s - r
    BY <1>1, <1>2, <1>3
  <1>5. u - c > 0 /\ u - c <= h
    BY <1>1
  <1> HIDE DEF r, s, k, h, M
  <1>6. k \in {0, 1}
    <2>1. M * k > -M /\ M * k < M + M
      <3>1. M * k \in Int
        BY <1>1, <1>4
      <3> QED BY <1>1, <1>2, <1>4, <1>5, <3>1
    <2>2. k > -1
      <3>1. k <= -1 => M * k <= -M
        BY <1>1, <1>4
      <3> QED BY <1>1, <1>4, <2>1, <3>1
    <2>3. k < 2
      <3>1. k >= 2 => M * k >= M + M
        BY <1>1, <1>4
      <3> QED BY <1>1, <1>4, <2>1, <3>1
    <2> QED BY <1>4, <2>2, <2>3
  <1>7. CASE k = 0
    <2>1. /\ r + M - s \in Nat /\ r + M - s < M /\ r + M - s >= h
      BY <1>1, <1>2, <1>4, <1>5, <1>7
    <2>2. (r + M - s) % M = r + M - s
      BY <2>1, Cut DEF M
    <2> QED BY <1>1, <1>2, <2>1, <2>2 DEF AfterEq, r, s, M, h
  <1>8. CASE k = 1
    <2> DEFINE x == r - s
    <2>1. /\ x \in Nat /\ x < M /\ x >= h /\ r + M - s = x + M
      BY <1>1, <1>2, <1>4, <1>5, <1>8
    <2>2. (x + M) % M = x
      BY <1>1, <2>1
    <2> QED BY <1>1, <1>2, <2>1, <2>2 DEF AfterEq, r, s, M, h
  <1> QED BY <1>6, <1>7, <1>8

-----------------------------------------------------------------------------
(* The list of timeouts                                                     *)

\* A set of numbers has a least one.
LEMMA Least ==
    ASSUME NEW S, S \subseteq Nat, S # {}
    PROVE  \E m \in S : \A k \in S : m <= k
  <1> DEFINE R == {ss \in Nat \X Nat : ss[1] < ss[2]}
  <1>1. IsWellFoundedOn(R, Nat)
    BY NatLessThanWellFounded DEF OpToRel
  <1>2. PICK m \in S : \A k \in S : ~ <<k, m>> \in R
    <2> HIDE DEF R
    <2> QED BY <1>1, WFMin, Zenon
  <1>3. \A k \in S : k < m => <<k, m>> \in R
    <2> TAKE k \in S
    <2>1. <<k, m>> \in Nat \X Nat /\ <<k, m>>[1] = k /\ <<k, m>>[2] = m
      OBVIOUS
    <2> QED BY <2>1
  <1>4. \A k \in S : k \in Nat
    OBVIOUS
  <1>5. ASSUME NEW k \in S PROVE m <= k
    <2>1. ~(k < m)
      BY <1>2, <1>3, Zenon
    <2> QED BY <1>4, <2>1
  <1> QED BY <1>5

\* A new timeout gets a place: before it those that are not later, behind it
\* those that were there, the first of them later.
LEMMA InsertPlace ==
    ASSUME NEW list \in Seq(Timeouts), NEW t \in Timeouts
    PROVE  /\ Insert(list, t) \in Seq(Timeouts)
           /\ Len(Insert(list, t)) = Len(list) + 1
           /\ \E k \in 1..Len(list) + 1 :
                 /\ Insert(list, t)[k] = t
                 /\ \A i \in 1..Len(list) :
                       /\ i < k => /\ Insert(list, t)[i] = list[i]
                                   /\ list[i].time <= t.time
                       /\ i >= k => Insert(list, t)[i + 1] = list[i]
                 /\ k <= Len(list) => t.time < list[k].time
  <1> DEFINE later == {i \in 1..Len(list) : t.time < list[i].time}
             k == IF later = {} THEN Len(list) + 1
                  ELSE CHOOSE i \in later : \A j \in later : i <= j
             a == SubSeq(list, 1, k - 1)
             z == SubSeq(list, k, Len(list))
  <1>1. /\ k \in 1..Len(list) + 1
        /\ \A i \in 1..Len(list) : i < k => i \notin later
        /\ k <= Len(list) => k \in later
    <2>1. later \subseteq 1..Len(list) /\ Len(list) \in Nat
      OBVIOUS
    <2>2. later # {} => \E i \in later : \A j \in later : i <= j
      <3> HIDE DEF later
      <3>1. later \subseteq Nat
        BY <2>1
      <3> QED BY <3>1, Least
    <2>3. /\ later = {} => k = Len(list) + 1
          /\ later # {} => k \in later /\ \A j \in later : k <= j
      <3> HIDE DEF later
      <3> QED BY <2>2
    <2>4. \A i \in 1..Len(list) : i \in Nat
      OBVIOUS
    <2> HIDE DEF k, later
    <2>5. CASE later = {}
      BY <2>1, <2>3, <2>5
    <2>6. CASE later # {}
      <3>1. k \in 1..Len(list) /\ Len(list) \in Nat
        BY <2>1, <2>3, <2>6
      <3>2. k \in later /\ \A j \in later : k <= j
        BY <2>3, <2>6
      <3>3. \A i \in 1..Len(list) : i < k => ~(k <= i)
        BY <3>1
      <3> QED BY <3>1, <3>2, <3>3
    <2> QED BY <2>5, <2>6
  <1>2. t.time \in Nat /\ \A i \in 1..Len(list) : list[i].time \in Nat
    <2>1. ASSUME NEW u \in Timeouts PROVE u.time \in Nat
      <3>1. u.time \in 0..ClockMod-1
        BY DEF Timeouts
      <3> QED BY <3>1, Halves
    <2>2. \A i \in 1..Len(list) : list[i] \in Timeouts
      OBVIOUS
    <2> QED BY <2>1, <2>2
  <1> HIDE DEF k
  <1>3. /\ a \in Seq(Timeouts) /\ Len(a) = k - 1
        /\ \A i \in 1..k - 1 : a[i] = list[i]
    BY <1>1, SubSeqProperties
  <1>4. /\ z \in Seq(Timeouts) /\ Len(z) = Len(list) - k + 1
        /\ \A i \in 1..Len(list) - k + 1 : z[i] = list[k + i - 1]
    BY <1>1, SubSeqProperties
  <1>5. Insert(list, t) = (a \o <<t>>) \o z
    BY DEF Insert, k
  <1> HIDE DEF a, z
  <1> DEFINE b == a \o <<t>>
  <1>6. /\ b \in Seq(Timeouts) /\ Len(b) = k
        /\ \A i \in 1..k : b[i] = IF i < k THEN a[i] ELSE t
    <2>1. <<t>> \in Seq(Timeouts) /\ Len(<<t>>) = 1 /\ <<t>>[1] = t
      OBVIOUS
    <2> QED BY <1>1, <1>3, <2>1, ConcatProperties
  <1> HIDE DEF b
  <1>7. /\ b \o z \in Seq(Timeouts) /\ Len(b \o z) = Len(list) + 1
        /\ \A i \in 1..Len(list) + 1 :
              (b \o z)[i] = IF i <= k THEN b[i] ELSE z[i - k]
    <2>1. Len(b) + Len(z) = Len(list) + 1
      BY <1>1, <1>4, <1>6
    <2> QED BY <1>4, <1>6, <2>1, ConcatProperties
  <1>8. Insert(list, t) = b \o z
    BY <1>5 DEF b
  <1>9. \A i \in 1..Len(list) : i < k => (b \o z)[i] = list[i]
    BY <1>1, <1>3, <1>6, <1>7
  <1>10. \A i \in 1..Len(list) : i >= k => (b \o z)[i + 1] = list[i]
    <2> TAKE i \in 1..Len(list)
    <2>1. i >= k => /\ i + 1 \in 1..Len(list) + 1 /\ ~(i + 1 <= k)
                    /\ i + 1 - k \in 1..Len(list) - k + 1
                    /\ k + (i + 1 - k) - 1 = i
      BY <1>1
    <2>2. i >= k => (b \o z)[i + 1] = z[i + 1 - k]
      <3>1. i + 1 - k = (i + 1) - k
        BY <1>1
      <3> QED BY <1>7, <2>1, <3>1
    <2>3. i >= k => z[i + 1 - k] = list[k + (i + 1 - k) - 1]
      BY <1>4, <2>1
    <2> QED BY <2>1, <2>2, <2>3
  <1>11. (b \o z)[k] = t
    BY <1>1, <1>6, <1>7
  <1>12. \A i \in 1..Len(list) : i < k => list[i].time <= t.time
    BY <1>1, <1>2
  <1>13. k <= Len(list) => t.time < list[k].time
    BY <1>1
  <1> HIDE DEF later
  <1> QED BY <1>1, <1>7, <1>8, <1>9, <1>10, <1>11, <1>12, <1>13

\* The timeout a callback registers.
New(h, d) == [time |-> (Now + d) % ClockMod, handler |-> h, due |-> clock + d]

\* After a callback there are timeouts it found, and perhaps a new one.
LEMMA CallbackTimeouts ==
    ASSUME clock \in Nat, NEW list \in Seq(Timeouts), Callback(list)
    PROVE  /\ timeouts' \in Seq(Timeouts)
           /\ \A i \in 1..Len(timeouts') :
                 \/ \E j \in 1..Len(list) : timeouts'[i] = list[j]
                 \/ \E h \in Handlers, d \in Delays :
                       clock + d <= MaxTime /\ timeouts'[i] = New(h, d)
  <1>1. CASE timeouts' = list
    BY <1>1
  <1>2. ASSUME NEW h \in Handlers, NEW d \in Delays, clock + d <= MaxTime,
               timeouts' = Insert(list, New(h, d))
        PROVE  /\ timeouts' \in Seq(Timeouts)
               /\ \A i \in 1..Len(timeouts') :
                     \/ \E j \in 1..Len(list) : timeouts'[i] = list[j]
                     \/ timeouts'[i] = New(h, d)
    <2>1. New(h, d) \in Timeouts
      <3>1. clock % ClockMod \in Nat /\ d \in Nat
        BY Cut, Halves, EloopAssumption DEF EloopAssumption
      <3>2. (Now + d) % ClockMod \in 0..ClockMod-1 /\ clock + d \in Nat
        <4>1. Now + d \in Nat
          BY <3>1 DEF Now
        <4> QED BY <3>1, <4>1, Cut
      <3> QED BY <3>2 DEF New, Timeouts
    <2>2. PICK k \in 1..Len(list) + 1 :
             /\ timeouts'[k] = New(h, d)
             /\ \A i \in 1..Len(list) : /\ i < k => timeouts'[i] = list[i]
                                        /\ i >= k => timeouts'[i + 1] = list[i]
      BY <1>2, <2>1, InsertPlace
    <2>3. timeouts' \in Seq(Timeouts) /\ Len(timeouts') = Len(list) + 1
      BY <1>2, <2>1, InsertPlace
    <2>4. ASSUME NEW i \in 1..Len(timeouts')
          PROVE  \/ \E j \in 1..Len(list) : timeouts'[i] = list[j]
                 \/ timeouts'[i] = New(h, d)
      <3>1. i < k => i \in 1..Len(list) /\ timeouts'[i] = list[i]
        BY <2>2, <2>3
      <3>2. i > k => i - 1 \in 1..Len(list) /\ timeouts'[i] = list[i - 1]
        <4>1. i > k => i - 1 \in 1..Len(list) /\ i - 1 >= k /\ (i - 1) + 1 = i
          BY <2>2, <2>3
        <4> QED BY <2>2, <4>1
      <3> QED BY <2>2, <2>3, <3>1, <3>2
    <2> QED BY <2>3, <2>4
  <1>3. ASSUME NEW h \in Handlers, Cancel(list, h)
        PROVE  /\ timeouts' \in Seq(Timeouts)
               /\ \A i \in 1..Len(timeouts') :
                     \E j \in 1..Len(list) : timeouts'[i] = list[j]
    <2>1. PICK n \in 0..Len(list) : \E place \in [1..n -> 1..Len(list)] :
             timeouts' = [i \in 1..n |-> list[place[i]]]
      <3> DEFINE others == {i \in 1..Len(list) : list[i].handler # h}
      <3>1. PICK n \in 0..Len(list) : \E place \in [1..n -> others] :
               timeouts' = [i \in 1..n |-> list[place[i]]]
        BY <1>3 DEF Cancel
      <3>2. [1..n -> others] \subseteq [1..n -> 1..Len(list)]
        OBVIOUS
      <3> QED BY <3>1, <3>2
    <2>2. PICK place \in [1..n -> 1..Len(list)] :
             timeouts' = [i \in 1..n |-> list[place[i]]]
      BY <2>1
    <2>3. timeouts' \in Seq(Timeouts) /\ Len(timeouts') = n
      BY <2>2
    <2> QED BY <2>2, <2>3
  <1> QED BY <1>1, <1>2, <1>3 DEF Callback, New

\* A list without its first timeout.
LEMMA TailType ==
    ASSUME NEW list \in Seq(Timeouts), list # <<>>
    PROVE  /\ Tail(list) \in Seq(Timeouts)
           /\ Len(list) \in Nat /\ Len(list) > 0 /\ Len(Tail(list)) = Len(list) - 1
           /\ \A i \in 1..Len(Tail(list)) :
                 i + 1 \in 1..Len(list) /\ Tail(list)[i] = list[i + 1]
           /\ Head(list) = list[1] /\ Head(list) \in Timeouts
  OBVIOUS

\* A step of the loop leaves the timeouts, hands them to a callback, with or
\* without the first, or frees them.
LEMMA LoopTimeouts ==
    ASSUME timeouts \in Seq(Timeouts), Loop
    PROVE  /\ UNCHANGED clock
           /\ \/ UNCHANGED timeouts
              \/ \E list \in Seq(Timeouts) :
                    /\ Callback(list)
                    /\ \/ list = timeouts
                       \/ pc = "handle" /\ Expired /\ list = Tail(timeouts)
              \/ timeouts' = <<>>
  BY TailType
  DEF Loop, LoopTop, LoopExit, Dispatch, WaitTimeout, TimeoutHandle,
      DestroyDrain, Destroy, Expired

\* No other step touches them.
LEMMA OtherTimeouts ==
    ASSUME Send \/ Tick
    PROVE  UNCHANGED <<timeouts, pc, wake, terminate>>
  BY DEF Send, SendStart, MqSend, MqUrgent, Tick, loopVars

-----------------------------------------------------------------------------
(* Types                                                                    *)

\* A sender that is in a call has made fewer than it may: with the types, what
\* every step keeps.
CallsLeft == \A s \in Senders : call[s] # "none" => sent[s] < MaxSends

TypeInv == TypeOK /\ CallsLeft

\* A post, at either end of the queue, is one call of its sender.
LEMMA PostType ==
    ASSUME TypeInv, NEW s \in Senders, call[s] # "none"
    PROVE  /\ Message(s) \in Messages
           /\ Len(queue) < QueueCap =>
                 /\ Append(queue, Message(s)) \in Seq(Messages)
                 /\ Len(Append(queue, Message(s))) <= QueueCap
                 /\ <<Message(s)>> \o queue \in Seq(Messages)
                 /\ Len(<<Message(s)>> \o queue) <= QueueCap
  <1>1. Message(s) \in Messages
    BY DEF TypeInv, TypeOK, Message, Messages
  <1>2. /\ queue \in Seq(Messages) /\ Len(queue) \in Nat /\ QueueCap \in Nat
    BY EloopAssumption DEF EloopAssumption, TypeInv, TypeOK
  <1>3. <<Message(s)>> \in Seq(Messages) /\ Len(<<Message(s)>>) = 1
    BY <1>1
  <1>4. /\ <<Message(s)>> \o queue \in Seq(Messages)
        /\ Len(<<Message(s)>> \o queue) = 1 + Len(queue)
    BY <1>2, <1>3, ConcatProperties
  <1>5. /\ Append(queue, Message(s)) \in Seq(Messages)
        /\ Len(Append(queue, Message(s))) = Len(queue) + 1
    BY <1>1, <1>2
  <1> QED BY <1>1, <1>2, <1>4, <1>5

\* The return from a call.
LEMMA ReturnType ==
    ASSUME TypeInv, NEW s \in Senders, sent[s] < MaxSends, Return(s)
    PROVE  /\ call' \in [Senders -> {"none", "send", "urgent"}]
           /\ sent' \in [Senders -> 0..MaxSends]
           /\ CallsLeft'
  <1>1. /\ call' = [call EXCEPT ![s] = "none"]
        /\ sent' = [sent EXCEPT ![s] = sent[s] + 1]
        /\ call \in [Senders -> {"none", "send", "urgent"}]
        /\ sent \in [Senders -> 0..MaxSends]
        /\ MaxSends \in Nat
    BY EloopAssumption DEF EloopAssumption, TypeInv, TypeOK, Return
  <1>2. \A x \in Senders : x # s => call'[x] = call[x] /\ sent'[x] = sent[x]
    BY <1>1
  <1>3. call'[s] = "none"
    BY <1>1
  <1>4. CallsLeft'
    BY <1>2, <1>3 DEF TypeInv, CallsLeft
  <1>5. sent[s] + 1 \in 0..MaxSends
    BY <1>1
  <1> QED BY <1>1, <1>4, <1>5

\* A step of the loop keeps the types.
LEMMA LoopType ==
    ASSUME TypeInv, Loop
    PROVE  TypeInv'
  <1>1. clock \in Nat /\ timeouts \in Seq(Timeouts)
    BY DEF TypeInv, TypeOK
  <1>2. timeouts' \in Seq(Timeouts) /\ clock' \in Nat
    <2>1. \A list \in Seq(Timeouts) : Callback(list) => timeouts' \in Seq(Timeouts)
      BY <1>1, CallbackTimeouts
    <2>2. <<>> \in Seq(Timeouts)
      OBVIOUS
    <2> QED BY <1>1, <2>1, <2>2, LoopTimeouts
  <1>3. /\ UNCHANGED senderVars
        /\ \/ UNCHANGED queue
           \/ queue # <<>> /\ queue' = Tail(queue)
        /\ terminate' \in BOOLEAN
        /\ pc' \in {"top", "wait", "handle", "drain", "done"}
    BY DEF TypeInv, TypeOK, Loop, LoopTop, LoopExit, Dispatch, WaitTimeout,
           TimeoutHandle, DestroyDrain, Destroy, senderVars
  <1>4. queue' \in Seq(Messages) /\ Len(queue') <= QueueCap
    <2>1. /\ queue \in Seq(Messages) /\ Len(queue) <= QueueCap
          /\ QueueCap \in Nat
      BY EloopAssumption DEF EloopAssumption, TypeInv, TypeOK
    <2>2. queue # <<>> => /\ Tail(queue) \in Seq(Messages)
                          /\ Len(Tail(queue)) = Len(queue) - 1
                          /\ Len(queue) \in Nat
      BY <2>1
    <2> QED BY <1>3, <2>1, <2>2
  <1>5. wake' \in Nat
    <2>1. timeouts # <<>> => Head(timeouts).time \in Nat
      <3>1. \A t \in Timeouts : t.time \in 0..ClockMod-1
        BY DEF Timeouts
      <3> QED BY <1>1, <3>1, TailType, Halves
    <2>2. \A a \in Nat : clock + ((a + ClockMod - Now) % ClockMod) \in Nat
      <3> TAKE a \in Nat
      <3>1. Now \in 0..ClockMod-1
        BY <1>1, Cut DEF Now
      <3>2. a + ClockMod - Now \in Nat
        BY <3>1, Halves
      <3>3. (a + ClockMod - Now) % ClockMod \in Nat
        BY <3>2, Cut, Halves
      <3> QED BY <1>1, <3>3
    <2>3. /\ \/ UNCHANGED wake
             \/ wake' = Forever
             \/ /\ timeouts # <<>>
                /\ wake' = clock + ((Head(timeouts).time + ClockMod - Now)
                                      % ClockMod)
      BY DEF Loop, LoopTop, LoopExit, Dispatch, WaitTimeout,
             TimeoutHandle, DestroyDrain, Destroy
    <2>4. Forever \in Nat /\ wake \in Nat
      BY EloopAssumption DEF EloopAssumption, Forever, TypeInv, TypeOK
    <2> QED BY <2>1, <2>2, <2>3, <2>4
  <1> QED BY <1>2, <1>3, <1>4, <1>5 DEF TypeInv, TypeOK, CallsLeft, senderVars

\* So does a step of a sender.
LEMMA SendType ==
    ASSUME TypeInv, NEW s \in Senders, SendStart(s) \/ MqSend(s) \/ MqUrgent(s)
    PROVE  TypeInv'
  <1>1. /\ UNCHANGED loopVars
        /\ \/ UNCHANGED queue
           \/ /\ Len(queue) < QueueCap /\ call[s] # "none"
              /\ queue' \in {Append(queue, Message(s)), <<Message(s)>> \o queue}
    BY DEF SendStart, MqSend, MqUrgent
  <1>2. queue' \in Seq(Messages) /\ Len(queue') <= QueueCap
    BY <1>1, PostType DEF TypeInv, TypeOK
  <1>3. /\ call \in [Senders -> {"none", "send", "urgent"}]
        /\ sent \in [Senders -> 0..MaxSends]
        /\ MaxSends \in Nat /\ MaxSends > 0
    BY EloopAssumption DEF EloopAssumption, TypeInv, TypeOK
  <1>4. sent[s] < MaxSends
    <2>1. CASE SendStart(s)
      BY <1>3, <2>1 DEF SendStart
    <2>2. CASE MqSend(s) \/ MqUrgent(s)
      BY <2>2 DEF MqSend, MqUrgent, TypeInv, CallsLeft
    <2> QED BY <2>1, <2>2
  <1>5. \/ Return(s)
        \/ \E c \in {"send", "urgent"} :
              call' = [call EXCEPT ![s] = c] /\ UNCHANGED sent
    BY DEF SendStart, MqSend, MqUrgent
  <1>6. /\ call' \in [Senders -> {"none", "send", "urgent"}]
        /\ sent' \in [Senders -> 0..MaxSends]
        /\ CallsLeft'
    <2>1. CASE Return(s)
      BY <1>4, <2>1, ReturnType
    <2>2. ASSUME NEW c \in {"send", "urgent"},
                 call' = [call EXCEPT ![s] = c], UNCHANGED sent
          PROVE  /\ call' \in [Senders -> {"none", "send", "urgent"}]
                 /\ sent' \in [Senders -> 0..MaxSends]
                 /\ CallsLeft'
      BY <1>3, <1>4, <2>2 DEF CallsLeft, TypeInv
    <2> QED BY <1>5, <2>1, <2>2
  <1> QED BY <1>1, <1>2, <1>6 DEF TypeInv, TypeOK, loopVars

\* The types hold in every state of every behaviour: in particular the queue
\* of the task never exceeds its size, however many tasks post at once through
\* sys_queue_post's two attempts.
THEOREM EloopTypes == Spec => []TypeOK
  <1>1. Init => TypeInv
    <2> SUFFICES ASSUME Init PROVE TypeInv
      OBVIOUS
    <2>1. <<>> \in Seq(Timeouts) /\ <<>> \in Seq(Messages) /\ Len(<<>>) = 0
      OBVIOUS
    <2>2. StartTime \in Nat /\ 0 \in 0..MaxSends /\ QueueCap >= 0
      BY EloopAssumption DEF EloopAssumption
    <2>3. /\ call \in [Senders -> {"none", "send", "urgent"}]
          /\ sent \in [Senders -> 0..MaxSends]
          /\ \A s \in Senders : call[s] = "none"
      BY <2>2 DEF Init
    <2> QED BY <2>1, <2>2, <2>3 DEF Init, TypeInv, TypeOK, CallsLeft
  <1>2. TypeInv /\ [Next]_vars => TypeInv'
    <2> SUFFICES ASSUME TypeInv, [Next]_vars PROVE TypeInv'
      OBVIOUS
    <2>1. CASE Loop
      BY <2>1, LoopType
    <2>2. CASE Send
      BY <2>2, SendType DEF Send
    <2>3. CASE Tick
      BY <2>3 DEF Tick, TypeInv, TypeOK, CallsLeft, senderVars
    <2>4. CASE UNCHANGED vars
      BY <2>4 DEF vars, TypeInv, TypeOK, CallsLeft
    <2> QED BY <2>1, <2>2, <2>3, <2>4 DEF Next
  <1>3. TypeInv => TypeOK
    BY DEF TypeInv
  <1> QED BY <1>1, <1>2, <1>3, PTL DEF Spec

-----------------------------------------------------------------------------
(* The times of the timeouts                                                *)

\* Adding to a time that was cut is adding to the time.
LEMMA CutSum ==
    ASSUME NEW c \in Nat, NEW d \in Nat
    PROVE  ((c % ClockMod) + d) % ClockMod = (c + d) % ClockMod
  <1> DEFINE M == ClockMod
             r == c % M
             s == (r + d) % M
             q == (c \div M) + ((r + d) \div M)
  <1>1. M \in Nat /\ M > 0
    BY Halves
  <1>2. r \in Nat /\ c \div M \in Int /\ c = M * (c \div M) + r
    BY <1>1
  <1> HIDE DEF r, M
  <1>3. /\ s \in 0..M-1 /\ (r + d) \div M \in Int
        /\ r + d = M * ((r + d) \div M) + s
    BY <1>1, <1>2
  <1>4. q \in Int /\ c + d = M * q + s
    BY <1>1, <1>2, <1>3
  <1> HIDE DEF s, q
  <1>5. (c + d) % M = s
    BY <1>1, <1>3, <1>4
  <1> QED BY <1>5 DEF s, r, M

\* What is said of the timeouts one by one: the time in the list is the one it
\* was meant for, cut to the width of the clock; that time is before the bound;
\* and it is no more than half the clock's range ahead.
Meant(t) == t.time = t.due % ClockMod
InBound(t) == t.due <= MaxTime
Near(t) == t.due <= clock + ClockMod \div 2

EachMeant == \A i \in 1..Len(timeouts) : Meant(timeouts[i])
EachInBound == \A i \in 1..Len(timeouts) : InBound(timeouts[i])
EachNear == \A i \in 1..Len(timeouts) : Near(timeouts[i])

\* Every delay is at most half the range of the clock: 24.8 days.
ShortDelays == \A d \in Delays : d <= ClockMod \div 2

\* A new timeout is all of these.
LEMMA NewTimes ==
    ASSUME clock \in Nat, NEW h \in Handlers, NEW d \in Delays,
           clock + d <= MaxTime
    PROVE  /\ New(h, d) \in Timeouts
           /\ Meant(New(h, d)) /\ InBound(New(h, d))
           /\ ShortDelays => Near(New(h, d))
  <1>1. d \in Nat /\ clock + d \in Nat
    BY EloopAssumption DEF EloopAssumption
  <1>2. (Now + d) % ClockMod = (clock + d) % ClockMod
    BY <1>1, CutSum DEF Now
  <1>3. (clock + d) % ClockMod \in 0..ClockMod-1
    BY <1>1, Cut
  <1>4. ShortDelays => d <= ClockMod \div 2
    BY DEF ShortDelays
  <1> QED BY <1>1, <1>2, <1>3, <1>4, Halves
          DEF New, Timeouts, Meant, InBound, Near

\* A callback leaves only timeouts like those it found, or new ones.
LEMMA CallbackTimes ==
    ASSUME clock \in Nat, NEW list \in Seq(Timeouts), Callback(list),
           UNCHANGED clock
    PROVE  /\ (\A i \in 1..Len(list) : Meant(list[i])) => EachMeant'
           /\ (\A i \in 1..Len(list) : InBound(list[i])) => EachInBound'
           /\ (\A i \in 1..Len(list) : Near(list[i])) /\ ShortDelays => EachNear'
  <1> SUFFICES ASSUME NEW i \in 1..Len(timeouts')
               PROVE  /\ (\A j \in 1..Len(list) : Meant(list[j]))
                            => Meant(timeouts'[i])
                      /\ (\A j \in 1..Len(list) : InBound(list[j]))
                            => InBound(timeouts'[i])
                      /\ (\A j \in 1..Len(list) : Near(list[j])) /\ ShortDelays
                            => Near(timeouts'[i])
    BY DEF EachMeant, EachInBound, EachNear, Meant, InBound, Near
  <1>1. CASE \E j \in 1..Len(list) : timeouts'[i] = list[j]
    BY <1>1
  <1>2. CASE \E h \in Handlers, d \in Delays :
                clock + d <= MaxTime /\ timeouts'[i] = New(h, d)
    BY <1>2, NewTimes
  <1> QED BY <1>1, <1>2, CallbackTimeouts

\* Every step keeps them.
LEMMA TimesSteps ==
    ASSUME TypeOK, [Next]_vars
    PROVE  /\ EachMeant => EachMeant'
           /\ EachInBound => EachInBound'
           /\ EachNear /\ ShortDelays => EachNear'
  <1>1. clock \in Nat /\ timeouts \in Seq(Timeouts)
    BY DEF TypeOK
  <1>2. ASSUME UNCHANGED timeouts, clock' \in {clock, clock + 1}
        PROVE  /\ EachMeant => EachMeant'
               /\ EachInBound => EachInBound'
               /\ EachNear /\ ShortDelays => EachNear'
    <2>1. \A i \in 1..Len(timeouts) : Near(timeouts[i]) => Near(timeouts[i])'
      <3> TAKE i \in 1..Len(timeouts)
      <3>1. timeouts[i] \in Timeouts
        BY <1>1
      <3>2. timeouts[i].due \in Nat
        BY <3>1 DEF Timeouts
      <3> QED BY <1>1, <1>2, <3>2, Halves DEF Near
    <2> QED BY <1>2, <2>1 DEF EachMeant, EachInBound, EachNear, Meant, InBound
  <1>3. CASE Loop
    <2>1. CASE UNCHANGED timeouts
      BY <1>2, <1>3, <2>1, LoopTimeouts DEF TypeOK
    <2>2. ASSUME NEW list \in Seq(Timeouts), Callback(list),
                 \/ list = timeouts
                 \/ Expired /\ list = Tail(timeouts)
          PROVE  /\ EachMeant => EachMeant'
                 /\ EachInBound => EachInBound'
                 /\ EachNear /\ ShortDelays => EachNear'
      <3>1. \A j \in 1..Len(list) :
               \E i \in 1..Len(timeouts) : list[j] = timeouts[i]
        BY <1>1, <2>2, TailType DEF Expired
      <3>2. UNCHANGED clock
        BY <1>1, <1>3, LoopTimeouts
      <3> QED BY <1>1, <2>2, <3>1, <3>2, CallbackTimes
              DEF EachMeant, EachInBound, EachNear
    <2>3. CASE timeouts' = <<>>
      BY <2>3 DEF EachMeant, EachInBound, EachNear
    <2> QED BY <1>1, <1>3, <2>1, <2>2, <2>3, LoopTimeouts
  <1>4. CASE Send
    BY <1>2, <1>4 DEF Send, SendStart, MqSend, MqUrgent, loopVars
  <1>5. CASE Tick
    BY <1>2, <1>5 DEF Tick
  <1>6. CASE UNCHANGED vars
    BY <1>2, <1>6 DEF vars
  <1> QED BY <1>3, <1>4, <1>5, <1>6 DEF Next

-----------------------------------------------------------------------------
(* Before its time                                                          *)

\* A timeout with its due time ahead has not expired.
Patient ==
    timeouts # <<>> /\ Head(timeouts).due > clock => ~Expired

\* Only an expired timeout is called.
LEMMA PatientNeverEarly ==
    ASSUME TypeOK, Patient, [Next]_vars
    PROVE  [pc = "handle" /\ timeouts # <<>> /\ Head(timeouts).due > clock
                => timeouts' = timeouts]_vars
  <1> SUFFICES ASSUME pc = "handle", timeouts # <<>>, Head(timeouts).due > clock,
                      Next
               PROVE  timeouts' = timeouts
    BY DEF vars
  <1>1. ~Expired
    BY DEF Patient
  <1>2. CASE Loop
    BY <1>1, <1>2 DEF Loop, LoopTop, LoopExit, Dispatch, WaitTimeout,
                      TimeoutHandle, DestroyDrain, Destroy
  <1>3. CASE Send \/ Tick
    BY <1>3, OtherTimeouts
  <1> QED BY <1>2, <1>3 DEF Next

\* In a build whose signed subtraction wraps, as the macros of wrapper_os.h
\* mean it to, no timeout of at most 24.8 days is ever called before its time:
\* at any time since boot, with the clock wrapped however often, and although
\* the list is then not in the order of the due times.
THEOREM NeverEarlyWrapping ==
    ASSUME WrapSub, ShortDelays
    PROVE  Spec => NeverEarly
  <1> DEFINE I == EachMeant /\ EachNear
  <1>1. Init => I
    BY DEF Init, EachMeant, EachNear
  <1>2. TypeOK /\ I /\ [Next]_vars => I'
    BY TimesSteps
  <1>3. TypeOK /\ I => Patient
    <2> SUFFICES ASSUME TypeOK, I, timeouts # <<>>, Head(timeouts).due > clock
                 PROVE  ~Expired
      BY DEF Patient
    <2>1. /\ timeouts \in Seq(Timeouts) /\ clock \in Nat
      BY DEF TypeOK
    <2>2. /\ Head(timeouts) \in Timeouts
          /\ Meant(Head(timeouts)) /\ Near(Head(timeouts))
      BY <2>1, TailType DEF EachMeant, EachNear
    <2>3. Head(timeouts).due \in Nat
      BY <2>2 DEF Timeouts
    <2>4. ~AfterEq(Now, Head(timeouts).time)
      BY <2>1, <2>2, <2>3, AfterEqWraps DEF Meant, Near, Now
    <2> QED BY <2>4 DEF Expired
  <1>4. TypeOK /\ I /\ [Next]_vars
        => [pc = "handle" /\ timeouts # <<>> /\ Head(timeouts).due > clock
                => timeouts' = timeouts]_vars
    BY <1>3, PatientNeverEarly
  <1>5. Spec => []TypeOK
    BY EloopTypes
  <1> QED BY <1>1, <1>2, <1>4, <1>5, PTL DEF Spec, NeverEarly

-----------------------------------------------------------------------------
(* The order of the list                                                    *)

\* InOrder, of any list.
Sorted(list) == \A i, j \in 1..Len(list) : i < j => list[i].due <= list[j].due

\* Before the clock wraps, the time in the list is the time meant.
LEMMA Unwrapped ==
    ASSUME MaxTime < ClockMod, NEW t \in Timeouts, Meant(t), InBound(t)
    PROVE  t.due \in Nat /\ t.time = t.due
  <1>1. t.due \in Nat /\ MaxTime \in Nat
    BY EloopAssumption DEF EloopAssumption, Timeouts
  <1> QED BY <1>1, Cut, Halves DEF Meant, InBound

\* A new timeout goes where its time belongs.
LEMMA InsertSorted ==
    ASSUME MaxTime < ClockMod, NEW list \in Seq(Timeouts), Sorted(list),
           \A i \in 1..Len(list) : Meant(list[i]) /\ InBound(list[i]),
           NEW t \in Timeouts, Meant(t), InBound(t)
    PROVE  Sorted(Insert(list, t))
  <1> DEFINE new == Insert(list, t)
  <1>1. PICK k \in 1..Len(list) + 1 :
           /\ new[k] = t
           /\ \A i \in 1..Len(list) :
                 /\ i < k => new[i] = list[i] /\ list[i].time <= t.time
                 /\ i >= k => new[i + 1] = list[i]
           /\ k <= Len(list) => t.time < list[k].time
    BY InsertPlace
  <1>2. Len(new) = Len(list) + 1 /\ Len(list) \in Nat
    BY InsertPlace
  <1>3. /\ t.due \in Nat /\ t.time = t.due
        /\ \A i \in 1..Len(list) :
              list[i].due \in Nat /\ list[i].time = list[i].due
    <2>1. \A i \in 1..Len(list) : list[i] \in Timeouts
      OBVIOUS
    <2> QED BY <2>1, Unwrapped
  <1> HIDE DEF new
  <1>4. \A i \in 1..Len(list) : i >= k => t.due < list[i].due
    <2> SUFFICES ASSUME NEW i \in 1..Len(list), i >= k
                 PROVE  t.due < list[i].due
      OBVIOUS
    <2>1. k \in 1..Len(list) /\ t.due < list[k].due
      BY <1>1, <1>2, <1>3
    <2>2. list[k].due <= list[i].due
      <3>1. k = i \/ k < i
        BY <2>1
      <3> QED BY <1>3, <2>1, <3>1 DEF Sorted
    <2> QED BY <1>3, <2>1, <2>2
  <1>5. \A i \in 1..Len(list) : i < k => list[i].due <= t.due
    BY <1>1, <1>3
  <1>6. ASSUME NEW i \in 1..Len(new), NEW j \in 1..Len(new), i < j
        PROVE  new[i].due <= new[j].due
    <2>1. CASE j < k
      <3>1. i \in 1..Len(list) /\ j \in 1..Len(list) /\ i < k
        BY <1>2, <1>6, <2>1
      <3>2. new[i] = list[i] /\ new[j] = list[j]
        BY <1>1, <2>1, <3>1
      <3> QED BY <1>6, <3>1, <3>2 DEF Sorted
    <2>2. CASE j = k
      <3>1. i \in 1..Len(list) /\ i < k
        BY <1>2, <1>6, <2>2
      <3> QED BY <1>1, <1>5, <2>2, <3>1
    <2>3. CASE j > k
      <3>1. j - 1 \in 1..Len(list) /\ j - 1 >= k /\ (j - 1) + 1 = j
        BY <1>2, <2>3
      <3>2. new[j] = list[j - 1]
        BY <1>1, <3>1
      <3>3. CASE i < k
        <4>1. i \in 1..Len(list) /\ i < j - 1
          BY <1>2, <2>3, <3>1, <3>3
        <4>2. new[i] = list[i]
          BY <1>1, <3>3, <4>1
        <4> QED BY <3>1, <3>2, <4>1, <4>2 DEF Sorted
      <3>4. CASE i = k
        BY <1>1, <1>3, <1>4, <3>1, <3>2, <3>4
      <3>5. CASE i > k
        <4>1. i - 1 \in 1..Len(list) /\ i - 1 >= k /\ (i - 1) + 1 = i /\ i - 1 < j - 1
          BY <1>2, <1>6, <3>5
        <4>2. new[i] = list[i - 1]
          BY <1>1, <4>1
        <4> QED BY <3>1, <3>2, <4>1, <4>2 DEF Sorted
      <3> QED BY <3>3, <3>4, <3>5
    <2> QED BY <2>1, <2>2, <2>3
  <1> QED BY <1>6 DEF Sorted, new

\* What a cancel leaves is in the order it had.
LEMMA CancelSorted ==
    ASSUME NEW list \in Seq(Timeouts), Sorted(list), NEW h, Cancel(list, h)
    PROVE  Sorted(timeouts')
  <1> DEFINE others == {i \in 1..Len(list) : list[i].handler # h}
  <1>1. PICK n \in 0..Len(list) : \E place \in [1..n -> others] :
           /\ \A i, j \in 1..n : i < j => place[i] < place[j]
           /\ timeouts' = [i \in 1..n |-> list[place[i]]]
    BY DEF Cancel
  <1>2. PICK place \in [1..n -> others] :
           /\ \A i, j \in 1..n : i < j => place[i] < place[j]
           /\ timeouts' = [i \in 1..n |-> list[place[i]]]
    BY <1>1
  <1>3. \A i \in 1..n : place[i] \in 1..Len(list)
    BY <1>2
  <1>4. Len(timeouts') = n
    BY <1>2
  <1> QED BY <1>2, <1>3, <1>4 DEF Sorted

\* So the list a callback leaves is in order.
LEMMA CallbackSorted ==
    ASSUME clock \in Nat, MaxTime < ClockMod, NEW list \in Seq(Timeouts),
           \A i \in 1..Len(list) : Meant(list[i]) /\ InBound(list[i]),
           Sorted(list), Callback(list)
    PROVE  Sorted(timeouts')
  <1>1. ASSUME NEW h \in Handlers, NEW d \in Delays, clock + d <= MaxTime,
               timeouts' = Insert(list, New(h, d))
        PROVE  Sorted(timeouts')
    BY <1>1, NewTimes, InsertSorted
  <1>2. ASSUME NEW h \in Handlers, Cancel(list, h)
        PROVE  Sorted(timeouts')
    BY <1>2, CancelSorted
  <1> QED BY <1>1, <1>2 DEF Callback, New

\* The invariant of the first 49.7 days: the times are the times meant, before
\* the bound, and in order.
OrderInv == EachMeant /\ EachInBound /\ InOrder

\* Every step keeps it.
LEMMA OrderSteps ==
    ASSUME TypeOK, MaxTime < ClockMod, OrderInv, [Next]_vars
    PROVE  OrderInv'
  <1>1. clock \in Nat /\ timeouts \in Seq(Timeouts)
    BY DEF TypeOK
  <1>2. EachMeant' /\ EachInBound'
    BY TimesSteps DEF OrderInv
  <1>3. Sorted(timeouts)
    BY DEF OrderInv, InOrder, Sorted
  <1>4. Sorted(timeouts')
    <2>1. CASE Loop
      <3>1. ASSUME NEW list \in Seq(Timeouts), Callback(list),
                   \/ list = timeouts
                   \/ Expired /\ list = Tail(timeouts)
            PROVE  Sorted(timeouts')
        <4>1. /\ \A j \in 1..Len(list) :
                    Meant(list[j]) /\ InBound(list[j])
              /\ Sorted(list)
          <5>1. CASE list = timeouts
            BY <1>3, <5>1 DEF OrderInv, EachMeant, EachInBound
          <5>2. CASE Expired /\ list = Tail(timeouts)
            <6>1. /\ Len(timeouts) \in Nat /\ Len(list) = Len(timeouts) - 1
                  /\ \A i \in 1..Len(list) : /\ i + 1 \in 1..Len(timeouts)
                                             /\ list[i] = timeouts[i + 1]
              BY <1>1, <5>2, TailType DEF Expired
            <6>2. \A i \in 1..Len(list) : Meant(list[i]) /\ InBound(list[i])
              BY <6>1 DEF OrderInv, EachMeant, EachInBound
            <6>3. ASSUME NEW i \in 1..Len(list), NEW j \in 1..Len(list), i < j
                  PROVE  list[i].due <= list[j].due
              <7>1. i + 1 < j + 1
                BY <6>3
              <7> QED BY <1>3, <6>1, <7>1 DEF Sorted
            <6> QED BY <6>2, <6>3 DEF Sorted
          <5> QED BY <3>1, <5>1, <5>2
        <4> QED BY <1>1, <3>1, <4>1, CallbackSorted
      <3>2. CASE timeouts' = <<>>
        BY <3>2 DEF Sorted
      <3> QED BY <1>1, <1>3, <2>1, <3>1, <3>2, LoopTimeouts
    <2>2. CASE Send \/ Tick
      BY <1>3, <2>2, OtherTimeouts
    <2>3. CASE UNCHANGED vars
      BY <1>3, <2>3 DEF vars
    <2> QED BY <2>1, <2>2, <2>3 DEF Next
  <1> QED BY <1>2, <1>4 DEF OrderInv, InOrder, Sorted

\* Until the clock wraps, 49.7 days after boot, the list of timeouts is in the
\* order of the times they are due: eloop_timeout_register and
\* eloop_timeout_cancel keep it whatever callbacks do between them.
THEOREM TimeoutsInOrder ==
    ASSUME MaxTime < ClockMod
    PROVE  Spec => []InOrder
  <1>1. Init => OrderInv
    BY DEF Init, OrderInv, EachMeant, EachInBound, InOrder
  <1>2. TypeOK /\ OrderInv /\ [Next]_vars => OrderInv'
    BY OrderSteps
  <1>3. OrderInv => InOrder
    BY DEF OrderInv
  <1>4. Spec => []TypeOK
    BY EloopTypes
  <1> QED BY <1>1, <1>2, <1>3, <1>4, PTL DEF Spec

-----------------------------------------------------------------------------
(* Before the sign bit of the clock                                         *)

\* The invariant of the first 24.8 days, in either build.
EarlyInv == OrderInv /\ clock <= MaxTime /\ SleepsInTime

\* Then whether a timeout has expired is whether it is due.
LEMMA EarlyDue ==
    ASSUME TypeOK, EarlyInv, MaxTime < ClockMod \div 2, timeouts # <<>>
    PROVE  LET t == Head(timeouts) IN
           /\ t = timeouts[1] /\ t.due \in Nat /\ t.time = t.due
           /\ Now = clock
           /\ AfterEq(Now, t.time) <=> clock >= t.due
  <1> DEFINE t == Head(timeouts)
  <1>1. clock \in Nat /\ timeouts \in Seq(Timeouts)
    BY DEF TypeOK
  <1>2. /\ t \in Timeouts /\ t = timeouts[1] /\ Meant(t) /\ InBound(t)
    BY <1>1, TailType DEF EarlyInv, OrderInv, EachMeant, EachInBound
  <1> HIDE DEF t
  <1>3. MaxTime \in Nat /\ MaxTime < ClockMod
    BY Halves, EloopAssumption DEF EloopAssumption
  <1>4. t.due \in Nat /\ t.time = t.due
    BY <1>2, <1>3, Unwrapped
  <1>5. Now = clock
    BY <1>1, <1>3, Cut, Halves DEF Now, EarlyInv
  <1>6. clock < ClockMod \div 2 /\ t.due < ClockMod \div 2
    BY <1>1, <1>2, <1>3, <1>4, Halves DEF EarlyInv, InBound
  <1>7. AfterEq(clock, t.due) <=> clock >= t.due
    BY <1>1, <1>4, <1>6, AfterEqEarly
  <1> QED BY <1>2, <1>4, <1>5, <1>7 DEF t

\* The sleep the loop begins ends when the first timeout is due.
LEMMA SleepSteps ==
    ASSUME TypeOK, MaxTime < ClockMod \div 2, EarlyInv, [Next]_vars
    PROVE  SleepsInTime'
  <1>1. clock \in Nat /\ timeouts \in Seq(Timeouts)
    BY DEF TypeOK
  <1>2. CASE LoopTop /\ pc' = "wait"
    <2>1. CASE timeouts = <<>>
      BY <1>2, <2>1 DEF LoopTop, SleepsInTime
    <2>2. CASE timeouts # <<>>
      <3> DEFINE t == Head(timeouts)
      <3>1. /\ t = timeouts[1] /\ t.due \in Nat /\ t.time = t.due /\ Now = clock
            /\ AfterEq(Now, t.time) <=> clock >= t.due
        BY <2>2, EarlyDue
      <3>2. /\ UNCHANGED timeouts /\ Before(Now, t.time)
            /\ wake' = clock + ((t.time + ClockMod - Now) % ClockMod)
        BY <1>2, <2>2 DEF LoopTop
      <3> HIDE DEF t
      <3>3. clock < t.due /\ t.due - clock < ClockMod
        <4>1. t.due <= MaxTime /\ MaxTime \in Nat
          BY <1>1, <2>2, <3>1, TailType, EloopAssumption
          DEF EloopAssumption, EarlyInv, OrderInv, EachInBound, InBound
        <4>2. clock < t.due
          BY <1>1, <3>1, <3>2 DEF Before
        <4> QED BY <1>1, <3>1, <4>1, <4>2, Halves
      <3>4. (t.due + ClockMod - clock) % ClockMod = t.due - clock
        <4>1. \A x \in Nat : x < ClockMod => (x + ClockMod) % ClockMod = x
          BY Halves
        <4>2. /\ t.due - clock \in Nat
              /\ t.due + ClockMod - clock = (t.due - clock) + ClockMod
          BY <1>1, <3>1, <3>3, Halves
        <4> QED BY <3>3, <4>1, <4>2
      <3>5. wake' = t.due
        BY <1>1, <3>1, <3>2, <3>4
      <3>6. \A i \in 1..Len(timeouts) : t.due <= timeouts[i].due
        <4> TAKE i \in 1..Len(timeouts)
        <4>1. i = 1 \/ (1 \in 1..Len(timeouts) /\ 1 < i)
          BY <1>1
        <4> QED BY <3>1, <4>1 DEF EarlyInv, OrderInv, InOrder
      <3> QED BY <3>2, <3>5, <3>6 DEF SleepsInTime
    <2> QED BY <2>1, <2>2
  <1>3. CASE pc' # "wait"
    BY <1>3 DEF SleepsInTime
  <1>4. CASE UNCHANGED <<pc, wake, timeouts>>
    BY <1>4 DEF EarlyInv, SleepsInTime
  <1>5. ASSUME Loop, pc' = "wait" PROVE LoopTop
    BY <1>5 DEF Loop, LoopTop, LoopExit, Dispatch, WaitTimeout, TimeoutHandle,
                DestroyDrain, Destroy
  <1>6. Send \/ Tick \/ UNCHANGED vars => UNCHANGED <<pc, wake, timeouts>>
    BY OtherTimeouts DEF vars
  <1> QED BY <1>2, <1>3, <1>4, <1>5, <1>6 DEF Next

\* Every step keeps EarlyInv.
LEMMA EarlySteps ==
    ASSUME TypeOK, MaxTime < ClockMod \div 2, EarlyInv, [Next]_vars
    PROVE  EarlyInv'
  <1>1. OrderInv'
    <2>1. MaxTime < ClockMod
      BY Halves, EloopAssumption DEF EloopAssumption
    <2> QED BY <2>1, OrderSteps DEF EarlyInv
  <1>2. clock' <= MaxTime
    <2>1. clock \in Nat /\ timeouts \in Seq(Timeouts) /\ MaxTime \in Nat
      BY EloopAssumption DEF EloopAssumption, TypeOK
    <2>2. CASE Loop
      BY <2>1, <2>2, LoopTimeouts DEF EarlyInv
    <2>3. CASE Send
      BY <2>3 DEF EarlyInv, Send, SendStart, MqSend, MqUrgent, loopVars
    <2>4. CASE Tick
      BY <2>1, <2>4 DEF Tick
    <2>5. CASE UNCHANGED vars
      BY <2>5 DEF EarlyInv, vars
    <2> QED BY <2>2, <2>3, <2>4, <2>5 DEF Next
  <1>3. SleepsInTime'
    BY SleepSteps
  <1> QED BY <1>1, <1>2, <1>3 DEF EarlyInv

\* EarlyInv is an invariant.
LEMMA EarlyInvariance ==
    ASSUME MaxTime < ClockMod \div 2
    PROVE  Spec => [](TypeOK /\ EarlyInv)
  <1>1. Init => EarlyInv
    BY EloopAssumption
    DEF EloopAssumption, Init, EarlyInv, OrderInv, EachMeant, EachInBound,
        InOrder, SleepsInTime
  <1>2. TypeOK /\ EarlyInv /\ [Next]_vars => EarlyInv'
    BY EarlySteps
  <1>3. Spec => []TypeOK
    BY EloopTypes
  <1> QED BY <1>1, <1>2, <1>3, PTL DEF Spec

\* In the first 24.8 days the loop never sleeps past a timeout: its sleep ends
\* when the first of them is due, whatever callbacks registered and cancelled.
THEOREM SleepsUntilDue ==
    ASSUME MaxTime < ClockMod \div 2
    PROVE  Spec => []SleepsInTime
  <1>1. EarlyInv => SleepsInTime
    BY DEF EarlyInv
  <1> QED BY <1>1, EarlyInvariance, PTL

\* And calls none before its time, in either build.
THEOREM NeverEarlyBeforeSignBit ==
    ASSUME MaxTime < ClockMod \div 2
    PROVE  Spec => NeverEarly
  <1>1. TypeOK /\ EarlyInv => Patient
    <2> SUFFICES ASSUME TypeOK, EarlyInv, timeouts # <<>>,
                        Head(timeouts).due > clock
                 PROVE  ~Expired
      BY DEF Patient
    <2>1. clock \in Nat
      BY DEF TypeOK
    <2> QED BY <2>1, EarlyDue DEF Expired
  <1>2. TypeOK /\ EarlyInv /\ [Next]_vars
        => [pc = "handle" /\ timeouts # <<>> /\ Head(timeouts).due > clock
                => timeouts' = timeouts]_vars
    BY <1>1, PatientNeverEarly
  <1> QED BY <1>2, EarlyInvariance, PTL DEF Spec, NeverEarly
=============================================================================
