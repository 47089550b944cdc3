-------------------------- MODULE HeavyQueueProofs --------------------------
(***************************************************************************)
(* What TLAPS proves of HeavyQueue, for every set of runs, every number of *)
(* slots and every number of faults.                                       *)
(***************************************************************************)
EXTENDS HeavyQueue, FiniteSetTheorems, SequenceTheorems, TLAPS

\* Taking one place out of a queue, as Leave does, leaves a queue.
LEMMA WithoutPlace ==
    ASSUME NEW S, NEW q \in Seq(S), NEW i \in 1 .. Len(q)
    PROVE  LET p == SubSeq(q, 1, i - 1) \o SubSeq(q, i + 1, Len(q))
           IN  /\ p \in Seq(S)
               /\ \A j \in 1 .. Len(p) : \E k \in 1 .. Len(q) : p[j] = q[k]
<1> DEFINE a == SubSeq(q, 1, i - 1)
           b == SubSeq(q, i + 1, Len(q))
<1>0. Len(q) \in Nat /\ \A k \in 1 .. Len(q) : q[k] \in S
  BY LenProperties, ElementOfSeq
<1>1. /\ a \in Seq(S)
      /\ Len(a) = i - 1
      /\ \A j \in 1 .. i - 1 : a[j] = q[j]
  <2>1. \A k \in 1 .. i - 1 : q[k] \in S
    BY <1>0
  <2> QED
    BY <1>0, <2>1, SubSeqProperties
<1>2. /\ b \in Seq(S)
      /\ Len(b) = Len(q) - i
      /\ \A j \in 1 .. Len(q) - i : b[j] = q[i + j]
  <2>1. \A k \in i + 1 .. Len(q) : q[k] \in S
    BY <1>0
  <2>2. /\ b \in Seq(S)
        /\ Len(b) = IF i + 1 <= Len(q) THEN Len(q) - (i + 1) + 1 ELSE 0
        /\ \A j \in 1 .. Len(q) - (i + 1) + 1 : b[j] = q[i + 1 + j - 1]
    BY <1>0, <2>1, SubSeqProperties
  <2> QED
    BY <1>0, <2>2
<1> HIDE DEF a, b
<1>3. /\ a \o b \in Seq(S)
      /\ Len(a \o b) = Len(q) - 1
      /\ \A j \in 1 .. Len(q) - 1 :
            (a \o b)[j] = IF j <= i - 1 THEN a[j] ELSE b[j - (i - 1)]
  <2>1. /\ a \o b \in Seq(S)
        /\ Len(a \o b) = Len(a) + Len(b)
        /\ \A j \in 1 .. Len(a) + Len(b) :
              (a \o b)[j] = IF j <= Len(a) THEN a[j] ELSE b[j - Len(a)]
    BY <1>1, <1>2, ConcatProperties
  <2> QED
    BY <1>0, <1>1, <1>2, <2>1
<1>4. ASSUME NEW j \in 1 .. Len(a \o b)
      PROVE  \E k \in 1 .. Len(q) : (a \o b)[j] = q[k]
  <2>1. CASE j <= i - 1
    BY <1>0, <1>1, <1>3, <2>1
  <2>2. CASE ~ (j <= i - 1)
    <3>1. (a \o b)[j] = b[j - (i - 1)] /\ j - (i - 1) \in 1 .. Len(q) - i
      BY <1>0, <1>3, <2>2
    <3>2. b[j - (i - 1)] = q[j + 1] /\ j + 1 \in 1 .. Len(q)
      BY <1>0, <1>2, <1>3, <3>1
    <3> QED
      BY <3>1, <3>2
  <2> QED
    BY <2>1, <2>2
<1> QED
  BY <1>3, <1>4 DEF a, b

\* Cutting the first k of a queue off, as Look does, gives two queues.
LEMMA CutAt ==
    ASSUME NEW S, NEW q \in Seq(S), NEW k \in 0 .. Len(q)
    PROVE  LET front == SubSeq(q, 1, k)
               rest == SubSeq(q, k + 1, Len(q))
           IN  /\ front \in Seq(S) /\ Len(front) = k
               /\ rest \in Seq(S)
               /\ Len(rest) = Len(q) - k
               /\ \A j \in 1 .. Len(rest) : rest[j] = q[k + j]
<1>0. Len(q) \in Nat /\ \A j \in 1 .. Len(q) : q[j] \in S
  BY LenProperties, ElementOfSeq
<1>1. SubSeq(q, 1, k) \in Seq(S) /\ Len(SubSeq(q, 1, k)) = k
  <2>1. \A j \in 1 .. k : q[j] \in S
    BY <1>0
  <2> QED
    BY <1>0, <2>1, SubSeqProperties
<1>2. /\ SubSeq(q, k + 1, Len(q)) \in Seq(S)
      /\ Len(SubSeq(q, k + 1, Len(q))) = IF k + 1 <= Len(q) THEN Len(q) - (k + 1) + 1 ELSE 0
      /\ \A j \in 1 .. Len(q) - (k + 1) + 1 : SubSeq(q, k + 1, Len(q))[j] = q[k + 1 + j - 1]
  <2>1. \A j \in k + 1 .. Len(q) : q[j] \in S
    BY <1>0
  <2> QED
    BY <1>0, <2>1, SubSeqProperties
<1> QED
  BY <1>0, <1>1, <1>2

-----------------------------------------------------------------------------

\* The initial state is of the types.
LEMMA TypeInit == Init => TypeOK
  BY QueueAssumption, EmptySeq DEF Init, TypeOK, States

\* So is what the client's steps lead to.
LEMMA TypeClient ==
    ASSUME TypeOK, NEW r \in Runs, Client(r)
    PROVE  TypeOK'
<1> USE DEF TypeOK, States, clients, lists, loop
<1>1. CASE StartInside(r)
  <2>1. Parent[r] \in Runs
    BY <1>1, QueueAssumption DEF StartInside
  <2>2. at' \in [Runs -> Nat] /\ state' \in [Runs -> States]
    BY <1>1, <2>1 DEF StartInside
  <2> QED
    BY <1>1, <2>2 DEF StartInside
<1>2. CASE Ask(r)
  <2>1. state' \in [Runs -> States] /\ dial' \in [Runs -> Nat]
    <3>1. \/ state' = [state EXCEPT ![r] = "asked"] /\ dial' = [dial EXCEPT ![r] = @ + 1]
          \/ state' = [state EXCEPT ![r] = "running"] /\ dial' = dial
      BY <1>2, Zenon DEF Ask
    <3>2. CASE state' = [state EXCEPT ![r] = "asked"] /\ dial' = [dial EXCEPT ![r] = @ + 1]
      BY <3>2
    <3>3. CASE state' = [state EXCEPT ![r] = "running"] /\ dial' = dial
      BY <3>3
    <3> QED
      BY <3>1, <3>2, <3>3
  <2>2. call' = call /\ keep' = keep /\ up' = up
    BY <1>2 DEF Ask
  <2>3. UNCHANGED <<waiting, verdicts, seen, leaving, seq, at, late, faults, abandoned>>
    BY <1>2 DEF Ask
  <2> QED
    BY <2>1, <2>2, <2>3
<1>3. CASE Silence(r)
  BY <1>3 DEF Silence
<1>4. CASE Redial(r)
  BY <1>4 DEF Redial
<1>5. CASE GiveUp(r)
  BY <1>5 DEF GiveUp
<1>6. CASE End(r)
  BY <1>6 DEF End
<1> QED
  BY <1>1, <1>2, <1>3, <1>4, <1>5, <1>6 DEF Client

\* What a connection at the executor does.
LEMMA TypeConnection ==
    ASSUME TypeOK, Connection
    PROVE  TypeOK'
<1> USE DEF TypeOK, States, clients, lists, loop
<1>1. ASSUME NEW r \in Runs, Join(r)
      PROVE  TypeOK'
  <2>1. Waiter(r) \in Waiters
    BY <1>1 DEF Join, Waiter, Waiters
  <2>2. Append(waiting, Waiter(r)) \in Seq(Waiters)
    BY <2>1, AppendProperties
  <2> QED
    BY <1>1, <2>2 DEF Join
<1>2. ASSUME NEW i \in 1 .. Len(waiting), Leave(i)
      PROVE  TypeOK'
  BY <1>2, WithoutPlace DEF Leave
<1>3. ASSUME NEW v \in verdicts, Deliver(v)
      PROVE  TypeOK'
  BY <1>3 DEF Deliver, Verdicts, Waiters
<1>4. ASSUME NEW r \in Runs, TurnAway(r)
      PROVE  TypeOK'
  <2>1. \/ state' = [state EXCEPT ![r] = "ended"] /\ at' = [at EXCEPT ![r] = 0]
        \/ state' = [state EXCEPT ![r] = "running"] /\ at' = at
    BY <1>4, Zenon DEF TurnAway
  <2>2. state' \in [Runs -> States] /\ at' \in [Runs -> Nat]
    <3>1. CASE state' = [state EXCEPT ![r] = "ended"] /\ at' = [at EXCEPT ![r] = 0]
      BY <3>1
    <3>2. CASE state' = [state EXCEPT ![r] = "running"] /\ at' = at
      BY <3>2
    <3> QED
      BY <2>1, <3>1, <3>2
  <2>3. UNCHANGED <<dial, up, waiting, verdicts, keep, seen, leaving, call, seq, late, faults, abandoned>>
    BY <1>4 DEF TurnAway
  <2> QED
    BY <2>2, <2>3
<1> QED
  BY <1>1, <1>2, <1>3, <1>4 DEF Connection

\* What the one loop of the queue does.
LEMMA TypeKeep ==
    ASSUME TypeOK, Keep
    PROVE  TypeOK'
<1> USE DEF TypeOK, clients, lists, loop, NoCall
<1>1. CASE Measure
  <2>1. Going \subseteq Nat \ {0}
    BY DEF Going
  <2> QED
    BY <1>1, <2>1 DEF Measure
<1>2. ASSUME NEW k \in 0 .. Len(waiting), Look(k)
      PROVE  TypeOK'
  BY <1>2, CutAt DEF Look
<1>3. ASSUME NEW n \in seq + 1 .. seq + 1 + Cardinality(seen), AskManager(n)
      PROVE  TypeOK'
  <2>1. n \in Nat \ {0}
    OBVIOUS
  <2>2. Head(leaving) \in Waiters /\ Tail(leaving) \in Seq(Waiters)
    BY <1>3, HeadTailProperties DEF AskManager
  <2> QED
    BY <1>3, <2>1, <2>2 DEF AskManager, Calls
<1>4. ASSUME NEW verdict \in {"admitted", "unheld"}, Let(verdict)
      PROVE  TypeOK'
  BY <1>4 DEF Let, Verdicts, Calls
<1>5. CASE StartTimesOut
  <2>1. keep = "calling" /\ call \in Calls
    BY <1>5 DEF StartTimesOut
  <2>2. late' \subseteq Calls /\ abandoned' \in Nat
    BY <1>5, <2>1 DEF StartTimesOut, AbandonCall
  <2>3. verdicts' \subseteq Verdicts
    BY <1>5, <2>1 DEF StartTimesOut, Verdicts, Calls
  <2> QED
    BY <1>5, <2>2, <2>3 DEF StartTimesOut
<1> QED
  BY <1>1, <1>2, <1>3, <1>4, <1>5 DEF Keep

\* What the manager does, early and late.
LEMMA TypeManager ==
    ASSUME TypeOK, Manager
    PROVE  TypeOK'
<1> USE DEF TypeOK, clients, lists, loop
<1>1. ASSUME NEW c \in Calls, Moved(c)
      PROVE  at' \in [Runs -> Nat]
  BY <1>1 DEF Moved, Calls, Waiters
<1>2. CASE ManagerMoves
  BY <1>1, <1>2 DEF ManagerMoves, Calls
<1>3. CASE ManagerRefuses
  BY <1>3 DEF ManagerRefuses, Calls
<1>4. ASSUME NEW c \in late, ManagerIsLate(c)
      PROVE  TypeOK'
  BY <1>1, <1>4 DEF ManagerIsLate
<1> QED
  BY <1>2, <1>3, <1>4 DEF Manager

\* The executor gone, and back.
LEMMA TypeExecutor ==
    ASSUME TypeOK, GoAway \/ ComeBack
    PROVE  TypeOK'
<1> USE DEF TypeOK, States, clients, lists, loop, NoCall
<1>1. CASE GoAway
  <2>1. late' \subseteq Calls /\ abandoned' \in Nat
    BY <1>1 DEF GoAway, AbandonCall, Pending
  <2>2. state' \in [Runs -> States]
    BY <1>1 DEF GoAway
  <2>3. waiting' \in Seq(Waiters) /\ leaving' \in Seq(Waiters)
    BY <1>1, EmptySeq DEF GoAway
  <2>4. /\ keep' = "idle" /\ seen' = {} /\ seq' = 0 /\ up' = FALSE
        /\ verdicts' = {} /\ call' = NoCall /\ dial' = dial /\ at' = at
        /\ faults' \in Nat
    BY <1>1 DEF GoAway
  <2> QED
    BY <2>1, <2>2, <2>3, <2>4
<1>2. CASE ComeBack
  BY <1>2 DEF ComeBack
<1> QED
  BY <1>1, <1>2

\* Every state of the queue, its clients and the host is of the types.
THEOREM TypeCorrect == Spec => []TypeOK
<1>1. ASSUME TypeOK, [Next]_vars
      PROVE  TypeOK'
  <2>1. CASE UNCHANGED vars
    BY <1>1, <2>1 DEF vars, clients, lists, loop, TypeOK, Calls, NoCall
  <2> QED
    BY <1>1, <2>1, TypeClient, TypeConnection, TypeKeep, TypeManager, TypeExecutor DEF Next
<1> QED
  BY <1>1, TypeInit, PTL DEF Spec

-----------------------------------------------------------------------------

\* The units going are a finite set: the image of the runs, without 0.
LEMMA GoingIsFinite ==
    ASSUME TypeOK
    PROVE  IsFiniteSet(Going) /\ Cardinality(Going) \in Nat
<1> DEFINE units == {at[r] : r \in Runs}
<1>1. at \in Surjection(Runs, units)
  BY DEF TypeOK, Surjection
<1>2. IsFiniteSet(units)
  BY <1>1, FS_Surjection, QueueAssumption DEF QueueAssumption
<1>3. IsFiniteSet(Going)
  BY <1>2, FS_RemoveElement DEF Going
<1> QED
  BY <1>3, FS_CardinalityType

\* A step after which no unit goes that did not before leaves no more of them.
LEMMA GoingShrinks ==
    ASSUME TypeOK, Going' \subseteq Going
    PROVE  Cardinality(Going') <= Cardinality(Going) /\ Cardinality(Going') \in Nat
  BY GoingIsFinite, FS_Subset, FS_CardinalityType

\* The manager's move adds the unit of the call at most.
LEMMA MovedAddsOne ==
    ASSUME TypeOK, NEW c \in Calls, Moved(c)
    PROVE  /\ Going' \subseteq Going \union {c.unit}
           /\ Cardinality(Going') <= Cardinality(Going) + 1
           /\ Cardinality(Going') \in Nat
<1>1. Going' \subseteq Going \union {c.unit}
  BY DEF Moved, Going, TypeOK, Calls, Waiters
<1>2. IsFiniteSet(Going \union {c.unit}) /\ Cardinality(Going \union {c.unit}) <= Cardinality(Going) + 1
  <2>1. IsFiniteSet(Going) /\ Cardinality(Going) \in Nat
    BY GoingIsFinite, FS_CardinalityType
  <2>2. IsFiniteSet(Going \union {c.unit})
        /\ Cardinality(Going \union {c.unit}) = IF c.unit \in Going THEN Cardinality(Going) ELSE Cardinality(Going) + 1
    BY <2>1, FS_AddElement, Zenon
  <2> HIDE DEF Going
  <2> QED
    BY <2>1, <2>2
<1>3. IsFiniteSet(Going') /\ Cardinality(Going') <= Cardinality(Going \union {c.unit})
  BY <1>1, <1>2, FS_Subset
<1>4. Cardinality(Going') \in Nat
  BY <1>3, FS_CardinalityType
<1>5. Cardinality(Going \union {c.unit}) \in Nat
  BY <1>2, FS_CardinalityType
<1> QED
  BY <1>1, <1>2, <1>3, <1>4, <1>5, GoingIsFinite

\* What the client does leaves no more units going, and the rest as it was.
LEMMA ClientAddsNone ==
    ASSUME TypeOK, NEW r \in Runs, Client(r)
    PROVE  /\ Going' \subseteq Going
           /\ UNCHANGED <<waiting, verdicts, keep, seen, leaving, call, seq, late, abandoned>>
<1> USE DEF lists, loop
<1>1. CASE StartInside(r)
  <2>1. Parent[r] \in Runs /\ at[Parent[r]] # 0
    BY <1>1, QueueAssumption DEF StartInside
  <2> QED
    BY <1>1, <2>1 DEF StartInside, Going, TypeOK
<1>2. CASE Ask(r)
  BY <1>2 DEF Ask, Going
<1>3. CASE Silence(r)
  BY <1>3 DEF Silence, Going
<1>4. CASE Redial(r)
  BY <1>4 DEF Redial, Going
<1>5. CASE GiveUp(r)
  BY <1>5 DEF GiveUp, Going
<1>6. CASE End(r)
  BY <1>6 DEF End, Going, TypeOK
<1> QED
  BY <1>1, <1>2, <1>3, <1>4, <1>5, <1>6 DEF Client

\* A connection leaves no more units going, and the loop and the late calls
\* alone.
LEMMA ConnectionAddsNone ==
    ASSUME TypeOK, Connection
    PROVE  /\ Going' \subseteq Going
           /\ UNCHANGED <<keep, seen, leaving, call, seq, late, faults, abandoned>>
<1> USE DEF lists, loop
<1>1. ASSUME NEW r \in Runs, Join(r)
      PROVE  at' = at
  BY <1>1 DEF Join
<1>2. ASSUME NEW r \in Runs, TurnAway(r)
      PROVE  Going' \subseteq Going
  BY <1>2 DEF TurnAway, Going, TypeOK
<1>3. ASSUME NEW i \in 1 .. Len(waiting), Leave(i)
      PROVE  at' = at
  BY <1>3 DEF Leave
<1>4. ASSUME NEW v \in verdicts, Deliver(v)
      PROVE  at' = at
  BY <1>4 DEF Deliver
<1>5. Going' \subseteq Going
  BY <1>1, <1>2, <1>3, <1>4 DEF Connection, Going
<1> QED
  BY <1>5 DEF Connection, Join, TurnAway, Leave, Deliver

\* A call given up is one more late one.
LEMMA AbandonedIsLate ==
    ASSUME TypeOK, IsFiniteSet(late), Pending, AbandonCall
    PROVE  /\ IsFiniteSet(late')
           /\ Cardinality(late') <= Cardinality(late) + 1
           /\ abandoned' = abandoned + 1
<1>1. late' = late \union {call} /\ abandoned' = abandoned + 1
  BY DEF AbandonCall
<1>2. Cardinality(late) \in Nat
  BY FS_CardinalityType
<1>3. /\ IsFiniteSet(late \union {call})
      /\ Cardinality(late \union {call}) = IF call \in late THEN Cardinality(late)
                                                            ELSE Cardinality(late) + 1
  BY FS_AddElement
<1> QED
  BY <1>1, <1>2, <1>3

\* The numbers of SlotsInv are numbers.
LEMMA Counts ==
    ASSUME TypeOK, SlotsInv
    PROVE  /\ Cardinality(Going) \in Nat
           /\ Cardinality(late) \in Nat
           /\ Cardinality(seen) \in Nat
           /\ Len(leaving) \in Nat
           /\ Slots \in Nat
           /\ abandoned \in Nat
  BY GoingIsFinite, FS_CardinalityType, LenProperties, QueueAssumption DEF SlotsInv, TypeOK

\* A step that starts no run keeps the count of the slots.
LEMMA SlotsQuiet ==
    ASSUME TypeOK, SlotsInv, Going' \subseteq Going,
           UNCHANGED <<keep, seen, leaving, call, late, abandoned>>
    PROVE  SlotsInv'
<1>1. Cardinality(Going') <= Cardinality(Going) /\ Cardinality(Going') \in Nat
  BY GoingShrinks
<1>2. OnTheWay' = OnTheWay /\ OnTheWay \in Nat
  BY Counts DEF OnTheWay, Pending
<1> QED
  BY <1>1, <1>2, Counts DEF SlotsInv

\* Nor does a step of the loop of the queue exceed it.
LEMMA SlotsKeep ==
    ASSUME TypeOK, SlotsInv, Keep
    PROVE  SlotsInv'
<1> USE DEF clients, lists
<1> DEFINE G == Cardinality(Going)
           L == Cardinality(late)
<1>0. G \in Nat /\ L \in Nat /\ Cardinality(seen) \in Nat /\ Len(leaving) \in Nat
      /\ Slots \in Nat /\ abandoned \in Nat
  BY Counts
<1>1. CASE Measure
  <2>1. Going' = Going /\ late' = late /\ seen' = Going /\ abandoned' = abandoned
    BY <1>1 DEF Measure, Going
  <2>2. ~ Pending /\ ~ Pending' /\ leaving' = leaving
    BY <1>1 DEF Measure, Pending
  <2> QED
    BY <1>0, <2>1, <2>2, GoingIsFinite DEF SlotsInv, OnTheWay
<1>2. ASSUME NEW k \in 0 .. Len(waiting), Look(k)
      PROVE  SlotsInv'
  <2>1. Going' = Going /\ UNCHANGED <<late, seen, abandoned>> /\ keep = "measured"
    BY <1>2 DEF Look, Going
  <2>2. ~ Pending /\ ~ Pending' /\ keep' # "measured"
    BY <1>2 DEF Look, Pending
  <2>3. Len(leaving') = k /\ k \in Nat
    BY <1>2, CutAt DEF Look, TypeOK
  <2>4. G + L <= Cardinality(seen) + abandoned
    BY <2>1 DEF SlotsInv
  <2>5. Slots > 0 => G + L + k <= Slots + abandoned
    <3>1. CASE k = 0
      BY <1>0, <3>1, <2>2 DEF SlotsInv, OnTheWay
    <3>2. CASE k > 0
      BY <1>0, <1>2, <2>3, <2>4, <3>2 DEF Look
    <3> QED
      BY <2>3, <3>1, <3>2
  <2> QED
    BY <1>0, <2>1, <2>2, <2>3, <2>5 DEF SlotsInv, OnTheWay
<1>3. ASSUME NEW n \in seq + 1 .. seq + 1 + Cardinality(seen), AskManager(n)
      PROVE  SlotsInv'
  <2>1. Going' = Going /\ UNCHANGED <<late, seen, abandoned>> /\ keep' = "calling"
    BY <1>3 DEF AskManager, Going
  <2>2. ~ Pending /\ Pending'
    BY <1>3 DEF AskManager, Pending
  <2>3. Len(leaving') = Len(leaving) - 1
    BY <1>3, HeadTailProperties DEF AskManager, TypeOK
  <2> QED
    BY <1>0, <2>1, <2>2, <2>3 DEF SlotsInv, OnTheWay
<1>4. ASSUME NEW verdict \in {"admitted", "unheld"}, Let(verdict)
      PROVE  SlotsInv'
  <2>1. Going' = Going /\ UNCHANGED <<late, seen, abandoned, leaving>> /\ keep' # "measured"
    BY <1>4 DEF Let, Going
  <2>2. ~ Pending /\ ~ Pending'
    BY <1>4 DEF Let, Pending
  <2> QED
    BY <1>0, <2>1, <2>2 DEF SlotsInv, OnTheWay
<1>5. CASE StartTimesOut
  <2>1. Going' = Going /\ UNCHANGED <<seen, leaving>> /\ keep' \in {"idle", "letting"}
    BY <1>5 DEF StartTimesOut, Going
  <2>2. ~ Pending'
    BY <2>1 DEF Pending
  <2>3. CASE Pending
    <3>1. IsFiniteSet(late') /\ Cardinality(late') <= L + 1 /\ abandoned' = abandoned + 1
      BY <1>5, <2>3, AbandonedIsLate DEF StartTimesOut, SlotsInv
    <3>2. Cardinality(late') \in Nat
      BY <3>1, FS_CardinalityType
    <3> QED
      BY <1>0, <2>1, <2>2, <2>3, <3>1, <3>2 DEF SlotsInv, OnTheWay
  <2>4. CASE ~ Pending
    <3>1. late' = late /\ abandoned' = abandoned
      BY <1>5, <2>4 DEF StartTimesOut, AbandonCall
    <3> QED
      BY <1>0, <2>1, <2>2, <2>4, <3>1 DEF SlotsInv, OnTheWay
  <2> QED
    BY <2>3, <2>4
<1> QED
  BY <1>1, <1>2, <1>3, <1>4, <1>5 DEF Keep

\* The manager puts a run in the slot it was counted for, early or late.
LEMMA SlotsManager ==
    ASSUME TypeOK, SlotsInv, Manager
    PROVE  SlotsInv'
<1> USE DEF clients, lists, loop
<1> DEFINE G == Cardinality(Going)
           L == Cardinality(late)
<1>0. G \in Nat /\ L \in Nat /\ Cardinality(seen) \in Nat /\ Len(leaving) \in Nat
      /\ Slots \in Nat /\ abandoned \in Nat
  BY Counts
<1>1. CASE ManagerMoves
  <2>1. UNCHANGED <<late, seen, abandoned, leaving, keep>> /\ keep = "calling"
    BY <1>1 DEF ManagerMoves
  <2>2. Pending /\ ~ Pending'
    BY <1>1 DEF ManagerMoves, Pending, TypeOK, Calls
  <2>3. Cardinality(Going') <= G + 1 /\ Cardinality(Going') \in Nat
    BY <1>1, MovedAddsOne DEF ManagerMoves, TypeOK
  <2> QED
    BY <1>0, <2>1, <2>2, <2>3 DEF SlotsInv, OnTheWay
<1>2. CASE ManagerRefuses
  <2>1. UNCHANGED <<late, seen, abandoned, leaving, keep>> /\ Going' = Going
    BY <1>2 DEF ManagerRefuses, Going
  <2>2. Pending /\ ~ Pending'
    BY <1>2 DEF ManagerRefuses, Pending, TypeOK, Calls
  <2> QED
    BY <1>0, <2>1, <2>2 DEF SlotsInv, OnTheWay
<1>3. ASSUME NEW c \in late, ManagerIsLate(c)
      PROVE  SlotsInv'
  <2>1. UNCHANGED <<seen, abandoned, leaving, keep, call>> /\ late' = late \ {c}
    BY <1>3 DEF ManagerIsLate
  <2>2. OnTheWay' = OnTheWay /\ OnTheWay \in Nat
    BY <1>0, <2>1 DEF OnTheWay, Pending
  <2>3. IsFiniteSet(late') /\ Cardinality(late') = L - 1
    BY <2>1, FS_RemoveElement DEF SlotsInv
  <2>4. Cardinality(Going') <= G + 1 /\ Cardinality(Going') \in Nat
    <3>1. CASE Moved(c)
      BY <3>1, MovedAddsOne DEF TypeOK
    <3>2. CASE UNCHANGED at
      <4>1. Going' = Going
        BY <3>2 DEF Going
      <4> QED
        BY <1>0, <4>1
    <3> QED
      BY <1>3, <3>1, <3>2 DEF ManagerIsLate
  <2> QED
    BY <1>0, <2>1, <2>2, <2>3, <2>4 DEF SlotsInv
<1> QED
  BY <1>1, <1>2, <1>3 DEF Manager

\* An executor that goes away leaves at most one call of its own behind.
LEMMA SlotsExecutor ==
    ASSUME TypeOK, SlotsInv, GoAway
    PROVE  SlotsInv'
<1>0. /\ Cardinality(Going) \in Nat /\ Cardinality(late) \in Nat
      /\ Len(leaving) \in Nat /\ Slots \in Nat /\ abandoned \in Nat
  BY Counts
<1>1. Going' = Going /\ seen' = {} /\ leaving' = <<>> /\ keep' = "idle" /\ ~ Pending'
  BY DEF GoAway, Going, Pending
<1>2. IsFiniteSet(seen') /\ Len(leaving') = 0
  BY <1>1, FS_EmptySet
<1>3. CASE Pending
  <2>1. IsFiniteSet(late') /\ Cardinality(late') <= Cardinality(late) + 1 /\ abandoned' = abandoned + 1
    BY <1>3, AbandonedIsLate DEF GoAway, SlotsInv
  <2>2. Cardinality(late') \in Nat
    BY <2>1, FS_CardinalityType
  <2> QED
    BY <1>0, <1>1, <1>2, <1>3, <2>1, <2>2 DEF SlotsInv, OnTheWay
<1>4. CASE ~ Pending
  <2>1. late' = late /\ abandoned' = abandoned
    BY <1>4 DEF GoAway, AbandonCall
  <2> QED
    BY <1>0, <1>1, <1>2, <1>4, <2>1 DEF SlotsInv, OnTheWay
<1> QED
  BY <1>3, <1>4

\* SlotsInv holds at the start and through every step.
LEMMA SlotsInductive == TypeOK /\ SlotsInv /\ [Next]_vars => SlotsInv'
<1> SUFFICES ASSUME TypeOK, SlotsInv, [Next]_vars
             PROVE  SlotsInv'
  OBVIOUS
<1>1. ASSUME NEW r \in Runs, Client(r)
      PROVE  SlotsInv'
  BY <1>1, ClientAddsNone, SlotsQuiet
<1>2. CASE Connection
  BY <1>2, ConnectionAddsNone, SlotsQuiet
<1>3. CASE ComeBack \/ UNCHANGED vars
  <2>1. Going' = Going /\ UNCHANGED <<keep, seen, leaving, call, late, abandoned>>
    BY <1>3 DEF ComeBack, vars, loop, Going
  <2> QED
    BY <2>1, SlotsQuiet
<1> QED
  BY <1>1, <1>2, <1>3, SlotsKeep, SlotsManager, SlotsExecutor DEF Next

\* Nothing goes at the start.
LEMMA SlotsInit == Init => SlotsInv
<1> SUFFICES ASSUME Init PROVE SlotsInv
  OBVIOUS
<1>1. Going = {} /\ seen = {} /\ late = {} /\ leaving = <<>> /\ ~ Pending
      /\ keep = "idle" /\ abandoned = 0
  BY DEF Init, Going, Pending
<1> QED
  BY <1>1, FS_EmptySet, QueueAssumption DEF SlotsInv, OnTheWay

\* No more runs go in scopes of their own than there are slots, whatever
\* executors came and went, but for the late calls of the manager.
THEOREM SlotsAreKept == Spec => []SlotsKept
<1>1. TypeOK /\ SlotsInv => SlotsKept
  <2> SUFFICES ASSUME TypeOK, SlotsInv PROVE SlotsKept
    OBVIOUS
  <2>1. OnTheWay \in Nat
    BY Counts DEF OnTheWay
  <2> QED
    BY <2>1, Counts DEF SlotsKept, SlotsInv
<1> QED
  BY <1>1, SlotsInit, SlotsInductive, TypeCorrect, PTL DEF Spec

-----------------------------------------------------------------------------

\* With no call of the manager given up, none is late.
LEMMA NoneIsLate ==
    ASSUME TypeOK, SlotsInv, abandoned = 0
    PROVE  late = {}
<1>1. Cardinality(late) = 0
  BY Counts DEF SlotsInv
<1> QED
  BY <1>1, FS_EmptySet DEF SlotsInv

\* A step that starts no unit and leaves the loop alone keeps UnitInv.
LEMMA UnitQuiet ==
    ASSUME UnitInv, Going' \subseteq Going,
           UNCHANGED <<keep, seen, call, seq, abandoned>>
    PROVE  UnitInv'
  BY DEF UnitInv, Pending

\* The loop numbers its units past those it saw and those it numbered before.
LEMMA UnitKeep ==
    ASSUME TypeOK, UnitInv, Keep
    PROVE  UnitInv'
<1> USE DEF clients, lists
<1>1. CASE Measure
  <2>1. Going' = Going /\ seen' = Going /\ ~ Pending' /\ abandoned' = abandoned
    BY <1>1 DEF Measure, Going, Pending
  <2> QED
    BY <2>1 DEF UnitInv
<1>2. ASSUME NEW k \in 0 .. Len(waiting), Look(k)
      PROVE  UnitInv'
  <2>1. Going' = Going /\ UNCHANGED <<seen, seq, abandoned>> /\ keep # "idle" /\ ~ Pending'
    BY <1>2 DEF Look, Going, Pending
  <2> QED
    BY <2>1 DEF UnitInv
<1>3. ASSUME NEW n \in seq + 1 .. seq + 1 + Cardinality(seen), AskManager(n)
      PROVE  UnitInv'
  <2>1. Going' = Going /\ UNCHANGED <<seen, abandoned>> /\ keep # "idle"
    BY <1>3 DEF AskManager, Going
  <2>2. call'.unit = n /\ seq' = n /\ n \notin seen
    BY <1>3 DEF AskManager, NextUnit
  <2>3. seq \in Nat /\ n \in Nat /\ n > seq
    BY <1>3 DEF TypeOK, AskManager
  <2>4. CASE abandoned = 0
    <3>1. Going \subseteq seen \union 1 .. seq
      BY <2>1, <2>4 DEF UnitInv
    <3> QED
      BY <2>1, <2>2, <2>3, <2>4, <3>1 DEF UnitInv
  <2> QED
    BY <2>1, <2>4 DEF UnitInv
<1>4. ASSUME NEW verdict \in {"admitted", "unheld"}, Let(verdict)
      PROVE  UnitInv'
  <2>1. Going' = Going /\ UNCHANGED <<seen, seq, abandoned>> /\ keep # "idle" /\ ~ Pending'
    BY <1>4 DEF Let, Going, Pending
  <2> QED
    BY <2>1 DEF UnitInv
<1>5. CASE StartTimesOut
  <2>1. Going' = Going /\ UNCHANGED <<seen, seq>> /\ keep # "idle" /\ ~ Pending'
    BY <1>5 DEF StartTimesOut, Going, Pending
  <2>2. abandoned' = 0 => abandoned = 0
    BY <1>5 DEF StartTimesOut, AbandonCall, TypeOK
  <2> QED
    BY <2>1, <2>2 DEF UnitInv
<1> QED
  BY <1>1, <1>2, <1>3, <1>4, <1>5 DEF Keep

\* The manager starts the unit of the call, the last one numbered.
LEMMA UnitManager ==
    ASSUME TypeOK, SlotsInv, UnitInv, Manager
    PROVE  UnitInv'
<1> USE DEF clients, lists, loop
<1>1. CASE ManagerMoves
  <2>1. UNCHANGED <<seen, seq, abandoned, keep>> /\ ~ Pending' /\ Pending /\ keep # "idle"
    BY <1>1 DEF ManagerMoves, Pending, TypeOK, Calls
  <2>2. Going' \subseteq Going \union {call.unit}
    BY <1>1, MovedAddsOne DEF ManagerMoves, TypeOK
  <2>3. seq \in Nat /\ call.unit \in Nat \ {0}
    BY <1>1 DEF ManagerMoves, TypeOK, Calls
  <2> QED
    BY <2>1, <2>2, <2>3 DEF UnitInv
<1>2. CASE ManagerRefuses
  <2>1. Going' = Going /\ UNCHANGED <<seen, seq, abandoned, keep>> /\ ~ Pending'
    BY <1>2 DEF ManagerRefuses, Going, Pending, TypeOK, Calls
  <2> QED
    BY <2>1 DEF UnitInv
<1>3. ASSUME NEW c \in late, ManagerIsLate(c)
      PROVE  UnitInv'
  <2>1. abandoned' = abandoned
    BY <1>3 DEF ManagerIsLate
  <2> QED
    BY <1>3, <2>1, NoneIsLate DEF UnitInv
<1> QED
  BY <1>1, <1>2, <1>3 DEF Manager

\* UnitInv holds through every step.
LEMMA UnitInductive == TypeOK /\ SlotsInv /\ UnitInv /\ [Next]_vars => UnitInv'
<1> SUFFICES ASSUME TypeOK, SlotsInv, UnitInv, [Next]_vars
             PROVE  UnitInv'
  OBVIOUS
<1>1. ASSUME NEW r \in Runs, Client(r)
      PROVE  UnitInv'
  BY <1>1, ClientAddsNone, UnitQuiet
<1>2. CASE Connection
  BY <1>2, ConnectionAddsNone, UnitQuiet
<1>3. CASE ComeBack \/ UNCHANGED vars
  <2>1. Going' = Going /\ UNCHANGED <<keep, seen, call, seq, abandoned>>
    BY <1>3 DEF ComeBack, vars, loop, Going
  <2> QED
    BY <2>1, UnitQuiet
<1>4. CASE GoAway
  BY <1>4 DEF GoAway, UnitInv, Pending
<1> QED
  BY <1>1, <1>2, <1>3, <1>4, UnitKeep, UnitManager DEF Next

\* The manager is never asked for a unit that goes, whoever numbered it, while
\* no call was given up.
THEOREM UnitsAreFree == Spec => []UnitIsFree
<1>1. Init => UnitInv
  BY DEF Init, UnitInv, Pending
<1>2. UnitInv => UnitIsFree
  BY DEF UnitInv, UnitIsFree
<1> QED
  BY <1>1, <1>2, SlotsInit, SlotsInductive, UnitInductive, TypeCorrect, PTL DEF Spec

-----------------------------------------------------------------------------

\* A process moved stays placed, whatever its client and the manager do next.
LEMMA PlacedStays ==
    ASSUME TypeOK, [Next]_vars, NEW r \in Runs, Placed(r)
    PROVE  Placed(r)'
<1> USE DEF TypeOK, Placed, clients, lists, loop
<1>1. ASSUME NEW s \in Runs, Client(s)
      PROVE  Placed(r)'
  <2>1. CASE StartInside(s)
    <3>1. state[s] = "new" /\ at' = [at EXCEPT ![s] = at[Parent[s]]] /\ at[Parent[s]] # 0
          /\ state' = [state EXCEPT ![s] = "running"]
      BY <2>1 DEF StartInside, CanStart
    <3> QED
      BY <3>1
  <2>2. CASE Ask(s)
    <3>1. at' = at /\ state[s] = "new"
          /\ \/ state' = [state EXCEPT ![s] = "asked"]
             \/ state' = [state EXCEPT ![s] = "running"]
      BY <2>2 DEF Ask, CanStart
    <3> QED
      BY <3>1
  <2>3. CASE Silence(s)
    BY <2>3 DEF Silence
  <2>4. CASE Redial(s)
    BY <2>4 DEF Redial
  <2>5. CASE GiveUp(s)
    BY <2>5 DEF GiveUp
  <2>6. CASE End(s)
    BY <2>6 DEF End
  <2> QED
    BY <1>1, <2>1, <2>2, <2>3, <2>4, <2>5, <2>6 DEF Client
<1>2. ASSUME NEW s \in Runs, Join(s) \/ TurnAway(s)
      PROVE  Placed(r)'
  <2>1. CASE Join(s)
    BY <2>1 DEF Join
  <2>2. CASE TurnAway(s)
    <3>1. \/ /\ state' = [state EXCEPT ![s] = "ended"]
             /\ at' = [at EXCEPT ![s] = 0]
          \/ /\ state' = [state EXCEPT ![s] = "running"]
             /\ state[s] = "asked" /\ at' = at
      BY <2>2 DEF TurnAway
    <3> QED
      BY <3>1
  <2> QED
    BY <1>2, <2>1, <2>2
<1>3. ASSUME NEW i \in 1 .. Len(waiting), Leave(i)
      PROVE  Placed(r)'
  BY <1>3 DEF Leave
<1>4. ASSUME NEW v \in verdicts, Deliver(v)
      PROVE  Placed(r)'
  BY <1>4 DEF Deliver, Holds, Verdicts, Waiters
<1>5. CASE Keep
  BY <1>5 DEF Keep, Measure, Look, AskManager, Let, StartTimesOut
<1>6. ASSUME NEW c \in Calls, Moved(c), state' = state
      PROVE  Placed(r)'
  BY <1>6 DEF Moved, Calls, Waiters
<1>7. CASE Manager
  <2>1. CASE ManagerMoves
    BY <1>6, <2>1 DEF ManagerMoves
  <2>2. CASE ManagerRefuses
    BY <2>2 DEF ManagerRefuses
  <2>3. ASSUME NEW c \in late, ManagerIsLate(c)
        PROVE  Placed(r)'
    BY <1>6, <2>3 DEF ManagerIsLate
  <2> QED
    BY <1>7, <2>1, <2>2, <2>3 DEF Manager
<1>8. CASE GoAway
  BY <1>8 DEF GoAway
<1>9. CASE ComeBack \/ UNCHANGED vars
  BY <1>9 DEF ComeBack, vars
<1> QED
  BY <1>1, <1>2, <1>3, <1>4, <1>5, <1>7, <1>8, <1>9 DEF Next, Connection

\* No verdict, and no word of a scope, comes from anything but the manager's
\* move.
LEMMA HeldInductive == TypeOK /\ HeldInv /\ [Next]_vars => HeldInv'
<1> SUFFICES ASSUME TypeOK, HeldInv, [Next]_vars
             PROVE  HeldInv'
  OBVIOUS
<1> USE DEF clients, lists, loop
<1> DEFINE Word == keep = "calling" /\ call.result = "moved"
<1>0. /\ keep = "calling" => call.waiter[1] \in Runs
      /\ \A v \in verdicts : v[1][1] \in Runs
  BY DEF TypeOK, Calls, Verdicts, Waiters
<1>1. CASE UNCHANGED <<keep, call>> /\ verdicts' \subseteq verdicts
  BY <1>0, <1>1, PlacedStays DEF HeldInv
<1>2. CASE keep' # "calling" /\ verdicts' \subseteq verdicts
  BY <1>0, <1>2, PlacedStays DEF HeldInv
<1>3. ASSUME NEW n \in Nat, AskManager(n)
      PROVE  HeldInv'
  <2>1. call'.result # "moved" /\ verdicts' = verdicts
    BY <1>3 DEF AskManager
  <2> QED
    BY <1>0, <2>1, PlacedStays DEF HeldInv
<1>4. ASSUME NEW verdict \in {"admitted", "unheld"}, Let(verdict)
      PROVE  HeldInv'
  <2>1. keep' # "calling" /\ verdicts' = verdicts \union {<<call.waiter, verdict>>}
    BY <1>4 DEF Let
  <2>2. verdict = "admitted" => Placed(call.waiter[1]) /\ call.waiter[1] \in Runs
    BY <1>0, <1>4 DEF Let, HeldInv
  <2>3. ASSUME NEW v \in verdicts', v[2] = "admitted"
        PROVE  Placed(v[1][1])'
    <3>1. CASE v \in verdicts
      BY <1>0, <2>3, <3>1, PlacedStays DEF HeldInv
    <3>2. CASE v = <<call.waiter, verdict>>
      BY <2>2, <2>3, <3>2, PlacedStays
    <3> QED
      BY <2>1, <3>1, <3>2
  <2> QED
    BY <2>1, <2>3 DEF HeldInv
<1>5. CASE StartTimesOut
  <2>1. keep' # "calling" /\ verdicts' = verdicts \union {<<call.waiter, "unheld">>}
    BY <1>5 DEF StartTimesOut
  <2> QED
    BY <1>0, <2>1, PlacedStays DEF HeldInv
<1>6. CASE ManagerMoves
  <2>1. keep' = "calling" /\ verdicts' = verdicts /\ call'.waiter = call.waiter /\ call \in Calls
    BY <1>6 DEF ManagerMoves, TypeOK, Calls
  <2>2. Placed(call.waiter[1])'
    BY <1>6 DEF ManagerMoves, Moved, TypeOK, Calls, Waiters, Placed
  <2> QED
    BY <1>0, <2>1, <2>2, PlacedStays DEF HeldInv
<1>7. CASE ManagerRefuses
  <2>1. verdicts' = verdicts /\ call'.result = "refused"
    BY <1>7 DEF ManagerRefuses, TypeOK, Calls
  <2> QED
    BY <1>0, <2>1, PlacedStays DEF HeldInv
<1>8. ASSUME NEW r \in Runs, Client(r)
      PROVE  HeldInv'
  BY <1>1, <1>8, ClientAddsNone
<1>9. CASE Connection
  <2>1. verdicts' \subseteq verdicts
    BY <1>9 DEF Connection, Join, TurnAway, Leave, Deliver, lists
  <2> QED
    BY <1>1, <1>9, <2>1, ConnectionAddsNone
<1>10. CASE Measure \/ \E k \in 0 .. Len(waiting) : Look(k)
  BY <1>2, <1>10 DEF Measure, Look
<1>11. ASSUME NEW c \in late, ManagerIsLate(c)
       PROVE  HeldInv'
  BY <1>1, <1>11 DEF ManagerIsLate
<1>12. CASE GoAway
  BY <1>2, <1>12 DEF GoAway
<1>13. CASE ComeBack \/ UNCHANGED vars
  BY <1>1, <1>13 DEF ComeBack, vars
<1>14. \A n \in seq + 1 .. seq + 1 + Cardinality(seen) : n \in Nat
  BY DEF TypeOK
<1> QED
  BY <1>3, <1>4, <1>5, <1>6, <1>7, <1>8, <1>9, <1>10, <1>11, <1>12, <1>13, <1>14
     DEF Next, Keep, Manager

\* A client that is told it is held lives in a scope.
THEOREM AdmittedAreHeld == Spec => []AdmittedIsHeld
<1>1. Init => HeldInv
  BY DEF Init, HeldInv
<1>2. HeldInv => AdmittedIsHeld
  BY DEF HeldInv, AdmittedIsHeld, Placed, Holds
<1> QED
  BY <1>1, <1>2, HeldInductive, TypeCorrect, PTL DEF Spec

-----------------------------------------------------------------------------

\* A place in the queue and the connection of its client agree.
InPlace(w, s, d) == /\ w[2] <= d[w[1]]
                    /\ s[w[1]] = "asked" => w[2] < d[w[1]]

Dialled(r, s, d, f) == /\ d[r] <= f + 1
                       /\ s[r] = "redialing" => d[r] <= f
                       /\ s[r] = "new" => d[r] = 0
                       /\ s[r] \in {"asked", "holding"} => d[r] > 0

\* TurnInv in these words.
LEMMA TurnParts ==
    TurnInv <=> /\ \A i \in 1 .. Len(waiting) : InPlace(waiting[i], state, dial)
                /\ faults <= MaxFaults
                /\ \A r \in Runs : Dialled(r, state, dial, faults)
  BY DEF TurnInv, InPlace, Dialled

\* The steps of a client keep the numbers of the connections in order.
LEMMA TurnClient ==
    ASSUME TypeOK, TurnInv, NEW s \in Runs, Client(s)
    PROVE  /\ faults' <= MaxFaults
           /\ waiting' = waiting
           /\ \A w \in Waiters : InPlace(w, state, dial) => InPlace(w, state', dial')
           /\ \A r \in Runs : Dialled(r, state', dial', faults')
<1> USE DEF TypeOK, States, Waiters, InPlace, Dialled, lists
<1>0. \A r \in Runs : Dialled(r, state, dial, faults)
  BY TurnParts
<1>1. CASE StartInside(s)
  <2>1. state[s] = "new" /\ state' = [state EXCEPT ![s] = "running"] /\ dial' = dial
        /\ faults' = faults /\ waiting' = waiting
    BY <1>1 DEF StartInside, CanStart
  <2> QED
    BY <1>0, <2>1 DEF TurnInv
<1>2. CASE Ask(s)
  <2>1. state[s] = "new" /\ faults' = faults /\ waiting' = waiting
    BY <1>2 DEF Ask, CanStart
  <2>2. \/ state' = [state EXCEPT ![s] = "asked"] /\ dial' = [dial EXCEPT ![s] = @ + 1]
        \/ state' = [state EXCEPT ![s] = "running"] /\ dial' = dial
    BY <1>2, Zenon DEF Ask
  <2>3. CASE state' = [state EXCEPT ![s] = "asked"] /\ dial' = [dial EXCEPT ![s] = @ + 1]
    BY <1>0, <2>1, <2>3 DEF TurnInv
  <2>4. CASE state' = [state EXCEPT ![s] = "running"] /\ dial' = dial
    BY <1>0, <2>1, <2>4 DEF TurnInv
  <2> QED
    BY <2>2, <2>3, <2>4
<1>3. CASE Silence(s)
  <2>1. /\ state' = [state EXCEPT ![s] = "redialing"] /\ dial' = dial
        /\ faults < MaxFaults /\ faults' = faults + 1 /\ waiting' = waiting
    BY <1>3 DEF Silence
  <2>2. MaxFaults \in Nat
    BY QueueAssumption
  <2>3. \A r \in Runs : Dialled(r, state', dial', faults')
    BY <1>0, <2>1
  <2> QED
    BY <2>1, <2>2, <2>3
<1>4. CASE Redial(s)
  BY <1>0, <1>4 DEF Redial, TurnInv
<1>5. CASE GiveUp(s)
  BY <1>0, <1>5 DEF GiveUp, TurnInv
<1>6. CASE End(s)
  BY <1>0, <1>6 DEF End, TurnInv
<1> QED
  BY <1>1, <1>2, <1>3, <1>4, <1>5, <1>6 DEF Client

\* What stands in the queue are waiters, and their places are in order.
LEMMA StandingPlaces ==
    ASSUME TypeOK, TurnInv
    PROVE  \A i \in 1 .. Len(waiting) : waiting[i] \in Waiters /\ InPlace(waiting[i], state, dial)
  BY TurnParts, ElementOfSeq DEF TypeOK

\* TurnInv holds through every step.
LEMMA TurnInductive == TypeOK /\ TurnInv /\ [Next]_vars => TurnInv'
<1> SUFFICES ASSUME TypeOK, TurnInv, [Next]_vars
             PROVE  TurnInv'
  OBVIOUS
<1> USE DEF clients, lists, loop
<1>0. /\ \A i \in 1 .. Len(waiting) : waiting[i] \in Waiters /\ InPlace(waiting[i], state, dial)
      /\ faults <= MaxFaults
      /\ \A r \in Runs : Dialled(r, state, dial, faults)
  BY TurnParts, StandingPlaces
<1> DEFINE Parts == /\ \A i \in 1 .. Len(waiting') : InPlace(waiting'[i], state', dial')
                    /\ faults' <= MaxFaults
                    /\ \A r \in Runs : Dialled(r, state', dial', faults')
<1>p. Parts => TurnInv'
  BY DEF TurnInv, InPlace, Dialled
<1>1. ASSUME NEW r \in Runs, Client(r)
      PROVE  Parts
  BY <1>0, <1>1, TurnClient
<1>2. ASSUME NEW r \in Runs, Join(r)
      PROVE  Parts
  <2>1. faults' = faults /\ dial' = dial /\ state[r] = "asked"
    BY <1>2 DEF Join
  <2>2. /\ state' = [state EXCEPT ![r] = "holding"]
        /\ waiting' = Append(waiting, Waiter(r))
        /\ Waiter(r) \in Waiters
    BY <1>2 DEF Join, Waiter, Waiters, TypeOK
  <2>3. /\ Len(waiting') = Len(waiting) + 1
        /\ \A i \in 1 .. Len(waiting) : waiting'[i] = waiting[i]
        /\ waiting'[Len(waiting) + 1] = Waiter(r)
        /\ Len(waiting) \in Nat
    BY <2>2, AppendProperties, LenProperties DEF TypeOK
  <2>4. \A w \in Waiters : InPlace(w, state, dial) => InPlace(w, state', dial')
    BY <2>1, <2>2 DEF InPlace, TypeOK, Waiters
  <2>5. InPlace(Waiter(r), state', dial')
    BY <2>1, <2>2 DEF InPlace, Waiter, TypeOK
  <2>6. \A i \in 1 .. Len(waiting') : InPlace(waiting'[i], state', dial')
    <3> SUFFICES ASSUME NEW i \in 1 .. Len(waiting')
                 PROVE  InPlace(waiting'[i], state', dial')
      OBVIOUS
    <3>1. CASE i = Len(waiting) + 1
      BY <2>3, <2>5, <3>1 DEF Waiter, InPlace
    <3>2. CASE i \in 1 .. Len(waiting)
      BY <1>0, <2>3, <2>4, <3>2 DEF InPlace
    <3> QED
      BY <2>3, <3>1, <3>2
  <2>7. \A s \in Runs : Dialled(s, state', dial', faults')
    BY <1>0, <2>1, <2>2 DEF Dialled, TypeOK
  <2> QED
    BY <1>0, <2>1, <2>6, <2>7
<1>11. ASSUME NEW r \in Runs, TurnAway(r)
       PROVE  Parts
  <2>1. /\ faults' = faults /\ dial' = dial /\ waiting' = waiting /\ state[r] = "asked"
        /\ \E x \in {"ended", "running"} : state' = [state EXCEPT ![r] = x]
    BY <1>11 DEF TurnAway
  <2>2. PICK x \in {"ended", "running"} : state' = [state EXCEPT ![r] = x]
    BY <2>1
  <2> QED
    BY <1>0, <2>1, <2>2 DEF TypeOK, InPlace, Dialled, Waiters
<1>3. ASSUME NEW i \in 1 .. Len(waiting), Leave(i)
      PROVE  Parts
  <2>1. UNCHANGED <<state, dial, faults>>
    BY <1>3 DEF Leave
  <2>2. \A j \in 1 .. Len(waiting') : \E k \in 1 .. Len(waiting) : waiting'[j] = waiting[k]
    <3>1. waiting \in Seq(Waiters)
      BY DEF TypeOK
    <3>2. waiting' = SubSeq(waiting, 1, i - 1) \o SubSeq(waiting, i + 1, Len(waiting))
      BY <1>3 DEF Leave
    <3> QED
      BY <3>1, <3>2, WithoutPlace
  <2> QED
    BY <1>0, <2>1, <2>2
<1>4. ASSUME NEW v \in verdicts, Deliver(v)
      PROVE  Parts
  <2>1. dial' = dial /\ faults' = faults /\ waiting' = waiting
    BY <1>4 DEF Deliver
  <2>2. state' = state \/ (v[1][1] \in Runs /\ state' = [state EXCEPT ![v[1][1]] = "running"])
    BY <1>4 DEF Deliver, TypeOK, Verdicts, Waiters
  <2> QED
    BY <1>0, <2>1, <2>2 DEF InPlace, Dialled, TypeOK, Waiters
<1>5. ASSUME NEW k \in 0 .. Len(waiting), Look(k)
      PROVE  Parts
  <2>1. UNCHANGED <<state, dial, faults>> /\ waiting' = SubSeq(waiting, k + 1, Len(waiting))
    BY <1>5 DEF Look
  <2>2. \A j \in 1 .. Len(waiting') : k + j \in 1 .. Len(waiting) /\ waiting'[j] = waiting[k + j]
    <3>1. Len(waiting) \in Nat
      BY LenProperties DEF TypeOK
    <3>2. Len(waiting') = Len(waiting) - k /\ \A j \in 1 .. Len(waiting') : waiting'[j] = waiting[k + j]
      BY <2>1, CutAt DEF TypeOK
    <3> QED
      BY <3>1, <3>2
  <2> QED
    BY <1>0, <2>1, <2>2 DEF InPlace, Dialled
<1>6. CASE UNCHANGED <<state, dial, faults, waiting>>
  BY <1>0, <1>6, <1>p
<1>12. CASE StartTimesOut
  <2>1. UNCHANGED <<state, dial, waiting>>
    BY <1>12 DEF StartTimesOut
  <2>2. faults' = faults \/ (faults < MaxFaults /\ faults' = faults + 1)
    BY <1>12 DEF StartTimesOut
  <2>3. MaxFaults \in Nat /\ faults \in Nat
    BY QueueAssumption DEF TypeOK
  <2>4. \A r \in Runs : Dialled(r, state', dial', faults')
    BY <1>0, <2>1, <2>2, <2>3 DEF Dialled, TypeOK
  <2> QED
    BY <1>0, <1>p, <2>1, <2>2, <2>3, <2>4
<1>7. CASE Measure \/ (\E n \in Nat : AskManager(n))
           \/ Let("admitted") \/ Let("unheld") \/ Manager \/ ComeBack
  BY <1>6, <1>7 DEF Measure, AskManager, Let, Manager, ManagerMoves,
                    ManagerRefuses, ManagerIsLate, ComeBack
<1>8. CASE GoAway
  <2>1. waiting' = <<>> /\ faults' = faults + 1 /\ faults < MaxFaults /\ dial' = dial
        /\ \A r \in Runs : state'[r] = IF state[r] \in {"asked", "holding"} THEN "redialing" ELSE state[r]
    BY <1>8 DEF GoAway
  <2>2. MaxFaults \in Nat /\ faults \in Nat
    BY QueueAssumption DEF TypeOK
  <2>3. \A i \in 1 .. Len(waiting') : InPlace(waiting'[i], state', dial')
    BY <2>1
  <2>4. \A r \in Runs : Dialled(r, state', dial', faults')
    BY <1>0, <2>1, <2>2 DEF Dialled, TypeOK, States
  <2> QED
    BY <1>p, <2>1, <2>2, <2>3, <2>4
<1>9. CASE UNCHANGED vars
  BY <1>6, <1>9 DEF vars
<1>10. \A n \in seq + 1 .. seq + 1 + Cardinality(seen) : n \in Nat
  BY DEF TypeOK
<1> QED
  BY <1>p, <1>1, <1>2, <1>3, <1>4, <1>5, <1>7, <1>8, <1>9, <1>10, <1>11, <1>12 DEF Next, Connection, Keep

\* A pass that begins has nobody left to let go.
LEMMA PassInductive == TypeOK /\ PassInv /\ [Next]_vars => PassInv'
<1> SUFFICES ASSUME TypeOK, PassInv, [Next]_vars
             PROVE  PassInv'
  OBVIOUS
<1> USE DEF PassInv
<1>1. ASSUME NEW r \in Runs, Client(r)
      PROVE  PassInv'
  BY <1>1, ClientAddsNone
<1>2. CASE Connection
  BY <1>2, ConnectionAddsNone
<1>3. ASSUME NEW k \in 0 .. Len(waiting), Look(k)
      PROVE  PassInv'
  <2>1. k = 0 => leaving' = <<>>
    BY <1>3, SubSeqEmpty DEF Look, TypeOK
  <2> QED
    BY <1>3, <2>1 DEF Look
<1>4. CASE Measure
  BY <1>4 DEF Measure, loop
<1>5. ASSUME NEW n \in Nat, AskManager(n)
      PROVE  PassInv'
  BY <1>5 DEF AskManager
<1>6. CASE Let("admitted") \/ Let("unheld")
  BY <1>6 DEF Let
<1>7. CASE StartTimesOut
  BY <1>7 DEF StartTimesOut
<1>8. CASE Manager
  BY <1>8 DEF Manager, ManagerMoves, ManagerRefuses, ManagerIsLate, loop
<1>9. CASE GoAway
  BY <1>9 DEF GoAway
<1>10. CASE ComeBack \/ UNCHANGED vars
  BY <1>10 DEF ComeBack, vars, loop
<1>11. \A n \in seq + 1 .. seq + 1 + Cardinality(seen) : n \in Nat
  BY DEF TypeOK
<1> QED
  BY <1>1, <1>2, <1>3, <1>4, <1>5, <1>6, <1>7, <1>8, <1>9, <1>10, <1>11 DEF Next, Keep

\* The connection of a run that has one is a turn of the line.
LEMMA WaiterIsATurn ==
    ASSUME TypeOK, TurnInv, NEW r \in Runs, dial[r] > 0
    PROVE  Waiter(r) \in Runs \X (1 .. MaxFaults + 1)
<1>1. dial[r] <= faults + 1 /\ faults <= MaxFaults
  BY DEF TurnInv
<1>2. MaxFaults \in Nat /\ faults \in Nat /\ dial[r] \in Nat
  BY QueueAssumption DEF TypeOK
<1> QED
  BY <1>1, <1>2 DEF Waiter

\* A client enters nobody in the line: its turn parts, or nothing happens.
LEMMA ClientParts ==
    ASSUME TypeOK, TurnInv, NEW r \in Runs, Client(r)
    PROVE  Line!Next \/ UNCHANGED <<waiting, Holding, Called>>
<1>1. UNCHANGED <<waiting, Called>>
  BY ClientAddsNone DEF Called
<1>2. CASE StartInside(r)
  <2>1. state[r] = "new" /\ state' = [state EXCEPT ![r] = "running"] /\ dial' = dial
    BY <1>2 DEF StartInside, CanStart
  <2>2. Holding' = Holding
    BY <2>1 DEF Holding, Waiter, TypeOK
  <2> QED
    BY <1>1, <2>2
<1>3. CASE Ask(r)
  <2>1. /\ state[r] = "new"
        /\ \A s \in Runs : /\ s # r => state'[s] = state[s] /\ dial'[s] = dial[s]
                           /\ s = r => state'[s] # "holding"
    BY <1>3 DEF Ask, CanStart, TypeOK
  <2>2. Holding' = Holding
    BY <2>1 DEF Holding, Waiter
  <2> QED
    BY <1>1, <2>2
<1>4. CASE Redial(r) \/ GiveUp(r)
  <2>1. /\ state[r] = "redialing"
        /\ \A s \in Runs : /\ s # r => state'[s] = state[s] /\ dial'[s] = dial[s]
                           /\ s = r => state'[s] # "holding"
    BY <1>4 DEF Redial, GiveUp, TypeOK
  <2>2. Holding' = Holding
    BY <2>1 DEF Holding, Waiter
  <2> QED
    BY <1>1, <2>2
<1>5. CASE Silence(r) \/ End(r)
  <2>1. /\ dial' = dial
        /\ \A s \in Runs : state'[s] = IF s = r THEN (IF Silence(r) THEN "redialing" ELSE "ended") ELSE state[s]
    BY <1>5 DEF Silence, End, TypeOK
  <2>2. CASE state[r] = "holding"
    <3>1. Holding' = Holding \ {Waiter(r)}
      BY <2>1 DEF Holding, Waiter
    <3>2. dial[r] > 0
      BY <2>2 DEF TurnInv
    <3>3. Waiter(r) \in Runs \X (1 .. MaxFaults + 1)
      BY <3>2, WaiterIsATurn
    <3> QED
      BY <1>1, <3>1, <3>3 DEF Line!Next, Line!Part
  <2>3. CASE state[r] # "holding"
    <3>1. Holding' = Holding
      BY <2>1, <2>3 DEF Holding, Waiter
    <3> QED
      BY <1>1, <3>1
  <2> QED
    BY <2>2, <2>3
<1> QED
  BY <1>2, <1>3, <1>4, <1>5 DEF Client

\* A verdict is told to a turn called, and its client holds no more.
LEMMA DeliverTells ==
    ASSUME TypeOK, NEW v \in verdicts, Deliver(v)
    PROVE  Line!Next
<1>1. v[1] \in Called
  BY DEF Called
<1>2. /\ waiting' = waiting /\ dial' = dial /\ verdicts' = verdicts \ {v}
      /\ UNCHANGED <<leaving, keep, call>>
      /\ state' = IF Holds(v[1]) THEN [state EXCEPT ![v[1][1]] = "running"] ELSE state
  BY DEF Deliver, loop
<1>3. Called' \in {Called, Called \ {v[1]}}
  BY <1>2 DEF Called
<1>4. v[1] \in Waiters /\ v[1][1] \in Runs /\ v[1] = <<v[1][1], v[1][2]>>
  BY DEF TypeOK, Verdicts, Waiters
<1>5. Holding' = Holding \ {v[1]}
  <2>1. CASE Holds(v[1])
    <3>1. v[1] = Waiter(v[1][1])
      BY <1>4, <2>1 DEF Holds, Waiter
    <3>2. \A s \in Runs : state'[s] = IF s = v[1][1] THEN "running" ELSE state[s]
      BY <1>2, <1>4, <2>1 DEF TypeOK
    <3> QED
      BY <1>2, <3>1, <3>2 DEF Holding, Waiter
  <2>2. CASE ~ Holds(v[1])
    <3>1. v[1] \notin Holding
      <4>1. ASSUME NEW s \in Runs, state[s] = "holding", v[1] = Waiter(s)
            PROVE  FALSE
        BY <2>2, <4>1 DEF Holds, Waiter
      <4> QED
        BY <4>1 DEF Holding
    <3>2. Holding' = Holding
      BY <1>2, <2>2 DEF Holding, Waiter
    <3> QED
      BY <3>1, <3>2
  <2> QED
    BY <2>1, <2>2
<1> QED
  BY <1>1, <1>2, <1>3, <1>5 DEF Line!Next, Line!Tell

\* A pass of the queue calls the head of the line, as far as it goes.
LEMMA LookCalls ==
    ASSUME TypeOK, PassInv, NEW k \in 0 .. Len(waiting), Look(k)
    PROVE  Line!Next \/ UNCHANGED <<waiting, Holding, Called>>
<1>1. /\ keep = "measured" /\ leaving = <<>>
      /\ leaving' = SubSeq(waiting, 1, k)
      /\ waiting' = SubSeq(waiting, k + 1, Len(waiting))
      /\ keep' # "calling"
      /\ UNCHANGED <<state, dial, verdicts>>
  BY DEF Look, PassInv, clients
<1>2. waiting \in Seq(Waiters) /\ Len(waiting) \in Nat /\ k \in Nat
  BY LenProperties DEF TypeOK
<1>3. Holding' = Holding
  BY <1>1 DEF Holding, Waiter
<1>4. CASE k = 0
  <2>1. leaving' = <<>>
    BY <1>1, <1>2, <1>4, SubSeqEmpty
  <2>2. waiting' = waiting
    BY <1>1, <1>2, <1>4, SubSeqFull
  <2>3. Called' = Called
    BY <1>1, <2>1 DEF Called
  <2> QED
    BY <1>3, <2>2, <2>3
<1>5. CASE k > 0
  <2>1. Len(leaving') = k /\ \A i \in 1 .. k : leaving'[i] = waiting[i]
    BY <1>1, <1>2, <1>5, SubSeqProperties
  <2>2. DOMAIN leaving' = 1 .. k
    BY <1>1, <1>2, <1>5, SubSeqProperties
  <2>3. DOMAIN leaving = {}
    BY <1>1
  <2>4. {leaving'[i] : i \in DOMAIN leaving'} = {waiting[i] : i \in 1 .. k}
    BY <2>1, <2>2
  <2>5. Called' = Called \union {waiting[i] : i \in 1 .. k}
    BY <1>1, <2>3, <2>4 DEF Called
  <2>6. Line!LetGo(k)
    BY <1>1, <1>3, <2>5 DEF Line!LetGo
  <2>7. k \in 1 .. Len(waiting)
    BY <1>2, <1>5
  <2> QED
    BY <2>6, <2>7 DEF Line!Next
<1> QED
  BY <1>2, <1>4, <1>5

\* Letting go those called calls nobody else, and forgets none of them.
LEMMA LettingCallsNone ==
    ASSUME TypeOK,
           \/ \E n \in Nat : AskManager(n)
           \/ Let("admitted") \/ Let("unheld") \/ StartTimesOut
    PROVE  UNCHANGED <<waiting, Holding, Called>>
<1>1. UNCHANGED <<waiting, Holding>>
  BY DEF AskManager, Let, StartTimesOut, Holding, Waiter, clients, lists
<1>2. ASSUME NEW n \in Nat, AskManager(n)
      PROVE  Called' = Called
  <2>1. /\ leaving # <<>> /\ keep = "letting" /\ keep' = "calling" /\ verdicts' = verdicts
        /\ leaving' = Tail(leaving) /\ call'.waiter = Head(leaving)
    BY <1>2 DEF AskManager, lists
  <2>2. leaving \in Seq(Waiters)
    BY DEF TypeOK
  <2>3. /\ Len(leaving) \in Nat \ {0} /\ DOMAIN leaving = 1 .. Len(leaving)
        /\ Head(leaving) = leaving[1]
        /\ DOMAIN Tail(leaving) = 1 .. Len(leaving) - 1
        /\ \A i \in 1 .. Len(leaving) - 1 : Tail(leaving)[i] = leaving[i + 1]
    BY <2>1, <2>2, HeadTailProperties, LenProperties, EmptySeq
  <2>4. {leaving[i] : i \in DOMAIN leaving}
            = {leaving[1]} \union {Tail(leaving)[i] : i \in DOMAIN Tail(leaving)}
    <3>1. ASSUME NEW i \in 1 .. Len(leaving)
          PROVE  leaving[i] \in {leaving[1]} \union {Tail(leaving)[j] : j \in 1 .. Len(leaving) - 1}
      <4>1. i = 1 \/ (i - 1 \in 1 .. Len(leaving) - 1 /\ leaving[i] = Tail(leaving)[i - 1])
        BY <2>3
      <4> QED
        BY <4>1
    <3>2. ASSUME NEW j \in 1 .. Len(leaving) - 1
          PROVE  Tail(leaving)[j] \in {leaving[i] : i \in 1 .. Len(leaving)}
      <4>1. j + 1 \in 1 .. Len(leaving) /\ Tail(leaving)[j] = leaving[j + 1]
        BY <2>3
      <4> QED
        BY <4>1
    <3>3. 1 \in 1 .. Len(leaving)
      BY <2>3
    <3> QED
      BY <2>3, <3>1, <3>2, <3>3
  <2> QED
    BY <2>1, <2>3, <2>4 DEF Called
<1>3. CASE Let("admitted") \/ Let("unheld") \/ StartTimesOut
  <2>1. /\ keep = "calling" /\ keep' # "calling" /\ leaving' = leaving
        /\ \E o \in {"admitted", "unheld"} : verdicts' = verdicts \union {<<call.waiter, o>>}
    BY <1>3 DEF Let, StartTimesOut
  <2>2. PICK o \in {"admitted", "unheld"} : verdicts' = verdicts \union {<<call.waiter, o>>}
    BY <2>1
  <2>3. {v[1] : v \in verdicts'} = {v[1] : v \in verdicts} \union {call.waiter}
    <3>1. <<call.waiter, o>> \in verdicts' /\ <<call.waiter, o>>[1] = call.waiter
      BY <2>2
    <3> QED
      BY <2>2, <3>1
  <2>4. Called = {leaving[i] : i \in DOMAIN leaving} \union {v[1] : v \in verdicts} \union {call.waiter}
    BY <2>1 DEF Called
  <2>5. Called' = {leaving'[i] : i \in DOMAIN leaving'} \union {v[1] : v \in verdicts'}
    BY <2>1 DEF Called
  <2> QED
    BY <1>1, <2>1, <2>3, <2>4, <2>5
<1> QED
  BY <1>1, <1>2, <1>3

\* A step of the queue is a step of the line, or leaves the line alone.
LEMMA LineStep ==
    TypeOK /\ TurnInv /\ PassInv /\ [Next]_vars => [Line!Next]_<<waiting, Holding, Called>>
<1> SUFFICES ASSUME TypeOK, TurnInv, PassInv, [Next]_vars
             PROVE  Line!Next \/ UNCHANGED <<waiting, Holding, Called>>
  OBVIOUS
<1>1. ASSUME NEW r \in Runs, Join(r)
      PROVE  Line!Next
  <2>1. /\ waiting' = Append(waiting, Waiter(r)) /\ state[r] = "asked"
        /\ state' = [state EXCEPT ![r] = "holding"] /\ dial' = dial
        /\ UNCHANGED <<leaving, verdicts, keep, call>>
    BY <1>1 DEF Join, loop
  <2>2. Waiter(r) \in Runs \X (1 .. MaxFaults + 1)
    <3>1. dial[r] > 0
      BY <2>1 DEF TurnInv
    <3> QED
      BY <3>1, WaiterIsATurn
  <2>3. Waiter(r) \notin Line!Standing
    <3>1. \A i \in 1 .. Len(waiting) : waiting[i][1] = r => waiting[i][2] < dial[r]
      BY <2>1 DEF TurnInv
    <3>2. DOMAIN waiting = 1 .. Len(waiting)
      BY LenProperties DEF TypeOK
    <3>3. ASSUME NEW i \in 1 .. Len(waiting), waiting[i] = Waiter(r)
          PROVE  FALSE
      <4>1. waiting[i][1] = r /\ waiting[i][2] = dial[r] /\ dial[r] \in Nat
        BY <3>3 DEF Waiter, TypeOK
      <4> QED
        BY <3>1, <4>1
    <3> QED
      BY <3>2, <3>3 DEF Line!Standing
  <2>4. Holding' = Holding \union {Waiter(r)}
    BY <2>1 DEF Holding, Waiter, TypeOK
  <2>5. Called' = Called
    BY <2>1 DEF Called
  <2> QED
    BY <2>1, <2>2, <2>3, <2>4, <2>5 DEF Line!Next, Line!Enter
<1>2. ASSUME NEW i \in 1 .. Len(waiting), Leave(i)
      PROVE  Line!Next
  <2>1. ~ Holds(waiting[i]) /\ UNCHANGED <<state, dial, leaving, verdicts, keep, call>>
    BY <1>2 DEF Leave, clients, loop
  <2>2. waiting[i] \notin Holding
    <3>1. ASSUME NEW s \in Runs, state[s] = "holding", waiting[i] = Waiter(s)
          PROVE  FALSE
      BY <2>1, <3>1 DEF Holds, Waiter
    <3> QED
      BY <3>1 DEF Holding
  <2>3. UNCHANGED <<Holding, Called>>
    BY <2>1 DEF Holding, Called, Waiter
  <2> QED
    BY <1>2, <2>2, <2>3 DEF Leave, Line!Next, Line!Quit
<1>3. CASE GoAway
  <2>1. /\ waiting' = <<>> /\ verdicts' = {} /\ leaving' = <<>> /\ keep' = "idle"
        /\ \A s \in Runs : state'[s] # "holding"
    BY <1>3 DEF GoAway, TypeOK
  <2>2. Holding' = {}
    BY <2>1 DEF Holding
  <2>3. Called' = {}
    BY <2>1 DEF Called
  <2> QED
    BY <2>1, <2>2, <2>3 DEF Line!Next, Line!Lost
<1>4. ASSUME NEW r \in Runs, TurnAway(r)
      PROVE  UNCHANGED <<waiting, Holding, Called>>
  <2>1. /\ state[r] = "asked" /\ dial' = dial
        /\ UNCHANGED <<waiting, leaving, verdicts, keep, call>>
        /\ \A s \in Runs : /\ s # r => state'[s] = state[s]
                           /\ s = r => state'[s] # "holding"
    BY <1>4 DEF TurnAway, TypeOK, lists, loop
  <2> QED
    BY <2>1 DEF Holding, Waiter, Called
<1>5. CASE Measure \/ ComeBack \/ UNCHANGED vars
  <2>1. UNCHANGED <<state, dial, waiting, leaving, verdicts, call>>
    BY <1>5 DEF Measure, ComeBack, vars, clients, lists, loop
  <2>2. (keep = "calling") = (keep' = "calling")
    BY <1>5 DEF Measure, ComeBack, vars, loop
  <2> QED
    BY <2>1, <2>2 DEF Holding, Waiter, Called
<1>6. CASE Manager
  <2>1. UNCHANGED <<state, dial, waiting, leaving, verdicts, keep>>
    BY <1>6 DEF Manager, ManagerMoves, ManagerRefuses, ManagerIsLate, clients, lists, loop
  <2>2. keep = "calling" => call'.waiter = call.waiter
    BY <1>6 DEF Manager, ManagerMoves, ManagerRefuses, ManagerIsLate, loop, TypeOK, Calls
  <2> QED
    BY <2>1, <2>2 DEF Holding, Waiter, Called
<1>7. \A n \in seq + 1 .. seq + 1 + Cardinality(seen) : n \in Nat
  BY DEF TypeOK
<1>8. CASE Connection
  BY <1>1, <1>2, <1>4, <1>8, DeliverTells DEF Connection
<1>9. CASE Keep
  BY <1>5, <1>7, <1>9, LookCalls, LettingCallsNone DEF Keep
<1>10. ASSUME NEW r \in Runs, Client(r)
       PROVE  Line!Next \/ UNCHANGED <<waiting, Holding, Called>>
  BY <1>10, ClientParts
<1> QED
  BY <1>3, <1>5, <1>6, <1>8, <1>9, <1>10 DEF Next

\* The queue of heavy runs implements the line: whoever is taken off it and
\* called stood at its head, one taken off uncalled has no client left, and only
\* the called are told, with any number of faults of the executor and of its
\* clients.
THEOREM QueueIsALine == Spec => InOrder
<1>1. Init => Line!Init
  BY DEF Init, Line!Init, Holding, Called
<1>2. Init => TurnInv /\ PassInv
  BY QueueAssumption DEF Init, TurnInv, PassInv
<1> QED
  BY <1>1, <1>2, TurnInductive, PassInductive, LineStep, TypeCorrect, PTL
     DEF Spec, InOrder, Line!Spec
=============================================================================
