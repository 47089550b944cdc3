-------------------------- MODULE HeavyMemoryProofs -------------------------
(***************************************************************************)
(* What TLAPS proves of HeavyMemory, for any runs, asks and limits and a   *)
(* word of any width, under its assumptions: the types, that the reserve   *)
(* of the machine and the budget of the slice are kept, and that the door  *)
(* agrees with the queue.                                                  *)
(*                                                                         *)
(* ReserveKept and BudgetKept are not inductive. A pass lets runs go by a  *)
(* measure taken before it, so MemoryInv has, besides, what the half of    *)
(* that measure already read says of the present (ReadThen: it falls short *)
(* by what was taken unseen at most), that only a run going holds anything *)
(* and never past its ask (Held), that a run stands in one place and has   *)
(* passed the door (Apart), and a bound under which no sum the queue makes *)
(* passes the end of a word (Bounded).                                     *)
(*                                                                         *)
(* The step that matters is the pass (AdmitKeeps). The queue adds what the *)
(* runs going and let go are still to take (LineIs); that sum and the ask  *)
(* of the next run are small enough to be the same as signed words and as  *)
(* numbers (WhatFits); so by induction over the runs let go the whole line *)
(* fits what the machine had when it was read (LetGo). Sums are handled by *)
(* induction on the length of a sequence, through the least element of the *)
(* set of the lengths for which a statement fails (Climbs).                *)
(***************************************************************************)
EXTENDS HeavyMemory, SequenceLemmas

-----------------------------------------------------------------------------
(* Sums.                                                                   *)

\* The sums of the first elements of a sequence, which SumOf takes the last of.
UpTo(s) == CHOOSE upTo : upTo = [i \in 0 .. Len(s) |-> IF i = 0 THEN 0 ELSE upTo[i - 1] + s[i]]

\* SumOf takes the last of them.
LEMMA SumIsTheLast == \A s : SumOf(s) = UpTo(s)[Len(s)]
BY DEF SumOf, UpTo

\* UpTo is well defined: there is a function with its equation.
LEMMA SumsExist ==
    ASSUME NEW s \in Seq(Int)
    PROVE  UpTo(s) = [i \in 0 .. Len(s) |-> IF i = 0 THEN 0 ELSE UpTo(s)[i - 1] + s[i]]
<1> DEFINE Sums(n) == {f \in [0 .. n -> Int] : f[0] = 0 /\ \A i \in 1 .. n : f[i] = f[i - 1] + s[i]}
           P == {n \in Nat : Sums(n) # {}}
<1>1. Len(s) \in Nat /\ \A i \in 1 .. Len(s) : s[i] \in Int
  BY Positions
<1>2. 0 \in P
  <2>1. [i \in 0 .. 0 |-> 0] \in Sums(0)
    OBVIOUS
  <2> QED BY <2>1
<1>3. ASSUME NEW n \in 0 .. Len(s) - 1, n \in P PROVE n + 1 \in P
  <2>1. PICK f \in Sums(n) : TRUE
    BY <1>3
  <2> DEFINE g == [i \in 0 .. n + 1 |-> IF i <= n THEN f[i] ELSE f[n] + s[n + 1]]
  <2>2. n \in Nat /\ n + 1 \in 1 .. Len(s)
    BY <1>1
  <2>3. f \in [0 .. n -> Int] /\ f[0] = 0 /\ \A i \in 1 .. n : f[i] = f[i - 1] + s[i]
    BY <2>1
  <2>4. f[n] + s[n + 1] \in Int
    BY <1>1, <2>2, <2>3
  <2>5. g \in [0 .. n + 1 -> Int]
    BY <2>2, <2>3, <2>4
  <2>6. g[0] = 0
    BY <2>2, <2>3
  <2>7. ASSUME NEW i \in 1 .. n + 1 PROVE g[i] = g[i - 1] + s[i]
    <3>1. CASE i <= n
      BY <2>2, <2>3, <3>1
    <3>2. CASE i = n + 1
      BY <2>2, <3>2
    <3> QED BY <2>2, <3>1, <3>2
  <2>8. g \in Sums(n + 1)
    <3> HIDE DEF g
    <3> QED BY <2>5, <2>6, <2>7
  <2>9. n + 1 \in Nat
    BY <2>2
  <2> HIDE DEF Sums
  <2> QED BY <2>8, <2>9
<1>4. Len(s) \in P
  <2> HIDE DEF P
  <2>1. \A i \in 0 .. Len(s) - 1 : i \in P => i + 1 \in P
    BY <1>3
  <2>2. Len(s) \in 0 .. Len(s)
    BY <1>1
  <2> QED BY <1>1, <1>2, <2>1, <2>2, Climbs
<1>5. PICK f \in Sums(Len(s)) : TRUE
  BY <1>4
<1>6. f = [i \in 0 .. Len(s) |-> IF i = 0 THEN 0 ELSE f[i - 1] + s[i]]
  <2>1. f \in [0 .. Len(s) -> Int] /\ f[0] = 0 /\ \A i \in 1 .. Len(s) : f[i] = f[i - 1] + s[i]
    BY <1>5
  <2>2. \A i \in 0 .. Len(s) : i = 0 \/ i \in 1 .. Len(s)
    BY <1>1
  <2> QED BY <2>1, <2>2
<1> QED BY <1>6 DEF UpTo

\* Each sum is the one before it and an element.
LEMMA EachSum ==
    ASSUME NEW s \in Seq(Int)
    PROVE  /\ Len(s) \in Nat
           /\ UpTo(s)[0] = 0
           /\ \A i \in 1 .. Len(s) : UpTo(s)[i] = UpTo(s)[i - 1] + s[i] /\ s[i] \in Int
           /\ \A i \in 0 .. Len(s) : UpTo(s)[i] \in Int
           /\ SumOf(s) \in Int
<1>1. Len(s) \in Nat /\ \A i \in 1 .. Len(s) : s[i] \in Int
  BY Positions
<1> DEFINE u == UpTo(s)
<1>2. u = [i \in 0 .. Len(s) |-> IF i = 0 THEN 0 ELSE u[i - 1] + s[i]]
  BY SumsExist
<1> HIDE DEF u
<1>3. u[0] = 0
  <2>1. 0 \in 0 .. Len(s)
    BY <1>1
  <2> QED BY <1>2, <2>1
<1>4. ASSUME NEW i \in 1 .. Len(s) PROVE u[i] = u[i - 1] + s[i] /\ s[i] \in Int
  <2>1. i \in 0 .. Len(s) /\ i # 0
    BY <1>1
  <2> QED BY <1>1, <1>2, <2>1
<1>5. \A i \in 0 .. Len(s) : u[i] \in Int
  <2> DEFINE P == {i \in 0 .. Len(s) : u[i] \in Int}
  <2>1. 0 \in P
    BY <1>1, <1>3
  <2>2. ASSUME NEW i \in 0 .. Len(s) - 1, i \in P PROVE i + 1 \in P
    <3>1. i + 1 \in 1 .. Len(s) /\ (i + 1) - 1 = i /\ i + 1 \in 0 .. Len(s)
      BY <1>1
    <3>2. u[i + 1] = u[i] + s[i + 1] /\ s[i + 1] \in Int
      BY <1>4, <3>1
    <3> QED BY <2>2, <3>1, <3>2
  <2>3. \A i \in 0 .. Len(s) - 1 : i \in P => i + 1 \in P
    BY <2>2
  <2> HIDE DEF P
  <2>4. \A i \in 0 .. Len(s) : i \in P
    BY <1>1, <2>1, <2>3, Climbs
  <2> QED BY <2>4 DEF P
<1>6. SumOf(s) \in Int
  <2>1. SumOf(s) = u[Len(s)] /\ Len(s) \in 0 .. Len(s)
    BY <1>1, SumIsTheLast DEF u
  <2> QED BY <1>5, <2>1
<1> QED BY <1>1, <1>3, <1>4, <1>5, <1>6 DEF u

\* Sums of two sequences stand to each other as their first elements do.
LEMMA SumsAgree ==
    ASSUME NEW s \in Seq(Int), NEW t \in Seq(Int), NEW n \in 0 .. Len(s), n <= Len(t),
           \A i \in 1 .. n : s[i] = t[i]
    PROVE  UpTo(s)[n] = UpTo(t)[n]
<1> DEFINE u == UpTo(s)
           v == UpTo(t)
           P == {i \in 0 .. n : u[i] = v[i]}
<1>1. /\ Len(s) \in Nat /\ Len(t) \in Nat /\ n \in Nat /\ u[0] = 0 /\ v[0] = 0
      /\ \A i \in 1 .. Len(s) : u[i] = u[i - 1] + s[i]
      /\ \A i \in 1 .. Len(t) : v[i] = v[i - 1] + t[i]
  <2>1. Len(s) \in Nat /\ u[0] = 0 /\ \A i \in 1 .. Len(s) : u[i] = u[i - 1] + s[i]
    BY EachSum
  <2>2. Len(t) \in Nat /\ v[0] = 0 /\ \A i \in 1 .. Len(t) : v[i] = v[i - 1] + t[i]
    BY EachSum
  <2> QED BY <2>1, <2>2
<1> HIDE DEF u, v
<1>2. 0 \in P
  BY <1>1
<1>3. ASSUME NEW i \in 0 .. n - 1, i \in P PROVE i + 1 \in P
  <2>1. i + 1 \in 1 .. n /\ i + 1 \in 1 .. Len(s) /\ i + 1 \in 1 .. Len(t) /\ (i + 1) - 1 = i /\ i + 1 \in 0 .. n
    BY <1>1
  <2>2. u[i + 1] = u[i] + s[i + 1] /\ v[i + 1] = v[i] + t[i + 1] /\ s[i + 1] = t[i + 1]
    BY <1>1, <2>1
  <2> QED BY <1>3, <2>1, <2>2
<1>4. n \in P
  <2>1. \A i \in 0 .. n - 1 : i \in P => i + 1 \in P
    BY <1>3
  <2> HIDE DEF P
  <2>2. \A i \in 0 .. n : i \in P
    BY <1>1, <1>2, <2>1, Climbs
  <2> QED BY <1>1, <2>2
<1> QED BY <1>4 DEF u, v

\* One element more.
LEMMA SumAndOne ==
    ASSUME NEW s \in Seq(Int), NEW t \in Seq(Int), Len(t) = Len(s) + 1,
           \A i \in 1 .. Len(s) : t[i] = s[i]
    PROVE  SumOf(t) = SumOf(s) + t[Len(t)]
<1>1. Len(s) \in Nat /\ Len(s) \in 0 .. Len(s) /\ Len(t) \in 1 .. Len(t) /\ Len(t) - 1 = Len(s) /\ Len(s) <= Len(t)
  BY EachSum
<1>2. UpTo(s)[Len(s)] = UpTo(t)[Len(s)]
  BY <1>1, SumsAgree
<1>3. UpTo(t)[Len(t)] = UpTo(t)[Len(t) - 1] + t[Len(t)]
  BY <1>1, EachSum
<1> QED BY <1>1, <1>2, <1>3, SumIsTheLast

\* Pointwise order and pointwise sums.
LEMMA SumsInOrder ==
    ASSUME NEW s \in Seq(Int), NEW t \in Seq(Int), Len(t) = Len(s),
           \A i \in 1 .. Len(s) : s[i] <= t[i]
    PROVE  SumOf(s) <= SumOf(t)
<1> DEFINE u == UpTo(s)
           v == UpTo(t)
           P == {i \in 0 .. Len(s) : u[i] <= v[i]}
<1>1. /\ Len(s) \in Nat /\ u[0] = 0 /\ \A i \in 1 .. Len(s) : u[i] = u[i - 1] + s[i] /\ s[i] \in Int
      /\ \A i \in 0 .. Len(s) : u[i] \in Int
  BY EachSum
<1>2. /\ v[0] = 0 /\ \A i \in 1 .. Len(s) : v[i] = v[i - 1] + t[i] /\ t[i] \in Int
      /\ \A i \in 0 .. Len(s) : v[i] \in Int
  BY EachSum
<1> HIDE DEF u, v
<1>3. 0 \in P
  BY <1>1, <1>2
<1>4. ASSUME NEW i \in 0 .. Len(s) - 1, i \in P PROVE i + 1 \in P
  <2>1. i + 1 \in 1 .. Len(s) /\ (i + 1) - 1 = i /\ i + 1 \in 0 .. Len(s) /\ i \in 0 .. Len(s)
    BY <1>1
  <2>2. u[i + 1] = u[i] + s[i + 1] /\ v[i + 1] = v[i] + t[i + 1] /\ s[i + 1] <= t[i + 1]
    BY <1>1, <1>2, <2>1
  <2>3. u[i] \in Int /\ v[i] \in Int /\ s[i + 1] \in Int /\ t[i + 1] \in Int /\ u[i] <= v[i]
    BY <1>1, <1>2, <1>4, <2>1
  <2> QED BY <2>1, <2>2, <2>3
<1>5. Len(s) \in P
  <2>1. \A i \in 0 .. Len(s) - 1 : i \in P => i + 1 \in P
    BY <1>4
  <2> HIDE DEF P
  <2>2. \A i \in 0 .. Len(s) : i \in P
    BY <1>1, <1>3, <2>1, Climbs
  <2> QED BY <1>1, <2>2
<1> QED BY <1>5, SumIsTheLast DEF u, v

\* The sum of the sums of two sequences.
LEMMA SumsAdd ==
    ASSUME NEW s \in Seq(Int), NEW t \in Seq(Int), NEW w \in Seq(Int), Len(t) = Len(s), Len(w) = Len(s),
           \A i \in 1 .. Len(s) : w[i] = s[i] + t[i]
    PROVE  SumOf(w) = SumOf(s) + SumOf(t)
<1> DEFINE u == UpTo(s)
           v == UpTo(t)
           x == UpTo(w)
           P == {i \in 0 .. Len(s) : x[i] = u[i] + v[i]}
<1>1. /\ Len(s) \in Nat /\ u[0] = 0 /\ \A i \in 1 .. Len(s) : u[i] = u[i - 1] + s[i] /\ s[i] \in Int
      /\ \A i \in 0 .. Len(s) : u[i] \in Int
  BY EachSum
<1>2. /\ v[0] = 0 /\ \A i \in 1 .. Len(s) : v[i] = v[i - 1] + t[i] /\ t[i] \in Int
      /\ \A i \in 0 .. Len(s) : v[i] \in Int
  BY EachSum
<1>3. x[0] = 0 /\ \A i \in 1 .. Len(s) : x[i] = x[i - 1] + w[i]
  BY EachSum
<1> HIDE DEF u, v, x
<1>4. 0 \in P
  BY <1>1, <1>2, <1>3
<1>5. ASSUME NEW i \in 0 .. Len(s) - 1, i \in P PROVE i + 1 \in P
  <2>1. i + 1 \in 1 .. Len(s) /\ (i + 1) - 1 = i /\ i + 1 \in 0 .. Len(s) /\ i \in 0 .. Len(s)
    BY <1>1
  <2>2. u[i + 1] = u[i] + s[i + 1] /\ v[i + 1] = v[i] + t[i + 1] /\ x[i + 1] = x[i] + w[i + 1]
        /\ w[i + 1] = s[i + 1] + t[i + 1]
    BY <1>1, <1>2, <1>3, <2>1
  <2>3. u[i] \in Int /\ v[i] \in Int /\ s[i + 1] \in Int /\ t[i + 1] \in Int /\ x[i] = u[i] + v[i]
    BY <1>1, <1>2, <1>5, <2>1
  <2> QED BY <2>1, <2>2, <2>3
<1>6. Len(s) \in P
  <2>1. \A i \in 0 .. Len(s) - 1 : i \in P => i + 1 \in P
    BY <1>5
  <2> HIDE DEF P
  <2>2. \A i \in 0 .. Len(s) : i \in P
    BY <1>1, <1>4, <2>1, Climbs
  <2> QED BY <1>1, <2>2
<1> QED BY <1>6, SumIsTheLast DEF u, v, x

\* A sequence of numbers that are not negative.
LEMMA SumIsANumber ==
    ASSUME NEW s \in Seq(Nat)
    PROVE  SumOf(s) \in Nat /\ s \in Seq(Int)
<1>1. s \in Seq(Int) /\ Len(s) \in Nat /\ \A i \in 1 .. Len(s) : s[i] \in Nat
  <2>1. DOMAIN s = 1 .. Len(s) /\ Len(s) \in Nat /\ \A i \in 1 .. Len(s) : s[i] \in Nat
    BY Positions
  <2>2. s \in [1 .. Len(s) -> Int]
    BY <2>1
  <2> QED BY <2>1, <2>2
<1> DEFINE u == UpTo(s)
           P == {i \in 0 .. Len(s) : u[i] \in Nat}
<1>2. u[0] = 0 /\ \A i \in 1 .. Len(s) : u[i] = u[i - 1] + s[i]
  BY <1>1, EachSum
<1> HIDE DEF u
<1>3. 0 \in P
  BY <1>1, <1>2
<1>4. ASSUME NEW i \in 0 .. Len(s) - 1, i \in P PROVE i + 1 \in P
  <2>1. i + 1 \in 1 .. Len(s) /\ (i + 1) - 1 = i /\ i + 1 \in 0 .. Len(s)
    BY <1>1
  <2>2. u[i + 1] = u[i] + s[i + 1] /\ s[i + 1] \in Nat
    BY <1>1, <1>2, <2>1
  <2> QED BY <1>4, <2>1, <2>2
<1>5. Len(s) \in P
  <2>1. \A i \in 0 .. Len(s) - 1 : i \in P => i + 1 \in P
    BY <1>4
  <2> HIDE DEF P
  <2>2. \A i \in 0 .. Len(s) : i \in P
    BY <1>1, <1>3, <2>1, Climbs
  <2> QED BY <1>1, <2>2
<1> QED BY <1>1, <1>5, SumIsTheLast DEF u

\* A sum of noughts.
LEMMA SumOfNoughts ==
    ASSUME NEW s \in Seq(Int), \A i \in 1 .. Len(s) : s[i] = 0
    PROVE  SumOf(s) = 0
<1> DEFINE u == UpTo(s)
           P == {i \in 0 .. Len(s) : u[i] = 0}
<1>1. Len(s) \in Nat /\ u[0] = 0 /\ \A i \in 1 .. Len(s) : u[i] = u[i - 1] + s[i]
  BY EachSum
<1> HIDE DEF u
<1>2. 0 \in P
  BY <1>1
<1>3. ASSUME NEW i \in 0 .. Len(s) - 1, i \in P PROVE i + 1 \in P
  <2>1. i + 1 \in 1 .. Len(s) /\ (i + 1) - 1 = i /\ i + 1 \in 0 .. Len(s)
    BY <1>1
  <2>2. u[i + 1] = u[i] + s[i + 1] /\ s[i + 1] = 0
    BY <1>1, <2>1
  <2> QED BY <1>3, <2>1, <2>2
<1>4. Len(s) \in P
  <2>1. \A i \in 0 .. Len(s) - 1 : i \in P => i + 1 \in P
    BY <1>3
  <2> HIDE DEF P
  <2>2. \A i \in 0 .. Len(s) : i \in P
    BY <1>1, <1>2, <2>1, Climbs
  <2> QED BY <1>1, <2>2
<1> QED BY <1>4, SumIsTheLast DEF u

\* One element less, and one element changed.
LEMMA SumWithout ==
    ASSUME NEW s \in Seq(Int), NEW j \in 1 .. Len(s)
    PROVE  RemoveAt(s, j) \in Seq(Int) /\ SumOf(RemoveAt(s, j)) = SumOf(s) - s[j] /\ s[j] \in Int
<1> DEFINE t == RemoveAt(s, j)
           u == UpTo(s)
           v == UpTo(t)
           P == {i \in 0 .. Len(t) : v[i] = IF i < j THEN u[i] ELSE u[i + 1] - s[j]}
<1>1. t \in Seq(Int) /\ Len(t) = Len(s) - 1 /\ \A i \in 1 .. Len(t) : t[i] = IF i < j THEN s[i] ELSE s[i + 1]
  BY WithoutOne
<1>2. /\ Len(s) \in Nat /\ u[0] = 0 /\ \A i \in 1 .. Len(s) : u[i] = u[i - 1] + s[i] /\ s[i] \in Int
      /\ \A i \in 0 .. Len(s) : u[i] \in Int
  BY EachSum
<1> HIDE DEF t
<1>3. v[0] = 0 /\ \A i \in 1 .. Len(t) : v[i] = v[i - 1] + t[i]
  BY <1>1, EachSum
<1> HIDE DEF u, v
<1>0. j \in Nat /\ 0 < j /\ j <= Len(s) /\ Len(t) \in Nat /\ s[j] \in Int
  BY <1>1, <1>2
<1>4. 0 \in P
  BY <1>0, <1>2, <1>3
<1>5. ASSUME NEW i \in 0 .. Len(t) - 1, i \in P PROVE i + 1 \in P
  <2>1. i + 1 \in 1 .. Len(t) /\ (i + 1) - 1 = i /\ i + 1 \in 0 .. Len(t) /\ i \in Nat
    BY <1>0
  <2>2. v[i + 1] = v[i] + t[i + 1] /\ t[i + 1] = IF i + 1 < j THEN s[i + 1] ELSE s[(i + 1) + 1]
    BY <1>1, <1>3, <2>1
  <2>3. i + 1 \in 1 .. Len(s) /\ (i + 1) + 1 \in 1 .. Len(s) /\ ((i + 1) + 1) - 1 = i + 1
        /\ i \in 0 .. Len(s) /\ i + 1 \in 0 .. Len(s)
    BY <1>0, <1>1
  <2>4. /\ u[i + 1] = u[i] + s[i + 1] /\ u[(i + 1) + 1] = u[i + 1] + s[(i + 1) + 1]
        /\ u[i] \in Int /\ u[i + 1] \in Int /\ s[i + 1] \in Int /\ s[(i + 1) + 1] \in Int
    BY <1>2, <2>1, <2>3
  <2>5. v[i] = IF i < j THEN u[i] ELSE u[i + 1] - s[j]
    BY <1>5
  <2>6. v[i + 1] = IF i + 1 < j THEN u[i + 1] ELSE u[(i + 1) + 1] - s[j]
    <3>1. CASE i + 1 < j
      BY <1>0, <2>1, <2>2, <2>4, <2>5, <3>1
    <3>2. CASE i + 1 = j
      <4>1. v[i + 1] = u[i] + s[(i + 1) + 1] /\ s[j] = s[i + 1]
        BY <1>0, <2>1, <2>2, <2>5, <3>2
      <4> QED BY <2>1, <2>4, <3>2, <4>1
    <3>3. CASE i >= j
      <4>1. v[i + 1] = (u[i + 1] - s[j]) + s[(i + 1) + 1]
        BY <1>0, <2>1, <2>2, <2>5, <3>3
      <4>2. ~ (i + 1 < j)
        BY <1>0, <2>1, <3>3
      <4>3. v[i + 1] = u[(i + 1) + 1] - s[j]
        <5> DEFINE a == u[i + 1]
                   b == s[(i + 1) + 1]
                   c == s[j]
                   d == u[(i + 1) + 1]
        <5>1. a \in Int /\ b \in Int /\ c \in Int /\ d = a + b /\ v[i + 1] = (a - c) + b
          BY <1>0, <2>4, <4>1
        <5> HIDE DEF a, b, c, d
        <5>2. v[i + 1] = d - c
          BY <5>1
        <5> QED BY <5>2 DEF c, d
      <4> QED BY <4>2, <4>3
    <3> QED BY <1>0, <2>1, <3>1, <3>2, <3>3
  <2> QED BY <2>1, <2>6
<1>6. Len(t) \in P
  <2>1. \A i \in 0 .. Len(t) - 1 : i \in P => i + 1 \in P
    BY <1>5
  <2> HIDE DEF P
  <2>2. \A i \in 0 .. Len(t) : i \in P
    BY <1>0, <1>4, <2>1, Climbs
  <2> QED BY <1>0, <2>2
<1>7. u[Len(s)] = u[Len(s) - 1] + s[Len(s)] /\ u[Len(s)] \in Int /\ u[Len(s) - 1] \in Int /\ Len(s) - 1 \in 0 .. Len(s)
      /\ s[Len(s)] \in Int
  <2>1. Len(s) \in 1 .. Len(s) /\ Len(s) \in 0 .. Len(s) /\ Len(s) - 1 \in 0 .. Len(s)
    BY <1>0, <1>2
  <2> QED BY <1>2, <2>1
<1>8. v[Len(t)] = u[Len(s)] - s[j]
  <2>1. v[Len(t)] = IF Len(t) < j THEN u[Len(t)] ELSE u[Len(t) + 1] - s[j]
    BY <1>6
  <2>2. CASE Len(t) < j
    <3>1. j = Len(s)
      BY <1>0, <1>1, <1>2, <2>2
    <3> QED BY <1>1, <1>7, <2>1, <2>2, <3>1
  <2>3. CASE ~ (Len(t) < j)
    <3>1. Len(t) + 1 = Len(s)
      BY <1>1, <1>2
    <3> QED BY <2>1, <2>3, <3>1
  <2> QED BY <2>2, <2>3
<1> QED BY <1>0, <1>1, <1>8, SumIsTheLast DEF t, u, v

\* One element is another.
LEMMA SumChanged ==
    ASSUME NEW s \in Seq(Int), NEW t \in Seq(Int), Len(t) = Len(s), NEW j \in 1 .. Len(s),
           \A i \in 1 .. Len(s) : i # j => t[i] = s[i]
    PROVE  SumOf(t) = SumOf(s) - s[j] + t[j]
<1> DEFINE a == RemoveAt(s, j)
           b == RemoveAt(t, j)
<1>0. Len(t) = Len(s) /\ j \in 1 .. Len(t)
  OBVIOUS
<1>1. /\ a \in Seq(Int) /\ SumOf(a) = SumOf(s) - s[j] /\ s[j] \in Int
      /\ Len(a) = Len(s) - 1 /\ \A i \in 1 .. Len(s) - 1 : a[i] = IF i < j THEN s[i] ELSE s[i + 1]
  <2>1. a \in Seq(Int) /\ SumOf(a) = SumOf(s) - s[j] /\ s[j] \in Int
    BY SumWithout
  <2>2. /\ Len(a) = Len(s) - 1
        /\ \A i \in 1 .. Len(s) - 1 : a[i] = IF i < j THEN s[i] ELSE s[i + 1]
    BY PlacesWithout
  <2> QED BY <2>1, <2>2
<1>2. /\ b \in Seq(Int) /\ SumOf(b) = SumOf(t) - t[j] /\ t[j] \in Int
      /\ Len(b) = Len(s) - 1 /\ \A i \in 1 .. Len(s) - 1 : b[i] = IF i < j THEN t[i] ELSE t[i + 1]
  <2>1. b \in Seq(Int) /\ SumOf(b) = SumOf(t) - t[j] /\ t[j] \in Int
    BY <1>0, SumWithout
  <2>2. /\ Len(b) = Len(t) - 1
        /\ \A i \in 1 .. Len(t) - 1 : b[i] = IF i < j THEN t[i] ELSE t[i + 1]
    BY <1>0, PlacesWithout
  <2> QED BY <1>0, <2>1, <2>2
<1> HIDE DEF a, b
<1>3. ASSUME NEW i \in 1 .. Len(a) PROVE a[i] = b[i]
  <2>1. Len(s) \in Nat /\ j \in Nat /\ i \in 1 .. Len(s) - 1
    BY <1>1, EachSum
  <2>2. CASE i < j
    <3>1. i \in 1 .. Len(s) /\ i # j
      BY <2>1, <2>2
    <3> QED BY <1>1, <1>2, <2>1, <2>2, <3>1
  <2>3. CASE ~ (i < j)
    <3>1. i + 1 \in 1 .. Len(s) /\ i + 1 # j
      BY <2>1, <2>3
    <3> QED BY <1>1, <1>2, <2>1, <2>3, <3>1
  <2> QED BY <2>2, <2>3
<1>4. SumOf(a) = SumOf(b)
  <2>1. Len(a) \in Nat /\ Len(a) \in 0 .. Len(a) /\ Len(a) <= Len(b)
    BY <1>1, <1>2, EachSum
  <2>2. UpTo(a)[Len(a)] = UpTo(b)[Len(a)]
    BY <1>1, <1>2, <1>3, <2>1, SumsAgree
  <2> QED BY <1>1, <1>2, <2>2, SumIsTheLast
<1>5. SumOf(s) \in Int /\ SumOf(t) \in Int
  BY EachSum
<1>6. SumOf(s) - s[j] = SumOf(t) - t[j] /\ s[j] \in Int /\ t[j] \in Int
  BY <1>1, <1>2, <1>4, Zenon
<1> DEFINE x == SumOf(s)
           y == SumOf(t)
           c == s[j]
           d == t[j]
<1>7. x \in Int /\ y \in Int /\ c \in Int /\ d \in Int /\ x - c = y - d
  BY <1>5, <1>6, Zenon
<1> HIDE DEF x, y, c, d
<1>8. y = (x - c) + d
  BY <1>7
<1> QED BY <1>8 DEF x, y, c, d

-----------------------------------------------------------------------------
(* What a line of runs has between them.                                   *)

Each(g, f) == [i \in DOMAIN g |-> f[g[i]]]
Over(g, f) == SumOf(Each(g, f))

\* Together is Over of those going.
LEMMA TogetherIsOver ==
    /\ Together(taken) = Over(going, taken) /\ Together(taken)' = Over(going', taken')
    /\ Together(unseen) = Over(going, unseen) /\ Together(unseen)' = Over(going', unseen')
    /\ Together(Ask) = Over(going, Ask) /\ Together(Ask)' = Over(going', Ask)
BY DEF Together, Over, Each

\* Each is a sequence of numbers, one for each of the line.
LEMMA EachIs ==
    ASSUME NEW g \in Seq(Runs), NEW f \in [Runs -> Nat]
    PROVE  /\ Each(g, f) \in Seq(Nat) /\ Each(g, f) \in Seq(Int)
           /\ Len(Each(g, f)) = Len(g) /\ Len(g) \in Nat
           /\ \A i \in 1 .. Len(g) : Each(g, f)[i] = f[g[i]] /\ g[i] \in Runs /\ f[g[i]] \in Nat
<1>1. Len(g) \in Nat /\ DOMAIN g = 1 .. Len(g) /\ \A i \in 1 .. Len(g) : g[i] \in Runs
  BY Positions
<1> DEFINE s == Each(g, f)
<1>2. s = [i \in 1 .. Len(g) |-> f[g[i]]]
  BY <1>1 DEF Each
<1> HIDE DEF s
<1>3. s \in [1 .. Len(g) -> Nat]
  BY <1>1, <1>2
<1>4. s \in Seq(Nat) /\ Len(s) = Len(g)
  BY <1>1, <1>3
<1>5. s \in Seq(Int)
  BY <1>4, SumIsANumber
<1>6. \A i \in 1 .. Len(g) : s[i] = f[g[i]]
  BY <1>2
<1> QED BY <1>1, <1>4, <1>5, <1>6 DEF s

\* What a line has is a number.
LEMMA OverIsANumber ==
    ASSUME NEW g \in Seq(Runs), NEW f \in [Runs -> Nat]
    PROVE  Over(g, f) \in Nat
BY EachIs, SumIsANumber DEF Over

\* Nobody has anything.
LEMMA OverNobody == \A f : Over(<<>>, f) = 0
<1> TAKE f
<1>1. Each(<<>>, f) = <<>> /\ <<>> \in Seq(Int) /\ Len(<<>>) = 0
  BY DEF Each
<1> QED BY <1>1, EachSum, SumIsTheLast DEF Over

\* If each has no more of f than of h, so have they together.
LEMMA OverInOrder ==
    ASSUME NEW g \in Seq(Runs), NEW f \in [Runs -> Nat], NEW h \in [Runs -> Nat],
           \A r \in ToSet(g) : f[r] <= h[r]
    PROVE  Over(g, f) <= Over(g, h)
<1>1. /\ Each(g, f) \in Seq(Int) /\ Len(Each(g, f)) = Len(g)
      /\ \A i \in 1 .. Len(g) : Each(g, f)[i] = f[g[i]]
  BY EachIs
<1>2. /\ Each(g, h) \in Seq(Int) /\ Len(Each(g, h)) = Len(g)
      /\ \A i \in 1 .. Len(g) : Each(g, h)[i] = h[g[i]]
  BY EachIs
<1>3. \A i \in 1 .. Len(g) : g[i] \in ToSet(g)
  BY Positions
<1>4. \A i \in 1 .. Len(g) : Each(g, f)[i] <= Each(g, h)[i]
  BY <1>1, <1>2, <1>3
<1> QED BY <1>1, <1>2, <1>4, SumsInOrder DEF Over

\* What nobody of the line has more or less of.
LEMMA OverOthers ==
    ASSUME NEW g \in Seq(Runs), NEW f \in [Runs -> Nat], NEW h \in [Runs -> Nat],
           \A r \in ToSet(g) : f[r] = h[r]
    PROVE  Over(g, f) = Over(g, h)
<1>1. /\ Len(g) \in Nat /\ DOMAIN g = 1 .. Len(g)
      /\ \A i \in 1 .. Len(g) : g[i] \in ToSet(g)
  BY Positions
<1>2. Each(g, f) = Each(g, h)
  BY <1>1 DEF Each
<1> QED BY <1>2 DEF Over

\* One of a line that stand in it once takes a unit more.
LEMMA OverGrown ==
    ASSUME NEW g \in Seq(Runs), IsInjective(g), NEW r \in ToSet(g), NEW f \in [Runs -> Nat]
    PROVE  Over(g, [f EXCEPT ![r] = @ + 1]) = Over(g, f) + 1
<1> DEFINE h == [f EXCEPT ![r] = @ + 1]
<1>1. r \in Runs /\ h \in [Runs -> Nat] /\ h[r] = f[r] + 1 /\ \A q \in Runs : q # r => h[q] = f[q]
  BY Positions
<1> HIDE DEF h
<1>2. PICK j \in 1 .. Len(g) : g[j] = r
  BY Positions
<1>3. /\ Each(g, f) \in Seq(Int) /\ Len(Each(g, f)) = Len(g)
      /\ \A i \in 1 .. Len(g) : Each(g, f)[i] = f[g[i]] /\ g[i] \in Runs
  BY EachIs
<1>4. /\ Each(g, h) \in Seq(Int) /\ Len(Each(g, h)) = Len(g)
      /\ \A i \in 1 .. Len(g) : Each(g, h)[i] = h[g[i]]
  BY <1>1, EachIs
<1>5. \A i \in 1 .. Len(g) : i # j => g[i] # r
  BY <1>2, Positions DEF IsInjective
<1>6. \A i \in 1 .. Len(g) : i # j => Each(g, h)[i] = Each(g, f)[i]
  BY <1>1, <1>3, <1>4, <1>5
<1> DEFINE s == Each(g, f)
           t == Each(g, h)
<1>7. s \in Seq(Int) /\ t \in Seq(Int) /\ Len(t) = Len(s) /\ j \in 1 .. Len(s)
      /\ \A i \in 1 .. Len(s) : i # j => t[i] = s[i]
  BY <1>3, <1>4, <1>6
<1>8. s[j] = f[r] /\ t[j] = f[r] + 1 /\ f[r] \in Nat
  BY <1>1, <1>2, <1>3, <1>4
<1>9. SumOf(s) \in Int
  BY <1>7, EachSum
<1> HIDE DEF s, t
<1>10. SumOf(t) = SumOf(s) - s[j] + t[j]
  BY <1>7, SumChanged
<1>11. SumOf(t) = SumOf(s) + 1
  BY <1>8, <1>9, <1>10
<1> QED BY <1>11 DEF Over, s, t, h

\* One leaves the line.
LEMMA OverWithout ==
    ASSUME NEW g \in Seq(Runs), NEW j \in 1 .. Len(g), NEW f \in [Runs -> Nat]
    PROVE  /\ Over(RemoveAt(g, j), f) = Over(g, f) - f[g[j]]
           /\ f[g[j]] \in Nat
<1> DEFINE s == Each(g, f)
           k == RemoveAt(g, j)
           t == Each(k, f)
           w == RemoveAt(s, j)
<1>1. k \in Seq(Runs) /\ Len(k) = Len(g) - 1
  BY WithoutOne
<1>2. \A i \in 1 .. Len(g) - 1 : k[i] = IF i < j THEN g[i] ELSE g[i + 1]
  BY PlacesWithout
<1>3. s \in Seq(Int) /\ Len(s) = Len(g) /\ Len(g) \in Nat
      /\ \A i \in 1 .. Len(g) : s[i] = f[g[i]] /\ f[g[i]] \in Nat
  BY EachIs
<1> HIDE DEF k
<1>4. t \in Seq(Int) /\ Len(t) = Len(k) /\ \A i \in 1 .. Len(k) : t[i] = f[k[i]]
  BY <1>1, EachIs
<1> HIDE DEF s, t
<1>5. j \in 1 .. Len(s)
  BY <1>3
<1>6. w \in Seq(Int) /\ SumOf(w) = SumOf(s) - s[j]
  BY <1>3, <1>5, SumWithout
<1>7. Len(w) = Len(s) - 1 /\ \A i \in 1 .. Len(s) - 1 : w[i] = IF i < j THEN s[i] ELSE s[i + 1]
  BY <1>3, <1>5, PlacesWithout
<1> HIDE DEF w
<1>8. ASSUME NEW i \in 1 .. Len(t) PROVE t[i] = w[i]
  <2>1. i \in 1 .. Len(g) - 1 /\ i \in Nat /\ j \in Nat /\ i \in 1 .. Len(g) /\ i + 1 \in 1 .. Len(g) /\ i \in 1 .. Len(k)
    BY <1>1, <1>3, <1>4
  <2>2. t[i] = f[k[i]] /\ s[i] = f[g[i]] /\ s[i + 1] = f[g[i + 1]]
    BY <1>3, <1>4, <2>1
  <2>3. CASE i < j
    BY <1>2, <1>3, <1>7, <2>1, <2>2, <2>3
  <2>4. CASE ~ (i < j)
    BY <1>2, <1>3, <1>7, <2>1, <2>2, <2>4
  <2> QED BY <2>3, <2>4
<1>9. SumOf(t) = SumOf(w)
  <2>1. Len(t) \in Nat /\ Len(t) \in 0 .. Len(t) /\ Len(t) <= Len(w) /\ Len(t) = Len(w)
    BY <1>1, <1>3, <1>4, <1>7, EachSum
  <2>2. UpTo(t)[Len(t)] = UpTo(w)[Len(t)]
    BY <1>4, <1>6, <1>8, <2>1, SumsAgree
  <2> QED BY <2>1, <2>2, SumIsTheLast
<1>10. s[j] = f[g[j]] /\ f[g[j]] \in Nat
  BY <1>3
<1> QED BY <1>6, <1>9, <1>10 DEF Over, s, t, k

\* One joins it.
LEMMA OverAndOne ==
    ASSUME NEW g \in Seq(Runs), NEW k \in Seq(Runs), Len(k) = Len(g) + 1,
           \A i \in 1 .. Len(g) : k[i] = g[i], NEW f \in [Runs -> Nat]
    PROVE  Over(k, f) = Over(g, f) + f[k[Len(k)]]
<1> DEFINE s == Each(g, f)
           t == Each(k, f)
<1>1. s \in Seq(Int) /\ Len(s) = Len(g) /\ Len(g) \in Nat /\ \A i \in 1 .. Len(g) : s[i] = f[g[i]]
  BY EachIs
<1>2. t \in Seq(Int) /\ Len(t) = Len(k) /\ \A i \in 1 .. Len(k) : t[i] = f[k[i]]
  BY EachIs
<1> HIDE DEF s, t
<1>3. \A i \in 1 .. Len(s) : t[i] = s[i]
  BY <1>1, <1>2
<1>4. SumOf(t) = SumOf(s) + t[Len(t)]
  BY <1>1, <1>2, <1>3, SumAndOne
<1>5. t[Len(t)] = f[k[Len(k)]]
  BY <1>1, <1>2
<1> QED BY <1>4, <1>5 DEF Over, s, t

-----------------------------------------------------------------------------
(* The steps of the runs.                                                  *)

\* What the assumptions say of the sizes.
LEMMA SizesAre ==
    /\ Half \in Nat \ {0} /\ Word \subseteq Nat /\ Real \subseteq Word
    /\ Ask \in [Runs -> Nat] /\ \A r \in Runs : Ask[r] \in Word /\ Ask[r] > 0
    /\ TheLimits.total \in Real /\ TheLimits.reserve \in Real /\ TheLimits.budget \in Real
    /\ TheLimits.total \in Nat /\ TheLimits.reserve \in Nat /\ TheLimits.budget \in Nat
    /\ Sessions \in Word /\ Other \in Word /\ Sessions \in Nat /\ Other \in Nat
    /\ 2 * (TheLimits.total - TheLimits.reserve) <= Half
<1>1. Half \in Nat \ {0} /\ Word \subseteq Nat /\ Real \subseteq Word
  BY HalfAssumption DEF Word, Real
<1>2. Ask \in [Runs -> Word \ {0}] /\ Sessions \in Word /\ Other \in Word
  BY MemoryAssumption
<1>3. /\ TheLimits.total \in Real /\ TheLimits.reserve \in Real /\ TheLimits.budget \in Real
      /\ 2 * (TheLimits.total - TheLimits.reserve) <= Half
  BY SizesAssumption
<1>4. \A r \in Runs : Ask[r] \in Word \ {0}
  BY <1>2
<1>5. Ask \in [Runs -> Nat] /\ \A r \in Runs : Ask[r] \in Word /\ Ask[r] > 0
  <2>1. ASSUME NEW r \in Runs PROVE Ask[r] \in Nat /\ Ask[r] \in Word /\ Ask[r] > 0
    <3>1. Ask[r] \in Word /\ Ask[r] # 0
      BY <1>4
    <3>2. Ask[r] \in Nat
      BY <1>1, <3>1
    <3> QED BY <3>1, <3>2
  <2>2. Ask \in [Runs -> Nat]
    BY <1>2, <2>1
  <2> QED BY <2>1, <2>2
<1>6. /\ TheLimits.total \in Nat /\ TheLimits.reserve \in Nat /\ TheLimits.budget \in Nat
      /\ Sessions \in Nat /\ Other \in Nat
  BY <1>1, <1>2, <1>3
<1> QED BY <1>1, <1>2, <1>3, <1>5, <1>6

\* The sizes that enter sums with the counts of the runs.
LEMMA Amounts == /\ TheLimits.total \in Nat /\ TheLimits.reserve \in Nat /\ TheLimits.budget \in Nat
                 /\ Sessions \in Nat /\ Other \in Nat
BY SizesAre

\* What the runs have between them is a number.
LEMMA Counts ==
    ASSUME TypeOK
    PROVE  /\ going \in Seq(Runs) /\ waiting \in Seq(Runs)
           /\ taken \in [Runs -> Nat] /\ unseen \in [Runs -> Nat]
           /\ Together(taken) \in Nat /\ Together(unseen) \in Nat /\ Together(Ask) \in Nat
           /\ slip \in Nat
<1>1. /\ going \in Seq(Runs) /\ waiting \in Seq(Runs)
      /\ taken \in [Runs -> Nat] /\ unseen \in [Runs -> Nat] /\ slip \in Nat /\ Ask \in [Runs -> Nat]
  BY SizesAre DEF TypeOK
<1>2. Together(taken) \in Nat
  BY <1>1, OverIsANumber, TogetherIsOver
<1>3. Together(unseen) \in Nat
  BY <1>1, OverIsANumber, TogetherIsOver
<1>4. Together(Ask) \in Nat
  BY <1>1, OverIsANumber, TogetherIsOver
<1> QED BY <1>1, <1>2, <1>3, <1>4

\* What the runs going hold is what they asked for at most, and what they took
\* unseen they hold.
LEMMA HeldInOrder ==
    ASSUME TypeOK, Held
    PROVE  Together(unseen) <= Together(taken) /\ Together(taken) <= Together(Ask)
<1>1. /\ going \in Seq(Runs) /\ ToSet(going) \subseteq Runs
      /\ taken \in [Runs -> Nat] /\ unseen \in [Runs -> Nat] /\ Ask \in [Runs -> Nat]
  BY Counts, SizesAre, Positions
<1>2. Over(going, unseen) <= Over(going, taken)
  BY <1>1, OverInOrder DEF Held
<1>3. Over(going, taken) <= Over(going, Ask)
  BY <1>1, OverInOrder DEF Held
<1> QED BY <1>2, <1>3, TogetherIsOver

\* What the slice holds is a size.
LEMMA SliceIsAWord ==
    ASSUME MemoryInv
    PROVE  Sessions + Together(taken) \in Word
<1>1. /\ Together(taken) \in Nat /\ Together(taken) <= Together(Ask) /\ Together(Ask) \in Nat /\ slip \in Nat
  BY Counts, HeldInOrder DEF MemoryInv
<1>2. CASE going = <<>>
  <2>1. Together(taken) = 0
    BY <1>2, OverNobody, TogetherIsOver
  <2> QED BY <2>1, SizesAre
<1>3. CASE going # <<>>
  <2>1. /\ TheLimits.reserve + Other + Sessions + Together(Ask) <= TheLimits.total + slip
        /\ slip <= TheLimits.total - TheLimits.reserve
    BY <1>3 DEF MemoryInv, ReserveKept, Bounded
  <2>2. Sessions + Together(taken) <= Half
    BY <1>1, <2>1, SizesAre
  <2> QED BY <1>1, <2>2, SizesAre DEF Word
<1> QED BY <1>2, <1>3

\* It holds at the start.
LEMMA InvStarts == Init => MemoryInv
<1> SUFFICES ASSUME Init PROVE MemoryInv
  OBVIOUS
<1>1. <<>> \in Seq(Runs) /\ ToSet(<<>>) = {} /\ IsInjective(<<>>)
  BY DEF ToSet, IsInjective
<1>2. 0 \in Word
  BY SizesAre DEF Word
<1>3. TypeOK
  BY <1>1, <1>2 DEF Init, TypeOK
<1>4. Apart
  BY <1>1 DEF Init, Apart
<1>5. Held
  BY SizesAre DEF Init, Held
<1> QED BY <1>3, <1>4, <1>5 DEF Init, Bounded, ReadThen, ReserveKept, BudgetKept, MemoryInv

\* A step of the line of those that wait leaves the memory as it was.
LEMMA MemoryStays ==
    ASSUME MemoryInv, UNCHANGED <<going, taken, unseen, read, slip>>, waiting' \in Seq(Runs),
           IsInjective(waiting'), ToSet(waiting') \cap ToSet(going) = {},
           \A r \in ToSet(waiting') : ~ Never(TheLimits, Ask[r])
    PROVE  MemoryInv'
<1>1. Together(taken)' = Together(taken) /\ Together(unseen)' = Together(unseen) /\ Together(Ask)' = Together(Ask)
  BY TogetherIsOver
<1>2. TypeOK'
  BY DEF MemoryInv, TypeOK
<1>3. Apart'
  BY DEF MemoryInv, Apart
<1>4. Held'
  BY DEF MemoryInv, Held
<1>5. Bounded'
  BY <1>1 DEF MemoryInv, Bounded
<1>6. ReadThen'
  BY <1>1 DEF MemoryInv, ReadThen
<1>7. ReserveKept' /\ BudgetKept'
  BY <1>1 DEF MemoryInv, ReserveKept, BudgetKept
<1> QED BY <1>2, <1>3, <1>4, <1>5, <1>6, <1>7 DEF MemoryInv

\* A run joins the line: it has passed the door.
LEMMA JoinKeeps == ASSUME MemoryInv, NEW r \in Runs, Join(r) PROVE MemoryInv'
<1>1. waiting \in Seq(Runs) /\ IsInjective(waiting) /\ r \notin ToSet(waiting) /\ r \notin ToSet(going)
      /\ ToSet(waiting) \cap ToSet(going) = {} /\ waiting' = Append(waiting, r)
  BY DEF MemoryInv, TypeOK, Apart, Join
<1>2. waiting' \in Seq(Runs) /\ ToSet(waiting') = ToSet(waiting) \union {r} /\ IsInjective(waiting')
  BY <1>1, Appended
<1>3. \A q \in ToSet(waiting') : ~ Never(TheLimits, Ask[q])
  BY <1>2 DEF MemoryInv, Apart, Join
<1> QED BY <1>1, <1>2, <1>3, MemoryStays DEF Join

\* A run leaves the line.
LEMMA LeaveKeeps == ASSUME MemoryInv, NEW r \in Runs, Leave(r) PROVE MemoryInv'
<1>1. PICK i \in DOMAIN waiting : waiting' = RemoveAt(waiting, i)
  BY DEF Leave
<1>2. waiting \in Seq(Runs) /\ IsInjective(waiting) /\ ToSet(waiting) \cap ToSet(going) = {}
  BY DEF MemoryInv, TypeOK, Apart
<1>3. i \in 1 .. Len(waiting)
  BY <1>1, <1>2, Positions
<1>4. waiting' \in Seq(Runs) /\ ToSet(waiting') \subseteq ToSet(waiting) /\ IsInjective(waiting')
  BY <1>1, <1>2, <1>3, WithoutOne
<1>5. \A q \in ToSet(waiting') : ~ Never(TheLimits, Ask[q])
  BY <1>4 DEF MemoryInv, Apart
<1> QED BY <1>2, <1>4, <1>5, MemoryStays DEF Leave

\* A run grows: what it takes after the machine was read, it takes unseen.
LEMMA GrowKeeps == ASSUME MemoryInv, NEW r \in Runs, Grow(r) PROVE MemoryInv'
<1>1. /\ going \in Seq(Runs) /\ IsInjective(going) /\ r \in ToSet(going)
      /\ taken \in [Runs -> Nat] /\ unseen \in [Runs -> Nat] /\ Ask \in [Runs -> Nat]
      /\ Together(taken) \in Nat /\ Together(unseen) \in Nat /\ Together(Ask) \in Nat
  BY Counts, SizesAre DEF MemoryInv, Apart, Grow
<1>2. /\ taken' = [taken EXCEPT ![r] = @ + 1] /\ taken[r] < Ask[r]
      /\ UNCHANGED <<waiting, going, read, slip>>
      /\ \/ read = NoRead /\ unseen' = unseen
         \/ read # NoRead /\ unseen' = [unseen EXCEPT ![r] = @ + 1]
  BY DEF Grow
<1>3. Together(taken)' = Together(taken) + 1
  <2>1. Over(going, [taken EXCEPT ![r] = @ + 1]) = Over(going, taken) + 1
    BY <1>1, OverGrown
  <2> QED BY <1>2, <2>1, TogetherIsOver
<1>4. \/ read = NoRead /\ Together(unseen)' = Together(unseen)
      \/ read # NoRead /\ Together(unseen)' = Together(unseen) + 1
  <2>1. Over(going, [unseen EXCEPT ![r] = @ + 1]) = Over(going, unseen) + 1
    BY <1>1, OverGrown
  <2> QED BY <1>2, <2>1, TogetherIsOver
<1>5. Together(Ask)' = Together(Ask)
  BY <1>2, TogetherIsOver
<1>6. Held'
  <2>1. \A q \in Runs : /\ unseen'[q] <= taken'[q] /\ taken'[q] <= Ask[q]
                        /\ q # r => taken'[q] = taken[q]
    <3> TAKE q \in Runs
    <3>1. unseen[q] \in Nat /\ taken[q] \in Nat /\ Ask[q] \in Nat /\ unseen[q] <= taken[q] /\ taken[q] <= Ask[q]
      BY <1>1 DEF MemoryInv, Held
    <3>2. CASE q = r
      BY <1>1, <1>2, <3>1, <3>2
    <3>3. CASE q # r
      BY <1>1, <1>2, <3>1, <3>3
    <3> QED BY <3>2, <3>3
  <2>2. \A q \in Runs : taken'[q] # 0 => q \in ToSet(going)
    BY <1>1, <2>1 DEF MemoryInv, Held
  <2> QED BY <1>2, <2>1, <2>2 DEF Held
<1>7. TypeOK'
  <2>1. \A q \in Runs : Ask[q] \in Word
    BY SizesAre
  <2>2. taken' \in [Runs -> Nat] /\ unseen' \in [Runs -> Nat]
    <3>1. taken' \in [Runs -> Nat]
      BY <1>1, <1>2
    <3>2. [unseen EXCEPT ![r] = @ + 1] \in [Runs -> Nat]
      BY <1>1
    <3> QED BY <1>1, <1>2, <3>1, <3>2
  <2>3. \A q \in Runs : taken'[q] \in Word /\ unseen'[q] \in Word
    <3> TAKE q \in Runs
    <3>1. taken'[q] \in Nat /\ unseen'[q] \in Nat /\ unseen'[q] <= taken'[q] /\ taken'[q] <= Ask[q]
      BY <1>6, <2>2 DEF Held
    <3> QED BY <2>1, <3>1, SizesAre DEF Word
  <2>4. taken' \in [Runs -> Word] /\ unseen' \in [Runs -> Word]
    BY <2>2, <2>3
  <2> QED BY <1>2, <2>4 DEF MemoryInv, TypeOK
<1>8. Apart'
  BY <1>2 DEF MemoryInv, Apart
<1>9. Bounded'
  <2> SUFFICES ASSUME going # <<>>
               PROVE  /\ Together(Ask)' + Together(unseen)' <= TheLimits.total - TheLimits.reserve + Together(taken)'
                      /\ slip <= TheLimits.total - TheLimits.reserve
    BY <1>2 DEF Bounded
  <2>1. /\ Together(Ask) + Together(unseen) <= TheLimits.total - TheLimits.reserve + Together(taken)
        /\ slip <= TheLimits.total - TheLimits.reserve
    BY DEF MemoryInv, Bounded
  <2>2. Together(unseen)' <= Together(unseen) + 1 /\ Together(unseen)' \in Nat
    BY <1>1, <1>4
  <2>3. /\ Together(Ask) \in Nat /\ Together(taken) \in Nat /\ Together(unseen) \in Nat
        /\ Together(Ask)' = Together(Ask) /\ Together(taken)' = Together(taken) + 1
    BY <1>1, <1>3, <1>5
  <2>4. TheLimits.total \in Nat /\ TheLimits.reserve \in Nat
    BY Amounts
  <2> DEFINE a == Together(Ask)
             t == Together(taken)
             u == Together(unseen)
             v == Together(unseen)'
             x == Together(Ask)'
             y == Together(taken)'
             m == TheLimits.total
             n == TheLimits.reserve
  <2>5. /\ a \in Nat /\ t \in Nat /\ u \in Nat /\ v \in Nat /\ m \in Nat /\ n \in Nat
        /\ x = a /\ y = t + 1 /\ v <= u + 1 /\ a + u <= m - n + t
    BY <2>1, <2>2, <2>3, <2>4
  <2> HIDE DEF a, t, u, v, x, y, m, n
  <2>6. x + v <= m - n + y
    BY <2>5
  <2> QED BY <2>1, <2>6 DEF x, v, m, n, y
<1>10. ReadThen'
  <2> SUFFICES ASSUME read # NoRead
               PROVE  \E held \in Nat :
                         /\ read.slice = Sessions + held
                         /\ read.available = Max({0, TheLimits.total - Other - Sessions - held})
                         /\ Together(taken)' <= held + Together(unseen)'
    BY <1>2 DEF ReadThen
  <2>1. PICK held \in Nat :
            /\ read.slice = Sessions + held
            /\ read.available = Max({0, TheLimits.total - Other - Sessions - held})
            /\ Together(taken) <= held + Together(unseen)
    BY DEF MemoryInv, ReadThen
  <2>2. Together(taken)' <= held + Together(unseen)'
    BY <1>1, <1>3, <1>4, <2>1
  <2> QED BY <2>1, <2>2
<1>11. ReserveKept' /\ BudgetKept'
  BY <1>2, <1>5 DEF MemoryInv, ReserveKept, BudgetKept
<1> QED BY <1>6, <1>7, <1>8, <1>9, <1>10, <1>11 DEF MemoryInv

\* A run ends: what is to come falls by no less than what is held.
LEMMA EndKeeps == ASSUME MemoryInv, NEW r \in Runs, End(r) PROVE MemoryInv'
<1>1. /\ going \in Seq(Runs) /\ IsInjective(going)
      /\ taken \in [Runs -> Nat] /\ unseen \in [Runs -> Nat] /\ Ask \in [Runs -> Nat]
      /\ Together(taken) \in Nat /\ Together(unseen) \in Nat /\ Together(Ask) \in Nat
  BY Counts, SizesAre DEF MemoryInv, Apart
<1>2. PICK i \in DOMAIN going : going[i] = r /\ going' = RemoveAt(going, i)
  BY DEF End
<1>3. /\ taken' = [taken EXCEPT ![r] = 0] /\ unseen' = [unseen EXCEPT ![r] = 0]
      /\ UNCHANGED <<waiting, read, slip>>
  BY DEF End
<1>4. i \in 1 .. Len(going) /\ going # <<>>
  BY <1>1, <1>2, Positions
<1>5. /\ going' \in Seq(Runs) /\ ToSet(going) = ToSet(going') \union {r}
      /\ IsInjective(going') /\ r \notin ToSet(going')
  <2> DEFINE k == RemoveAt(going, i)
  <2>1. going \in Seq(Runs)
    BY <1>1
  <2>2. i \in 1 .. Len(going)
    BY <1>4
  <2>3. k \in Seq(Runs)
    BY <2>1, <2>2, WithoutOne
  <2>4. ToSet(going) = ToSet(k) \union {going[i]}
    BY <2>1, <2>2, WithoutOne
  <2>5. IsInjective(going) => IsInjective(k) /\ going[i] \notin ToSet(k)
    BY <2>1, <2>2, WithoutOne
  <2>6. going' = k /\ going[i] = r
    BY <1>2
  <2> HIDE DEF k
  <2> QED BY <1>1, <2>3, <2>4, <2>5, <2>6
<1>6. taken' \in [Runs -> Nat] /\ unseen' \in [Runs -> Nat] /\ taken[r] \in Nat /\ unseen[r] \in Nat /\ Ask[r] \in Nat
      /\ \A q \in Runs : q # r => taken'[q] = taken[q] /\ unseen'[q] = unseen[q]
  BY <1>1, <1>3
<1>0. taken'[r] = 0 /\ unseen'[r] = 0
  BY <1>1, <1>3
<1>7. Together(taken)' = Together(taken) - taken[r]
  <2>1. Over(going', taken) = Over(going, taken) - taken[r]
    BY <1>1, <1>2, <1>4, OverWithout
  <2>2. \A q \in ToSet(going') : taken[q] = taken'[q]
    BY <1>5, <1>6, Positions
  <2>3. Over(going', taken) = Over(going', taken')
    BY <1>1, <1>5, <1>6, <2>2, OverOthers
  <2> QED BY <2>1, <2>3, TogetherIsOver
<1>8. Together(unseen)' = Together(unseen) - unseen[r]
  <2>1. Over(going', unseen) = Over(going, unseen) - unseen[r]
    BY <1>1, <1>2, <1>4, OverWithout
  <2>2. \A q \in ToSet(going') : unseen[q] = unseen'[q]
    BY <1>5, <1>6, Positions
  <2>3. Over(going', unseen) = Over(going', unseen')
    BY <1>1, <1>5, <1>6, <2>2, OverOthers
  <2> QED BY <2>1, <2>3, TogetherIsOver
<1>9. Together(Ask)' = Together(Ask) - Ask[r]
  BY <1>1, <1>2, <1>4, OverWithout, TogetherIsOver
<1>10. unseen[r] <= taken[r] /\ taken[r] <= Ask[r]
  BY DEF MemoryInv, Held
<1>11. TypeOK'
  <2>1. 0 \in Word
    BY SizesAre DEF Word
  <2>2. taken' \in [Runs -> Word] /\ unseen' \in [Runs -> Word]
    BY <1>3, <2>1 DEF MemoryInv, TypeOK
  <2> QED BY <1>3, <1>5, <2>2 DEF MemoryInv, TypeOK
<1>12. Apart'
  BY <1>3, <1>5 DEF MemoryInv, Apart
<1>13. Held'
  <2>1. \A q \in Runs : unseen'[q] <= taken'[q] /\ taken'[q] <= Ask[q]
    <3> TAKE q \in Runs
    <3>1. CASE q = r
      BY <1>0, <1>6, <3>1
    <3>2. CASE q # r
      BY <1>6, <3>2 DEF MemoryInv, Held
    <3> QED BY <3>1, <3>2
  <2>2. \A q \in Runs : taken'[q] # 0 => q \in ToSet(going')
    BY <1>0, <1>5, <1>6 DEF MemoryInv, Held
  <2> QED BY <2>1, <2>2 DEF Held
<1>14. Bounded'
  <2>1. /\ Together(Ask) + Together(unseen) <= TheLimits.total - TheLimits.reserve + Together(taken)
        /\ slip <= TheLimits.total - TheLimits.reserve
    BY <1>4 DEF MemoryInv, Bounded
  <2>2. Together(Ask)' + Together(unseen)' <= TheLimits.total - TheLimits.reserve + Together(taken)'
    <3>1. Together(Ask) - Ask[r] + (Together(unseen) - unseen[r])
              <= TheLimits.total - TheLimits.reserve + (Together(taken) - taken[r])
      <4>1. /\ Together(taken) \in Nat /\ Together(unseen) \in Nat /\ Together(Ask) \in Nat
            /\ taken[r] \in Nat /\ unseen[r] \in Nat /\ Ask[r] \in Nat /\ taken[r] <= Ask[r]
        BY <1>1, <1>6, <1>10
      <4> QED BY <2>1, <4>1, Amounts
    <3> QED BY <1>7, <1>8, <1>9, <3>1
  <2> QED BY <1>3, <2>1, <2>2 DEF Bounded
<1>15. ReadThen'
  <2> SUFFICES ASSUME read # NoRead
               PROVE  \E held \in Nat :
                         /\ read.slice = Sessions + held
                         /\ read.available = Max({0, TheLimits.total - Other - Sessions - held})
                         /\ Together(taken)' <= held + Together(unseen)'
    BY <1>3 DEF ReadThen
  <2>1. PICK held \in Nat :
            /\ read.slice = Sessions + held
            /\ read.available = Max({0, TheLimits.total - Other - Sessions - held})
            /\ Together(taken) <= held + Together(unseen)
    BY DEF MemoryInv, ReadThen
  <2>2. Together(taken)' <= held + Together(unseen)'
    BY <1>1, <1>6, <1>7, <1>8, <1>10, <2>1
  <2> QED BY <2>1, <2>2
<1>16. ReserveKept' /\ BudgetKept'
  <2>1. /\ TheLimits.reserve + Other + Sessions + Together(Ask) <= TheLimits.total + slip
        /\ TheLimits.budget > 0 => Sessions + Together(Ask) <= TheLimits.budget + slip
    BY <1>4 DEF MemoryInv, ReserveKept, BudgetKept
  <2>2. slip \in Nat
    BY Counts DEF MemoryInv
  <2>3. /\ TheLimits.reserve + Other + Sessions + Together(Ask)' <= TheLimits.total + slip
        /\ TheLimits.budget > 0 => Sessions + Together(Ask)' <= TheLimits.budget + slip
    <3>1. Together(Ask)' \in Int /\ Together(Ask)' <= Together(Ask) /\ Together(Ask) \in Nat
      <4>1. Together(Ask) \in Nat /\ Ask[r] \in Nat
        BY <1>1, <1>6
      <4> QED BY <1>9, <4>1
    <3>2. TheLimits.reserve + Other + Sessions + Together(Ask)' <= TheLimits.total + slip
      BY <2>1, <2>2, <3>1, Amounts
    <3>3. TheLimits.budget > 0 => Sessions + Together(Ask)' <= TheLimits.budget + slip
      BY <2>1, <2>2, <3>1, Amounts
    <3> QED BY <3>2, <3>3
  <2> QED BY <1>3, <2>3 DEF ReserveKept, BudgetKept
<1> QED BY <1>11, <1>12, <1>13, <1>14, <1>15, <1>16 DEF MemoryInv

-----------------------------------------------------------------------------
(* The first half of a measure.                                            *)

\* A number, or nought where it is negative.
LEMMA OrNothing == ASSUME NEW n \in Int PROVE Max({0, n}) = IF n >= 0 THEN n ELSE 0
<1>1. ASSUME NEW m \in {0, n}, \A y \in {0, n} : m >= y PROVE m = IF n >= 0 THEN n ELSE 0
  BY <1>1
<1>2. \E m \in {0, n} : \A y \in {0, n} : m >= y
  <2>1. CASE n >= 0
    <3>1. n \in {0, n} /\ \A y \in {0, n} : n >= y
      BY <2>1
    <3> QED BY <3>1
  <2>2. CASE n < 0
    <3>1. 0 \in {0, n} /\ \A y \in {0, n} : 0 >= y
      BY <2>2
    <3> QED BY <3>1
  <2> QED BY <2>1, <2>2
<1> QED BY <1>1, <1>2 DEF Max

\* The machine is read: nothing is unseen from here on.
LEMMA ReadKeeps == ASSUME MemoryInv, NEW pressed \in BOOLEAN, ReadMachine(pressed) PROVE MemoryInv'
<1> DEFINE held == Together(taken)
           left == TheLimits.total - Other - Sessions - held
<1>1. /\ read' = [available |-> Max({0, left}), slice |-> Sessions + held, pressed |-> pressed]
      /\ unseen' = [r \in Runs |-> 0]
      /\ UNCHANGED <<waiting, going, taken, slip>>
  BY DEF ReadMachine
<1>2. /\ going \in Seq(Runs) /\ ToSet(going) \subseteq Runs /\ taken \in [Runs -> Nat] /\ unseen \in [Runs -> Nat]
      /\ held \in Nat /\ Together(unseen) \in Nat /\ Together(Ask) \in Nat
  BY Counts, Positions DEF MemoryInv
<1>3. Together(taken)' = held /\ Together(Ask)' = Together(Ask)
  BY <1>1, TogetherIsOver
<1>4. unseen' \in [Runs -> Nat] /\ \A r \in Runs : unseen'[r] = 0
  BY <1>1
<1>5. Together(unseen)' \in Nat /\ Together(unseen)' <= Together(unseen)
  <2>1. \A r \in ToSet(going) : unseen'[r] <= unseen[r]
    BY <1>2, <1>4
  <2>2. Over(going, unseen') \in Nat
    BY <1>2, <1>4, OverIsANumber
  <2>3. Over(going, unseen') <= Over(going, unseen)
    BY <1>2, <1>4, <2>1, OverInOrder
  <2> QED BY <1>1, <2>2, <2>3, TogetherIsOver
<1> HIDE DEF held
<1>6. TypeOK'
  <2>1. 0 \in Word /\ TheLimits.total \in Word
    BY SizesAre DEF Word
  <2>2. left \in Int /\ left <= TheLimits.total
    BY <1>2, SizesAre
  <2>3. Max({0, left}) \in Word
    <3> HIDE DEF left
    <3>1. Max({0, left}) = IF left >= 0 THEN left ELSE 0
      BY <2>2, OrNothing
    <3> QED BY <2>1, <2>2, <3>1, SizesAre DEF Word
  <2>4. Sessions + held \in Word
    BY SliceIsAWord DEF held
  <2>5. read' \in Measures
    BY <1>1, <2>3, <2>4 DEF Measures
  <2>6. unseen' \in [Runs -> Word]
    BY <1>1, <2>1
  <2> QED BY <1>1, <2>5, <2>6 DEF MemoryInv, TypeOK
<1>7. Apart'
  BY <1>1 DEF MemoryInv, Apart
<1>8. Held'
  BY <1>1, <1>2, <1>4 DEF MemoryInv, Held
<1>9. Bounded'
  <2> SUFFICES ASSUME going # <<>>
               PROVE  /\ Together(Ask) + Together(unseen)' <= TheLimits.total - TheLimits.reserve + held
                      /\ slip <= TheLimits.total - TheLimits.reserve
    BY <1>1, <1>3 DEF Bounded
  <2>1. /\ Together(Ask) + Together(unseen) <= TheLimits.total - TheLimits.reserve + held
        /\ slip <= TheLimits.total - TheLimits.reserve
    BY DEF MemoryInv, Bounded, held
  <2>2. Together(Ask) + Together(unseen)' <= Together(Ask) + Together(unseen)
    BY <1>2, <1>5
  <2>3. Together(Ask) + Together(unseen)' <= TheLimits.total - TheLimits.reserve + held
    BY <1>2, <1>5, <2>1, <2>2, Amounts
  <2> QED BY <2>1, <2>3
<1>10. ReadThen'
  <2>1. /\ read'.slice = Sessions + held
        /\ read'.available = Max({0, TheLimits.total - Other - Sessions - held})
        /\ Together(taken)' <= held + Together(unseen)'
    BY <1>1, <1>2, <1>3, <1>5
  <2> QED BY <1>2, <2>1 DEF ReadThen
<1>11. ReserveKept' /\ BudgetKept'
  BY <1>1, <1>3 DEF MemoryInv, ReserveKept, BudgetKept
<1> QED BY <1>6, <1>7, <1>8, <1>9, <1>10, <1>11 DEF MemoryInv

-----------------------------------------------------------------------------
(* The words: what fits a word is as it is in the numbers.                 *)

\* Unsigned and Signed of what is in their range.
LEMMA WordsAreNumbers ==
    /\ \A x \in 0 .. 2 * Half - 1 : Unsigned(x) = x
    /\ \A x \in -Half .. Half - 1 : Signed(x) = x
<1>1. \A x \in 0 .. 2 * Half - 1 : x % (2 * Half) = x
  BY HalfAssumption
<1>2. ASSUME NEW x \in -Half .. Half - 1 PROVE Signed(x) = x
  <2>1. CASE x >= 0
    <3>1. x \in 0 .. 2 * Half - 1 /\ x < Half
      BY <2>1, HalfAssumption
    <3> QED BY <1>1, <3>1 DEF Signed, Unsigned
  <2>2. CASE x < 0
    <3>1. x % (2 * Half) = x + 2 * Half
      BY <2>2, HalfAssumption
    <3>2. ~ (x + 2 * Half < Half) /\ (x + 2 * Half) - 2 * Half = x
      BY HalfAssumption
    <3> QED BY <3>1, <3>2 DEF Signed, Unsigned
  <2> QED BY <2>1, <2>2, HalfAssumption
<1> QED BY <1>1, <1>2 DEF Unsigned

\* A run that passed the door asks for a real size, and for no more than the
\* machine has past its reserve.
LEMMA PassedTheDoor ==
    ASSUME NEW r \in Runs, ~ Never(TheLimits, Ask[r])
    PROVE  /\ Ask[r] \in Real
           /\ TheLimits.total > 0 => Ask[r] <= TheLimits.total - TheLimits.reserve
<1>1. /\ Half \in Nat \ {0} /\ Ask[r] \in Nat
      /\ TheLimits.total \in Nat /\ TheLimits.total < Half
      /\ TheLimits.reserve \in Nat /\ TheLimits.reserve < Half
      /\ TheLimits.budget \in Nat /\ TheLimits.budget < Half
  BY SizesAre DEF Real
<1>2. Ask[r] \in Real
  <2>1. CASE TheLimits.budget = 0
    BY <2>1, SizesAssumption
  <2>2. CASE TheLimits.budget > 0
    <3>1. Ask[r] <= TheLimits.budget
      BY <1>1, <2>2 DEF Never
    <3> QED BY <1>1, <3>1 DEF Real
  <2> QED BY <1>1, <2>1, <2>2
<1>3. ASSUME TheLimits.total > 0 PROVE Ask[r] <= TheLimits.total - TheLimits.reserve
  <2>1. /\ Ask[r] \in -Half .. Half - 1 /\ TheLimits.total \in -Half .. Half - 1
        /\ TheLimits.reserve \in -Half .. Half - 1
        /\ TheLimits.total - TheLimits.reserve \in -Half .. Half - 1
    BY <1>1, <1>2 DEF Real
  <2>2. /\ Signed(Ask[r]) = Ask[r] /\ Signed(TheLimits.total) = TheLimits.total
        /\ Signed(TheLimits.reserve) = TheLimits.reserve
        /\ Signed(TheLimits.total - TheLimits.reserve) = TheLimits.total - TheLimits.reserve
    BY <2>1, WordsAreNumbers
  <2>3. ~ (Signed(Ask[r]) > Signed(Signed(TheLimits.total) - Signed(TheLimits.reserve)))
    BY <1>3 DEF Never
  <2>4. ~ (Ask[r] > TheLimits.total - TheLimits.reserve)
    BY <2>2, <2>3
  <2> QED BY <1>1, <2>4
<1> QED BY <1>2, <1>3

\* What it means that a run is not blocked beside runs that are still to take
\* toCome, by a measure of held.
LEMMA WhatFits ==
    ASSUME NEW m \in Measures, NEW held \in Nat, m.slice = Sessions + held,
           m.available = Max({0, TheLimits.total - Other - Sessions - held}),
           NEW runs, NEW toCome \in Nat, TotalToCome(runs) = Unsigned(toCome),
           toCome = 0 \/ toCome <= TheLimits.total - TheLimits.reserve,
           NEW r \in Runs, ~ Never(TheLimits, Ask[r]), ~ Blocked(TheLimits, m, runs, Ask[r])
    PROVE  /\ toCome + Ask[r] <= TheLimits.total - TheLimits.reserve - Other - Sessions - held
           /\ TheLimits.budget > 0 => Sessions + held + toCome + Ask[r] <= TheLimits.budget
<1> DEFINE ask == Ask[r]
           have == TheLimits.total
           keep == TheLimits.reserve
           left == have - Other - Sessions - held
           avail == m.available
<1>1. /\ Half \in Nat \ {0} /\ ask \in Nat /\ ask > 0 /\ ask < Half
      /\ have \in Nat /\ have < Half /\ keep \in Nat /\ keep < Half /\ 2 * (have - keep) <= Half
      /\ Other \in Nat /\ Sessions \in Nat
      /\ have > 0 => ask <= have - keep
  <2>1. ask \in Real /\ (have > 0 => ask <= have - keep)
    BY PassedTheDoor
  <2> QED BY <2>1, SizesAre DEF Real
<1>2. left \in Int /\ left <= have
  BY <1>1
<1>3. avail = IF left >= 0 THEN left ELSE 0
  <2> HIDE DEF left, avail
  <2>1. Max({0, left}) = IF left >= 0 THEN left ELSE 0
    BY <1>2, OrNothing
  <2> QED BY <2>1 DEF left, avail, have
<1>4. toCome = 0 \/ toCome <= have - keep
  OBVIOUS
<1> HIDE DEF left, avail, ask, have, keep
<1>5. avail \in Nat /\ avail <= have
  BY <1>1, <1>2, <1>3
<1>6. 2 * toCome <= Half
  BY <1>1, <1>4
<1>7. Signed(Signed(Signed(avail) - Signed(TotalToCome(runs))) - Signed(ask)) = avail - toCome - ask
  <2>1. avail \in -Half .. Half - 1 /\ toCome \in -Half .. Half - 1 /\ toCome \in 0 .. 2 * Half - 1
        /\ ask \in -Half .. Half - 1
    BY <1>1, <1>5, <1>6
  <2>2. avail - toCome \in -Half .. Half - 1
    BY <1>1, <1>5, <1>6
  <2>3. avail - toCome - ask \in -Half .. Half - 1
    <3>1. CASE have > 0
      BY <1>1, <1>5, <1>6, <3>1
    <3>2. CASE have = 0
      <4>1. avail = 0 /\ toCome = 0
        BY <1>1, <1>4, <1>5, <3>2
      <4> QED BY <1>1, <4>1
    <3> QED BY <1>1, <3>1, <3>2
  <2>4. TotalToCome(runs) = toCome
    BY <2>1, WordsAreNumbers
  <2>5. Signed(avail) = avail /\ Signed(toCome) = toCome /\ Signed(ask) = ask
    BY <2>1, WordsAreNumbers
  <2>6. Signed(avail - toCome) = avail - toCome
    BY <2>2, WordsAreNumbers
  <2>7. Signed(avail - toCome - ask) = avail - toCome - ask
    BY <2>3, WordsAreNumbers
  <2> QED BY <2>4, <2>5, <2>6, <2>7
<1>8. ~ (avail - toCome - ask < keep)
  <2>1. ~ NoMemory(TheLimits, m, runs, ask)
    BY DEF Blocked, ask
  <2>2. Signed(keep) = keep
    <3>1. keep \in -Half .. Half - 1
      BY <1>1
    <3> QED BY <3>1, WordsAreNumbers
  <2>3. ~ (Signed(Signed(Signed(avail) - Signed(TotalToCome(runs))) - Signed(ask)) < Signed(keep))
    BY <2>1 DEF NoMemory, avail, keep
  <2> QED BY <1>7, <2>2, <2>3
<1>9. avail = left /\ toCome + ask <= left - keep
  BY <1>1, <1>2, <1>3, <1>5, <1>8
<1>10. toCome + ask <= have - keep - Other - Sessions - held
  BY <1>1, <1>9 DEF left
<1>11. ASSUME TheLimits.budget > 0 PROVE Sessions + held + toCome + ask <= TheLimits.budget
  <2>1. ~ NoBudget(TheLimits, m, runs, ask)
    BY DEF Blocked, ask
  <2>2. ~ (Unsigned(m.slice + TotalToCome(runs) + ask) > TheLimits.budget)
    BY <1>11, <2>1 DEF NoBudget
  <2>3. TotalToCome(runs) = toCome
    <3>1. toCome \in 0 .. 2 * Half - 1
      BY <1>1, <1>6
    <3> QED BY <3>1, WordsAreNumbers
  <2>4. Sessions + held + toCome + ask \in 0 .. 2 * Half - 1
    BY <1>1, <1>10
  <2>5. Unsigned(Sessions + held + toCome + ask) = Sessions + held + toCome + ask
    BY <2>4, WordsAreNumbers
  <2>6. ~ (Sessions + held + toCome + ask > TheLimits.budget)
    BY <2>2, <2>3, <2>5
  <2> QED BY <2>4, <2>6, Amounts
<1> QED BY <1>10, <1>11 DEF ask, have, keep

-----------------------------------------------------------------------------
(* The second half of a measure, and what it lets go.                      *)

\* The i-th of asks goes, beside runs and those before it.
Goes(l, m, runs, asks, i) == ~ Blocked(l, m, runs \o Fresh(SubSeq(asks, 1, i - 1)), asks[i])

\* There is such a number as Admit chooses.
LEMMA AdmitIs ==
    ASSUME NEW l, NEW m, NEW runs, NEW asks, Len(asks) \in Nat
    PROVE  /\ Admit(l, m, runs, asks) \in 0 .. Len(asks)
           /\ \A i \in 1 .. Admit(l, m, runs, asks) : Goes(l, m, runs, asks, i)
           /\ Admit(l, m, runs, asks) < Len(asks) =>
                  ~ Goes(l, m, runs, asks, Admit(l, m, runs, asks) + 1)
<1> DEFINE goes(i) == Goes(l, m, runs, asks, i)
           N == Len(asks)
           D == {i \in 1 .. N : ~ goes(i)}
           Stops(n) == (\A i \in 1 .. n : goes(i)) /\ (n < N => ~ goes(n + 1))
<1>1. Admit(l, m, runs, asks) = CHOOSE n \in 0 .. N : Stops(n)
  BY DEF Admit, Goes
<1>2. \E n \in 0 .. N : Stops(n)
  <2> HIDE DEF goes
  <2>1. CASE D = {}
    <3>1. \A i \in 1 .. N : goes(i)
      BY <2>1
    <3>2. N \in 0 .. N /\ ~ (N < N)
      OBVIOUS
    <3> QED BY <3>1, <3>2
  <2>2. CASE D # {}
    <3>1. D \in SUBSET Nat
      OBVIOUS
    <3>2. Min(D) \in D /\ \A j \in D : Min(D) <= j
      <4> HIDE DEF D
      <4> QED BY <2>2, <3>1, LeastOf
    <3>3. PICK k \in D : \A j \in D : k <= j
      BY <3>2
    <3>4. k \in 1 .. N /\ ~ goes(k) /\ k - 1 \in 0 .. N /\ (k - 1) + 1 = k
      BY <3>3
    <3>5. ASSUME NEW i \in 1 .. k - 1 PROVE goes(i)
      <4>1. i \in 1 .. N /\ ~ (k <= i)
        BY <3>4
      <4> QED BY <3>3, <4>1
    <3> QED BY <3>4, <3>5
  <2> QED BY <2>1, <2>2
<1>3. (CHOOSE n \in 0 .. N : Stops(n)) \in 0 .. N /\ Stops(CHOOSE n \in 0 .. N : Stops(n))
  <2> HIDE DEF Stops, N
  <2> QED BY <1>2
<1>4. Stops(Admit(l, m, runs, asks)) /\ Admit(l, m, runs, asks) \in 0 .. N
  BY <1>1, <1>3
<1> QED BY <1>4

\* The runs going and the first n of those waiting, and what each is to take.
Beside(n) == going \o SubSeq(waiting, 1, n)
Left == [r \in Runs |-> Ask[r] - taken[r]]

\* The same as the queue counts them.
Line(n) == Accounts \o Fresh(SubSeq(AsksWaiting, 1, n))

\* What those waiting ask for.
LEMMA AsksAre ==
    ASSUME TypeOK
    PROVE  /\ AsksWaiting \in Seq(Word) /\ Len(AsksWaiting) = Len(waiting) /\ Len(waiting) \in Nat
           /\ \A i \in 1 .. Len(waiting) : AsksWaiting[i] = Ask[waiting[i]] /\ waiting[i] \in Runs
<1>1. waiting \in Seq(Runs)
  BY DEF TypeOK
<1>2. /\ Len(waiting) \in Nat /\ DOMAIN waiting = 1 .. Len(waiting)
      /\ \A i \in 1 .. Len(waiting) : waiting[i] \in Runs
  BY <1>1, Positions
<1>3. AsksWaiting = [i \in 1 .. Len(waiting) |-> Ask[waiting[i]]]
  BY <1>2 DEF AsksWaiting
<1>4. \A i \in 1 .. Len(waiting) : Ask[waiting[i]] \in Word
  BY <1>2, SizesAre
<1>5. AsksWaiting \in [1 .. Len(waiting) -> Word]
  BY <1>3, <1>4
<1>6. AsksWaiting \in Seq(Word) /\ Len(AsksWaiting) = Len(waiting)
  BY <1>2, <1>5
<1> QED BY <1>2, <1>3, <1>6

\* Those beside a run are of the runs, each once.
LEMMA BesideIs ==
    ASSUME MemoryInv, NEW n \in 0 .. Len(waiting)
    PROVE  /\ Beside(n) \in Seq(Runs) /\ Len(Beside(n)) = Len(going) + n /\ Len(going) \in Nat
           /\ \A i \in 1 .. Len(going) : Beside(n)[i] = going[i]
           /\ \A i \in 1 .. n : Beside(n)[Len(going) + i] = waiting[i]
           /\ Left \in [Runs -> Nat]
<1>1. going \in Seq(Runs) /\ waiting \in Seq(Runs) /\ taken \in [Runs -> Nat]
  BY Counts DEF MemoryInv
<1>2. SubSeq(waiting, 1, n) \in Seq(Runs) /\ Len(SubSeq(waiting, 1, n)) = n
      /\ \A i \in 1 .. n : SubSeq(waiting, 1, n)[i] = waiting[i]
  BY <1>1, Cut
<1>3. Len(going) \in Nat /\ n \in Nat
  BY <1>1, Positions
<1> DEFINE a == SubSeq(waiting, 1, n)
           k == going \o a
<1> HIDE DEF a
<1>4. /\ k \in Seq(Runs) /\ Len(k) = Len(going) + Len(a)
      /\ \A i \in 1 .. Len(going) + Len(a) : k[i] = IF i <= Len(going) THEN going[i] ELSE a[i - Len(going)]
  BY <1>1, <1>2, ConcatProperties DEF a
<1>5. Len(a) = n
  BY <1>2 DEF a
<1> HIDE DEF k
<1>6. \A i \in 1 .. Len(going) : k[i] = going[i]
  BY <1>3, <1>4, <1>5
<1>7. ASSUME NEW i \in 1 .. n PROVE k[Len(going) + i] = waiting[i]
  <2>1. Len(going) + i \in 1 .. Len(going) + n /\ ~ (Len(going) + i <= Len(going)) /\ (Len(going) + i) - Len(going) = i
    BY <1>3
  <2>2. k[Len(going) + i] = a[i]
    BY <1>4, <1>5, <2>1
  <2> QED BY <1>2, <2>2 DEF a
<1>8. Left \in [Runs -> Nat]
  <2>1. ASSUME NEW r \in Runs PROVE Ask[r] - taken[r] \in Nat
    <3>1. Ask[r] \in Nat /\ taken[r] \in Nat /\ taken[r] <= Ask[r]
      BY <1>1, SizesAre DEF MemoryInv, Held
    <3> QED BY <3>1
  <2> QED BY <2>1 DEF Left
<1> QED BY <1>3, <1>4, <1>5, <1>6, <1>7, <1>8 DEF k, a, Beside

\* The queue counts what they are to take between them, in a word.
LEMMA LineIs ==
    ASSUME MemoryInv, NEW n \in 0 .. Len(waiting)
    PROVE  TotalToCome(Line(n)) = Unsigned(Over(Beside(n), Left))
<1> DEFINE a == SubSeq(AsksWaiting, 1, n)
           f == Fresh(a)
           G == Len(going)
           x == Line(n)
           k == Beside(n)
<1>1. /\ going \in Seq(Runs) /\ waiting \in Seq(Runs) /\ taken \in [Runs -> Nat] /\ taken \in [Runs -> Word]
      /\ G \in Nat /\ DOMAIN going = 1 .. G /\ n \in Nat /\ n <= Len(waiting)
  BY Counts, Positions DEF MemoryInv, TypeOK
<1>2. a \in Seq(Word) /\ Len(a) = n /\ \A i \in 1 .. n : a[i] = Ask[waiting[i]] /\ waiting[i] \in Runs
  <2>1. AsksWaiting \in Seq(Word) /\ n \in 0 .. Len(AsksWaiting)
    BY AsksAre DEF MemoryInv
  <2>2. a \in Seq(Word) /\ Len(a) = n /\ \A i \in 1 .. n : a[i] = AsksWaiting[i]
    BY <2>1, Cut
  <2>3. \A i \in 1 .. n : i \in 1 .. Len(waiting)
    BY <1>1
  <2> QED BY <2>2, <2>3, AsksAre DEF MemoryInv
<1>3. \A i \in 1 .. G : going[i] \in Runs
  BY <1>1, Positions
<1>4. f \in Seq(Running) /\ Len(f) = n /\ \A i \in 1 .. n : f[i] = [ask |-> Ask[waiting[i]], taken |-> 0]
  <2>1. f = [i \in 1 .. n |-> [ask |-> a[i], taken |-> 0]]
    BY <1>2 DEF Fresh
  <2>2. \A i \in 1 .. n : [ask |-> a[i], taken |-> 0] \in Running
    <3>1. 0 \in Word
      BY SizesAre DEF Word
    <3>2. \A i \in 1 .. n : a[i] \in Word
      BY <1>2, SizesAre
    <3> QED BY <3>1, <3>2 DEF Running
  <2>3. f \in [1 .. n -> Running]
    BY <2>1, <2>2
  <2>4. f \in Seq(Running) /\ Len(f) = n
    BY <1>1, <2>3
  <2> QED BY <1>2, <2>1, <2>4
<1>5. /\ Accounts \in Seq(Running) /\ Len(Accounts) = G
      /\ \A i \in 1 .. G : Accounts[i] = [ask |-> Ask[going[i]], taken |-> taken[going[i]]]
  <2>1. Accounts = [i \in 1 .. G |-> [ask |-> Ask[going[i]], taken |-> taken[going[i]]]]
    BY <1>1 DEF Accounts
  <2>2. \A i \in 1 .. G : [ask |-> Ask[going[i]], taken |-> taken[going[i]]] \in Running
    BY <1>1, <1>3, SizesAre DEF Running
  <2>3. Accounts \in [1 .. G -> Running]
    BY <2>1, <2>2
  <2>4. Accounts \in Seq(Running) /\ Len(Accounts) = G
    <3>1. G \in Nat
      BY <1>1
    <3> HIDE DEF G
    <3> QED BY <2>3, <3>1
  <2> QED BY <2>1, <2>4
<1>6. /\ x \in Seq(Running) /\ Len(x) = G + n
      /\ \A j \in 1 .. G + n : x[j] = IF j <= G THEN Accounts[j] ELSE f[j - G]
  <2> HIDE DEF f
  <2>0. Accounts \in Seq(Running)
    BY <1>5
  <2>3. f \in Seq(Running)
    BY <1>4
  <2>1. /\ Accounts \o f \in Seq(Running) /\ Len(Accounts \o f) = Len(Accounts) + Len(f)
        /\ \A j \in 1 .. Len(Accounts) + Len(f) :
               (Accounts \o f)[j] = IF j <= Len(Accounts) THEN Accounts[j] ELSE f[j - Len(Accounts)]
    BY <2>0, <2>3, ConcatProperties
  <2>2. x = Accounts \o f
    BY DEF f, Line
  <2> HIDE DEF x
  <2> QED BY <1>4, <1>5, <2>1, <2>2
<1>7. /\ k \in Seq(Runs) /\ Len(k) = G + n
      /\ \A i \in 1 .. G : k[i] = going[i]
      /\ \A i \in 1 .. n : k[G + i] = waiting[i]
  BY BesideIs
<1> HIDE DEF x, k, f, a, G
<1>8. ASSUME NEW j \in 1 .. G + n PROVE ToCome(x[j]) = Left[k[j]]
  <2>1. CASE j <= G
    <3>1. j \in 1 .. G
      BY <1>1, <2>1
    <3>2. x[j] = [ask |-> Ask[going[j]], taken |-> taken[going[j]]] /\ k[j] = going[j] /\ going[j] \in Runs
      BY <1>3, <1>5, <1>6, <1>7, <2>1, <3>1
    <3>3. ToCome(x[j]) = IF taken[going[j]] >= Ask[going[j]] THEN 0 ELSE Ask[going[j]] - taken[going[j]]
      BY <3>2 DEF ToCome
    <3>4. /\ Ask[going[j]] \in Nat /\ taken[going[j]] \in Nat /\ taken[going[j]] <= Ask[going[j]]
          /\ Left[k[j]] = Ask[going[j]] - taken[going[j]]
      BY <1>1, <3>2, SizesAre DEF Left, MemoryInv, Held
    <3> HIDE DEF Left
    <3> QED BY <3>3, <3>4
  <2>2. CASE ~ (j <= G)
    <3>1. PICK i \in 1 .. n : j = G + i
      <4>1. j - G \in 1 .. n /\ j = G + (j - G)
        BY <1>1, <2>2
      <4> QED BY <4>1
    <3>2. j - G = i
      BY <1>1, <3>1
    <3>3. x[j] = [ask |-> Ask[waiting[i]], taken |-> 0] /\ k[j] = waiting[i] /\ waiting[i] \in Runs
      BY <1>2, <1>4, <1>6, <1>7, <2>2, <3>1, <3>2
    <3>4. ToCome(x[j]) = IF 0 >= Ask[waiting[i]] THEN 0 ELSE Ask[waiting[i]] - 0
      BY <3>3 DEF ToCome
    <3>5. taken[waiting[i]] = 0
      <4>1. i \in 1 .. Len(waiting)
        BY <1>1
      <4>2. waiting[i] \in ToSet(waiting)
        BY <1>1, <4>1, Positions
      <4> QED BY <3>3, <4>2 DEF MemoryInv, Apart, Held
    <3>6. Ask[waiting[i]] \in Nat /\ Ask[waiting[i]] > 0 /\ Left[k[j]] = Ask[waiting[i]] - 0
      BY <3>3, <3>5, SizesAre DEF Left
    <3> QED BY <3>4, <3>6
  <2> QED BY <2>1, <2>2
<1>9. [j \in DOMAIN x |-> ToCome(x[j])] = Each(k, Left)
  <2>1. DOMAIN x = 1 .. G + n /\ DOMAIN k = 1 .. G + n
    BY <1>6, <1>7, Positions
  <2> QED BY <1>8, <2>1 DEF Each
<1>10. TotalToCome(x) = Unsigned(Over(k, Left))
  BY <1>9 DEF TotalToCome, Over
<1> QED BY <1>10 DEF x, k

\* What they asked for is what they are to take and what they hold.
LEMMA AskedIs ==
    ASSUME MemoryInv, NEW g \in Seq(Runs)
    PROVE  /\ Over(g, Ask) = Over(g, Left) + Over(g, taken)
           /\ Over(g, Left) \in Nat /\ Over(g, taken) \in Nat /\ Over(g, Ask) \in Nat
<1>1. taken \in [Runs -> Nat] /\ Ask \in [Runs -> Nat] /\ Left \in [Runs -> Nat]
  <2>1. 0 \in 0 .. Len(waiting)
    BY Counts, Positions DEF MemoryInv
  <2> QED BY <2>1, BesideIs, Counts, SizesAre DEF MemoryInv
<1> DEFINE s == Each(g, Left)
           t == Each(g, taken)
           w == Each(g, Ask)
<1>2. s \in Seq(Int) /\ Len(s) = Len(g) /\ \A i \in 1 .. Len(g) : s[i] = Left[g[i]] /\ g[i] \in Runs
  BY <1>1, EachIs
<1>3. t \in Seq(Int) /\ Len(t) = Len(g) /\ \A i \in 1 .. Len(g) : t[i] = taken[g[i]]
  BY <1>1, EachIs
<1>4. w \in Seq(Int) /\ Len(w) = Len(g) /\ \A i \in 1 .. Len(g) : w[i] = Ask[g[i]]
  BY <1>1, EachIs
<1> HIDE DEF s, t, w
<1>5. ASSUME NEW r \in Runs PROVE Ask[r] = Left[r] + taken[r]
  <2>1. Ask[r] \in Nat /\ taken[r] \in Nat /\ Left[r] = Ask[r] - taken[r]
    BY <1>1 DEF Left
  <2> HIDE DEF Left
  <2> QED BY <2>1
<1>6. \A i \in 1 .. Len(s) : w[i] = s[i] + t[i]
  BY <1>2, <1>3, <1>4, <1>5
<1>7. SumOf(w) = SumOf(s) + SumOf(t)
  BY <1>2, <1>3, <1>4, <1>6, SumsAdd
<1>8. Over(g, Left) \in Nat
  BY <1>1, OverIsANumber
<1>9. Over(g, taken) \in Nat
  BY <1>1, OverIsANumber
<1>10. Over(g, Ask) \in Nat
  BY <1>1, OverIsANumber
<1> QED BY <1>7, <1>8, <1>9, <1>10 DEF Over, s, t, w

\* With nobody let go yet, and with one more.
LEMMA BesideNobody == ASSUME MemoryInv PROVE Beside(0) = going
<1>1. going \in Seq(Runs)
  BY Counts DEF MemoryInv
<1>2. SubSeq(waiting, 1, 0) = <<>>
  BY SubSeqEmpty
<1> QED BY <1>1, <1>2, ConcatEmptySeq DEF Beside

\* One more is let go.
LEMMA BesideOneMore ==
    ASSUME MemoryInv, NEW n \in Nat, n + 1 <= Len(waiting), NEW f \in [Runs -> Nat]
    PROVE  /\ waiting[n + 1] \in Runs /\ waiting[n + 1] \in ToSet(waiting)
           /\ Over(Beside(n + 1), f) = Over(Beside(n), f) + f[waiting[n + 1]]
<1> DEFINE g == Beside(n)
           k == Beside(n + 1)
           G == Len(going)
<1>1. waiting \in Seq(Runs) /\ Len(waiting) \in Nat /\ n \in 0 .. Len(waiting) /\ n + 1 \in 0 .. Len(waiting)
      /\ n + 1 \in 1 .. Len(waiting)
  BY Counts, Positions DEF MemoryInv
<1>2. waiting[n + 1] \in Runs /\ waiting[n + 1] \in ToSet(waiting)
  BY <1>1, Positions
<1>3. /\ g \in Seq(Runs) /\ Len(g) = G + n /\ G \in Nat
      /\ \A i \in 1 .. G : g[i] = going[i]
      /\ \A i \in 1 .. n : g[G + i] = waiting[i]
  BY <1>1, BesideIs
<1>4. /\ k \in Seq(Runs) /\ Len(k) = G + (n + 1)
      /\ \A i \in 1 .. G : k[i] = going[i]
      /\ \A i \in 1 .. n + 1 : k[G + i] = waiting[i]
  BY <1>1, BesideIs
<1> HIDE DEF g, k, G
<1>5. ASSUME NEW j \in 1 .. Len(g) PROVE k[j] = g[j]
  <2>1. CASE j <= G
    <3>1. j \in 1 .. G
      BY <1>3, <2>1
    <3> QED BY <1>3, <1>4, <3>1
  <2>2. CASE ~ (j <= G)
    <3>1. j - G \in 1 .. n /\ j - G \in 1 .. n + 1 /\ G + (j - G) = j
      BY <1>3, <2>2
    <3> QED BY <1>3, <1>4, <3>1
  <2> QED BY <2>1, <2>2
<1>6. Len(k) = Len(g) + 1 /\ k[Len(k)] = waiting[n + 1]
  <2>1. n + 1 \in 1 .. n + 1
    OBVIOUS
  <2>2. k[G + (n + 1)] = waiting[n + 1]
    BY <1>4, <2>1
  <2> QED BY <1>3, <1>4, <2>2
<1>7. Over(k, f) = Over(g, f) + f[k[Len(k)]]
  BY <1>3, <1>4, <1>5, <1>6, OverAndOne
<1> QED BY <1>2, <1>6, <1>7 DEF g, k

\* By induction over those let go: what the runs beside the last of them are to
\* take fits what the machine had, and they hold nothing yet.
LEMMA LetGo ==
    ASSUME MemoryInv, read # NoRead, NEW held \in Nat, read.slice = Sessions + held,
           read.available = Max({0, TheLimits.total - Other - Sessions - held}),
           NEW n \in 0 .. Len(waiting),
           \A i \in 1 .. n : Goes(TheLimits, read, Accounts, AsksWaiting, i)
    PROVE  /\ Over(Beside(n), taken) = Together(taken)
           /\ n > 0 =>
                  /\ Over(Beside(n), Left) <= TheLimits.total - TheLimits.reserve - Other - Sessions - held
                  /\ TheLimits.budget > 0 =>
                         Sessions + held + Over(Beside(n), Left) <= TheLimits.budget
<1> DEFINE room == TheLimits.total - TheLimits.reserve
           fits(c) == /\ c <= room - Other - Sessions - held
                      /\ TheLimits.budget > 0 => Sessions + held + c <= TheLimits.budget
           P == {i \in 0 .. n : /\ Over(Beside(i), taken) = Together(taken)
                                /\ i > 0 => fits(Over(Beside(i), Left))}
<1>1. /\ n \in Nat /\ n <= Len(waiting) /\ Len(waiting) \in Nat
      /\ going \in Seq(Runs) /\ taken \in [Runs -> Nat] /\ read \in Measures
  BY Counts, Positions DEF MemoryInv, TypeOK
<1>2. Left \in [Runs -> Nat]
  BY BesideIs
<1>3. Beside(0) = going /\ Together(taken) = Over(going, taken)
  BY BesideNobody, TogetherIsOver
<1>4. 0 \in P
  BY <1>1, <1>3
<1>5. ASSUME NEW i \in 0 .. n - 1, i \in P PROVE i + 1 \in P
  <2> DEFINE r == waiting[i + 1]
             c == Over(Beside(i), Left)
  <2>1. /\ i \in Nat /\ i + 1 <= Len(waiting) /\ i \in 0 .. Len(waiting) /\ i + 1 \in 1 .. n
        /\ i + 1 \in 0 .. n /\ i + 1 \in 1 .. Len(waiting) /\ (i + 1) - 1 = i
    BY <1>1
  <2>2. r \in Runs /\ r \in ToSet(waiting)
        /\ Over(Beside(i + 1), taken) = Over(Beside(i), taken) + taken[r]
    BY <1>1, <2>1, BesideOneMore
  <2>3. Over(Beside(i + 1), Left) = c + Left[r]
    BY <1>2, <2>1, BesideOneMore
  <2>4. taken[r] = 0 /\ ~ Never(TheLimits, Ask[r])
    BY <2>2 DEF MemoryInv, Apart, Held
  <2>5. Left[r] = Ask[r] /\ Ask[r] \in Nat
    BY <2>2, <2>4, SizesAre DEF Left
  <2>6. Beside(i) \in Seq(Runs)
    BY <2>1, BesideIs
  <2>7. c \in Nat /\ Over(Beside(i), taken) \in Nat
    BY <2>6, AskedIs
  <2>8. Over(Beside(i + 1), taken) = Together(taken)
    BY <1>5, <2>2, <2>4, <2>7
  <2>9. c = 0 \/ c <= room
    <3>1. CASE i > 0
      <4>1. c <= room - Other - Sessions - held
        BY <1>5, <3>1
      <4> HIDE DEF c
      <4> QED BY <2>7, <4>1, Amounts
    <3>2. CASE i = 0
      <4>1. c = Over(going, Left)
        BY <1>3, <3>2
      <4>2. CASE going = <<>>
        BY <4>1, <4>2, OverNobody
      <4>3. CASE going # <<>>
        <5>1. Together(Ask) + Together(unseen) <= room + Together(taken)
          BY <4>3 DEF MemoryInv, Bounded
        <5>2. Together(Ask) = c + Together(taken) /\ Together(taken) \in Nat /\ Together(unseen) \in Nat
          BY <1>1, <4>1, AskedIs, TogetherIsOver, Counts DEF MemoryInv
        <5> HIDE DEF c
        <5> QED BY <2>7, <5>1, <5>2, Amounts
      <4> QED BY <4>2, <4>3
    <3> QED BY <2>1, <3>1, <3>2
  <2>10. TotalToCome(Line(i)) = Unsigned(c)
    BY <2>1, LineIs
  <2>11. ~ Blocked(TheLimits, read, Line(i), Ask[r])
    <3>1. Goes(TheLimits, read, Accounts, AsksWaiting, i + 1)
      BY <2>1
    <3>2. AsksWaiting[i + 1] = Ask[r]
      BY <2>1, AsksAre DEF MemoryInv
    <3> QED BY <2>1, <3>1, <3>2 DEF Goes, Line
  <2>12. fits(c + Ask[r])
    <3> HIDE DEF c, r
    <3>1. c + Ask[r] <= room - Other - Sessions - held
      BY <1>1, <2>2, <2>4, <2>7, <2>9, <2>10, <2>11, WhatFits
    <3>2. ASSUME TheLimits.budget > 0 PROVE Sessions + held + (c + Ask[r]) <= TheLimits.budget
      <4>1. Sessions + held + c + Ask[r] <= TheLimits.budget
        BY <1>1, <2>2, <2>4, <2>7, <2>9, <2>10, <2>11, <3>2, WhatFits
      <4>2. Sessions + held + (c + Ask[r]) = Sessions + held + c + Ask[r]
        BY <2>5, <2>7, Amounts
      <4> QED BY <4>1, <4>2
    <3> QED BY <3>1, <3>2
  <2>13. fits(Over(Beside(i + 1), Left))
    <3> HIDE DEF fits, c, r
    <3> QED BY <2>3, <2>5, <2>12
  <2> HIDE DEF fits, c, r
  <2> QED BY <2>1, <2>8, <2>13
<1>6. n \in P
  <2>1. \A i \in 0 .. n - 1 : i \in P => i + 1 \in P
    BY <1>5
  <2> HIDE DEF P
  <2>2. \A i \in 0 .. n : i \in P
    BY <1>1, <1>4, <2>1, Climbs
  <2> QED BY <1>1, <2>2
<1> QED BY <1>6

\* The line after a pass of the queue: nobody is in it twice.
LEMMA LineAfter ==
    ASSUME MemoryInv, NEW n \in 0 .. Len(waiting),
           going' = going \o SubSeq(waiting, 1, n),
           waiting' = SubSeq(waiting, n + 1, Len(waiting))
    PROVE  Apart' /\ going' \in Seq(Runs) /\ waiting' \in Seq(Runs) /\ ToSet(going) \subseteq ToSet(going')
<1> DEFINE a == SubSeq(waiting, 1, n)
           b == SubSeq(waiting, n + 1, Len(waiting))
<1>1. /\ going \in Seq(Runs) /\ waiting \in Seq(Runs) /\ IsInjective(waiting) /\ IsInjective(going)
      /\ ToSet(waiting) \cap ToSet(going) = {}
      /\ \A r \in ToSet(waiting) \union ToSet(going) : ~ Never(TheLimits, Ask[r])
  BY Counts DEF MemoryInv, Apart
<1>2. a \in Seq(Runs)
  BY <1>1, Cut
<1>3. b \in Seq(Runs) /\ ToSet(a) \subseteq ToSet(waiting) /\ ToSet(b) \subseteq ToSet(waiting)
  BY <1>1, Parted
<1>4. IsInjective(a) /\ IsInjective(b) /\ ToSet(a) \cap ToSet(b) = {}
  BY <1>1, Parted
<1>5. going' = going \o a /\ waiting' = b
  OBVIOUS
<1> HIDE DEF a, b
<1>6. going \o a \in Seq(Runs) /\ ToSet(going \o a) = ToSet(going) \union ToSet(a)
  BY <1>1, <1>2, Joined
<1>7. ToSet(going) \cap ToSet(a) = {}
  BY <1>1, <1>3
<1>8. IsInjective(going \o a)
  BY <1>1, <1>2, <1>4, <1>7, JoinedOnce
<1>9. ToSet(going') = ToSet(going) \union ToSet(a) /\ ToSet(waiting') = ToSet(b)
  BY <1>5, <1>6
<1>10. ToSet(waiting') \cap ToSet(going') = {}
  BY <1>1, <1>3, <1>4, <1>9
<1>11. \A r \in ToSet(waiting') \union ToSet(going') : ~ Never(TheLimits, Ask[r])
  BY <1>1, <1>3, <1>9
<1>12. IsInjective(waiting') /\ IsInjective(going')
  BY <1>4, <1>5, <1>8
<1> QED BY <1>3, <1>5, <1>6, <1>9, <1>10, <1>11, <1>12 DEF Apart

\* What is grown unseen is within what the machine has past its reserve.
LEMMA UnseenIsBounded ==
    ASSUME MemoryInv
    PROVE  \/ Together(unseen) = 0
           \/ Together(unseen) <= TheLimits.total - TheLimits.reserve
<1>1. CASE going = <<>>
  BY <1>1, OverNobody, TogetherIsOver
<1>2. CASE going # <<>>
  <2>1. Together(Ask) + Together(unseen) <= TheLimits.total - TheLimits.reserve + Together(taken)
    BY <1>2 DEF MemoryInv, Bounded
  <2>2. /\ Together(taken) <= Together(Ask) /\ Together(taken) \in Nat
        /\ Together(Ask) \in Nat /\ Together(unseen) \in Nat
    BY HeldInOrder, Counts DEF MemoryInv
  <2> QED BY <2>1, <2>2, Amounts
<1> QED BY <1>1, <1>2

\* The runs that fit go: the bounds of LetGo, by the measure of what they held
\* when the machine was read, give those of the reserve and the budget.
LEMMA AdmitKeeps == ASSUME MemoryInv, ReadRunsAndAdmit PROVE MemoryInv'
<1> DEFINE n == Admit(TheLimits, read, Accounts, AsksWaiting)
           room == TheLimits.total - TheLimits.reserve
           U == Together(unseen)
           T == Together(taken)
           A == Together(Ask)
           c == Over(Beside(n), Left)
<1>1. /\ read # NoRead /\ read' = NoRead /\ unseen' = [r \in Runs |-> 0] /\ taken' = taken
      /\ going' = going \o SubSeq(waiting, 1, n)
      /\ waiting' = SubSeq(waiting, n + 1, Len(waiting))
      /\ slip' = IF n = 0 THEN slip ELSE U
  BY DEF ReadRunsAndAdmit
<1>2. n \in 0 .. Len(waiting) /\ \A i \in 1 .. n : Goes(TheLimits, read, Accounts, AsksWaiting, i)
  <2>1. Len(AsksWaiting) = Len(waiting) /\ Len(AsksWaiting) \in Nat
    BY AsksAre DEF MemoryInv
  <2> QED BY <2>1, AdmitIs
<1> HIDE DEF n
<1>3. n \in Nat /\ going' = Beside(n) /\ Beside(n) \in Seq(Runs) /\ Len(waiting) \in Nat
  BY <1>1, <1>2, BesideIs, Counts, Positions DEF Beside, MemoryInv
<1>4. /\ waiting \in Seq(Runs) /\ going \in Seq(Runs) /\ taken \in [Runs -> Nat]
      /\ U \in Nat /\ T \in Nat /\ A \in Nat /\ slip \in Nat
  BY Counts DEF MemoryInv
<1>5. PICK held \in Nat : /\ read.slice = Sessions + held
                          /\ read.available = Max({0, TheLimits.total - Other - Sessions - held})
                          /\ T <= held + U
  BY <1>1 DEF MemoryInv, ReadThen
<1>6. /\ Over(Beside(n), taken) = T
      /\ n > 0 => /\ c <= room - Other - Sessions - held
                  /\ TheLimits.budget > 0 => Sessions + held + c <= TheLimits.budget
  BY <1>1, <1>2, <1>5, LetGo
<1>7. Together(taken)' = T /\ Together(Ask)' = c + T /\ c \in Nat
  <2>1. Over(Beside(n), Ask) = c + T /\ c \in Nat
    BY <1>3, <1>6, AskedIs
  <2> QED BY <1>1, <1>3, <1>6, <2>1, TogetherIsOver
<1>8. Together(unseen)' = 0
  <2>1. unseen' \in [Runs -> Nat] /\ \A r \in Runs : unseen'[r] = 0
    BY <1>1
  <2>2. [r \in Runs |-> 0] \in [Runs -> Nat]
    OBVIOUS
  <2>3. Over(going', unseen') = 0
    <3>1. Each(going', unseen') \in Seq(Int)
          /\ \A i \in 1 .. Len(Each(going', unseen')) : Each(going', unseen')[i] = 0
      <4>1. going' \in Seq(Runs)
        BY <1>3
      <4>2. /\ Each(going', unseen') \in Seq(Int) /\ Len(Each(going', unseen')) = Len(going')
            /\ \A i \in 1 .. Len(going') : Each(going', unseen')[i] = unseen'[going'[i]] /\ going'[i] \in Runs
        BY <2>1, <4>1, EachIs
      <4> QED BY <2>1, <4>2
    <3> QED BY <3>1, SumOfNoughts DEF Over
  <2> QED BY <2>3, TogetherIsOver
<1>9. Apart' /\ going' \in Seq(Runs) /\ waiting' \in Seq(Runs) /\ ToSet(going) \subseteq ToSet(going')
  BY <1>1, <1>2, LineAfter
<1>10. TypeOK'
  <2>1. 0 \in Word
    BY SizesAre DEF Word
  <2>2. unseen' \in [Runs -> Word] /\ slip' \in Nat
    BY <1>1, <1>4, <2>1
  <2> QED BY <1>1, <1>9, <2>2 DEF MemoryInv, TypeOK
<1>11. Held'
  <2>1. \A r \in Runs : unseen'[r] <= taken'[r] /\ taken'[r] <= Ask[r]
    <3> TAKE r \in Runs
    <3>1. taken[r] \in Nat /\ unseen'[r] = 0
      BY <1>1, <1>4
    <3> QED BY <1>1, <3>1 DEF MemoryInv, Held
  <2>2. \A r \in Runs : taken'[r] # 0 => r \in ToSet(going')
    BY <1>1, <1>9 DEF MemoryInv, Held
  <2> QED BY <2>1, <2>2 DEF Held
<1> HIDE DEF c, U, T, A
<1>12. CASE n = 0
  <2>1. going' = going /\ slip' = slip /\ Together(Ask)' = A
    <3>1. going' = going
      BY <1>3, <1>12, BesideNobody
    <3> QED BY <1>1, <1>12, <3>1, TogetherIsOver DEF A
  <2>2. Bounded'
    <3> SUFFICES ASSUME going # <<>>
                 PROVE  A + 0 <= TheLimits.total - TheLimits.reserve + T /\ slip <= TheLimits.total - TheLimits.reserve
      BY <1>7, <1>8, <2>1 DEF Bounded
    <3>1. A + U <= TheLimits.total - TheLimits.reserve + T /\ slip <= TheLimits.total - TheLimits.reserve
      BY DEF MemoryInv, Bounded, A, U, T
    <3> QED BY <1>4, <3>1, Amounts
  <2>3. ReserveKept' /\ BudgetKept'
    BY <2>1 DEF MemoryInv, ReserveKept, BudgetKept, A
  <2>4. ReadThen'
    BY <1>1 DEF ReadThen
  <2> QED BY <1>9, <1>10, <1>11, <2>2, <2>3, <2>4 DEF MemoryInv
<1>13. CASE n > 0
  <2>1. slip' = U
    BY <1>1, <1>13
  <2>2. /\ c <= room - Other - Sessions - held
        /\ TheLimits.budget > 0 => Sessions + held + c <= TheLimits.budget
    BY <1>6, <1>13
  <2>3. U <= room /\ c <= room
    <3>1. U = 0 \/ U <= room
      BY UnseenIsBounded DEF U
    <3> QED BY <1>4, <1>7, <2>2, <3>1, Amounts
  <2>4. Bounded'
    <3>1. c + T + 0 <= TheLimits.total - TheLimits.reserve + T
      BY <1>4, <1>7, <2>3, Amounts
    <3> QED BY <1>7, <1>8, <2>1, <2>3, <3>1 DEF Bounded
  <2>5. ReserveKept'
    <3>1. TheLimits.reserve + Other + Sessions + (c + T) <= TheLimits.total + U
      <4> DEFINE have == TheLimits.total
                 keep == TheLimits.reserve
      <4>1. /\ have \in Nat /\ keep \in Nat /\ Other \in Nat /\ Sessions \in Nat
            /\ c \in Nat /\ T \in Nat /\ U \in Nat /\ held \in Nat
        BY <1>4, <1>5, <1>7, Amounts
      <4>2. c <= have - keep - Other - Sessions - held /\ T <= held + U
        BY <1>5, <2>2
      <4> HIDE DEF have, keep
      <4>3. keep + Other + Sessions + (c + T) <= have + U
        BY <4>1, <4>2
      <4> QED BY <4>3 DEF have, keep
    <3> QED BY <1>7, <2>1, <3>1 DEF ReserveKept
  <2>6. BudgetKept'
    <3>1. ASSUME TheLimits.budget > 0 PROVE Sessions + (c + T) <= TheLimits.budget + U
      <4> DEFINE top == TheLimits.budget
      <4>1. /\ top \in Nat /\ Sessions \in Nat
            /\ c \in Nat /\ T \in Nat /\ U \in Nat /\ held \in Nat
        BY <1>4, <1>5, <1>7, Amounts
      <4>2. Sessions + held + c <= top /\ T <= held + U
        BY <1>5, <2>2, <3>1
      <4> HIDE DEF top
      <4>3. Sessions + (c + T) <= top + U
        BY <4>1, <4>2
      <4> QED BY <4>3 DEF top
    <3> QED BY <1>7, <2>1, <3>1 DEF BudgetKept
  <2>7. ReadThen'
    BY <1>1 DEF ReadThen
  <2> QED BY <1>9, <1>10, <1>11, <2>4, <2>5, <2>6, <2>7 DEF MemoryInv
<1> QED BY <1>3, <1>12, <1>13

-----------------------------------------------------------------------------
(* The door.                                                               *)

\* With no run going nothing is to come, and the first of a line of one is
\* weighed beside nobody.
LEMMA AloneIsBesideNobody ==
    ASSUME NEW ask
    PROVE  <<>> \o Fresh(SubSeq(<<ask>>, 1, 1 - 1)) = <<>> /\ Len(<<ask>>) = 1 /\ <<ask>>[1] = ask
<1>1. SubSeq(<<ask>>, 1, 1 - 1) = <<>>
  BY SubSeqEmpty
<1>2. Fresh(<<>>) = <<>>
  BY DEF Fresh
<1>3. <<>> \o <<>> = <<>>
  <2>1. <<>> \in Seq(Nat)
    OBVIOUS
  <2> QED BY <2>1, ConcatEmptySeq
<1> QED BY <1>1, <1>2, <1>3

\* Nobody is to take anything.
LEMMA NothingToCome == TotalToCome(<<>>) = 0
<1>1. [i \in DOMAIN <<>> |-> ToCome(<<>>[i])] = <<>> /\ <<>> \in Seq(Int) /\ Len(<<>>) = 0
  OBVIOUS
<1>2. SumOf(<<>>) = 0
  <2>1. UpTo(<<>>)[0] = 0
    BY <1>1, EachSum
  <2> QED BY <1>1, <2>1, SumIsTheLast
<1>3. Unsigned(0) = 0
  BY WordsAreNumbers, HalfAssumption
<1> QED BY <1>1, <1>2, <1>3 DEF TotalToCome

\* Alone on a machine of its own a run is blocked exactly when the door turns
\* it away.
LEMMA DoorIsTheRule ==
    ASSUME NEW l \in [slots : {1}, reserve : Real, budget : Real, total : Real \ {0}],
           NEW ask \in Real
    PROVE  Never(l, ask) <=> Blocked(l, Idle(l), <<>>, ask)
<1>1. /\ l.slots = 1 /\ Half \in Nat \ {0} /\ ask \in Nat /\ ask < Half
      /\ l.reserve \in Nat /\ l.reserve < Half /\ l.budget \in Nat /\ l.budget < Half
      /\ l.total \in Nat /\ l.total < Half /\ l.total > 0
  BY HalfAssumption DEF Real
<1>2. Idle(l).available = l.total /\ Idle(l).slice = 0 /\ Idle(l).pressed = FALSE
  BY DEF Idle
<1>3. /\ ask \in -Half .. Half - 1 /\ l.reserve \in -Half .. Half - 1 /\ l.total \in -Half .. Half - 1
      /\ 0 \in -Half .. Half - 1
      /\ l.total - l.reserve \in -Half .. Half - 1 /\ l.total - ask \in -Half .. Half - 1
      /\ ask \in 0 .. 2 * Half - 1
  BY <1>1
<1>4. /\ Signed(ask) = ask /\ Signed(l.reserve) = l.reserve /\ Signed(l.total) = l.total
      /\ Signed(0) = 0 /\ Signed(l.total - l.reserve) = l.total - l.reserve
      /\ Signed(l.total - ask) = l.total - ask /\ Unsigned(ask) = ask
  BY <1>3, WordsAreNumbers
<1>5. ~ NoSlot(l, <<>>)
  BY <1>1 DEF NoSlot
<1>6. NoMemory(l, Idle(l), <<>>, ask) <=> l.total - ask < l.reserve
  <2>1. l.total - 0 = l.total
    BY <1>1
  <2> QED BY <1>2, <1>4, <2>1, NothingToCome DEF NoMemory
<1>7. NoBudget(l, Idle(l), <<>>, ask) <=> l.budget > 0 /\ ask > l.budget
  <2>1. 0 + 0 + ask = ask
    BY <1>1
  <2> QED BY <1>2, <1>4, <2>1, NothingToCome DEF NoBudget
<1>8. Never(l, ask) <=> (l.budget > 0 /\ ask > l.budget) \/ ask > l.total - l.reserve
  BY <1>1, <1>4 DEF Never
<1>9. l.total - ask < l.reserve <=> ask > l.total - l.reserve
  BY <1>1
<1> QED BY <1>2, <1>5, <1>6, <1>7, <1>8, <1>9 DEF Blocked

\* The same for the number Admit chooses.
LEMMA DoorIsAlwaysRight == DoorIsRight
<1> SUFFICES ASSUME QueueIsIdle,
                    NEW l \in [slots : {1}, reserve : Real, budget : Real, total : Real \ {0}],
                    NEW ask \in Real
             PROVE  Never(l, ask) <=> Admit(l, Idle(l), Accounts, <<ask>>) = 0
  BY DEF DoorIsRight
<1> DEFINE n == Admit(l, Idle(l), <<>>, <<ask>>)
           goes(i) == Goes(l, Idle(l), <<>>, <<ask>>, i)
<1>1. Accounts = <<>>
  BY DEF QueueIsIdle, Accounts
<1>2. Len(<<ask>>) = 1
  OBVIOUS
<1>3. n \in 0 .. 1 /\ (\A i \in 1 .. n : goes(i)) /\ (n < 1 => ~ goes(n + 1))
  BY <1>2, AdmitIs
<1>4. goes(1) <=> ~ Blocked(l, Idle(l), <<>>, ask)
  BY AloneIsBesideNobody DEF Goes
<1> HIDE DEF n, goes
<1>5. n = 0 <=> ~ goes(1)
  <2>1. CASE n = 0
    BY <1>3, <2>1
  <2>2. CASE n = 1
    BY <1>3, <2>2
  <2> QED BY <1>3, <2>1, <2>2
<1> QED BY <1>1, <1>4, <1>5, DoorIsTheRule DEF n

-----------------------------------------------------------------------------
(* The theorems.                                                           *)

\* No step breaks it.
LEMMA NextKeeps == MemoryInv /\ [Next]_vars => MemoryInv'
<1> SUFFICES ASSUME MemoryInv, [Next]_vars PROVE MemoryInv'
  OBVIOUS
<1>1. ASSUME NEW r \in Runs, Join(r) PROVE MemoryInv'
  BY <1>1, JoinKeeps
<1>2. ASSUME NEW r \in Runs, Leave(r) PROVE MemoryInv'
  BY <1>2, LeaveKeeps
<1>3. ASSUME NEW r \in Runs, Grow(r) PROVE MemoryInv'
  BY <1>3, GrowKeeps
<1>4. ASSUME NEW r \in Runs, End(r) PROVE MemoryInv'
  BY <1>4, EndKeeps
<1>5. ASSUME NEW pressed \in BOOLEAN, ReadMachine(pressed) PROVE MemoryInv'
  BY <1>5, ReadKeeps
<1>6. ASSUME ReadRunsAndAdmit PROVE MemoryInv'
  BY <1>6, AdmitKeeps
<1>7. ASSUME UNCHANGED vars PROVE MemoryInv'
  <2>1. UNCHANGED <<waiting, going, taken, unseen, read, slip>>
    BY <1>7 DEF vars
  <2>2. /\ waiting \in Seq(Runs) /\ IsInjective(waiting) /\ ToSet(waiting) \cap ToSet(going) = {}
        /\ \A r \in ToSet(waiting) : ~ Never(TheLimits, Ask[r])
    BY DEF MemoryInv, TypeOK, Apart
  <2> QED BY <2>1, <2>2, MemoryStays
<1> QED BY <1>1, <1>2, <1>3, <1>4, <1>5, <1>6, <1>7 DEF Next

\* The state has its types, and the inductive invariant holds throughout: a run
\* waits or goes in one place, has passed the door and holds no more than it
\* asked for; and the half of a measure already read falls short of what the
\* runs hold by what they took unseen at most.
THEOREM MemoryInvHolds == Spec => []MemoryInv
<1>1. Init => MemoryInv
  BY InvStarts
<1>2. MemoryInv /\ [Next]_vars => MemoryInv'
  BY NextKeeps
<1> QED BY <1>1, <1>2, PTL DEF Spec

\* The counts of TypeOK are words: no size the queue keeps is past their end.
THEOREM MemoryTypes == Spec => []TypeOK
<1>1. MemoryInv => TypeOK
  BY DEF MemoryInv
<1> QED BY <1>1, MemoryInvHolds, PTL

\* The reserve of the machine is kept by the runs let go, each grown to its
\* ceiling, but for what they grew by between the two halves of the read
\* (Admit and blocked in admit.go, look in queue.go).
THEOREM ReserveIsKept == Spec => []ReserveKept
<1>1. MemoryInv => ReserveKept
  BY DEF MemoryInv
<1> QED BY <1>1, MemoryInvHolds, PTL

\* The budget of the agents' slice is kept by the runs let go with the sessions
\* beside them, each run grown to its ceiling, with the same exception (the same
\* lines of admit.go and queue.go).
THEOREM BudgetIsKept == Spec => []BudgetKept
<1>1. MemoryInv => BudgetKept
  BY DEF MemoryInv
<1> QED BY <1>1, MemoryInvHolds, PTL

\* The refusal at the door (Never in admit.go) is of the runs the rule of the
\* queue would block on an idle machine, for all limits and asks of a real size.
THEOREM DoorAgrees == Spec => []DoorIsRight
<1>1. DoorIsRight
  BY DoorIsAlwaysRight
<1> QED BY <1>1, PTL

=============================================================================
