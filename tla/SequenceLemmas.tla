--------------------------- MODULE SequenceLemmas ---------------------------
(***************************************************************************)
(* What the operators on sequences the models are built from do to the     *)
(* type, the elements and the distinctness of a sequence: lemmas of        *)
(* HolderInputProofs, HolderQueueProofs and HeavyMemoryProofs.             *)
(***************************************************************************)
EXTENDS Integers, SequencesExt, SequenceTheorems, WellFoundedInduction, TLAPS

\* A sequence is a function on its positions, none of them past its length.
LEMMA Positions ==
    ASSUME NEW S, NEW s \in Seq(S)
    PROVE  /\ Len(s) \in Nat /\ DOMAIN s = 1 .. Len(s)
           /\ \A i \in 1 .. Len(s) : s[i] \in S
           /\ s = <<>> <=> Len(s) = 0
           /\ ToSet(s) \subseteq S
           /\ \A e : e \in ToSet(s) <=> \E i \in 1 .. Len(s) : s[i] = e
<1>1. Len(s) \in Nat /\ DOMAIN s = 1 .. Len(s) /\ \A i \in 1 .. Len(s) : s[i] \in S
  BY LenProperties, ElementOfSeq
<1>2. s = <<>> <=> Len(s) = 0
  BY EmptySeq, <1>1
<1>3. \A e : e \in ToSet(s) <=> \E i \in 1 .. Len(s) : s[i] = e
  BY <1>1 DEF ToSet
<1> QED BY <1>1, <1>2, <1>3

\* One element more.
LEMMA Appended ==
    ASSUME NEW S, NEW s \in Seq(S), NEW e \in S
    PROVE  /\ Append(s, e) \in Seq(S)
           /\ ToSet(Append(s, e)) = ToSet(s) \union {e}
           /\ IsInjective(s) /\ e \notin ToSet(s) => IsInjective(Append(s, e))
<1> DEFINE t == Append(s, e)
<1>1. /\ t \in Seq(S) /\ Len(t) = Len(s) + 1 /\ t[Len(s) + 1] = e
      /\ \A i \in 1 .. Len(s) : t[i] = s[i]
  BY AppendProperties
<1>2. Len(s) \in Nat /\ \A i \in 1 .. Len(t) : i \in 1 .. Len(s) \/ i = Len(s) + 1
  BY <1>1, Positions
<1>3. \A i \in 1 .. Len(s) + 1 : i \in 1 .. Len(t)
  BY <1>1
<1>4. \A i \in 1 .. Len(s) : i \in 1 .. Len(t)
  BY <1>1, <1>2
<1>5. Len(s) + 1 \in 1 .. Len(t)
  BY <1>1, <1>2
<1> HIDE DEF t
<1>6. ToSet(t) = ToSet(s) \union {e}
  <2>1. \A x : x \in ToSet(t) <=> \E i \in 1 .. Len(t) : t[i] = x
    BY <1>1, Positions
  <2>2. \A x : x \in ToSet(s) <=> \E i \in 1 .. Len(s) : s[i] = x
    BY Positions
  <2>3. ASSUME NEW x, x \in ToSet(t) PROVE x \in ToSet(s) \/ x = e
    BY <1>1, <1>2, <2>1, <2>2, <2>3
  <2>4. ASSUME NEW x, x \in ToSet(s) PROVE x \in ToSet(t)
    BY <1>1, <1>4, <2>1, <2>2, <2>4
  <2>5. e \in ToSet(t)
    BY <1>1, <1>5, <2>1
  <2> QED BY <2>3, <2>4, <2>5
<1>7. ASSUME IsInjective(s), e \notin ToSet(s) PROVE IsInjective(t)
  <2>1. ASSUME NEW i \in 1 .. Len(t), NEW j \in 1 .. Len(t), t[i] = t[j] PROVE i = j
    <3>1. \A a, b \in 1 .. Len(s) : s[a] = s[b] => a = b
      BY <1>7, Positions DEF IsInjective
    <3>2. \A a \in 1 .. Len(s) : s[a] # e
      BY <1>7, Positions
    <3> QED BY <1>1, <1>2, <2>1, <3>1, <3>2
  <2> QED BY <2>1, <1>1, Positions DEF IsInjective
<1> QED BY <1>1, <1>6, <1>7 DEF t

\* The first element and the rest.
LEMMA Tailed ==
    ASSUME NEW S, NEW s \in Seq(S), s # <<>>
    PROVE  /\ Head(s) \in S /\ Tail(s) \in Seq(S)
           /\ Len(Tail(s)) = Len(s) - 1 /\ Len(s) \in Nat \ {0}
           /\ Head(s) = s[1]
           /\ \A i \in 1 .. Len(s) - 1 : Tail(s)[i] = s[i + 1]
           /\ ToSet(s) = {Head(s)} \union ToSet(Tail(s))
           /\ IsInjective(s) => IsInjective(Tail(s)) /\ Head(s) \notin ToSet(Tail(s))
<1> DEFINE t == Tail(s)
<1>1. /\ Head(s) \in S /\ t \in Seq(S) /\ Len(t) = Len(s) - 1 /\ Len(s) \in Nat \ {0}
      /\ Head(s) = s[1]
      /\ \A i \in 1 .. Len(s) - 1 : t[i] = s[i + 1]
  <2>1. /\ Head(s) \in S /\ t \in Seq(S) /\ Len(t) = Len(s) - 1
        /\ \A i \in 1 .. Len(t) : t[i] = s[i + 1]
    BY HeadTailProperties
  <2>2. Len(s) \in Nat \ {0}
    BY Positions
  <2>3. Head(s) = s[1]
    OBVIOUS
  <2> QED BY <2>1, <2>2, <2>3
<1>2. \A i \in 1 .. Len(s) : i = 1 \/ (i - 1 \in 1 .. Len(t) /\ t[i - 1] = s[i])
  <2> TAKE i \in 1 .. Len(s)
  <2> SUFFICES ASSUME i # 1 PROVE i - 1 \in 1 .. Len(t) /\ t[i - 1] = s[i]
    OBVIOUS
  <2>1. i - 1 \in 1 .. Len(s) - 1 /\ (i - 1) + 1 = i
    BY <1>1
  <2> QED BY <1>1, <2>1
<1>3. \A i \in 1 .. Len(t) : i + 1 \in 1 .. Len(s) /\ t[i] = s[i + 1] /\ i + 1 # 1
  BY <1>1
<1>4. 1 \in 1 .. Len(s)
  BY <1>1
<1> HIDE DEF t
<1>6. ToSet(s) = {Head(s)} \union ToSet(t)
  <2>1. ASSUME NEW x PROVE x \in ToSet(s) <=> x = Head(s) \/ x \in ToSet(t)
    <3>1. x \in ToSet(s) => x = Head(s) \/ x \in ToSet(t)
      BY <1>1, <1>2, Positions
    <3>2. x \in ToSet(t) => x \in ToSet(s)
      BY <1>1, <1>3, Positions
    <3>3. Head(s) \in ToSet(s)
      BY <1>1, <1>4, Positions
    <3> QED BY <3>1, <3>2, <3>3
  <2> QED BY <2>1
<1>7. ASSUME IsInjective(s) PROVE IsInjective(t) /\ Head(s) \notin ToSet(t)
  <2>1. \A a, b \in 1 .. Len(s) : s[a] = s[b] => a = b
    BY <1>7, Positions DEF IsInjective
  <2>2. ASSUME NEW i \in 1 .. Len(t), NEW j \in 1 .. Len(t), t[i] = t[j] PROVE i = j
    <3>1. i + 1 = j + 1
      BY <1>3, <2>1, <2>2
    <3> QED BY <3>1
  <2>3. Head(s) \notin ToSet(t)
    BY <1>1, <1>3, <1>4, <2>1, Positions
  <2> QED BY <2>2, <2>3, <1>1, Positions DEF IsInjective
<1> QED BY <1>1, <1>6, <1>7 DEF t

\* Two sequences, one behind the other.
LEMMA Joined ==
    ASSUME NEW S, NEW s \in Seq(S), NEW t \in Seq(S)
    PROVE  /\ s \o t \in Seq(S)
           /\ ToSet(s \o t) = ToSet(s) \union ToSet(t)
           /\ Len(s \o t) = Len(s) + Len(t)
           /\ \A i \in 1 .. Len(s) : i \in 1 .. Len(s \o t) /\ (s \o t)[i] = s[i]
           /\ \A i \in 1 .. Len(s \o t) :
                  \/ i \in 1 .. Len(s)
                  \/ i > Len(s) /\ i - Len(s) \in 1 .. Len(t) /\ (s \o t)[i] = t[i - Len(s)]
<1>1. /\ s \o t \in Seq(S) /\ Len(s \o t) = Len(s) + Len(t)
      /\ \A i \in 1 .. Len(s) + Len(t) :
             (s \o t)[i] = IF i <= Len(s) THEN s[i] ELSE t[i - Len(s)]
      /\ Len(s) \in Nat /\ Len(t) \in Nat
  BY ConcatProperties, LenProperties
<1>2. ToSet(s \o t) = Range(s \o t) /\ ToSet(s) = Range(s) /\ ToSet(t) = Range(t)
  BY DEF ToSet, Range
<1>3. ToSet(s \o t) = ToSet(s) \union ToSet(t)
  BY <1>2, RangeConcatenation
<1>4. \A i \in 1 .. Len(s) : i \in 1 .. Len(s \o t) /\ (s \o t)[i] = s[i]
  BY <1>1
<1>5. ASSUME NEW i \in 1 .. Len(s \o t), i \notin 1 .. Len(s)
      PROVE  i > Len(s) /\ i - Len(s) \in 1 .. Len(t) /\ (s \o t)[i] = t[i - Len(s)]
  BY <1>1, <1>5
<1> QED BY <1>1, <1>3, <1>4, <1>5

\* The element at a place taken out, those behind it moved up.
LEMMA WithoutOne ==
    ASSUME NEW S, NEW s \in Seq(S), NEW n \in 1 .. Len(s)
    PROVE  /\ RemoveAt(s, n) \in Seq(S)
           /\ Len(RemoveAt(s, n)) = Len(s) - 1
           /\ \A i \in 1 .. Len(s) - 1 : RemoveAt(s, n)[i] = IF i < n THEN s[i] ELSE s[i + 1]
           /\ ToSet(s) = ToSet(RemoveAt(s, n)) \union {s[n]}
           /\ IsInjective(s) => IsInjective(RemoveAt(s, n)) /\ s[n] \notin ToSet(RemoveAt(s, n))
<1> DEFINE a == SubSeq(s, 1, n - 1)
           b == SubSeq(s, n + 1, Len(s))
           t == RemoveAt(s, n)
<1>0. /\ Len(s) \in Nat /\ \A i \in 1 .. Len(s) : s[i] \in S
      /\ n \in 1 .. Len(s)
  BY Positions
<1>1. /\ a \in Seq(S) /\ Len(a) = n - 1
      /\ \A i \in 1 .. n - 1 : a[i] = s[i]
  <2>1. /\ a \in Seq(S) /\ Len(a) = IF 1 <= n - 1 THEN (n - 1) - 1 + 1 ELSE 0
        /\ \A i \in 1 .. (n - 1) - 1 + 1 : a[i] = s[1 + i - 1]
    BY <1>0, SubSeqProperties
  <2> QED BY <1>0, <2>1
<1>2. /\ b \in Seq(S) /\ Len(b) = Len(s) - n
      /\ \A i \in 1 .. Len(s) - n : b[i] = s[n + i]
  <2>1. /\ b \in Seq(S) /\ Len(b) = IF n + 1 <= Len(s) THEN Len(s) - (n + 1) + 1 ELSE 0
        /\ \A i \in 1 .. Len(s) - (n + 1) + 1 : b[i] = s[(n + 1) + i - 1]
    BY <1>0, SubSeqProperties
  <2> QED BY <1>0, <2>1
<1> HIDE DEF a, b
<1>3. t = a \o b
  BY DEF a, b, RemoveAt
<1>4. /\ t \in Seq(S) /\ Len(t) = Len(s) - 1
      /\ \A i \in 1 .. Len(s) - 1 : t[i] = IF i <= n - 1 THEN a[i] ELSE b[i - (n - 1)]
  <2>1. /\ a \o b \in Seq(S) /\ Len(a \o b) = Len(a) + Len(b)
        /\ \A i \in 1 .. Len(a) + Len(b) : (a \o b)[i] = IF i <= Len(a) THEN a[i] ELSE b[i - Len(a)]
    BY <1>1, <1>2, ConcatProperties
  <2>2. Len(a) + Len(b) = Len(s) - 1
    BY <1>0, <1>1, <1>2
  <2> HIDE DEF t
  <2> QED BY <1>1, <1>3, <2>1, <2>2
<1> HIDE DEF t
<1>5. ASSUME NEW i \in 1 .. Len(t)
      PROVE  /\ i < n => i \in 1 .. Len(s) /\ t[i] = s[i]
             /\ i >= n => i + 1 \in 1 .. Len(s) /\ t[i] = s[i + 1]
  <2>1. CASE i < n
    BY <1>0, <1>1, <1>4, <2>1
  <2>2. CASE ~ i < n
    <3>1. t[i] = b[i - (n - 1)] /\ i - (n - 1) \in 1 .. Len(s) - n
      BY <1>0, <1>4, <2>2
    <3>2. b[i - (n - 1)] = s[n + (i - (n - 1))]
      BY <1>2, <3>1
    <3>3. n + (i - (n - 1)) = i + 1 /\ i + 1 \in 1 .. Len(s) /\ i + 1 # n
      BY <1>0, <1>4, <2>2
    <3> QED BY <2>2, <3>1, <3>2, <3>3
  <2> QED BY <2>1, <2>2
<1>6. ASSUME NEW k \in 1 .. Len(s), k # n
      PROVE  \E i \in 1 .. Len(t) : t[i] = s[k]
  <2>1. CASE k < n
    <3>1. k \in 1 .. Len(t) /\ k < n
      BY <1>0, <1>4, <2>1
    <3> QED BY <1>5, <3>1
  <2>2. CASE k > n
    <3>1. k - 1 \in 1 .. Len(t) /\ k - 1 >= n /\ (k - 1) + 1 = k
      BY <1>0, <1>4, <2>2
    <3> QED BY <1>5, <3>1
  <2> QED BY <1>0, <1>6, <2>1, <2>2
<1>7. ToSet(s) = ToSet(t) \union {s[n]}
  <2>1. ASSUME NEW x PROVE x \in ToSet(s) <=> x \in ToSet(t) \/ x = s[n]
    <3>1. x \in ToSet(s) => x \in ToSet(t) \/ x = s[n]
      <4>1. \A e : e \in ToSet(t) <=> \E i \in 1 .. Len(t) : t[i] = e
        BY <1>4, Positions
      <4>2. \A e : e \in ToSet(s) <=> \E i \in 1 .. Len(s) : s[i] = e
        BY Positions
      <4> QED BY <1>6, <4>1, <4>2
    <3>2. x \in ToSet(t) => x \in ToSet(s)
      BY <1>4, <1>5, Positions
    <3>3. s[n] \in ToSet(s)
      BY Positions
    <3> QED BY <3>1, <3>2, <3>3
  <2> QED BY <2>1
<1>8. ASSUME IsInjective(s) PROVE IsInjective(t) /\ s[n] \notin ToSet(t)
  <2>1. \A i, j \in 1 .. Len(s) : s[i] = s[j] => i = j
    BY <1>8, Positions DEF IsInjective
  <2>2. ASSUME NEW i \in 1 .. Len(t), NEW j \in 1 .. Len(t), t[i] = t[j] PROVE i = j
    <3>1. i \in Nat /\ j \in Nat /\ n \in Nat
      BY <1>0
    <3>2. CASE i < n /\ j < n
      BY <1>5, <2>1, <2>2, <3>2
    <3>3. CASE i < n /\ j >= n
      <4>1. i = j + 1
        BY <1>5, <2>1, <2>2, <3>3
      <4> QED BY <3>1, <3>3, <4>1
    <3>4. CASE i >= n /\ j < n
      <4>1. i + 1 = j
        BY <1>5, <2>1, <2>2, <3>4
      <4> QED BY <3>1, <3>4, <4>1
    <3>5. CASE i >= n /\ j >= n
      <4>1. i + 1 = j + 1
        BY <1>5, <2>1, <2>2, <3>5
      <4> QED BY <3>1, <4>1
    <3> QED BY <3>1, <3>2, <3>3, <3>4, <3>5
  <2>3. s[n] \notin ToSet(t)
    <3> SUFFICES ASSUME NEW i \in 1 .. Len(t), t[i] = s[n] PROVE FALSE
      BY <1>4, Positions
    <3>1. i < n => s[i] # s[n]
      BY <1>0, <1>5, <2>1
    <3>2. i >= n => s[i + 1] # s[n]
      BY <1>0, <1>4, <1>5, <2>1
    <3> QED BY <1>0, <1>4, <1>5, <3>1, <3>2
  <2> QED BY <2>2, <2>3, <1>4, Positions DEF IsInjective
<1>9. ASSUME NEW i \in 1 .. Len(s) - 1 PROVE t[i] = IF i < n THEN s[i] ELSE s[i + 1]
  <2>1. i \in 1 .. Len(t) /\ i \in Int /\ n \in Int
    BY <1>0, <1>4
  <2>2. (i < n => t[i] = s[i]) /\ (i >= n => t[i] = s[i + 1])
    BY <1>5, <2>1
  <2> QED BY <2>1, <2>2
<1> QED BY <1>4, <1>7, <1>8, <1>9 DEF t

\* Of WithoutOne, where each element of the rest stands.
LEMMA PlacesWithout ==
    ASSUME NEW S, NEW s \in Seq(S), NEW n \in 1 .. Len(s)
    PROVE  /\ Len(RemoveAt(s, n)) = Len(s) - 1
           /\ \A i \in 1 .. Len(s) - 1 : RemoveAt(s, n)[i] = IF i < n THEN s[i] ELSE s[i + 1]
BY WithoutOne

\* A set of numbers has a least one.
LEMMA LeastOf ==
    ASSUME NEW D \in SUBSET Nat, D # {}
    PROVE  Min(D) \in D /\ \A j \in D : Min(D) <= j
<1>1. \E i \in D : \A j \in D : i <= j
  <2> DEFINE R == OpToRel(<, Nat)
  <2>0. IsWellFoundedOn(R, Nat)
    BY NatLessThanWellFounded
  <2>1. \A j, i \in D : j < i => <<j, i>> \in R
    BY DEF OpToRel
  <2> HIDE DEF R
  <2>2. PICK i \in D : \A j \in D : ~ (<<j, i>> \in R)
    BY <2>0, WFMin
  <2> QED
    <3>1. \A j \in D : ~ (j < i)
      BY <2>1, <2>2
    <3>2. \A j \in D : j \in Nat /\ i \in Nat
      OBVIOUS
    <3> QED BY <3>1, <3>2
<1> QED BY <1>1 DEF Min

\* A set that holds 0, and with a number below n the next one, holds them all:
\* induction up to n.
LEMMA Climbs ==
    ASSUME NEW n \in Nat, NEW P, 0 \in P, \A i \in 0 .. n - 1 : i \in P => i + 1 \in P
    PROVE  \A i \in 0 .. n : i \in P
<1> DEFINE D == {i \in 0 .. n : i \notin P}
<1> SUFFICES ASSUME D # {} PROVE FALSE
  OBVIOUS
<1>1. D \in SUBSET Nat
  OBVIOUS
<1>2. Min(D) \in D /\ \A j \in D : Min(D) <= j
  <2> HIDE DEF D
  <2> QED BY <1>1, LeastOf
<1>3. PICK m \in D : \A j \in D : m <= j
  BY <1>2
<1>4. m \in 1 .. n /\ m \notin P
  BY <1>3
<1>5. m - 1 \in 0 .. n - 1 /\ m - 1 \notin D /\ (m - 1) + 1 = m
  <2>1. m - 1 \in 0 .. n - 1 /\ ~ (m <= m - 1) /\ (m - 1) + 1 = m
    BY <1>4
  <2> QED BY <1>3, <2>1
<1>6. m - 1 \in P
  BY <1>5
<1> QED BY <1>4, <1>5, <1>6

\* The first occurrence of an element taken out, if there is one.
LEMMA RemovedFirst ==
    ASSUME NEW S, NEW s \in Seq(S), NEW e
    PROVE  /\ RemoveFirst(s, e) \in Seq(S)
           /\ ToSet(RemoveFirst(s, e)) \subseteq ToSet(s)
           /\ ToSet(s) \subseteq ToSet(RemoveFirst(s, e)) \union {e}
           /\ IsInjective(s) => /\ IsInjective(RemoveFirst(s, e))
                                /\ e \notin ToSet(RemoveFirst(s, e))
<1> DEFINE I == {i \in 1 .. Len(s) : s[i] = e}
<1>1. CASE \E i \in 1 .. Len(s) : s[i] = e
  <2>1. Min(I) \in I
    <3>1. I \in SUBSET Nat /\ I # {}
      BY <1>1
    <3> HIDE DEF I
    <3> QED BY <3>1, LeastOf
  <2>2. RemoveFirst(s, e) = RemoveAt(s, Min(I))
    BY <1>1 DEF RemoveFirst, SelectInSeq
  <2>3. PICK n \in 1 .. Len(s) : s[n] = e /\ RemoveFirst(s, e) = RemoveAt(s, n)
    BY <2>1, <2>2
  <2> HIDE DEF I
  <2> QED BY <2>3, WithoutOne
<1>2. CASE ~ \E i \in 1 .. Len(s) : s[i] = e
  <2>1. RemoveFirst(s, e) = s
    BY <1>2 DEF RemoveFirst
  <2>2. e \notin ToSet(s)
    BY <1>2, Positions
  <2> QED BY <2>1, <2>2
<1> QED BY <1>1, <1>2

\* All but the last element.
LEMMA Fronted ==
    ASSUME NEW S, NEW s \in Seq(S), s # <<>>
    PROVE  /\ Front(s) \in Seq(S)
           /\ \E last \in S : ToSet(s) = ToSet(Front(s)) \union {last}
           /\ IsInjective(s) => IsInjective(Front(s))
<1>1. Len(s) \in Nat /\ Len(s) \in 1 .. Len(s)
  BY Positions
<1>2. SubSeq(s, Len(s) + 1, Len(s)) = <<>>
  BY <1>1, SubSeqEmpty
<1>3. SubSeq(s, 1, Len(s) - 1) \in Seq(S)
  <2>1. \A i \in 1 .. Len(s) - 1 : s[i] \in S
    BY <1>1, Positions
  <2> QED BY <1>1, <2>1, SubSeqProperties
<1>4. Front(s) = RemoveAt(s, Len(s))
  BY <1>2, <1>3, ConcatEmptySeq DEF Front, RemoveAt
<1> QED BY <1>1, <1>4, WithoutOne, Positions

\* The first n elements.
LEMMA Cut ==
    ASSUME NEW S, NEW s \in Seq(S), NEW n \in 0 .. Len(s)
    PROVE  /\ SubSeq(s, 1, n) \in Seq(S) /\ Len(SubSeq(s, 1, n)) = n
           /\ \A i \in 1 .. n : SubSeq(s, 1, n)[i] = s[i]
<1>1. Len(s) \in Nat /\ \A i \in 1 .. n : s[i] \in S
  BY Positions
<1> QED BY <1>1, SubSeqProperties

\* Sequences written out.
LEMMA Short ==
    ASSUME NEW S, NEW a \in S
    PROVE  /\ <<>> \in Seq(S) /\ ToSet(<<>>) = {} /\ Len(<<>>) = 0
           /\ <<a>> \in Seq(S) /\ ToSet(<<a>>) = {a} /\ Len(<<a>>) = 1
           /\ \A b \in S : <<a, b>> \in Seq(S) /\ ToSet(<<a, b>>) = {a, b} /\ Len(<<a, b>>) = 2
           /\ \A b, c \in S : /\ <<a, b, c>> \in Seq(S) /\ ToSet(<<a, b, c>>) = {a, b, c}
                              /\ Len(<<a, b, c>>) = 3
BY DEF ToSet

\* A sequence in two: nobody of one that holds each once is in both.
LEMMA Parted ==
    ASSUME NEW S, NEW s \in Seq(S), NEW n \in 0 .. Len(s)
    PROVE  /\ SubSeq(s, n + 1, Len(s)) \in Seq(S)
           /\ ToSet(SubSeq(s, 1, n)) \subseteq ToSet(s)
           /\ ToSet(SubSeq(s, n + 1, Len(s))) \subseteq ToSet(s)
           /\ IsInjective(s) =>
                  /\ IsInjective(SubSeq(s, 1, n)) /\ IsInjective(SubSeq(s, n + 1, Len(s)))
                  /\ ToSet(SubSeq(s, 1, n)) \cap ToSet(SubSeq(s, n + 1, Len(s))) = {}
<1> DEFINE a == SubSeq(s, 1, n)
           b == SubSeq(s, n + 1, Len(s))
<1>1. Len(s) \in Nat /\ n \in Nat /\ n <= Len(s) /\ \A i \in 1 .. Len(s) : s[i] \in S
  BY Positions
<1>2. a \in Seq(S) /\ Len(a) = n /\ \A i \in 1 .. n : a[i] = s[i]
  BY Cut
<1>3. b \in Seq(S) /\ Len(b) = Len(s) - n /\ \A i \in 1 .. Len(s) - n : b[i] = s[i + n]
  <2>1. \A i \in n + 1 .. Len(s) : s[i] \in S
    BY <1>1
  <2>2. /\ b \in Seq(S)
        /\ Len(b) = IF n + 1 <= Len(s) THEN Len(s) - (n + 1) + 1 ELSE 0
        /\ \A i \in 1 .. Len(s) - (n + 1) + 1 : b[i] = s[(n + 1) + i - 1]
    BY <1>1, <2>1, SubSeqProperties
  <2>3. Len(s) - (n + 1) + 1 = Len(s) - n /\ \A i \in 1 .. Len(s) - n : (n + 1) + i - 1 = i + n
    BY <1>1
  <2>4. Len(b) = Len(s) - n
    BY <1>1, <2>2
  <2> HIDE DEF b
  <2> QED BY <2>2, <2>3, <2>4
<1> HIDE DEF a, b
<1>4. ASSUME NEW e \in ToSet(a) PROVE \E i \in 1 .. n : s[i] = e /\ a[i] = e
  <2>1. PICK i \in 1 .. Len(a) : a[i] = e
    BY <1>2, Positions
  <2> QED BY <1>2, <2>1
<1>5. ASSUME NEW e \in ToSet(b) PROVE \E i \in 1 .. Len(s) - n : s[i + n] = e /\ b[i] = e
  <2>1. PICK i \in 1 .. Len(b) : b[i] = e
    BY <1>3, Positions
  <2> QED BY <1>3, <2>1
<1>6. \A i \in 1 .. n : i \in 1 .. Len(s)
  BY <1>1
<1>7. \A i \in 1 .. Len(s) - n : i + n \in 1 .. Len(s) /\ i + n > n
  BY <1>1
<1>8. ToSet(a) \subseteq ToSet(s)
  BY <1>4, <1>6, Positions
<1>9. ToSet(b) \subseteq ToSet(s)
  BY <1>5, <1>7, Positions
<1>10. ASSUME IsInjective(s)
       PROVE  IsInjective(a) /\ IsInjective(b) /\ ToSet(a) \cap ToSet(b) = {}
  <2>1. \A i, j \in 1 .. Len(s) : s[i] = s[j] => i = j
    BY <1>10, Positions DEF IsInjective
  <2>2. IsInjective(a)
    <3>1. DOMAIN a = 1 .. n
      BY <1>2, Positions
    <3>2. \A i, j \in 1 .. n : a[i] = a[j] => i = j
      BY <1>2, <1>6, <2>1
    <3> QED BY <3>1, <3>2 DEF IsInjective
  <2>3. IsInjective(b)
    <3>1. DOMAIN b = 1 .. Len(s) - n
      BY <1>3, Positions
    <3>2. ASSUME NEW i \in 1 .. Len(s) - n, NEW j \in 1 .. Len(s) - n, b[i] = b[j] PROVE i = j
      <4>1. i + n = j + n
        BY <1>3, <1>7, <2>1, <3>2
      <4> QED BY <1>1, <4>1
    <3> QED BY <3>1, <3>2 DEF IsInjective
  <2>4. ASSUME NEW e, e \in ToSet(a), e \in ToSet(b) PROVE FALSE
    <3>1. PICK i \in 1 .. n : s[i] = e
      BY <1>4, <2>4
    <3>2. PICK j \in 1 .. Len(s) - n : s[j + n] = e
      BY <1>5, <2>4
    <3>3. i = j + n
      BY <1>6, <1>7, <2>1, <3>1, <3>2
    <3> QED BY <1>1, <3>3
  <2> QED BY <2>2, <2>3, <2>4
<1> QED BY <1>3, <1>8, <1>9, <1>10 DEF a, b

\* Two sequences of which nobody is in both.
LEMMA JoinedOnce ==
    ASSUME NEW S, NEW s \in Seq(S), NEW t \in Seq(S), IsInjective(s), IsInjective(t),
           ToSet(s) \cap ToSet(t) = {}
    PROVE  IsInjective(s \o t)
<1> DEFINE u == s \o t
<1>1. /\ Len(s) \in Nat /\ Len(t) \in Nat
      /\ \A i, j \in 1 .. Len(s) : s[i] = s[j] => i = j
      /\ \A i, j \in 1 .. Len(t) : t[i] = t[j] => i = j
  BY Positions DEF IsInjective
<1>2. \A i \in 1 .. Len(s), j \in 1 .. Len(t) : s[i] # t[j]
  <2>1. \A i \in 1 .. Len(s) : s[i] \in ToSet(s)
    BY Positions
  <2>2. \A j \in 1 .. Len(t) : t[j] \in ToSet(t)
    BY Positions
  <2> QED BY <2>1, <2>2
<1>3. DOMAIN u = 1 .. Len(u)
  BY Joined, Positions
<1>4. \A i \in 1 .. Len(s) : u[i] = s[i]
  BY Joined
<1>5. \A i \in 1 .. Len(u) : \/ i \in 1 .. Len(s)
                             \/ i > Len(s) /\ i - Len(s) \in 1 .. Len(t) /\ u[i] = t[i - Len(s)]
  BY Joined
<1> HIDE DEF u
<1>6. ASSUME NEW i \in 1 .. Len(u), NEW j \in 1 .. Len(u), u[i] = u[j] PROVE i = j
  <2>1. CASE i \in 1 .. Len(s) /\ j \in 1 .. Len(s)
    BY <1>1, <1>4, <1>6, <2>1
  <2>2. CASE i \notin 1 .. Len(s) /\ j \notin 1 .. Len(s)
    <3>1. i - Len(s) = j - Len(s)
      BY <1>1, <1>5, <1>6, <2>2
    <3> QED BY <1>1, <3>1
  <2>3. CASE i \in 1 .. Len(s) /\ j \notin 1 .. Len(s)
    BY <1>2, <1>4, <1>5, <1>6, <2>3
  <2>4. CASE i \notin 1 .. Len(s) /\ j \in 1 .. Len(s)
    BY <1>2, <1>4, <1>5, <1>6, <2>4
  <2> QED BY <2>1, <2>2, <2>3, <2>4
<1> QED BY <1>3, <1>6 DEF IsInjective, u

=============================================================================
