--------------------------- MODULE History_proofs ---------------------------
(* Machine-checked facts about the operators of History, for any capacity   *)
(* and any finite set of objects.                                           *)
EXTENDS History, FiniteSetTheorems, SequenceTheorems, TLAPS

-----------------------------------------------------------------------------
(* Ranks in a finite ordered set *)

\* Of two different elements of A exactly one is before the other by R.
Orders(R, A) ==
  /\ \A a \in A : <<a, a>> \notin R
  /\ \A a, b \in A : a = b \/ <<a, b>> \in R \/ <<b, a>> \in R
  /\ \A a, b, c \in A : <<a, b>> \in R /\ <<b, c>> \in R => <<a, c>> \in R

Predecessors(R, A, a) == {b \in A : <<b, a>> \in R}
RankIn(R, A, a) == Cardinality(Predecessors(R, A, a))

LEMMA PredecessorsFinite ==
  ASSUME NEW A, IsFiniteSet(A), NEW R, NEW a
  PROVE  IsFiniteSet(Predecessors(R, A, a)) /\ RankIn(R, A, a) \in Nat
<1>1. Predecessors(R, A, a) \in SUBSET A BY DEF Predecessors
<1>2. QED BY <1>1, FS_Subset, FS_CardinalityType DEF RankIn

\* What comes later has more predecessors.
LEMMA RankGrows ==
  ASSUME NEW A, IsFiniteSet(A), NEW R, Orders(R, A), NEW a \in A, NEW b \in A, <<a, b>> \in R
  PROVE  RankIn(R, A, a) < RankIn(R, A, b)
<1>1. Predecessors(R, A, a) \in SUBSET Predecessors(R, A, b)
  BY DEF Orders, Predecessors
<1>2. a \in Predecessors(R, A, b) /\ a \notin Predecessors(R, A, a)
  BY DEF Orders, Predecessors
<1>3. IsFiniteSet(Predecessors(R, A, a)) /\ IsFiniteSet(Predecessors(R, A, b))
  BY PredecessorsFinite
<1>4. /\ Cardinality(Predecessors(R, A, a)) <= Cardinality(Predecessors(R, A, b))
      /\ Cardinality(Predecessors(R, A, a)) # Cardinality(Predecessors(R, A, b))
  BY <1>1, <1>2, <1>3, FS_Subset
<1>5. RankIn(R, A, a) \in Nat /\ RankIn(R, A, b) \in Nat BY PredecessorsFinite
<1>6. QED BY <1>4, <1>5 DEF RankIn

\* Every rank below the number of elements is that of exactly one element.
LEMMA RanksAreExact ==
  ASSUME NEW A, IsFiniteSet(A), NEW R, Orders(R, A)
  PROVE  /\ \A a \in A : RankIn(R, A, a) \in 0..(Cardinality(A) - 1)
         /\ \A a, b \in A : RankIn(R, A, a) = RankIn(R, A, b) => a = b
         /\ \A i \in 0..(Cardinality(A) - 1) : \E a \in A : RankIn(R, A, a) = i
<1> DEFINE n == Cardinality(A)
           f == [a \in A |-> RankIn(R, A, a)]
<1>1. n \in Nat BY FS_CardinalityType
<1>2. \A a \in A : RankIn(R, A, a) \in 0..(n - 1)
  <2> TAKE a \in A
  <2>1. Predecessors(R, A, a) \in SUBSET A /\ Predecessors(R, A, a) # A
    BY DEF Predecessors, Orders
  <2>2. Cardinality(Predecessors(R, A, a)) <= n /\ Cardinality(Predecessors(R, A, a)) # n
    BY <2>1, FS_Subset
  <2>3. QED BY <1>1, <2>2, PredecessorsFinite DEF RankIn
<1>3. \A a, b \in A : RankIn(R, A, a) = RankIn(R, A, b) => a = b
  <2> TAKE a, b \in A
  <2>1. RankIn(R, A, a) \in Nat /\ RankIn(R, A, b) \in Nat BY PredecessorsFinite
  <2>2. <<a, b>> \in R => RankIn(R, A, a) < RankIn(R, A, b) BY RankGrows
  <2>3. <<b, a>> \in R => RankIn(R, A, b) < RankIn(R, A, a) BY RankGrows
  <2>4. QED BY <2>1, <2>2, <2>3 DEF Orders
<1>4. f \in Injection(A, 0..(n - 1)) BY <1>2, <1>3 DEF Injection, IsInjective
<1>5. IsFiniteSet(0..(n - 1)) /\ Cardinality(0..(n - 1)) = n
  BY <1>1, FS_Interval
<1>6. f \in Surjection(A, 0..(n - 1)) BY <1>4, <1>5, FS_Injection
<1>7. QED BY <1>2, <1>3, <1>6 DEF Surjection

LEMMA SomeRankIsZero ==
  ASSUME NEW A, IsFiniteSet(A), NEW R, Orders(R, A), A # {}
  PROVE  \E a \in A : RankIn(R, A, a) = 0
<1>1. Cardinality(A) \in Nat /\ Cardinality(A) # 0
  BY FS_CardinalityType, FS_EmptySet
<1>2. 0 \in 0..(Cardinality(A) - 1) BY <1>1
<1>3. QED BY <1>2, RanksAreExact

\* The elements of rank less than n are n, if there are as many.
LEMMA FirstRanks ==
  ASSUME NEW A, IsFiniteSet(A), NEW R, Orders(R, A), NEW n \in Nat, n <= Cardinality(A)
  PROVE  Cardinality({a \in A : RankIn(R, A, a) < n}) = n
<1> DEFINE B == {a \in A : RankIn(R, A, a) < n}
           f == [a \in B |-> RankIn(R, A, a)]
<1>1. Cardinality(A) \in Nat BY FS_CardinalityType
<1>2. f \in [B -> 0..(n - 1)] BY PredecessorsFinite
<1>3. \A a, b \in B : f[a] = f[b] => a = b BY RanksAreExact
<1>4. \A i \in 0..(n - 1) : \E a \in B : f[a] = i
  <2> TAKE i \in 0..(n - 1)
  <2>1. i \in 0..(Cardinality(A) - 1) /\ i < n BY <1>1
  <2>2. PICK a \in A : RankIn(R, A, a) = i BY <2>1, RanksAreExact
  <2>3. QED BY <2>1, <2>2
<1> HIDE DEF f
<1>5. f \in Injection(B, 0..(n - 1)) /\ f \in Surjection(B, 0..(n - 1))
  BY <1>2, <1>3, <1>4 DEF Injection, IsInjective, Surjection
<1>6. IsFiniteSet(0..(n - 1)) /\ Cardinality(0..(n - 1)) = n BY FS_Interval
<1>7. QED BY <1>5, <1>6, FS_Injection

\* The elements by their ranks are a sequence that has each of them once, in the order.
ByRank(R, A) == [i \in 1..Cardinality(A) |-> CHOOSE a \in A : RankIn(R, A, a) = i - 1]

LEMMA RankIsPlace ==
  ASSUME NEW A, IsFiniteSet(A), NEW R, Orders(R, A), NEW s, s = ByRank(R, A)
  PROVE  \A i \in 1..Cardinality(A) : s[i] \in A /\ RankIn(R, A, s[i]) = i - 1
<1>1. Cardinality(A) \in Nat BY FS_CardinalityType
<1> TAKE i \in 1..Cardinality(A)
<1>2. i - 1 \in 0..(Cardinality(A) - 1) BY <1>1
<1>3. \E a \in A : RankIn(R, A, a) = i - 1 BY <1>2, RanksAreExact
<1>4. s[i] = CHOOSE a \in A : RankIn(R, A, a) = i - 1 BY DEF ByRank
<1>5. QED BY <1>3, <1>4

LEMMA RankedSequence ==
  ASSUME NEW A, IsFiniteSet(A), NEW R, Orders(R, A), NEW s, s = ByRank(R, A)
  PROVE  /\ s \in Seq(A) /\ Len(s) = Cardinality(A)
         /\ \A a \in A : \E i \in 1..Len(s) : s[i] = a
         /\ \A i, j \in 1..Len(s) : s[i] = s[j] => i = j
         /\ \A i, j \in 1..Len(s) : i < j => <<s[i], s[j]>> \in R
<1>1. Cardinality(A) \in Nat BY FS_CardinalityType
<1>2. DOMAIN s = 1..Cardinality(A) /\ s = [i \in 1..Cardinality(A) |-> s[i]] BY DEF ByRank
<1>3. \A i \in 1..Cardinality(A) : s[i] \in A /\ RankIn(R, A, s[i]) = i - 1 BY RankIsPlace
<1>4. s \in [1..Cardinality(A) -> A] BY <1>2, <1>3
<1>5. s \in Seq(A) /\ Len(s) = Cardinality(A) BY <1>1, <1>4
<1>6. \A a \in A : \E i \in 1..Len(s) : s[i] = a
  <2> TAKE a \in A
  <2>1. RankIn(R, A, a) \in 0..(Cardinality(A) - 1) BY RanksAreExact
  <2> DEFINE i == RankIn(R, A, a) + 1
  <2>2. i \in 1..Cardinality(A) /\ i - 1 = RankIn(R, A, a) BY <1>1, <2>1
  <2>3. RankIn(R, A, s[i]) = RankIn(R, A, a) /\ s[i] \in A BY <1>3, <2>2
  <2>4. s[i] = a BY <2>3, RanksAreExact
  <2>5. QED BY <1>5, <2>2, <2>4
<1>7. \A i, j \in 1..Len(s) : s[i] = s[j] => i = j BY <1>3, <1>5
<1>8. ASSUME NEW i \in 1..Len(s), NEW j \in 1..Len(s), i < j
      PROVE  <<s[i], s[j]>> \in R
  <2>1. /\ s[i] \in A /\ RankIn(R, A, s[i]) = i - 1
        /\ s[j] \in A /\ RankIn(R, A, s[j]) = j - 1
    BY <1>3, <1>5
  <2>2. s[i] # s[j] BY <1>7, <1>8
  <2>3. CASE <<s[j], s[i]>> \in R
    <3>1. RankIn(R, A, s[j]) < RankIn(R, A, s[i]) BY <2>1, <2>3, RankGrows
    <3>2. QED BY <1>8, <2>1, <3>1
  <2>4. QED BY <2>1, <2>2, <2>3 DEF Orders
<1>9. QED BY <1>5, <1>6, <1>7, <1>8

-----------------------------------------------------------------------------
(* Numbers *)

\* The numbers in their order
Below(A) == {e \in A \X A : e[1] < e[2]}

LEMMA NumbersAreOrdered ==
  ASSUME NEW A \in SUBSET Nat
  PROVE  /\ Orders(Below(A), A)
         /\ \A n \in A : Predecessors(Below(A), A, n) = {m \in A : m < n}
<1>1. \A m, n \in A : <<m, n>> \in Below(A) <=> m < n BY DEF Below
<1>2. \A m, n \in A : m \in Nat /\ n \in Nat OBVIOUS
<1>3. Orders(Below(A), A) BY <1>1, <1>2 DEF Orders
<1>4. QED BY <1>1, <1>3 DEF Predecessors

\* A finite set of numbers has a greatest one.
LEMMA GreatestNumber ==
  ASSUME NEW A \in SUBSET Nat, IsFiniteSet(A), A # {}
  PROVE  Max(A) \in A /\ \A n \in A : n <= Max(A)
<1> DEFINE R == Below(A)
<1>1. Cardinality(A) \in Nat /\ Cardinality(A) # 0
  BY FS_CardinalityType, FS_EmptySet
<1>2. Orders(R, A) BY NumbersAreOrdered
<1>3. PICK m \in A : RankIn(R, A, m) = Cardinality(A) - 1
  BY <1>1, <1>2, RanksAreExact
<1>4. \A n \in A : n <= m
  <2> SUFFICES ASSUME NEW n \in A, ~(n <= m) PROVE FALSE OBVIOUS
  <2>1. <<m, n>> \in R BY DEF Below
  <2>2. RankIn(R, A, m) < RankIn(R, A, n) BY <1>2, <2>1, RankGrows
  <2>3. RankIn(R, A, n) \in 0..(Cardinality(A) - 1) BY <1>2, RanksAreExact
  <2>4. QED BY <1>1, <1>3, <2>2, <2>3
<1>5. \E x \in A : \A n \in A : x >= n BY <1>4
<1>6. Max(A) \in A /\ \A n \in A : Max(A) >= n BY <1>5 DEF Max
<1>7. QED BY <1>6

\* And one that no other precedes.
LEMMA SomeNumberIsFirst ==
  ASSUME NEW A \in SUBSET Nat, IsFiniteSet(A), A # {}
  PROVE  \E m \in A : Cardinality({n \in A : n < m}) = 0
<1> DEFINE R == Below(A)
<1>1. Orders(R, A) BY NumbersAreOrdered
<1>2. \A n \in A : Cardinality({m \in A : m < n}) = RankIn(R, A, n)
  BY NumbersAreOrdered DEF RankIn
<1> HIDE DEF R
<1>3. \E m \in A : RankIn(R, A, m) = 0 BY <1>1, SomeRankIsZero, Zenon
<1>4. QED BY <1>2, <1>3

\* What holds of 0, and with a number of the next one, holds of all.
LEMMA Induction ==
  ASSUME NEW S, 0 \in S, \A n \in Nat : n \in S => n + 1 \in S
  PROVE  Nat \subseteq S
<1> SUFFICES ASSUME NEW m \in Nat, m \notin S PROVE FALSE OBVIOUS
<1> DEFINE A == {n \in 0..m : n \notin S}
<1>1. A \in SUBSET Nat /\ m \in A OBVIOUS
<1>2. IsFiniteSet(A)
  <2>1. IsFiniteSet(0..m) BY FS_Interval
  <2>2. QED BY <2>1, FS_Subset
<1>3. \A n \in A : n \in 0..m /\ n \notin S OBVIOUS
<1>4. \A n \in 0..m : n \notin S => n \in A OBVIOUS
<1> HIDE DEF A
<1>5. PICK k \in A : Cardinality({n \in A : n < k}) = 0 BY <1>1, <1>2, SomeNumberIsFirst
<1>6. {n \in A : n < k} = {}
  <2>1. {n \in A : n < k} \in SUBSET A OBVIOUS
  <2>2. QED BY <1>2, <1>5, <2>1, FS_Subset, FS_EmptySet
<1>7. k # 0 BY <1>3
<1>8. k - 1 \in 0..m /\ k - 1 < k BY <1>3, <1>7
<1>9. k - 1 \in S BY <1>4, <1>6, <1>8
<1>10. k \in S
  <2>1. k - 1 \in Nat /\ (k - 1) + 1 = k BY <1>3, <1>8
  <2>2. QED BY <1>9, <2>1
<1>11. QED BY <1>3, <1>10

-----------------------------------------------------------------------------
(* Objects, the newest first *)

\* Objects no two of which have one key
Keyed(A) ==
  \A o, p \in A : o.key \in Nat /\ o.at \in Nat /\ (o.key = p.key => o = p)

Newer(A, o) == {p \in A : NewestFirst(p, o)}

NewestOrder(A) == {e \in A \X A : NewestFirst(e[1], e[2])}

LEMMA ObjectsAreOrdered ==
  ASSUME NEW A, Keyed(A)
  PROVE  /\ Orders(NewestOrder(A), A)
         /\ \A o \in A : /\ Predecessors(NewestOrder(A), A, o) = Newer(A, o)
                         /\ RankIn(NewestOrder(A), A, o) = Cardinality(Newer(A, o))
<1>1. \A o, p \in A : <<o, p>> \in NewestOrder(A) <=> NewestFirst(o, p)
  BY DEF NewestOrder
<1>2. /\ \A o \in A : ~NewestFirst(o, o)
      /\ \A o, p \in A : o = p \/ NewestFirst(o, p) \/ NewestFirst(p, o)
      /\ \A o, p, q \in A : NewestFirst(o, p) /\ NewestFirst(p, q) => NewestFirst(o, q)
  BY DEF NewestFirst, Keyed
<1>3. Orders(NewestOrder(A), A) BY <1>1, <1>2 DEF Orders
<1>4. \A o \in A : Predecessors(NewestOrder(A), A, o) = Newer(A, o)
  BY <1>1 DEF Predecessors, Newer
<1>5. QED BY <1>3, <1>4 DEF RankIn

LEMMA FirstByRank ==
  ASSUME NEW A, NEW n
  PROVE  First(n, A, NewestFirst) = {o \in A : Cardinality(Newer(A, o)) < n}
BY DEF First, Newer

\* The n newest objects are n, if there are as many.
LEMMA FirstIsFull ==
  ASSUME NEW A, IsFiniteSet(A), Keyed(A), NEW n \in Nat, n <= Cardinality(A)
  PROVE  Cardinality(First(n, A, NewestFirst)) = n
<1>1. First(n, A, NewestFirst) = {o \in A : RankIn(NewestOrder(A), A, o) < n}
  BY FirstByRank, ObjectsAreOrdered
<1>2. QED BY <1>1, ObjectsAreOrdered, FirstRanks

\* Sorting keeps every object, and adds none.
LEMMA OrderedKeeps ==
  ASSUME NEW A, IsFiniteSet(A), Keyed(A)
  PROVE  /\ Ordered(A, NewestFirst) \in Seq(A)
         /\ \A o \in A : \E i \in 1..Len(Ordered(A, NewestFirst)) : Ordered(A, NewestFirst)[i] = o
         /\ \A i, j \in 1..Len(Ordered(A, NewestFirst)) :
              Ordered(A, NewestFirst)[i] = Ordered(A, NewestFirst)[j] => i = j
         /\ Len(Ordered(A, NewestFirst)) = Cardinality(A)
         /\ \A i \in 1..Len(Ordered(A, NewestFirst)) :
              Cardinality(Newer(A, Ordered(A, NewestFirst)[i])) = i - 1
<1>1. \A o \in A : RankIn(NewestOrder(A), A, o) = Cardinality(Newer(A, o))
  BY ObjectsAreOrdered
<1>2. Ordered(A, NewestFirst) = [i \in 1..Cardinality(A) |->
        CHOOSE o \in A : Cardinality(Newer(A, o)) = i - 1]
  BY DEF Ordered, Newer
<1>3. \A n : (CHOOSE o \in A : Cardinality(Newer(A, o)) = n)
             = (CHOOSE o \in A : RankIn(NewestOrder(A), A, o) = n)
  BY <1>1
<1>4. Ordered(A, NewestFirst) = ByRank(NewestOrder(A), A) BY <1>2, <1>3 DEF ByRank
<1> DEFINE s == Ordered(A, NewestFirst)
<1>5. /\ s \in Seq(A) /\ Len(s) = Cardinality(A)
      /\ \A o \in A : \E i \in 1..Len(s) : s[i] = o
      /\ \A i, j \in 1..Len(s) : s[i] = s[j] => i = j
  BY <1>4, ObjectsAreOrdered, RankedSequence
<1> HIDE DEF s
<1>6. \A i \in 1..Len(s) : Cardinality(Newer(A, s[i])) = i - 1
  <2>1. s = ByRank(NewestOrder(A), A) BY <1>4 DEF s
  <2>2. \A i \in 1..Cardinality(A) : s[i] \in A /\ RankIn(NewestOrder(A), A, s[i]) = i - 1
    BY <2>1, ObjectsAreOrdered, RankIsPlace
  <2>3. QED BY <1>1, <1>5, <2>2
<1>7. QED BY <1>5, <1>6 DEF s

\* The oldest object first: every object comes once, and none later than an older one.
Older(A, o) == {p \in A : OldestFirst(p, o)}

OldestOrder(A) == {e \in A \X A : OldestFirst(e[1], e[2])}

LEMMA OldestOrdered ==
  ASSUME NEW A, IsFiniteSet(A), Keyed(A)
  PROVE  /\ Ordered(A, OldestFirst) \in Seq(A)
         /\ Len(Ordered(A, OldestFirst)) = Cardinality(A)
         /\ \A i, j \in 1..Len(Ordered(A, OldestFirst)) :
              i < j => Ordered(A, OldestFirst)[i].at <= Ordered(A, OldestFirst)[j].at
         /\ \A o \in A : \E i \in 1..Len(Ordered(A, OldestFirst)) : Ordered(A, OldestFirst)[i] = o
         /\ \A i, j \in 1..Len(Ordered(A, OldestFirst)) :
              Ordered(A, OldestFirst)[i] = Ordered(A, OldestFirst)[j] => i = j
<1>1. \A o, p \in A : <<o, p>> \in OldestOrder(A) <=> OldestFirst(o, p)
  BY DEF OldestOrder
<1>2. /\ \A o \in A : ~OldestFirst(o, o)
      /\ \A o, p \in A : o = p \/ OldestFirst(o, p) \/ OldestFirst(p, o)
      /\ \A o, p, q \in A : OldestFirst(o, p) /\ OldestFirst(p, q) => OldestFirst(o, q)
  BY DEF OldestFirst, Keyed
<1>3. Orders(OldestOrder(A), A) BY <1>1, <1>2 DEF Orders
<1>4. \A o \in A : RankIn(OldestOrder(A), A, o) = Cardinality(Older(A, o))
  <2>1. \A o \in A : Predecessors(OldestOrder(A), A, o) = Older(A, o)
    BY <1>1 DEF Predecessors, Older
  <2>2. QED BY <2>1 DEF RankIn
<1>5. Ordered(A, OldestFirst) = [i \in 1..Cardinality(A) |->
        CHOOSE o \in A : Cardinality(Older(A, o)) = i - 1]
  BY DEF Ordered, Older
<1>6. \A n : (CHOOSE o \in A : Cardinality(Older(A, o)) = n)
             = (CHOOSE o \in A : RankIn(OldestOrder(A), A, o) = n)
  BY <1>4
<1> DEFINE s == Ordered(A, OldestFirst)
<1>7. s = ByRank(OldestOrder(A), A) BY <1>5, <1>6 DEF ByRank
<1> HIDE DEF s
<1>8. /\ s \in Seq(A) /\ Len(s) = Cardinality(A)
      /\ \A i, j \in 1..Len(s) : i < j => <<s[i], s[j]>> \in OldestOrder(A)
      /\ \A o \in A : \E i \in 1..Len(s) : s[i] = o
      /\ \A i, j \in 1..Len(s) : s[i] = s[j] => i = j
  BY <1>3, <1>7, RankedSequence
<1>9. \A i, j \in 1..Len(s) : i < j => s[i].at <= s[j].at
  <2> SUFFICES ASSUME NEW i \in 1..Len(s), NEW j \in 1..Len(s), i < j
               PROVE  s[i].at <= s[j].at
    OBVIOUS
  <2>1. s[i] \in A /\ s[j] \in A BY <1>8
  <2>2. OldestFirst(s[i], s[j]) BY <1>1, <1>8, <2>1
  <2>3. s[i].at \in Nat /\ s[j].at \in Nat BY <2>1 DEF Keyed
  <2>4. QED BY <2>2, <2>3 DEF OldestFirst
<1>10. QED BY <1>8, <1>9 DEF s

\* The n newest objects keep their ranks among themselves.
LEMMA FirstKeepsRanks ==
  ASSUME NEW A, IsFiniteSet(A), Keyed(A), NEW n \in Nat
  PROVE  LET F == First(n, A, NewestFirst)
         IN  /\ F \in SUBSET A /\ IsFiniteSet(F) /\ Keyed(F)
             /\ Cardinality(F) = IF n <= Cardinality(A) THEN n ELSE Cardinality(A)
             /\ \A o \in F : Newer(F, o) = Newer(A, o)
<1> DEFINE F == First(n, A, NewestFirst)
           Place(o) == Cardinality(Newer(A, o))
<1>1. F = {o \in A : Place(o) < n} BY FirstByRank
<1>2. Cardinality(A) \in Nat BY FS_CardinalityType
<1>3. /\ \A o \in A : Place(o) \in 0..(Cardinality(A) - 1)
      /\ \A p, o \in A : NewestFirst(p, o) => Place(p) < Place(o)
  <2>1. Orders(NewestOrder(A), A) /\ \A o \in A : RankIn(NewestOrder(A), A, o) = Place(o)
    BY ObjectsAreOrdered
  <2>2. \A o \in A : RankIn(NewestOrder(A), A, o) \in 0..(Cardinality(A) - 1)
    BY <2>1, RanksAreExact
  <2>3. \A p, o \in A : <<p, o>> \in NewestOrder(A) =>
          RankIn(NewestOrder(A), A, p) < RankIn(NewestOrder(A), A, o)
    BY <2>1, RankGrows
  <2>4. \A p, o \in A : NewestFirst(p, o) => <<p, o>> \in NewestOrder(A) BY DEF NewestOrder
  <2> HIDE DEF Place
  <2>5. QED BY <2>1, <2>2, <2>3, <2>4
<1> HIDE DEF Place, F
<1>4. F \in SUBSET A BY <1>1
<1>5. IsFiniteSet(F) /\ Keyed(F) BY <1>4, FS_Subset DEF Keyed
<1>6. Cardinality(F) = IF n <= Cardinality(A) THEN n ELSE Cardinality(A)
  <2>1. CASE n <= Cardinality(A) BY <2>1, FirstIsFull DEF F
  <2>2. CASE ~(n <= Cardinality(A))
    <3>1. F = A BY <1>1, <1>2, <1>3, <2>2
    <3>2. QED BY <2>2, <3>1
  <2>3. QED BY <2>1, <2>2
<1>7. \A o \in F : Newer(F, o) = Newer(A, o)
  <2> TAKE o \in F
  <2>1. \A p \in A : NewestFirst(p, o) => p \in F BY <1>1, <1>2, <1>3
  <2>2. QED BY <1>4, <2>1 DEF Newer
<1>8. QED BY <1>4, <1>5, <1>6, <1>7 DEF F

\* From one end of the objects the times are those from the other end.
LEMMA OppositeOrders ==
  ASSUME NEW A, IsFiniteSet(A), Keyed(A), NEW D, D = Ordered(A, NewestFirst),
         NEW U, U = Ordered(A, OldestFirst), NEW j \in 1..Cardinality(A)
  PROVE  D[j].at = U[Cardinality(A) - j + 1].at
<1> DEFINE n == Cardinality(A)
           m == n - j + 1
<1>1. n \in Nat /\ m \in 1..n BY FS_CardinalityType
<1>2. /\ Len(D) = n /\ \A i \in 1..n : D[i] \in A
      /\ \A o \in A : \E i \in 1..n : D[i] = o
      /\ \A i \in 1..n : Cardinality(Newer(A, D[i])) = i - 1
  <2>1. D \in Seq(A) /\ Len(D) = n BY OrderedKeeps
  <2>2. \A o \in A : \E i \in 1..Len(D) : D[i] = o BY OrderedKeeps
  <2>3. \A i \in 1..Len(D) : Cardinality(Newer(A, D[i])) = i - 1 BY OrderedKeeps
  <2> HIDE DEF n
  <2>4. \A i \in 1..Len(D) : D[i] \in A BY <2>1
  <2>5. QED BY <2>1, <2>2, <2>3, <2>4
<1>3. /\ Len(U) = n /\ \A i \in 1..n : U[i] \in A
      /\ \A i, k \in 1..n : i < k => U[i].at <= U[k].at
      /\ \A i, k \in 1..n : U[i] = U[k] => i = k
  BY OldestOrdered
<1>4. \A o \in A : o.at \in Nat BY DEF Keyed
<1>5. \A i, k \in 1..n : i < k => D[i].at >= D[k].at
  <2> SUFFICES ASSUME NEW i \in 1..n, NEW k \in 1..n, i < k, D[k].at > D[i].at PROVE FALSE
    BY <1>2, <1>4
  <2>1. D[i] \in A /\ D[k] \in A BY <1>2
  <2>2. <<D[k], D[i]>> \in NewestOrder(A) BY <2>1 DEF NewestOrder, NewestFirst
  <2>3. RankIn(NewestOrder(A), A, D[k]) < RankIn(NewestOrder(A), A, D[i])
    BY <2>1, <2>2, ObjectsAreOrdered, RankGrows
  <2>4. RankIn(NewestOrder(A), A, D[k]) = k - 1 /\ RankIn(NewestOrder(A), A, D[i]) = i - 1
    BY <1>2, <2>1, ObjectsAreOrdered
  <2>5. QED BY <2>3, <2>4
<1> DEFINE d == [i \in 1..n |-> CHOOSE k \in 1..n : D[k] = U[i]]
<1>6. \A i \in 1..n : d[i] \in 1..n /\ D[d[i]] = U[i]
  <2> TAKE i \in 1..n
  <2>1. \E k \in 1..n : D[k] = U[i] BY <1>2, <1>3
  <2>2. QED BY <2>1
<1> HIDE DEF d
<1>7. \A i, k \in 1..n : d[i] = d[k] => i = k
  <2> SUFFICES ASSUME NEW i \in 1..n, NEW k \in 1..n, d[i] = d[k] PROVE i = k OBVIOUS
  <2>1. U[i] = U[k] BY <1>6
  <2>2. QED BY <1>3, <2>1
<1>8. \A S, T : S \in SUBSET (1..n) /\ IsFiniteSet(T) /\ (\A i \in S : d[i] \in T)
        => Cardinality(S) <= Cardinality(T)
  <2> SUFFICES ASSUME NEW S \in SUBSET (1..n), NEW T, IsFiniteSet(T), \A i \in S : d[i] \in T
               PROVE  Cardinality(S) <= Cardinality(T)
    OBVIOUS
  <2> DEFINE e == [i \in S |-> d[i]]
  <2>1. e \in Injection(S, T) BY <1>7 DEF Injection, IsInjective
  <2>2. QED BY <2>1, FS_Injection
<1>9. D[j].at \in Nat /\ U[m].at \in Nat BY <1>1, <1>2, <1>3, <1>4
<1> HIDE DEF n
<1>10. j \in Nat /\ 1 <= j /\ j <= n BY DEF n
<1>11. ~(U[m].at > D[j].at)
  <2> SUFFICES ASSUME U[m].at > D[j].at PROVE FALSE OBVIOUS
  <2>1. ASSUME NEW i \in m..n PROVE d[i] \in 1..(j - 1)
    <3>1. i \in 1..n BY <1>1
    <3>2. d[i] \in 1..n /\ D[d[i]] = U[i] BY <1>6, <3>1
    <3>3. U[i].at \in Nat BY <1>3, <1>4, <3>1
    <3>4. U[i].at >= U[m].at
      <4>1. CASE i = m BY <1>9, <4>1
      <4>2. CASE m < i BY <1>1, <1>3, <3>1, <4>2
      <4>3. QED BY <1>1, <4>1, <4>2
    <3>5. ASSUME ~(d[i] < j) PROVE FALSE
      <4>1. D[j].at >= D[d[i]].at BY <1>5, <1>9, <1>10, <3>2, <3>5
      <4>2. QED BY <1>9, <3>2, <3>3, <3>4, <4>1
    <3>6. QED BY <1>10, <3>2, <3>5
  <2>2. Cardinality(m..n) = j /\ Cardinality(1..(j - 1)) = j - 1 /\ IsFiniteSet(1..(j - 1))
    <3>1. Cardinality(m..n) = j BY <1>1, <1>10, FS_Interval
    <3>2. 1 \in Int /\ j - 1 \in Int /\ (1 > j - 1 => j - 1 = 0) BY <1>10
    <3>3. /\ IsFiniteSet(1..(j - 1))
          /\ Cardinality(1..(j - 1)) = IF 1 > j - 1 THEN 0 ELSE (j - 1) - 1 + 1
      <4>1. 1 \in Int /\ j - 1 \in Int BY <3>2
      <4>2. QED BY <4>1, FS_Interval
    <3>4. (j - 1) - 1 + 1 = j - 1 BY <1>10
    <3>5. QED BY <3>1, <3>2, <3>3, <3>4
  <2>3. m..n \in SUBSET (1..n) BY <1>1
  <2>4. Cardinality(m..n) <= Cardinality(1..(j - 1)) BY <1>8, <2>1, <2>2, <2>3
  <2>5. QED BY <1>10, <2>2, <2>4
<1>12. ~(U[m].at < D[j].at)
  <2> SUFFICES ASSUME U[m].at < D[j].at PROVE FALSE OBVIOUS
  <2>1. ASSUME NEW i \in 1..m PROVE d[i] \in (j + 1)..n
    <3>1. i \in 1..n BY <1>1
    <3>2. d[i] \in 1..n /\ D[d[i]] = U[i] BY <1>6, <3>1
    <3>3. U[i].at \in Nat BY <1>3, <1>4, <3>1
    <3>4. U[i].at <= U[m].at
      <4>1. CASE i = m BY <1>9, <4>1
      <4>2. CASE i < m BY <1>1, <1>3, <3>1, <4>2
      <4>3. QED BY <1>1, <4>1, <4>2
    <3>5. ASSUME ~(d[i] > j) PROVE FALSE
      <4>1. D[d[i]].at >= D[j].at BY <1>5, <1>9, <1>10, <3>2, <3>5
      <4>2. QED BY <1>9, <3>2, <3>3, <3>4, <4>1
    <3>6. QED BY <1>10, <3>2, <3>5
  <2>2. /\ Cardinality(1..m) = m /\ Cardinality((j + 1)..n) = n - j
        /\ IsFiniteSet((j + 1)..n)
    <3>1. Cardinality(1..m) = m BY <1>1, <1>10, FS_Interval
    <3>2. j + 1 \in Int /\ n \in Int /\ (j + 1 > n => n - j = 0) BY <1>1, <1>10
    <3>3. /\ IsFiniteSet((j + 1)..n)
          /\ Cardinality((j + 1)..n) = IF j + 1 > n THEN 0 ELSE n - (j + 1) + 1
      <4>1. j + 1 \in Int /\ n \in Int BY <3>2
      <4>2. QED BY <4>1, FS_Interval
    <3>4. n - (j + 1) + 1 = n - j BY <1>1, <1>10
    <3>5. QED BY <3>1, <3>2, <3>3, <3>4
  <2>3. 1..m \in SUBSET (1..n) BY <1>1
  <2>4. Cardinality(1..m) <= Cardinality((j + 1)..n) BY <1>8, <2>1, <2>2, <2>3
  <2>5. QED BY <1>1, <1>10, <2>2, <2>4
<1>13. QED BY <1>9, <1>11, <1>12 DEF n

-----------------------------------------------------------------------------
(* Histories *)

\* A map from keys to the objects of these keys
IsStore(f) ==
  /\ IsFiniteSet(DOMAIN f)
  /\ \A k \in DOMAIN f : k \in Nat /\ f[k].key = k /\ f[k].at \in Nat

LEMMA StoreObjects ==
  ASSUME NEW f, IsStore(f)
  PROVE  Keyed(Objects(f)) /\ IsFiniteSet(Objects(f))
<1>1. Keyed(Objects(f)) BY DEF IsStore, Keyed, Objects
<1> DEFINE g == [k \in DOMAIN f |-> f[k]]
<1>2. g \in Surjection(DOMAIN f, Objects(f)) BY DEF Surjection, Objects
<1>3. IsFiniteSet(Objects(f)) BY <1>2, FS_Surjection DEF IsStore
<1>4. QED BY <1>1, <1>3

\* The keys of what a history retains
Kept(f) == {k \in DOMAIN f : Cardinality(Newer(Objects(f), f[k])) < Capacity}

LEMMA RetainedIsKept ==
  ASSUME NEW f, IsStore(f)
  PROVE  Retained(f) = [k \in Kept(f) |-> f[k]]
<1> DEFINE kept == First(Capacity, Objects(f), NewestFirst)
<1>1. kept = {o \in Objects(f) : Cardinality(Newer(Objects(f), o)) < Capacity}
  BY FirstByRank
<1>2. {o.key : o \in kept} = Kept(f)
  <2>1. \A o \in kept : o.key \in DOMAIN f /\ f[o.key] = o BY <1>1 DEF Objects, IsStore
  <2>2. \A k \in Kept(f) : f[k] \in kept /\ f[k].key = k BY <1>1 DEF Kept, Objects, IsStore
  <2>3. \A o \in kept : o.key \in Kept(f) BY <1>1, <2>1 DEF Kept
  <2>4. QED BY <2>2, <2>3
<1>3. Retained(f) = [k \in {o.key : o \in kept} |-> f[k]] BY DEF Retained
<1>4. QED BY <1>2, <1>3

\* Observing objects again, not earlier than before, or more of them, leaves no fewer
\* that are newer than a given one.
LEMMA NewerGrows ==
  ASSUME NEW f, IsStore(f), NEW A, Keyed(A), NEW o,
         \A p \in A : NewestFirst(p, o) =>
           p.key \in DOMAIN f /\ NewestFirst(f[p.key], o)
  PROVE  IsFiniteSet(Newer(A, o)) /\ Cardinality(Newer(A, o)) <= Cardinality(Newer(Objects(f), o))
<1> DEFINE g == [p \in Newer(A, o) |-> f[p.key]]
<1>1. \A p \in Newer(A, o) : /\ f[p.key] \in Newer(Objects(f), o)
                             /\ f[p.key].key = p.key
  BY DEF Newer, Objects, IsStore
<1>2. \A p, q \in Newer(A, o) : p.key = q.key => p = q BY DEF Newer, Keyed
<1>3. g \in Injection(Newer(A, o), Newer(Objects(f), o))
  BY <1>1, <1>2 DEF Injection, IsInjective
<1>4. IsFiniteSet(Newer(Objects(f), o))
  <2>1. Newer(Objects(f), o) \in SUBSET Objects(f) BY DEF Newer
  <2>2. QED BY <2>1, StoreObjects, FS_Subset
<1>5. QED BY <1>3, <1>4, FS_Injection

\* Two histories retain the same objects if the second knows every object of the first
\* at its time or later, and the first knows what the second retains.
LEMMA SameRetained ==
  ASSUME NEW f, IsStore(f), NEW g, IsStore(g),
         \A k \in DOMAIN f : k \in DOMAIN g /\ f[k].at <= g[k].at,
         \A k \in Kept(g) : k \in DOMAIN f /\ f[k] = g[k]
  PROVE  Retained(f) = Retained(g)
<1> USE HistoryAssumption
<1>1. Keyed(Objects(f)) /\ Keyed(Objects(g)) /\ IsFiniteSet(Objects(f)) /\ IsFiniteSet(Objects(g))
  BY StoreObjects
<1>2. \A k \in Kept(g) : k \in Kept(f)
  <2> TAKE k \in Kept(g)
  <2>1. k \in DOMAIN f /\ f[k] = g[k] /\ k \in DOMAIN g BY DEF Kept
  <2>2. \A p \in Objects(f) : NewestFirst(p, f[k]) => p.key \in DOMAIN g /\ NewestFirst(g[p.key], f[k])
    <3> SUFFICES ASSUME NEW j \in DOMAIN f, NewestFirst(f[j], f[k])
                 PROVE  j \in DOMAIN g /\ NewestFirst(g[j], f[k])
      BY DEF Objects, IsStore
    <3>1. QED BY <2>1 DEF NewestFirst, IsStore
  <2>3. Cardinality(Newer(Objects(f), f[k])) <= Cardinality(Newer(Objects(g), f[k]))
        /\ IsFiniteSet(Newer(Objects(f), f[k]))
    BY <1>1, <2>2, NewerGrows
  <2>4. Cardinality(Newer(Objects(g), f[k])) < Capacity BY <2>1 DEF Kept
  <2>5. IsFiniteSet(Newer(Objects(g), f[k]))
    BY <1>1, FS_Subset DEF Newer
  <2>6. Cardinality(Newer(Objects(f), f[k])) \in Nat /\ Cardinality(Newer(Objects(g), f[k])) \in Nat
    BY <2>3, <2>5, FS_CardinalityType
  <2>7. QED BY <2>1, <2>3, <2>4, <2>6 DEF Kept
<1>3. \A k \in Kept(f) : k \in Kept(g)
  <2> SUFFICES ASSUME NEW k \in Kept(f), k \notin Kept(g) PROVE FALSE OBVIOUS
  <2> DEFINE T == First(Capacity, Objects(g), NewestFirst)
  <2>1. k \in DOMAIN f /\ k \in DOMAIN g /\ f[k].at <= g[k].at BY DEF Kept
  <2>2. T = {q \in Objects(g) : Cardinality(Newer(Objects(g), q)) < Capacity}
    BY FirstByRank
  <2>3. \A q \in Objects(g) : Cardinality(Newer(Objects(g), q)) \in 0..(Cardinality(Objects(g)) - 1)
    BY <1>1, ObjectsAreOrdered, RanksAreExact
  <2>4. g[k] \in Objects(g) /\ Cardinality(Newer(Objects(g), g[k])) >= Capacity
    BY <2>1, <2>3 DEF Kept, Objects
  <2>5. Cardinality(Objects(g)) \in Nat BY <1>1, FS_CardinalityType
  <2>6. Capacity <= Cardinality(Objects(g)) BY <2>3, <2>4, <2>5
  <2>7. Cardinality(T) = Capacity BY <1>1, <2>6, FirstIsFull
  <2> HIDE DEF T
  <2>8. T \in SUBSET Newer(Objects(f), f[k])
    <3> SUFFICES ASSUME NEW q \in T PROVE q \in Newer(Objects(f), f[k]) OBVIOUS
    <3>1. q \in Objects(g) /\ Cardinality(Newer(Objects(g), q)) < Capacity BY <2>2
    <3>2. q.key \in Kept(g) /\ g[q.key] = q BY <3>1 DEF Objects, IsStore, Kept
    <3>3. q.key \in DOMAIN f /\ f[q.key] = q BY <3>2
    <3>4. NewestFirst(q, g[k])
      <4>1. q # g[k] BY <2>3, <2>4, <3>1
      <4>2. ~NewestFirst(g[k], q)
        <5> SUFFICES ASSUME NewestFirst(g[k], q) PROVE FALSE OBVIOUS
        <5>1. <<g[k], q>> \in NewestOrder(Objects(g)) BY <2>4, <3>1 DEF NewestOrder
        <5>2. RankIn(NewestOrder(Objects(g)), Objects(g), g[k])
                < RankIn(NewestOrder(Objects(g)), Objects(g), q)
          BY <1>1, <2>4, <3>1, <5>1, ObjectsAreOrdered, RankGrows
        <5>3. Cardinality(Newer(Objects(g), g[k])) < Cardinality(Newer(Objects(g), q))
          BY <1>1, <2>4, <3>1, <5>2, ObjectsAreOrdered
        <5>4. QED BY <2>3, <2>4, <3>1, <5>3
      <4>3. /\ q.key \in Nat /\ q.at \in Nat /\ g[k].key \in Nat /\ g[k].at \in Nat
            /\ q.key # g[k].key
        BY <1>1, <2>4, <3>1, <4>1 DEF Keyed
      <4>4. QED BY <4>2, <4>3 DEF NewestFirst
    <3>5. NewestFirst(q, f[k])
      <4>1. /\ q.at \in Nat /\ q.key \in Nat /\ f[k].key = g[k].key
            /\ f[k].at \in Nat /\ g[k].at \in Nat
        BY <2>1, <3>3 DEF IsStore
      <4>2. QED BY <2>1, <3>4, <4>1 DEF NewestFirst
    <3>6. QED BY <3>3, <3>5 DEF Newer, Objects
  <2>9. IsFiniteSet(Newer(Objects(f), f[k])) BY <1>1, FS_Subset DEF Newer
  <2>10. Capacity <= Cardinality(Newer(Objects(f), f[k])) BY <2>7, <2>8, <2>9, FS_Subset
  <2>11. QED BY <2>9, <2>10, FS_CardinalityType DEF Kept
<1>4. Kept(f) = Kept(g) /\ \A k \in Kept(f) : f[k] = g[k] BY <1>2, <1>3
<1>5. QED BY <1>4, RetainedIsKept

\* No more is retained than the capacity.
LEMMA RetainedFits ==
  ASSUME NEW f, IsStore(f)
  PROVE  Cardinality(Objects(Retained(f))) <= Capacity
<1> USE HistoryAssumption
<1> DEFINE A == Objects(f)
           F == First(Capacity, A, NewestFirst)
<1>1. IsFiniteSet(A) /\ Keyed(A) BY StoreObjects
<1>2. F \in SUBSET A /\ Cardinality(F) <= Capacity /\ IsFiniteSet(F)
  <2>1. /\ F \in SUBSET A /\ IsFiniteSet(F)
        /\ Cardinality(F) = IF Capacity <= Cardinality(A) THEN Capacity ELSE Cardinality(A)
    BY <1>1, FirstKeepsRanks
  <2>2. Cardinality(A) \in Nat BY <1>1, FS_CardinalityType
  <2>3. QED BY <2>1, <2>2
<1>3. Retained(f) = [k \in {o.key : o \in F} |-> f[k]] BY DEF Retained
<1> HIDE DEF F
<1>4. \A o \in F : f[o.key] = o BY <1>2 DEF Objects, IsStore
<1>5. Objects(Retained(f)) = F BY <1>3, <1>4 DEF Objects
<1>6. QED BY <1>2, <1>5

Observations == [key : Nat, at : Nat, size : Nat]

\* Of the observations of one key in a listing the last one counts.
LEMMA IncomingIsLast ==
  ASSUME NEW listing \in Seq(Observations)
  PROVE  /\ IsStore(Incoming(listing))
         /\ DOMAIN Incoming(listing) = {listing[i].key : i \in 1..Len(listing)}
         /\ \A k \in DOMAIN Incoming(listing) : \E i \in 1..Len(listing) :
              /\ listing[i].key = k /\ Incoming(listing)[k] = listing[i]
              /\ \A j \in 1..Len(listing) : listing[j].key = k => j <= i
<1> DEFINE keys == {listing[i].key : i \in 1..Len(listing)}
           Places(k) == {i \in 1..Len(listing) : listing[i].key = k}
<1>1. Len(listing) \in Nat /\ DOMAIN listing = 1..Len(listing) OBVIOUS
<1>2. Incoming(listing) = [k \in keys |-> listing[Max(Places(k))]]
  BY <1>1 DEF Incoming
<1>3. ASSUME NEW k \in keys
      PROVE  Max(Places(k)) \in Places(k) /\ \A j \in Places(k) : j <= Max(Places(k))
  <2>1. IsFiniteSet(1..Len(listing)) BY <1>1, FS_Interval
  <2>2. Places(k) \in SUBSET (1..Len(listing)) /\ Places(k) # {} BY <1>3
  <2> HIDE DEF Places
  <2>3. IsFiniteSet(Places(k)) /\ Places(k) \in SUBSET Nat BY <1>1, <2>1, <2>2, FS_Subset
  <2>4. QED BY <2>2, <2>3, GreatestNumber
<1>4. IsFiniteSet(keys)
  <2> DEFINE f == [i \in 1..Len(listing) |-> listing[i].key]
  <2>1. f \in Surjection(1..Len(listing), keys) BY DEF Surjection
  <2>2. IsFiniteSet(1..Len(listing)) BY <1>1, FS_Interval
  <2>3. QED BY <2>1, <2>2, FS_Surjection
<1>5. \A k \in keys : /\ listing[Max(Places(k))] \in Observations
                      /\ listing[Max(Places(k))].key = k
  <2>1. \A i \in 1..Len(listing) : listing[i] \in Observations OBVIOUS
  <2>2. \A k \in keys : \A i \in Places(k) : i \in 1..Len(listing) /\ listing[i].key = k
    OBVIOUS
  <2> HIDE DEF keys, Places
  <2>3. QED BY <1>3, <2>1, <2>2
<1>6. IsStore(Incoming(listing))
  BY <1>2, <1>4, <1>5 DEF IsStore, Observations
<1>7. QED BY <1>2, <1>3, <1>6

LEMMA OverlayIsStore ==
  ASSUME NEW f, IsStore(f), NEW g, IsStore(g)
  PROVE  IsStore(Overlay(f, g))
BY FS_Union DEF IsStore, Overlay

LEMMA RetainedIsStore ==
  ASSUME NEW f, IsStore(f)
  PROVE  IsStore(Retained(f)) /\ DOMAIN Retained(f) \subseteq DOMAIN f
<1>1. Kept(f) \in SUBSET DOMAIN f BY DEF Kept
<1>2. IsFiniteSet(Kept(f)) BY <1>1, FS_Subset DEF IsStore
<1>3. QED BY <1>1, <1>2, RetainedIsKept DEF IsStore

\* What an update reports as added, updated and evicted is the difference between the
\* history before and after it.
LEMMA UpsertReportsTheDifference ==
  ASSUME NEW old, IsStore(old), NEW listing \in Seq(Observations),
         NEW update, update = Upsert(old, listing)
  PROVE  /\ {c.object : c \in update.changes} = Objects(update.history) \ Objects(old)
         /\ \A c \in update.changes :
              /\ c.object.key \in DOMAIN update.history
              /\ update.history[c.object.key] = c.object
              /\ c.previous = IF c.object.key \in DOMAIN old THEN {old[c.object.key]} ELSE {}
         /\ {o.key : o \in update.evicted} = DOMAIN old \ DOMAIN update.history
<1> DEFINE incoming == Incoming(listing)
           merged == Merged(old, listing)
           new == Retained(merged)
           news == Changed(old, listing) \cap DOMAIN new
<1>1. IsStore(incoming) /\ IsStore(merged)
  BY IncomingIsLast, OverlayIsStore DEF Merged
<1>2. IsStore(new) /\ DOMAIN new \subseteq DOMAIN merged BY <1>1, RetainedIsStore
<1>3. \A k \in DOMAIN new : new[k] = merged[k]
  BY <1>1, RetainedIsKept
<1>4. /\ DOMAIN merged = DOMAIN incoming \cup DOMAIN old
      /\ \A k \in DOMAIN merged :
           merged[k] = IF k \in DOMAIN incoming THEN incoming[k] ELSE old[k]
  BY DEF Merged, Overlay
<1>5. \A k \in DOMAIN merged :
        k \in Changed(old, listing) <=> (k \in DOMAIN old => old[k] # merged[k])
  BY <1>4 DEF Changed
<1> DEFINE Change == [k \in news |->
             [kind     |-> IF k \in DOMAIN old THEN "updated" ELSE "added",
              object   |-> merged[k],
              previous |-> IF k \in DOMAIN old THEN {old[k]} ELSE {}]]
<1>6. /\ update.history = new
      /\ update.changes = {Change[k] : k \in news}
      /\ update.evicted = {merged[k] : k \in DOMAIN old \ DOMAIN new}
  BY DEF Upsert
<1> HIDE DEF incoming, merged, new
<1>7. \A k \in DOMAIN merged : merged[k].key = k BY <1>1 DEF IsStore
<1>8. \A k \in news : /\ Change[k].object = merged[k]
                      /\ Change[k].previous = IF k \in DOMAIN old THEN {old[k]} ELSE {}
  OBVIOUS
<1> HIDE DEF Change
<1>9. {c.object : c \in update.changes} = {merged[k] : k \in news}
  <2>1. \A c \in update.changes : \E k \in news : c = Change[k] BY <1>6
  <2>2. \A k \in news : Change[k] \in update.changes BY <1>6
  <2> HIDE DEF news
  <2>3. ASSUME NEW c \in update.changes PROVE \E k \in news : c.object = merged[k]
    <3>1. PICK k \in news : c = Change[k] BY <2>1
    <3>2. QED BY <1>8, <3>1
  <2>4. \A k \in news : \E c \in update.changes : c.object = merged[k] BY <1>8, <2>2
  <2>5. QED BY <2>3, <2>4
<1>10. {merged[k] : k \in news} = Objects(new) \ Objects(old)
  <2>1. \A k \in news : merged[k] \in Objects(new) \ Objects(old)
    BY <1>2, <1>3, <1>5, <1>7 DEF Objects, IsStore
  <2>2. \A o \in Objects(new) \ Objects(old) : \E k \in news : o = merged[k]
    BY <1>2, <1>3, <1>5 DEF Objects
  <2>3. QED BY <2>1, <2>2
<1>11. \A c \in update.changes :
         /\ c.object.key \in DOMAIN new /\ new[c.object.key] = c.object
         /\ c.previous = IF c.object.key \in DOMAIN old THEN {old[c.object.key]} ELSE {}
  <2>1. \A c \in update.changes : \E k \in news : c = Change[k] BY <1>6
  <2>2. \A k \in news : /\ Change[k].object.key = k /\ k \in DOMAIN new
                        /\ new[k] = Change[k].object
    BY <1>2, <1>3, <1>7, <1>8
  <2> HIDE DEF news
  <2>3. SUFFICES ASSUME NEW c \in update.changes
                 PROVE  /\ c.object.key \in DOMAIN new /\ new[c.object.key] = c.object
                        /\ c.previous = IF c.object.key \in DOMAIN old THEN {old[c.object.key]}
                                        ELSE {}
    OBVIOUS
  <2>4. PICK k \in news : c = Change[k] BY <2>1
  <2>5. QED BY <1>8, <2>2, <2>4
<1>12. {o.key : o \in update.evicted} = DOMAIN old \ DOMAIN new
  BY <1>4, <1>6, <1>7
<1>13. QED BY <1>6, <1>9, <1>10, <1>11, <1>12

-----------------------------------------------------------------------------
(* Sums *)

Chosen(T) == CHOOSE x \in T : TRUE

\* g adds up f over the sets of D, as the fold does.
Sums(f, D, g) ==
  g = [T \in D |-> IF T = {} THEN 0 ELSE f[Chosen(T)] + g[T \ {Chosen(T)}]]

LEMMA WithoutOne ==
  ASSUME NEW T, IsFiniteSet(T), NEW x \in T
  PROVE  /\ IsFiniteSet(T \ {x}) /\ Cardinality(T) \in Nat \ {0}
         /\ Cardinality(T \ {x}) = Cardinality(T) - 1
<1>1. IsFiniteSet(T \ {x}) /\ Cardinality(T \ {x}) = Cardinality(T) - 1
  BY FS_RemoveElement
<1>2. Cardinality(T) \in Nat /\ Cardinality(T) # 0 BY FS_CardinalityType, FS_EmptySet
<1>3. QED BY <1>1, <1>2

LEMMA ChosenIsElement == ASSUME NEW T, T # {} PROVE Chosen(T) \in T
BY DEF Chosen

\* There is such a sum, for every finite set.
LEMMA SumsExist ==
  ASSUME NEW S, IsFiniteSet(S), NEW f
  PROVE  \E g : Sums(f, SUBSET S, g)
<1> DEFINE Sized(n) == {T \in SUBSET S : Cardinality(T) <= n}
           Step(g, T) == IF T = {} THEN 0 ELSE f[Chosen(T)] + g[T \ {Chosen(T)}]
           P == {n \in Nat : \E g : Sums(f, Sized(n), g)}
<1>1. \A T \in SUBSET S : IsFiniteSet(T) /\ Cardinality(T) \in Nat
  BY FS_Subset, FS_CardinalityType
<1>2. 0 \in P
  <2>1. \A T \in Sized(0) : T = {} BY <1>1, FS_EmptySet
  <2>2. Sums(f, Sized(0), [T \in Sized(0) |-> 0])
    <3> HIDE DEF Sized
    <3>1. QED BY <2>1 DEF Sums
  <2>3. QED BY <2>2
<1>3. ASSUME NEW n \in Nat, n \in P PROVE n + 1 \in P
  <2>1. PICK g : Sums(f, Sized(n), g) BY <1>3
  <2>2. \A T \in Sized(n) : g[T] = Step(g, T) BY <2>1 DEF Sums
  <2> DEFINE h == [T \in Sized(n + 1) |-> Step(g, T)]
  <2>3. \A T \in Sized(n + 1) : h[T] = Step(g, T) OBVIOUS
  <2>4. \A T \in Sized(n) : T \in Sized(n + 1) /\ h[T] = g[T] BY <1>1, <2>2
  <2>5. ASSUME NEW T \in Sized(n + 1), T # {} PROVE T \ {Chosen(T)} \in Sized(n)
    <3>1. Chosen(T) \in T /\ T \in SUBSET S /\ Cardinality(T) <= n + 1
      BY <2>5, ChosenIsElement
    <3>2. IsFiniteSet(T) /\ Cardinality(T) \in Nat BY <1>1, <3>1
    <3>3. Cardinality(T \ {Chosen(T)}) = Cardinality(T) - 1 BY <3>1, <3>2, WithoutOne
    <3>4. QED BY <3>1, <3>2, <3>3
  <2> HIDE DEF Sized
  <2>6. ASSUME NEW T \in Sized(n + 1) PROVE h[T] = Step(h, T)
    <3>1. CASE T = {} BY <2>3, <3>1
    <3>2. CASE T # {}
      <4>1. T \ {Chosen(T)} \in Sized(n) BY <2>5, <3>2
      <4>2. h[T \ {Chosen(T)}] = g[T \ {Chosen(T)}] BY <2>4, <4>1
      <4> HIDE DEF h
      <4>3. QED BY <2>3, <4>2
    <3>3. QED BY <3>1, <3>2
  <2>7. h = [T \in Sized(n + 1) |-> h[T]] OBVIOUS
  <2> HIDE DEF h
  <2>8. h = [T \in Sized(n + 1) |-> Step(h, T)] BY <2>6, <2>7
  <2>9. Sums(f, Sized(n + 1), h) BY <2>8 DEF Sums
  <2>10. QED BY <2>9
<1>4. Cardinality(S) \in P
  <2> HIDE DEF P
  <2>1. Nat \subseteq P BY <1>2, <1>3, Induction
  <2>2. QED BY <2>1, FS_CardinalityType
<1>5. Sized(Cardinality(S)) = SUBSET S BY FS_Subset
<1> HIDE DEF Sized
<1>6. QED BY <1>4, <1>5

\* The sum is the same, whatever the larger set it is a part of.
LEMMA SumsAgree ==
  ASSUME NEW f, NEW A, NEW B, NEW g, NEW h, Sums(f, SUBSET A, g), Sums(f, SUBSET B, h),
         NEW T, T \in SUBSET A, T \in SUBSET B, IsFiniteSet(T)
  PROVE  g[T] = h[T]
<1> DEFINE P == {n \in Nat : \A U \in SUBSET T : Cardinality(U) = n => g[U] = h[U]}
<1>1. \A U \in SUBSET T : IsFiniteSet(U) /\ Cardinality(U) \in Nat
  BY FS_Subset, FS_CardinalityType
<1>2. \A U \in SUBSET T :
        /\ g[U] = IF U = {} THEN 0 ELSE f[Chosen(U)] + g[U \ {Chosen(U)}]
        /\ h[U] = IF U = {} THEN 0 ELSE f[Chosen(U)] + h[U \ {Chosen(U)}]
  <2>1. \A U \in SUBSET A : g[U] = IF U = {} THEN 0 ELSE f[Chosen(U)] + g[U \ {Chosen(U)}]
    BY DEF Sums
  <2>2. \A U \in SUBSET B : h[U] = IF U = {} THEN 0 ELSE f[Chosen(U)] + h[U \ {Chosen(U)}]
    BY DEF Sums
  <2>3. QED BY <2>1, <2>2
<1>3. 0 \in P BY <1>1, <1>2, FS_EmptySet
<1>4. ASSUME NEW n \in Nat, n \in P PROVE n + 1 \in P
  <2> SUFFICES ASSUME NEW U \in SUBSET T, Cardinality(U) = n + 1 PROVE g[U] = h[U] OBVIOUS
  <2>1. U # {} BY <1>1, FS_EmptySet
  <2>2. Chosen(U) \in U BY <2>1, ChosenIsElement
  <2>3. Cardinality(U \ {Chosen(U)}) = n BY <1>1, <2>2, WithoutOne
  <2>4. g[U \ {Chosen(U)}] = h[U \ {Chosen(U)}] BY <1>4, <2>3
  <2>5. QED BY <1>2, <2>1, <2>4
<1>5. Cardinality(T) \in P
  <2> HIDE DEF P
  <2>1. Nat \subseteq P BY <1>3, <1>4, Induction
  <2>2. QED BY <2>1, FS_CardinalityType
<1>6. QED BY <1>5

\* The equation of the fold
LEMMA SumOfChosen ==
  ASSUME NEW T, IsFiniteSet(T), NEW f
  PROVE  SumFunctionOnSet(f, T)
           = IF T = {} THEN 0 ELSE f[Chosen(T)] + SumFunctionOnSet(f, T \ {Chosen(T)})
<1> DEFINE G(D) == CHOOSE g : Sums(f, D, g)
<1>1. \A U : SumFunctionOnSet(f, U) = G(SUBSET U)[U]
  BY DEF SumFunctionOnSet, FoldFunctionOnSet, MapThenFoldSet, Sums, Chosen
<1>2. Sums(f, SUBSET T, G(SUBSET T)) BY SumsExist
<1> HIDE DEF G
<1>3. T \in SUBSET T OBVIOUS
<1>4. G(SUBSET T)[T] = IF T = {} THEN 0 ELSE f[Chosen(T)] + G(SUBSET T)[T \ {Chosen(T)}]
  BY <1>2, <1>3 DEF Sums
<1>5. CASE T = {} BY <1>1, <1>4, <1>5
<1>6. CASE T # {}
  <2> DEFINE U == T \ {Chosen(T)}
  <2>1. IsFiniteSet(U) /\ U \in SUBSET T /\ U \in SUBSET U BY <1>6, ChosenIsElement, WithoutOne
  <2>2. Sums(f, SUBSET U, G(SUBSET U)) BY <2>1, SumsExist DEF G
  <2> HIDE DEF U
  <2>3. G(SUBSET T)[U] = G(SUBSET U)[U] BY <1>2, <2>1, <2>2, SumsAgree
  <2>4. SumFunctionOnSet(f, U) = G(SUBSET T)[U] BY <1>1, <2>3
  <2>5. QED BY <1>1, <1>4, <1>6, <2>4 DEF U
<1>7. QED BY <1>5, <1>6

\* Any element may be added first, or last.
LEMMA SumOfOne ==
  ASSUME NEW S, IsFiniteSet(S), NEW f, \A x \in S : f[x] \in Int
  PROVE  /\ SumFunctionOnSet(f, S) \in Int
         /\ \A x \in S : SumFunctionOnSet(f, S) = f[x] + SumFunctionOnSet(f, S \ {x})
<1> DEFINE Sum(T) == SumFunctionOnSet(f, T)
           Good(T) == Sum(T) \in Int /\ \A x \in T : Sum(T) = f[x] + Sum(T \ {x})
           P == {n \in Nat : \A T \in SUBSET S : Cardinality(T) <= n => Good(T)}
<1>1. \A T \in SUBSET S : IsFiniteSet(T) /\ Cardinality(T) \in Nat
  BY FS_Subset, FS_CardinalityType
<1>2. \A T \in SUBSET S : Sum(T) = IF T = {} THEN 0 ELSE f[Chosen(T)] + Sum(T \ {Chosen(T)})
  BY <1>1, SumOfChosen
<1> HIDE DEF Sum
<1>0. Good({})
  <2>1. {} \in SUBSET S OBVIOUS
  <2>2. Sum({}) = 0 BY <1>2, <2>1
  <2>3. QED BY <2>2
<1>3. 0 \in P
  <2> SUFFICES ASSUME NEW T \in SUBSET S, Cardinality(T) <= 0 PROVE Good(T) OBVIOUS
  <2>1. T = {} BY <1>1, FS_EmptySet
  <2>2. QED BY <1>0, <2>1
<1>4. ASSUME NEW n \in Nat, n \in P PROVE n + 1 \in P
  <2> SUFFICES ASSUME NEW T \in SUBSET S, Cardinality(T) <= n + 1, T # {} PROVE Good(T)
    BY <1>0
  <2> DEFINE c == Chosen(T)
  <2>1. T # {} OBVIOUS
  <2>2. c \in T BY <2>1, ChosenIsElement
  <2>3. \A x \in T : T \ {x} \in SUBSET S /\ Cardinality(T \ {x}) <= n BY <1>1, WithoutOne
  <2>4. \A x \in T : Good(T \ {x}) BY <1>4, <2>3
  <2> HIDE DEF c
  <2>5. Sum(T) = f[c] + Sum(T \ {c}) BY <1>2, <2>1 DEF c
  <2>6. Sum(T) \in Int BY <2>2, <2>4, <2>5
  <2>7. ASSUME NEW x \in T PROVE Sum(T) = f[x] + Sum(T \ {x})
    <3>1. CASE x = c BY <2>5, <3>1
    <3>2. CASE x # c
      <4> DEFINE U == (T \ {c}) \ {x}
      <4>1. (T \ {x}) \ {c} = U /\ x \in T \ {c} /\ c \in T \ {x} BY <2>2, <3>2
      <4>2. Sum(T \ {c}) = f[x] + Sum(U) BY <2>2, <2>4, <4>1
      <4>3. Sum(T \ {x}) = f[c] + Sum(U) BY <2>4, <4>1
      <4>4. Sum(U) \in Int
        <5>1. IsFiniteSet(T \ {c}) /\ Cardinality(T \ {c}) <= n BY <1>1, <2>2, <2>3
        <5>2. U \in SUBSET S /\ Cardinality(U) <= n
          <6>1. U \in SUBSET S /\ U \in SUBSET (T \ {c}) OBVIOUS
          <6>2. Cardinality(U) <= Cardinality(T \ {c}) BY <5>1, <6>1, FS_Subset
          <6>3. Cardinality(U) \in Nat /\ Cardinality(T \ {c}) \in Nat BY <1>1, <2>2, <2>3, <6>1
          <6>4. QED BY <5>1, <6>1, <6>2, <6>3
        <5>3. Good(U) BY <1>4, <5>2
        <5>4. QED BY <5>3
      <4> HIDE DEF U
      <4>5. QED BY <2>2, <2>5, <4>2, <4>3, <4>4
    <3>3. QED BY <3>1, <3>2
  <2>8. QED BY <2>6, <2>7
<1>5. Cardinality(S) \in P
  <2> HIDE DEF P
  <2>1. Nat \subseteq P BY <1>3, <1>4, Induction
  <2>2. QED BY <2>1, FS_CardinalityType
<1>6. QED BY <1>5 DEF Sum
LEMMA SumOfNone == ASSUME NEW f PROVE SumFunctionOnSet(f, {}) = 0
BY SumOfChosen, FS_EmptySet

\* Equal values in another arrangement add up to the same.
LEMMA SumRearranged ==
  ASSUME NEW S, IsFiniteSet(S), NEW f, NEW g, NEW b,
         \A x, y \in S : b[x] = b[y] => x = y,
         \A x \in S : f[x] \in Int /\ g[b[x]] = f[x]
  PROVE  SumFunctionOnSet(g, {b[x] : x \in S}) = SumFunctionOnSet(f, S)
<1> DEFINE Image(T) == {b[x] : x \in T}
           P == {n \in Nat : \A T \in SUBSET S : Cardinality(T) = n =>
                               SumFunctionOnSet(g, Image(T)) = SumFunctionOnSet(f, T)}
<1>1. \A T \in SUBSET S : IsFiniteSet(T) /\ Cardinality(T) \in Nat
  BY FS_Subset, FS_CardinalityType
<1>2. 0 \in P
  <2> SUFFICES ASSUME NEW T \in SUBSET S, Cardinality(T) = 0
               PROVE  SumFunctionOnSet(g, Image(T)) = SumFunctionOnSet(f, T)
    OBVIOUS
  <2>1. T = {} /\ Image(T) = {} BY <1>1, FS_EmptySet
  <2>2. QED BY <2>1, SumOfNone
<1>3. ASSUME NEW n \in Nat, n \in P PROVE n + 1 \in P
  <2> SUFFICES ASSUME NEW T \in SUBSET S, Cardinality(T) = n + 1
               PROVE  SumFunctionOnSet(g, Image(T)) = SumFunctionOnSet(f, T)
    OBVIOUS
  <2>1. T # {} BY <1>1, FS_EmptySet
  <2>2. PICK x \in T : TRUE BY <2>1
  <2>3. T \ {x} \in SUBSET S /\ Cardinality(T \ {x}) = n BY <1>1, WithoutOne
  <2>4. SumFunctionOnSet(g, Image(T \ {x})) = SumFunctionOnSet(f, T \ {x}) BY <1>3, <2>3
  <2>5. SumFunctionOnSet(f, T) = f[x] + SumFunctionOnSet(f, T \ {x}) BY <1>1, SumOfOne
  <2>6. b[x] \in Image(T) /\ Image(T) \ {b[x]} = Image(T \ {x}) /\ g[b[x]] = f[x] OBVIOUS
  <2>7. IsFiniteSet(Image(T))
    <3> DEFINE m == [y \in T |-> b[y]]
    <3>1. m \in Surjection(T, Image(T)) BY DEF Surjection
    <3>2. IsFiniteSet(T) BY <1>1
    <3>3. QED BY <3>1, <3>2, FS_Surjection
  <2>8. \A y \in Image(T) : g[y] \in Int OBVIOUS
  <2> HIDE DEF Image
  <2>9. SumFunctionOnSet(g, Image(T)) = g[b[x]] + SumFunctionOnSet(g, Image(T) \ {b[x]})
    BY <2>6, <2>7, <2>8, SumOfOne
  <2>10. QED BY <2>4, <2>5, <2>6, <2>9
<1>4. Cardinality(S) \in P
  <2> HIDE DEF P
  <2>1. Nat \subseteq P BY <1>2, <1>3, Induction
  <2>2. QED BY <2>1, FS_CardinalityType
<1>5. QED BY <1>4

\* The differences between neighbours add up to that of the two ends.
LEMMA SumOfSteps ==
  ASSUME NEW n \in Nat, NEW v, \A i \in 1..(n + 1) : v[i] \in Int,
         NEW d, \A i \in 1..n : d[i] = v[i + 1] - v[i]
  PROVE  SumFunctionOnSet(d, 1..n) = v[n + 1] - v[1]
<1> DEFINE P == {k \in Nat : k <= n => SumFunctionOnSet(d, 1..k) = v[k + 1] - v[1]}
<1>1. 0 \in P
  <2>1. 1..0 = {} /\ v[1] \in Int OBVIOUS
  <2>2. SumFunctionOnSet(d, 1..0) = 0 BY <2>1, SumOfNone
  <2>3. QED BY <2>1, <2>2
<1>2. ASSUME NEW k \in Nat, k \in P PROVE k + 1 \in P
  <2> SUFFICES ASSUME k + 1 <= n PROVE SumFunctionOnSet(d, 1..(k + 1)) = v[k + 2] - v[1]
    OBVIOUS
  <2>1. /\ k + 1 \in 1..n /\ (1..(k + 1)) \ {k + 1} = 1..k
        /\ k + 1 \in 1..(n + 1) /\ k + 2 \in 1..(n + 1) /\ 1 \in 1..(n + 1)
        /\ (k + 1) + 1 = k + 2
    OBVIOUS
  <2>2. \A i \in 1..(k + 1) : d[i] \in Int
    <3> SUFFICES ASSUME NEW i \in 1..(k + 1) PROVE d[i] \in Int OBVIOUS
    <3>1. i \in 1..n /\ i \in 1..(n + 1) /\ i + 1 \in 1..(n + 1) OBVIOUS
    <3>2. QED BY <3>1
  <2>3. IsFiniteSet(1..(k + 1)) BY FS_Interval
  <2>4. SumFunctionOnSet(d, 1..(k + 1)) = d[k + 1] + SumFunctionOnSet(d, 1..k)
    <3> DEFINE K == 1..(k + 1)
    <3>1. k + 1 \in K /\ K \ {k + 1} = 1..k BY <2>1
    <3> HIDE DEF K
    <3>2. SumFunctionOnSet(d, K) = d[k + 1] + SumFunctionOnSet(d, K \ {k + 1})
      BY <2>2, <2>3, <3>1, SumOfOne DEF K
    <3>3. QED BY <3>1, <3>2 DEF K
  <2>5. SumFunctionOnSet(d, 1..k) = v[k + 1] - v[1] BY <1>2
  <2>6. d[k + 1] = v[k + 2] - v[k + 1] BY <2>1
  <2>7. v[1] \in Int /\ v[k + 1] \in Int /\ v[k + 2] \in Int BY <2>1
  <2>8. QED BY <2>4, <2>5, <2>6, <2>7
<1>3. n \in P
  <2> HIDE DEF P
  <2>1. QED BY <1>1, <1>2, Induction
<1>4. QED BY <1>3

LEMMA TotalIsSum == ASSUME NEW s PROVE Total(s) = SumFunctionOnSet(s, DOMAIN s)
BY DEF Total, FoldSeq, FoldFunction, SumFunctionOnSet

-----------------------------------------------------------------------------
(* Sorting numbers *)

LEMMA RangeSize ==
  ASSUME NEW a \in Int, NEW b \in Int, a <= b + 1
  PROVE  IsFiniteSet(a..b) /\ Cardinality(a..b) = b - a + 1
<1>1. IsFiniteSet(a..b) /\ Cardinality(a..b) = (IF a > b THEN 0 ELSE b - a + 1)
  BY FS_Interval
<1>2. QED BY <1>1

Numbered(v) == {<<v[i], i>> : i \in DOMAIN v}
Precedes(a, b) == a[1] < b[1] \/ (a[1] = b[1] /\ a[2] < b[2])
NumberedOrder(v) == {e \in Numbered(v) \X Numbered(v) : Precedes(e[1], e[2])}

LEMMA NumberedIsOrdered ==
  ASSUME NEW v \in Seq(Int)
  PROVE  /\ IsFiniteSet(Numbered(v)) /\ Cardinality(Numbered(v)) = Len(v)
         /\ Orders(NumberedOrder(v), Numbered(v))
         /\ Ordered(Numbered(v), Precedes) = ByRank(NumberedOrder(v), Numbered(v))
<1> DEFINE A == Numbered(v)
           f == [i \in 1..Len(v) |-> <<v[i], i>>]
<1>1. Len(v) \in Nat /\ DOMAIN v = 1..Len(v) /\ \A i \in 1..Len(v) : v[i] \in Int OBVIOUS
<1>2. \A a \in A : a[1] \in Int /\ a[2] \in Int /\ a = <<a[1], a[2]>>
  BY <1>1 DEF Numbered
<1>3. f \in Injection(1..Len(v), A) /\ f \in Surjection(1..Len(v), A)
  BY <1>1 DEF Injection, IsInjective, Surjection, Numbered
<1>4. IsFiniteSet(1..Len(v)) /\ Cardinality(1..Len(v)) = Len(v) - 1 + 1
  <2>1. 1 \in Int /\ Len(v) \in Int /\ 1 <= Len(v) + 1 BY <1>1
  <2>2. QED BY ONLY <2>1, RangeSize
<1>5. IsFiniteSet(A) /\ Cardinality(A) = Len(v) BY <1>3, <1>4, FS_Surjection
<1> HIDE DEF A, f
<1>6. \A a, b \in A : <<a, b>> \in NumberedOrder(v) <=> Precedes(a, b)
  BY DEF NumberedOrder, A
<1>7. /\ \A a \in A : ~Precedes(a, a)
      /\ \A a, b \in A : a = b \/ Precedes(a, b) \/ Precedes(b, a)
      /\ \A a, b, c \in A : Precedes(a, b) /\ Precedes(b, c) => Precedes(a, c)
  BY <1>2 DEF Precedes
<1>8. Orders(NumberedOrder(v), A) BY <1>6, <1>7 DEF Orders
<1>9. \A a \in A : RankIn(NumberedOrder(v), A, a) = Cardinality({b \in A : Precedes(b, a)})
  <2>1. \A a \in A : Predecessors(NumberedOrder(v), A, a) = {b \in A : Precedes(b, a)}
    BY <1>6 DEF Predecessors
  <2>2. QED BY <2>1 DEF RankIn
<1>10. \A n : (CHOOSE a \in A : Cardinality({b \in A : Precedes(b, a)}) = n)
              = (CHOOSE a \in A : RankIn(NumberedOrder(v), A, a) = n)
  BY <1>9
<1>11. Ordered(A, Precedes) = ByRank(NumberedOrder(v), A)
  <2>1. Ordered(A, Precedes) = [i \in 1..Cardinality(A) |->
          CHOOSE a \in A : Cardinality({b \in A : Precedes(b, a)}) = i - 1]
    BY DEF Ordered
  <2>2. QED BY <1>10, <2>1 DEF ByRank
<1>12. QED BY <1>5, <1>8, <1>11 DEF A

\* The values of a sequence in ascending order
Rising(w) == w \in Seq(Int) /\ \A i, j \in 1..Len(w) : i < j => w[i] <= w[j]

Places(v, S) == {i \in 1..Len(v) : v[i] \in S}

\* Sorting rearranges the values: w[i] is what v has at p[i].
Rearranges(p, v, w) ==
  /\ \A i \in 1..Len(v) : p[i] \in 1..Len(v) /\ w[i] = v[p[i]]
  /\ \A k \in 1..Len(v) : \E i \in 1..Len(v) : p[i] = k
  /\ \A i, j \in 1..Len(v) : p[i] = p[j] => i = j

LEMMA AscendingRearranges ==
  ASSUME NEW v \in Seq(Int)
  PROVE  /\ Rising(Ascending(v)) /\ Len(Ascending(v)) = Len(v)
         /\ \E p : Rearranges(p, v, Ascending(v))
<1> DEFINE A == Numbered(v)
           s == Ordered(A, Precedes)
           w == Ascending(v)
           n == Len(v)
<1>1. n \in Nat /\ DOMAIN v = 1..n /\ \A i \in 1..n : v[i] \in Int OBVIOUS
<1>2. w = [i \in 1..n |-> s[i][1]] BY <1>1 DEF Ascending, Precedes, Numbered
<1>3. /\ s \in Seq(A) /\ Len(s) = n
      /\ \A a \in A : \E i \in 1..n : s[i] = a
      /\ \A i, j \in 1..n : s[i] = s[j] => i = j
      /\ \A i, j \in 1..n : i < j => <<s[i], s[j]>> \in NumberedOrder(v)
  <2>1. s = ByRank(NumberedOrder(v), A) /\ Cardinality(A) = n BY NumberedIsOrdered
  <2> HIDE DEF s, n
  <2>2. IsFiniteSet(A) /\ Orders(NumberedOrder(v), A) BY NumberedIsOrdered
  <2> HIDE DEF A
  <2>3. /\ s \in Seq(A) /\ Len(s) = Cardinality(A)
        /\ \A a \in A : \E i \in 1..Len(s) : s[i] = a
        /\ \A i, j \in 1..Len(s) : s[i] = s[j] => i = j
        /\ \A i, j \in 1..Len(s) : i < j => <<s[i], s[j]>> \in NumberedOrder(v)
    BY <2>1, <2>2, RankedSequence
  <2>4. Len(s) = n BY <2>1, <2>3
  <2>5. QED BY <2>3, <2>4
<1> HIDE DEF s, w
<1> DEFINE p == [i \in 1..n |-> s[i][2]]
<1>4. \A i \in 1..n : /\ p[i] \in 1..n /\ s[i] = <<v[p[i]], p[i]>>
                      /\ w[i] = v[p[i]]
  <2> TAKE i \in 1..n
  <2>1. s[i] \in A BY <1>1, <1>3
  <2>2. PICK k \in 1..n : s[i] = <<v[k], k>> BY <1>1, <2>1 DEF Numbered
  <2>3. QED BY <1>2, <2>2
<1>5. \A k \in 1..n : \E i \in 1..n : p[i] = k
  <2> TAKE k \in 1..n
  <2>1. <<v[k], k>> \in A BY <1>1 DEF Numbered
  <2>2. PICK i \in 1..n : s[i] = <<v[k], k>> BY <1>3, <2>1
  <2>3. QED BY <2>2
<1> HIDE DEF p
<1>6. \A i, j \in 1..n : p[i] = p[j] => i = j
  <2> SUFFICES ASSUME NEW i \in 1..n, NEW j \in 1..n, p[i] = p[j] PROVE i = j OBVIOUS
  <2>1. s[i] = <<v[p[i]], p[i]>> /\ s[j] = <<v[p[j]], p[j]>> BY <1>4
  <2>2. s[i] = s[j] BY <2>1
  <2>3. QED BY <1>3, <2>2
<1>7. w \in [1..n -> Int] BY <1>1, <1>2, <1>4
<1>8. w \in Seq(Int) /\ Len(w) = n BY <1>1, <1>7
<1>9. \A i, j \in 1..n : i < j => w[i] <= w[j]
  <2> SUFFICES ASSUME NEW i \in 1..n, NEW j \in 1..n, i < j PROVE w[i] <= w[j] OBVIOUS
  <2>1. Precedes(s[i], s[j]) BY <1>3 DEF NumberedOrder
  <2>2. s[i][1] = w[i] /\ s[j][1] = w[j] /\ w[i] \in Int /\ w[j] \in Int
    BY <1>2, <1>7
  <2>3. QED BY <2>1, <2>2 DEF Precedes
<1>10. Rearranges(p, v, w) BY <1>4, <1>5, <1>6 DEF Rearranges
<1>11. QED BY <1>8, <1>9, <1>10 DEF w, Rising

\* Sorting leaves the number of values in any range as it is.
LEMMA AscendingSorts ==
  ASSUME NEW v \in Seq(Int)
  PROVE  /\ Rising(Ascending(v)) /\ Len(Ascending(v)) = Len(v)
         /\ \A i \in 1..Len(v) : \E j \in 1..Len(v) : Ascending(v)[i] = v[j]
         /\ \A S : Cardinality(Places(v, S)) = Cardinality(Places(Ascending(v), S))
<1> DEFINE w == Ascending(v)
           n == Len(v)
<1>1. n \in Nat OBVIOUS
<1>2. Rising(w) /\ Len(w) = n BY AscendingRearranges
<1>3. PICK p : Rearranges(p, v, w) BY AscendingRearranges
<1> HIDE DEF w
<1>4. \A i \in 1..n : p[i] \in 1..n /\ w[i] = v[p[i]] BY <1>3 DEF Rearranges
<1>5. \A k \in 1..n : \E i \in 1..n : p[i] = k BY <1>3 DEF Rearranges
<1>6. \A i, j \in 1..n : p[i] = p[j] => i = j BY <1>3 DEF Rearranges
<1>10. ASSUME NEW S PROVE Cardinality(Places(v, S)) = Cardinality(Places(w, S))
  <2> DEFINE g == [i \in Places(w, S) |-> p[i]]
  <2>1. g \in Injection(Places(w, S), Places(v, S))
    BY <1>4, <1>6, <1>2 DEF Places, Injection, IsInjective
  <2>2. g \in Surjection(Places(w, S), Places(v, S))
    BY <1>4, <1>5, <1>2, <2>1 DEF Places, Surjection, Injection
  <2>3. IsFiniteSet(Places(v, S))
    <3>1. IsFiniteSet(1..n) BY <1>1, FS_Interval
    <3>2. Places(v, S) \in SUBSET (1..n) BY DEF Places
    <3>3. QED BY <3>1, <3>2, FS_Subset
  <2>4. QED BY <2>1, <2>2, <2>3, FS_Injection
<1>11. QED BY <1>2, <1>4, <1>10 DEF w

\* Sorting keeps the sum.
LEMMA AscendingTotal ==
  ASSUME NEW v \in Seq(Int)
  PROVE  Total(Ascending(v)) = Total(v)
<1> DEFINE w == Ascending(v)
           n == Len(v)
<1>1. n \in Nat /\ DOMAIN v = 1..n OBVIOUS
<1>2. w \in Seq(Int) /\ Len(w) = n BY AscendingRearranges DEF Rising
<1>3. PICK p : Rearranges(p, v, w) BY AscendingRearranges
<1> HIDE DEF w
<1>4. \A i \in 1..n : p[i] \in 1..n /\ w[i] \in Int /\ v[p[i]] = w[i]
  BY <1>2, <1>3 DEF Rearranges
<1>5. {p[i] : i \in 1..n} = 1..n
  <2>1. \A k \in 1..n : \E i \in 1..n : p[i] = k BY <1>3 DEF Rearranges
  <2> HIDE DEF n
  <2>2. QED BY <1>4, <2>1
<1>6. \A i, j \in 1..n : p[i] = p[j] => i = j BY <1>3 DEF Rearranges
<1>7. IsFiniteSet(1..n) BY <1>1, FS_Interval
<1>8. SumFunctionOnSet(v, {p[i] : i \in 1..n}) = SumFunctionOnSet(w, 1..n)
  <2>1. PICK S : S = 1..n OBVIOUS
  <2>2. IsFiniteSet(S) /\ (\A i, j \in S : p[i] = p[j] => i = j)
        /\ \A i \in S : w[i] \in Int /\ v[p[i]] = w[i]
    BY <1>4, <1>6, <1>7, <2>1
  <2>3. SumFunctionOnSet(v, {p[i] : i \in S}) = SumFunctionOnSet(w, S)
    BY <2>2, SumRearranged
  <2>4. QED BY <2>1, <2>3
<1>9. Total(v) = SumFunctionOnSet(v, 1..n) BY <1>1, TotalIsSum
<1>10. Total(w) = SumFunctionOnSet(w, 1..n)
  <2>1. DOMAIN w = 1..n BY <1>2
  <2>2. QED BY <2>1, TotalIsSum
<1>11. QED BY <1>5, <1>8, <1>9, <1>10 DEF w

\* The value at rank k and k - 1 others are not above it, the others are not below it.
LEMMA RankCounts ==
  ASSUME NEW w, Rising(w), NEW k \in 1..Len(w), NEW x \in Int
  PROVE  /\ w[k] <= x => Cardinality({i \in 1..Len(w) : w[i] <= x}) >= k
         /\ x <= w[k] => Cardinality({i \in 1..Len(w) : w[i] >= x}) >= Len(w) - k + 1
         /\ x < w[k] => Cardinality({i \in 1..Len(w) : w[i] <= x}) <= k - 1
<1> DEFINE n == Len(w)
           Low == {i \in 1..n : w[i] <= x}
           High == {i \in 1..n : w[i] >= x}
<1>1. /\ n \in Nat /\ \A i \in 1..n : w[i] \in Int
      /\ \A i, j \in 1..n : i < j => w[i] <= w[j]
  BY DEF Rising
<1>2. \A i \in 1..n : (i <= k => w[i] <= w[k]) /\ (k <= i => w[k] <= w[i]) BY <1>1
<1>3. /\ IsFiniteSet(1..n) /\ IsFiniteSet(1..k) /\ Cardinality(1..k) = k
      /\ IsFiniteSet(k..n) /\ Cardinality(k..n) = n - k + 1
      /\ IsFiniteSet(1..(k - 1)) /\ Cardinality(1..(k - 1)) = k - 1
  <2>1. /\ k \in Int /\ k - 1 \in Int /\ n \in Int /\ 1 <= n + 1 /\ 1 <= k + 1
        /\ k <= n + 1 /\ 1 <= k - 1 + 1 /\ k - 1 + 1 = k /\ k - 1 - 1 + 1 = k - 1
    BY <1>1
  <2> HIDE DEF n
  <2>2. IsFiniteSet(1..n) BY <2>1, RangeSize
  <2>3. IsFiniteSet(1..k) /\ Cardinality(1..k) = k - 1 + 1 BY <2>1, RangeSize
  <2>4. IsFiniteSet(k..n) /\ Cardinality(k..n) = n - k + 1 BY <2>1, RangeSize
  <2>5. IsFiniteSet(1..(k - 1)) /\ Cardinality(1..(k - 1)) = k - 1 - 1 + 1 BY <2>1, RangeSize
  <2>6. QED BY <2>1, <2>2, <2>3, <2>4, <2>5
<1>4. IsFiniteSet(Low) /\ IsFiniteSet(High)
  <2>1. Low \in SUBSET (1..n) /\ High \in SUBSET (1..n) OBVIOUS
  <2>2. QED BY <1>3, <2>1, FS_Subset
<1>5. ASSUME w[k] <= x PROVE Cardinality(Low) >= k
  <2>1. 1..k \in SUBSET Low BY <1>1, <1>2, <1>5
  <2> HIDE DEF Low
  <2>2. QED BY <1>3, <1>4, <2>1, FS_Subset, FS_CardinalityType
<1>6. ASSUME x <= w[k] PROVE Cardinality(High) >= n - k + 1
  <2>1. k..n \in SUBSET High BY <1>1, <1>2, <1>6
  <2> HIDE DEF High
  <2>2. Cardinality(k..n) <= Cardinality(High) BY <1>4, <2>1, FS_Subset
  <2>3. Cardinality(High) \in Nat BY <1>4, FS_CardinalityType
  <2>4. QED BY <1>1, <1>3, <2>2, <2>3
<1>7. ASSUME x < w[k] PROVE Cardinality(Low) <= k - 1
  <2>1. Low \in SUBSET (1..(k - 1)) BY <1>1, <1>2, <1>7
  <2> HIDE DEF Low
  <2>2. Cardinality(Low) <= Cardinality(1..(k - 1)) BY <1>3, <2>1, FS_Subset
  <2>3. QED BY <1>3, <2>2
<1>8. QED BY <1>5, <1>6, <1>7

\* Half of the values lie on either side of the median, and it is one of them or between
\* two.
LEMMA MedianIsCentral ==
  ASSUME NEW w, Rising(w), w # <<>>
  PROVE  /\ Median(w) \in Int /\ w[1] <= Median(w) /\ Median(w) <= w[Len(w)]
         /\ 2 * Cardinality({i \in 1..Len(w) : w[i] <= Median(w)}) >= Len(w)
         /\ 2 * Cardinality({i \in 1..Len(w) : w[i] >= Median(w)}) >= Len(w)
<1>1. PICK n \in Nat : n = Len(w) /\ n > 0 BY DEF Rising
<1>2. /\ \A i \in 1..n : w[i] \in Int
      /\ \A i, j \in 1..n : i < j => w[i] <= w[j]
  BY <1>1 DEF Rising
<1>3. PICK h \in Nat : h = n \div 2 /\ 2 * h <= n /\ n <= 2 * h + 1
                       /\ (n % 2 = 1 <=> n = 2 * h + 1)
  BY <1>1
<1>4. \E lo, hi \in 1..n : /\ w[lo] <= Median(w) /\ Median(w) <= w[hi] /\ Median(w) \in Int
                           /\ 2 * lo >= n /\ 2 * (n - hi + 1) >= n
  <2>1. CASE n % 2 = 1
    <3>1. Median(w) = w[h + 1] BY <1>1, <1>3, <2>1 DEF Median
    <3>2. h + 1 \in 1..n /\ 2 * (h + 1) >= n /\ 2 * (n - (h + 1) + 1) >= n BY <1>3, <2>1
    <3>3. QED BY <1>2, <3>1, <3>2
  <2>2. CASE n % 2 # 1
    <3>1. Median(w) = (w[h] + w[h + 1]) \div 2 BY <1>1, <1>3, <2>2 DEF Median
    <3>2. /\ h \in 1..n /\ h + 1 \in 1..n /\ 2 * h >= n /\ 2 * (n - (h + 1) + 1) >= n
      BY <1>1, <1>3, <2>2
    <3>3. w[h] \in Int /\ w[h + 1] \in Int /\ w[h] <= w[h + 1] BY <1>2, <3>2
    <3>4. /\ Median(w) \in Int /\ w[h] <= Median(w) /\ Median(w) <= w[h + 1] BY <3>1, <3>3
    <3>5. QED BY <3>2, <3>4
  <2>3. QED BY <2>1, <2>2
<1>5. PICK lo \in 1..n, hi \in 1..n :
        /\ w[lo] <= Median(w) /\ Median(w) <= w[hi] /\ Median(w) \in Int
        /\ 2 * lo >= n /\ 2 * (n - hi + 1) >= n
  BY <1>4
<1>6. /\ Cardinality({i \in 1..Len(w) : w[i] <= Median(w)}) >= lo
      /\ Cardinality({i \in 1..Len(w) : w[i] >= Median(w)}) >= n - hi + 1
  BY <1>1, <1>5, RankCounts
<1>7. /\ Cardinality({i \in 1..Len(w) : w[i] <= Median(w)}) \in Nat
      /\ Cardinality({i \in 1..Len(w) : w[i] >= Median(w)}) \in Nat
  <2>1. IsFiniteSet(1..Len(w)) BY <1>1, FS_Interval
  <2>2. /\ {i \in 1..Len(w) : w[i] <= Median(w)} \in SUBSET (1..Len(w))
        /\ {i \in 1..Len(w) : w[i] >= Median(w)} \in SUBSET (1..Len(w))
    OBVIOUS
  <2>3. QED BY <2>1, <2>2, FS_Subset, FS_CardinalityType
<1>8. w[1] <= w[lo] /\ w[hi] <= w[n] /\ 1 \in 1..n /\ n \in 1..n BY <1>1, <1>2, <1>5
<1>9. w[1] <= Median(w) /\ Median(w) <= w[n] BY <1>2, <1>5, <1>8
<1>10. QED BY <1>1, <1>5, <1>6, <1>7, <1>9

\* The 95th percentile is one of the values, not exceeded by 95 in 100 of them, and the
\* least such value.
LEMMA PercentileIsLeast ==
  ASSUME NEW w, Rising(w), w # <<>>
  PROVE  /\ \E k \in 1..Len(w) : Percentile95(w) = w[k]
         /\ 100 * Cardinality({i \in 1..Len(w) : w[i] <= Percentile95(w)}) >= 95 * Len(w)
         /\ \A x \in Int : x < Percentile95(w) =>
              100 * Cardinality({i \in 1..Len(w) : w[i] <= x}) < 95 * Len(w)
<1>1. PICK n \in Nat : n = Len(w) /\ n > 0 BY DEF Rising
<1>2. PICK k \in Int : k = (95 * n + 99) \div 100 /\ 100 * k >= 95 * n
                       /\ 100 * (k - 1) < 95 * n
  BY <1>1
<1>3. k \in 1..n BY <1>1, <1>2
<1>4. Percentile95(w) = w[k] BY <1>1, <1>2 DEF Percentile95
<1>5. w[k] \in Int BY <1>1, <1>3 DEF Rising
<1>6. \A x \in Int : Cardinality({i \in 1..Len(w) : w[i] <= x}) \in Nat
  <2>1. IsFiniteSet(1..Len(w)) BY <1>1, FS_Interval
  <2>2. \A x \in Int : {i \in 1..Len(w) : w[i] <= x} \in SUBSET (1..Len(w)) OBVIOUS
  <2>3. QED BY <2>1, <2>2, FS_Subset, FS_CardinalityType
<1>7. \A x \in Int : w[k] <= x => Cardinality({i \in 1..Len(w) : w[i] <= x}) >= k
  BY <1>1, <1>3, RankCounts
<1>8. \A x \in Int : x < w[k] => Cardinality({i \in 1..Len(w) : w[i] <= x}) <= k - 1
  BY <1>1, <1>3, RankCounts
<1>9. \A x \in Int : w[k] <= x => 100 * Cardinality({i \in 1..Len(w) : w[i] <= x}) >= 95 * n
  BY <1>2, <1>6, <1>7
<1>10. \A x \in Int : x < w[k] => 100 * Cardinality({i \in 1..Len(w) : w[i] <= x}) < 95 * n
  BY <1>2, <1>6, <1>8
<1>11. w[k] <= w[k] BY <1>5
<1>12. QED BY <1>1, <1>3, <1>4, <1>5, <1>9, <1>10, <1>11

-----------------------------------------------------------------------------
(* Recursion and lists *)

\* A function defined step by step along the numbers up to n
Recurs(F, n, X, a, G) ==
  F \in [0..n -> X] /\ F[0] = a /\ \A k \in 1..n : F[k] = G[k][F[k - 1]]

LEMMA Recursion ==
  ASSUME NEW n \in Nat, NEW X, NEW a \in X, NEW G \in [1..n -> [X -> X]]
  PROVE  \E F : Recurs(F, n, X, a, G)
<1> DEFINE Good(m, F) == F[0] = a /\ \A k \in 1..m : F[k] = G[k][F[k - 1]]
           P == {m \in Nat : m <= n => \E F \in [0..m -> X] : Good(m, F)}
<1>1. 0 \in P
  <2>1. [i \in 0..0 |-> a] \in [0..0 -> X] /\ Good(0, [i \in 0..0 |-> a]) OBVIOUS
  <2>2. QED BY <2>1
<1>2. ASSUME NEW m \in Nat, m \in P PROVE m + 1 \in P
  <2> SUFFICES ASSUME m + 1 <= n PROVE \E F \in [0..(m + 1) -> X] : Good(m + 1, F) OBVIOUS
  <2>1. PICK F \in [0..m -> X] : Good(m, F) BY <1>2
  <2>2. m \in 0..m /\ m + 1 \in 1..n OBVIOUS
  <2>3. PICK x \in X : x = G[m + 1][F[m]] BY <2>2
  <2> DEFINE H == [k \in 0..(m + 1) |-> IF k = m + 1 THEN x ELSE F[k]]
  <2>4. H \in [0..(m + 1) -> X] OBVIOUS
  <2>5. H[0] = a BY <2>1
  <2>6. ASSUME NEW k \in 1..(m + 1) PROVE H[k] = G[k][H[k - 1]]
    <3>1. CASE k = m + 1 BY <2>3, <3>1
    <3>2. CASE k # m + 1
      <4>1. k \in 1..m /\ k \in 0..(m + 1) /\ k - 1 \in 0..(m + 1) /\ k - 1 # m + 1 BY <3>2
      <4>2. H[k] = F[k] /\ H[k - 1] = F[k - 1] BY <3>2, <4>1
      <4>3. QED BY <2>1, <4>1, <4>2
    <3>3. QED BY <3>1, <3>2
  <2> HIDE DEF H
  <2>7. QED BY <2>4, <2>5, <2>6
<1> HIDE DEF P
<1>3. Nat \subseteq P BY <1>1, <1>2, Induction
<1>4. QED BY <1>3 DEF P, Recurs

\* The lists of a joined list, one after another
Joins(F, s, T) ==
  /\ F \in [0..Len(s) -> Seq(T)] /\ F[0] = <<>>
  /\ \A k \in 1..Len(s) : F[k] = F[k - 1] \o s[k]

LEMMA FlattenJoins ==
  ASSUME NEW T, NEW s \in Seq(Seq(T))
  PROVE  \E F : Joins(F, s, T) /\ FlattenSeq(s) = F[Len(s)]
<1>1. PICK n \in Nat : n = Len(s) OBVIOUS
<1> DEFINE G == [k \in 1..n |-> [x \in Seq(T) |-> x \o s[k]]]
<1>2. \A k \in 1..n : s[k] \in Seq(T) BY <1>1
<1>3. \A k \in 1..n : \A x \in Seq(T) : x \o s[k] \in Seq(T)
  <2> TAKE k \in 1..n
  <2> TAKE x \in Seq(T)
  <2>1. s[k] \in Seq(T) BY <1>2
  <2>2. QED BY <2>1
<1>4. G \in [1..n -> [Seq(T) -> Seq(T)]] BY <1>3
<1>5. <<>> \in Seq(T) OBVIOUS
<1>6. \A k \in 1..n : \A x \in Seq(T) : G[k][x] = x \o s[k] OBVIOUS
<1> HIDE DEF G
<1>12. PICK H : H = G OBVIOUS
<1>7. PICK F \in [0..n -> Seq(T)] : F[0] = <<>> /\ \A k \in 1..n : F[k] = H[k][F[k - 1]]
  <2>1. PICK X : X = Seq(T) OBVIOUS
  <2>2. PICK e : e = <<>> OBVIOUS
  <2>3. n \in Nat /\ H \in [1..n -> [X -> X]] /\ e \in X BY <1>4, <1>5, <1>12, <2>1, <2>2
  <2>4. \E F : Recurs(F, n, X, e, H) BY <2>3, Recursion
  <2>5. QED BY <2>1, <2>2, <2>4 DEF Recurs
<1>8. \A k \in 1..n : F[k] = F[k - 1] \o s[k]
  <2> TAKE k \in 1..n
  <2>1. k - 1 \in 0..n OBVIOUS
  <2>2. F[k - 1] \in Seq(T) BY <2>1
  <2>3. QED BY <1>6, <1>7, <1>12, <2>2
<1>9. Joins(F, s, T) BY <1>1, <1>7, <1>8 DEF Joins
<1>10. FlattenSeq(s) = F[n]
  <2>1. CASE n = 0
    <3>1. FlattenSeq(s) = s BY <1>1, <2>1 DEF FlattenSeq
    <3>2. s = <<>> BY <1>1, <2>1, EmptySeq
    <3>3. QED BY <1>7, <2>1, <3>1, <3>2
  <2>2. CASE n # 0
    <3> DEFINE Is(f) == f = [i \in 1..n |-> IF i = 1 THEN s[i] ELSE f[i - 1] \o s[i]]
               f0 == [i \in 1..n |-> F[i]]
               g == CHOOSE f : Is(f)
    <3>1. FlattenSeq(s) = g[n] BY <1>1, <2>2 DEF FlattenSeq
    <3>2. \A i \in 1..n : f0[i] = IF i = 1 THEN s[i] ELSE f0[i - 1] \o s[i]
      <4> TAKE i \in 1..n
      <4>1. CASE i = 1
        <5>1. 1 \in 1..n BY <2>2
        <5>2. <<>> \o s[1] = s[1] BY <1>2, <5>1
        <5>4. F[1] = F[1 - 1] \o s[1] BY <1>8, <5>1
        <5>5. F[1] = F[0] \o s[1] BY <5>4
        <5>3. QED BY <1>7, <4>1, <5>1, <5>2, <5>5
      <4>2. CASE i # 1
        <5>1. i - 1 \in 1..n BY <4>2
        <5>2. QED BY <1>8, <4>2, <5>1
      <4>3. QED BY <4>1, <4>2
    <3>3. Is(f0) BY <3>2
    <3>4. Is(g) BY <3>3
    <3> DEFINE P == {i \in Nat : i + 1 \in 1..n => g[i + 1] = F[i + 1]}
    <3>5. \A i \in 1..n : g[i] = IF i = 1 THEN s[i] ELSE g[i - 1] \o s[i] BY <3>4
    <3> HIDE DEF Is, g
    <3>6. 0 \in P
      <4>1. 1 \in 1..n BY <2>2
      <4>2. g[1] = s[1] BY <3>5, <4>1
      <4>3. f0[1] = s[1] BY <3>2, <4>1
      <4>4. QED BY <4>1, <4>2, <4>3
    <3>7. ASSUME NEW i \in Nat, i \in P PROVE i + 1 \in P
      <4> SUFFICES ASSUME (i + 1) + 1 \in 1..n PROVE g[(i + 1) + 1] = F[(i + 1) + 1] OBVIOUS
      <4>1. i + 1 \in 1..n /\ (i + 1) + 1 # 1 /\ ((i + 1) + 1) - 1 = i + 1 OBVIOUS
      <4>2. g[i + 1] = F[i + 1] BY <3>7, <4>1
      <4>3. g[(i + 1) + 1] = g[i + 1] \o s[(i + 1) + 1] BY <3>5, <4>1
      <4>4. F[(i + 1) + 1] = F[i + 1] \o s[(i + 1) + 1] BY <1>8, <4>1
      <4>5. QED BY <4>2, <4>3, <4>4
    <3>8. Nat \subseteq P
      <4> HIDE DEF P
      <4>1. QED BY <3>6, <3>7, Induction
    <3>9. PICK i \in Nat : i + 1 = n
      <4>1. n - 1 \in Nat /\ (n - 1) + 1 = n BY <2>2
      <4>2. QED BY <4>1
    <3>10. g[n] = F[n]
      <4>1. i \in P BY <3>8
      <4>2. QED BY <2>2, <3>9, <4>1
    <3>11. QED BY <3>1, <3>10
  <2>3. QED BY <2>1, <2>2
<1>11. QED BY <1>1, <1>9, <1>10

\* What the place of an element in two joined lists is
LEMMA JoinOfTwo ==
  ASSUME NEW T, NEW a \in Seq(T), NEW b \in Seq(T)
  PROVE  /\ a \o b \in Seq(T) /\ Len(a \o b) = Len(a) + Len(b)
         /\ \A i \in 1..Len(a) : (a \o b)[i] = a[i]
         /\ \A i \in 1..Len(b) : (a \o b)[Len(a) + i] = b[i]
         /\ \A i \in 1..(Len(a) + Len(b)) : i <= Len(a) \/ i - Len(a) \in 1..Len(b)
<1>1. a \o b \in Seq(T) /\ Len(a \o b) = Len(a) + Len(b) OBVIOUS
<1>2. \A i \in 1..Len(a) : (a \o b)[i] = a[i] OBVIOUS
<1>3. \A i \in 1..Len(b) : (a \o b)[Len(a) + i] = b[i] OBVIOUS
<1>4. QED BY <1>1, <1>2, <1>3

LEMMA JoinsStep ==
  ASSUME NEW T, NEW s \in Seq(Seq(T)), NEW F, Joins(F, s, T), NEW m \in 1..Len(s)
  PROVE  /\ m - 1 \in 0..Len(s) /\ F[m - 1] \in Seq(T) /\ F[m] \in Seq(T)
         /\ s[m] \in Seq(T) /\ F[m] = F[m - 1] \o s[m]
<1>1. m - 1 \in 0..Len(s) /\ m \in 0..Len(s) OBVIOUS
<1>2. PICK X : X = Seq(T) OBVIOUS
<1>3. s[m] \in X
  <2>1. s \in Seq(X) BY <1>2
  <2>2. QED BY <2>1
<1>4. F \in [0..Len(s) -> X] BY <1>2 DEF Joins
<1>5. F[m - 1] \in X /\ F[m] \in X BY <1>1, <1>4
<1>6. F[m] = F[m - 1] \o s[m] BY DEF Joins
<1>7. QED BY <1>1, <1>2, <1>3, <1>5, <1>6

\* A joined list has the elements of its lists.
Holds(y, x) == \E i \in 1..Len(y) : y[i] = x

LEMMA JoinsElements ==
  ASSUME NEW T, NEW s \in Seq(Seq(T)), NEW F, Joins(F, s, T), NEW n \in 0..Len(s), NEW x
  PROVE  Holds(F[n], x) <=> \E k \in 1..n : Holds(s[k], x)
<1> DEFINE Has(y) == Holds(y, x)
           Good(k) == k <= Len(s) => (Has(F[k]) <=> \E j \in 1..k : Has(s[j]))
           P == {k \in Nat : Good(k)}
<1>1. Good(0)
  <2>1. Len(F[0]) = 0 /\ 1..0 = {} BY DEF Joins
  <2>2. QED BY <2>1 DEF Holds
<1>2. ASSUME NEW k \in Nat, Good(k) PROVE Good(k + 1)
  <2> SUFFICES ASSUME k + 1 <= Len(s)
               PROVE  Has(F[k + 1]) <=> \E j \in 1..(k + 1) : Has(s[j])
    OBVIOUS
  <2>1. k \in 0..Len(s) /\ k + 1 \in 1..Len(s) /\ (k + 1) - 1 = k OBVIOUS
  <2>2. F[k] \in Seq(T) /\ s[k + 1] \in Seq(T) /\ F[k + 1] = F[k] \o s[k + 1]
    <3>1. PICK m \in 1..Len(s) : m = k + 1 BY <2>1
    <3>2. m - 1 = k BY <2>1, <3>1
    <3>3. F[m - 1] \in Seq(T) /\ s[m] \in Seq(T) /\ F[m] = F[m - 1] \o s[m] BY JoinsStep, Zenon
    <3>4. QED BY <3>1, <3>2, <3>3
  <2>3. PICK a \in Seq(T), b \in Seq(T) : a = F[k] /\ b = s[k + 1] BY <2>2
  <2>4. Has(a \o b) <=> Has(a) \/ Has(b)
    <3> USE DEF Holds
    <3>1. Has(a) => Has(a \o b) BY JoinOfTwo
    <3>2. Has(b) => Has(a \o b)
      <4> SUFFICES ASSUME NEW i \in 1..Len(b), b[i] = x PROVE Has(a \o b) OBVIOUS
      <4>1. Len(a) + i \in 1..Len(a \o b) /\ (a \o b)[Len(a) + i] = x BY JoinOfTwo
      <4>2. QED BY <4>1
    <3>3. ASSUME NEW i \in 1..Len(a \o b), (a \o b)[i] = x PROVE Has(a) \/ Has(b)
      <4>1. CASE i <= Len(a) BY <3>3, <4>1, JoinOfTwo
      <4>2. CASE ~(i <= Len(a))
        <5>1. PICK j \in 1..Len(b) : j = i - Len(a) BY <4>2, JoinOfTwo
        <5>2. i = Len(a) + j BY <5>1
        <5>3. b[j] = x BY <3>3, <5>2, JoinOfTwo
        <5>4. QED BY <5>3
      <4>3. QED BY <4>1, <4>2
    <3>4. QED BY <3>1, <3>2, <3>3
  <2>5. Has(F[k]) <=> \E j \in 1..k : Has(s[j])
    <3>1. k <= Len(s) BY <2>1
    <3>2. Good(k) BY <1>2
    <3> HIDE DEF Has
    <3>3. QED BY <3>1, <3>2
  <2> HIDE DEF Has
  <2>6. (\E j \in 1..(k + 1) : Has(s[j])) <=> (\E j \in 1..k : Has(s[j])) \/ Has(s[k + 1])
    OBVIOUS
  <2>7. QED BY <2>2, <2>3, <2>4, <2>5, <2>6
<1> HIDE DEF Good
<1>3. Nat \subseteq P
  <2>1. 0 \in P /\ \A k \in Nat : k \in P => k + 1 \in P BY <1>1, <1>2
  <2> HIDE DEF P
  <2>2. QED BY <2>1, Induction
<1>4. QED BY <1>3 DEF Good

\* Lists with each element once, and none in two of them, make such a list.
Once(s) == \A i, j \in 1..Len(s) : s[i] = s[j] => i = j

Separate(s) ==
  /\ \A k \in 1..Len(s) : Once(s[k])
  /\ \A k, m \in 1..Len(s) : k # m =>
       \A i \in 1..Len(s[k]), j \in 1..Len(s[m]) : s[k][i] # s[m][j]

LEMMA JoinsOnce ==
  ASSUME NEW T, NEW s \in Seq(Seq(T)), NEW F, Joins(F, s, T),
         Separate(s)
  PROVE  Once(F[Len(s)])
<1> DEFINE P == {k \in Nat : k <= Len(s) => Once(F[k])}
<1>1. 0 \in P BY DEF Joins, Once
<1>2. ASSUME NEW k \in Nat, k \in P PROVE k + 1 \in P
  <2> SUFFICES ASSUME k + 1 <= Len(s) PROVE Once(F[k + 1]) OBVIOUS
  <2>1. k \in 0..Len(s) /\ k + 1 \in 1..Len(s) /\ (k + 1) - 1 = k OBVIOUS
  <2>2. F[k] \in Seq(T) /\ s[k + 1] \in Seq(T) /\ F[k + 1] = F[k] \o s[k + 1]
    <3>1. PICK m \in 1..Len(s) : m = k + 1 BY <2>1
    <3>2. m - 1 = k BY <2>1, <3>1
    <3>3. F[m - 1] \in Seq(T) /\ s[m] \in Seq(T) /\ F[m] = F[m - 1] \o s[m] BY JoinsStep, Zenon
    <3>4. QED BY <3>1, <3>2, <3>3
  <2>3. PICK a \in Seq(T), b \in Seq(T) : a = F[k] /\ b = s[k + 1] BY <2>2
  <2>4. Once(a) /\ Once(b) BY <1>2, <2>1, <2>3 DEF Separate
  <2>5. \A i \in 1..Len(a), j \in 1..Len(b) : a[i] # b[j]
    <3> SUFFICES ASSUME NEW i \in 1..Len(a), NEW j \in 1..Len(b), a[i] = b[j] PROVE FALSE
      OBVIOUS
    <3>1. \E i1 \in 1..Len(F[k]) : F[k][i1] = b[j] BY <2>3
    <3>2. PICK m \in 1..k : \E i1 \in 1..Len(s[m]) : s[m][i1] = b[j]
      <4>1. PICK x : x = b[j] OBVIOUS
      <4>2. Holds(F[k], x) BY <3>1, <4>1 DEF Holds
      <4>3. \E m \in 1..k : Holds(s[m], x) BY <2>1, <4>2, JoinsElements
      <4>4. QED BY <4>1, <4>3 DEF Holds
    <3>3. m \in 1..Len(s) /\ m # k + 1 BY <2>1
    <3>4. QED BY <2>1, <2>3, <3>2, <3>3 DEF Separate
  <2>6. ASSUME NEW i \in 1..Len(a \o b), NEW j \in 1..Len(a \o b), (a \o b)[i] = (a \o b)[j]
        PROVE  i = j
    <3>1. i \in 1..(Len(a) + Len(b)) /\ j \in 1..(Len(a) + Len(b)) BY JoinOfTwo
    <3>2. PICK p : p = i - Len(a) OBVIOUS
    <3>3. PICK q : q = j - Len(a) OBVIOUS
    <3>4. \/ i \in 1..Len(a) /\ (a \o b)[i] = a[i]
          \/ p \in 1..Len(b) /\ i = Len(a) + p /\ (a \o b)[i] = b[p]
      BY <3>1, <3>2, JoinOfTwo
    <3>5. \/ j \in 1..Len(a) /\ (a \o b)[j] = a[j]
          \/ q \in 1..Len(b) /\ j = Len(a) + q /\ (a \o b)[j] = b[q]
      BY <3>1, <3>3, JoinOfTwo
    <3>6. QED BY <2>4, <2>5, <2>6, <3>4, <3>5 DEF Once
  <2>7. QED BY <2>2, <2>3, <2>6 DEF Once
<1>3. Nat \subseteq P
  <2> HIDE DEF P
  <2>1. QED BY <1>1, <1>2, Induction
<1>4. QED BY <1>3

\* A joined list begins with what its first lists make.
LEMMA JoinsGrow ==
  ASSUME NEW T, NEW s \in Seq(Seq(T)), NEW F, Joins(F, s, T), NEW n \in 0..Len(s)
  PROVE  /\ Len(F[n]) <= Len(F[Len(s)])
         /\ \A i \in 1..Len(F[n]) : F[Len(s)][i] = F[n][i]
<1>8. PICK N \in Nat : N = Len(s) /\ n \in 0..N OBVIOUS
<1> DEFINE Good(k) == n + k <= N =>
                   /\ Len(F[n]) <= Len(F[n + k])
                   /\ \A i \in 1..Len(F[n]) : F[n + k][i] = F[n][i]
           P == {k \in Nat : Good(k)}
<1>1. F[n] \in Seq(T) /\ Len(F[n]) \in Nat
  <2>1. F[n] \in Seq(T)
    <3>1. PICK X : X = Seq(T) OBVIOUS
    <3>2. F \in [0..Len(s) -> X] BY <3>1 DEF Joins
    <3>3. QED BY <3>1, <3>2
  <2>2. QED BY <2>1
<1>2. Good(0) BY <1>1
<1>3. ASSUME NEW k \in Nat, Good(k) PROVE Good(k + 1)
  <2> SUFFICES ASSUME n + (k + 1) <= N
               PROVE  /\ Len(F[n]) <= Len(F[n + (k + 1)])
                      /\ \A i \in 1..Len(F[n]) : F[n + (k + 1)][i] = F[n][i]
    OBVIOUS
  <2>1. PICK m \in 1..N : m = n + (k + 1) /\ m - 1 = n + k /\ m - 1 \in 0..N BY <1>8
  <2>2. F[m - 1] \in Seq(T) /\ s[m] \in Seq(T) /\ F[m] = F[m - 1] \o s[m] BY <1>8, JoinsStep
  <2>3. Len(F[n]) <= Len(F[m - 1]) /\ \A i \in 1..Len(F[n]) : F[m - 1][i] = F[n][i]
    BY <1>3, <2>1
  <2>4. Len(F[m]) = Len(F[m - 1]) + Len(s[m])
        /\ \A i \in 1..Len(F[m - 1]) : F[m][i] = F[m - 1][i]
    <3>1. PICK a \in Seq(T), b \in Seq(T) : a = F[m - 1] /\ b = s[m] BY <2>2
    <3>2. Len(a \o b) = Len(a) + Len(b) /\ \A i \in 1..Len(a) : (a \o b)[i] = a[i] BY JoinOfTwo
    <3>3. QED BY <2>2, <3>1, <3>2
  <2> HIDE DEF Good
  <2>5. Len(F[n]) <= Len(F[m]) /\ \A i \in 1..Len(F[n]) : F[m][i] = F[n][i]
    <3>1. PICK l \in Nat, l1 \in Nat, l2 \in Nat :
            l = Len(F[n]) /\ l1 = Len(F[m - 1]) /\ l2 = Len(s[m])
      <4>1. Len(F[n]) \in Nat /\ Len(F[m - 1]) \in Nat /\ Len(s[m]) \in Nat BY <1>1, <2>2
      <4>2. QED BY <4>1
    <3>2. Len(F[m]) = l1 + l2 /\ l <= l1 BY <2>3, <2>4, <3>1
    <3>3. \A i \in 1..l : i \in 1..l1 BY <3>2
    <3>4. \A i \in 1..l : F[m][i] = F[n][i] BY <2>3, <2>4, <3>1, <3>3
    <3>5. l <= l1 + l2 BY <3>2
    <3>6. Len(F[n]) <= Len(F[m]) BY <3>1, <3>2, <3>5
    <3>7. \A i \in 1..Len(F[n]) : F[m][i] = F[n][i] BY <3>1, <3>4
    <3>8. QED BY <3>6, <3>7
  <2>6. QED BY <2>1, <2>5 DEF Good
<1> HIDE DEF Good
<1>4. Nat \subseteq P
  <2>1. 0 \in P /\ \A k \in Nat : k \in P => k + 1 \in P BY <1>2, <1>3
  <2> HIDE DEF P
  <2>2. QED BY <2>1, Induction
<1>5. PICK k \in Nat : n + k = N
  <2>1. N - n \in Nat /\ n + (N - n) = N BY <1>8
  <2>2. QED BY <2>1
<1>6. Good(k) BY <1>4
<1>9. Len(F[n]) <= Len(F[N]) /\ \A i \in 1..Len(F[n]) : F[N][i] = F[n][i]
  BY <1>5, <1>6 DEF Good
<1>7. QED BY <1>8, <1>9

LEMMA LeastNumber ==
  ASSUME NEW A \in SUBSET Nat, IsFiniteSet(A), A # {}
  PROVE  Min(A) \in A /\ \A n \in A : Min(A) <= n
<1>1. PICK m \in A : Cardinality({n \in A : n < m}) = 0 BY SomeNumberIsFirst
<1>2. IsFiniteSet({n \in A : n < m}) BY FS_Subset
<1>3. {n \in A : n < m} = {} BY <1>1, <1>2, FS_EmptySet
<1>4. \A n \in A : m <= n BY <1>3
<1>5. QED BY <1>4 DEF Min

LEMMA Downward ==
  ASSUME NEW n \in Nat, NEW S, n + 1 \in S,
         \A i \in 1..n : (\A j \in (i + 1)..(n + 1) : j \in S) => i \in S
  PROVE  1..(n + 1) \subseteq S
<1> DEFINE P == {k \in Nat : \A i \in 1..(n + 1) : i > n - k => i \in S}
<1>1. 0 \in P
  <2>1. \A i \in 1..(n + 1) : i > n - 0 => i = n + 1 OBVIOUS
  <2>2. QED BY <2>1
<1>2. ASSUME NEW k \in Nat, k \in P PROVE k + 1 \in P
  <2> SUFFICES ASSUME NEW i \in 1..(n + 1), i > n - (k + 1) PROVE i \in S OBVIOUS
  <2>1. CASE i = n + 1 BY <2>1
  <2>2. CASE i # n + 1
    <3>1. i \in 1..n BY <2>2
    <3>2. \A j \in (i + 1)..(n + 1) : j \in 1..(n + 1) /\ j > n - k OBVIOUS
    <3>3. \A j \in (i + 1)..(n + 1) : j \in S BY <1>2, <3>2
    <3>4. QED BY <3>1, <3>3
  <2>3. QED BY <2>1, <2>2
<1>3. Nat \subseteq P
  <2> HIDE DEF P
  <2>1. QED BY <1>1, <1>2, Induction
<1>4. \A i \in 1..(n + 1) : i > n - n OBVIOUS
<1>5. n \in P BY <1>3
<1>6. QED BY <1>4, <1>5

\* A function defined from the last of its arguments backwards: its value at i is
\* computed from the ones after it.
Backward(F, n, X, a, Step) ==
  F \in [1..(n + 1) -> X] /\ F[n + 1] = a /\ \A i \in 1..n : F[i] = Step[i][F]

LooksAhead(n, X, Step) ==
  \A i \in 1..n : \A f, g \in [1..(n + 1) -> X] :
    (\A j \in (i + 1)..(n + 1) : f[j] = g[j]) => Step[i][f] = Step[i][g]

LEMMA BackwardExists ==
  ASSUME NEW n \in Nat, NEW X, NEW a \in X, NEW Step \in [1..n -> [[1..(n + 1) -> X] -> X]],
         LooksAhead(n, X, Step)
  PROVE  \E F : Backward(F, n, X, a, Step)
<1>0. PICK Y : Y = [1..(n + 1) -> X] OBVIOUS
<1> DEFINE Good(m, F) == F[n + 1] = a /\ \A i \in 1..n : i > n - m => F[i] = Step[i][F]
           P == {m \in Nat : m <= n => \E F \in Y : Good(m, F)}
<1>1. 0 \in P
  <2>1. [i \in 1..(n + 1) |-> a] \in Y BY <1>0
  <2>2. \A i \in 1..n : ~(i > n - 0) OBVIOUS
  <2>3. Good(0, [i \in 1..(n + 1) |-> a]) BY <2>2
  <2>4. QED BY <2>1, <2>3
<1>2. ASSUME NEW m \in Nat, m \in P PROVE m + 1 \in P
  <2> SUFFICES ASSUME m + 1 <= n PROVE \E F \in Y : Good(m + 1, F) OBVIOUS
  <2>1. PICK F \in Y : Good(m, F) BY <1>2
  <2>2. PICK k \in 1..n : k = n - m OBVIOUS
  <2>3. PICK x \in X : x = Step[k][F] BY <1>0
  <2>4. PICK H \in Y : H = [i \in 1..(n + 1) |-> IF i = k THEN x ELSE F[i]]
    <3>1. F \in [1..(n + 1) -> X] BY <1>0
    <3>2. [i \in 1..(n + 1) |-> IF i = k THEN x ELSE F[i]] \in [1..(n + 1) -> X] BY <3>1
    <3>3. QED BY <1>0, <3>2
  <2>5. H[n + 1] = a BY <2>1, <2>4
  <2>6. ASSUME NEW i \in 1..n, i > n - (m + 1) PROVE H[i] = Step[i][H]
    <3>1. i >= k /\ \A j \in (i + 1)..(n + 1) : j # k /\ j \in 1..(n + 1) BY <2>2, <2>6
    <3>2. \A j \in (i + 1)..(n + 1) : F[j] = H[j] BY <2>4, <3>1
    <3>3. Step[i][F] = Step[i][H] BY <1>0, <3>2 DEF LooksAhead
    <3>4. CASE i = k BY <2>3, <2>4, <3>3, <3>4
    <3>5. CASE i # k
      <4>1. i > n - m BY <2>2, <3>1, <3>5
      <4>2. F[i] = Step[i][F] BY <2>1, <4>1
      <4>3. QED BY <2>4, <3>3, <3>5, <4>2
    <3>6. QED BY <3>4, <3>5
  <2>7. Good(m + 1, H) BY <2>5, <2>6
  <2>8. QED BY <2>7
<1> HIDE DEF P
<1>3. Nat \subseteq P BY <1>1, <1>2, Induction
<1>4. PICK F \in Y : Good(n, F) BY <1>3 DEF P
<1>5. \A i \in 1..n : i > n - n OBVIOUS
<1>6. QED BY <1>0, <1>4, <1>5 DEF Backward

-----------------------------------------------------------------------------
(* The first of some objects *)

\* What a part of the objects with the first n among them has as its first n
LEMMA FirstOfPart ==
  ASSUME NEW A, IsFiniteSet(A), Keyed(A), NEW n \in Nat, NEW B \in SUBSET A,
         First(n, A, NewestFirst) \subseteq B
  PROVE  First(n, B, NewestFirst) = First(n, A, NewestFirst)
<1> DEFINE F == First(n, A, NewestFirst)
<1>1. F = {o \in A : Cardinality(Newer(A, o)) < n} BY FirstByRank
<1>2. First(n, B, NewestFirst) = {o \in B : Cardinality(Newer(B, o)) < n} BY FirstByRank
<1>3. IsFiniteSet(B) /\ F \subseteq B BY FS_Subset
<1>4. /\ F \in SUBSET A /\ IsFiniteSet(F)
      /\ Cardinality(F) = IF n <= Cardinality(A) THEN n ELSE Cardinality(A)
  BY FirstKeepsRanks
<1> HIDE DEF F
<1>5. \A o \in B : /\ IsFiniteSet(Newer(A, o)) /\ IsFiniteSet(Newer(B, o))
                   /\ Cardinality(Newer(A, o)) \in Nat /\ Cardinality(Newer(B, o)) \in Nat
                   /\ Cardinality(Newer(B, o)) <= Cardinality(Newer(A, o))
  <2> TAKE o \in B
  <2>1. Newer(A, o) \in SUBSET A /\ Newer(B, o) \in SUBSET Newer(A, o) BY DEF Newer
  <2>2. IsFiniteSet(Newer(A, o)) BY <2>1, FS_Subset
  <2>3. /\ IsFiniteSet(Newer(B, o))
        /\ Cardinality(Newer(B, o)) <= Cardinality(Newer(A, o))
    BY <2>1, <2>2, FS_Subset
  <2>4. QED BY <2>2, <2>3, FS_CardinalityType
<1>6. \A o \in F : Cardinality(Newer(B, o)) < n BY <1>1, <1>3, <1>5
<1>7. ASSUME NEW o \in B, Cardinality(Newer(B, o)) < n PROVE o \in F
  <2> SUFFICES ASSUME o \notin F PROVE FALSE OBVIOUS
  <2>1. o \in A /\ ~(Cardinality(Newer(A, o)) < n) BY <1>1
  <2>2. n <= Cardinality(A)
    <3>1. Newer(A, o) \in SUBSET A BY DEF Newer
    <3>2. Cardinality(Newer(A, o)) <= Cardinality(A) BY <3>1, FS_Subset
    <3>3. Cardinality(A) \in Nat BY FS_CardinalityType
    <3>4. QED BY <1>5, <2>1, <3>2, <3>3
  <2>3. \A p \in F : NewestFirst(p, o)
    <3> SUFFICES ASSUME NEW p \in F, ~NewestFirst(p, o) PROVE FALSE OBVIOUS
    <3>1. p \in A /\ p # o /\ Cardinality(Newer(A, p)) < n BY <1>1, <1>4
    <3>2. Orders(NewestOrder(A), A) BY ObjectsAreOrdered
    <3>3. <<o, p>> \in NewestOrder(A)
      <4>1. <<p, o>> \notin NewestOrder(A) BY DEF NewestOrder
      <4>2. QED BY <2>1, <3>1, <3>2, <4>1 DEF Orders
    <3>5. RankIn(NewestOrder(A), A, o) < RankIn(NewestOrder(A), A, p)
      BY <2>1, <3>1, <3>2, <3>3, RankGrows
    <3>6. Cardinality(Newer(A, o)) < Cardinality(Newer(A, p))
      BY <2>1, <3>1, <3>5, ObjectsAreOrdered
    <3>7. p \in B BY <1>3
    <3>8. QED BY <1>5, <2>1, <3>1, <3>6, <3>7
  <2>4. F \in SUBSET Newer(B, o) BY <1>3, <2>3 DEF Newer
  <2>5. Cardinality(F) <= Cardinality(Newer(B, o)) BY <1>5, <2>4, FS_Subset
  <2>6. QED BY <1>4, <1>5, <1>7, <2>2, <2>5
<1>8. QED BY <1>2, <1>3, <1>6, <1>7 DEF F

\* What is among the first n of several sets of objects is so in its own.
LEMMA FirstInPart ==
  ASSUME NEW A, IsFiniteSet(A), NEW B \in SUBSET A, NEW n \in Nat,
         NEW o \in First(n, A, NewestFirst), o \in B
  PROVE  o \in First(n, B, NewestFirst)
<1>1. o \in A /\ Cardinality(Newer(A, o)) < n BY FirstByRank
<1>2. Newer(B, o) \in SUBSET Newer(A, o) /\ Newer(A, o) \in SUBSET A BY DEF Newer
<1>3. IsFiniteSet(Newer(A, o)) BY <1>2, FS_Subset
<1>4. IsFiniteSet(Newer(B, o)) /\ Cardinality(Newer(B, o)) <= Cardinality(Newer(A, o))
  BY <1>2, <1>3, FS_Subset
<1>5. Cardinality(Newer(B, o)) \in Nat /\ Cardinality(Newer(A, o)) \in Nat
  BY <1>3, <1>4, FS_CardinalityType
<1>6. Cardinality(Newer(B, o)) < n BY <1>1, <1>4, <1>5
<1>7. QED BY <1>6, FirstByRank

\* The objects of a history that retains the newest of some
LEMMA RetainedObjects ==
  ASSUME NEW f, IsStore(f)
  PROVE  Objects(Retained(f)) = First(Capacity, Objects(f), NewestFirst)
<1> USE HistoryAssumption
<1> DEFINE F == First(Capacity, Objects(f), NewestFirst)
<1>1. Retained(f) = [k \in {o.key : o \in F} |-> f[k]] BY DEF Retained
<1>2. F \in SUBSET Objects(f) BY DEF First
<1> HIDE DEF F
<1>3. \A o \in F : f[o.key] = o BY <1>2 DEF Objects, IsStore
<1> DEFINE keys == {o.key : o \in F}
<1>4. DOMAIN Retained(f) = keys /\ \A k \in keys : Retained(f)[k] = f[k] BY <1>1
<1>5. \A o \in F : o.key \in keys OBVIOUS
<1>6. \A k \in keys : \E o \in F : k = o.key OBVIOUS
<1> HIDE DEF keys
<1>7. Objects(Retained(f)) = F
  <2>1. \A k \in keys : Retained(f)[k] \in F BY <1>3, <1>4, <1>6
  <2>2. \A o \in F : \E k \in keys : Retained(f)[k] = o BY <1>3, <1>4, <1>5
  <2>3. Objects(Retained(f)) = {Retained(f)[k] : k \in keys} BY <1>4 DEF Objects
  <2>4. QED BY <2>1, <2>2, <2>3
<1>8. QED BY <1>7 DEF F
=============================================================================
