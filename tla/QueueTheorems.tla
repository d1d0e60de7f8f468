--------------------------- MODULE QueueTheorems ---------------------------
(***************************************************************************)
(* Facts about Without and FlattenSeq, and about sequences one after the   *)
(* other.  The library's induction theorems take a predicate as a          *)
(* parameter; here the least element of the set of counterexamples plays   *)
(* the part of the induction.                                              *)
(***************************************************************************)
EXTENDS Queues, FiniteSetTheorems, SequenceTheorems, SequencesExt, TLAPS

\* A set of natural numbers that is not empty has a least element.
LEMMA LeastNatural ==
  ASSUME NEW T, T \subseteq Nat, T # {}
  PROVE  \E n \in T : \A k \in T : n <= k
<1> DEFINE R == OpToRel(<, Nat)
<1>1. IsWellFoundedOn(R, Nat)
  BY NatLessThanWellFounded
<1>2. \E x \in T : \A y \in T : ~(<<y, x>> \in R)
  <2> HIDE DEF R
  <2> QED BY <1>1, WFMin
<1>3. \A x, y \in Nat : x < y => <<x, y>> \in R
  BY DEF OpToRel
<1> HIDE DEF R
<1>4. PICK n \in T : \A k \in T : ~(<<k, n>> \in R)
  BY <1>2
<1>5. \A k \in T : n <= k
  <2> TAKE k \in T
  <2>1. k \in Nat /\ n \in Nat
    OBVIOUS
  <2>2. ~(k < n)
    BY <1>3, <1>4, <2>1
  <2> QED BY <2>1, <2>2
<1> QED BY <1>5

\* k[i] is what is kept of the first i messages of q, for all i up to n.
Keeps(k, q, S, n) ==
  /\ k[0] = <<>>
  /\ \A i \in 1..n : k[i] = IF q[i] \in S THEN k[i - 1] ELSE Append(k[i - 1], q[i])

\* There is such a k for every n: the recursion is well-founded, ...
LEMMA KeptExists ==
  ASSUME NEW T, NEW q \in Seq(T), NEW S
  PROVE  \A n \in 0..Len(q) : \E k \in [0..n -> Seq(T)] : Keeps(k, q, S, n)
<1> DEFINE Bad == {n \in 0..Len(q) : ~ \E k \in [0..n -> Seq(T)] : Keeps(k, q, S, n)}
<1>1. SUFFICES ASSUME Bad # {} PROVE FALSE
  OBVIOUS
<1>2. PICK n \in Bad : \A m \in Bad : n <= m
  <2>1. Bad \subseteq Nat
    OBVIOUS
  <2> HIDE DEF Bad
  <2> QED BY <1>1, <2>1, LeastNatural
<1>3. CASE n = 0
  <2>1. [i \in 0..0 |-> <<>>] \in [0..0 -> Seq(T)]
    BY EmptySeq
  <2>2. Keeps([i \in 0..0 |-> <<>>], q, S, 0)
    BY DEF Keeps
  <2> QED BY <1>3, <2>1, <2>2
<1>4. CASE n # 0
  <2>1. n \in 1..Len(q) /\ n - 1 \in 0..Len(q)
    <3>1. n \in 0..Len(q)
      BY <1>2
    <3>2. Len(q) \in Nat
      BY LenProperties
    <3> QED BY <3>1, <3>2, <1>4
  <2>1a. n - 1 \notin Bad
    <3> HIDE DEF Bad
    <3> QED BY <1>2, <2>1, ~(n <= n - 1)
  <2>2. PICK k \in [0..n-1 -> Seq(T)] : Keeps(k, q, S, n - 1)
    BY <2>1, <2>1a
  <2> DEFINE x == IF q[n] \in S THEN k[n - 1] ELSE Append(k[n - 1], q[n])
             j == [i \in 0..n |-> IF i = n THEN x ELSE k[i]]
  <2>3. q[n] \in T /\ k[n - 1] \in Seq(T)
    BY <2>1, ElementOfSeq
  <2>4. x \in Seq(T)
    BY <2>3, AppendProperties
  <2>5. j \in [0..n -> Seq(T)]
    <3> HIDE DEF x
    <3> QED BY <2>1, <2>4
  <2>6. Keeps(j, q, S, n)
    <3>1. j[0] = <<>>
      BY <2>1, <2>2 DEF Keeps
    <3>2. \A i \in 1..n-1 : j[i] = k[i] /\ j[i - 1] = k[i - 1]
      BY <2>1
    <3>3. j[n] = x /\ j[n - 1] = k[n - 1]
      BY <2>1
    <3>4. ASSUME NEW i \in 1..n
          PROVE  j[i] = IF q[i] \in S THEN j[i - 1] ELSE Append(j[i - 1], q[i])
      <4>1. CASE i = n
        <5> HIDE DEF j
        <5> QED BY <3>3, <4>1
      <4>2. CASE i # n
        <5>1. i \in 1..n-1
          BY <4>2, <2>1
        <5> HIDE DEF j
        <5> QED BY <3>2, <2>2, <5>1 DEF Keeps
      <4> QED BY <4>1, <4>2
    <3> HIDE DEF j
    <3> QED BY <3>1, <3>4 DEF Keeps
  <2> QED BY <2>5, <2>6, <1>2
<1> QED BY <1>3, <1>4

\* ... and the definition of Without stands for it.
LEMMA KeptDefined ==
  ASSUME NEW T, NEW q \in Seq(T), NEW S
  PROVE  \E k \in [0..Len(q) -> Seq(T)] : Keeps(k, q, S, Len(q)) /\ Without(q, S) = k[Len(q)]
<1> DEFINE D(k) == [n \in 0..Len(q) |->
                      IF n = 0 THEN <<>>
                      ELSE IF q[n] \in S THEN k[n - 1] ELSE Append(k[n - 1], q[n])]
           c == CHOOSE k : k = D(k)
<1>0. Len(q) \in Nat
  BY LenProperties
<1>1. PICK k \in [0..Len(q) -> Seq(T)] : Keeps(k, q, S, Len(q))
  <2>1. Len(q) \in 0..Len(q)
    BY <1>0
  <2> QED BY <2>1, KeptExists
<1>2. k = D(k)
  <2>1. ASSUME NEW n \in 0..Len(q)
        PROVE  k[n] = IF n = 0 THEN <<>>
                      ELSE IF q[n] \in S THEN k[n - 1] ELSE Append(k[n - 1], q[n])
    <3>1. CASE n = 0
      BY <1>1, <3>1 DEF Keeps
    <3>2. CASE n # 0
      <4>1. n \in 1..Len(q)
        BY <1>0, <3>2
      <4> QED BY <1>1, <3>2, <4>1 DEF Keeps
    <3> QED BY <3>1, <3>2
  <2> QED BY <2>1
<1>3. c = D(c)
  BY <1>2
<1>4. Without(q, S) = c[Len(q)]
  BY DEF Without
<1>5. c \in [0..Len(q) -> Seq(T)] /\ Keeps(c, q, S, Len(q))
  <2> DEFINE Bad == {n \in 0..Len(q) : c[n] # k[n]}
  <2>0. DOMAIN c = 0..Len(q)
    BY <1>3
  <2>1. ASSUME Bad # {} PROVE FALSE
    <3>0. Bad \subseteq Nat
      OBVIOUS
    <3>1. PICK n \in Bad : \A m \in Bad : n <= m
      <4> HIDE DEF Bad
      <4> QED BY <2>1, <3>0, LeastNatural
    <3>2. n \in 0..Len(q) /\ c[n] # k[n]
      BY <3>1
    <3>3. n # 0
      BY <1>2, <1>3, <3>2
    <3>4. n - 1 \in 0..Len(q) /\ n \in Nat
      BY <1>0, <3>2, <3>3
    <3>5. n - 1 \notin Bad
      <4> HIDE DEF Bad
      <4> QED BY <3>1, <3>4
    <3>6. c[n - 1] = k[n - 1]
      BY <3>4, <3>5
    <3>7. D(c)[n] = IF q[n] \in S THEN c[n - 1] ELSE Append(c[n - 1], q[n])
      BY <3>2, <3>3
    <3>8. D(k)[n] = IF q[n] \in S THEN k[n - 1] ELSE Append(k[n - 1], q[n])
      BY <3>2, <3>3
    <3> HIDE DEF D
    <3> QED BY <1>2, <1>3, <3>2, <3>6, <3>7, <3>8
  <2>2. c = k
    BY <2>0, <2>1, <1>3
  <2> QED BY <2>2, <1>1
<1> HIDE DEF c
<1> QED BY <1>4, <1>5

\* Flushing a queue leaves a queue of the same kind of messages.
LEMMA WithoutType ==
  ASSUME NEW T, NEW q \in Seq(T), NEW S
  PROVE  Without(q, S) \in Seq(T)
<1>1. Len(q) \in 0..Len(q)
  BY LenProperties
<1> QED BY <1>1, KeptDefined

\* Flushing an empty queue leaves it empty.
LEMMA WithoutEmpty ==
  ASSUME NEW S
  PROVE  Without(<<>>, S) = <<>>
<1>1. <<>> \in Seq({}) /\ Len(<<>>) = 0
  BY EmptySeq
<1>2. PICK k \in [0..Len(<<>>) -> Seq({})] :
        Keeps(k, <<>>, S, Len(<<>>)) /\ Without(<<>>, S) = k[Len(<<>>)]
  BY <1>1, KeptDefined
<1>3. k[0] = <<>>
  BY <1>2 DEF Keeps
<1> QED BY <1>1, <1>2, <1>3

\* Nothing is left of a queue when all that it may hold is flushed.
LEMMA WithoutAll ==
  ASSUME NEW T, NEW q \in Seq(T), NEW S, T \subseteq S
  PROVE  Without(q, S) = <<>>
<1>1. PICK k \in [0..Len(q) -> Seq(T)] :
        Keeps(k, q, S, Len(q)) /\ Without(q, S) = k[Len(q)]
  BY KeptDefined
<1>2. Len(q) \in Nat
  BY LenProperties
<1> DEFINE Bad == {n \in 0..Len(q) : k[n] # <<>>}
<1>3. ASSUME Bad # {} PROVE FALSE
  <2>0. Bad \subseteq Nat
    BY <1>2
  <2>1. PICK n \in Bad : \A m \in Bad : n <= m
    <3> HIDE DEF Bad
    <3> QED BY <1>3, <2>0, LeastNatural
  <2>2. n \in 0..Len(q) /\ k[n] # <<>> /\ n # 0
    BY <1>1, <2>1 DEF Keeps
  <2>3. n \in 1..Len(q) /\ n - 1 \in 0..Len(q) /\ ~(n <= n - 1)
    BY <1>2, <2>2
  <2>4. k[n - 1] = <<>>
    BY <2>1, <2>3
  <2>5. q[n] \in S
    BY <2>3
  <2> QED BY <1>1, <2>2, <2>3, <2>4, <2>5 DEF Keeps
<1>4. k[Len(q)] = <<>>
  BY <1>2, <1>3
<1> QED BY <1>1, <1>4

\* What a queue holds after a message was put at its tail.
LEMMA RangeAppend ==
  ASSUME NEW T, NEW q \in Seq(T), NEW m \in T
  PROVE  Range(Append(q, m)) = Range(q) \cup {m}
<1> DEFINE a == Append(q, m)
<1>1. Len(q) \in Nat /\ DOMAIN q = 1..Len(q)
  BY LenProperties
<1>2. a \in Seq(T) /\ Len(a) = Len(q) + 1 /\ a[Len(q) + 1] = m
      /\ \A i \in 1..Len(q) : a[i] = q[i]
  BY AppendProperties
<1>3. DOMAIN a = 1..(Len(q) + 1)
  BY <1>2, LenProperties
<1> HIDE DEF a
<1>4. Range(a) \subseteq Range(q) \cup {m}
  <2> SUFFICES ASSUME NEW i \in 1..(Len(q) + 1) PROVE a[i] \in Range(q) \cup {m}
    BY <1>3 DEF Range
  <2>1. CASE i \in 1..Len(q)
    BY <1>1, <1>2, <2>1 DEF Range
  <2>2. CASE i = Len(q) + 1
    BY <1>2, <2>2
  <2> QED BY <1>1, <2>1, <2>2
<1>5. Range(q) \subseteq Range(a)
  <2> SUFFICES ASSUME NEW i \in 1..Len(q) PROVE q[i] \in Range(a)
    BY <1>1 DEF Range
  <2>1. i \in DOMAIN a /\ a[i] = q[i]
    BY <1>1, <1>2, <1>3
  <2> QED BY <2>1 DEF Range
<1>6. m \in Range(a)
  <2>1. Len(q) + 1 \in DOMAIN a
    BY <1>1, <1>3
  <2> QED BY <1>2, <2>1 DEF Range
<1>7. Range(a) = Range(q) \cup {m}
  BY <1>4, <1>5, <1>6
<1> QED BY <1>7 DEF a

\* Flushing a queue keeps every message that is not to be removed.
LEMMA WithoutKeeps ==
  ASSUME NEW T, NEW q \in Seq(T), NEW S, NEW x \in Range(q), x \notin S
  PROVE  x \in Range(Without(q, S))
<1>1. PICK k \in [0..Len(q) -> Seq(T)] :
        Keeps(k, q, S, Len(q)) /\ Without(q, S) = k[Len(q)]
  BY KeptDefined
<1>0. Len(q) \in Nat /\ DOMAIN q = 1..Len(q)
  BY LenProperties
<1>2. PICK i \in 1..Len(q) : q[i] = x
  BY <1>0 DEF Range
<1> DEFINE Bad == {n \in i..Len(q) : x \notin Range(k[n])}
<1>3. ASSUME Bad # {} PROVE FALSE
  <2>0. Bad \subseteq Nat
    BY <1>0
  <2>1. PICK n \in Bad : \A m \in Bad : n <= m
    <3> HIDE DEF Bad
    <3> QED BY <1>3, <2>0, LeastNatural
  <2>2. n \in i..Len(q) /\ n \in 1..Len(q) /\ x \notin Range(k[n])
    BY <1>0, <2>1
  <2>3. k[n] = IF q[n] \in S THEN k[n - 1] ELSE Append(k[n - 1], q[n])
    BY <1>1, <2>2 DEF Keeps
  <2>4. k[n - 1] \in Seq(T) /\ q[n] \in T
    BY <1>0, <2>2, ElementOfSeq
  <2>5. \A y \in T : Range(Append(k[n - 1], y)) = Range(k[n - 1]) \cup {y}
    BY <2>4, RangeAppend
  <2>6. CASE n = i
    BY <1>2, <2>2, <2>3, <2>4, <2>5, <2>6
  <2>7. CASE n # i
    <3>1. n - 1 \in i..Len(q)
      BY <1>0, <2>2, <2>7
    <3>2. n - 1 \notin Bad
      <4> HIDE DEF Bad
      <4> QED BY <2>0, <2>1, <3>1
    <3>3. x \in Range(k[n - 1])
      BY <3>1, <3>2
    <3> QED BY <2>2, <2>3, <2>4, <2>5, <3>3
  <2> QED BY <2>6, <2>7
<1>4. Len(q) \in i..Len(q)
  BY <1>0
<1>5. x \in Range(k[Len(q)])
  BY <1>3, <1>4
<1> QED BY <1>1, <1>5

\* What a queue holds after a message was put at its head.
LEMMA RangePrepend ==
  ASSUME NEW T, NEW q \in Seq(T), NEW m \in T
  PROVE  <<m>> \o q \in Seq(T) /\ Range(<<m>> \o q) = Range(q) \cup {m}
<1>1. <<m>> \in Seq(T) /\ Len(<<m>>) = 1 /\ <<m>>[1] = m
  OBVIOUS
<1>2. <<m>> \o q \in Seq(T) /\ Range(<<m>> \o q) = Range(<<m>>) \cup Range(q)
  BY <1>1, ConcatProperties, RangeConcatenation
<1>3. Range(<<m>>) = {m}
  <2>1. Range(<<m>>) = {<<m>>[i] : i \in 1..1}
    BY <1>1, RangeEquality
  <2>2. 1..1 = {1}
    OBVIOUS
  <2> QED BY <1>1, <2>1, <2>2
<1> QED BY <1>2, <1>3

\* Taking the first message leaves the others.
LEMMA RangeTail ==
  ASSUME NEW T, NEW q \in Seq(T), q # <<>>, NEW x \in Range(q), x # Head(q)
  PROVE  x \in Range(Tail(q))
<1>1. Len(q) \in Nat /\ Head(q) = q[1]
  BY LenProperties
<1>2. PICK i \in 1..Len(q) : q[i] = x
  BY RangeEquality
<1>3. i - 1 \in 1..Len(q) - 1
  BY <1>1, <1>2
<1>4. Tail(q) \in Seq(T) /\ Len(Tail(q)) = Len(q) - 1
      /\ \A j \in 1..Len(Tail(q)) : Tail(q)[j] = q[j + 1]
  BY HeadTailProperties
<1>5. Tail(q)[i - 1] = x
  BY <1>2, <1>3, <1>4
<1>6. Range(Tail(q)) = {Tail(q)[j] : j \in 1..Len(Tail(q))}
  BY <1>4, RangeEquality
<1> QED BY <1>3, <1>4, <1>5, <1>6
-----------------------------------------------------------------------------
(* The order of the messages of a queue. *)

\* Some x is ahead of some y.
Before(q, x, y) == \E i, j \in 1..Len(q) : i < j /\ q[i] = x /\ q[j] = y

\* Without repetitions, of two messages one is ahead of the other.
LEMMA BeforeIsAsymmetric ==
  ASSUME NEW T, NEW q \in Seq(T), NEW x, NEW y, ~Before(q, x, x), ~Before(q, y, y)
  PROVE  ~(Before(q, x, y) /\ Before(q, y, x))
<1> SUFFICES ASSUME Before(q, x, y), Before(q, y, x) PROVE FALSE
  OBVIOUS
<1>1. Len(q) \in Nat
  BY LenProperties
<1>2. PICK i, j \in 1..Len(q) : i < j /\ q[i] = x /\ q[j] = y
  BY DEF Before
<1>3. PICK k, l \in 1..Len(q) : k < l /\ q[k] = y /\ q[l] = x
  BY DEF Before
<1>4. \A m, n \in 1..Len(q) : q[m] = x /\ q[n] = x => ~(m < n)
  BY DEF Before
<1>5. \A m, n \in 1..Len(q) : q[m] = y /\ q[n] = y => ~(m < n)
  BY DEF Before
<1>6. ~(i < l) /\ ~(k < j)
  BY <1>2, <1>3, <1>4, <1>5
<1>7. i \in Nat /\ j \in Nat /\ k \in Nat /\ l \in Nat
  BY <1>1
<1> QED BY <1>2, <1>3, <1>6, <1>7

\* What is put at the tail comes behind all others, ...
LEMMA BeforeAppend ==
  ASSUME NEW T, NEW q \in Seq(T), NEW m \in T, NEW x, NEW y
  PROVE  Before(Append(q, m), x, y) <=> Before(q, x, y) \/ (x \in Range(q) /\ y = m)
<1> DEFINE a == Append(q, m)
<1>1. Len(q) \in Nat /\ Range(q) = {q[i] : i \in 1..Len(q)}
  BY LenProperties, RangeEquality
<1>2. Len(a) = Len(q) + 1 /\ a[Len(q) + 1] = m /\ \A i \in 1..Len(q) : a[i] = q[i]
  BY AppendProperties
<1> HIDE DEF a
<1>3. ASSUME Before(a, x, y) PROVE Before(q, x, y) \/ (x \in Range(q) /\ y = m)
  <2>1. PICK i, j \in 1..Len(a) : i < j /\ a[i] = x /\ a[j] = y
    BY <1>3 DEF Before
  <2>2. i \in 1..Len(q) /\ q[i] = x
    BY <1>1, <1>2, <2>1
  <2>3. CASE j = Len(q) + 1
    BY <1>1, <1>2, <2>1, <2>2, <2>3
  <2>4. CASE j # Len(q) + 1
    <3>1. j \in 1..Len(q)
      BY <1>1, <1>2, <2>4
    <3>2. q[j] = y
      BY <1>2, <2>1, <3>1
    <3> QED BY <2>1, <2>2, <3>1, <3>2 DEF Before
  <2> QED BY <2>3, <2>4
<1>4. ASSUME Before(q, x, y) PROVE Before(a, x, y)
  <2>1. PICK i, j \in 1..Len(q) : i < j /\ q[i] = x /\ q[j] = y
    BY <1>4 DEF Before
  <2>2. i \in 1..Len(a) /\ j \in 1..Len(a)
    BY <1>1, <1>2
  <2>3. a[i] = x /\ a[j] = y
    BY <1>2, <2>1
  <2> QED BY <2>1, <2>2, <2>3 DEF Before
<1>5. ASSUME x \in Range(q), y = m PROVE Before(a, x, y)
  <2>1. PICK i \in 1..Len(q) : q[i] = x
    BY <1>1, <1>5
  <2>2. i \in 1..Len(a) /\ Len(q) + 1 \in 1..Len(a) /\ i < Len(q) + 1
    BY <1>1, <1>2
  <2>3. a[i] = x /\ a[Len(q) + 1] = y
    BY <1>2, <1>5, <2>1
  <2> QED BY <2>2, <2>3 DEF Before
<1>6. Before(a, x, y) <=> Before(q, x, y) \/ (x \in Range(q) /\ y = m)
  BY <1>3, <1>4, <1>5
<1> QED BY <1>6 DEF a

\* ... what is put at the head comes ahead of them, ...
LEMMA BeforePrepend ==
  ASSUME NEW T, NEW q \in Seq(T), NEW m \in T, NEW x, NEW y
  PROVE  Before(<<m>> \o q, x, y) => Before(q, x, y) \/ (x = m /\ y \in Range(q))
<1> DEFINE a == <<m>> \o q
<1>1. Len(q) \in Nat /\ Range(q) = {q[i] : i \in 1..Len(q)}
  BY LenProperties, RangeEquality
<1>2. <<m>> \in Seq(T) /\ Len(<<m>>) = 1 /\ <<m>>[1] = m
  OBVIOUS
<1>3. Len(a) = 1 + Len(q) /\ \A i \in 1..1 + Len(q) : a[i] = IF i <= 1 THEN <<m>>[i] ELSE q[i - 1]
  BY <1>2, ConcatProperties
<1> HIDE DEF a
<1>4. SUFFICES ASSUME Before(a, x, y) PROVE Before(q, x, y) \/ (x = m /\ y \in Range(q))
  BY DEF a
<1>5. PICK i, j \in 1..Len(a) : i < j /\ a[i] = x /\ a[j] = y
  BY <1>4 DEF Before
<1>6. j - 1 \in 1..Len(q) /\ q[j - 1] = y
  <2>1. j - 1 \in 1..Len(q) /\ ~(j <= 1) /\ j \in 1..1 + Len(q)
    BY <1>1, <1>3, <1>5
  <2> QED BY <1>3, <1>5, <2>1
<1>7. CASE i = 1
  <2>1. a[1] = m
    BY <1>1, <1>2, <1>3
  <2> QED BY <1>1, <1>5, <1>6, <1>7, <2>1
<1>8. CASE i # 1
  <2>1. i - 1 \in 1..Len(q) /\ ~(i <= 1) /\ i \in 1..1 + Len(q) /\ i - 1 < j - 1
    BY <1>1, <1>3, <1>5, <1>8
  <2>2. q[i - 1] = x
    BY <1>3, <1>5, <2>1
  <2> QED BY <1>6, <2>1, <2>2 DEF Before
<1> QED BY <1>7, <1>8

\* ... and taking the first one, which was ahead of all others, leaves these in order.
LEMMA BeforeTail ==
  ASSUME NEW T, NEW q \in Seq(T), q # <<>>
  PROVE  /\ \A x, y : Before(Tail(q), x, y) => Before(q, x, y)
         /\ \A y \in Range(Tail(q)) : y \in Range(q) /\ Before(q, Head(q), y)
<1> DEFINE r == Tail(q)
<1>1. Len(q) \in Nat /\ Head(q) = q[1] /\ Range(q) = {q[i] : i \in 1..Len(q)}
  BY LenProperties, RangeEquality
<1>2. r \in Seq(T) /\ Len(r) = Len(q) - 1 /\ \A i \in 1..Len(r) : r[i] = q[i + 1]
  BY HeadTailProperties
<1>3. Range(r) = {r[i] : i \in 1..Len(r)}
  BY <1>2, RangeEquality
<1> HIDE DEF r
<1>4. ASSUME NEW i \in 1..Len(r)
      PROVE  i + 1 \in 1..Len(q) /\ 1 \in 1..Len(q) /\ 1 < i + 1 /\ r[i] = q[i + 1]
  BY <1>1, <1>2
<1>5. ASSUME NEW x, NEW y, Before(r, x, y) PROVE Before(q, x, y)
  <2>1. PICK i, j \in 1..Len(r) : i < j /\ r[i] = x /\ r[j] = y
    BY <1>5 DEF Before
  <2>2. i + 1 < j + 1
    BY <1>1, <1>2, <2>1
  <2> QED BY <1>4, <2>1, <2>2 DEF Before
<1>6. ASSUME NEW y \in Range(r) PROVE y \in Range(q) /\ Before(q, Head(q), y)
  <2>1. PICK i \in 1..Len(r) : r[i] = y
    BY <1>3
  <2> QED BY <1>1, <1>4, <2>1 DEF Before
<1> QED BY <1>5, <1>6 DEF r

\* Flushing a queue leaves its messages in order.
LEMMA WithoutOrder ==
  ASSUME NEW T, NEW q \in Seq(T), NEW S
  PROVE  /\ Range(Without(q, S)) \subseteq Range(q)
         /\ \A x, y : Before(Without(q, S), x, y) => Before(q, x, y)
<1>1. PICK k \in [0..Len(q) -> Seq(T)] :
        Keeps(k, q, S, Len(q)) /\ Without(q, S) = k[Len(q)]
  BY KeptDefined
<1>2. Len(q) \in Nat /\ Range(q) = {q[i] : i \in 1..Len(q)}
  BY LenProperties, RangeEquality
<1> DEFINE Kept(n) ==
             /\ \A x \in Range(k[n]) : \E i \in 1..n : q[i] = x
             /\ \A x, y : Before(k[n], x, y) => \E i, j \in 1..n : i < j /\ q[i] = x /\ q[j] = y
           Bad == {n \in 0..Len(q) : ~Kept(n)}
<1>3. ASSUME Bad # {} PROVE FALSE
  <2>0. Bad \subseteq Nat
    BY <1>2
  <2>1. PICK n \in Bad : \A m \in Bad : n <= m
    <3> HIDE DEF Bad
    <3> QED BY <1>3, <2>0, LeastNatural
  <2>2. n \in 0..Len(q) /\ n \in Nat /\ ~Kept(n)
    BY <2>0, <2>1
  <2>3. n # 0
    <3>1. Kept(0)
      <4>1. k[0] = <<>> /\ <<>> \in Seq(T) /\ Len(<<>>) = 0
        BY <1>1, EmptySeq DEF Keeps
      <4>2. Range(<<>>) = {<<>>[i] : i \in 1..Len(<<>>)}
        BY <4>1, RangeEquality
      <4>3. 1..Len(<<>>) = {}
        BY <4>1
      <4>4. Range(k[0]) = {} /\ \A x, y : ~Before(k[0], x, y)
        BY <4>1, <4>2, <4>3 DEF Before
      <4> QED BY <4>4
    <3> HIDE DEF Kept
    <3> QED BY <2>2, <3>1
  <2>4. n \in 1..Len(q) /\ n - 1 \in 0..Len(q) /\ ~(n <= n - 1)
    BY <1>2, <2>2, <2>3
  <2>5. Kept(n - 1)
    <3>1. n - 1 \notin Bad
      <4> HIDE DEF Bad
      <4> QED BY <2>1, <2>4
    <3> HIDE DEF Kept
    <3> QED BY <2>4, <3>1
  <2>6. k[n] = IF q[n] \in S THEN k[n - 1] ELSE Append(k[n - 1], q[n])
    BY <1>1, <2>4 DEF Keeps
  <2>7. k[n - 1] \in Seq(T) /\ q[n] \in T
    BY <2>4, ElementOfSeq
  <2>8. \A i \in 1..n - 1 : i \in 1..n /\ i < n
    BY <2>2
  <2>9. n \in 1..n
    BY <2>4, <2>2
  <2>10. Kept(n)
    <3>1. ASSUME NEW x \in Range(k[n]) PROVE \E i \in 1..n : q[i] = x
      <4>1. x \in Range(k[n - 1]) \/ x = q[n]
        <5>1. Range(Append(k[n - 1], q[n])) = Range(k[n - 1]) \cup {q[n]}
          BY <2>7, RangeAppend
        <5> QED BY <2>6, <3>1, <5>1
      <4> QED BY <2>5, <2>8, <2>9, <4>1
    <3>2. ASSUME NEW x, NEW y, Before(k[n], x, y)
          PROVE  \E i, j \in 1..n : i < j /\ q[i] = x /\ q[j] = y
      <4>1. Before(k[n - 1], x, y) \/ (x \in Range(k[n - 1]) /\ y = q[n])
        <5>1. Before(Append(k[n - 1], q[n]), x, y)
                <=> Before(k[n - 1], x, y) \/ (x \in Range(k[n - 1]) /\ y = q[n])
          BY <2>7, BeforeAppend
        <5> QED BY <2>6, <3>2, <5>1
      <4>2. CASE Before(k[n - 1], x, y)
        <5>1. PICK i, j \in 1..n - 1 : i < j /\ q[i] = x /\ q[j] = y
          BY <2>5, <4>2
        <5> QED BY <2>8, <5>1
      <4>3. CASE x \in Range(k[n - 1]) /\ y = q[n]
        <5>1. PICK i \in 1..n - 1 : q[i] = x
          BY <2>5, <4>3
        <5> QED BY <2>8, <2>9, <4>3, <5>1
      <4> QED BY <4>1, <4>2, <4>3
    <3> QED BY <3>1, <3>2
  <2> HIDE DEF Kept
  <2> QED BY <2>2, <2>10
<1>4. Kept(Len(q))
  <2>1. Len(q) \in 0..Len(q)
    BY <1>2
  <2> HIDE DEF Kept
  <2> QED BY <1>3, <2>1
<1>5. /\ \A x \in Range(k[Len(q)]) : \E i \in 1..Len(q) : q[i] = x
      /\ \A x, y : Before(k[Len(q)], x, y) => Before(q, x, y)
  BY <1>4 DEF Before
<1>6. Range(k[Len(q)]) \subseteq Range(q)
  BY <1>2, <1>5
<1> HIDE DEF Kept, Bad
<1> QED BY <1>1, <1>5, <1>6

\* A set that 0 is in, and with every number below n the next one, has all numbers up to n.
LEMMA UpTo ==
  ASSUME NEW n \in Nat, NEW P, 0 \in P, \A i \in 1..n : i - 1 \in P => i \in P
  PROVE  0..n \subseteq P
<1> DEFINE Bad == {i \in 0..n : i \notin P}
<1>1. SUFFICES ASSUME Bad # {} PROVE FALSE
  OBVIOUS
<1>2. PICK m \in Bad : \A k \in Bad : m <= k
  <2>1. Bad \subseteq Nat
    OBVIOUS
  <2> HIDE DEF Bad
  <2> QED BY <1>1, <2>1, LeastNatural
<1>3. m \in 1..n /\ m - 1 \in 0..n /\ ~(m <= m - 1)
  BY <1>2
<1>4. m - 1 \notin Bad
  <2> HIDE DEF Bad
  <2> QED BY <1>2, <1>3
<1> QED BY <1>2, <1>3, <1>4

\* To flush a queue is to flush what was in it before the last message, ...
LEMMA WithoutAppend ==
  ASSUME NEW T, NEW q \in Seq(T), NEW x \in T, NEW S
  PROVE  Without(Append(q, x), S) = IF x \in S THEN Without(q, S) ELSE Append(Without(q, S), x)
<1> DEFINE s == Append(q, x)
<1>1. PICK a \in Nat : a = Len(q)
  BY LenProperties
<1>2. /\ s \in Seq(T) /\ Len(s) = a + 1 /\ s[a + 1] = x
      /\ \A i \in 1..a : s[i] = q[i]
  BY <1>1, AppendProperties
<1> HIDE DEF s
<1>3. PICK k \in [0..a -> Seq(T)] : Keeps(k, q, S, a) /\ Without(q, S) = k[a]
  BY <1>1, KeptDefined
<1>4. PICK m \in [0..a + 1 -> Seq(T)] : Keeps(m, s, S, a + 1) /\ Without(s, S) = m[a + 1]
  <2>1. \E m \in [0..Len(s) -> Seq(T)] : Keeps(m, s, S, Len(s)) /\ Without(s, S) = m[Len(s)]
    BY <1>2, KeptDefined
  <2> QED BY <1>2, <2>1
<1> DEFINE P == {i \in 0..a : m[i] = k[i]}
<1>5. 0 \in P
  BY <1>3, <1>4 DEF Keeps
<1>6. ASSUME NEW i \in 1..a, i - 1 \in P PROVE i \in P
  <2>1. i \in 1..a + 1 /\ s[i] = q[i] /\ i \in 0..a
    BY <1>2
  <2>2. m[i] = IF s[i] \in S THEN m[i - 1] ELSE Append(m[i - 1], s[i])
    BY <1>4, <2>1 DEF Keeps
  <2>3. k[i] = IF q[i] \in S THEN k[i - 1] ELSE Append(k[i - 1], q[i])
    BY <1>3 DEF Keeps
  <2> QED BY <1>6, <2>1, <2>2, <2>3
<1>7. a \in P
  <2>1. 0..a \subseteq P
    <3> HIDE DEF P
    <3> QED BY <1>5, <1>6, UpTo
  <2> HIDE DEF P
  <2> QED BY <2>1
<1>8. m[a + 1] = IF s[a + 1] \in S THEN m[a] ELSE Append(m[a], s[a + 1])
  <2>1. a + 1 \in 1..a + 1 /\ (a + 1) - 1 = a
    OBVIOUS
  <2>2. \A i \in 1..a + 1 : m[i] = IF s[i] \in S THEN m[i - 1] ELSE Append(m[i - 1], s[i])
    BY <1>4 DEF Keeps
  <2> QED BY <2>1, <2>2
<1>9. m[a] = k[a]
  BY <1>7
<1> QED BY <1>2, <1>3, <1>4, <1>8, <1>9 DEF s

\* ... so that two queues one after the other are flushed like each of them.
FlushedApart(q, r, S) == Without(q \o r, S) = Without(q, S) \o Without(r, S)

\* This stays true when a message is added to the second queue, ...
LEMMA WithoutConcatStep ==
  ASSUME NEW T, NEW q \in Seq(T), NEW S, NEW s \in Seq(T), NEW x \in T
  PROVE  FlushedApart(q, s, S) => FlushedApart(q, Append(s, x), S)
<1>0. \A a, b, c \in Seq(T) : (a \o b) \o c = a \o (b \o c)
  BY ConcatAssociative
<1> DEFINE y == <<x>>
           t == q \o s
           u == Without(q, S)
           v == Without(s, S)
<1>1. y \in Seq(T) /\ t \in Seq(T) /\ u \in Seq(T) /\ v \in Seq(T)
  BY ConcatProperties, WithoutType
<1>2. \A a \in Seq(T) : Append(a, x) = a \o y
  BY AppendIsConcat
<1>3. t = q \o s /\ v = Without(s, S) /\ u = Without(q, S) /\ u \o v \in Seq(T)
  BY <1>1, ConcatProperties
<1> HIDE DEF y, t, u, v
<1>4. /\ Without(Append(t, x), S) = IF x \in S THEN Without(t, S) ELSE Append(Without(t, S), x)
      /\ Without(Append(s, x), S) = IF x \in S THEN Without(s, S) ELSE Append(Without(s, S), x)
  BY <1>1, WithoutAppend
<1>5. (q \o s) \o y = q \o (s \o y)
  BY <1>0, <1>1
<1>6. (u \o v) \o y = u \o (v \o y)
  BY <1>0, <1>1
<1>7. q \o Append(s, x) = Append(t, x)
  BY <1>1, <1>2, <1>3, <1>5
<1>8. Without(t, S) = u \o v => Without(Append(t, x), S) = u \o Without(Append(s, x), S)
  BY <1>1, <1>2, <1>3, <1>4, <1>6
<1>9. Without(q \o s, S) = Without(q, S) \o Without(s, S)
        => Without(q \o Append(s, x), S) = Without(q, S) \o Without(Append(s, x), S)
  BY <1>3, <1>7, <1>8
<1> QED BY <1>9 DEF FlushedApart

\* ... hence of all queues.
LEMMA WithoutConcat ==
  ASSUME NEW T, NEW q \in Seq(T), NEW r \in Seq(T), NEW S
  PROVE  Without(q \o r, S) = Without(q, S) \o Without(r, S)
<1> DEFINE P == {n \in Nat : \A s \in Seq(T) : Len(s) = n => FlushedApart(q, s, S)}
<1>2. FlushedApart(q, <<>>, S)
  <2>1. q \o <<>> = q
    BY ConcatEmptySeq
  <2>2. Without(q, S) \o <<>> = Without(q, S)
    BY WithoutType, ConcatEmptySeq
  <2>3. Without(<<>>, S) = <<>>
    BY WithoutEmpty
  <2> QED BY <2>1, <2>2, <2>3 DEF FlushedApart
<1>3. 0 \in P
  BY <1>2, EmptySeq
<1>4. ASSUME NEW n \in 1..Len(r), n - 1 \in P PROVE n \in P
  <2>0. n \in Nat /\ n # 0
    BY LenProperties
  <2> SUFFICES ASSUME NEW s \in Seq(T), Len(s) = n PROVE FlushedApart(q, s, S)
    BY <2>0
  <2>1. PICK t \in Seq(T), x \in T : s = Append(t, x)
    <3>1. s # <<>>
      BY <2>0, EmptySeq
    <3> QED BY <3>1, SequenceEmptyOrAppend
  <2>2. Len(t) = n - 1
    <3>1. Len(t) \in Nat /\ Len(s) = Len(t) + 1
      BY <2>1, LenProperties, AppendProperties
    <3> QED BY <2>0, <3>1
  <2>3. FlushedApart(q, t, S)
    BY <1>4, <2>2
  <2> QED BY <2>1, <2>3, WithoutConcatStep
<1>5. Len(r) \in P
  <2>1. Len(r) \in Nat
    BY LenProperties
  <2>2. 0..Len(r) \subseteq P
    <3> HIDE DEF P
    <3> QED BY <1>3, <1>4, <2>1, UpTo
  <2>3. Len(r) \in 0..Len(r)
    BY <2>1
  <2> HIDE DEF P
  <2> QED BY <2>2, <2>3
<1>6. FlushedApart(q, r, S)
  BY <1>5
<1> QED BY <1>6 DEF FlushedApart

\* None of what is flushed is left.
LEMMA WithoutRemoves ==
  ASSUME NEW T, NEW q \in Seq(T), NEW S
  PROVE  Without(q, S) \in Seq(T \ S)
<1>1. PICK k \in [0..Len(q) -> Seq(T)] : Keeps(k, q, S, Len(q)) /\ Without(q, S) = k[Len(q)]
  BY KeptDefined
<1>2. Len(q) \in Nat
  BY LenProperties
<1> DEFINE P == {i \in 0..Len(q) : k[i] \in Seq(T \ S)}
<1>3. 0 \in P
  <2>1. k[0] = <<>> /\ <<>> \in Seq(T \ S)
    BY <1>1, EmptySeq DEF Keeps
  <2> QED BY <1>2, <2>1
<1>4. ASSUME NEW i \in 1..Len(q), i - 1 \in P PROVE i \in P
  <2>1. k[i] = IF q[i] \in S THEN k[i - 1] ELSE Append(k[i - 1], q[i])
    BY <1>1 DEF Keeps
  <2>2. k[i - 1] \in Seq(T \ S) /\ q[i] \in T /\ i \in 0..Len(q)
    BY <1>2, <1>4, ElementOfSeq
  <2>3. q[i] \notin S => Append(k[i - 1], q[i]) \in Seq(T \ S)
    BY <2>2, AppendProperties
  <2> QED BY <2>1, <2>2, <2>3
<1>5. Len(q) \in P
  <2>1. 0..Len(q) \subseteq P
    <3> HIDE DEF P
    <3> QED BY <1>2, <1>3, <1>4, UpTo
  <2>2. Len(q) \in 0..Len(q)
    BY <1>2
  <2> HIDE DEF P
  <2> QED BY <2>1, <2>2
<1> QED BY <1>1, <1>5

\* A queue is its first message and the others.
LEMMA HeadAndTail ==
  ASSUME NEW T, NEW q \in Seq(T), q # <<>>
  PROVE  q = <<Head(q)>> \o Tail(q)
<1>1. Len(q) \in Nat \ {0} /\ Len(q) \in 1..Len(q)
  BY EmptySeq
<1>2. SubSeq(q, 1, Len(q)) = <<q[1]>> \o SubSeq(q, 2, Len(q))
  BY <1>1, SubSeqRecursiveFirst
<1>3. Tail(q) = SubSeq(q, 2, Len(q)) /\ q = SubSeq(q, 1, Len(q))
  BY TailIsSubSeq, SubSeqFull
<1>4. Head(q) = q[1]
  OBVIOUS
<1> QED BY <1>2, <1>3, <1>4

\* Of a single message all or nothing is left.
LEMMA WithoutOne ==
  ASSUME NEW T, NEW x \in T, NEW S
  PROVE  Without(<<x>>, S) = IF x \in S THEN <<>> ELSE <<x>>
<1>1. <<x>> \in Seq(T) /\ Len(<<x>>) = 1 /\ <<x>>[1] = x
  OBVIOUS
<1>2. PICK k \in [0..1 -> Seq(T)] : Keeps(k, <<x>>, S, 1) /\ Without(<<x>>, S) = k[1]
  <2>1. \E k \in [0..Len(<<x>>) -> Seq(T)] :
          Keeps(k, <<x>>, S, Len(<<x>>)) /\ Without(<<x>>, S) = k[Len(<<x>>)]
    BY <1>1, KeptDefined
  <2> QED BY <1>1, <2>1
<1>3. k[0] = <<>> /\ k[1] = IF <<x>>[1] \in S THEN k[0] ELSE Append(k[0], <<x>>[1])
  BY <1>2 DEF Keeps
<1>4. Append(<<>>, x) = <<x>>
  OBVIOUS
<1> QED BY <1>1, <1>2, <1>3, <1>4

-----------------------------------------------------------------------------
(* FlattenSeq. *)

\* f[i] are the first i sequences of ss, one after the other, for all i up to n.
Flattens(f, ss, n) ==
  /\ f[0] = <<>>
  /\ \A i \in 1..n : f[i] = f[i - 1] \o ss[i]

\* There is such an f for every n, ...
LEMMA FlatExists ==
  ASSUME NEW T, NEW ss \in Seq(Seq(T))
  PROVE  \E f \in [0..Len(ss) -> Seq(T)] : Flattens(f, ss, Len(ss))
<1>1. PICK a \in Nat : a = Len(ss)
  BY LenProperties
<1> DEFINE P == {n \in 0..a : \E f \in [0..n -> Seq(T)] : Flattens(f, ss, n)}
<1>2. 0 \in P
  <2>1. [i \in 0..0 |-> <<>>] \in [0..0 -> Seq(T)]
    BY EmptySeq
  <2>2. Flattens([i \in 0..0 |-> <<>>], ss, 0)
    BY DEF Flattens
  <2>3. 0 \in 0..a
    OBVIOUS
  <2> QED BY <2>1, <2>2, <2>3
<1>3. ASSUME NEW n \in 1..a, n - 1 \in P PROVE n \in P
  <2>1. PICK f \in [0..n-1 -> Seq(T)] : Flattens(f, ss, n - 1)
    BY <1>3
  <2> DEFINE x == f[n - 1] \o ss[n]
             g == [i \in 0..n |-> IF i = n THEN x ELSE f[i]]
  <2>2. ss[n] \in Seq(T) /\ f[n - 1] \in Seq(T)
    BY <1>1, ElementOfSeq
  <2>3. x \in Seq(T)
    BY <2>2, ConcatProperties
  <2>4. g \in [0..n -> Seq(T)]
    <3> HIDE DEF x
    <3> QED BY <2>3
  <2>5. g[0] = <<>>
    BY <2>1 DEF Flattens
  <2>6. ASSUME NEW i \in 1..n PROVE g[i] = g[i - 1] \o ss[i]
    <3>1. CASE i = n
      <4>0. n \in 0..n /\ n - 1 \in 0..n /\ n - 1 # n
        OBVIOUS
      <4>1. g[n] = x /\ g[n - 1] = f[n - 1]
        <5> HIDE DEF x
        <5> QED BY <4>0
      <4> HIDE DEF g
      <4> QED BY <3>1, <4>1
    <3>2. CASE i # n
      <4>1. g[i] = f[i] /\ g[i - 1] = f[i - 1] /\ i \in 1..n - 1
        BY <3>2
      <4> HIDE DEF g
      <4> QED BY <2>1, <4>1 DEF Flattens
    <3> QED BY <3>1, <3>2
  <2>7. Flattens(g, ss, n)
    <3> HIDE DEF g
    <3> QED BY <2>5, <2>6 DEF Flattens
  <2>8. n \in 0..a
    OBVIOUS
  <2> HIDE DEF g
  <2> QED BY <2>4, <2>7, <2>8
<1>4. a \in P
  <2>1. 0..a \subseteq P
    <3> HIDE DEF P
    <3> QED BY <1>2, <1>3, UpTo
  <2>2. a \in 0..a
    OBVIOUS
  <2> HIDE DEF P
  <2> QED BY <2>1, <2>2
<1> QED BY <1>1, <1>4

\* ... and the definition of FlattenSeq stands for it.
LEMMA FlatDefined ==
  ASSUME NEW T, NEW ss \in Seq(Seq(T))
  PROVE  \E f \in [0..Len(ss) -> Seq(T)] :
           Flattens(f, ss, Len(ss)) /\ FlattenSeq(ss) = f[Len(ss)]
<1> DEFINE D(f) == [i \in 1..Len(ss) |-> IF i = 1 THEN ss[i] ELSE f[i - 1] \o ss[i]]
           c == CHOOSE f : f = D(f)
<1>0. Len(ss) \in Nat /\ \A i \in 1..Len(ss) : ss[i] \in Seq(T)
  BY LenProperties, ElementOfSeq
<1>1. PICK f \in [0..Len(ss) -> Seq(T)] : Flattens(f, ss, Len(ss))
  BY FlatExists
<1>2. CASE Len(ss) = 0
  <2>1. FlattenSeq(ss) = <<>>
    <3>1. ss = <<>>
      BY <1>2, EmptySeq
    <3> QED BY <1>2, <3>1 DEF FlattenSeq
  <2> QED BY <1>1, <1>2, <2>1 DEF Flattens
<1>3. CASE Len(ss) # 0
  <2> DEFINE g == [i \in 1..Len(ss) |-> f[i]]
  <2>1. g = D(g)
    <3>1. ASSUME NEW i \in 1..Len(ss) PROVE f[i] = IF i = 1 THEN ss[i] ELSE g[i - 1] \o ss[i]
      <4>1. f[i] = f[i - 1] \o ss[i]
        BY <1>1 DEF Flattens
      <4>2. CASE i = 1
        <5>1. f[0] = <<>> /\ i - 1 = 0
          BY <1>1, <4>2 DEF Flattens
        <5>2. <<>> \o ss[i] = ss[i]
          BY <1>0, ConcatEmptySeq
        <5> QED BY <4>1, <4>2, <5>1, <5>2
      <4>3. CASE i # 1
        <5>1. g[i - 1] = f[i - 1]
          BY <1>0, <4>3
        <5> HIDE DEF g
        <5> QED BY <4>1, <4>3, <5>1
      <4> QED BY <4>2, <4>3
    <3> QED BY <3>1
  <2>2. c = D(c)
    <3> HIDE DEF g, D
    <3> QED BY <2>1
  <2>3. FlattenSeq(ss) = c[Len(ss)]
    BY <1>3 DEF FlattenSeq
  <2> HIDE DEF c
  <2>4. \A i \in 1..Len(ss) : c[i] = IF i = 1 THEN ss[i] ELSE c[i - 1] \o ss[i]
    BY <2>2
  <2> DEFINE P == {i \in 0..Len(ss) : i # 0 => c[i] = f[i]}
  <2>5. 0 \in P
    BY <1>0
  <2>6. ASSUME NEW i \in 1..Len(ss), i - 1 \in P PROVE i \in P
    <3>1. f[i] = f[i - 1] \o ss[i]
      BY <1>1 DEF Flattens
    <3>2. i \in 0..Len(ss)
      BY <1>0
    <3>3. CASE i = 1
      <4>1. f[0] = <<>> /\ i - 1 = 0
        BY <1>1, <3>3 DEF Flattens
      <4>2. <<>> \o ss[i] = ss[i]
        BY <1>0, ConcatEmptySeq
      <4>3. c[i] = ss[i]
        BY <2>4, <3>3
      <4> QED BY <3>1, <3>2, <4>1, <4>2, <4>3
    <3>4. CASE i # 1
      <4>1. c[i] = c[i - 1] \o ss[i]
        BY <2>4, <3>4
      <4>2. c[i - 1] = f[i - 1]
        BY <2>6, <3>4
      <4> QED BY <3>1, <3>2, <4>1, <4>2
    <3> QED BY <3>3, <3>4
  <2>7. Len(ss) \in P
    <3>1. 0..Len(ss) \subseteq P
      <4> HIDE DEF P
      <4> QED BY <1>0, <2>5, <2>6, UpTo
    <3>2. Len(ss) \in 0..Len(ss)
      BY <1>0
    <3> HIDE DEF P
    <3> QED BY <3>1, <3>2
  <2>8. c[Len(ss)] = f[Len(ss)]
    BY <1>3, <2>7
  <2> QED BY <1>1, <2>3, <2>8
<1> QED BY <1>2, <1>3

\* What is flattened is a sequence, ...
LEMMA FlattenType ==
  ASSUME NEW T, NEW ss \in Seq(Seq(T))
  PROVE  FlattenSeq(ss) \in Seq(T)
<1>1. Len(ss) \in 0..Len(ss)
  BY LenProperties
<1> QED BY <1>1, FlatDefined

\* ... empty if there is nothing to flatten, ...
LEMMA FlattenEmpty == FlattenSeq(<<>>) = <<>>
BY DEF FlattenSeq

\* ... and a sequence that is added comes behind all others.
LEMMA FlattenAppend ==
  ASSUME NEW T, NEW ss \in Seq(Seq(T)), NEW x \in Seq(T)
  PROVE  FlattenSeq(Append(ss, x)) = FlattenSeq(ss) \o x
<1> DEFINE s == Append(ss, x)
<1>1. PICK a \in Nat : a = Len(ss)
  BY LenProperties
<1>2. /\ s \in Seq(Seq(T)) /\ Len(s) = a + 1 /\ s[a + 1] = x
      /\ \A i \in 1..a : s[i] = ss[i]
  BY <1>1, AppendProperties
<1> HIDE DEF s
<1>3. PICK k \in [0..a -> Seq(T)] : Flattens(k, ss, a) /\ FlattenSeq(ss) = k[a]
  BY <1>1, FlatDefined
<1>4. PICK m \in [0..a + 1 -> Seq(T)] : Flattens(m, s, a + 1) /\ FlattenSeq(s) = m[a + 1]
  <2>1. \E m \in [0..Len(s) -> Seq(T)] : Flattens(m, s, Len(s)) /\ FlattenSeq(s) = m[Len(s)]
    BY <1>2, FlatDefined
  <2> QED BY <1>2, <2>1
<1> DEFINE P == {i \in 0..a : m[i] = k[i]}
<1>5. 0 \in P
  BY <1>3, <1>4 DEF Flattens
<1>6. ASSUME NEW i \in 1..a, i - 1 \in P PROVE i \in P
  <2>1. i \in 1..a + 1 /\ s[i] = ss[i] /\ i \in 0..a
    BY <1>2
  <2>2. m[i] = m[i - 1] \o s[i]
    BY <1>4, <2>1 DEF Flattens
  <2>3. k[i] = k[i - 1] \o ss[i]
    BY <1>3 DEF Flattens
  <2> QED BY <1>6, <2>1, <2>2, <2>3
<1>7. a \in P
  <2>1. 0..a \subseteq P
    <3> HIDE DEF P
    <3> QED BY <1>5, <1>6, UpTo
  <2> HIDE DEF P
  <2> QED BY <2>1
<1>8. m[a + 1] = m[a] \o s[a + 1]
  <2>1. a + 1 \in 1..a + 1 /\ (a + 1) - 1 = a
    OBVIOUS
  <2>2. \A i \in 1..a + 1 : m[i] = m[i - 1] \o s[i]
    BY <1>4 DEF Flattens
  <2> QED BY <2>1, <2>2
<1>9. m[a] = k[a]
  BY <1>7
<1> QED BY <1>2, <1>3, <1>4, <1>8, <1>9 DEF s

-----------------------------------------------------------------------------
(* Sequences one after the other.  (An operator of its own: the provers do *)
(* not find their way through nested concatenations.)                      *)

Joined(s, t) == s \o t

\* Joining is associative, and the empty sequence is its neutral element.
LEMMA JoinedProperties ==
  ASSUME NEW T
  PROVE  /\ \A s, t \in Seq(T) : Joined(s, t) \in Seq(T)
         /\ \A s \in Seq(T) : Joined(s, <<>>) = s /\ Joined(<<>>, s) = s
         /\ \A s, t, u \in Seq(T) : Joined(Joined(s, t), u) = Joined(s, Joined(t, u))
<1>1. \A s, t \in Seq(T) : Joined(s, t) \in Seq(T)
  BY ConcatProperties DEF Joined
<1>2. \A s \in Seq(T) : Joined(s, <<>>) = s /\ Joined(<<>>, s) = s
  BY ConcatEmptySeq DEF Joined
<1>3. \A s, t, u \in Seq(T) : (s \o t) \o u = s \o (t \o u)
  BY ConcatAssociative
<1>4. \A s, t, u \in Seq(T) : Joined(Joined(s, t), u) = Joined(s, Joined(t, u))
  BY <1>3 DEF Joined
<1> QED BY <1>1, <1>2, <1>4

\* Four sequences in a row.
Row(a, b, c, d) == Joined(Joined(Joined(a, b), c), d)

\* What is at the end of one may as well be at the front of the next one.
LEMMA RowMoves ==
  ASSUME NEW T
  PROVE  /\ \A a, b, c, d, x \in Seq(T) : Row(a, Joined(b, x), c, d) = Row(a, b, Joined(x, c), d)
         /\ \A b, c, d, x \in Seq(T) : Row(<<>>, Joined(x, b), c, d) = Row(x, b, c, d)
         /\ \A a, b, d, x \in Seq(T) : Row(a, b, <<>>, Joined(x, d)) = Row(a, b, x, d)
<1> DEFINE S == Seq(T)
<1>1. /\ \A s, t \in S : Joined(s, t) \in S
      /\ \A s \in S : Joined(s, <<>>) = s /\ Joined(<<>>, s) = s
      /\ \A s, t, u \in S : Joined(Joined(s, t), u) = Joined(s, Joined(t, u))
      /\ <<>> \in S
  BY JoinedProperties, EmptySeq
<1> HIDE DEF S
<1>2. ASSUME NEW a \in S, NEW b \in S, NEW c \in S, NEW d \in S, NEW x \in S
      PROVE  Row(a, Joined(b, x), c, d) = Row(a, b, Joined(x, c), d)
  <2>1. Joined(a, b) \in S /\ Joined(Joined(a, b), x) \in S
    BY <1>1
  <2>2. Joined(a, Joined(b, x)) = Joined(Joined(a, b), x)
    BY <1>1
  <2>3. Joined(Joined(Joined(a, b), x), c) = Joined(Joined(a, b), Joined(x, c))
    BY <1>1, <2>1
  <2> QED BY <2>2, <2>3 DEF Row
<1>3. ASSUME NEW b \in S, NEW c \in S, NEW d \in S, NEW x \in S
      PROVE  Row(<<>>, Joined(x, b), c, d) = Row(x, b, c, d)
  BY <1>1 DEF Row
<1>4. ASSUME NEW a \in S, NEW b \in S, NEW d \in S, NEW x \in S
      PROVE  Row(a, b, <<>>, Joined(x, d)) = Row(a, b, x, d)
  <2>1. Joined(a, b) \in S
    BY <1>1
  <2>2. Joined(Joined(a, b), <<>>) = Joined(a, b)
    BY <1>1, <2>1
  <2>3. Joined(Joined(Joined(a, b), x), d) = Joined(Joined(a, b), Joined(x, d))
    BY <1>1, <2>1
  <2> QED BY <2>2, <2>3 DEF Row
<1> QED BY <1>2, <1>3, <1>4 DEF S

\* s without x, which stands at its front, in its midst, or at its end.
AtFront(s, x, new, T) == \E r \in Seq(T) : s = Joined(x, r) /\ new = r
InMidst(s, x, new, T) == \E l, r \in Seq(T) : s = Joined(Joined(l, x), r) /\ new = Joined(l, r)

\* A row without one of its sequences.
LEMMA RowParts ==
  ASSUME NEW T, NEW a \in Seq(T), NEW b \in Seq(T), NEW c \in Seq(T), NEW d \in Seq(T)
  PROVE  /\ Row(a, b, c, d) \in Seq(T)
         /\ AtFront(Row(a, b, c, d), a, Row(<<>>, b, c, d), T)
         /\ InMidst(Row(a, b, c, d), b, Row(a, <<>>, c, d), T)
         /\ InMidst(Row(a, b, c, d), c, Row(a, b, <<>>, d), T)
         /\ InMidst(Row(a, b, c, d), d, Row(a, b, c, <<>>), T)
<1> DEFINE S == Seq(T)
<1>1. /\ \A s, t \in S : Joined(s, t) \in S
      /\ \A s \in S : Joined(s, <<>>) = s /\ Joined(<<>>, s) = s
      /\ \A s, t, u \in S : Joined(Joined(s, t), u) = Joined(s, Joined(t, u))
      /\ <<>> \in S
  BY JoinedProperties, EmptySeq
<1>0. a \in S /\ b \in S /\ c \in S /\ d \in S
  OBVIOUS
<1> HIDE DEF S
<1>2. /\ Joined(a, b) \in S /\ Joined(c, d) \in S /\ Joined(b, c) \in S
      /\ Joined(Joined(a, b), c) \in S /\ Joined(Joined(b, c), d) \in S
      /\ Row(a, b, c, d) \in S
  BY <1>0, <1>1 DEF Row
<1>3. Row(a, b, c, d) = Joined(a, Joined(Joined(b, c), d))
  <2>1. Joined(Joined(a, b), c) = Joined(a, Joined(b, c))
    BY <1>0, <1>1
  <2>2. Joined(Joined(a, Joined(b, c)), d) = Joined(a, Joined(Joined(b, c), d))
    BY <1>0, <1>1, <1>2
  <2> QED BY <2>1, <2>2 DEF Row
<1>4. Row(<<>>, b, c, d) = Joined(Joined(b, c), d)
  BY <1>0, <1>1 DEF Row
<1>5. Row(a, b, c, d) = Joined(Joined(a, b), Joined(c, d))
  BY <1>0, <1>1, <1>2 DEF Row
<1>6. Row(a, <<>>, c, d) = Joined(a, Joined(c, d))
  BY <1>0, <1>1, <1>2 DEF Row
<1>7. Row(a, b, <<>>, d) = Joined(Joined(a, b), d)
  BY <1>0, <1>1, <1>2 DEF Row
<1>8. Row(a, b, c, <<>>) = Joined(Joined(a, b), c)
  BY <1>0, <1>1, <1>2 DEF Row
<1>9. Row(a, b, c, d) = Joined(Joined(Joined(a, b), c), d)
  BY DEF Row
<1>10. AtFront(Row(a, b, c, d), a, Row(<<>>, b, c, d), T)
  BY <1>2, <1>3, <1>4 DEF AtFront, S
<1>11. InMidst(Row(a, b, c, d), b, Row(a, <<>>, c, d), T)
  BY <1>0, <1>2, <1>5, <1>6 DEF InMidst, S
<1>12. InMidst(Row(a, b, c, d), c, Row(a, b, <<>>, d), T)
  BY <1>0, <1>2, <1>7, <1>9 DEF InMidst, S
<1>13. InMidst(Row(a, b, c, d), d, Row(a, b, c, <<>>), T)
  <2>1. PICK l \in S : l = Joined(Joined(a, b), c)
    BY <1>2
  <2>2. Joined(Joined(l, d), <<>>) = Joined(l, d) /\ Joined(l, <<>>) = l
    BY <1>0, <1>1
  <2>3. <<>> \in S
    BY <1>1
  <2> QED BY <1>8, <1>9, <2>1, <2>2, <2>3 DEF InMidst, S
<1> QED BY <1>2, <1>10, <1>11, <1>12, <1>13 DEF S

\* The two parts of a sequence that is two.
LEMMA SubSeqOfJoined ==
  ASSUME NEW T, NEW u \in Seq(T), NEW v \in Seq(T)
  PROVE  /\ Len(Joined(u, v)) = Len(u) + Len(v)
         /\ SubSeq(Joined(u, v), 1, Len(u)) = u
         /\ SubSeq(Joined(u, v), Len(u) + 1, Len(Joined(u, v))) = v
<1> DEFINE w == Joined(u, v)
<1>1. PICK a, b \in Nat : a = Len(u) /\ b = Len(v)
  BY LenProperties
<1>2. /\ w \in Seq(T) /\ Len(w) = a + b
      /\ \A i \in 1..a + b : w[i] = IF i <= a THEN u[i] ELSE v[i - a]
  BY <1>1, ConcatProperties DEF Joined
<1> HIDE DEF w
<1>3. \A i \in 1..a + b : w[i] \in T
  BY <1>2, ElementOfSeq
<1>4. SubSeq(w, 1, a) = u
  <2>1. \A i \in 1..a : w[i] \in T
    BY <1>3
  <2>2. /\ SubSeq(w, 1, a) \in Seq(T)
        /\ Len(SubSeq(w, 1, a)) = IF 1 <= a THEN a - 1 + 1 ELSE 0
        /\ \A i \in 1..a - 1 + 1 : SubSeq(w, 1, a)[i] = w[1 + i - 1]
    <3>1. 1 \in Int /\ a \in Int
      OBVIOUS
    <3> QED BY <2>1, <3>1, SubSeqProperties
  <2>3. Len(SubSeq(w, 1, a)) = Len(u)
    BY <1>1, <2>2
  <2>4. ASSUME NEW i \in 1..Len(u) PROVE SubSeq(w, 1, a)[i] = u[i]
    <3>1. i \in 1..a - 1 + 1 /\ i \in 1..a + b /\ i <= a /\ 1 + i - 1 = i
      BY <1>1
    <3>2. w[i] = u[i]
      BY <1>2, <3>1
    <3> QED BY <2>2, <3>1, <3>2
  <2> QED BY <2>2, <2>3, <2>4, SeqEqual
<1>5. SubSeq(w, a + 1, a + b) = v
  <2>1. \A i \in a + 1..a + b : w[i] \in T
    BY <1>3
  <2>2. /\ SubSeq(w, a + 1, a + b) \in Seq(T)
        /\ Len(SubSeq(w, a + 1, a + b)) = IF a + 1 <= a + b THEN (a + b) - (a + 1) + 1 ELSE 0
        /\ \A i \in 1..(a + b) - (a + 1) + 1 : SubSeq(w, a + 1, a + b)[i] = w[(a + 1) + i - 1]
    <3>1. a + 1 \in Int /\ a + b \in Int
      OBVIOUS
    <3> QED BY <2>1, <3>1, SubSeqProperties
  <2>3. Len(SubSeq(w, a + 1, a + b)) = Len(v)
    BY <1>1, <2>2
  <2>4. ASSUME NEW i \in 1..Len(v) PROVE SubSeq(w, a + 1, a + b)[i] = v[i]
    <3>1. /\ i \in 1..(a + b) - (a + 1) + 1 /\ (a + 1) + i - 1 = a + i
          /\ a + i \in 1..a + b /\ ~(a + i <= a) /\ (a + i) - a = i
      BY <1>1
    <3>2. w[a + i] = v[i]
      BY <1>2, <3>1
    <3> QED BY <2>2, <3>1, <3>2
  <2> QED BY <2>2, <2>3, <2>4, SeqEqual
<1>6. Len(w) = Len(u) + Len(v) /\ SubSeq(w, 1, Len(u)) = u /\ SubSeq(w, Len(u) + 1, Len(w)) = v
  BY <1>1, <1>2, <1>4, <1>5
<1> QED BY <1>6 DEF w

\* s ends in r, behind something; it begins with l and ends in r, with something in between.
EndsIn(s, r) == \E n \in DOMAIN s : r = SubSeq(s, n + 1, Len(s))
BeginsAndEnds(s, l, r) ==
  \E i, j \in DOMAIN s : i <= j /\ l = SubSeq(s, 1, i - 1) /\ r = SubSeq(s, j + 1, Len(s))

\* To take a part from a joined sequence leaves these.
LEMMA JoinedParts ==
  ASSUME NEW T, NEW l \in Seq(T), NEW x \in Seq(T), NEW r \in Seq(T), x # <<>>
  PROVE  EndsIn(Joined(x, r), r) /\ BeginsAndEnds(Joined(Joined(l, x), r), l, r)
<1>1. PICK a, b, c \in Nat : a = Len(l) /\ b = Len(x) /\ c = Len(r)
  BY LenProperties
<1>2. b # 0
  BY <1>1, EmptySeq
<1>3. PICK s \in Seq(T) : s = Joined(x, r)
  BY JoinedProperties
<1>4. PICK m \in Seq(T) : m = Joined(l, x)
  BY JoinedProperties
<1>5. PICK w \in Seq(T) : w = Joined(m, r)
  BY JoinedProperties
<1>6. w = Joined(l, s)
  BY <1>3, <1>4, <1>5, JoinedProperties
<1>7. Len(s) = b + c /\ SubSeq(s, b + 1, Len(s)) = r
  BY <1>1, <1>3, SubSeqOfJoined
<1>8. Len(m) = a + b
  BY <1>1, <1>4, SubSeqOfJoined
<1>9. Len(w) = (a + b) + c /\ SubSeq(w, (a + b) + 1, Len(w)) = r
  <2>1. Len(w) = Len(m) + Len(r) /\ SubSeq(w, Len(m) + 1, Len(w)) = r
    <3>1. /\ Len(Joined(m, r)) = Len(m) + Len(r)
          /\ SubSeq(Joined(m, r), Len(m) + 1, Len(Joined(m, r))) = r
      BY SubSeqOfJoined
    <3> QED BY <1>5, <3>1
  <2> QED BY <1>1, <1>8, <2>1
<1>10. SubSeq(w, 1, a) = l
  BY <1>1, <1>6, SubSeqOfJoined
<1>11. DOMAIN s = 1..b + c /\ DOMAIN w = 1..(a + b) + c
  BY <1>7, <1>9, LenProperties
<1>12. b \in DOMAIN s
  BY <1>2, <1>11
<1>13. a + 1 \in DOMAIN w /\ a + b \in DOMAIN w /\ a + 1 <= a + b /\ (a + 1) - 1 = a
  BY <1>2, <1>11
<1>14. EndsIn(s, r)
  BY <1>7, <1>12 DEF EndsIn
<1>15. BeginsAndEnds(w, l, r)
  BY <1>9, <1>10, <1>13 DEF BeginsAndEnds
<1> QED BY <1>3, <1>4, <1>5, <1>14, <1>15
=============================================================================
