------------------------- MODULE LinkedListTheorems -------------------------
(***************************************************************************)
(* Facts about Path: a sequence without repetitions whose elements are     *)
(* linked one to the next, up to the end, is the path (PathIsUnique), and  *)
(* what appending, prepending, taking and removing do to the links makes   *)
(* the path that sequence with the element appended, prepended and so on.  *)
(***************************************************************************)
EXTENDS LinkedLists, QueueTheorems

Linked(q, first, link, end) ==
  /\ q \in Seq(DOMAIN link)
  /\ \A i, j \in 1..Len(q) : q[i] = q[j] => i = j
  /\ first = IF q = <<>> THEN end ELSE q[1]
  /\ \A i \in 1..Len(q) : link[q[i]] = IF i = Len(q) THEN end ELSE q[i + 1]

\* A sequence without repetitions is as long as its range is large.
LEMMA LengthIsCardinality ==
  ASSUME NEW S, IsFiniteSet(S), NEW q \in Seq(S),
         \A i, j \in 1..Len(q) : q[i] = q[j] => i = j
  PROVE  /\ IsFiniteSet(Range(q)) /\ Len(q) = Cardinality(Range(q))
         /\ Len(q) <= Cardinality(S) /\ Len(q) \in Nat /\ Cardinality(S) \in Nat
<1>1. Len(q) \in Nat /\ DOMAIN q = 1..Len(q) /\ q \in [1..Len(q) -> S]
  BY LenProperties
<1>2. Range(q) = {q[i] : i \in 1..Len(q)} /\ Range(q) \subseteq S
  BY <1>1, RangeEquality, RangeOfSeq
<1>3. IsFiniteSet(1..Len(q)) /\ Cardinality(1..Len(q)) = Len(q)
  <2>1. IsFiniteSet(1..Len(q)) /\ Cardinality(1..Len(q)) = IF 1 > Len(q) THEN 0 ELSE Len(q) - 1 + 1
    BY <1>1, FS_Interval
  <2>2. CASE Len(q) = 0
    BY <2>1, <2>2
  <2>3. CASE Len(q) # 0
    <3>1. ~(1 > Len(q))
      BY <1>1, <2>3
    <3> QED BY <1>1, <2>1, <3>1
  <2> QED BY <2>2, <2>3
<1>4. q \in Bijection(1..Len(q), Range(q))
  <2>1. q \in [1..Len(q) -> Range(q)]
    BY <1>1, <1>2
  <2>2. q \in Injection(1..Len(q), Range(q))
    BY <2>1 DEF Injection, IsInjective
  <2>3. q \in Surjection(1..Len(q), Range(q))
    BY <2>1, <1>2 DEF Surjection
  <2> QED BY <2>2, <2>3 DEF Bijection
<1>5. ExistsBijection(1..Len(q), Range(q))
  BY <1>4 DEF ExistsBijection
<1>6. IsFiniteSet(Range(q)) /\ Cardinality(Range(q)) = Cardinality(1..Len(q))
  BY <1>3, <1>5, FS_Bijection
<1>7. Cardinality(Range(q)) <= Cardinality(S)
  BY <1>2, FS_Subset
<1>8. Cardinality(S) \in Nat
  BY FS_CardinalityType
<1> QED BY <1>1, <1>3, <1>6, <1>7, <1>8

\* The first n elements of q, and one more.
LEMMA OneMore ==
  ASSUME NEW S, NEW q \in Seq(S), NEW n \in 1..Len(q)
  PROVE  /\ SubSeq(q, 1, n) = Append(SubSeq(q, 1, n - 1), q[n])
         /\ Len(SubSeq(q, 1, n - 1)) = n - 1
         /\ SubSeq(q, 1, n - 1) \in Seq(S)
         /\ n # 1 => SubSeq(q, 1, n - 1) # <<>> /\ Last(SubSeq(q, 1, n - 1)) = q[n - 1]
         /\ n = 1 => SubSeq(q, 1, n - 1) = <<>>
<1>1. Len(q) \in Nat /\ n \in Nat /\ n - 1 \in Nat /\ n \in Int
  <2>1. Len(q) \in Nat
    BY LenProperties
  <2> QED BY <2>1
<1>2. \A i \in 1..Len(q) : q[i] \in S
  BY ElementOfSeq
<1> DEFINE p == SubSeq(q, 1, n - 1)
<1>3. \A i \in 1..(n - 1) : q[i] \in S
  BY <1>1, <1>2
<1>4. p \in Seq(S) /\ Len(p) = (IF 1 <= n - 1 THEN (n - 1) - 1 + 1 ELSE 0)
      /\ \A i \in 1..((n - 1) - 1 + 1) : p[i] = q[1 + i - 1]
  <2>1. n - 1 \in Int /\ 1 \in Int
    BY <1>1
  <2> QED BY <1>3, <2>1, SubSeqProperties
<1>5. Len(p) = n - 1
  BY <1>1, <1>4
<1>6. SubSeq(q, 1, n) = p \o <<q[n]>>
  <2>1. 1 \in 1..Len(q) /\ n \in 1..Len(q)
    BY <1>1
  <2> QED BY <2>1, SubSeqRecursiveSecond
<1>7. Append(p, q[n]) = p \o <<q[n]>>
  <2>1. q[n] \in S
    BY <1>2
  <2> QED BY <2>1, <1>4, AppendIsConcat
<1>8. ASSUME n # 1 PROVE p # <<>> /\ Last(p) = q[n - 1]
  <2>1. Len(p) \in 1..((n - 1) - 1 + 1)
    BY <1>1, <1>5, <1>8
  <2>2. p[Len(p)] = q[1 + Len(p) - 1]
    BY <1>4, <2>1
  <2>3. 1 + Len(p) - 1 = n - 1
    BY <1>1, <1>5
  <2>3a. p[Len(p)] = q[n - 1]
    <3> HIDE DEF p
    <3> QED BY <2>2, <2>3
  <2>4. Len(p) # 0
    BY <2>1
  <2>5. Len(<<>>) = 0
    BY EmptySeq
  <2> HIDE DEF p
  <2> QED BY <2>3a, <2>4, <2>5 DEF Last
<1>9. ASSUME n = 1 PROVE p = <<>>
  <2>1. n - 1 < 1 /\ n - 1 \in Int
    BY <1>9
  <2> QED BY <2>1, SubSeqEmpty
<1> QED BY <1>4, <1>5, <1>6, <1>7, <1>8, <1>9

\* A linked sequence is the path from its first element on.
LEMMA PathIsUnique ==
  ASSUME NEW link, IsFiniteSet(DOMAIN link), NEW first, NEW end, end \notin DOMAIN link,
         NEW q, Linked(q, first, link, end)
  PROVE  Path(first, link, end) = q
<1> DEFINE S == DOMAIN link
           N == Cardinality(S) + 1
           D(f) == [n \in 0..N |->
                      IF n = 0 THEN <<>>
                      ELSE LET before == f[n - 1]
                               m == IF before = <<>> THEN first ELSE link[Last(before)]
                           IN  IF Len(before) < n - 1 \/ m = end THEN before
                               ELSE Append(before, m)]
           c == CHOOSE f : f = D(f)
           k == [n \in 0..N |-> IF n <= Len(q) THEN SubSeq(q, 1, n) ELSE q]
<1>0. /\ q \in Seq(S)
      /\ \A i, j \in 1..Len(q) : q[i] = q[j] => i = j
      /\ first = IF q = <<>> THEN end ELSE q[1]
      /\ \A i \in 1..Len(q) : link[q[i]] = IF i = Len(q) THEN end ELSE q[i + 1]
  BY DEF Linked
<1>1. Len(q) \in Nat /\ Len(q) < N /\ N \in Nat
  <2>1. Len(q) <= Cardinality(S) /\ Len(q) \in Nat /\ Cardinality(S) \in Nat
    BY <1>0, LengthIsCardinality
  <2> HIDE DEF S
  <2> QED BY <2>1
<1>2. \A i \in 1..Len(q) : q[i] \in S /\ q[i] # end
  BY <1>0, ElementOfSeq
<1>3. SubSeq(q, 1, Len(q)) = q
  BY <1>0, SubSeqFull
<1>4. (q = <<>>) <=> (Len(q) = 0)
  BY <1>0, <1>1, EmptySeq
<1>5. ASSUME NEW n \in 0..N
      PROVE  k[n] = IF n = 0 THEN <<>>
                    ELSE LET before == k[n - 1]
                             m == IF before = <<>> THEN first ELSE link[Last(before)]
                         IN  IF Len(before) < n - 1 \/ m = end THEN before
                             ELSE Append(before, m)
  <2>0. n \in Nat
    BY <1>1
  <2>1. CASE n = 0
    <3>1. SubSeq(q, 1, 0) = <<>>
      BY SubSeqEmpty
    <3>2. k[0] = SubSeq(q, 1, 0)
      BY <1>1
    <3> QED BY <2>1, <3>1, <3>2
  <2>2. CASE n \in 1..Len(q)
    <3>1. n # 0 /\ n - 1 \in 0..N /\ n - 1 <= Len(q) /\ n <= Len(q) /\ n \in Nat
      BY <1>1, <2>2
    <3>2. k[n] = SubSeq(q, 1, n) /\ k[n - 1] = SubSeq(q, 1, n - 1)
      BY <3>1
    <3> DEFINE before == SubSeq(q, 1, n - 1)
               m == IF before = <<>> THEN first ELSE link[Last(before)]
    <3>3. /\ SubSeq(q, 1, n) = Append(before, q[n]) /\ Len(before) = n - 1
          /\ n # 1 => before # <<>> /\ Last(before) = q[n - 1]
          /\ n = 1 => before = <<>>
      <4>1. q \in Seq(S)
        BY <1>0
      <4> HIDE DEF S
      <4> QED BY <4>1, <2>2, OneMore
    <3>4. m = q[n]
      <4>1. CASE n = 1
        <5>1. q # <<>>
          BY <1>1, <1>4, <2>2
        <5> QED BY <3>3, <4>1, <5>1, <1>0
      <4>2. CASE n # 1
        <5>1. n - 1 \in 1..Len(q) /\ n - 1 # Len(q) /\ n - 1 + 1 = n
          BY <1>1, <2>2, <4>2
        <5>2. link[q[n - 1]] = q[n - 1 + 1]
          BY <1>0, <5>1
        <5> HIDE DEF before
        <5> QED BY <3>3, <4>2, <5>1, <5>2
      <4> QED BY <4>1, <4>2
    <3>5. m # end /\ ~(Len(before) < n - 1)
      <4>1. q[n] # end
        BY <1>2, <2>2
      <4>2. ~(n - 1 < n - 1)
        BY <3>1
      <4> HIDE DEF before, m
      <4> QED BY <3>3, <3>4, <4>1, <4>2
    <3>6. k[n - 1] = before /\ k[n] = Append(before, m)
      <4> HIDE DEF m, k
      <4> QED BY <3>2, <3>3, <3>4
    <3> HIDE DEF k, before
    <3> QED BY <3>1, <3>5, <3>6
  <2>3. CASE n > Len(q)
    <3>1. n # 0 /\ n - 1 \in 0..N /\ ~(n <= Len(q)) /\ n - 1 >= Len(q)
      BY <1>1, <2>0, <2>3
    <3>2. k[n] = q
      BY <3>1
    <3>3. k[n - 1] = q
      <4>1. CASE n - 1 = Len(q)
        BY <1>3, <3>1, <4>1, <1>1
      <4>2. CASE n - 1 # Len(q)
        <5>1. ~(n - 1 <= Len(q))
          BY <1>1, <2>0, <3>1, <4>2
        <5> QED BY <3>1, <5>1
      <4> QED BY <4>1, <4>2
    <3>4. Len(q) < n - 1 \/ (IF q = <<>> THEN first ELSE link[Last(q)]) = end
      <4>1. CASE q = <<>>
        BY <1>0, <4>1
      <4>2. CASE q # <<>>
        <5>1. Len(q) \in 1..Len(q)
          BY <1>1, <1>4, <4>2
        <5>2. link[q[Len(q)]] = end
          BY <1>0, <5>1
        <5> QED BY <4>2, <5>2 DEF Last
      <4> QED BY <4>1, <4>2
    <3> HIDE DEF k
    <3> QED BY <3>1, <3>2, <3>3, <3>4
  <2>4. n = 0 \/ n \in 1..Len(q) \/ n > Len(q)
    BY <1>1, <2>0
  <2> QED BY <2>1, <2>2, <2>3, <2>4
<1>6. k = D(k)
  <2> DEFINE R(n) == IF n = 0 THEN <<>>
                     ELSE LET before == k[n - 1]
                              m == IF before = <<>> THEN first ELSE link[Last(before)]
                          IN  IF Len(before) < n - 1 \/ m = end THEN before
                              ELSE Append(before, m)
  <2>1. D(k) = [n \in 0..N |-> R(n)]
    OBVIOUS
  <2>2. \A n \in 0..N : k[n] = R(n)
    BY <1>5
  <2>3. k = [n \in 0..N |-> k[n]]
    OBVIOUS
  <2> HIDE DEF k, R, D
  <2> QED BY <2>1, <2>2, <2>3
<1>7. c = D(c)
  BY <1>6
<1>8. Path(first, link, end) = c[N]
  BY DEF Path
<1>9. c = k
  <2> DEFINE Bad == {n \in 0..N : c[n] # k[n]}
  <2>0. DOMAIN c = 0..N /\ DOMAIN k = 0..N
    <3>1. \A f : DOMAIN D(f) = 0..N
      OBVIOUS
    <3> HIDE DEF D
    <3> QED BY <1>6, <1>7, <3>1
  <2>1. ASSUME Bad # {} PROVE FALSE
    <3>0. Bad \subseteq Nat
      <4> HIDE DEF k, c
      <4> QED BY <1>1
    <3>1. PICK n \in Bad : \A m \in Bad : n <= m
      <4> HIDE DEF Bad
      <4> QED BY <2>1, <3>0, LeastNatural
    <3>2. n \in 0..N /\ c[n] # k[n]
      BY <3>1
    <3>3. n # 0
      <4>1. \A f : D(f)[0] = <<>>
        BY <1>1
      <4>2. c[0] = <<>> /\ k[0] = <<>>
        <5> HIDE DEF D, k, c
        <5> QED BY <1>6, <1>7, <4>1
      <4> HIDE DEF k, c
      <4> QED BY <3>2, <4>2
    <3>4. n - 1 \in 0..N /\ n \in Nat /\ ~(n <= n - 1)
      <4> HIDE DEF k, c, N
      <4> QED BY <1>1, <3>2, <3>3
    <3>5. n - 1 \notin Bad
      <4> HIDE DEF Bad
      <4> QED BY <3>1, <3>4
    <3>6. c[n - 1] = k[n - 1]
      <4> HIDE DEF k, c
      <4> QED BY <3>4, <3>5
    <3>7. \A f, g : f[n - 1] = g[n - 1] => D(f)[n] = D(g)[n]
      BY <3>2
    <3> HIDE DEF D, k, c
    <3> QED BY <1>6, <1>7, <3>2, <3>6, <3>7
  <2>2. \A n \in 0..N : c[n] = k[n]
    <3> HIDE DEF k, c
    <3> QED BY <2>1
  <2>3. \A f : D(f) = [n \in 0..N |-> D(f)[n]]
    OBVIOUS
  <2>4. c = [n \in 0..N |-> c[n]]
    <3> HIDE DEF D, k, c
    <3> QED BY <1>7, <2>3
  <2>5. k = [n \in 0..N |-> k[n]]
    OBVIOUS
  <2> HIDE DEF D, k, c
  <2> QED BY <2>2, <2>4, <2>5
<1>10. k[N] = q
  <2>1. N \in 0..N /\ ~(N <= Len(q))
    <3> HIDE DEF N
    <3> QED BY <1>1
  <2> QED BY <2>1
<1> HIDE DEF c, k
<1> QED BY <1>8, <1>9, <1>10

-----------------------------------------------------------------------------
\* A path only depends on the links of its elements.
LEMMA LinkedElsewhere ==
  ASSUME NEW link, NEW other, DOMAIN other = DOMAIN link, NEW first, NEW end,
         NEW q, Linked(q, first, link, end),
         \A i \in 1..Len(q) : other[q[i]] = link[q[i]]
  PROVE  Linked(q, first, other, end)
BY DEF Linked

\* An element that leads to the first one becomes the first one.
LEMMA LinkedPrepend ==
  ASSUME NEW link, NEW first, NEW end, NEW q, Linked(q, first, link, end),
         NEW m \in DOMAIN link, \A i \in 1..Len(q) : q[i] # m, link[m] = first
  PROVE  Linked(<<m>> \o q, m, link, end)
<1> DEFINE S == DOMAIN link
           p == <<m>> \o q
<1>0. /\ q \in Seq(S)
      /\ \A i, j \in 1..Len(q) : q[i] = q[j] => i = j
      /\ first = IF q = <<>> THEN end ELSE q[1]
      /\ \A i \in 1..Len(q) : link[q[i]] = IF i = Len(q) THEN end ELSE q[i + 1]
  BY DEF Linked
<1>1. Len(q) \in Nat /\ (q = <<>> <=> Len(q) = 0)
  BY <1>0, LenProperties, EmptySeq
<1>2. <<m>> \in Seq(S) /\ Len(<<m>>) = 1 /\ <<m>>[1] = m
  OBVIOUS
<1>3. p \in Seq(S) /\ Len(p) = 1 + Len(q)
      /\ \A i \in 1..1 + Len(q) : p[i] = IF i <= 1 THEN <<m>>[i] ELSE q[i - 1]
  BY <1>0, <1>2, ConcatProperties
<1>4. p # <<>> /\ p[1] = m /\ Len(p) \in Nat
  <2>1. Len(p) # 0 /\ 1 \in 1..1 + Len(q) /\ Len(p) \in Nat
    BY <1>1, <1>3
  <2>2. Len(<<>>) = 0
    BY EmptySeq
  <2> HIDE DEF p
  <2> QED BY <1>2, <1>3, <2>1, <2>2
<1>5. \A i \in 2..Len(p) : p[i] = q[i - 1] /\ i - 1 \in 1..Len(q)
  BY <1>1, <1>3
<1> HIDE DEF p
<1>6. ASSUME NEW i \in 1..Len(p), NEW j \in 1..Len(p), p[i] = p[j] PROVE i = j
  <2>1. CASE i = 1 /\ j = 1
    BY <2>1
  <2>2. CASE i = 1 /\ j # 1
    <3>1. j \in 2..Len(p)
      BY <1>4, <2>2
    <3> QED BY <1>4, <1>5, <1>6, <2>2, <3>1
  <2>3. CASE i # 1 /\ j = 1
    <3>1. i \in 2..Len(p)
      BY <1>4, <2>3
    <3> QED BY <1>4, <1>5, <1>6, <2>3, <3>1
  <2>4. CASE i # 1 /\ j # 1
    <3>1. i \in 2..Len(p) /\ j \in 2..Len(p)
      BY <1>4, <2>4
    <3>2. q[i - 1] = q[j - 1] /\ i - 1 \in 1..Len(q) /\ j - 1 \in 1..Len(q)
      BY <1>5, <1>6, <3>1
    <3>3. i - 1 = j - 1
      BY <1>0, <3>2
    <3> QED BY <3>1, <3>3
  <2> QED BY <2>1, <2>2, <2>3, <2>4
<1>7. ASSUME NEW i \in 1..Len(p) PROVE link[p[i]] = IF i = Len(p) THEN end ELSE p[i + 1]
  <2>1. CASE i = 1
    <3>1. CASE q = <<>>
      BY <1>0, <1>1, <1>3, <1>4, <2>1, <3>1
    <3>2. CASE q # <<>>
      <4>1. 2 \in 2..Len(p) /\ Len(p) # 1 /\ 2 - 1 = 1
        BY <1>1, <1>3, <3>2
      <4>2. p[2] = q[2 - 1]
        BY <1>5, <4>1
      <4> QED BY <1>0, <1>4, <2>1, <3>2, <4>1, <4>2
    <3> QED BY <3>1, <3>2
  <2>2. CASE i # 1
    <3>1. i \in 2..Len(p)
      BY <1>4, <2>2
    <3>2. link[q[i - 1]] = IF i - 1 = Len(q) THEN end ELSE q[i - 1 + 1]
      BY <1>0, <1>5, <3>1
    <3>3. CASE i = Len(p)
      <4>1. i - 1 = Len(q)
        BY <1>1, <1>3, <3>3
      <4> QED BY <1>5, <3>1, <3>2, <3>3, <4>1
    <3>4. CASE i # Len(p)
      <4>1. i + 1 \in 2..Len(p) /\ i + 1 - 1 = i - 1 + 1 /\ i - 1 # Len(q)
        BY <1>1, <1>3, <3>1, <3>4
      <4>2. p[i + 1] = q[i + 1 - 1]
        BY <1>5, <4>1
      <4> QED BY <1>5, <3>1, <3>2, <3>4, <4>1, <4>2
    <3> QED BY <3>3, <3>4
  <2> QED BY <2>1, <2>2
<1>8. Linked(p, m, link, end)
  BY <1>3, <1>4, <1>6, <1>7 DEF Linked
<1> QED BY <1>8 DEF p

\* An element that leads to the end becomes the last one.
LEMMA LinkedAppend ==
  ASSUME NEW link, NEW first, NEW end, NEW q, Linked(q, first, link, end),
         NEW m \in DOMAIN link, \A i \in 1..Len(q) : q[i] # m, link[m] = end
  PROVE  Linked(Append(q, m), IF q = <<>> THEN m ELSE first,
                IF q = <<>> THEN link ELSE [link EXCEPT ![Last(q)] = m], end)
<1> DEFINE S == DOMAIN link
           p == Append(q, m)
           other == IF q = <<>> THEN link ELSE [link EXCEPT ![Last(q)] = m]
<1>0. /\ q \in Seq(S)
      /\ \A i, j \in 1..Len(q) : q[i] = q[j] => i = j
      /\ first = IF q = <<>> THEN end ELSE q[1]
      /\ \A i \in 1..Len(q) : link[q[i]] = IF i = Len(q) THEN end ELSE q[i + 1]
  BY DEF Linked
<1>1. Len(q) \in Nat /\ (q = <<>> <=> Len(q) = 0)
  BY <1>0, LenProperties, EmptySeq
<1>2. p \in Seq(S) /\ p # <<>> /\ Len(p) = Len(q) + 1
      /\ (\A i \in 1..Len(q) : p[i] = q[i]) /\ p[Len(q) + 1] = m
  BY <1>0, AppendProperties
<1>3. DOMAIN other = S
  OBVIOUS
<1>4. \A i \in 1..Len(q) : q[i] \in S
  BY <1>0, ElementOfSeq
<1>5. ASSUME NEW i \in 1..Len(q), i # Len(q) PROVE other[q[i]] = q[i + 1]
  <2>1. Len(q) \in 1..Len(q)
    BY <1>1
  <2>2. q[i] # Last(q)
    BY <1>0, <1>5, <2>1 DEF Last
  <2>3. other[q[i]] = link[q[i]]
    BY <1>4, <2>2
  <2> QED BY <1>0, <1>5, <2>3
<1>6. ASSUME q # <<>> PROVE other[q[Len(q)]] = m
  <2>1. Len(q) \in 1..Len(q)
    BY <1>1, <1>6
  <2> QED BY <1>4, <1>6, <2>1 DEF Last
<1>7. other[m] = end
  <2>1. CASE q = <<>>
    BY <2>1
  <2>2. CASE q # <<>>
    <3>1. Len(q) \in 1..Len(q)
      BY <1>1, <2>2
    <3>2. m # Last(q)
      BY <3>1 DEF Last
    <3> QED BY <2>2, <3>2
  <2> QED BY <2>1, <2>2
<1>8. (IF q = <<>> THEN m ELSE first) = p[1]
  <2>1. CASE q = <<>>
    <3>1. Len(q) + 1 = 1
      BY <1>1, <2>1
    <3> HIDE DEF p
    <3> QED BY <1>2, <2>1, <3>1
  <2>2. CASE q # <<>>
    <3>1. 1 \in 1..Len(q)
      BY <1>1, <2>2
    <3> HIDE DEF p
    <3> QED BY <1>0, <1>2, <2>2, <3>1
  <2> QED BY <2>1, <2>2
<1> HIDE DEF p, other
<1>9. \A i \in 1..Len(p) : i \in 1..Len(q) \/ i = Len(q) + 1
  BY <1>1, <1>2
<1>10. ASSUME NEW i \in 1..Len(p), NEW j \in 1..Len(p), p[i] = p[j] PROVE i = j
  <2>1. CASE i \in 1..Len(q) /\ j \in 1..Len(q)
    BY <1>0, <1>2, <1>10, <2>1
  <2> QED BY <1>2, <1>9, <1>10, <2>1
<1>11. ASSUME NEW i \in 1..Len(p) PROVE other[p[i]] = IF i = Len(p) THEN end ELSE p[i + 1]
  <2>1. CASE i = Len(q) + 1
    BY <1>2, <1>7, <2>1
  <2>2. CASE i \in 1..Len(q) /\ i = Len(q)
    <3>1. i # Len(p) /\ i + 1 = Len(q) + 1 /\ q # <<>>
      BY <1>1, <1>2, <2>2
    <3> QED BY <1>2, <1>6, <2>2, <3>1
  <2>3. CASE i \in 1..Len(q) /\ i # Len(q)
    <3>1. i # Len(p) /\ i + 1 \in 1..Len(q)
      BY <1>1, <1>2, <2>3
    <3> QED BY <1>2, <1>5, <2>3, <3>1
  <2> QED BY <1>9, <2>1, <2>2, <2>3
<1>12. Linked(p, IF q = <<>> THEN m ELSE first, other, end)
  BY <1>2, <1>3, <1>8, <1>10, <1>11 DEF Linked
<1> QED BY <1>12 DEF p, other

\* What RemoveAt returns.
LEMMA RemoveAtProperties ==
  ASSUME NEW S, NEW q \in Seq(S), NEW k \in 1..Len(q)
  PROVE  /\ RemoveAt(q, k) \in Seq(S)
         /\ Len(RemoveAt(q, k)) = Len(q) - 1
         /\ \A i \in 1..Len(q) - 1 : RemoveAt(q, k)[i] = IF i < k THEN q[i] ELSE q[i + 1]
<1> DEFINE a == SubSeq(q, 1, k - 1)
           b == SubSeq(q, k + 1, Len(q))
<1>1. Len(q) \in Nat /\ k \in Nat /\ 1 <= k /\ k <= Len(q)
  <2>1. Len(q) \in Nat
    BY LenProperties
  <2> QED BY <2>1
<1>2. \A i \in 1..Len(q) : q[i] \in S
  BY ElementOfSeq
<1>3. a \in Seq(S) /\ Len(a) = k - 1 /\ \A i \in 1..k - 1 : a[i] = q[i]
  <2>1. 1 \in Int /\ k - 1 \in Int /\ \A i \in 1..k - 1 : q[i] \in S
    BY <1>1, <1>2
  <2>2. /\ a \in Seq(S) /\ Len(a) = IF 1 <= k - 1 THEN k - 1 - 1 + 1 ELSE 0
        /\ \A i \in 1..k - 1 - 1 + 1 : a[i] = q[1 + i - 1]
    BY <2>1, SubSeqProperties
  <2> HIDE DEF a
  <2> QED BY <1>1, <2>2
<1>4. b \in Seq(S) /\ Len(b) = Len(q) - k /\ \A i \in 1..Len(q) - k : b[i] = q[k + i]
  <2>1. k + 1 \in Int /\ Len(q) \in Int /\ \A i \in k + 1..Len(q) : q[i] \in S
    BY <1>1, <1>2
  <2>2. /\ b \in Seq(S) /\ Len(b) = IF k + 1 <= Len(q) THEN Len(q) - (k + 1) + 1 ELSE 0
        /\ \A i \in 1..Len(q) - (k + 1) + 1 : b[i] = q[(k + 1) + i - 1]
    BY <2>1, SubSeqProperties
  <2>3. Len(b) = Len(q) - k
    <3>1. (IF k + 1 <= Len(q) THEN Len(q) - (k + 1) + 1 ELSE 0) = Len(q) - k
      <4>1. CASE k = Len(q)
        BY <1>1, <4>1
      <4>2. CASE k < Len(q)
        BY <1>1, <4>2
      <4> QED BY <1>1, <4>1, <4>2
    <3> HIDE DEF b
    <3> QED BY <2>2, <3>1
  <2>4. ASSUME NEW i \in 1..Len(q) - k PROVE b[i] = q[k + i]
    <3>1. i \in 1..Len(q) - (k + 1) + 1 /\ (k + 1) + i - 1 = k + i
      BY <1>1
    <3> HIDE DEF b
    <3> QED BY <2>2, <3>1
  <2> QED BY <2>2, <2>3, <2>4
<1>5. RemoveAt(q, k) = a \o b
  BY DEF RemoveAt
<1>6. a \o b \in Seq(S) /\ Len(a \o b) = Len(a) + Len(b)
      /\ \A i \in 1..Len(a) + Len(b) : (a \o b)[i] = IF i <= Len(a) THEN a[i] ELSE b[i - Len(a)]
  BY <1>3, <1>4, ConcatProperties
<1> HIDE DEF a, b
<1>7. Len(a) + Len(b) = Len(q) - 1
  BY <1>1, <1>3, <1>4
<1>8. ASSUME NEW i \in 1..Len(q) - 1 PROVE (a \o b)[i] = IF i < k THEN q[i] ELSE q[i + 1]
  <2>1. (a \o b)[i] = IF i <= k - 1 THEN a[i] ELSE b[i - (k - 1)]
    BY <1>3, <1>6, <1>7
  <2>2. CASE i < k
    <3>1. i <= k - 1 /\ i \in 1..k - 1
      BY <1>1, <2>2
    <3> QED BY <1>3, <2>1, <2>2, <3>1
  <2>3. CASE ~(i < k)
    <3>1. ~(i <= k - 1) /\ i - (k - 1) \in 1..Len(q) - k /\ k + (i - (k - 1)) = i + 1
      BY <1>1, <2>3
    <3>2. b[i - (k - 1)] = q[k + (i - (k - 1))]
      BY <1>4, <3>1
    <3> QED BY <2>1, <2>3, <3>1, <3>2
  <2> QED BY <2>2, <2>3
<1> QED BY <1>5, <1>6, <1>7, <1>8

\* Without its k-th element, a sequence without repetitions holds the others.
LEMMA RangeRemoveAt ==
  ASSUME NEW S, NEW q \in Seq(S), NEW k \in 1..Len(q),
         \A i, j \in 1..Len(q) : q[i] = q[j] => i = j
  PROVE  Range(RemoveAt(q, k)) = Range(q) \ {q[k]}
<1> DEFINE p == RemoveAt(q, k)
<1>1. Len(q) \in Nat /\ p \in Seq(S) /\ Len(p) = Len(q) - 1
      /\ \A i \in 1..Len(q) - 1 : p[i] = IF i < k THEN q[i] ELSE q[i + 1]
  BY LenProperties, RemoveAtProperties
<1>2. Range(q) = {q[i] : i \in 1..Len(q)} /\ Range(p) = {p[i] : i \in 1..Len(p)}
  BY <1>1, RangeEquality
<1> HIDE DEF p
<1>3. ASSUME NEW i \in 1..Len(p) PROVE p[i] \in Range(q) \ {q[k]}
  <2>1. CASE i < k
    <3>1. i \in 1..Len(q) /\ i # k
      BY <1>1, <2>1
    <3> QED BY <1>1, <1>2, <2>1, <3>1
  <2>2. CASE ~(i < k)
    <3>1. i + 1 \in 1..Len(q) /\ i + 1 # k /\ i \in 1..Len(q) - 1
      BY <1>1, <2>2
    <3>2. p[i] = q[i + 1]
      BY <1>1, <2>2, <3>1
    <3> QED BY <1>2, <3>1, <3>2
  <2> QED BY <2>1, <2>2
<1>4. ASSUME NEW i \in 1..Len(q), i # k PROVE q[i] \in Range(p)
  <2>1. CASE i < k
    <3>1. i \in 1..Len(p) /\ i \in 1..Len(q) - 1
      BY <1>1, <2>1
    <3>2. p[i] = q[i]
      BY <1>1, <2>1, <3>1
    <3> QED BY <1>2, <3>1, <3>2
  <2>2. CASE ~(i < k)
    <3>1. i - 1 \in 1..Len(p) /\ i - 1 \in 1..Len(q) - 1 /\ ~(i - 1 < k) /\ i - 1 + 1 = i
      BY <1>1, <1>4, <2>2
    <3>2. p[i - 1] = q[i]
      BY <1>1, <3>1
    <3> QED BY <1>2, <3>1, <3>2
  <2> QED BY <2>1, <2>2
<1>5. Range(p) = Range(q) \ {q[k]}
  BY <1>2, <1>3, <1>4
<1> QED BY <1>5 DEF p

\* The path without its k-th element: the element before it leads to the one after it.
LEMMA LinkedRemove ==
  ASSUME NEW link, NEW first, NEW end, NEW q, Linked(q, first, link, end),
         NEW k \in 1..Len(q)
  PROVE  Linked(RemoveAt(q, k), IF k = 1 THEN link[q[k]] ELSE first,
                IF k = 1 THEN link ELSE [link EXCEPT ![q[k - 1]] = link[q[k]]], end)
<1> DEFINE S == DOMAIN link
           p == RemoveAt(q, k)
           other == IF k = 1 THEN link ELSE [link EXCEPT ![q[k - 1]] = link[q[k]]]
           start == IF k = 1 THEN link[q[k]] ELSE first
<1>0. /\ q \in Seq(S)
      /\ \A i, j \in 1..Len(q) : q[i] = q[j] => i = j
      /\ first = IF q = <<>> THEN end ELSE q[1]
      /\ \A i \in 1..Len(q) : link[q[i]] = IF i = Len(q) THEN end ELSE q[i + 1]
  BY DEF Linked
<1>1. Len(q) \in Nat /\ k \in Nat /\ 1 <= k /\ k <= Len(q) /\ q # <<>>
  <2>1. Len(q) \in Nat /\ (q = <<>> <=> Len(q) = 0)
    BY <1>0, LenProperties, EmptySeq
  <2> QED BY <2>1
<1>2. p \in Seq(S) /\ Len(p) = Len(q) - 1
      /\ \A i \in 1..Len(q) - 1 : p[i] = IF i < k THEN q[i] ELSE q[i + 1]
  BY <1>0, RemoveAtProperties
<1>3. p = <<>> <=> Len(q) = 1
  <2>1. p = <<>> <=> Len(p) = 0
    BY <1>2, EmptySeq
  <2> HIDE DEF p
  <2> QED BY <1>1, <1>2, <2>1
<1>4. DOMAIN other = S
  OBVIOUS
<1>5. \A i \in 1..Len(q) : q[i] \in S
  BY <1>0, ElementOfSeq
<1>6. ASSUME NEW i \in 1..Len(q), i # k - 1 PROVE other[q[i]] = link[q[i]]
  <2>1. CASE k = 1
    BY <2>1
  <2>2. CASE k # 1
    <3>1. k - 1 \in 1..Len(q)
      BY <1>1, <2>2
    <3>2. q[i] # q[k - 1]
      BY <1>0, <1>6, <3>1
    <3> QED BY <1>5, <2>2, <3>2
  <2> QED BY <2>1, <2>2
<1>7. ASSUME k # 1 PROVE other[q[k - 1]] = link[q[k]] /\ k - 1 \in 1..Len(q)
  <2>1. k - 1 \in 1..Len(q)
    BY <1>1, <1>7
  <2> QED BY <1>5, <1>7, <2>1
<1>8. start = IF p = <<>> THEN end ELSE p[1]
  <2>1. CASE Len(q) = 1
    <3>1. k = 1
      BY <1>1, <2>1
    <3>2. link[q[1]] = end
      BY <1>0, <2>1, <3>1
    <3> QED BY <1>3, <2>1, <3>1, <3>2
  <2>2. CASE Len(q) # 1
    <3>1. 1 \in 1..Len(q) - 1 /\ 1 \in 1..Len(q) /\ 1 # Len(q)
      <4>1. Len(q) \in Nat /\ Len(q) >= 1
        BY <1>1
      <4>2. Len(q) >= 2
        BY <2>2, <4>1
      <4>3. \A n \in Nat : n >= 2 => 1 \in 1..n - 1 /\ 1 \in 1..n /\ 1 # n
        OBVIOUS
      <4> QED BY <4>1, <4>2, <4>3
    <3>2. p[1] = IF 1 < k THEN q[1] ELSE q[1 + 1]
      BY <1>2, <3>1
    <3>3. link[q[1]] = q[1 + 1]
      BY <1>0, <3>1
    <3>4. CASE k = 1
      BY <1>3, <2>2, <3>2, <3>3, <3>4
    <3>5. CASE k # 1
      <4>1. 1 < k
        BY <1>1, <3>5
      <4> HIDE DEF p
      <4> QED BY <1>0, <1>1, <1>3, <2>2, <3>2, <3>5, <4>1
    <3> QED BY <3>4, <3>5
  <2> QED BY <2>1, <2>2
<1> HIDE DEF p, other, start
<1>9. ASSUME NEW i \in 1..Len(p), NEW j \in 1..Len(p), p[i] = p[j] PROVE i = j
  <2> DEFINE at(n) == IF n < k THEN n ELSE n + 1
  <2>1. at(i) \in 1..Len(q) /\ at(j) \in 1..Len(q)
    BY <1>1, <1>2
  <2>2. p[i] = q[at(i)] /\ p[j] = q[at(j)]
    BY <1>2
  <2>3. at(i) = at(j)
    <3> HIDE DEF at
    <3> QED BY <1>0, <1>9, <2>1, <2>2
  <2>4. i \in Nat /\ j \in Nat
    BY <1>1, <1>2
  <2> QED BY <1>1, <2>3, <2>4
<1>10. ASSUME NEW i \in 1..Len(p) PROVE other[p[i]] = IF i = Len(p) THEN end ELSE p[i + 1]
  <2>0. i \in 1..Len(q) - 1 /\ i \in Nat /\ i + 1 \in 1..Len(q) /\ i \in 1..Len(q) /\ i # Len(q)
    BY <1>1, <1>2
  <2>1. CASE i < k - 1
    <3>1. i < k /\ i # k - 1 /\ i # Len(p) /\ i + 1 \in 1..Len(q) - 1 /\ i + 1 < k
      BY <1>1, <1>2, <2>0, <2>1
    <3>2. p[i] = q[i] /\ p[i + 1] = q[i + 1]
      BY <1>2, <2>0, <3>1
    <3>3. other[q[i]] = q[i + 1]
      BY <1>0, <1>6, <2>0, <3>1
    <3> QED BY <3>1, <3>2, <3>3
  <2>2. CASE i = k - 1
    <3>1. k # 1 /\ i < k
      BY <1>1, <2>0, <2>2
    <3>2. p[i] = q[k - 1] /\ other[q[k - 1]] = link[q[k]]
      BY <1>2, <1>7, <2>0, <2>2, <3>1
    <3>3. link[q[k]] = IF k = Len(q) THEN end ELSE q[k + 1]
      BY <1>0
    <3>4. CASE k = Len(q)
      <4>1. i = Len(p)
        BY <1>1, <1>2, <2>2, <3>4
      <4> QED BY <3>2, <3>3, <3>4, <4>1
    <3>5. CASE k # Len(q)
      <4>1. i # Len(p) /\ i + 1 \in 1..Len(q) - 1 /\ ~(i + 1 < k) /\ i + 1 + 1 = k + 1
        BY <1>1, <1>2, <2>2, <2>0, <3>5
      <4>2. p[i + 1] = q[k + 1]
        BY <1>2, <4>1
      <4> QED BY <3>2, <3>3, <3>5, <4>1, <4>2
    <3> QED BY <3>4, <3>5
  <2>3. CASE i >= k
    <3>1. ~(i < k) /\ i + 1 # k - 1
      BY <1>1, <2>0, <2>3
    <3>2. p[i] = q[i + 1]
      BY <1>2, <2>0, <3>1
    <3>3. other[q[i + 1]] = IF i + 1 = Len(q) THEN end ELSE q[i + 1 + 1]
      BY <1>0, <1>6, <2>0, <3>1
    <3>4. CASE i = Len(p)
      <4>1. i + 1 = Len(q)
        BY <1>1, <1>2, <3>4
      <4> QED BY <3>2, <3>3, <3>4, <4>1
    <3>5. CASE i # Len(p)
      <4>1. i + 1 # Len(q) /\ i + 1 \in 1..Len(q) - 1 /\ ~(i + 1 < k)
        BY <1>1, <1>2, <2>0, <2>3, <3>5
      <4>2. p[i + 1] = q[i + 1 + 1]
        BY <1>2, <4>1
      <4> QED BY <3>2, <3>3, <3>5, <4>1, <4>2
    <3> QED BY <3>4, <3>5
  <2>4. i < k - 1 \/ i = k - 1 \/ i >= k
    BY <1>1, <2>0
  <2> QED BY <2>1, <2>2, <2>3, <2>4
<1>11. Linked(p, start, other, end)
  BY <1>2, <1>4, <1>8, <1>9, <1>10 DEF Linked
<1> QED BY <1>11 DEF p, other, start

\* Removing the first element is taking it.
LEMMA RemoveFirstIsTail ==
  ASSUME NEW S, NEW q \in Seq(S), q # <<>>
  PROVE  RemoveAt(q, 1) = Tail(q)
<1>1. Len(q) \in Nat /\ 1 \in 1..Len(q)
  BY LenProperties, EmptySeq
<1>2. RemoveAt(q, 1) \in Seq(S) /\ Len(RemoveAt(q, 1)) = Len(q) - 1
      /\ \A i \in 1..Len(q) - 1 : RemoveAt(q, 1)[i] = IF i < 1 THEN q[i] ELSE q[i + 1]
  BY <1>1, RemoveAtProperties
<1>3. Tail(q) \in Seq(S) /\ Len(Tail(q)) = Len(q) - 1
      /\ \A i \in 1..Len(Tail(q)) : Tail(q)[i] = q[i + 1]
  BY HeadTailProperties
<1>4. \A i \in 1..Len(q) - 1 : RemoveAt(q, 1)[i] = Tail(q)[i]
  <2> TAKE i \in 1..Len(q) - 1
  <2>1. ~(i < 1)
    OBVIOUS
  <2> QED BY <1>2, <1>3, <2>1
<1> QED BY <1>2, <1>3, <1>4, SeqEqual
=============================================================================
