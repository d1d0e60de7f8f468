------------------------ MODULE LinkedStreams_proofs ------------------------
(***************************************************************************)
(* A proof that session data is never freed while a task uses or keeps it, *)
(* or a message carries it: for any number of modules, sessions, links and *)
(* resizes, and any interleaving of the application and the two workers.   *)
(* Each step but two keeps the balance of every container (Balanced): its  *)
(* count does not fall by more than the number of its holders does.  Start *)
(* and Post may make a container, which nobody holds yet (OnlyMade).       *)
(***************************************************************************)
EXTENDS LinkedStreamsProperties, FiniteSetTheorems, FunctionTheorems, SequenceTheorems, TLAPS

Slots == Containers \cup {None}

\* One, if it is c.
Is(a, c) == IF a = c THEN 1 ELSE 0

-----------------------------------------------------------------------------
(* Counting. *)

\* There are finitely many tasks.
LEMMA FiniteTasks == IsFiniteSet(Tasks) /\ HeadOf(Upper) \in Tasks /\ HeadOf(Lower) \in Tasks
<1>1. IsFiniteSet(Streams)
  <2>1. IsFiniteSet({Upper})
    BY FS_Singleton
  <2>2. IsFiniteSet({Upper} \cup {Lower})
    BY <2>1, FS_AddElement
  <2>3. {Upper} \cup {Lower} = Streams
    BY DEF Streams
  <2> QED BY <2>2, <2>3
<1>2. IsFiniteSet(0..Modules) /\ 0 \in 0..Modules
  BY FS_Interval, NumbersAssumption
<1> QED BY <1>1, <1>2, FS_Product DEF Tasks, HeadOf, Streams

\* Part of the tasks are a number of tasks.
LEMMA SomeTasks ==
  ASSUME NEW T \in SUBSET Tasks
  PROVE  IsFiniteSet(T) /\ Cardinality(T) \in Nat
BY FiniteTasks, FS_Subset, FS_CardinalityType

\* When one task takes v instead of what it had, only their numbers change.
LEMMA OneTaskChanges ==
  ASSUME NEW f \in [Tasks -> Slots], NEW t \in Tasks, NEW v \in Slots, NEW c \in Slots
  PROVE  Having([f EXCEPT ![t] = v], c) = Having(f, c) + Is(v, c) - Is(f[t], c)
<1> DEFINE S == {x \in Tasks : f[x] = c}
           R == {x \in Tasks : [f EXCEPT ![t] = v][x] = c}
<1>1. IsFiniteSet(S) /\ Cardinality(S) \in Nat
  BY SomeTasks
<1>2. CASE v = c
  <2>1. R = S \cup {t}
    BY <1>2
  <2>2. t \in S <=> f[t] = c
    OBVIOUS
  <2>3. Cardinality(R) = IF f[t] = c THEN Cardinality(S) ELSE Cardinality(S) + 1
    BY <1>1, <2>1, <2>2, FS_AddElement
  <2> QED BY <1>1, <1>2, <2>3 DEF Having, Is
<1>3. CASE v # c
  <2>1. R = S \ {t}
    BY <1>3
  <2>2. t \in S <=> f[t] = c
    OBVIOUS
  <2>3. Cardinality(R) = IF f[t] = c THEN Cardinality(S) - 1 ELSE Cardinality(S)
    BY <1>1, <2>1, <2>2, FS_RemoveElement
  <2> QED BY <1>1, <1>3, <2>3 DEF Having, Is
<1> QED BY <1>2, <1>3

\* When some of the tasks that have c give it up, so many less have it.
LEMMA SomeTasksGiveUp ==
  ASSUME NEW f \in [Tasks -> Slots], NEW g \in [Tasks -> Slots], NEW T \in SUBSET Tasks,
         \A t \in Tasks : g[t] = IF t \in T THEN None ELSE f[t],
         NEW c \in Containers
  PROVE  Having(g, c) = Having(f, c) - Cardinality({t \in T : f[t] = c})
<1> DEFINE S == {t \in Tasks : f[t] = c}
           G == {t \in T : f[t] = c}
<1>1. c # None
  BY StreamsAssumption
<1>2. {t \in Tasks : g[t] = c} = S \ G
  BY <1>1
<1>3. S \cap G = G
  OBVIOUS
<1> QED BY <1>2, <1>3, SomeTasks, FS_Difference DEF Having

\* The messages of a queue that carry c are a number of messages.
LEMMA CarryingType ==
  ASSUME NEW q \in Seq(Messages), NEW c
  PROVE  /\ IsFiniteSet({i \in DOMAIN q : q[i].of = c})
         /\ Carrying(q, c) \in Nat
<1>1. DOMAIN q = 1..Len(q) /\ Len(q) \in Nat
  BY LenProperties
<1>2. IsFiniteSet(DOMAIN q)
  BY <1>1, FS_Interval
<1> QED BY <1>2, FS_Subset, FS_CardinalityType DEF Carrying

\* A queue without messages carries nothing.
LEMMA CarryingEmpty == \A c : Carrying(<<>>, c) = 0
<1>1. ASSUME NEW c PROVE {i \in DOMAIN <<>> : <<>>[i].of = c} = {}
  OBVIOUS
<1> QED BY <1>1, FS_EmptySet DEF Carrying

\* A message that is appended counts if it carries c.
LEMMA CarryingAppend ==
  ASSUME NEW q \in Seq(Messages), NEW m \in Messages, NEW c
  PROVE  Carrying(Append(q, m), c) = Carrying(q, c) + Is(m.of, c)
<1> DEFINE S == {i \in DOMAIN q : q[i].of = c}
           R == {i \in DOMAIN Append(q, m) : Append(q, m)[i].of = c}
           n == Len(q) + 1
<1>1. /\ DOMAIN q = 1..Len(q) /\ Len(q) \in Nat
      /\ DOMAIN Append(q, m) = 1..n
      /\ \A i \in 1..Len(q) : Append(q, m)[i] = q[i]
      /\ Append(q, m)[n] = m
  BY LenProperties, AppendProperties
<1>2. IsFiniteSet(S) /\ Cardinality(S) \in Nat
  BY CarryingType DEF Carrying
<1>3. n \notin S
  BY <1>1
<1>4. CASE m.of = c
  <2>1. R = S \cup {n}
    BY <1>1, <1>4
  <2>2. Cardinality(R) = Cardinality(S) + 1
    BY <1>2, <1>3, <2>1, FS_AddElement
  <2> QED BY <1>4, <2>2 DEF Carrying, Is
<1>5. CASE m.of # c
  <2>1. R = S
    BY <1>1, <1>5
  <2>2. Cardinality(R) = Cardinality(S)
    BY <2>1
  <2>3. Carrying(Append(q, m), c) = Cardinality(R) /\ Carrying(q, c) = Cardinality(S)
    BY DEF Carrying
  <2> HIDE DEF R, S
  <2> QED BY <1>2, <1>5, <2>2, <2>3 DEF Is
<1> QED BY <1>4, <1>5

\* A message alone.
LEMMA CarryingAlone ==
  ASSUME NEW m \in Messages, NEW c
  PROVE  Carrying(<<m>>, c) = Is(m.of, c)
<1>1. \A q \in Seq(Messages) : Carrying(Append(q, m), c) = Carrying(q, c) + Is(m.of, c)
  BY CarryingAppend
<1>2. PICK q \in Seq(Messages) : q = <<>>
  BY EmptySeq
<1>3. Append(q, m) = <<m>>
  BY <1>2
<1>4. Carrying(q, c) = 0
  BY <1>2, CarryingEmpty
<1>5. Carrying(<<m>>, c) = 0 + Is(m.of, c)
  BY <1>1, <1>3, <1>4, Zenon
<1> QED BY <1>5 DEF Is

\* A message that is taken no longer counts.
LEMMA CarryingTail ==
  ASSUME NEW q \in Seq(Messages), q # <<>>, NEW c
  PROVE  Carrying(q, c) = Carrying(Tail(q), c) + Is(Head(q).of, c)
<1> DEFINE S == {i \in DOMAIN q : q[i].of = c}
           R == {i \in DOMAIN Tail(q) : Tail(q)[i].of = c}
           shift == [i \in R |-> i + 1]
<1>1. /\ DOMAIN q = 1..Len(q) /\ Len(q) \in Nat \ {0}
      /\ Tail(q) \in Seq(Messages) /\ DOMAIN Tail(q) = 1..(Len(q) - 1)
      /\ \A i \in 1..(Len(q) - 1) : Tail(q)[i] = q[i + 1]
  BY LenProperties, EmptySeq, HeadTailProperties
<1>2. Head(q) = q[1]
  BY <1>1
<1>3. IsFiniteSet(S) /\ Cardinality(S) \in Nat /\ IsFiniteSet(R) /\ Cardinality(R) \in Nat
  BY <1>1, CarryingType DEF Carrying
<1>4. Cardinality(S \ {1}) = Cardinality(R)
  <2>1. R \subseteq Nat /\ \A i \in R : i + 1 \in S \ {1}
    BY <1>1
  <2>2. \A j \in S \ {1} : j - 1 \in R /\ (j - 1) + 1 = j
    BY <1>1
  <2>3. shift \in [R -> S \ {1}] /\ \A a, b \in R : shift[a] = shift[b] => a = b
    BY <2>1
  <2>4. \A j \in S \ {1} : \E i \in R : shift[i] = j
    BY <2>2
  <2>5. shift \in Bijection(R, S \ {1})
    BY <2>3, <2>4, Fun_IsBij
  <2> QED BY <1>3, <2>5, FS_Bijection, Fun_ExistsBij
<1>5. Cardinality(S \ {1}) = IF q[1].of = c THEN Cardinality(S) - 1 ELSE Cardinality(S)
  <2>1. 1 \in S <=> q[1].of = c
    BY <1>1
  <2> QED BY <1>3, <2>1, FS_RemoveElement
<1>6. Carrying(q, c) = Cardinality(S) /\ Carrying(Tail(q), c) = Cardinality(R)
  BY DEF Carrying
<1> HIDE DEF S, R
<1> QED BY <1>2, <1>3, <1>4, <1>5, <1>6 DEF Is

\* The messages that carry c are a number of messages.
LEMMA CarriedType ==
  ASSUME NEW b \in [Streams -> Seq(Messages)], NEW c
  PROVE  CarriedIn(b, c) \in Nat
<1>1. b[Upper] \in Seq(Messages) /\ b[Lower] \in Seq(Messages)
  BY DEF Streams
<1>2. Carrying(b[Upper], c) \in Nat /\ Carrying(b[Lower], c) \in Nat
  BY <1>1, CarryingType
<1> QED BY <1>2 DEF CarriedIn

\* When the queue of one stream changes, only what it carries changes.
LEMMA OneQueueChanges ==
  ASSUME NEW b \in [Streams -> Seq(Messages)], NEW s \in Streams,
         NEW q \in Seq(Messages), NEW c
  PROVE  CarriedIn([b EXCEPT ![s] = q], c) = CarriedIn(b, c) - Carrying(b[s], c) + Carrying(q, c)
<1>1. /\ Carrying(b[Upper], c) \in Nat /\ Carrying(b[Lower], c) \in Nat
      /\ Carrying(q, c) \in Nat
  BY CarryingType DEF Streams
<1>2. CASE s = Upper
  BY <1>1, <1>2, StreamsAssumption DEF CarriedIn, Streams
<1>3. CASE s = Lower
  BY <1>1, <1>3, StreamsAssumption DEF CarriedIn, Streams
<1> QED BY <1>2, <1>3 DEF Streams

-----------------------------------------------------------------------------
(* The inductive invariant. *)

\* Containers that are counted, or that control() has read, were made.
IsMade(c) == c[2] <= made[c[1]]
OnlyMade == /\ \A c \in Containers : IsMade(c) \/ count[c] <= 0
            /\ \A i \in DOMAIN borrowed : borrowed[i] # None => IsMade(borrowed[i])

\* control() is in the middle of a call.
Borrowing == borrowed # <<>> => todo # <<>> /\ Head(todo).op \in {"LINK", "UNLINK", "RESIZE"}

\* TypeOK, with counts that might fall below zero.
Typed ==
  /\ use \in Uses
  /\ count \in [Containers -> Int] /\ made \in [Streams -> 0..MaxContainers]
  /\ data \in [Tasks -> Slots] /\ data2 \in [Tasks -> Slots]
  /\ linked \in [Tasks -> Nat] /\ free \in [Tasks -> BOOLEAN]
  /\ endSeen \in BOOLEAN /\ ended \in [Streams -> BOOLEAN]
  /\ state \in [Streams -> {"ready", "running", "stopping", "over"}]
  /\ inbox \in [Streams -> Seq(Messages)]
  /\ hand \in [Streams -> Seq(Messages)] /\ at \in [Streams -> 0..Modules + 1]
  /\ upstream \in BOOLEAN
  /\ todo \in Seq(Calls) /\ borrowed \in Seq(Slots)
  /\ links \in 0..use.links /\ resizes \in 0..use.resizes

\* A worker has one message at hand, if any.
OneAtHand == \A s \in Streams : hand[s] # <<>> => Tail(hand[s]) = <<>>

IInv == Typed /\ Borrowing /\ OneAtHand /\ OnlyMade /\ NotFreedInUse

-----------------------------------------------------------------------------
(* Operators. *)

USE DEF vars, references, slots, heads, workers, app, bounds

\* What increase() and decrease() do to the counts.
LEMMA PlusAndMinus ==
  ASSUME NEW k \in [Containers -> Int], NEW c \in Slots
  PROVE  /\ Plus(k, c) \in [Containers -> Int] /\ Minus(k, c) \in [Containers -> Int]
         /\ \A d \in Containers : /\ Plus(k, c)[d] = k[d] + Is(c, d)
                                  /\ Minus(k, c)[d] = k[d] - Is(c, d)
<1>1. None \notin Containers
  BY StreamsAssumption
<1>2. CASE c = None
  BY <1>1, <1>2 DEF Plus, Minus, Is
<1>3. CASE c # None
  BY <1>3 DEF Plus, Minus, Is, Slots
<1> QED BY <1>2, <1>3

\* A message that is put takes its reference along, or it is released.
LEMMA PutMoves ==
  ASSUME inbox \in [Streams -> Seq(Messages)],
         NEW s \in Streams, NEW m \in Messages, NEW k \in [Containers -> Int], Put(s, m, k)
  PROVE  /\ inbox' \in [Streams -> Seq(Messages)] /\ count' \in [Containers -> Int]
         /\ \A c \in Containers :
              /\ count'[c] - CarriedIn(inbox', c) = k[c] - CarriedIn(inbox, c) - Is(m.of, c)
              /\ count'[c] <= k[c] /\ CarriedIn(inbox', c) \in Nat
<1>1. m.of \in Slots
  BY DEF Messages, Slots
<1>2. CASE Active(s)
  <2>1. inbox' = [inbox EXCEPT ![s] = Append(inbox[s], m)] /\ count' = k
    BY <1>2 DEF Put
  <2>2. Append(inbox[s], m) \in Seq(Messages)
    BY AppendProperties
  <2>3. ASSUME NEW c \in Containers
        PROVE  CarriedIn(inbox', c) = CarriedIn(inbox, c) + Is(m.of, c)
    <3>1. CarriedIn(inbox', c) =
            CarriedIn(inbox, c) - Carrying(inbox[s], c) + Carrying(Append(inbox[s], m), c)
      BY <2>1, <2>2, OneQueueChanges
    <3>2. Carrying(Append(inbox[s], m), c) = Carrying(inbox[s], c) + Is(m.of, c)
      BY CarryingAppend
    <3>3. CarriedIn(inbox, c) \in Nat /\ Carrying(inbox[s], c) \in Nat
      BY CarriedType, CarryingType
    <3> QED BY <3>1, <3>2, <3>3 DEF Is
  <2>4. \A c \in Containers : CarriedIn(inbox, c) \in Nat
    BY CarriedType
  <2>5. inbox' \in [Streams -> Seq(Messages)]
    BY <2>1, <2>2
  <2>6. ASSUME NEW c \in Containers
        PROVE  /\ count'[c] - CarriedIn(inbox', c) = k[c] - CarriedIn(inbox, c) - Is(m.of, c)
               /\ count'[c] <= k[c] /\ CarriedIn(inbox', c) \in Nat
    <3>1. count'[c] = k[c] /\ k[c] \in Int /\ Is(m.of, c) \in Nat
      BY <2>1 DEF Is
    <3> QED BY <2>3, <2>4, <3>1
  <2> QED BY <2>1, <2>5, <2>6
<1>3. CASE ~Active(s)
  <2>1. inbox' = inbox /\ count' = Minus(k, m.of)
    BY <1>3 DEF Put
  <2>2. \A c \in Containers : CarriedIn(inbox, c) \in Nat
    BY CarriedType
  <2>3. /\ count' \in [Containers -> Int]
        /\ \A c \in Containers : count'[c] = k[c] - Is(m.of, c)
    BY <1>1, <2>1, PlusAndMinus
  <2> QED BY <2>1, <2>2, <2>3 DEF Is
<1> QED BY <1>2, <1>3

-----------------------------------------------------------------------------
(* Types. *)

\* The types of messages and calls, and of a container that is made.
LEMMA Values ==
  /\ \A c \in Slots : \A type \in {"BEGIN", "LINK", "UNLINK", "RESIZE", "END", "CONTROL", "STOP"} :
       Message(type, c) \in Messages /\ Message(type, c).of = c
  /\ Stop \in Messages /\ Stop.of = None
  /\ \A op \in {"LINK", "UNLINK", "RESIZE", "END", "STOP", "unlink"}, s \in Streams :
       Call(op, s) \in Calls
  /\ None \in Slots /\ Upper \in Streams /\ Lower \in Streams
BY DEF Message, Messages, Slots, Stop, Call, Calls, Streams

\* A container that is made is one of those that may be.
LEMMA MakeType ==
  ASSUME made \in [Streams -> 0..MaxContainers], NEW s \in Streams, Make(s)
  PROVE  NextOf(s) \in Containers /\ made' \in [Streams -> 0..MaxContainers]
<1>1. made[s] + 1 \in 1..MaxContainers
  BY NumbersAssumption DEF Make
<1> QED BY <1>1, NumbersAssumption DEF Make, NextOf, Containers

\* The first state is well typed, ...
LEMMA TypedInit == Init => Typed
<1> SUFFICES ASSUME Init PROVE Typed
  OBVIOUS
<1>1. use \in Uses
  BY DEF Init
<1>2. use.links \in Nat /\ use.resizes \in Nat
  BY <1>1, UsesAssumption DEF Use
<1>3. <<>> \in Seq(Messages) /\ <<>> \in Seq(Calls) /\ <<>> \in Seq(Slots)
  BY EmptySeq
<1>4. /\ count \in [Containers -> Int] /\ made \in [Streams -> 0..MaxContainers]
      /\ data \in [Tasks -> Slots] /\ data2 \in [Tasks -> Slots]
      /\ linked \in [Tasks -> Nat] /\ free \in [Tasks -> BOOLEAN]
  BY NumbersAssumption DEF Init, Slots
<1>5. /\ endSeen \in BOOLEAN /\ ended \in [Streams -> BOOLEAN]
      /\ state \in [Streams -> {"ready", "running", "stopping", "over"}]
      /\ inbox \in [Streams -> Seq(Messages)] /\ hand \in [Streams -> Seq(Messages)]
      /\ upstream \in BOOLEAN
  BY <1>3 DEF Init
<1>6. at \in [Streams -> 0..Modules + 1]
  BY NumbersAssumption DEF Init
<1>7. /\ todo \in Seq(Calls) /\ borrowed \in Seq(Slots)
      /\ links \in 0..use.links /\ resizes \in 0..use.resizes
  BY <1>2, <1>3 DEF Init
<1> QED BY <1>1, <1>4, <1>5, <1>6, <1>7 DEF Typed

\* What the tasks of a stream give up is a number of references.
LEMMA GivenUpType ==
  ASSUME NEW s \in Streams, NEW c \in Containers
  PROVE  GivenUp(s, c) \in Nat
<1> DEFINE F == {t \in Tasks : t[1] = s /\ free[t] /\ data[t] = c}
           G == {t \in Tasks : t[1] = s /\ data2[t] = c}
<1>1. F \in SUBSET Tasks /\ G \in SUBSET Tasks
  OBVIOUS
<1>2. Cardinality(F) \in Nat /\ Cardinality(G) \in Nat
  BY <1>1, SomeTasks
<1>3. GivenUp(s, c) = Cardinality(F) + Cardinality(G)
  BY DEF GivenUp
<1> HIDE DEF F, G
<1> QED BY <1>2, <1>3

\* The bounds allow for one more call.
LEMMA OneMore ==
  ASSUME use \in Uses, links \in 0..use.links, resizes \in 0..use.resizes
  PROVE  /\ links < use.links => links + 1 \in 0..use.links
         /\ resizes < use.resizes => resizes + 1 \in 0..use.resizes
<1>1. use.links \in Nat /\ use.resizes \in Nat
  BY UsesAssumption DEF Use
<1> QED BY <1>1

\* ... the application keeps the types, ...
LEMMA TypedApplication == Typed /\ Borrowing /\ Application => Typed'
<1> SUFFICES ASSUME Typed, Borrowing, Application PROVE Typed'
  OBVIOUS
<1> USE Values, NumbersAssumption DEF Typed
<1>1. ASSUME NEW s \in Streams, Initialize(s) PROVE Typed'
  <2>1. ASSUME NEW c \in Containers PROVE GivenUp(s, c) \in Nat
    BY GivenUpType
  <2>2. count' \in [Containers -> Int]
    BY <1>1, <2>1 DEF Initialize
  <2>3. data' \in [Tasks -> Slots] /\ data2' \in [Tasks -> Slots]
    BY <1>1 DEF Initialize
  <2> QED BY <1>1, <2>2, <2>3 DEF Initialize
<1>2. ASSUME NEW s \in Streams, Start(s) PROVE Typed'
  <2>1. NextOf(s) \in Slots /\ NextOf(s) \in Containers /\ made' \in [Streams -> 0..MaxContainers]
    BY <1>2, MakeType DEF Start, Slots
  <2>2. [count EXCEPT ![NextOf(s)] = 2] \in [Containers -> Int]
    BY <2>1
  <2>3. inbox' \in [Streams -> Seq(Messages)] /\ count' \in [Containers -> Int]
    BY <1>2, <2>1, <2>2, PutMoves DEF Start
  <2> QED BY <1>2, <2>1, <2>3 DEF Start
<1>3. CASE Link
  <2>1. <<Call("LINK", Upper)>> \in Seq(Calls)
    OBVIOUS
  <2>2. links' \in 0..use'.links /\ resizes' \in 0..use'.resizes
    BY <1>3, OneMore DEF Link
  <2> QED BY <1>3, <2>1, <2>2 DEF Link
<1>4. CASE Unlink
  <2>1. <<Call("UNLINK", Lower)>> \in Seq(Calls)
    OBVIOUS
  <2> QED BY <1>4, <2>1 DEF Unlink
<1>5. ASSUME NEW s \in Streams, Resize(s) PROVE Typed'
  <2>1. <<Call("RESIZE", s)>> \in Seq(Calls)
    OBVIOUS
  <2>2. links' \in 0..use'.links /\ resizes' \in 0..use'.resizes
    BY <1>5, OneMore DEF Resize
  <2> QED BY <1>5, <2>1, <2>2 DEF Resize
<1>6. ASSUME NEW s \in Streams, StopStream(s) PROVE Typed'
  <2>1. EndAndUnlink \in Seq(Calls) /\ <<>> \in Seq(Calls) /\ <<Call("STOP", s)>> \in Seq(Calls)
    BY DEF EndAndUnlink
  <2>2. todo' \in Seq(Calls)
    BY <1>6, <2>1, ConcatProperties DEF StopStream
  <2> QED BY <1>6, <2>2 DEF StopStream
<1>7. CASE UnlinkLower
  BY <1>7, HeadTailProperties DEF UnlinkLower
<1>8. CASE Send
  <2>1. Head(todo) \in Calls /\ Tail(todo) \in Seq(Calls)
    BY <1>8, HeadTailProperties DEF Send
  <2>2. Head(todo).to \in Streams
    BY <2>1 DEF Calls
  <2>3. inbox' \in [Streams -> Seq(Messages)] /\ count' \in [Containers -> Int]
    BY <1>8, <2>2, PutMoves DEF Send
  <2> QED BY <1>8, <2>1, <2>3 DEF Send
<1>9. CASE Borrow
  <2>1. Head(todo) \in Calls
    BY <1>9, HeadTailProperties DEF Borrow
  <2>2. HeadOf(Head(todo).to) \in Tasks
    BY <2>1, FiniteTasks DEF Calls, Streams
  <2>3. borrowed' \in Seq(Slots)
    BY <1>9, <2>2 DEF Borrow
  <2> QED BY <1>9, <2>3 DEF Borrow
<1>10. CASE Post
  <2>1. /\ Head(todo) \in Calls /\ Tail(todo) \in Seq(Calls)
        /\ Head(todo).op \in {"LINK", "UNLINK", "RESIZE"}
    BY <1>10, HeadTailProperties DEF Post, Borrowing
  <2>2. Head(todo).to \in Streams /\ borrowed[1] \in Slots
    <3>1. borrowed # <<>> /\ borrowed[1] = Head(borrowed)
      BY <1>10 DEF Post
    <3>2. Head(borrowed) \in Slots
      BY <3>1, HeadTailProperties
    <3> QED BY <2>1, <3>1, <3>2 DEF Calls
  <2> DEFINE c == IF borrowed[1] = None THEN NextOf(Head(todo).to) ELSE borrowed[1]
  <2>3. made' \in [Streams -> 0..MaxContainers] /\ c \in Slots
    BY <1>10, <2>2, MakeType DEF Post, Slots
  <2>4. Put(Head(todo).to, Message(Head(todo).op, c), Plus(count, c))
    BY <1>10 DEF Post, Referenced
  <2> HIDE DEF c
  <2>5. inbox' \in [Streams -> Seq(Messages)] /\ count' \in [Containers -> Int]
    <3>1. Message(Head(todo).op, c) \in Messages /\ Plus(count, c) \in [Containers -> Int]
      BY <2>1, <2>3, PlusAndMinus
    <3> QED BY <2>2, <2>4, <3>1, PutMoves
  <2>6. borrowed' \in Seq(Slots)
    BY <1>10 DEF Post
  <2> QED BY <1>10, <2>1, <2>3, <2>5, <2>6 DEF Post
<1> QED BY <1>1, <1>2, <1>3, <1>4, <1>5, <1>6, <1>7, <1>8, <1>9, <1>10 DEF Application

\* The message that a worker hands on.
LEMMA MessageAtHand ==
  ASSUME Typed, NEW s \in Streams, hand[s] # <<>>
  PROVE  hand[s][1] \in Messages /\ hand[s][1].of \in Slots
<1>1. hand[s] \in Seq(Messages)
  BY DEF Typed
<1>2. hand[s][1] = Head(hand[s]) /\ Head(hand[s]) \in Messages
  BY <1>1, HeadTailProperties
<1> QED BY <1>2 DEF Messages, Slots

\* The task that a message has come to, and the message.
LEMMA MessageAtTask ==
  ASSUME Typed, NEW s \in Streams, NEW type, Handles(s, type)
  PROVE  /\ TaskAt(s) \in Tasks
         /\ at' \in [Streams -> 0..Modules + 1]
         /\ hand[s][1] \in Messages /\ hand[s][1].of \in Slots
<1>1. at[s] \in 0..Modules /\ at \in [Streams -> 0..Modules + 1]
  BY NumbersAssumption DEF Handles, Typed
<1>2. at' = [at EXCEPT ![s] = at[s] + 1] /\ at[s] + 1 \in 0..Modules + 1
  BY <1>1, NumbersAssumption DEF Handles
<1> QED BY <1>1, <1>2, MessageAtHand DEF Handles, TaskAt, Tasks

\* ... and so do the workers.
LEMMA TypedWorker ==
  ASSUME Typed, NEW s \in Streams, Worker(s)
  PROVE  Typed'
<1>0. /\ count \in [Containers -> Int] /\ data \in [Tasks -> Slots] /\ data2 \in [Tasks -> Slots]
      /\ linked \in [Tasks -> Nat] /\ free \in [Tasks -> BOOLEAN]
      /\ inbox \in [Streams -> Seq(Messages)]
      /\ None \in Slots /\ Stop \in Messages
  BY Values DEF Typed
<1>1. HeadOf(s) \in Tasks /\ inbox[s] \in Seq(Messages) /\ data[HeadOf(s)] \in Slots
  BY <1>0, FiniteTasks DEF Streams
<1>2. inbox[s] # <<>> => Head(inbox[s]) \in Messages /\ Tail(inbox[s]) \in Seq(Messages)
  BY <1>1, HeadTailProperties
<1>3. CASE Take(s)
  <2>1. <<Head(inbox[s])>> \in Seq(Messages)
    BY <1>2, <1>3 DEF Take
  <2>2. hand' \in [Streams -> Seq(Messages)] /\ inbox' \in [Streams -> Seq(Messages)]
    BY <1>0, <1>2, <1>3, <2>1 DEF Take, Typed
  <2>3. at' \in [Streams -> 0..Modules + 1]
    BY <1>3, NumbersAssumption DEF Take, Typed
  <2> QED BY <1>3, <2>2, <2>3 DEF Take, Typed
<1>4. CASE Finish(s)
  <2>1. Append(Tail(inbox[s]), Message("END", data[HeadOf(s)])) \in Seq(Messages)
    BY <1>1, <1>2, <1>4, Values, AppendProperties DEF Finish
  <2>2. inbox' \in [Streams -> Seq(Messages)]
    BY <1>0, <1>4, <2>1 DEF Finish
  <2>3. count' \in [Containers -> Int]
    BY <1>0, <1>1, <1>4, PlusAndMinus DEF Finish
  <2> QED BY <1>4, <2>2, <2>3 DEF Finish, Typed
<1>5. CASE Leave(s)
  <2>1. count' \in [Containers -> Int]
    <3>1. Minus(count, data[HeadOf(s)]) \in [Containers -> Int]
      BY <1>0, <1>1, PlusAndMinus
    <3>2. \A c \in Containers : Carrying(inbox[s], c) \in Nat
      BY <1>1, CarryingType
    <3> QED BY <1>0, <1>5, <3>1, <3>2 DEF Leave
  <2>2. inbox' \in [Streams -> Seq(Messages)] /\ data' \in [Tasks -> Slots]
    BY <1>0, <1>5, EmptySeq DEF Leave
  <2> QED BY <1>5, <2>1, <2>2 DEF Leave, Typed
<1>6. CASE HandleBegin(s)
  <2>1. TaskAt(s) \in Tasks /\ at' \in [Streams -> 0..Modules + 1] /\ hand[s][1].of \in Slots
    BY <1>6, MessageAtTask DEF HandleBegin
  <2>2. count' \in [Containers -> Int]
    <3>1. Plus(count, hand[s][1].of) \in [Containers -> Int]
      BY <1>0, <2>1, PlusAndMinus
    <3>2. count' = count \/ count' = Plus(count, hand[s][1].of)
      BY <1>6 DEF HandleBegin
    <3> QED BY <1>0, <3>1, <3>2
  <2> QED BY <1>6, <2>1, <2>2 DEF HandleBegin, Own, Typed
<1>7. CASE HandleLink(s)
  <2>1. TaskAt(s) \in Tasks /\ at' \in [Streams -> 0..Modules + 1] /\ hand[s][1].of \in Slots
    BY <1>7, MessageAtTask DEF HandleLink
  <2>2. Plus(count, hand[s][1].of) \in [Containers -> Int]
    BY <1>0, <2>1, PlusAndMinus
  <2>3. count' = count \/ count' = Plus(count, hand[s][1].of)
    BY <1>7 DEF HandleLink, SwitchCounted
  <2>4. data' \in [Tasks -> Slots] /\ data2' \in [Tasks -> Slots]
    BY <1>0, <1>7, <2>1 DEF HandleLink
  <2>5. linked' \in [Tasks -> Nat]
    <3>1. linked[TaskAt(s)] + 1 \in Nat
      BY <1>0, <2>1
    <3>2. linked' = [linked EXCEPT ![TaskAt(s)] = linked[TaskAt(s)] + 1]
      BY <1>7 DEF HandleLink
    <3> QED BY <1>0, <3>1, <3>2
  <2>6. count' \in [Containers -> Int]
    BY <1>0, <2>2, <2>3
  <2> QED BY <1>7, <2>1, <2>4, <2>5, <2>6 DEF HandleLink, Typed
<1>8. CASE HandleResize(s)
  <2>1. TaskAt(s) \in Tasks /\ at' \in [Streams -> 0..Modules + 1] /\ hand[s][1].of \in Slots
    BY <1>8, MessageAtTask DEF HandleResize
  <2>2. Minus(count, data[TaskAt(s)]) \in [Containers -> Int]
    BY <1>0, <2>1, PlusAndMinus
  <2>3. count' \in [Containers -> Int]
    BY <1>0, <1>8, <2>1, <2>2, PlusAndMinus DEF HandleResize
  <2> QED BY <1>8, <2>1, <2>3 DEF HandleResize, Typed
<1>9. CASE HandleUnlink(s)
  <2>1. TaskAt(s) \in Tasks /\ at' \in [Streams -> 0..Modules + 1]
    BY <1>9, MessageAtTask DEF HandleUnlink
  <2>2. data[TaskAt(s)] \in Slots /\ data2[TaskAt(s)] \in Slots /\ linked[TaskAt(s)] \in Nat
    BY <1>0, <2>1
  <2>3. Minus(count, data[TaskAt(s)]) \in [Containers -> Int]
    BY <1>0, <2>2, PlusAndMinus
  <2>4. count' \in [Containers -> Int]
    <3>1. count' = count \/ count' = Minus(count, data[TaskAt(s)])
      BY <1>9 DEF HandleUnlink, GoBack
    <3> QED BY <1>0, <2>3, <3>1
  <2>5. data' \in [Tasks -> Slots] /\ data2' \in [Tasks -> Slots]
    <3>1. \/ data' = data /\ data2' = data2
          \/ /\ data' = [data EXCEPT ![TaskAt(s)] = data2[TaskAt(s)]]
             /\ data2' = [data2 EXCEPT ![TaskAt(s)] = None]
      BY <1>9 DEF HandleUnlink, GoBack
    <3> QED BY <1>0, <2>2, <3>1
  <2>6. linked' \in [Tasks -> Nat]
    BY <1>0, <1>9, <2>1, <2>2 DEF HandleUnlink, GoBack
  <2>7. inbox' \in [Streams -> Seq(Messages)]
    <3>1. Append(inbox[s], Stop) \in Seq(Messages)
      BY <1>0, <1>1, AppendProperties
    <3>2. inbox' = inbox \/ inbox' = [inbox EXCEPT ![s] = Append(inbox[s], Stop)]
      BY <1>9 DEF HandleUnlink
    <3> QED BY <1>0, <3>1, <3>2
  <2>8. state' \in [Streams -> {"ready", "running", "stopping", "over"}]
    BY <1>9 DEF HandleUnlink, Typed
  <2> QED BY <1>9, <2>1, <2>4, <2>5, <2>6, <2>7, <2>8 DEF HandleUnlink, Typed
<1>10. CASE HandleEnd(s)
  <2>1. TaskAt(s) \in Tasks /\ at' \in [Streams -> 0..Modules + 1]
    BY <1>10, MessageAtTask DEF HandleEnd
  <2>2. Minus(count, data[TaskAt(s)]) \in [Containers -> Int]
    BY <1>0, <2>1, PlusAndMinus
  <2>3. count' \in [Containers -> Int]
    <3>1. count' = count \/ count' = Minus(count, data[TaskAt(s)])
      BY <1>10 DEF HandleEnd
    <3> QED BY <1>0, <2>2, <3>1
  <2>4. data' \in [Tasks -> Slots] /\ free' \in [Tasks -> BOOLEAN]
    BY <1>0, <1>10 DEF HandleEnd
  <2>5. inbox' \in [Streams -> Seq(Messages)]
    <3>1. Append(inbox[s], Stop) \in Seq(Messages)
      BY <1>0, <1>1, AppendProperties
    <3>2. inbox' = inbox \/ inbox' = [inbox EXCEPT ![s] = Append(inbox[s], Stop)]
      BY <1>10 DEF HandleEnd
    <3> QED BY <1>0, <3>1, <3>2
  <2> QED BY <1>10, <2>1, <2>3, <2>4, <2>5 DEF HandleEnd, Typed
<1>11. CASE HandleControl(s)
  <2>1. at' \in [Streams -> 0..Modules + 1]
    BY <1>11, MessageAtTask DEF HandleControl
  <2> QED BY <1>11, <2>1 DEF HandleControl, Typed
<1>12. CASE HandOn(s)
  <2>1. hand[s][1] \in Messages /\ hand[s][1].of \in Slots
    BY <1>12, MessageAtHand DEF HandOn
  <2>2. inbox' \in [Streams -> Seq(Messages)] /\ count' \in [Containers -> Int]
    <3>1. CASE s = Upper /\ upstream
      <4>1. Put(Lower, hand[s][1], count) /\ Lower \in Streams
        BY <1>12, <3>1 DEF HandOn, Streams
      <4> QED BY <1>0, <2>1, <4>1, PutMoves
    <3>2. CASE ~(s = Upper /\ upstream)
      <4>1. count' = Minus(count, hand[s][1].of) /\ inbox' = inbox
        BY <1>12, <3>2 DEF HandOn
      <4> QED BY <1>0, <2>1, <4>1, PlusAndMinus
    <3> QED BY <3>1, <3>2
  <2>3. hand' \in [Streams -> Seq(Messages)] /\ at' \in [Streams -> 0..Modules + 1]
    BY <1>12, EmptySeq, NumbersAssumption DEF HandOn, Typed
  <2> QED BY <1>12, <2>2, <2>3 DEF HandOn, Typed
<1> QED BY <1>3, <1>4, <1>5, <1>6, <1>7, <1>8, <1>9, <1>10, <1>11, <1>12 DEF Worker

-----------------------------------------------------------------------------
(* Counts. *)

\* A task overwrites a container that it holds, without giving it up: what it has kept, when
\* it is linked; what it has not got by BEGIN, when the data is resized.
ForgetsKept(s) == HandleLink(s) /\ data2[TaskAt(s)] # None /\ ~Shares(TaskAt(s), hand[s][1].of)
ForgetsUsed(s) == HandleResize(s) /\ data[TaskAt(s)] # None /\ ~free[TaskAt(s)] /\ at[s] # 0
Forgets == \E s \in Streams : ForgetsKept(s) \/ ForgetsUsed(s)

\* A step keeps the balance of a container if its count falls by no more than the number
\* of its holders does, and by no less unless one is forgotten, and rises only while somebody
\* holds it.
Surplus(c) == count[c] - Held(c)
Balanced(c) == /\ Surplus(c)' >= Surplus(c)
               /\ Surplus(c)' = Surplus(c) \/ Forgets
               /\ count'[c] <= count[c] \/ Held(c) > 0

\* The holders and the surplus of a container in the next state.
LEMMA HeldAfter ==
  \A c : Held(c)' = Having(data', c) + Having(data2', c)
                    + CarriedIn(inbox', c) + CarriedIn(hand', c)
BY DEF Held

\* The surplus is what is counted beyond the holders.
LEMMA SurplusAfter == \A c : Surplus(c)' = count'[c] - Held(c)'
BY DEF Surplus

\* The holders of a container are a number of tasks and messages.
LEMMA HolderNumbers ==
  ASSUME Typed, NEW c \in Containers
  PROVE  /\ count[c] \in Int /\ Held(c) \in Nat
         /\ Having(data, c) \in Nat /\ Having(data2, c) \in Nat
         /\ CarriedIn(inbox, c) \in Nat /\ CarriedIn(hand, c) \in Nat
         /\ Held(c) = Having(data, c) + Having(data2, c) + CarriedIn(inbox, c) + CarriedIn(hand, c)
<1>1. {t \in Tasks : data[t] = c} \in SUBSET Tasks /\ {t \in Tasks : data2[t] = c} \in SUBSET Tasks
  OBVIOUS
<1>2. Having(data, c) \in Nat /\ Having(data2, c) \in Nat
  BY <1>1, SomeTasks DEF Having
<1>3. CarriedIn(inbox, c) \in Nat /\ CarriedIn(hand, c) \in Nat
  BY CarriedType DEF Typed
<1>4. count[c] \in Int
  BY DEF Typed
<1> QED BY <1>2, <1>3, <1>4 DEF Held

\* A task that has c is one of those that have it.
LEMMA HavingIt ==
  ASSUME NEW f \in [Tasks -> Slots], NEW t \in Tasks, NEW c \in Containers, f[t] = c
  PROVE  Having(f, c) > 0
<1>1. None \in Slots /\ c \in Slots /\ c # None
  BY StreamsAssumption DEF Slots
<1>2. Having([f EXCEPT ![t] = None], c) = Having(f, c) + 0 - 1
  BY <1>1, OneTaskChanges DEF Is
<1>3. \A g : Having(g, c) \in Nat
  <2>1. ASSUME NEW g PROVE {x \in Tasks : g[x] = c} \in SUBSET Tasks
    OBVIOUS
  <2> QED BY <2>1, SomeTasks DEF Having
<1> QED BY <1>2, <1>3

\* A container that a task uses is held.
LEMMA TaskHolds ==
  ASSUME Typed, NEW t \in Tasks, NEW c \in Containers, data[t] = c
  PROVE  Held(c) > 0
<1>1. Having(data, c) > 0
  BY HavingIt DEF Typed
<1> QED BY <1>1, HolderNumbers

\* The same of a message that a worker hands on.
LEMMA MessageHolds ==
  ASSUME Typed, NEW s \in Streams, hand[s] # <<>>, NEW c \in Containers, hand[s][1].of = c
  PROVE  Held(c) > 0
<1>1. hand \in [Streams -> Seq(Messages)] /\ hand[s] \in Seq(Messages)
  BY DEF Typed
<1>2. Head(hand[s]) = hand[s][1] /\ Tail(hand[s]) \in Seq(Messages)
  BY <1>1, HeadTailProperties
<1>3. Carrying(hand[s], c) = Carrying(Tail(hand[s]), c) + Is(Head(hand[s]).of, c)
  BY <1>1, CarryingTail
<1>4. Carrying(Tail(hand[s]), c) \in Nat /\ Is(Head(hand[s]).of, c) = 1
  BY <1>2, CarryingType DEF Is
<1>5. Carrying(hand[Upper], c) \in Nat /\ Carrying(hand[Lower], c) \in Nat
  BY <1>1, CarryingType DEF Streams
<1>6. CarriedIn(hand, c) > 0
  BY <1>3, <1>4, <1>5 DEF CarriedIn, Streams
<1> QED BY <1>6, HolderNumbers

\* A Stop that is put carries nothing.
LEMMA StopCarriesNothing ==
  ASSUME NEW b \in [Streams -> Seq(Messages)], NEW s \in Streams, NEW c \in Containers
  PROVE  CarriedIn([b EXCEPT ![s] = Append(b[s], Stop)], c) = CarriedIn(b, c)
<1>1. Stop \in Messages /\ Stop.of # c
  BY Values, StreamsAssumption
<1>2. Append(b[s], Stop) \in Seq(Messages)
  BY <1>1, AppendProperties
<1>3. Carrying(Append(b[s], Stop), c) = Carrying(b[s], c) + 0
  BY <1>1, CarryingAppend DEF Is
<1>4. CarriedIn([b EXCEPT ![s] = Append(b[s], Stop)], c)
        = CarriedIn(b, c) - Carrying(b[s], c) + Carrying(Append(b[s], Stop), c)
  BY <1>2, OneQueueChanges
<1>5. CarriedIn(b, c) \in Nat /\ Carrying(b[s], c) \in Nat
  BY CarriedType, CarryingType
<1> QED BY <1>3, <1>4, <1>5

\* The steps of a worker between tasks.
LEMMA BalancedWorker ==
  ASSUME Typed, OneAtHand, NEW s \in Streams, NEW c \in Containers,
         Take(s) \/ Finish(s) \/ Leave(s) \/ HandleControl(s) \/ HandOn(s)
  PROVE  Balanced(c)
<1>1. /\ count \in [Containers -> Int] /\ data \in [Tasks -> Slots]
      /\ inbox \in [Streams -> Seq(Messages)] /\ hand \in [Streams -> Seq(Messages)]
      /\ inbox[s] \in Seq(Messages) /\ hand[s] \in Seq(Messages)
      /\ <<>> \in Seq(Messages) /\ c \in Slots /\ c # None
      /\ HeadOf(s) \in Tasks /\ data[HeadOf(s)] \in Slots
  BY FiniteTasks, EmptySeq, StreamsAssumption DEF Typed, Slots, Streams
<1>2. inbox[s] # <<>> =>
        /\ Head(inbox[s]) \in Messages /\ Tail(inbox[s]) \in Seq(Messages)
        /\ Carrying(inbox[s], c) = Carrying(Tail(inbox[s]), c)
                                   + Is(Head(inbox[s]).of, c)
  BY <1>1, HeadTailProperties, CarryingTail
<1>3. /\ \A q \in Seq(Messages) :
           /\ Carrying(q, c) \in Nat
           /\ CarriedIn([inbox EXCEPT ![s] = q], c)
                = CarriedIn(inbox, c) - Carrying(inbox[s], c) + Carrying(q, c)
           /\ CarriedIn([hand EXCEPT ![s] = q], c)
                = CarriedIn(hand, c) - Carrying(hand[s], c) + Carrying(q, c)
      /\ Carrying(<<>>, c) = 0
  <2>1. ASSUME NEW q \in Seq(Messages)
        PROVE  /\ Carrying(q, c) \in Nat
               /\ CarriedIn([inbox EXCEPT ![s] = q], c)
                    = CarriedIn(inbox, c) - Carrying(inbox[s], c) + Carrying(q, c)
               /\ CarriedIn([hand EXCEPT ![s] = q], c)
                    = CarriedIn(hand, c) - Carrying(hand[s], c) + Carrying(q, c)
    BY <1>1, CarryingType, OneQueueChanges
  <2> QED BY <2>1, CarryingEmpty
<1>0. /\ count[c] \in Int /\ Held(c) \in Nat
      /\ Having(data, c) \in Nat /\ Having(data2, c) \in Nat
      /\ CarriedIn(inbox, c) \in Nat /\ CarriedIn(hand, c) \in Nat
      /\ Held(c) = Having(data, c) + Having(data2, c) + CarriedIn(inbox, c) + CarriedIn(hand, c)
      /\ Held(c)' = Having(data', c) + Having(data2', c)
                    + CarriedIn(inbox', c) + CarriedIn(hand', c)
      /\ Surplus(c)' = count'[c] - Held(c)' /\ Surplus(c) = count[c] - Held(c)
      /\ \A v : Is(v, c) \in Nat
  BY HolderNumbers, HeldAfter, SurplusAfter DEF Surplus, Is
<1>4. CASE Take(s)
  <2>1. /\ hand[s] = <<>> /\ inbox[s] # <<>> /\ hand' = [hand EXCEPT ![s] = <<Head(inbox[s])>>]
        /\ inbox' = [inbox EXCEPT ![s] = Tail(inbox[s])]
        /\ count' = count /\ data' = data /\ data2' = data2
    BY <1>4 DEF Take
  <2>2. <<Head(inbox[s])>> \in Seq(Messages)
    BY <1>2, <2>1
  <2>3. Carrying(<<Head(inbox[s])>>, c) = Is(Head(inbox[s]).of, c)
    BY <1>2, <2>1, CarryingAlone
  <2>4. CarriedIn(hand', c) = CarriedIn(hand, c) - Carrying(hand[s], c) + Carrying(<<Head(inbox[s])>>, c)
    BY <1>3, <2>1, <2>2
  <2>5. CarriedIn(inbox', c) = CarriedIn(inbox, c) - Carrying(inbox[s], c) + Carrying(Tail(inbox[s]), c)
    BY <1>2, <1>3, <2>1
  <2>6. Carrying(hand[s], c) = 0 /\ Carrying(Tail(inbox[s]), c) \in Nat
    BY <1>2, <1>3, <2>1
  <2>7. Held(c)' = Held(c)
    <3>1. Is(Head(inbox[s]).of, c) \in Nat
      BY <1>0
    <3> QED BY <1>2, <2>1, <2>3, <2>4, <2>5, <2>6, <1>0, <3>1
  <2>8. count'[c] = count[c]
    BY <2>1
  <2> QED BY <2>7, <2>8, <1>0 DEF Balanced
<1>5. CASE Finish(s)
  <2> DEFINE d == data[HeadOf(s)]
             m == Message("END", d)
             q == Append(Tail(inbox[s]), m)
  <2>1. /\ inbox[s] # <<>> /\ Head(inbox[s]) = Stop
        /\ inbox' = [inbox EXCEPT ![s] = q]
        /\ count' = Plus(count, d) /\ data' = data /\ data2' = data2 /\ hand' = hand
    BY <1>5 DEF Finish
  <2>2. m \in Messages /\ m.of = d /\ Stop.of = None /\ d \in Slots
    BY <1>1, Values
  <2>3. q \in Seq(Messages)
    BY <1>2, <2>1, <2>2, AppendProperties
  <2>4. Carrying(q, c) = Carrying(Tail(inbox[s]), c) + Is(d, c)
    BY <1>2, <2>1, <2>2, CarryingAppend
  <2>5. count'[c] = count[c] + Is(d, c)
    BY <1>1, <2>1, <2>2, PlusAndMinus
  <2>6. Is(d, c) > 0 => Held(c) > 0
    BY <1>1, TaskHolds DEF Is
  <2> HIDE DEF d, m, q
  <2>7. CarriedIn(inbox', c) = CarriedIn(inbox, c) - Carrying(inbox[s], c) + Carrying(q, c)
    BY <1>3, <2>1, <2>3
  <2>8. Carrying(inbox[s], c) = Carrying(Tail(inbox[s]), c) /\ Carrying(Tail(inbox[s]), c) \in Nat
    <3>1. Is(None, c) = 0
      BY <1>1 DEF Is
    <3>2. Carrying(Tail(inbox[s]), c) \in Nat
      BY <1>2, <1>3, <2>1
    <3>3. Carrying(inbox[s], c) = Carrying(Tail(inbox[s]), c) + 0
      BY <1>2, <2>1, <2>2, <3>1
    <3> QED BY <3>2, <3>3
  <2>9. Held(c)' = Held(c) + Is(d, c)
    BY <2>1, <2>4, <2>7, <2>8, <1>0
  <2>10. Is(d, c) \in Nat
    BY <1>0
  <2> QED BY <2>5, <2>6, <2>9, <2>10, <1>0 DEF Balanced
<1>6. CASE Leave(s)
  <2> DEFINE d == data[HeadOf(s)]
  <2>1. /\ count' = [x \in Containers |-> Minus(count, d)[x] - Carrying(inbox[s], x)]
        /\ inbox' = [inbox EXCEPT ![s] = <<>>] /\ data' = [data EXCEPT ![HeadOf(s)] = None]
        /\ data2' = data2 /\ hand' = hand
    BY <1>6 DEF Leave
  <2>2. Minus(count, d)[c] = count[c] - Is(d, c)
    BY <1>1, PlusAndMinus
  <2>3. count'[c] = count[c] - Is(d, c) - Carrying(inbox[s], c)
    BY <2>1, <2>2
  <2>4. Having([data EXCEPT ![HeadOf(s)] = None], c) = Having(data, c) - Is(d, c)
    <3>1. Having([data EXCEPT ![HeadOf(s)] = None], c) = Having(data, c) + Is(None, c) - Is(d, c)
      BY <1>1, Values, OneTaskChanges
    <3>2. Is(None, c) = 0
      BY <1>1 DEF Is
    <3> HIDE DEF d
    <3> QED BY <1>0, <3>1, <3>2
  <2> HIDE DEF d
  <2>5. CarriedIn(inbox', c) = CarriedIn(inbox, c) - Carrying(inbox[s], c) + 0
    BY <1>1, <1>3, <2>1
  <2>6. Carrying(inbox[s], c) \in Nat
    BY <1>1, <1>3
  <2>7. Held(c)' = Held(c) - Is(d, c) - Carrying(inbox[s], c)
    <3>1. Is(d, c) \in Nat
      BY <1>0
    <3>2. Having(data', c) = Having(data, c) - Is(d, c)
      BY <2>1, <2>4
    <3>3. CarriedIn(hand', c) = CarriedIn(hand, c) /\ Having(data2', c) = Having(data2, c)
      BY <2>1
    <3> QED BY <2>5, <2>6, <1>0, <3>1, <3>2, <3>3
  <2> QED BY <2>3, <2>6, <2>7, <1>0 DEF Balanced
<1>7. CASE HandleControl(s)
  <2>1. count' = count /\ data' = data /\ data2' = data2 /\ inbox' = inbox /\ hand' = hand
    BY <1>7 DEF HandleControl
  <2>2. Held(c)' = Held(c)
    BY <2>1, <1>0
  <2> QED BY <2>1, <2>2, <1>0 DEF Balanced
<1>8. CASE HandOn(s)
  <2> DEFINE m == hand[s][1]
             one == Is(m.of, c)
  <2>1. hand[s] # <<>> /\ hand' = [hand EXCEPT ![s] = <<>>] /\ data' = data /\ data2' = data2
    BY <1>8 DEF HandOn
  <2>2. m \in Messages /\ m.of \in Slots
    BY <2>1, MessageAtHand
  <2>3. Head(hand[s]) = m /\ Tail(hand[s]) \in Seq(Messages)
    BY <1>1, <2>1, HeadTailProperties
  <2>4. Carrying(hand[s], c) = Carrying(Tail(hand[s]), c) + one
    BY <1>1, <2>1, <2>3, CarryingTail
  <2>5. /\ count'[c] - CarriedIn(inbox', c) = count[c] - CarriedIn(inbox, c) - one
        /\ count'[c] <= count[c] /\ CarriedIn(inbox', c) \in Nat
    <3>1. CASE s = Upper /\ upstream
      <4>1. Put(Lower, m, count) /\ Lower \in Streams
        BY <1>8, <3>1, Values DEF HandOn
      <4> QED BY <1>1, <2>2, <4>1, PutMoves
    <3>2. CASE ~(s = Upper /\ upstream)
      <4>1. count' = Minus(count, m.of) /\ inbox' = inbox
        BY <1>8, <3>2 DEF HandOn
      <4>2. count'[c] = count[c] - one
        BY <1>1, <2>2, <4>1, PlusAndMinus
      <4> HIDE DEF m, one
      <4>3. one \in Nat
        BY <1>0 DEF one
      <4> QED BY <4>1, <4>2, <4>3, <1>0
    <3> QED BY <3>1, <3>2
  <2>6. one \in Nat
    BY <1>0
  <2> HIDE DEF m, one
  <2>7. CarriedIn(hand', c) = CarriedIn(hand, c) - Carrying(hand[s], c) + 0
    BY <1>1, <1>3, <2>1
  <2>8. Carrying(Tail(hand[s]), c) = 0
    BY <1>3, <2>1 DEF OneAtHand
  <2>9. count'[c] \in Int
    BY <2>5, <2>6, HolderNumbers, TypedWorker DEF Worker, Typed
  <2>10. Held(c)' = Having(data, c) + Having(data2, c) + CarriedIn(inbox', c)
                    + CarriedIn(hand, c) - one
    BY <2>1, <2>4, <2>5, <2>6, <2>7, <2>8, <1>0
  <2> QED BY <2>5, <2>6, <2>8, <2>9, <2>10, <1>0 DEF Balanced
<1> QED BY <1>4, <1>5, <1>6, <1>7, <1>8

\* The steps of a worker at a task.
LEMMA BalancedTask ==
  ASSUME Typed, NEW s \in Streams, NEW c \in Containers,
         \/ HandleBegin(s) \/ HandleLink(s) \/ HandleResize(s) \/ HandleUnlink(s)
         \/ HandleEnd(s)
  PROVE  Balanced(c)
<1> DEFINE t == TaskAt(s)
           m == hand[s][1].of
           d == data[t]
           e == data2[t]
<1>1. /\ hand[s] # <<>> /\ t \in Tasks /\ m \in Slots /\ d \in Slots /\ e \in Slots
      /\ None \in Slots /\ c \in Slots
  <2>1. \E type : Handles(s, type)
    BY DEF HandleBegin, HandleLink, HandleResize, HandleUnlink, HandleEnd
  <2>2. t \in Tasks /\ m \in Slots /\ hand[s] # <<>>
    BY <2>1, MessageAtTask DEF Handles
  <2> HIDE DEF t
  <2> QED BY <2>2, Values DEF Typed, Slots
<1>2. hand' = hand /\ CarriedIn(inbox', c) = CarriedIn(inbox, c)
  <2>1. inbox \in [Streams -> Seq(Messages)]
    BY DEF Typed
  <2>2. inbox' = inbox \/ inbox' = [inbox EXCEPT ![s] = Append(inbox[s], Stop)]
    BY DEF HandleBegin, HandleLink, HandleResize, HandleUnlink, HandleEnd
  <2>3. hand' = hand
    BY DEF HandleBegin, HandleLink, HandleResize, HandleUnlink, HandleEnd
  <2>4. CarriedIn([inbox EXCEPT ![s] = Append(inbox[s], Stop)], c) = CarriedIn(inbox, c)
    BY <2>1, StopCarriesNothing
  <2> QED BY <2>2, <2>3, <2>4
<1>3. Is(m, c) \in Nat /\ Is(d, c) \in Nat /\ Is(e, c) \in Nat /\ Is(None, c) = 0
  BY StreamsAssumption DEF Is
<1>4. Is(m, c) > 0 => Held(c) > 0
  BY <1>1, MessageHolds DEF Is
<1>5. ASSUME NEW v \in Slots
      PROVE  /\ Having([data EXCEPT ![t] = v], c) = Having(data, c) + Is(v, c) - Is(d, c)
             /\ Having([data2 EXCEPT ![t] = v], c) = Having(data2, c) + Is(v, c) - Is(e, c)
  BY <1>1, OneTaskChanges DEF Typed
<1>6. count \in [Containers -> Int]
  BY DEF Typed
<1>7. ASSUME NEW v \in Slots
      PROVE  /\ Plus(count, v)[c] = count[c] + Is(v, c)
             /\ Minus(count, v)[c] = count[c] - Is(v, c)
             /\ Plus(Minus(count, d), v)[c] = count[c] - Is(d, c) + Is(v, c)
  <2> HIDE DEF d
  <2>1. /\ Minus(count, d) \in [Containers -> Int]
        /\ Minus(count, d)[c] = count[c] - Is(d, c)
    BY <1>1, <1>6, PlusAndMinus
  <2>2. Plus(Minus(count, d), v)[c] = Minus(count, d)[c] + Is(v, c)
    BY <2>1, PlusAndMinus
  <2> QED BY <1>6, <2>1, <2>2, PlusAndMinus
<1>8. /\ count[c] \in Int /\ Held(c) \in Nat
      /\ Having(data, c) \in Nat /\ Having(data2, c) \in Nat
      /\ CarriedIn(inbox, c) \in Nat /\ CarriedIn(hand, c) \in Nat
      /\ Held(c) = Having(data, c) + Having(data2, c) + CarriedIn(inbox, c) + CarriedIn(hand, c)
      /\ Held(c)' = Having(data', c) + Having(data2', c)
                    + CarriedIn(inbox, c) + CarriedIn(hand, c)
      /\ Surplus(c)' = count'[c] - Held(c)' /\ Surplus(c) = count[c] - Held(c)
  BY <1>2, HolderNumbers, HeldAfter, SurplusAfter DEF Surplus
<1>9. CASE count' = count /\ data' = data /\ data2' = data2
  <2>1. count'[c] = count[c] /\ Held(c)' = Held(c)
    BY <1>8, <1>9
  <2> QED BY <1>8, <2>1 DEF Balanced
<1>10. CASE HandleBegin(s)
  <2>1. \/ count' = count /\ data' = data /\ data2' = data2
        \/ d = None /\ count' = Plus(count, m) /\ data' = [data EXCEPT ![t] = m] /\ data2' = data2
    BY <1>10 DEF HandleBegin
  <2> HIDE DEF m, d, t
  <2>2. CASE d = None /\ count' = Plus(count, m) /\ data' = [data EXCEPT ![t] = m] /\ data2' = data2
    <3>1. count'[c] = count[c] + Is(m, c)
      BY <1>1, <1>7, <2>2
    <3>2. Having(data', c) = Having(data, c) + Is(m, c) - Is(d, c) /\ Having(data2', c) = Having(data2, c)
      BY <1>1, <1>5, <2>2
    <3>3. Is(d, c) = 0
      BY <1>3, <2>2
    <3> QED BY <1>3, <1>4, <1>8, <3>1, <3>2, <3>3 DEF Balanced
  <2> QED BY <1>9, <2>1, <2>2
<1>11. CASE HandleLink(s)
  <2>1. \/ count' = count /\ data' = data /\ data2' = data2
        \/ /\ count' = Plus(count, m) /\ data' = [data EXCEPT ![t] = m]
           /\ data2' = [data2 EXCEPT ![t] = d]
           /\ e = None \/ Forgets
    BY <1>11 DEF HandleLink, SwitchCounted, HasNothingToSwitch, Forgets, ForgetsKept
  <2> HIDE DEF m, d, t
  <2>2. CASE count' = Plus(count, m) /\ data' = [data EXCEPT ![t] = m]
             /\ data2' = [data2 EXCEPT ![t] = d] /\ (e = None \/ Forgets)
    <3>1. count'[c] = count[c] + Is(m, c)
      BY <1>1, <1>7, <2>2
    <3>2. /\ Having(data', c) = Having(data, c) + Is(m, c) - Is(d, c)
          /\ Having(data2', c) = Having(data2, c) + Is(d, c) - Is(e, c)
      BY <1>1, <1>5, <2>2
    <3>3. Is(e, c) = 0 \/ Forgets
      BY <1>3, <2>2
    <3> HIDE DEF e
    <3> QED BY <1>3, <1>4, <1>8, <3>1, <3>2, <3>3 DEF Balanced
  <2> QED BY <1>9, <2>1, <2>2
<1>12. CASE HandleResize(s)
  <2>1. /\ \/ count' = Plus(count, m) /\ (d = None \/ Forgets)
           \/ count' = Plus(Minus(count, d), m)
        /\ data' = [data EXCEPT ![t] = m] /\ data2' = data2
    BY <1>12 DEF HandleResize, Forgets, ForgetsUsed
  <2> HIDE DEF m, d, t
  <2>2. \/ count'[c] = count[c] + Is(m, c) /\ (Is(d, c) = 0 \/ Forgets)
        \/ count'[c] = count[c] - Is(d, c) + Is(m, c)
    BY <1>1, <1>3, <1>7, <2>1
  <2>3. Having(data', c) = Having(data, c) + Is(m, c) - Is(d, c) /\ Having(data2', c) = Having(data2, c)
    BY <1>1, <1>5, <2>1
  <2> QED BY <1>3, <1>4, <1>8, <2>2, <2>3 DEF Balanced
<1>13. CASE HandleUnlink(s)
  <2>1. \/ count' = count /\ data' = data /\ data2' = data2
        \/ /\ count' = Minus(count, d) /\ data' = [data EXCEPT ![t] = e]
           /\ data2' = [data2 EXCEPT ![t] = None]
    BY <1>13 DEF HandleUnlink, GoBack
  <2> HIDE DEF m, d, e, t
  <2>2. CASE count' = Minus(count, d) /\ data' = [data EXCEPT ![t] = e]
             /\ data2' = [data2 EXCEPT ![t] = None]
    <3>1. count'[c] = count[c] - Is(d, c)
      BY <1>1, <1>7, <2>2
    <3>2. /\ Having(data', c) = Having(data, c) + Is(e, c) - Is(d, c)
          /\ Having(data2', c) = Having(data2, c) + Is(None, c) - Is(e, c)
      BY <1>1, <1>5, <2>2
    <3> QED BY <1>3, <1>8, <3>1, <3>2 DEF Balanced
  <2> QED BY <1>9, <2>1, <2>2
<1>14. CASE HandleEnd(s)
  <2>1. \/ count' = count /\ data' = data /\ data2' = data2
        \/ count' = Minus(count, d) /\ data' = [data EXCEPT ![t] = None] /\ data2' = data2
    BY <1>14 DEF HandleEnd
  <2> HIDE DEF d, t
  <2>2. CASE count' = Minus(count, d) /\ data' = [data EXCEPT ![t] = None] /\ data2' = data2
    <3>1. count'[c] = count[c] - Is(d, c)
      BY <1>1, <1>7, <2>2
    <3>2. /\ Having(data', c) = Having(data, c) + Is(None, c) - Is(d, c)
          /\ Having(data2', c) = Having(data2, c)
      BY <1>1, <1>5, <2>2
    <3> QED BY <1>3, <1>8, <3>1, <3>2 DEF Balanced
  <2> QED BY <1>9, <2>1, <2>2
<1> QED BY <1>10, <1>11, <1>12, <1>13, <1>14

\* initialize(): each task that gives a container up counts.
LEMMA BalancedInitialize ==
  ASSUME Typed, Typed', NEW s \in Streams, NEW c \in Containers, Initialize(s)
  PROVE  Balanced(c)
<1> DEFINE T == {t \in Tasks : t[1] = s /\ free[t]}
           T2 == {t \in Tasks : t[1] = s}
           a == Cardinality({t \in T : data[t] = c})
           b == Cardinality({t \in T2 : data2[t] = c})
<1>1. /\ data \in [Tasks -> Slots] /\ data2 \in [Tasks -> Slots]
      /\ data' \in [Tasks -> Slots] /\ data2' \in [Tasks -> Slots]
  BY DEF Typed
<1>2. Having(data', c) = Having(data, c) - a
  <2>1. \A t \in Tasks : data'[t] = IF t \in T THEN None ELSE data[t]
    BY DEF Initialize
  <2>2. T \in SUBSET Tasks
    OBVIOUS
  <2> HIDE DEF T, T2
  <2> QED BY <1>1, <2>1, <2>2, SomeTasksGiveUp
<1>3. Having(data2', c) = Having(data2, c) - b
  <2>1. \A t \in Tasks : data2'[t] = IF t \in T2 THEN None ELSE data2[t]
    BY DEF Initialize
  <2>2. T2 \in SUBSET Tasks
    OBVIOUS
  <2> HIDE DEF T, T2
  <2>3. data2 \in [Tasks -> Slots] /\ data2' \in [Tasks -> Slots]
    BY <1>1
  <2> QED BY <2>1, <2>2, <2>3, SomeTasksGiveUp
<1>4. GivenUp(s, c) = a + b
  <2>1. /\ {t \in T : data[t] = c} = {t \in Tasks : t[1] = s /\ free[t] /\ data[t] = c}
        /\ {t \in T2 : data2[t] = c} = {t \in Tasks : t[1] = s /\ data2[t] = c}
    OBVIOUS
  <2> QED BY <2>1 DEF GivenUp
<1>5. a \in Nat /\ b \in Nat
  <2>1. {t \in T : data[t] = c} \in SUBSET Tasks /\ {t \in T2 : data2[t] = c} \in SUBSET Tasks
    OBVIOUS
  <2> QED BY <2>1, SomeTasks
<1> HIDE DEF T, T2, a, b
<1>6. count'[c] = count[c] - (a + b) /\ inbox' = inbox /\ hand' = hand
  BY <1>4 DEF Initialize
<1>7. Held(c)' = Having(data', c) + Having(data2', c) + CarriedIn(inbox, c) + CarriedIn(hand, c)
  BY <1>6, HeldAfter
<1> QED BY <1>2, <1>3, <1>5, <1>6, <1>7, HolderNumbers, SurplusAfter DEF Balanced, Surplus

\* The calls that touch no container.
LEMMA BalancedCall ==
  ASSUME Typed, NEW c \in Containers,
         \/ \E s \in Streams : Resize(s) \/ StopStream(s)
         \/ Link \/ Unlink \/ UnlinkLower \/ Send \/ Borrow
  PROVE  Balanced(c)
<1>1. /\ count[c] \in Int /\ Held(c) \in Nat
      /\ Having(data, c) \in Nat /\ Having(data2, c) \in Nat
      /\ CarriedIn(inbox, c) \in Nat /\ CarriedIn(hand, c) \in Nat
      /\ Held(c) = Having(data, c) + Having(data2, c) + CarriedIn(inbox, c) + CarriedIn(hand, c)
      /\ Held(c)' = Having(data', c) + Having(data2', c)
                    + CarriedIn(inbox', c) + CarriedIn(hand', c)
      /\ Surplus(c)' = count'[c] - Held(c)' /\ Surplus(c) = count[c] - Held(c)
  BY HolderNumbers, HeldAfter, SurplusAfter DEF Surplus
<1>2. CASE Send
  <2>1. Head(todo) \in Calls
    BY <1>2, HeadTailProperties DEF Send, Typed
  <2>2. Head(todo).to \in Streams
    BY <2>1 DEF Calls
  <2>3. PICK m \in Messages : Put(Head(todo).to, m, count) /\ m.of = None
    BY <1>2, Values DEF Send
  <2>4. count \in [Containers -> Int] /\ inbox \in [Streams -> Seq(Messages)]
    BY DEF Typed
  <2>5. /\ count'[c] - CarriedIn(inbox', c) = count[c] - CarriedIn(inbox, c) - Is(None, c)
        /\ count'[c] <= count[c] /\ CarriedIn(inbox', c) \in Nat
        /\ count'[c] \in Int
    BY <2>2, <2>3, <2>4, PutMoves
  <2>6. Is(None, c) = 0
    BY StreamsAssumption DEF Is
  <2>7. data' = data /\ data2' = data2 /\ hand' = hand
    BY <1>2 DEF Send
  <2>8. Held(c)' = Having(data, c) + Having(data2, c) + CarriedIn(inbox', c) + CarriedIn(hand, c)
    BY <1>1, <2>7
  <2> QED BY <1>1, <2>5, <2>6, <2>8 DEF Balanced
<1>3. CASE count' = count /\ data' = data /\ data2' = data2 /\ inbox' = inbox /\ hand' = hand
  <2>1. count'[c] = count[c] /\ Held(c)' = Held(c)
    BY <1>1, <1>3
  <2> QED BY <1>1, <2>1 DEF Balanced
<1> QED BY <1>2, <1>3 DEF Resize, StopStream, Link, Unlink, UnlinkLower, Borrow

-----------------------------------------------------------------------------
(* Safety. *)

\* The part of the invariant that is about the counts, for one container.
Safe(c) == Surplus(c) >= 0 /\ (IsMade(c) \/ count[c] <= 0)

\* What is to be shown of the next state.
LEMMA SafeAfter == \A c : Safe(c)' <=> Surplus(c)' >= 0 /\ (c[2] <= made'[c[1]] \/ count'[c] <= 0)
BY DEF Safe, IsMade

\* The invariant says it of every container.
LEMMA InvariantIsSafe ==
  ASSUME Typed, OnlyMade, NotFreedInUse, NEW c \in Containers
  PROVE  Safe(c)
<1>1. count[c] \in Int /\ Held(c) \in Nat /\ Held(c) <= count[c]
  BY HolderNumbers DEF NotFreedInUse
<1>2. count[c] - Held(c) >= 0
  BY <1>1
<1> QED BY <1>2 DEF Safe, OnlyMade, Surplus

\* What is held was made.
LEMMA HeldIsMade ==
  ASSUME Typed, NEW c \in Containers, Safe(c), Held(c) > 0
  PROVE  IsMade(c)
<1>1. count[c] \in Int /\ Held(c) \in Nat /\ count[c] - Held(c) >= 0
  BY HolderNumbers DEF Safe, Surplus
<1>2. ~(count[c] <= 0)
  BY <1>1
<1> QED BY <1>2 DEF Safe

\* A balanced step is safe.
LEMMA BalancedIsSafe ==
  ASSUME Typed, Typed', NEW c \in Containers, Safe(c), Balanced(c), made' = made
  PROVE  Safe(c)'
<1>1. /\ count[c] \in Int /\ Held(c) \in Nat /\ count'[c] \in Int
      /\ Surplus(c) = count[c] - Held(c)
  BY HolderNumbers DEF Typed, Surplus
<1>2. Surplus(c)' = count'[c] - Held(c)' /\ Held(c)' \in Nat
  <2>1. /\ data' \in [Tasks -> Slots] /\ data2' \in [Tasks -> Slots]
        /\ inbox' \in [Streams -> Seq(Messages)] /\ hand' \in [Streams -> Seq(Messages)]
    BY DEF Typed
  <2>2. {t \in Tasks : data'[t] = c} \in SUBSET Tasks /\ {t \in Tasks : data2'[t] = c} \in SUBSET Tasks
    OBVIOUS
  <2>3. Having(data', c) \in Nat /\ Having(data2', c) \in Nat
    BY <2>2, SomeTasks DEF Having
  <2>4. CarriedIn(inbox', c) \in Nat /\ CarriedIn(hand', c) \in Nat
    BY <2>1, CarriedType
  <2> QED BY <2>3, <2>4, HeldAfter, SurplusAfter
<1>3. Surplus(c)' >= 0
  BY <1>1, <1>2 DEF Safe, Balanced
<1>4. c[2] <= made'[c[1]] \/ count'[c] <= 0
  <2>1. CASE IsMade(c)
    BY <2>1 DEF IsMade
  <2>2. CASE count[c] <= 0
    BY <1>1, <2>2 DEF Safe, Balanced
  <2> QED BY <2>1, <2>2 DEF Safe
<1> QED BY <1>3, <1>4, SafeAfter

\* What was made stays so.
LEMMA MadeGrows ==
  ASSUME made \in [Streams -> 0..MaxContainers], NEW s \in Streams, Make(s)
  PROVE  /\ \A c \in Containers : IsMade(c) => c[2] <= made'[c[1]]
         /\ NextOf(s)[2] <= made'[NextOf(s)[1]] /\ ~IsMade(NextOf(s))
<1>1. made' = [made EXCEPT ![s] = made[s] + 1] /\ made[s] \in Int
  BY NumbersAssumption DEF Make
<1>2. ASSUME NEW c \in Containers, IsMade(c) PROVE c[2] <= made'[c[1]]
  <2>1. c[1] \in Streams /\ c[2] \in Int /\ made[c[1]] \in Int /\ c[2] <= made[c[1]]
    BY <1>2, NumbersAssumption DEF Containers, IsMade
  <2> QED BY <1>1, <2>1
<1>3. NextOf(s)[1] = s /\ NextOf(s)[2] = made[s] + 1
  BY DEF NextOf
<1> QED BY <1>1, <1>2, <1>3 DEF IsMade

\* A new container has two holders: the head and BEGIN.
LEMMA StartIsSafe ==
  ASSUME Typed, NEW s \in Streams, NEW c \in Containers, Safe(c), Start(s)
  PROVE  Safe(c)' /\ (Surplus(c)' = Surplus(c) \/ data[HeadOf(s)] # None)
<1> DEFINE n == NextOf(s)
           m == Message("BEGIN", n)
           k == [count EXCEPT ![n] = 2]
           d == data[HeadOf(s)]
<1>1. /\ made \in [Streams -> 0..MaxContainers] /\ count \in [Containers -> Int]
      /\ data \in [Tasks -> Slots] /\ inbox \in [Streams -> Seq(Messages)]
      /\ HeadOf(s) \in Tasks
  BY FiniteTasks DEF Typed, Streams
<1>2. /\ Make(s) /\ Put(s, m, k) /\ data' = [data EXCEPT ![HeadOf(s)] = n]
      /\ data2' = data2 /\ hand' = hand
  BY DEF Start
<1>3. n \in Containers
  BY <1>1, <1>2, MakeType
<1>4. n \in Slots /\ c \in Slots /\ d \in Slots
  BY <1>1, <1>3 DEF Slots
<1>5. m \in Messages /\ m.of = n
  BY <1>4, Values
<1>6. k \in [Containers -> Int] /\ k[c] = IF n = c THEN 2 ELSE count[c]
  BY <1>1, <1>3
<1>7. /\ \A x \in Containers : IsMade(x) => x[2] <= made'[x[1]]
      /\ n[2] <= made'[n[1]] /\ ~IsMade(n)
  BY <1>1, <1>2, MadeGrows
<1> HIDE DEF n, m, k, d
<1>8. /\ count'[c] - CarriedIn(inbox', c) = k[c] - CarriedIn(inbox, c) - Is(n, c)
      /\ count'[c] <= k[c] /\ CarriedIn(inbox', c) \in Nat /\ count'[c] \in Int
  BY <1>1, <1>2, <1>5, <1>6, PutMoves
<1>9. Having(data', c) = Having(data, c) + Is(n, c) - Is(d, c)
  BY <1>1, <1>2, <1>4, OneTaskChanges DEF d
<1>10. Is(d, c) \in Nat /\ Is(n, c) = (IF n = c THEN 1 ELSE 0)
  BY DEF Is
<1>11. /\ count[c] \in Int /\ Held(c) \in Nat
       /\ Having(data, c) \in Nat /\ Having(data2, c) \in Nat
       /\ CarriedIn(inbox, c) \in Nat /\ CarriedIn(hand, c) \in Nat
       /\ Held(c) = Having(data, c) + Having(data2, c) + CarriedIn(inbox, c) + CarriedIn(hand, c)
       /\ count[c] - Held(c) >= 0
  BY HolderNumbers DEF Safe, Surplus
<1>12. Surplus(c)' = count'[c] - (Having(data', c) + Having(data2, c)
                                  + CarriedIn(inbox', c) + CarriedIn(hand, c))
  BY <1>2, HeldAfter, SurplusAfter
<1>13. CASE n = c
  <2>1. ~(Held(c) > 0)
    BY <1>7, <1>13, HeldIsMade
  <2>2. /\ Having(data, c) = 0 /\ Having(data2, c) = 0
        /\ CarriedIn(inbox, c) = 0 /\ CarriedIn(hand, c) = 0
    BY <1>11, <2>1
  <2>3. k[c] = 2 /\ Is(n, c) = 1
    BY <1>6, <1>10, <1>13
  <2>4. Surplus(c)' = 0
    <3>1. Is(d, c) = 0
      BY <1>1, <1>13, <2>1, TaskHolds DEF Is, d
    <3>2. Is(d, c) = 0 /\ count'[c] - CarriedIn(inbox', c) = 1
      BY <1>8, <2>2, <2>3, <3>1
    <3>3. Having(data', c) = 1
      BY <1>9, <2>2, <2>3, <3>1
    <3> QED BY <1>8, <1>11, <1>12, <2>2, <3>2, <3>3
  <2>5. Surplus(c) = 0
    <3>1. count[c] <= 0
      BY <1>7, <1>13 DEF Safe
    <3> QED BY <1>11, <2>1, <3>1 DEF Surplus
  <2> QED BY <1>7, <1>13, <2>4, <2>5, SafeAfter
<1>14. CASE n # c
  <2>1. k[c] = count[c] /\ Is(n, c) = 0
    BY <1>6, <1>10, <1>14
  <2>2. Surplus(c)' = Surplus(c) + Is(d, c) /\ Surplus(c) >= 0
    BY <1>8, <1>9, <1>10, <1>11, <1>12, <2>1 DEF Surplus
  <2>3. c[2] <= made'[c[1]] \/ count'[c] <= 0
    BY <1>7, <1>8, <1>11, <2>1 DEF Safe
  <2>4. Is(d, c) = 0 \/ d # None
    BY StreamsAssumption DEF Is
  <2>5. Surplus(c)' >= 0 /\ (Surplus(c)' = Surplus(c) \/ d # None)
    BY <1>10, <1>11, <2>2, <2>4 DEF Surplus
  <2> QED BY <2>3, <2>5, SafeAfter DEF d
<1> QED BY <1>13, <1>14

\* A message that is posted takes a reference along.
LEMMA PostIsSafe ==
  ASSUME Typed, Borrowing, OnlyMade, NEW c \in Containers, Safe(c), Post
  PROVE  Safe(c)' /\ Surplus(c)' = Surplus(c)
<1> DEFINE s == Head(todo).to
           x == IF borrowed[1] = None THEN NextOf(s) ELSE borrowed[1]
           m == Message(Head(todo).op, x)
<1>1. /\ made \in [Streams -> 0..MaxContainers] /\ count \in [Containers -> Int]
      /\ inbox \in [Streams -> Seq(Messages)] /\ borrowed \in Seq(Slots) /\ todo \in Seq(Calls)
  BY DEF Typed
<1>2. /\ borrowed # <<>> /\ Put(s, m, Plus(count, x))
      /\ IF borrowed[1] = None THEN Make(s) ELSE made' = made
      /\ data' = data /\ data2' = data2 /\ hand' = hand
  BY DEF Post, Referenced
<1>3. Head(todo) \in Calls /\ Head(todo).op \in {"LINK", "UNLINK", "RESIZE"}
  BY <1>1, <1>2, HeadTailProperties DEF Borrowing
<1>4. s \in Streams
  BY <1>3 DEF Calls
<1>5. borrowed[1] \in Slots /\ 1 \in DOMAIN borrowed
  <2>1. Len(borrowed) \in Nat \ {0} /\ DOMAIN borrowed = 1..Len(borrowed)
    BY <1>1, <1>2, LenProperties, EmptySeq
  <2> QED BY <1>1, <2>1
<1> HIDE DEF s
<1>6. /\ x \in Slots /\ \A y \in Containers : IsMade(y) => y[2] <= made'[y[1]]
      /\ x = None \/ x[2] <= made'[x[1]]
  <2>1. CASE borrowed[1] = None
    BY <1>1, <1>2, <1>4, <2>1, MakeType, MadeGrows DEF Slots
  <2>2. CASE borrowed[1] # None
    <3>1. IsMade(borrowed[1])
      BY <1>5, <2>2 DEF OnlyMade
    <3> QED BY <1>2, <1>5, <2>2, <3>1 DEF IsMade
  <2> QED BY <2>1, <2>2
<1> HIDE DEF x
<1>7. m \in Messages /\ m.of = x
  BY <1>3, <1>6, Values
<1> HIDE DEF m
<1>8. Plus(count, x) \in [Containers -> Int] /\ Plus(count, x)[c] = count[c] + Is(x, c)
  BY <1>1, <1>6, PlusAndMinus
<1>9. /\ count'[c] - CarriedIn(inbox', c) = Plus(count, x)[c] - CarriedIn(inbox, c) - Is(x, c)
      /\ count'[c] <= Plus(count, x)[c] /\ CarriedIn(inbox', c) \in Nat /\ count'[c] \in Int
  BY <1>1, <1>2, <1>4, <1>7, <1>8, PutMoves
<1>10. Is(x, c) \in Nat /\ (x # c => Is(x, c) = 0)
  BY DEF Is
<1>11. /\ count[c] \in Int
       /\ Having(data, c) \in Nat /\ Having(data2, c) \in Nat
       /\ CarriedIn(inbox, c) \in Nat /\ CarriedIn(hand, c) \in Nat
       /\ count[c] - (Having(data, c) + Having(data2, c)
                      + CarriedIn(inbox, c) + CarriedIn(hand, c)) >= 0
  BY HolderNumbers DEF Safe, Surplus
<1>12. Surplus(c)' = count'[c] - (Having(data, c) + Having(data2, c)
                                  + CarriedIn(inbox', c) + CarriedIn(hand, c))
  BY <1>2, HeldAfter, SurplusAfter
<1>13. Surplus(c)' >= 0 /\ Surplus(c)' = Surplus(c)
  BY <1>8, <1>9, <1>10, <1>11, <1>12, HolderNumbers DEF Surplus
<1>14. c[2] <= made'[c[1]] \/ count'[c] <= 0
  <2>1. CASE x = c
    BY <1>6, <2>1, StreamsAssumption
  <2>2. CASE x # c
    <3>1. count'[c] <= count[c]
      BY <1>8, <1>9, <1>10, <1>11, <2>2
    <3> QED BY <1>6, <1>9, <1>11, <3>1 DEF Safe
  <2> QED BY <2>1, <2>2
<1> QED BY <1>13, <1>14, SafeAfter

\* The first state has the invariant, ...
LEMMA InvariantInit == Init => IInv
<1> SUFFICES ASSUME Init PROVE IInv
  OBVIOUS
<1>1. Typed
  BY TypedInit
<1>2. Borrowing
  BY DEF Borrowing, Init
<1>3. OnlyMade /\ OneAtHand
  BY DEF OnlyMade, OneAtHand, Init
<1>4. ASSUME NEW c \in Containers PROVE Held(c) <= count[c]
  <2>1. count[c] = 0 /\ c # None
    BY StreamsAssumption DEF Init
  <2>2. {t \in Tasks : data[t] = c} = {} /\ {t \in Tasks : data2[t] = c} = {}
    BY <2>1 DEF Init
  <2>3. Having(data, c) = 0 /\ Having(data2, c) = 0
    BY <2>2, FS_EmptySet DEF Having
  <2>4. /\ inbox[Upper] = <<>> /\ inbox[Lower] = <<>>
        /\ hand[Upper] = <<>> /\ hand[Lower] = <<>>
    BY DEF Init, Streams
  <2>5. CarriedIn(inbox, c) = 0 /\ CarriedIn(hand, c) = 0
    BY <2>4, CarryingEmpty DEF CarriedIn
  <2> QED BY <2>1, <2>3, <2>5 DEF Held
<1> QED BY <1>1, <1>2, <1>3, <1>4 DEF IInv, NotFreedInUse

\* ... and every step keeps it: the types, ...
LEMMA TypedNext == Typed /\ Borrowing /\ [Next]_vars => Typed'
<1> SUFFICES ASSUME Typed, Borrowing, [Next]_vars PROVE Typed'
  OBVIOUS
<1>1. CASE Application
  BY <1>1, TypedApplication
<1>2. CASE \E s \in Streams : Worker(s)
  BY <1>2, TypedWorker
<1>3. CASE UNCHANGED vars
  BY <1>3 DEF Typed
<1> QED BY <1>1, <1>2, <1>3 DEF Next

\* ... what control() is doing, ...
LEMMA BorrowingNext == Borrowing /\ [Next]_vars => Borrowing'
<1> SUFFICES ASSUME Borrowing, [Next]_vars PROVE Borrowing'
  OBVIOUS
<1>1. CASE borrowed' = <<>>
  BY <1>1 DEF Borrowing
<1>2. CASE borrowed' = borrowed /\ todo' = todo
  BY <1>2 DEF Borrowing
<1>3. CASE Borrow
  BY <1>3 DEF Borrow, Borrowing
<1>4. CASE Application
  BY <1>1, <1>2, <1>3, <1>4
  DEF Application, Initialize, Start, Link, Unlink, Resize, StopStream, UnlinkLower, Send, Post, Idle
<1>5. CASE \E s \in Streams : Worker(s)
  BY <1>2, <1>5
  DEF Worker, Take, Finish, Leave, HandleBegin, HandleLink, HandleResize, HandleUnlink,
      HandleEnd, HandleControl, HandOn
<1> QED BY <1>2, <1>4, <1>5 DEF Next

\* ... what the workers have at hand, ...
LEMMA OneAtHandNext == Typed /\ OneAtHand /\ [Next]_vars => OneAtHand'
<1> SUFFICES ASSUME Typed, OneAtHand, [Next]_vars PROVE OneAtHand'
  OBVIOUS
<1>1. hand \in [Streams -> Seq(Messages)]
  BY DEF Typed
<1>2. CASE hand' = hand
  BY <1>2 DEF OneAtHand
<1>3. CASE \E s \in Streams : Take(s)
  <2>1. PICK s \in Streams : hand' = [hand EXCEPT ![s] = <<Head(inbox[s])>>]
    BY <1>3 DEF Take
  <2>2. Tail(<<Head(inbox[s])>>) = <<>>
    OBVIOUS
  <2> QED BY <1>1, <2>1, <2>2 DEF OneAtHand
<1>4. CASE \E s \in Streams : HandOn(s)
  <2>1. PICK s \in Streams : hand' = [hand EXCEPT ![s] = <<>>]
    BY <1>4 DEF HandOn
  <2> QED BY <1>1, <2>1 DEF OneAtHand
<1>5. CASE Application
  BY <1>2, <1>5
  DEF Application, Initialize, Start, Link, Unlink, Resize, StopStream, UnlinkLower, Send, Borrow, Post
<1>6. CASE \E s \in Streams : Worker(s)
  BY <1>2, <1>3, <1>4, <1>6
  DEF Worker, Finish, Leave, HandleBegin, HandleLink, HandleResize, HandleUnlink, HandleEnd, HandleControl
<1> QED BY <1>2, <1>5, <1>6 DEF Next

\* ... the counts, ...
LEMMA SafeNext ==
  ASSUME IInv, Typed', [Next]_vars, NEW c \in Containers
  PROVE  Safe(c)'
<1>1. Typed /\ Borrowing /\ OneAtHand /\ OnlyMade /\ Safe(c)
  BY InvariantIsSafe DEF IInv
<1>2. CASE \E s \in Streams : Start(s)
  BY <1>1, <1>2, StartIsSafe
<1>3. CASE Post
  BY <1>1, <1>3, PostIsSafe
<1>4. CASE \E s \in Streams : Initialize(s)
  <2>1. Balanced(c)
    BY <1>1, <1>4, BalancedInitialize
  <2>2. made' = made
    BY <1>4 DEF Initialize
  <2> QED BY <1>1, <2>1, <2>2, BalancedIsSafe
<1>5. CASE \/ \E s \in Streams : Resize(s) \/ StopStream(s)
           \/ Link \/ Unlink \/ UnlinkLower \/ Send \/ Borrow
  <2>1. Balanced(c)
    BY <1>1, <1>5, BalancedCall
  <2>2. made' = made
    BY <1>5 DEF Resize, StopStream, Link, Unlink, UnlinkLower, Send, Borrow
  <2> QED BY <1>1, <2>1, <2>2, BalancedIsSafe
<1>6. CASE \E s \in Streams : Worker(s)
  <2>1. Balanced(c)
    BY <1>1, <1>6, BalancedWorker, BalancedTask DEF Worker
  <2>2. made' = made
    BY <1>6 DEF Worker, Take, Finish, Leave, HandleBegin, HandleLink, HandleResize,
                HandleUnlink, HandleEnd, HandleControl, HandOn
  <2> QED BY <1>1, <2>1, <2>2, BalancedIsSafe
<1>7. CASE UNCHANGED vars
  <2>1. Held(c)' = Held(c) /\ Surplus(c)' = Surplus(c) /\ count' = count /\ made' = made
    BY <1>7 DEF Held, Surplus
  <2> QED BY <1>1, <2>1, SafeAfter DEF Safe, IsMade
<1> QED BY <1>2, <1>3, <1>4, <1>5, <1>6, <1>7 DEF Next, Application

\* ... and what control() has read.
LEMMA BorrowedNext ==
  ASSUME IInv, [Next]_vars
  PROVE  \A i \in DOMAIN borrowed' : borrowed'[i] # None => borrowed'[i][2] <= made'[borrowed'[i][1]]
<1>1. Typed /\ OnlyMade
  BY DEF IInv
<1>2. CASE borrowed' = <<>>
  BY <1>2
<1>3. CASE borrowed' = borrowed /\ made' = made
  BY <1>1, <1>3 DEF OnlyMade, IsMade
<1>4. CASE Borrow
  <2> DEFINE h == HeadOf(Head(todo).to)
  <2>1. borrowed' = <<data[h]>> /\ made' = made /\ todo # <<>>
    BY <1>4 DEF Borrow
  <2>2. h \in Tasks
    <3>1. Head(todo) \in Calls
      BY <1>1, <2>1, HeadTailProperties DEF Typed
    <3> QED BY <3>1, FiniteTasks DEF Calls, Streams
  <2> HIDE DEF h
  <2>3. data[h] \in Slots
    BY <1>1, <2>2 DEF Typed
  <2>4. data[h] # None => IsMade(data[h])
    <3>1. SUFFICES ASSUME data[h] # None PROVE IsMade(data[h])
      OBVIOUS
    <3>2. data[h] \in Containers
      BY <2>3, <3>1 DEF Slots
    <3>3. Safe(data[h])
      BY <3>2, InvariantIsSafe DEF IInv
    <3>4. Held(data[h]) > 0
      BY <1>1, <2>2, <3>2, TaskHolds
    <3> QED BY <1>1, <3>2, <3>3, <3>4, HeldIsMade
  <2> QED BY <2>1, <2>4 DEF IsMade
<1>5. CASE Application
  BY <1>2, <1>3, <1>4, <1>5
  DEF Application, Initialize, Start, Link, Unlink, Resize, StopStream, UnlinkLower, Send, Post, Idle
<1>6. CASE \E s \in Streams : Worker(s)
  BY <1>3, <1>6
  DEF Worker, Take, Finish, Leave, HandleBegin, HandleLink, HandleResize, HandleUnlink,
      HandleEnd, HandleControl, HandOn
<1> QED BY <1>3, <1>5, <1>6 DEF Next

\* Together: every step keeps the invariant.
LEMMA InvariantNext == IInv /\ [Next]_vars => IInv'
<1> SUFFICES ASSUME IInv, [Next]_vars PROVE IInv'
  OBVIOUS
<1>1. Typed' /\ Borrowing' /\ OneAtHand'
  BY TypedNext, BorrowingNext, OneAtHandNext DEF IInv
<1>2. ASSUME NEW c \in Containers
      PROVE  /\ c[2] <= made'[c[1]] \/ count'[c] <= 0
             /\ Held(c)' <= count'[c]
  <2>1. Safe(c)'
    BY <1>1, SafeNext
  <2>2. count'[c] \in Int /\ Held(c)' \in Nat
    <3>1. /\ count' \in [Containers -> Int]
          /\ inbox' \in [Streams -> Seq(Messages)] /\ hand' \in [Streams -> Seq(Messages)]
      BY <1>1 DEF Typed
    <3>2. {t \in Tasks : data'[t] = c} \in SUBSET Tasks /\ {t \in Tasks : data2'[t] = c} \in SUBSET Tasks
      OBVIOUS
    <3>3. Having(data', c) \in Nat /\ Having(data2', c) \in Nat
      BY <3>2, SomeTasks DEF Having
    <3>4. CarriedIn(inbox', c) \in Nat /\ CarriedIn(hand', c) \in Nat
      BY <3>1, CarriedType
    <3> QED BY <3>1, <3>3, <3>4, HeldAfter
  <2> QED BY <2>1, <2>2, SafeAfter, SurplusAfter
<1>3. OnlyMade'
  BY <1>2, BorrowedNext DEF OnlyMade, IsMade
<1>4. NotFreedInUse'
  BY <1>2 DEF NotFreedInUse
<1> QED BY <1>1, <1>3, <1>4 DEF IInv

\* The invariant holds in every state of every behaviour.
THEOREM InductiveInvariant == Spec => []IInv
BY InvariantInit, InvariantNext, PTL DEF Spec

\* The variables keep their types, and no count ever falls below zero: increase() and
\* decrease() are balanced over any sequence of sessions, links and resizes.
THEOREM TypeCorrect == Spec => []TypeOK
<1>1. ASSUME IInv PROVE TypeOK
  <2>1. Typed
    BY <1>1 DEF IInv
  <2>2. ASSUME NEW c \in Containers PROVE count[c] \in Nat
    <3>1. count[c] \in Int /\ Held(c) \in Nat
      BY <2>1, HolderNumbers
    <3>2. Held(c) <= count[c]
      BY <1>1 DEF IInv, NotFreedInUse
    <3> QED BY <3>1, <3>2
  <2>3. count \in [Containers -> Nat]
    BY <2>1, <2>2 DEF Typed
  <2>4. made \in [Streams -> Nat]
    BY <2>1, NumbersAssumption DEF Typed
  <2> QED BY <2>1, <2>3, <2>4 DEF TypeOK, Typed, Slots
<1> QED BY <1>1, InductiveInvariant, PTL

\* Session data that a task uses or keeps, or a message carries, is not freed: there are
\* as many references to it as there are holders who will release one.
THEOREM NeverFreedInUse == Spec => []NotFreedInUse
<1>1. IInv => NotFreedInUse
  BY DEF IInv
<1> QED BY <1>1, InductiveInvariant, PTL

=============================================================================
