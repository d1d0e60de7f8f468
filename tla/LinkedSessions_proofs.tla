------------------------ MODULE LinkedSessions_proofs ------------------------
(***************************************************************************)
(* A proof that no reference to session data is forgotten, either, so that *)
(* every count is exact; that a stream that was initialized holds nothing; *)
(* that what control() reads is alive while its session goes on; and that  *)
(* the tasks of linked streams come to use the same session data.          *)
(*                                                                         *)
(* A step keeps the surplus of every container, unless it overwrites one   *)
(* that a task holds (Forgets).  That it does not follows from the way of  *)
(* the messages: which task a LINK or a RESIZE may still come to.  And     *)
(* what a task comes to use follows from which messages it has got: BEGIN  *)
(* first, and of LINK and UNLINK the last.                                 *)
(***************************************************************************)
EXTENDS LinkedStreams_proofs

USE DEF vars, references, slots, heads, workers, app, bounds

-----------------------------------------------------------------------------
(* Messages in queues. *)

Has(q, x) == \E m \in Range(q) : m.type = x
Single(q, x) == \A i, j \in DOMAIN q : q[i].type = x /\ q[j].type = x => i = j

\* An empty queue has no messages.
LEMMA EmptyQueue == Range(<<>>) = {} /\ \A x : ~Has(<<>>, x) /\ Single(<<>>, x)
BY DEF Range, Has, Single

\* A queue to which a message is appended.
LEMMA AppendedQueue ==
  ASSUME NEW q \in Seq(Messages), NEW m \in Messages
  PROVE  /\ Append(q, m) \in Seq(Messages)
         /\ Range(Append(q, m)) = Range(q) \cup {m}
         /\ \A x : /\ Has(Append(q, m), x) <=> Has(q, x) \/ m.type = x
                   /\ Single(q, x) /\ (m.type # x \/ ~Has(q, x)) => Single(Append(q, m), x)
<1> DEFINE a == Append(q, m)
<1>1. /\ a \in Seq(Messages) /\ Len(q) \in Nat /\ DOMAIN q = 1..Len(q) /\ DOMAIN a = 1..Len(q) + 1
      /\ \A i \in 1..Len(q) : a[i] = q[i]
      /\ a[Len(q) + 1] = m
  BY AppendProperties, LenProperties
<1> HIDE DEF a
<1>2. DOMAIN a = DOMAIN q \cup {Len(q) + 1} /\ Len(q) + 1 \notin DOMAIN q
  BY <1>1
<1>3. Range(a) = Range(q) \cup {m}
  <2>1. ASSUME NEW v \in Range(a) PROVE v \in Range(q) \cup {m}
    BY <1>1, <1>2, <2>1 DEF Range
  <2>2. ASSUME NEW v \in Range(q) \cup {m} PROVE v \in Range(a)
    <3>1. CASE v = m
      BY <1>1, <1>2, <3>1 DEF Range
    <3>2. CASE v # m
      <4>1. PICK i \in DOMAIN q : v = q[i]
        BY <2>2, <3>2 DEF Range
      <4>2. i \in DOMAIN a /\ a[i] = v
        BY <1>1, <1>2, <4>1
      <4> QED BY <4>2 DEF Range
    <3> QED BY <3>1, <3>2
  <2> QED BY <2>1, <2>2
<1>4. ASSUME NEW x, Single(q, x), m.type # x \/ ~Has(q, x) PROVE Single(a, x)
  <2> SUFFICES ASSUME NEW i \in DOMAIN a, NEW j \in DOMAIN a, a[i].type = x, a[j].type = x
               PROVE  i = j
    BY DEF Single
  <2>1. ASSUME NEW k \in DOMAIN q, a[k].type = x PROVE Has(q, x) /\ m.type # x
    BY <1>1, <1>4, <2>1 DEF Has, Range
  <2>2. CASE i \in DOMAIN q /\ j \in DOMAIN q
    BY <1>1, <1>4, <2>2 DEF Single
  <2>3. CASE i \notin DOMAIN q
    BY <1>1, <1>2, <2>1, <2>3
  <2>4. CASE j \notin DOMAIN q
    BY <1>1, <1>2, <2>1, <2>4
  <2> QED BY <2>2, <2>3, <2>4
<1> QED BY <1>1, <1>3, <1>4 DEF Has, a

\* A queue from which a message is taken.
LEMMA ShortenedQueue ==
  ASSUME NEW q \in Seq(Messages), q # <<>>
  PROVE  /\ Tail(q) \in Seq(Messages) /\ Head(q) \in Range(q) /\ Head(q) = q[1] /\ q[1] \in Messages
         /\ Range(Tail(q)) \subseteq Range(q)
         /\ \A i \in DOMAIN Tail(q) : i \in Nat \ {0} /\ i + 1 \in DOMAIN q /\ Tail(q)[i] = q[i + 1]
         /\ \A x : Single(q, x) => /\ Single(Tail(q), x)
                                   /\ Head(q).type = x => ~Has(Tail(q), x)
<1> DEFINE t == Tail(q)
<1>1. /\ t \in Seq(Messages) /\ Len(q) \in Nat /\ Len(q) # 0 /\ DOMAIN q = 1..Len(q) /\ DOMAIN t = 1..Len(q) - 1
      /\ \A i \in 1..Len(q) - 1 : t[i] = q[i + 1]
      /\ Head(q) = q[1]
  BY HeadTailProperties, LenProperties, EmptySeq
<1> HIDE DEF t
<1>2. 1 \in DOMAIN q /\ Head(q) \in Range(q) /\ q[1] \in Messages
  BY <1>1 DEF Range
<1>3. \A i \in DOMAIN t : i \in Nat \ {0} /\ i + 1 \in DOMAIN q /\ t[i] = q[i + 1] /\ i + 1 # 1
  BY <1>1
<1>4. Range(t) \subseteq Range(q)
  BY <1>3 DEF Range
<1>5. ASSUME NEW x, Single(q, x) PROVE Single(t, x) /\ (Head(q).type = x => ~Has(t, x))
  <2>1. Single(t, x)
    <3> SUFFICES ASSUME NEW i \in DOMAIN t, NEW j \in DOMAIN t, t[i].type = x, t[j].type = x
                 PROVE  i = j
      BY DEF Single
    <3>1. i + 1 = j + 1
      BY <1>3, <1>5 DEF Single
    <3> QED BY <1>3, <3>1
  <2>2. ASSUME Head(q).type = x, Has(t, x) PROVE FALSE
    <3>1. PICK i \in DOMAIN t : t[i].type = x
      BY <2>2 DEF Has, Range
    <3>2. i + 1 = 1
      BY <1>1, <1>2, <1>3, <1>5, <2>2, <3>1 DEF Single
    <3> QED BY <1>3, <3>2
  <2> QED BY <2>1, <2>2
<1> QED BY <1>1, <1>2, <1>3, <1>4, <1>5 DEF t

\* What Put() does to the queues.
LEMMA PutQueues ==
  ASSUME Typed, NEW s \in Streams, NEW m, NEW k, Put(s, m, k)
  PROVE  /\ \A r \in Streams : r # s => inbox'[r] = inbox[r]
         /\ state[s] = "over" => inbox' = inbox
         /\ state[s] # "over" => inbox'[s] = Append(inbox[s], m)
BY DEF Typed, Put, Active

\* A message at hand is the only one.
LEMMA HandQueue ==
  ASSUME Typed, OneAtHand, NEW s \in Streams
  PROVE  /\ hand[s] # <<>> => hand[s] = <<hand[s][1]>> /\ hand[s][1] \in Messages /\ Range(hand[s]) = {hand[s][1]}
         /\ \A x : Has(hand[s], x) <=> hand[s] # <<>> /\ hand[s][1].type = x
<1>1. hand[s] \in Seq(Messages)
  BY DEF Typed
<1>2. ASSUME hand[s] # <<>>
      PROVE  hand[s] = <<hand[s][1]>> /\ hand[s][1] \in Messages /\ Range(hand[s]) = {hand[s][1]}
  <2>1. /\ Tail(hand[s]) = <<>> /\ Len(Tail(hand[s])) = Len(hand[s]) - 1 /\ Len(hand[s]) \in Nat
        /\ DOMAIN hand[s] = 1..Len(hand[s])
    BY <1>1, <1>2, HeadTailProperties, LenProperties DEF OneAtHand
  <2>2. Len(hand[s]) = 1
    <3>1. Len(Tail(hand[s])) = 0
      BY <2>1, EmptySeq
    <3> QED BY <2>1, <3>1
  <2>3. hand[s] = <<hand[s][1]>> /\ DOMAIN hand[s] = {1}
    BY <1>1, <2>1, <2>2
  <2> QED BY <1>1, <2>3 DEF Range
<1> QED BY <1>2, EmptyQueue DEF Has

-----------------------------------------------------------------------------
(* Sessions. *)

\* A stream whose session is over, or has not begun, has no messages under way, and its head no
\* data; one that is to begin has kept none.  No call is made to a stream that is to begin.
Rests(s) == state[s] \in {"ready", "over"}
Sessions ==
  /\ \A c \in Range(todo) : state[c.to] # "ready"
  /\ upstream => \A s \in Streams : state[s] # "ready"
  /\ \A s \in Streams : Rests(s) => inbox[s] = <<>> /\ hand[s] = <<>> /\ data[HeadOf(s)] = None
  /\ \A t \in Tasks : state[t[1]] = "ready" => data2[t] = None

\* The calls that are left to do are among those that were.
LEMMA CallsLeft ==
  ASSUME Typed, todo # <<>>
  PROVE  /\ Head(todo) \in Range(todo) /\ Head(todo) \in Calls /\ Head(todo).to \in Streams
         /\ Range(Tail(todo)) \subseteq Range(todo)
<1> DEFINE t == Tail(todo)
<1>1. /\ todo \in Seq(Calls) /\ t \in Seq(Calls) /\ Len(todo) \in Nat /\ Len(todo) # 0
      /\ DOMAIN todo = 1..Len(todo) /\ DOMAIN t = 1..Len(todo) - 1
      /\ \A i \in 1..Len(todo) - 1 : t[i] = todo[i + 1]
      /\ Head(todo) = todo[1] /\ Head(todo) \in Calls
  BY HeadTailProperties, LenProperties, EmptySeq DEF Typed
<1> HIDE DEF t
<1>2. \A i \in DOMAIN t : i + 1 \in DOMAIN todo /\ t[i] = todo[i + 1]
  BY <1>1
<1>3. Range(t) \subseteq Range(todo)
  BY <1>2 DEF Range
<1> QED BY <1>1, <1>3 DEF Range, Calls, t

\* The calls of stop().
LEMMA CallsToStop ==
  /\ \A op, s : Range(<<Call(op, s)>>) = {Call(op, s)}
  /\ \A s : Range(<<>> \o <<Call("STOP", s)>>) = {Call("STOP", s)}
  /\ Range(EndAndUnlink \o <<Call("STOP", Upper)>>)
       = {Call("END", Lower), Call("unlink", Lower), Call("UNLINK", Lower), Call("UNLINK", Upper),
          Call("STOP", Upper)}
<1>1. ASSUME NEW a PROVE Range(<<a>>) = {a}
  BY DEF Range
<1>2. ASSUME NEW a, NEW b, NEW c, NEW d PROVE Range(<<a, b, c, d>>) = {a, b, c, d}
  <2>1. DOMAIN <<a, b, c, d>> = {1, 2, 3, 4}
    OBVIOUS
  <2> QED BY <2>1 DEF Range
<1>3. \A s : <<>> \o <<Call("STOP", s)>> = <<Call("STOP", s)>>
  OBVIOUS
<1>4. ASSUME NEW p \in Seq(Calls), NEW q \in Seq(Calls) PROVE Range(p \o q) = Range(p) \cup Range(q)
  BY RangeConcatenation
<1>5. EndAndUnlink \in Seq(Calls) /\ <<Call("STOP", Upper)>> \in Seq(Calls)
  BY Values DEF EndAndUnlink
<1>6. Range(EndAndUnlink) = {Call("END", Lower), Call("unlink", Lower), Call("UNLINK", Lower),
                          Call("UNLINK", Upper)}
  BY <1>2 DEF EndAndUnlink
<1>7. Range(EndAndUnlink \o <<Call("STOP", Upper)>>) = Range(EndAndUnlink) \cup {Call("STOP", Upper)}
  BY <1>1, <1>4, <1>5
<1>8. Range(EndAndUnlink \o <<Call("STOP", Upper)>>)
        = {Call("END", Lower), Call("unlink", Lower), Call("UNLINK", Lower), Call("UNLINK", Upper),
           Call("STOP", Upper)}
  BY <1>6, <1>7
<1> QED BY <1>1, <1>3, <1>8

\* What the calls are that the application begins.
LEMMA CallsBegun ==
  ASSUME Typed, NEW s \in Streams, StopStream(s)
  PROVE  Range(todo') \subseteq
           {Call("STOP", s)} \cup IF s = Upper /\ upstream
                                  THEN {Call("END", Lower), Call("unlink", Lower), Call("UNLINK", Lower),
                                        Call("UNLINK", Upper)}
                                  ELSE {}
BY CallsToStop DEF StopStream

LEMMA SessionsInit == Init => Sessions
<1> SUFFICES ASSUME Init PROVE Sessions
  OBVIOUS
<1>1. HeadOf(Upper) \in Tasks /\ HeadOf(Lower) \in Tasks
  BY FiniteTasks
<1>2. \A s \in Streams : data[HeadOf(s)] = None
  BY <1>1 DEF Init, Streams
<1> QED BY <1>2, EmptyQueue DEF Init, Sessions

\* The application begins and ends sessions, and calls streams that have begun.
LEMMA SessionsApplication == Typed /\ Borrowing /\ Sessions /\ Application => Sessions'
<1> SUFFICES ASSUME Typed, Borrowing, Sessions, Application PROVE Sessions'
  OBVIOUS
<1>1. /\ state \in [Streams -> {"ready", "running", "stopping", "over"}]
      /\ data \in [Tasks -> Slots] /\ data2 \in [Tasks -> Slots]
      /\ \A s \in Streams : HeadOf(s) \in Tasks /\ HeadOf(s)[1] = s
      /\ \A t \in Tasks : t[1] \in Streams
      /\ Upper \in Streams /\ Lower \in Streams
  BY FiniteTasks, Values DEF Typed, Streams, HeadOf, Tasks
<1>2. \A op, s : Call(op, s).to = s
  BY DEF Call
<1>3. ASSUME NEW s \in Streams, Initialize(s) PROVE Sessions'
  <2>1. /\ todo' = todo /\ todo = <<>> /\ upstream' = upstream /\ ~upstream
        /\ state[s] = "over" /\ state' = [state EXCEPT ![s] = "ready"]
        /\ inbox' = inbox /\ hand' = hand
        /\ data' = [t \in Tasks |-> IF t[1] = s /\ free[t] THEN None ELSE data[t]]
        /\ data2' = [t \in Tasks |-> IF t[1] = s THEN None ELSE data2[t]]
    BY <1>3 DEF Initialize, Idle
  <2>2. Range(todo') = {}
    BY <2>1, EmptyQueue
  <2>3. \A r \in Streams : Rests(r)' <=> Rests(r)
    BY <1>1, <2>1 DEF Rests
  <2> QED BY <1>1, <2>1, <2>2, <2>3 DEF Sessions
<1>4. ASSUME NEW s \in Streams, Start(s) PROVE Sessions'
  <2>1. /\ todo' = todo /\ todo = <<>> /\ upstream' = upstream /\ state[s] = "ready"
        /\ state' = [state EXCEPT ![s] = "running"] /\ hand' = hand /\ data2' = data2
        /\ \E m, k : Put(s, m, k)
        /\ data' = [data EXCEPT ![HeadOf(s)] = NextOf(s)]
    BY <1>4 DEF Start, Idle
  <2>2. Range(todo') = {}
    BY <2>1, EmptyQueue
  <2>3. \A r \in Streams : r # s => /\ inbox'[r] = inbox[r] /\ HeadOf(r) # HeadOf(s)
                                   /\ data'[HeadOf(r)] = data[HeadOf(r)]
    BY <1>1, <2>1, PutQueues
  <2>4. \A r \in Streams : Rests(r)' => r # s /\ Rests(r)
    BY <1>1, <2>1 DEF Rests
  <2>5. \A r \in Streams : state'[r] = "ready" => r # s /\ state[r] = "ready"
    BY <1>1, <2>1
  <2> QED BY <1>1, <2>1, <2>2, <2>3, <2>4, <2>5 DEF Sessions
<1>5. ASSUME NEW s \in Streams, StopStream(s) PROVE Sessions'
  <2>1. /\ state[s] = "running" /\ state' = [state EXCEPT ![s] = "stopping"]
        /\ UNCHANGED <<inbox, hand, data, data2, upstream>>
    BY <1>5 DEF StopStream
  <2>2. \A r \in Streams : /\ Rests(r)' <=> Rests(r)
                          /\ state'[r] = "ready" <=> state[r] = "ready"
    BY <1>1, <2>1 DEF Rests
  <2>3. \A c \in Range(todo') : c.to = s \/ (c.to \in Streams /\ upstream)
    BY <1>1, <1>2, <1>5, CallsBegun
  <2>4. \A c \in Range(todo') : state'[c.to] # "ready"
    BY <1>1, <2>1, <2>2, <2>3 DEF Sessions
  <2>5. upstream' => \A r \in Streams : state'[r] # "ready"
    BY <2>1, <2>2 DEF Sessions
  <2>6. ASSUME NEW r \in Streams, Rests(r)' PROVE inbox'[r] = <<>> /\ hand'[r] = <<>> /\ data'[HeadOf(r)] = None
    <3>1. Rests(r)
      BY <1>1, <2>1, <2>6 DEF Rests
    <3> QED BY <2>1, <3>1 DEF Sessions
  <2>7. \A t \in Tasks : state'[t[1]] = "ready" => data2'[t] = None
    BY <1>1, <2>1, <2>2 DEF Sessions
  <2> QED BY <2>4, <2>5, <2>6, <2>7 DEF Sessions
<1>6. CASE Link \/ Unlink \/ \E s \in Streams : Resize(s)
  <2>1. /\ UNCHANGED <<inbox, hand, data, data2, state>>
        /\ \E op, s : s \in Streams /\ state[s] # "ready" /\ todo' = <<Call(op, s)>>
        /\ upstream' => \A s \in Streams : state[s] # "ready"
    BY <1>1, <1>6 DEF Link, Unlink, Resize, Sessions
  <2>2. \A c \in Range(todo') : state[c.to] # "ready"
    BY <1>2, <2>1, CallsToStop
  <2> QED BY <2>1, <2>2 DEF Sessions, Rests
<1>7. CASE UnlinkLower \/ Borrow
  <2>1. /\ UNCHANGED <<inbox, hand, data, data2, state>> /\ todo # <<>>
        /\ upstream' => upstream
        /\ todo' = todo \/ todo' = Tail(todo)
    BY <1>7 DEF UnlinkLower, Borrow
  <2>2. Range(todo') \subseteq Range(todo)
    BY <2>1, CallsLeft
  <2> QED BY <2>1, <2>2 DEF Sessions, Rests
<1>8. CASE Send \/ Post
  <2> DEFINE s == Head(todo).to
  <2>1. /\ UNCHANGED <<hand, data, data2, state, upstream>> /\ todo # <<>> /\ todo' = Tail(todo)
        /\ \E m, k : Put(s, m, k)
    <3>1. CASE Send
      BY <3>1 DEF Send
    <3>2. CASE Post
      <4>1. todo # <<>>
        BY <3>2 DEF Post, Borrowing
      <4> QED BY <3>2, <4>1 DEF Post
    <3> QED BY <1>8, <3>1, <3>2
  <2>2. /\ Range(todo') \subseteq Range(todo) /\ s \in Streams /\ state[s] # "ready"
    BY <2>1, CallsLeft DEF Sessions
  <2> HIDE DEF s
  <2>3. \A r \in Streams : Rests(r) => inbox'[r] = inbox[r]
    BY <1>1, <2>1, <2>2, PutQueues DEF Rests
  <2> QED BY <2>1, <2>2, <2>3 DEF Sessions, Rests
<1> QED BY <1>3, <1>4, <1>5, <1>6, <1>7, <1>8 DEF Application

\* The workers act in sessions, and end them.
LEMMA SessionsWorker == Typed /\ Sessions /\ (\E s \in Streams : Worker(s)) => Sessions'
<1> SUFFICES ASSUME Typed, Sessions, NEW s \in Streams, Worker(s) PROVE Sessions'
  OBVIOUS
<1>1. /\ state \in [Streams -> {"ready", "running", "stopping", "over"}]
      /\ data \in [Tasks -> Slots] /\ data2 \in [Tasks -> Slots]
      /\ inbox \in [Streams -> Seq(Messages)] /\ hand \in [Streams -> Seq(Messages)]
      /\ \A r \in Streams : HeadOf(r) \in Tasks /\ HeadOf(r)[1] = r
      /\ \A t \in Tasks : t[1] \in Streams
      /\ Upper \in Streams /\ Lower \in Streams /\ Upper # Lower
  BY FiniteTasks, Values, StreamsAssumption DEF Typed, Streams, HeadOf, Tasks
<1>2. todo' = todo /\ upstream' = upstream
  BY DEF Worker, Take, Finish, Leave, HandleBegin, HandleLink, HandleResize, HandleUnlink, HandleEnd,
         HandleControl, HandOn
<1>3. ~Rests(s)
  <2>1. inbox[s] # <<>> \/ hand[s] # <<>>
    BY DEF Worker, Take, Finish, Leave, HandleBegin, HandleLink, HandleResize, HandleUnlink, HandleEnd,
           HandleControl, HandOn, Handles
  <2> QED BY <2>1 DEF Sessions
<1>4. /\ hand' = [hand EXCEPT ![s] = hand'[s]] /\ state' = [state EXCEPT ![s] = state'[s]]
      /\ state'[s] # "ready"
      /\ state'[s] = "over" => Leave(s)
  BY <1>1, <1>3 DEF Worker, Take, Finish, Leave, HandleBegin, HandleLink, HandleResize, HandleUnlink, HandleEnd,
         HandleControl, HandOn, Rests
<1>5. \A t \in Tasks : t[1] # s => data'[t] = data[t] /\ data2'[t] = data2[t]
  <2>1. TaskAt(s)[1] = s /\ HeadOf(s)[1] = s
    BY DEF TaskAt, HeadOf
  <2>2. \/ data' = data /\ data2' = data2
        \/ \E x : data' = [data EXCEPT ![HeadOf(s)] = x] /\ data2' = data2
        \/ \E x : data' = [data EXCEPT ![TaskAt(s)] = x] /\ data2' = data2
        \/ \E x, y : data' = [data EXCEPT ![TaskAt(s)] = x] /\ data2' = [data2 EXCEPT ![TaskAt(s)] = y]
    BY DEF Worker, Take, Finish, Leave, HandleBegin, HandleLink, HandleResize, HandleUnlink, GoBack,
           HandleEnd, HandleControl, HandOn
  <2> QED BY <1>1, <2>1, <2>2
<1>6. \A r \in Streams : r # s /\ Rests(r) => inbox'[r] = inbox[r]
  <2>1. ASSUME NEW r \in Streams, r # s, Rests(r) PROVE inbox'[r] = inbox[r]
    <3>1. CASE HandOn(s) /\ s = Upper /\ upstream
      <4>1. r = Lower /\ state[r] = "over" /\ \E m, k : Put(Lower, m, k)
        BY <2>1, <3>1 DEF HandOn, Streams, Sessions, Rests
      <4> QED BY <1>1, <4>1, PutQueues
    <3>2. CASE ~(HandOn(s) /\ s = Upper /\ upstream)
      BY <1>1, <2>1, <3>2 DEF Worker, Take, Finish, Leave, HandleBegin, HandleLink, HandleResize, HandleUnlink,
           HandleEnd, HandleControl, HandOn
    <3> QED BY <3>1, <3>2
  <2> QED BY <2>1
<1>7. Rests(s)' => inbox'[s] = <<>> /\ hand'[s] = <<>> /\ data'[HeadOf(s)] = None
  <2>1. CASE Leave(s)
    BY <1>1, <2>1 DEF Leave
  <2>2. CASE ~Leave(s)
    BY <1>4, <2>2 DEF Rests
  <2> QED BY <2>1, <2>2
<1>8. \A r \in Streams : r # s => /\ state'[r] = state[r] /\ hand'[r] = hand[r]
                                /\ data'[HeadOf(r)] = data[HeadOf(r)]
  BY <1>1, <1>4, <1>5
<1>9. \A r \in Streams : Rests(r)' => inbox'[r] = <<>> /\ hand'[r] = <<>> /\ data'[HeadOf(r)] = None
  BY <1>6, <1>7, <1>8 DEF Rests, Sessions
<1>10. \A r \in Streams : state[r] # "ready" => state'[r] # "ready"
  BY <1>4, <1>8
<1>11. \A t \in Tasks : state'[t[1]] = "ready" => data2'[t] = None
  BY <1>1, <1>4, <1>5, <1>8 DEF Sessions
<1>12. \A c \in Range(todo') : state'[c.to] # "ready"
  <2>1. \A c \in Range(todo) : c.to \in Streams
    <3>1. todo \in Seq(Calls)
      BY DEF Typed
    <3>2. Range(todo) \in SUBSET Calls
      BY <3>1, RangeOfSeq
    <3> QED BY <3>2 DEF Calls
  <2> QED BY <1>2, <1>10, <2>1 DEF Sessions
<1> QED BY <1>2, <1>9, <1>10, <1>11, <1>12 DEF Sessions

\* Every step keeps it.
LEMMA SessionsNext == Typed /\ Borrowing /\ Sessions /\ [Next]_vars => Sessions'
<1>1. Sessions /\ UNCHANGED vars => Sessions'
  BY DEF Sessions, Rests
<1> QED BY <1>1, SessionsApplication, SessionsWorker DEF Next

-----------------------------------------------------------------------------
(* Where containers come from. *)

\* Messages of the upper stream, and LINK wherever it is, carry data of the upper stream;
\* LINK and RESIZE always carry some.  Its tasks have no other data, and keep none.
OfUpper(c) == c = None \/ DataOf(c) = Upper
Rightly(s, m) == /\ m.type \in {"LINK", "RESIZE"} => m.of # None
                 /\ s = Upper \/ m.type = "LINK" => OfUpper(m.of)
Origin ==
  /\ \A c \in Range(todo) : c.op = "LINK" => c.to = Upper
  /\ \A s \in Streams : \A m \in Range(inbox[s]) \cup Range(hand[s]) : Rightly(s, m)
  /\ \A t \in Tasks : t[1] = Upper => OfUpper(data[t]) /\ data2[t] = None
  /\ borrowed # <<>> /\ Head(todo).to = Upper => OfUpper(borrowed[1])

\* The message that control() posts.
Posted == LET s == Head(todo).to
          IN  Message(Head(todo).op, IF borrowed[1] = None THEN NextOf(s) ELSE borrowed[1])

\* What a call adds to the queues.
LEMMA ApplicationQueues ==
  ASSUME Typed, Borrowing, Application, NEW r \in Streams
  PROVE  /\ hand' = hand /\ at' = at
         /\ \/ inbox'[r] = inbox[r]
            \/ \E m \in Messages :
                 /\ inbox'[r] = Append(inbox[r], m)
                 /\ \/ Start(r) /\ m = Message("BEGIN", NextOf(r))
                    \/ Send /\ m.type \in {"CONTROL", "STOP"} /\ m.of = None
                       /\ (m.type = "STOP" <=> Head(todo).op = "STOP")
                    \/ Post /\ m = Posted
                 /\ \A q \in Streams : q # r => inbox'[q] = inbox[q]
                 /\ ~Start(r) => todo # <<>> /\ Head(todo).to = r
<1>1. hand' = hand /\ at' = at
  BY DEF Application, Initialize, Start, Link, Unlink, Resize, StopStream, UnlinkLower, Send, Borrow, Post
<1>2. CASE \E s \in Streams : Start(s)
  <2>1. PICK s \in Streams : Start(s)
    BY <1>2
  <2>2. Put(s, Message("BEGIN", NextOf(s)), [count EXCEPT ![NextOf(s)] = 2]) /\ state[s] = "ready"
        /\ Make(s)
    BY <2>1 DEF Start
  <2>3. Message("BEGIN", NextOf(s)) \in Messages
    BY <2>2, MakeType, Values DEF Typed, Slots
  <2>4. CASE r = s
    BY <1>1, <2>1, <2>2, <2>3, <2>4, PutQueues
  <2>5. CASE r # s
    BY <1>1, <2>2, <2>5, PutQueues
  <2> QED BY <2>4, <2>5
<1>3. CASE Send
  <2> DEFINE s == Head(todo).to
             m == IF Head(todo).op = "END" THEN Message("CONTROL", None) ELSE Stop
  <2>1. Put(s, m, count) /\ todo # <<>> /\ s \in Streams /\ Head(todo).op \in {"END", "STOP"}
    BY <1>3, CallsLeft DEF Send
  <2>2. /\ m \in Messages /\ m.type \in {"CONTROL", "STOP"} /\ m.of = None
        /\ (m.type = "STOP" <=> Head(todo).op = "STOP")
    BY <2>1, Values DEF Message, Stop
  <2>3. r = s \/ inbox'[r] = inbox[r]
    BY <2>1, PutQueues
  <2> HIDE DEF s, m
  <2>4. CASE r = s
    <3>1. \/ inbox'[r] = inbox[r]
          \/ inbox'[r] = Append(inbox[r], m) /\ \A q \in Streams : q # r => inbox'[q] = inbox[q]
      BY <2>1, <2>4, PutQueues
    <3> QED BY <1>1, <1>3, <2>1, <2>2, <2>4, <3>1 DEF s
  <2> QED BY <1>1, <2>3, <2>4
<1>4. CASE Post
  <2> DEFINE s == Head(todo).to
  <2>1. todo # <<>> /\ s \in Streams /\ Head(todo).op \in {"LINK", "UNLINK", "RESIZE"} /\ borrowed # <<>>
    BY <1>4, CallsLeft DEF Post, Borrowing
  <2>2. (\E k : Put(s, Posted, k)) /\ (borrowed[1] = None => Make(s))
    BY <1>4 DEF Post, Posted
  <2>3. borrowed[1] \in Slots
    <3>1. borrowed \in Seq(Slots) /\ Len(borrowed) \in Nat \ {0} /\ DOMAIN borrowed = 1..Len(borrowed)
      BY <2>1, LenProperties, EmptySeq DEF Typed
    <3> QED BY <3>1
  <2>4. Posted \in Messages
    <3>1. borrowed[1] = None => NextOf(s) \in Slots
      BY <2>1, <2>2, MakeType DEF Typed, Slots
    <3> QED BY <2>1, <2>3, <3>1, Values DEF Posted
  <2> HIDE DEF s
  <2>5. r = s \/ inbox'[r] = inbox[r]
    BY <2>1, <2>2, PutQueues
  <2>6. CASE r = s
    <3>1. \/ inbox'[r] = inbox[r]
          \/ inbox'[r] = Append(inbox[r], Posted) /\ \A q \in Streams : q # r => inbox'[q] = inbox[q]
      BY <2>1, <2>2, <2>6, PutQueues
    <3> QED BY <1>1, <1>4, <2>1, <2>4, <2>6, <3>1 DEF s
  <2> QED BY <1>1, <2>5, <2>6
<1>5. CASE inbox' = inbox
  BY <1>1, <1>5
<1> QED BY <1>2, <1>3, <1>4, <1>5 DEF Application, Initialize, Link, Unlink, Resize, StopStream, UnlinkLower,
                                      Borrow

\* What a worker does to them.
LEMMA WorkerQueues ==
  ASSUME Typed, OneAtHand, NEW s \in Streams, Worker(s)
  PROVE  /\ todo' = todo /\ borrowed' = borrowed /\ upstream' = upstream /\ links' = links /\ resizes' = resizes
         /\ \A r \in Streams : r # s => hand'[r] = hand[r] /\ at'[r] = at[r]
         /\ \A r \in Streams : r # s /\ ~HandOn(s) => inbox'[r] = inbox[r]
         /\ \/ /\ Take(s) /\ hand[s] = <<>> /\ inbox[s] # <<>> /\ inbox'[s] = Tail(inbox[s])
               /\ hand'[s] = <<Head(inbox[s])>> /\ at'[s] = 0
            \/ /\ Finish(s) /\ inbox[s] # <<>> /\ Head(inbox[s]) = Stop /\ hand'[s] = hand[s] /\ at'[s] = at[s]
               /\ inbox'[s] = Append(Tail(inbox[s]), Message("END", data[HeadOf(s)]))
            \/ Leave(s) /\ inbox'[s] = <<>> /\ hand'[s] = hand[s] /\ hand[s] = <<>> /\ at'[s] = at[s]
            \/ /\ hand[s] # <<>> /\ hand'[s] = hand[s] /\ at[s] <= Modules /\ at'[s] = at[s] + 1
               /\ \/ inbox'[s] = inbox[s]
                  \/ inbox'[s] = Append(inbox[s], Stop) /\ (HandleEnd(s) \/ HandleUnlink(s))
               /\ \/ HandleBegin(s) \/ HandleLink(s) \/ HandleResize(s) \/ HandleUnlink(s) \/ HandleEnd(s)
                  \/ HandleControl(s)
            \/ /\ HandOn(s) /\ hand[s] # <<>> /\ hand'[s] = <<>> /\ at'[s] = 0
               /\ s = Upper \/ inbox' = inbox
               /\ s = Upper => inbox'[Upper] = inbox[Upper]
               /\ \/ inbox'[Lower] = inbox[Lower]
                  \/ /\ s = Upper /\ upstream /\ state[Lower] # "over"
                     /\ inbox'[Lower] = Append(inbox[Lower], hand[s][1])
<1>1. /\ inbox \in [Streams -> Seq(Messages)] /\ hand \in [Streams -> Seq(Messages)]
      /\ at \in [Streams -> 0..Modules + 1] /\ Upper # Lower /\ Lower \in Streams /\ Upper \in Streams
  BY StreamsAssumption, Values DEF Typed
<1>2. /\ todo' = todo /\ borrowed' = borrowed /\ upstream' = upstream /\ links' = links /\ resizes' = resizes
  BY DEF Worker, Take, Finish, Leave, HandleBegin, HandleLink, HandleResize, HandleUnlink, HandleEnd,
         HandleControl, HandOn
<1>3. CASE Take(s)
  BY <1>1, <1>2, <1>3 DEF Take
<1>4. CASE Finish(s)
  BY <1>1, <1>2, <1>4 DEF Finish
<1>5. CASE Leave(s)
  BY <1>1, <1>2, <1>5 DEF Leave
<1>6. CASE \/ HandleBegin(s) \/ HandleLink(s) \/ HandleResize(s) \/ HandleUnlink(s) \/ HandleEnd(s)
           \/ HandleControl(s)
  <2>1. /\ hand[s] # <<>> /\ hand' = hand /\ at[s] <= Modules /\ at' = [at EXCEPT ![s] = at[s] + 1]
        /\ \/ inbox' = inbox
           \/ inbox' = [inbox EXCEPT ![s] = Append(inbox[s], Stop)] /\ (HandleEnd(s) \/ HandleUnlink(s))
    BY <1>6 DEF HandleBegin, HandleLink, HandleResize, HandleUnlink, HandleEnd, HandleControl, Handles
  <2> QED BY <1>1, <1>2, <1>6, <2>1
<1>7. CASE HandOn(s)
  <2>1. /\ hand[s] # <<>> /\ hand' = [hand EXCEPT ![s] = <<>>] /\ at' = [at EXCEPT ![s] = 0]
    BY <1>7 DEF HandOn
  <2>2. CASE s = Upper /\ upstream
    <3>1. Put(Lower, hand[s][1], count)
      BY <1>7, <2>2 DEF HandOn
    <3>2. /\ inbox'[Upper] = inbox[Upper]
          /\ \/ inbox'[Lower] = inbox[Lower]
             \/ state[Lower] # "over" /\ inbox'[Lower] = Append(inbox[Lower], hand[s][1])
      BY <1>1, <3>1, PutQueues
    <3> QED BY <1>1, <1>2, <1>7, <2>1, <2>2, <3>2
  <2>3. CASE ~(s = Upper /\ upstream)
    <3>1. inbox' = inbox
      BY <1>7, <2>3 DEF HandOn
    <3> QED BY <1>1, <1>2, <1>7, <2>1, <3>1
  <2> QED BY <2>2, <2>3
<1> QED BY <1>3, <1>4, <1>5, <1>6, <1>7 DEF Worker

\* What the application has left to do.
LEMMA CallsNext ==
  ASSUME Typed, Borrowing, [Next]_vars
  PROVE  \/ todo' = todo
         \/ todo # <<>> /\ todo' = Tail(todo) /\ (UnlinkLower \/ Send \/ Post)
         \/ /\ todo = <<>> /\ borrowed = <<>>
            /\ \/ Link /\ todo' = <<Call("LINK", Upper)>>
               \/ Unlink /\ todo' = <<Call("UNLINK", Lower)>>
               \/ \E s \in Streams : Resize(s) /\ todo' = <<Call("RESIZE", s)>>
               \/ \E s \in Streams : StopStream(s)
<1>1. CASE Application
  BY <1>1 DEF Application, Initialize, Start, Link, Unlink, Resize, StopStream, UnlinkLower, Send, Borrow,
              Post, Idle, Borrowing
<1>2. CASE \E s \in Streams : Worker(s)
  BY <1>2 DEF Worker, Take, Finish, Leave, HandleBegin, HandleLink, HandleResize, HandleUnlink, HandleEnd,
         HandleControl, HandOn
<1> QED BY <1>1, <1>2 DEF Next

\* The messages of a step.
LEMMA OriginOfMessages ==
  ASSUME IInv, Origin, [Next]_vars, NEW r \in Streams, NEW m \in Range(inbox'[r]) \cup Range(hand'[r])
  PROVE  Rightly(r, m)
<1>1. Typed /\ Borrowing /\ OneAtHand /\ inbox[r] \in Seq(Messages) /\ hand[r] \in Seq(Messages)
  BY DEF IInv, Typed
<1>2. \A x \in Range(inbox[r]) \cup Range(hand[r]) : Rightly(r, x)
  BY DEF Origin
<1>3. CASE Application
  <2>1. CASE inbox'[r] = inbox[r]
    BY <1>1, <1>2, <1>3, <2>1, ApplicationQueues
  <2>2. CASE inbox'[r] # inbox[r]
    <3>1. PICK x \in Messages :
                 /\ inbox'[r] = Append(inbox[r], x) /\ hand' = hand
                 /\ \/ Start(r) /\ x = Message("BEGIN", NextOf(r))
                    \/ Send /\ x.type \in {"CONTROL", "STOP"} /\ x.of = None
                    \/ Post /\ x = Posted
                 /\ ~Start(r) => todo # <<>> /\ Head(todo).to = r
      BY <1>1, <1>3, <2>2, ApplicationQueues
    <3>2. Rightly(r, x)
      <4>1. CASE x = Message("BEGIN", NextOf(r))
        BY <4>1 DEF Rightly, Message, OfUpper, DataOf, NextOf
      <4>2. CASE x.type \in {"CONTROL", "STOP"} /\ x.of = None
        BY <4>2 DEF Rightly, OfUpper
      <4>3. CASE Post /\ x = Posted /\ ~Start(r)
        <5>1. /\ todo # <<>> /\ Head(todo).to = r /\ borrowed # <<>>
              /\ x.type = Head(todo).op /\ x.of = IF borrowed[1] = None THEN NextOf(r) ELSE borrowed[1]
          BY <3>1, <4>3 DEF Post, Posted, Message
        <5>2. x.of # None
          <6>1. borrowed[1] = None => NextOf(r) \in Containers
            BY <1>1, <4>3, <5>1, MakeType DEF Post, Typed
          <6> QED BY <5>1, <6>1, StreamsAssumption
        <5>3. Head(todo) \in Range(todo)
          BY <1>1, <5>1, CallsLeft
        <5>4. r = Upper => OfUpper(x.of)
          BY <5>1 DEF Origin, OfUpper, DataOf, NextOf
        <5>5. x.type = "LINK" => r = Upper
          BY <5>1, <5>3 DEF Origin
        <5> QED BY <5>2, <5>4, <5>5 DEF Rightly
      <4>4. Post => ~Start(r)
        BY DEF Post, Start, Idle
      <4> QED BY <3>1, <4>1, <4>2, <4>3, <4>4
    <3>3. Range(inbox'[r]) = Range(inbox[r]) \cup {x}
      BY <1>1, <3>1, AppendedQueue
    <3> QED BY <1>2, <3>1, <3>2, <3>3
  <2> QED BY <2>1, <2>2
<1>4. CASE \E s \in Streams : Worker(s)
  <2>1. PICK s \in Streams : Worker(s)
    BY <1>4
  <2>2. inbox[s] \in Seq(Messages) /\ hand[s] \in Seq(Messages) /\ data[HeadOf(s)] \in Slots
    BY <1>1, FiniteTasks DEF Typed, Streams
  <2>3. CASE r = s
    <3>1. Rightly(r, Stop) /\ Rightly(r, Message("END", data[HeadOf(s)]))
      <4>1. HeadOf(s) \in Tasks /\ HeadOf(s)[1] = s
        BY FiniteTasks DEF Streams, HeadOf
      <4>2. s = Upper => OfUpper(data[HeadOf(s)])
        BY <4>1 DEF Origin
      <4> QED BY <2>3, <4>2 DEF Rightly, Stop, Message, OfUpper
    <3>2. Stop \in Messages /\ Message("END", data[HeadOf(s)]) \in Messages
      BY <2>2, Values
    <3>3. /\ \A q \in Seq(Messages), x \in Messages : Range(Append(q, x)) = Range(q) \cup {x}
          /\ \A q \in Seq(Messages) : q # <<>> => Range(Tail(q)) \subseteq Range(q) /\ Head(q) \in Range(q)
                                                 /\ Tail(q) \in Seq(Messages)
          /\ Range(<<>>) = {} /\ \A x : Range(<<x>>) = {x}
      <4>1. \A x : Range(<<x>>) = {x}
        BY DEF Range
      <4> QED BY <4>1, AppendedQueue, ShortenedQueue, EmptyQueue
    <3>4. Range(hand'[s]) \subseteq Range(hand[s]) \cup Range(inbox[s])
      <4>1. \/ inbox[s] # <<>> /\ hand'[s] = <<Head(inbox[s])>>
            \/ hand'[s] = hand[s]
            \/ hand'[s] = <<>>
        BY <1>1, <2>1, WorkerQueues
      <4> HIDE DEF Range
      <4>2. CASE inbox[s] # <<>> /\ hand'[s] = <<Head(inbox[s])>>
        BY <2>2, <3>3, <4>2
      <4> QED BY <3>3, <4>1, <4>2
    <3>5. Range(inbox'[s]) \subseteq Range(inbox[s]) \cup {Stop, Message("END", data[HeadOf(s)])}
      <4>1. \/ inbox[s] # <<>> /\ inbox'[s] = Tail(inbox[s])
            \/ inbox[s] # <<>> /\ inbox'[s] = Append(Tail(inbox[s]), Message("END", data[HeadOf(s)]))
            \/ inbox'[s] = <<>> \/ inbox'[s] = inbox[s] \/ inbox'[s] = Append(inbox[s], Stop)
            \/ HandOn(s) /\ s = Lower
        BY <1>1, <2>1, WorkerQueues DEF Streams
      <4>2. CASE HandOn(s) /\ s = Lower
        BY <4>2, StreamsAssumption DEF HandOn
      <4>3. CASE inbox[s] # <<>> /\ inbox'[s] = Tail(inbox[s])
        BY <2>2, <3>3, <4>3
      <4>4. CASE inbox[s] # <<>> /\ inbox'[s] = Append(Tail(inbox[s]), Message("END", data[HeadOf(s)]))
        <5>1. Tail(inbox[s]) \in Seq(Messages) /\ Range(Tail(inbox[s])) \subseteq Range(inbox[s])
          BY <2>2, <3>3, <4>4
        <5>2. Range(Append(Tail(inbox[s]), Message("END", data[HeadOf(s)])))
                = Range(Tail(inbox[s])) \cup {Message("END", data[HeadOf(s)])}
          BY <3>2, <5>1, AppendedQueue
        <5> QED BY <4>4, <5>1, <5>2
      <4>5. CASE inbox'[s] = Append(inbox[s], Stop)
        BY <2>2, <3>2, <3>3, <4>5
      <4> QED BY <3>3, <4>1, <4>2, <4>3, <4>4, <4>5
    <3> QED BY <1>2, <2>3, <3>1, <3>4, <3>5
  <2>4. CASE r # s
    <3>1. hand'[r] = hand[r]
      BY <1>1, <2>1, <2>4, WorkerQueues
    <3>2. CASE inbox'[r] = inbox[r]
      BY <1>2, <3>1, <3>2
    <3>3. CASE inbox'[r] # inbox[r]
      <4>1. r = Lower /\ s = Upper /\ hand[s] # <<>> /\ inbox'[r] = Append(inbox[r], hand[s][1])
        <5>1. HandOn(s)
          BY <1>1, <2>1, <2>4, <3>3, WorkerQueues
        <5>2. /\ s = Upper \/ inbox' = inbox
              /\ hand[s] # <<>>
              /\ s = Upper => \/ inbox'[Lower] = inbox[Lower]
                              \/ inbox'[Lower] = Append(inbox[Lower], hand[s][1])
          <6>1. ~Take(s) /\ ~Finish(s) /\ ~Leave(s) /\ at[s] > Modules
            BY <5>1 DEF HandOn, Take, Finish, Leave
          <6>2. ~(at[s] <= Modules)
            BY <1>1, <6>1, NumbersAssumption DEF Typed
          <6> QED BY <1>1, <2>1, <6>1, <6>2, WorkerQueues
        <5> QED BY <2>4, <3>3, <5>2 DEF Streams
      <4>2. hand[s][1] \in Messages /\ hand[s][1] \in Range(hand[s])
        BY <1>1, <4>1, HandQueue
      <4>3. Range(inbox'[r]) = Range(inbox[r]) \cup {hand[s][1]}
        BY <1>1, <4>1, <4>2, AppendedQueue
      <4>4. Rightly(r, hand[s][1])
        BY <4>1, <4>2, StreamsAssumption DEF Origin, Rightly
      <4> QED BY <1>2, <3>1, <4>3, <4>4
    <3> QED BY <3>2, <3>3
  <2> QED BY <2>3, <2>4
<1>5. CASE UNCHANGED vars
  BY <1>2, <1>5
<1> QED BY <1>3, <1>4, <1>5 DEF Next

\* The data of the tasks, and what control() has read.
LEMMA OriginOfData ==
  ASSUME IInv, Origin, [Next]_vars, NEW t \in Tasks, t[1] = Upper
  PROVE  OfUpper(data'[t]) /\ data2'[t] = None
<1>1. /\ Typed /\ Borrowing /\ OneAtHand /\ data \in [Tasks -> Slots] /\ data2 \in [Tasks -> Slots]
      /\ OfUpper(data[t]) /\ data2[t] = None /\ OfUpper(None)
  BY DEF IInv, Typed, Origin, OfUpper
<1>2. CASE data'[t] = data[t] /\ data2'[t] = data2[t]
  BY <1>1, <1>2
<1>3. CASE \E s \in Streams : Initialize(s)
  BY <1>1, <1>3 DEF Initialize
<1>4. CASE \E s \in Streams : Start(s)
  <2>1. PICK s \in Streams : data' = [data EXCEPT ![HeadOf(s)] = NextOf(s)] /\ data2' = data2
    BY <1>4 DEF Start
  <2>2. t = HeadOf(s) => s = Upper
    BY DEF HeadOf
  <2> QED BY <1>1, <2>1, <2>2 DEF OfUpper, DataOf, NextOf
<1>5. CASE \E s \in Streams : Leave(s)
  <2>1. PICK s \in Streams : data' = [data EXCEPT ![HeadOf(s)] = None] /\ data2' = data2
    BY <1>5 DEF Leave
  <2> QED BY <1>1, <2>1
<1>6. ASSUME NEW s \in Streams,
             HandleBegin(s) \/ HandleLink(s) \/ HandleResize(s) \/ HandleUnlink(s) \/ HandleEnd(s)
      PROVE  OfUpper(data'[t]) /\ data2'[t] = None
  <2> DEFINE a == TaskAt(s)
             c == hand[s][1].of
  <2>1. hand[s] # <<>>
    BY <1>6 DEF HandleBegin, HandleLink, HandleResize, HandleUnlink, HandleEnd, Handles
  <2>2. CASE a # t
    <3>1. /\ data' = data \/ \E x : data' = [data EXCEPT ![a] = x]
          /\ data2' = data2 \/ \E x : data2' = [data2 EXCEPT ![a] = x]
      BY <1>6 DEF HandleBegin, HandleLink, HandleResize, HandleUnlink, GoBack, HandleEnd
    <3> HIDE DEF a
    <3> QED BY <1>1, <2>2, <3>1
  <2>3. CASE a = t
    <3>1. s = Upper
      BY <2>3 DEF TaskAt
    <3>2. Rightly(s, hand[s][1])
      <4>1. hand[s][1] \in Range(hand[s])
        BY <1>1, <2>1, HandQueue
      <4> QED BY <4>1 DEF Origin
    <3>3. OfUpper(c)
      BY <3>1, <3>2 DEF Rightly
    <3>4. HandleLink(s) => Shares(t, c)
      <4>1. HandleLink(s) => c # None
        BY <3>2 DEF Rightly, HandleLink, Handles
      <4> QED BY <1>1, <3>3, <4>1 DEF Shares, OfUpper
    <3>5. \/ data' = data /\ data2' = data2
          \/ (\E x \in {c, None} : data' = [data EXCEPT ![a] = x]) /\ data2' = data2
      BY <1>1, <1>6, <2>3, <3>4 DEF HandleBegin, HandleLink, HasNothingToSwitch, HandleResize, HandleUnlink, GoBack,
                                    HandleEnd
    <3> HIDE DEF a, c
    <3> QED BY <1>1, <2>3, <3>3, <3>5
  <2> QED BY <2>2, <2>3
<1>7. CASE Application
  BY <1>2, <1>3, <1>4, <1>7 DEF Application, Link, Unlink, Resize, StopStream, UnlinkLower, Send, Borrow, Post
<1>8. CASE \E s \in Streams : Worker(s)
  BY <1>2, <1>5, <1>6, <1>8 DEF Worker, Take, Finish, HandleControl, HandOn
<1> QED BY <1>2, <1>7, <1>8 DEF Next

\* Together.
LEMMA OriginNext == IInv /\ Origin /\ [Next]_vars => Origin'
<1> SUFFICES ASSUME IInv, Origin, [Next]_vars PROVE Origin'
  OBVIOUS
<1>1. Typed /\ Borrowing
  BY DEF IInv
<1>2. \A c \in Range(todo') : c.op = "LINK" => c.to = Upper
  <2>1. CASE todo' = todo
    BY <2>1 DEF Origin
  <2>2. CASE todo # <<>> /\ todo' = Tail(todo)
    BY <1>1, <2>2, CallsLeft DEF Origin
  <2>3. CASE \E op, s : todo' = <<Call(op, s)>> /\ (op = "LINK" => s = Upper)
    BY <2>3, CallsToStop DEF Call
  <2>4. CASE \E s \in Streams : StopStream(s)
    <3>1. \A op, s : Call(op, s).op = op
      BY DEF Call
    <3>2. \A c \in Range(todo') : c.op # "LINK"
      BY <1>1, <2>4, <3>1, CallsBegun
    <3> QED BY <3>2
  <2> QED BY <1>1, <2>1, <2>2, <2>3, <2>4, CallsNext
<1>3. borrowed' # <<>> /\ Head(todo').to = Upper => OfUpper(borrowed'[1])
  <2>1. CASE borrowed' = borrowed /\ todo' = todo
    BY <2>1 DEF Origin
  <2>2. CASE borrowed' = <<>>
    BY <2>2
  <2>3. CASE Borrow
    <3>1. borrowed' = <<data[HeadOf(Head(todo).to)]>> /\ todo' = todo
      BY <2>3 DEF Borrow
    <3>2. HeadOf(Upper) \in Tasks /\ HeadOf(Upper)[1] = Upper
      BY FiniteTasks DEF HeadOf
    <3> QED BY <3>1, <3>2 DEF Origin
  <2>4. CASE Application
    BY <2>1, <2>2, <2>3, <2>4 DEF Application, Initialize, Start, Link, Unlink, Resize, StopStream, UnlinkLower,
                                  Send, Post, Idle
  <2>5. CASE \E s \in Streams : Worker(s)
    BY <1>1, <2>1, <2>5, WorkerQueues DEF IInv
  <2> QED BY <2>1, <2>4, <2>5 DEF Next
<1> QED BY <1>2, <1>3, OriginOfMessages, OriginOfData DEF Origin

LEMMA OriginInit == Init => Origin
<1> SUFFICES ASSUME Init PROVE Origin
  OBVIOUS
<1>1. todo = <<>> /\ borrowed = <<>> /\ \A s \in Streams : inbox[s] = <<>> /\ hand[s] = <<>>
  BY DEF Init
<1>2. \A t \in Tasks : OfUpper(data[t]) /\ data2[t] = None
  BY DEF Init, OfUpper
<1> QED BY <1>1, <1>2, EmptyQueue DEF Origin

-----------------------------------------------------------------------------
(* The way of LINK and RESIZE. *)

\* How often x was called, where one is on its way, and what it leaves behind at a task: data
\* that was put aside, and data that the task does not know it has to release.
Kinds == {"LINK", "RESIZE"}
Called(x) == IF x = "LINK" THEN links ELSE resizes
InCall(x) == \E c \in Range(todo) : c.op = x
Marked(x, t) == IF x = "LINK" THEN data2[t] # None ELSE t[2] # 0 /\ data[t] # None /\ ~free[t]

\* At the first one, it is in one place at a time.
Once(x) ==
  /\ InCall(x) => /\ Tail(todo) = <<>>
                  /\ \A s \in Streams : ~Has(inbox[s], x) /\ ~Has(hand[s], x)
  /\ \A s \in Streams : Single(inbox[s], x) /\ (Has(inbox[s], x) => ~Has(hand[s], x))
  /\ Has(inbox[Upper], x) \/ Has(hand[Upper], x) => ~Has(inbox[Lower], x) /\ ~Has(hand[Lower], x)

\* And where it may still come to, it left nothing behind.
ComesTo(x, t) == \/ InCall(x)
                 \/ Has(inbox[t[1]], x)
                 \/ Has(hand[t[1]], x) /\ at[t[1]] <= t[2]
                 \/ t[1] = Lower /\ (Has(inbox[Upper], x) \/ Has(hand[Upper], x))
Untouched(x) == /\ ~InCall(x) /\ \A s \in Streams : ~Has(inbox[s], x) /\ ~Has(hand[s], x)
                /\ \A t \in Tasks : ~Marked(x, t)
Way == \A x \in Kinds :
         /\ Called(x) = 0 => Untouched(x)
         /\ Called(x) <= 1 => Once(x) /\ \A t \in Tasks : ComesTo(x, t) => ~Marked(x, t)

\* A task is marked by x alone.
LEMMA MarkedNext ==
  ASSUME Typed, [Next]_vars, NEW x \in Kinds, NEW t \in Tasks, Marked(x, t)'
  PROVE  \/ Marked(x, t)
         \/ \E s \in Streams : Worker(s) /\ Handles(s, x) /\ TaskAt(s) = t
<1>1. data \in [Tasks -> Slots] /\ data2 \in [Tasks -> Slots] /\ free \in [Tasks -> BOOLEAN]
  BY DEF Typed
<1>2. Marked(x, t)' <=> IF x = "LINK" THEN data2'[t] # None ELSE t[2] # 0 /\ data'[t] # None /\ ~free'[t]
  BY DEF Marked
<1>3. CASE data'[t] = data[t] /\ data2'[t] = data2[t] /\ free'[t] = free[t]
  BY <1>2, <1>3 DEF Marked
<1>4. ASSUME NEW s \in Streams, Initialize(s) PROVE Marked(x, t)
  <2>1. /\ data'[t] = (IF t[1] = s /\ free[t] THEN None ELSE data[t])
        /\ data2'[t] = (IF t[1] = s THEN None ELSE data2[t])
        /\ free'[t] = (free[t] /\ t[1] # s)
    BY <1>4 DEF Initialize
  <2> QED BY <1>1, <1>2, <2>1 DEF Marked
<1>5. ASSUME NEW s \in Streams, Start(s) \/ Leave(s) PROVE Marked(x, t)
  <2>1. data2' = data2 /\ free' = free /\ \E v : data' = [data EXCEPT ![HeadOf(s)] = v]
    BY <1>5 DEF Start, Leave
  <2>2. t = HeadOf(s) => t[2] = 0
    BY DEF HeadOf
  <2> QED BY <1>1, <1>2, <2>1, <2>2 DEF Marked
<1>6. ASSUME NEW s \in Streams,
             HandleBegin(s) \/ HandleLink(s) \/ HandleResize(s) \/ HandleUnlink(s) \/ HandleEnd(s)
      PROVE  Marked(x, t) \/ (Handles(s, x) /\ TaskAt(s) = t)
  <2> DEFINE a == TaskAt(s)
  <2>1. CASE a # t
    <3>1. /\ data' = data \/ \E v : data' = [data EXCEPT ![a] = v]
          /\ data2' = data2 \/ \E v : data2' = [data2 EXCEPT ![a] = v]
          /\ free' = free \/ \E v : free' = [free EXCEPT ![a] = v]
      BY <1>6 DEF HandleBegin, HandleLink, HandleResize, HandleUnlink, GoBack, HandleEnd, Own
    <3> HIDE DEF a
    <3> QED BY <1>1, <1>2, <2>1, <3>1 DEF Marked
  <2>2. CASE a = t /\ HandleBegin(s)
    BY <1>1, <1>2, <2>2 DEF HandleBegin, Own, Marked
  <2>3. CASE a = t /\ HandleLink(s)
    <3>1. /\ free' = free /\ Handles(s, "LINK")
          /\ \/ data' = data /\ data2' = data2
             \/ data[t] # None
      BY <2>3 DEF HandleLink, HasNothingToSwitch, Shares
    <3> QED BY <1>2, <2>3, <3>1 DEF Marked, Kinds
  <2>4. CASE a = t /\ HandleResize(s)
    BY <1>2, <2>4 DEF HandleResize, Marked, Kinds
  <2>5. CASE a = t /\ HandleUnlink(s)
    <3>1. /\ free' = free
          /\ \/ data' = data /\ data2' = data2
             \/ data[t] # None /\ data2' = [data2 EXCEPT ![t] = None]
      BY <2>5 DEF HandleUnlink, GoBack, Shares
    <3> QED BY <1>1, <1>2, <3>1 DEF Marked
  <2>6. CASE a = t /\ HandleEnd(s)
    <3>1. /\ data2' = data2
          /\ \/ data' = data /\ free' = free
             \/ data' = [data EXCEPT ![t] = None]
      BY <2>6 DEF HandleEnd
    <3> QED BY <1>1, <1>2, <3>1 DEF Marked
  <2> QED BY <1>6, <2>1, <2>2, <2>3, <2>4, <2>5, <2>6
<1>7. CASE Application
  BY <1>3, <1>4, <1>5, <1>7 DEF Application, Link, Unlink, Resize, StopStream, UnlinkLower, Send, Borrow, Post
<1>8. CASE \E s \in Streams : Worker(s)
  <2>1. PICK s \in Streams : Worker(s)
    BY <1>8
  <2>2. CASE HandleBegin(s) \/ HandleLink(s) \/ HandleResize(s) \/ HandleUnlink(s) \/ HandleEnd(s)
    BY <1>6, <2>1, <2>2
  <2>3. CASE Leave(s)
    BY <1>5, <2>3
  <2> QED BY <1>3, <2>1, <2>2, <2>3 DEF Worker, Take, Finish, HandleControl, HandOn
<1> QED BY <1>3, <1>7, <1>8 DEF Next

\* x is called, or it is not.
LEMMA CallMoves ==
  ASSUME IInv, [Next]_vars, NEW x \in Kinds
  PROVE  \/ /\ Called(x)' = Called(x)
            /\ InCall(x)' => todo' = todo \/ (todo # <<>> /\ todo' = Tail(todo) /\ InCall(x))
         \/ /\ Called(x)' = Called(x) + 1
            /\ Tail(todo') = <<>> /\ UNCHANGED <<inbox, hand, at, data, data2, free>>
<1>1. Typed /\ Borrowing /\ \A op, s : Call(op, s).op = op
  BY DEF IInv, Call
<1>2. \A y : Tail(<<y>>) = <<>>
  OBVIOUS
<1>3. CASE Link
  <2>1. /\ links' = links + 1 /\ resizes' = resizes /\ todo' = <<Call("LINK", Upper)>>
        /\ UNCHANGED <<inbox, hand, at, data, data2, free>>
    BY <1>3 DEF Link
  <2>2. \A c \in Range(todo') : c.op = "LINK"
    BY <1>1, <2>1, CallsToStop
  <2> QED BY <1>2, <2>1, <2>2 DEF Called, InCall, Kinds
<1>4. CASE \E s \in Streams : Resize(s)
  <2>1. PICK s \in Streams : /\ links' = links /\ resizes' = resizes + 1 /\ todo' = <<Call("RESIZE", s)>>
                             /\ UNCHANGED <<inbox, hand, at, data, data2, free>>
    BY <1>4 DEF Resize
  <2>2. \A c \in Range(todo') : c.op = "RESIZE"
    BY <1>1, <2>1, CallsToStop
  <2> QED BY <1>2, <2>1, <2>2 DEF Called, InCall, Kinds
<1>5. CASE ~Link /\ ~\E s \in Streams : Resize(s)
  <2>1. Called(x)' = Called(x)
    BY <1>5 DEF Called, Next, Application, Initialize, Start, StopStream, Unlink, UnlinkLower, Send, Borrow, Post,
                Worker, Take, Finish, Leave, HandleBegin, HandleLink, HandleResize, HandleUnlink,
                HandleEnd, HandleControl, HandOn
  <2>2. CASE todo' = todo
    BY <2>1, <2>2
  <2>3. CASE todo # <<>> /\ todo' = Tail(todo)
    <3>1. InCall(x)' => InCall(x)
      BY <1>1, <2>3, CallsLeft DEF InCall
    <3> QED BY <2>1, <2>3, <3>1
  <2>4. CASE Unlink /\ todo' = <<Call("UNLINK", Lower)>>
    <3>1. \A c \in Range(todo') : c.op = "UNLINK"
      BY <1>1, <2>4, CallsToStop
    <3> QED BY <2>1, <3>1 DEF InCall, Kinds
  <2>5. CASE \E s \in Streams : StopStream(s)
    <3>1. \A c \in Range(todo') : c.op \notin Kinds
      BY <1>1, <2>5, CallsBegun DEF Kinds
    <3> QED BY <2>1, <3>1 DEF InCall
  <2> QED BY <1>1, <1>5, <2>2, <2>3, <2>4, <2>5, CallsNext
<1> QED BY <1>3, <1>4, <1>5

\* In a step in which x is not called, it stays where it is, or is no more, ...
Stays(x) == \A s \in Streams : /\ Has(inbox'[s], x) => Has(inbox[s], x)
                               /\ Single(inbox'[s], x)
                               /\ Has(hand'[s], x) => Has(hand[s], x) /\ at'[s] >= at[s]
\* ... or moves on: from a call to a queue, from there to the worker, and from one stream to the
\* other.
IsPosted(x, s) == /\ InCall(x) /\ Tail(todo) = <<>> /\ todo' = Tail(todo) /\ hand' = hand /\ at' = at
                  /\ Single(inbox'[s], x)
                  /\ \A r \in Streams : r # s => inbox'[r] = inbox[r]
IsTaken(x, s) == /\ Has(inbox[s], x) /\ ~Has(inbox'[s], x) /\ todo' = todo
                 /\ \A r \in Streams : r # s => inbox'[r] = inbox[r] /\ hand'[r] = hand[r] /\ at'[r] = at[r]
IsHandedOn(x) == /\ Has(hand[Upper], x) /\ ~Has(hand'[Upper], x) /\ todo' = todo
                 /\ inbox'[Upper] = inbox[Upper] /\ hand'[Lower] = hand[Lower] /\ at'[Lower] = at[Lower]
                 /\ Single(inbox'[Lower], x)

\* By a call, ...
LEMMA ApplicationMoves ==
  ASSUME IInv, Application, NEW x \in Kinds, Once(x)
  PROVE  Stays(x) \/ \E s \in Streams : IsPosted(x, s)
<1>1. /\ Typed /\ Borrowing /\ at \in [Streams -> 0..Modules + 1]
      /\ \A s \in Streams : inbox[s] \in Seq(Messages) /\ Single(inbox[s], x)
  BY DEF IInv, Typed, Once
<1>2. hand' = hand /\ at' = at
  BY <1>1, ApplicationQueues, Values
<1>3. \A s \in Streams : at'[s] >= at[s]
  BY <1>1, <1>2, NumbersAssumption
<1>4. ASSUME NEW s \in Streams, NEW m \in Messages, Post, m = Posted, m.type = x, todo # <<>>,
             inbox'[s] = Append(inbox[s], m), \A q \in Streams : q # s => inbox'[q] = inbox[q]
      PROVE  IsPosted(x, s)
  <2>1. Head(todo) \in Range(todo) /\ Head(todo).op = x
    BY <1>1, <1>4, CallsLeft DEF Posted, Message
  <2>2. InCall(x)
    BY <2>1 DEF InCall
  <2>3. Single(inbox'[s], x)
    BY <1>1, <1>4, <2>2, AppendedQueue DEF Once
  <2> QED BY <1>2, <1>4, <2>2, <2>3 DEF IsPosted, Once, Post
<1>5. ASSUME NEW s \in Streams, NEW m \in Messages, m.type # x,
             inbox'[s] = Append(inbox[s], m), \A q \in Streams : q # s => inbox'[q] = inbox[q]
      PROVE  Stays(x)
  <2>1. Single(inbox'[s], x) /\ (Has(inbox'[s], x) => Has(inbox[s], x))
    BY <1>1, <1>5, AppendedQueue
  <2> QED BY <1>1, <1>2, <1>3, <1>5, <2>1 DEF Stays
<1>6. CASE \A s \in Streams : inbox'[s] = inbox[s]
  BY <1>1, <1>2, <1>3, <1>6 DEF Stays
<1>7. CASE ~\A s \in Streams : inbox'[s] = inbox[s]
  <2>1. PICK s \in Streams : inbox'[s] # inbox[s]
    BY <1>7
  <2>2. PICK m \in Messages :
          /\ inbox'[s] = Append(inbox[s], m)
          /\ \/ Start(s) /\ m = Message("BEGIN", NextOf(s))
             \/ Send /\ m.type \in {"CONTROL", "STOP"}
             \/ Post /\ m = Posted
          /\ \A q \in Streams : q # s => inbox'[q] = inbox[q]
          /\ ~Start(s) => todo # <<>>
    BY <1>1, <2>1, ApplicationQueues
  <2>3. m.type # x \/ Post
    BY <2>2 DEF Message, Kinds
  <2>4. Post => ~Start(s) /\ ~Send
    BY DEF Post, Start, Send, Idle
  <2> QED BY <1>4, <1>5, <2>2, <2>3, <2>4
<1> QED BY <1>6, <1>7

\* ... or by a worker.
LEMMA WorkerMoves ==
  ASSUME IInv, NEW s \in Streams, Worker(s), NEW x \in Kinds, Once(x)
  PROVE  Stays(x) \/ IsTaken(x, s) \/ IsHandedOn(x)
<1>1. /\ Typed /\ OneAtHand /\ at \in [Streams -> 0..Modules + 1] /\ \A r \in Streams : at[r] \in Int
      /\ \A r \in Streams : inbox[r] \in Seq(Messages) /\ Single(inbox[r], x)
      /\ Upper \in Streams /\ Lower \in Streams /\ Upper # Lower
      /\ \A r \in Streams : r = Upper \/ r = Lower
  BY NumbersAssumption, Values, StreamsAssumption DEF IInv, Typed, Once, Streams
<1>0. \A q \in Seq(Messages), m \in Messages : m.type # x /\ Single(q, x) =>
        Single(Append(q, m), x) /\ (Has(Append(q, m), x) => Has(q, x))
  BY AppendedQueue
<1>9. \A r \in Streams : at[r] >= at[r]
  BY <1>1
<1>2. /\ todo' = todo
      /\ \A r \in Streams : r # s => hand'[r] = hand[r] /\ at'[r] = at[r]
      /\ \A r \in Streams : r # s /\ ~HandOn(s) => inbox'[r] = inbox[r]
  BY <1>1, WorkerQueues
<1>3. CASE /\ Take(s) /\ hand[s] = <<>> /\ inbox[s] # <<>> /\ inbox'[s] = Tail(inbox[s])
           /\ hand'[s] = <<Head(inbox[s])>> /\ at'[s] = 0
  <2>1. ~HandOn(s)
    BY <1>3 DEF HandOn
  <2>2. /\ Range(inbox'[s]) \subseteq Range(inbox[s]) /\ Single(inbox'[s], x) /\ Head(inbox[s]) \in Range(inbox[s])
        /\ (Head(inbox[s]).type = x => ~Has(inbox'[s], x))
    BY <1>1, <1>3, ShortenedQueue
  <2>3. Has(hand'[s], x) <=> Head(inbox[s]).type = x
    <3>1. \A m : Range(<<m>>) = {m}
      BY DEF Range
    <3> HIDE DEF Range
    <3> QED BY <1>3, <3>1 DEF Has
  <2>4. CASE Head(inbox[s]).type = x
    <3>1. Has(inbox[s], x)
      BY <2>2, <2>4 DEF Has
    <3> QED BY <1>2, <2>1, <2>2, <2>4, <3>1 DEF IsTaken
  <2>5. CASE Head(inbox[s]).type # x
    <3>1. Has(inbox'[s], x) => Has(inbox[s], x)
      BY <2>2 DEF Has
    <3> QED BY <1>1, <1>2, <2>1, <2>2, <2>3, <2>5, <3>1 DEF Stays
  <2> QED BY <2>4, <2>5
<1>4. CASE /\ Finish(s) /\ inbox[s] # <<>> /\ hand'[s] = hand[s] /\ at'[s] = at[s]
           /\ inbox'[s] = Append(Tail(inbox[s]), Message("END", data[HeadOf(s)]))
  <2>1. ~HandOn(s)
    BY <1>4 DEF HandOn, Finish
  <2>2. Message("END", data[HeadOf(s)]) \in Messages /\ Message("END", data[HeadOf(s)]).type # x
    <3>1. data[HeadOf(s)] \in Slots
      BY <1>1, FiniteTasks DEF Typed, Streams
    <3> QED BY <3>1, Values DEF Message, Kinds
  <2>3. Range(Tail(inbox[s])) \subseteq Range(inbox[s]) /\ Single(Tail(inbox[s]), x) /\ Tail(inbox[s]) \in Seq(Messages)
    BY <1>1, <1>4, ShortenedQueue
  <2>4. Single(inbox'[s], x) /\ (Has(inbox'[s], x) => Has(Tail(inbox[s]), x))
    BY <1>0, <1>4, <2>2, <2>3
  <2>5. Has(inbox'[s], x) => Has(inbox[s], x)
    BY <2>3, <2>4 DEF Has
  <2> QED BY <1>1, <1>2, <1>4, <1>9, <2>1, <2>4, <2>5 DEF Stays
<1>5. CASE Leave(s) /\ inbox'[s] = <<>> /\ hand'[s] = hand[s] /\ hand[s] = <<>> /\ at'[s] = at[s]
  <2>1. ~HandOn(s)
    BY <1>5 DEF HandOn
  <2>2. Single(inbox'[s], x) /\ ~Has(inbox'[s], x)
    BY <1>5, EmptyQueue
  <2> QED BY <1>1, <1>2, <1>5, <1>9, <2>1, <2>2 DEF Stays
<1>6. CASE /\ hand[s] # <<>> /\ hand'[s] = hand[s] /\ at[s] <= Modules /\ at'[s] = at[s] + 1
           /\ \/ inbox'[s] = inbox[s]
              \/ inbox'[s] = Append(inbox[s], Stop)
  <2>1. ~HandOn(s)
    <3>1. ~(at[s] > Modules)
      BY <1>1, <1>6, NumbersAssumption
    <3> QED BY <3>1 DEF HandOn
  <2>2. Stop \in Messages /\ Stop.type # x
    BY Values DEF Stop, Message, Kinds
  <2>3. Single(inbox'[s], x) /\ (Has(inbox'[s], x) => Has(inbox[s], x))
    BY <1>0, <1>1, <1>6, <2>2
  <2>4. at'[s] >= at[s]
    BY <1>1, <1>6
  <2> QED BY <1>1, <1>2, <1>6, <2>1, <2>3, <2>4 DEF Stays
<1>7. CASE /\ HandOn(s) /\ hand[s] # <<>> /\ hand'[s] = <<>> /\ at'[s] = 0
           /\ s = Upper \/ inbox' = inbox
           /\ s = Upper => inbox'[Upper] = inbox[Upper]
           /\ \/ inbox'[Lower] = inbox[Lower]
              \/ s = Upper /\ inbox'[Lower] = Append(inbox[Lower], hand[s][1])
  <2>1. ~Has(hand'[s], x)
    BY <1>7, EmptyQueue
  <2>2. CASE inbox'[Lower] = inbox[Lower]
    <3>1. inbox'[Upper] = inbox[Upper]
      BY <1>7, <2>2
    <3> QED BY <1>1, <1>2, <2>1, <2>2, <3>1 DEF Stays
  <2>3. CASE s = Upper /\ inbox'[Lower] = Append(inbox[Lower], hand[s][1])
    <3>1. hand[s][1] \in Messages /\ (Has(hand[s], x) <=> hand[s][1].type = x)
      BY <1>1, <1>7, HandQueue
    <3>2. CASE Has(hand[s], x)
      <4>1. Single(inbox'[Lower], x)
        BY <1>1, <2>3, <3>1, <3>2, AppendedQueue DEF Once
      <4> QED BY <1>1, <1>2, <1>7, <2>1, <2>3, <3>2, <4>1 DEF IsHandedOn
    <3>3. CASE ~Has(hand[s], x)
      <4>1. Single(inbox'[Lower], x) /\ (Has(inbox'[Lower], x) => Has(inbox[Lower], x))
        BY <1>0, <1>1, <2>3, <3>1, <3>3
      <4>2. \A r \in Streams : /\ Has(inbox'[r], x) => Has(inbox[r], x)
                               /\ Single(inbox'[r], x)
        BY <1>1, <1>7, <2>3, <4>1
      <4>3. \A r \in Streams : Has(hand'[r], x) => Has(hand[r], x) /\ at'[r] >= at[r]
        BY <1>1, <1>2, <1>9, <2>1
      <4> QED BY <4>2, <4>3 DEF Stays
    <3> QED BY <3>2, <3>3
  <2> QED BY <1>7, <2>2, <2>3
<1> QED BY <1>1, <1>3, <1>4, <1>5, <1>6, <1>7, WorkerQueues

\* In any step.
LEMMA MessageMoves ==
  ASSUME IInv, [Next]_vars, NEW x \in Kinds, Once(x), Called(x)' = Called(x)
  PROVE  /\ InCall(x)' => InCall(x) /\ todo' = todo
         /\ Stays(x) \/ (\E s \in Streams : IsPosted(x, s) \/ IsTaken(x, s)) \/ IsHandedOn(x)
<1>1. ASSUME InCall(x)' PROVE InCall(x) /\ todo' = todo
  <2>1. Called(x) \in Nat
    BY DEF IInv, Typed, Called
  <2>2. todo' = todo \/ (todo # <<>> /\ todo' = Tail(todo) /\ InCall(x))
    BY <1>1, <2>1, CallMoves
  <2>3. CASE todo' = todo
    BY <1>1, <2>3 DEF InCall
  <2>4. CASE todo' = Tail(todo) /\ InCall(x)
    <3>1. Range(todo') = {}
      BY <2>4, EmptyQueue DEF Once
    <3> QED BY <1>1, <3>1 DEF InCall
  <2> QED BY <2>2, <2>3, <2>4
<1>2. CASE UNCHANGED vars
  <2>1. \A s \in Streams : at[s] >= at[s]
    BY NumbersAssumption DEF IInv, Typed
  <2>2. UNCHANGED <<inbox, hand, at>> /\ \A s \in Streams : Single(inbox[s], x)
    BY <1>2 DEF Once
  <2>3. Stays(x)
    BY <2>1, <2>2 DEF Stays
  <2> QED BY <1>1, <2>3
<1> QED BY <1>1, <1>2, ApplicationMoves, WorkerMoves DEF Next

\* x stays in one place.
LEMMA OnceNext ==
  ASSUME IInv, [Next]_vars, NEW x \in Kinds, Once(x), Called(x)' = Called(x)
  PROVE  Once(x)'
<1> DEFINE I(s) == Has(inbox'[s], x)
           H(s) == Has(hand'[s], x)
<1>1. /\ InCall(x) => Tail(todo) = <<>>
      /\ InCall(x) => \A s \in Streams : ~Has(inbox[s], x) /\ ~Has(hand[s], x)
      /\ \A s \in Streams : Single(inbox[s], x) /\ (Has(inbox[s], x) => ~Has(hand[s], x))
      /\ Has(inbox[Upper], x) \/ Has(hand[Upper], x) => ~Has(inbox[Lower], x) /\ ~Has(hand[Lower], x)
  BY DEF Once
<1>2. /\ Upper \in Streams /\ Lower \in Streams /\ Upper # Lower
      /\ \A r \in Streams : r = Upper \/ r = Lower
  BY Values, StreamsAssumption DEF Streams
<1>3. InCall(x)' => InCall(x) /\ todo' = todo
  BY MessageMoves
<1>4. CASE Stays(x)
  <2>1. \A s \in Streams : /\ I(s) => Has(inbox[s], x)
                           /\ Single(inbox'[s], x)
                           /\ H(s) => Has(hand[s], x)
    BY <1>4 DEF Stays
  <2> HIDE DEF I, H
  <2>2. InCall(x)' => Tail(todo') = <<>> /\ \A s \in Streams : ~I(s) /\ ~H(s)
    BY <1>1, <1>3, <2>1
  <2>3. \A s \in Streams : Single(inbox'[s], x) /\ (I(s) => ~H(s))
    BY <1>1, <2>1
  <2>4. I(Upper) \/ H(Upper) => ~I(Lower) /\ ~H(Lower)
    BY <1>1, <1>2, <2>1
  <2> QED BY <2>2, <2>3, <2>4 DEF Once, I, H
<1>5. ASSUME NEW s \in Streams, IsPosted(x, s) PROVE Once(x)'
  <2>1. /\ InCall(x) /\ Tail(todo) = <<>> /\ todo' = Tail(todo) /\ hand' = hand /\ Single(inbox'[s], x)
        /\ \A r \in Streams : r # s => inbox'[r] = inbox[r]
    BY <1>5 DEF IsPosted
  <2>2. \A r \in Streams : ~H(r) /\ Single(inbox'[r], x) /\ (r # s => ~I(r))
    BY <1>1, <2>1
  <2>3. ~InCall(x)'
    <3>1. Range(todo') = {}
      BY <2>1, EmptyQueue
    <3> QED BY <3>1 DEF InCall
  <2> HIDE DEF I, H
  <2>4. I(Upper) \/ H(Upper) => ~I(Lower) /\ ~H(Lower)
    BY <1>2, <2>2
  <2> QED BY <2>2, <2>3, <2>4 DEF Once, I, H
<1>6. ASSUME NEW s \in Streams, IsTaken(x, s) PROVE Once(x)'
  <2>1. /\ Has(inbox[s], x) /\ ~I(s)
        /\ \A r \in Streams : r # s => inbox'[r] = inbox[r] /\ hand'[r] = hand[r]
    BY <1>6 DEF IsTaken
  <2>2. ~InCall(x)'
    BY <1>1, <1>3, <2>1
  <2>3. \A r \in Streams : ~I(r) /\ Single(inbox'[r], x)
    <3>1. ASSUME NEW r \in Streams, r # s PROVE ~Has(inbox[r], x) /\ ~Has(hand[r], x)
      BY <1>1, <1>2, <2>1, <3>1
    <3>2. Single(inbox'[s], x)
      BY <2>1 DEF Single, Has, Range
    <3> QED BY <1>1, <2>1, <3>1, <3>2
  <2>4. \A r \in Streams : r # s => ~H(r)
    BY <1>1, <1>2, <2>1
  <2> HIDE DEF I, H
  <2>5. I(Upper) \/ H(Upper) => ~I(Lower) /\ ~H(Lower)
    BY <1>2, <2>3, <2>4
  <2>6. \A r \in Streams : Single(inbox'[r], x) /\ (I(r) => ~H(r))
    BY <2>3
  <2> QED BY <2>2, <2>5, <2>6 DEF Once, I, H
<1>7. CASE IsHandedOn(x)
  <2>1. /\ Has(hand[Upper], x) /\ ~H(Upper) /\ inbox'[Upper] = inbox[Upper] /\ hand'[Lower] = hand[Lower]
        /\ Single(inbox'[Lower], x)
    BY <1>7 DEF IsHandedOn
  <2>2. ~InCall(x)'
    BY <1>1, <1>2, <1>3, <2>1
  <2>3. ~I(Upper) /\ ~H(Lower) /\ Single(inbox'[Upper], x)
    BY <1>1, <1>2, <2>1
  <2> HIDE DEF I, H
  <2>4. \A r \in Streams : Single(inbox'[r], x) /\ (I(r) => ~H(r))
    BY <1>2, <2>1, <2>3
  <2>5. I(Upper) \/ H(Upper) => ~I(Lower) /\ ~H(Lower)
    BY <2>1, <2>3
  <2> QED BY <2>2, <2>4, <2>5 DEF Once, I, H
<1> QED BY <1>4, <1>5, <1>6, <1>7, MessageMoves

\* And it comes to no other task than it would have come to, ...
LEMMA ComesToNext ==
  ASSUME IInv, [Next]_vars, NEW x \in Kinds, Once(x), Called(x)' = Called(x),
         NEW t \in Tasks, ComesTo(x, t)'
  PROVE  ComesTo(x, t)
<1> DEFINE I(s) == Has(inbox'[s], x)
           H(s) == Has(hand'[s], x)
<1>1. InCall(x)' => InCall(x) /\ todo' = todo
  BY MessageMoves
<1>2. /\ Upper \in Streams /\ Lower \in Streams /\ Upper # Lower /\ t[1] \in Streams /\ t[2] \in Int
      /\ \A r \in Streams : r = Upper \/ r = Lower
      /\ at \in [Streams -> 0..Modules + 1] /\ at' \in [Streams -> 0..Modules + 1]
      /\ \A r \in Streams : at[r] \in Int /\ at'[r] \in Int
  <2>1. Typed'
    BY InvariantNext DEF IInv
  <2> QED BY <2>1, Values, StreamsAssumption, NumbersAssumption DEF Streams, Tasks, IInv, Typed
<1>3. \/ InCall(x)' \/ I(t[1]) \/ (H(t[1]) /\ at'[t[1]] <= t[2])
      \/ (t[1] = Lower /\ (I(Upper) \/ H(Upper)))
  BY DEF ComesTo
<1>4. CASE InCall(x)'
  BY <1>1, <1>4 DEF ComesTo
<1>5. CASE Stays(x) /\ ~InCall(x)'
  <2>1. \A s \in Streams : /\ I(s) => Has(inbox[s], x)
                           /\ H(s) => Has(hand[s], x) /\ at'[s] >= at[s]
    BY <1>5 DEF Stays
  <2> HIDE DEF I, H
  <2>2. H(t[1]) /\ at'[t[1]] <= t[2] => Has(hand[t[1]], x) /\ at[t[1]] <= t[2]
    <3>1. \A a, b, c \in Int : a >= b /\ a <= c => b <= c
      OBVIOUS
    <3> QED BY <1>2, <2>1, <3>1
  <2> QED BY <1>2, <1>3, <1>5, <2>1, <2>2 DEF ComesTo
<1>6. ASSUME NEW s \in Streams, IsPosted(x, s) PROVE ComesTo(x, t)
  BY <1>6 DEF IsPosted, ComesTo
<1>7. ASSUME NEW s \in Streams, IsTaken(x, s), ~InCall(x)' PROVE ComesTo(x, t)
  <2>1. /\ Has(inbox[s], x) /\ ~I(s)
        /\ \A r \in Streams : r # s => inbox'[r] = inbox[r] /\ hand'[r] = hand[r] /\ at'[r] = at[r]
    BY <1>7 DEF IsTaken
  <2>2. CASE t[1] = s
    BY <2>1, <2>2 DEF ComesTo
  <2>3. CASE t[1] # s
    <3>1. inbox'[t[1]] = inbox[t[1]] /\ hand'[t[1]] = hand[t[1]] /\ at'[t[1]] = at[t[1]]
      BY <1>2, <2>1, <2>3
    <3>2. CASE s = Upper
      <4>1. t[1] = Lower
        BY <1>2, <2>3, <3>2
      <4> QED BY <2>1, <3>2, <4>1 DEF ComesTo
    <3>3. CASE s = Lower
      <4>1. t[1] # Lower
        BY <2>3, <3>3
      <4> QED BY <1>3, <1>7, <3>1, <4>1 DEF ComesTo
    <3> QED BY <1>2, <3>2, <3>3
  <2> QED BY <2>2, <2>3
<1>8. CASE IsHandedOn(x) /\ ~InCall(x)'
  <2>1. /\ Has(hand[Upper], x) /\ ~H(Upper) /\ inbox'[Upper] = inbox[Upper] /\ hand'[Lower] = hand[Lower]
    BY <1>8 DEF IsHandedOn
  <2>2. CASE t[1] = Lower
    BY <2>1, <2>2 DEF ComesTo
  <2>3. CASE t[1] = Upper
    <3>1. I(Upper)
      BY <1>2, <1>3, <1>8, <2>1, <2>3
    <3> QED BY <2>1, <2>3, <3>1 DEF ComesTo
  <2> QED BY <1>2, <2>2, <2>3
<1> QED BY <1>4, <1>5, <1>6, <1>7, <1>8, MessageMoves

\* ... and not again to the one that it is at.
LEMMA ComesOnce ==
  ASSUME IInv, NEW x \in Kinds, Once(x), NEW s \in Streams, Worker(s), Handles(s, x), InCall(x)' => InCall(x),
         NEW t \in Tasks, t = TaskAt(s)
  PROVE  ~ComesTo(x, t)'
<1>1. /\ Typed /\ OneAtHand /\ at \in [Streams -> 0..Modules + 1] /\ at[s] \in Int
      /\ inbox[s] \in Seq(Messages) /\ hand[s] # <<>> /\ at[s] <= Modules
      /\ at' = [at EXCEPT ![s] = at[s] + 1]
      /\ s \in Streams /\ Upper \in Streams /\ Lower \in Streams /\ Upper # Lower
  <2>1. Typed /\ OneAtHand /\ at \in [Streams -> 0..Modules + 1] /\ inbox[s] \in Seq(Messages)
    BY DEF IInv, Typed
  <2>2. at[s] \in Int
    BY <2>1, NumbersAssumption
  <2>3. hand[s] # <<>> /\ at[s] <= Modules /\ at' = [at EXCEPT ![s] = at[s] + 1]
    BY DEF Handles
  <2> QED BY <2>1, <2>2, <2>3, Values, StreamsAssumption
<1>2. Has(hand[s], x)
  BY <1>1, HandQueue DEF Handles
<1>3. /\ ~InCall(x)' /\ ~Has(inbox[s], x)
      /\ s = Lower => ~Has(inbox[Upper], x) /\ ~Has(hand[Upper], x)
  BY <1>1, <1>2 DEF Once
<1>4. ~Take(s) /\ ~Finish(s) /\ ~Leave(s) /\ ~HandOn(s)
  BY <1>1, NumbersAssumption DEF Take, Finish, Leave, HandOn
<1>5. /\ hand'[s] = hand[s] /\ at'[s] = at[s] + 1
      /\ inbox'[s] = inbox[s] \/ inbox'[s] = Append(inbox[s], Stop)
      /\ \A r \in Streams : r # s => inbox'[r] = inbox[r] /\ hand'[r] = hand[r] /\ at'[r] = at[r]
  BY <1>1, <1>4, WorkerQueues
<1>6. ~Has(inbox'[s], x)
  <2>1. Stop \in Messages /\ Stop.type # x
    BY Values DEF Stop, Message, Kinds
  <2>2. \A q \in Seq(Messages) : Has(Append(q, Stop), x) => Has(q, x)
    BY <2>1, AppendedQueue
  <2> QED BY <1>1, <1>3, <1>5, <2>2
<1>7. at'[s] > at[s] /\ ~(at'[s] <= at[s])
  BY <1>1, <1>5
<1>8. s = Lower => ~Has(inbox'[Upper], x) /\ ~Has(hand'[Upper], x)
  BY <1>1, <1>3, <1>5
<1>9. t[1] = s /\ t[2] = at[s]
  BY DEF TaskAt
<1> QED BY <1>3, <1>6, <1>7, <1>8, <1>9 DEF ComesTo

\* So it never comes to a task where it left something behind.
LEMMA WayNext == IInv /\ Way /\ [Next]_vars => Way'
<1> SUFFICES ASSUME IInv, Way, [Next]_vars PROVE Way'
  OBVIOUS
<1> SUFFICES ASSUME NEW x \in Kinds
             PROVE  /\ Called(x)' = 0 => Untouched(x)'
                    /\ Called(x)' <= 1 => Once(x)' /\ \A t \in Tasks : ComesTo(x, t)' => ~Marked(x, t)'
  BY DEF Way
<1>1. /\ Called(x) = 0 => Untouched(x)
      /\ Called(x) <= 1 => Once(x) /\ \A t \in Tasks : ComesTo(x, t) => ~Marked(x, t)
  BY DEF Way
<1>2. Typed /\ Called(x) \in Nat
  BY DEF IInv, Typed, Called
<1>3. CASE Called(x)' = Called(x) + 1
  <2>1. ~(Called(x)' = 0) /\ (Called(x)' <= 1 => Called(x) = 0)
    BY <1>2, <1>3
  <2>2. Tail(todo') = <<>> /\ UNCHANGED <<inbox, hand, at, data, data2, free>>
    <3>1. Called(x)' # Called(x)
      BY <1>2, <1>3
    <3> QED BY <3>1, CallMoves
  <2>3. ASSUME Untouched(x) PROVE Once(x)' /\ \A t \in Tasks : ~Marked(x, t)'
    <3>1. (\A s \in Streams : ~Has(inbox'[s], x) /\ ~Has(hand'[s], x)) /\ \A t \in Tasks : ~Marked(x, t)
      BY <2>2, <2>3 DEF Untouched
    <3>2. \A s \in Streams : Single(inbox'[s], x)
      <4>1. ASSUME NEW s \in Streams, NEW i \in DOMAIN inbox'[s], inbox'[s][i].type = x PROVE FALSE
        BY <3>1, <4>1 DEF Has, Range
      <4> QED BY <4>1 DEF Single
    <3>3. Once(x)'
      BY <2>2, <3>1, <3>2, Values DEF Once
    <3>4. \A t \in Tasks : ~Marked(x, t)'
      BY <2>2, <3>1 DEF Marked
    <3> QED BY <3>3, <3>4
  <2> QED BY <1>1, <2>1, <2>3
<1>4. CASE Called(x)' = Called(x)
  <2>1. ASSUME Once(x) PROVE InCall(x)' => InCall(x)
    BY <1>4, <2>1, MessageMoves
  <2>2. ASSUME Called(x)' = 0 PROVE Untouched(x)'
    <3>1. Untouched(x) /\ Once(x)
      BY <1>1, <1>4, <2>2
    <3>2. Stays(x) /\ ~InCall(x)'
      BY <1>4, <3>1, MessageMoves, Values DEF Untouched, IsPosted, IsTaken, IsHandedOn
    <3>3. \A s \in Streams : ~Has(inbox'[s], x) /\ ~Has(hand'[s], x)
      BY <3>1, <3>2 DEF Untouched, Stays
    <3>4. ASSUME NEW t \in Tasks, Marked(x, t)' PROVE FALSE
      <4>1. PICK s \in Streams : Handles(s, x)
        BY <1>2, <3>1, <3>4, MarkedNext DEF Untouched
      <4>2. Has(hand[s], x)
        BY <1>2, <4>1, HandQueue DEF Handles, IInv
      <4> QED BY <3>1, <4>2 DEF Untouched
    <3> QED BY <3>2, <3>3, <3>4 DEF Untouched
  <2>3. ASSUME Called(x)' <= 1 PROVE Once(x)' /\ \A t \in Tasks : ComesTo(x, t)' => ~Marked(x, t)'
    <3>1. Once(x) /\ \A t \in Tasks : ComesTo(x, t) => ~Marked(x, t)
      BY <1>1, <1>4, <2>3
    <3>2. ASSUME NEW t \in Tasks, ComesTo(x, t)', Marked(x, t)' PROVE FALSE
      <4>1. ~Marked(x, t)
        BY <1>4, <3>1, <3>2, ComesToNext
      <4>2. PICK s \in Streams : Worker(s) /\ Handles(s, x) /\ TaskAt(s) = t
        BY <1>2, <3>2, <4>1, MarkedNext
      <4> QED BY <2>1, <3>1, <3>2, <4>2, ComesOnce
    <3> QED BY <1>4, <3>1, <3>2, OnceNext
  <2> QED BY <2>2, <2>3
<1> QED BY <1>3, <1>4, CallMoves

LEMMA WayInit == Init => Way
<1> SUFFICES ASSUME Init, NEW x \in Kinds PROVE Untouched(x) /\ Once(x) /\ \A t \in Tasks : ~Marked(x, t)
  BY DEF Way
<1>1. /\ todo = <<>> /\ \A s \in Streams : inbox[s] = <<>> /\ hand[s] = <<>>
      /\ \A t \in Tasks : data[t] = None /\ data2[t] = None
  BY DEF Init
<1>2. ~InCall(x) /\ \A s \in Streams : ~Has(inbox[s], x) /\ ~Has(hand[s], x) /\ Single(inbox[s], x)
  BY <1>1, EmptyQueue DEF InCall
<1>3. \A t \in Tasks : ~Marked(x, t)
  BY <1>1 DEF Marked
<1> QED BY <1>2, <1>3, Values DEF Untouched, Once

-----------------------------------------------------------------------------
(* BEGIN of the lower stream. *)

\* It is the first message of its session: no LINK has come before it, so that the data that it
\* brings is never used instead of that of the upper stream.
OwnBegin(m) == m.type = "BEGIN" /\ ~OfUpper(m.of)
HasBegin(q) == \E m \in Range(q) : OwnBegin(m)
Leads(q) == \A i \in DOMAIN q : OwnBegin(q[i]) => i = 1
KeptNone(n) == \A t \in Tasks : t[1] = Lower /\ n <= t[2] => data2[t] = None
FirstIsBegin ==
  /\ Leads(inbox[Lower])
  /\ HasBegin(inbox[Lower]) => hand[Lower] = <<>> /\ KeptNone(0)
  /\ HasBegin(hand[Lower]) => KeptNone(at[Lower])

\* A task that has put its own data aside uses that of the upper stream, until a RESIZE.
KeptBelow == resizes = 0 => \A t \in Tasks : data2[t] # None => OfUpper(data[t])

\* Another message comes after it, ...
LEMMA BeginAppended ==
  ASSUME NEW q \in Seq(Messages), NEW m \in Messages, ~OwnBegin(m)
  PROVE  (Leads(q) => Leads(Append(q, m))) /\ (HasBegin(Append(q, m)) => HasBegin(q))
<1> DEFINE a == Append(q, m)
<1>1. /\ Len(q) \in Nat /\ DOMAIN q = 1..Len(q) /\ DOMAIN a = 1..Len(q) + 1
      /\ \A i \in 1..Len(q) : a[i] = q[i]
      /\ a[Len(q) + 1] = m
  BY AppendProperties, LenProperties
<1> HIDE DEF a
<1>2. \A i \in DOMAIN a : i \in DOMAIN q \/ i = Len(q) + 1
  BY <1>1
<1>3. Leads(q) => Leads(a)
  BY <1>1, <1>2 DEF Leads
<1>4. HasBegin(a) => HasBegin(q)
  BY AppendedQueue DEF HasBegin, a
<1> QED BY <1>3, <1>4 DEF a

\* ... and when the first message is taken, it is gone.
LEMMA BeginTaken ==
  ASSUME NEW q \in Seq(Messages), q # <<>>, Leads(q)
  PROVE  Leads(Tail(q)) /\ ~HasBegin(Tail(q)) /\ (OwnBegin(Head(q)) => HasBegin(q))
<1> DEFINE t == Tail(q)
<1>1. /\ \A i \in DOMAIN t : i \in Nat \ {0} /\ i + 1 \in DOMAIN q /\ t[i] = q[i + 1]
      /\ Head(q) \in Range(q)
  BY ShortenedQueue
<1> HIDE DEF t
<1>2. \A i \in DOMAIN t : ~OwnBegin(t[i])
  <2>1. \A i \in Nat \ {0} : i + 1 # 1
    OBVIOUS
  <2> QED BY <1>1, <2>1 DEF Leads
<1>3. Leads(t) /\ ~HasBegin(t)
  BY <1>2 DEF Leads, HasBegin, Range
<1> QED BY <1>1, <1>3 DEF HasBegin, t

LEMMA BeginNowhere == Leads(<<>>) /\ ~HasBegin(<<>>)
BY EmptyQueue DEF Leads, HasBegin

\* No task of the lower stream puts data aside before it.
LEMMA KeptNext ==
  ASSUME IInv, [Next]_vars, NEW t \in Tasks, data2'[t] # None
  PROVE  \/ data2[t] # None
         \/ \E s \in Streams : /\ Worker(s) /\ Handles(s, "LINK") /\ TaskAt(s) = t
                               /\ hand[s] # <<>> /\ ~HasBegin(hand[s])
<1>1. Typed /\ OneAtHand
  BY DEF IInv
<1>2. Marked("LINK", t)'
  BY DEF Marked
<1>3. \/ Marked("LINK", t)
      \/ \E s \in Streams : Worker(s) /\ Handles(s, "LINK") /\ TaskAt(s) = t
  BY <1>1, <1>2, MarkedNext DEF Kinds
<1>4. ASSUME NEW s \in Streams, Handles(s, "LINK") PROVE hand[s] # <<>> /\ ~HasBegin(hand[s])
  <2>1. hand[s] # <<>> /\ hand[s][1].type = "LINK"
    BY <1>4 DEF Handles
  <2> QED BY <1>1, <2>1, HandQueue DEF HasBegin, OwnBegin
<1> QED BY <1>3, <1>4 DEF Marked

\* What the application sends is not one, or it is the first message of a session.
LEMMA FirstOfCall ==
  ASSUME IInv, Sessions, Origin, FirstIsBegin, Application
  PROVE  FirstIsBegin'
<1>1. /\ Typed /\ Borrowing /\ inbox[Lower] \in Seq(Messages) /\ hand' = hand /\ at' = at
      /\ Lower \in Streams
  <2>1. Typed /\ Borrowing /\ Lower \in Streams
    BY Values DEF IInv
  <2> QED BY <2>1, ApplicationQueues DEF Typed
<1>2. ASSUME NEW t \in Tasks, data2[t] = None PROVE data2'[t] = None
  <2>1. ASSUME NEW s \in Streams, Handles(s, "LINK") PROVE FALSE
    <3>1. at' = [at EXCEPT ![s] = at[s] + 1] /\ at[s] \in Int /\ at \in [Streams -> 0..Modules + 1]
      BY <1>1, <2>1, NumbersAssumption DEF Handles, Typed
    <3>2. at[s] = at[s] + 1
      BY <1>1, <3>1
    <3> QED BY <3>1, <3>2
  <2>2. [Next]_vars
    BY DEF Next
  <2> QED BY <1>2, <2>1, <2>2, KeptNext
<1>3. \A n : KeptNone(n) => \A t \in Tasks : t[1] = Lower /\ n <= t[2] => data2'[t] = None
  BY <1>2 DEF KeptNone
<1>4. CASE inbox'[Lower] = inbox[Lower]
  BY <1>1, <1>3, <1>4 DEF FirstIsBegin, KeptNone
<1>5. CASE Start(Lower)
  <2>1. state[Lower] = "ready" /\ inbox[Lower] = <<>> /\ hand[Lower] = <<>>
    BY <1>1, <1>5 DEF Start, Sessions, Rests
  <2>2. \A t \in Tasks : t[1] = Lower => data2[t] = None
    BY <2>1 DEF Sessions
  <2>3. Leads(inbox'[Lower])
    <3>1. inbox'[Lower] = <<>> \/ \E m : inbox'[Lower] = <<m>>
      <4>1. \A m : Append(<<>>, m) = <<m>>
        OBVIOUS
      <4>2. \E m, k : Put(Lower, m, k)
        BY <1>5 DEF Start
      <4> QED BY <1>1, <2>1, <4>1, <4>2, PutQueues
    <3>2. \A m : Leads(<<m>>)
      BY DEF Leads
    <3> QED BY <3>1, <3>2, BeginNowhere
  <2> QED BY <1>1, <1>2, <2>1, <2>2, <2>3, BeginNowhere DEF FirstIsBegin, KeptNone
<1>6. CASE ~Start(Lower) /\ inbox'[Lower] # inbox[Lower]
  <2>1. PICK m \in Messages : /\ inbox'[Lower] = Append(inbox[Lower], m)
                              /\ \/ Send /\ m.type \in {"CONTROL", "STOP"}
                                 \/ Post /\ m = Posted
                              /\ todo # <<>>
    BY <1>1, <1>6, ApplicationQueues
  <2>2. ~OwnBegin(m)
    <3>1. CASE m.type \in {"CONTROL", "STOP"}
      BY <3>1 DEF OwnBegin
    <3>2. CASE Post /\ m = Posted
      <4>1. Head(todo).op # "BEGIN"
        BY <1>1, <3>2 DEF Post, Borrowing
      <4> QED BY <3>2, <4>1 DEF OwnBegin, Posted, Message
    <3> QED BY <2>1, <3>1, <3>2
  <2>3. Leads(inbox'[Lower]) /\ (HasBegin(inbox'[Lower]) => HasBegin(inbox[Lower]))
    BY <1>1, <2>1, <2>2, BeginAppended DEF FirstIsBegin
  <2> QED BY <1>1, <1>3, <2>3 DEF FirstIsBegin, KeptNone
<1> QED BY <1>4, <1>5, <1>6

\* And a worker takes it first, and hands it on, before it takes a LINK.
LEMMA FirstOfWorker ==
  ASSUME IInv, Origin, FirstIsBegin, NEW s \in Streams, Worker(s)
  PROVE  FirstIsBegin'
<1>1. /\ Typed /\ OneAtHand /\ inbox[Lower] \in Seq(Messages) /\ inbox[s] \in Seq(Messages)
      /\ Upper \in Streams /\ Lower \in Streams /\ Upper # Lower /\ s \in {Upper, Lower}
      /\ at[Lower] \in Int
  BY Values, StreamsAssumption, NumbersAssumption DEF IInv, Typed, Streams
<1>2. [Next]_vars
  BY DEF Next
<1>3. ASSUME HasBegin(hand[Lower]) \/ hand[Lower] = <<>>, NEW t \in Tasks, t[1] = Lower, data2[t] = None
      PROVE  data2'[t] = None
  BY <1>2, <1>3, KeptNext DEF TaskAt
<1>4. CASE s = Upper
  <2>1. hand'[Lower] = hand[Lower] /\ at'[Lower] = at[Lower]
    BY <1>1, <1>4, WorkerQueues
  <2>2. inbox'[Lower] = inbox[Lower] \/ (hand[Upper] # <<>> /\ inbox'[Lower] = Append(inbox[Lower], hand[Upper][1]))
    <3>1. CASE HandOn(s)
      <4>1. ~Take(s) /\ ~Finish(s) /\ ~Leave(s) /\ at[s] > Modules
        BY <3>1 DEF HandOn, Take, Finish, Leave
      <4>2. ~(at[s] <= Modules)
        BY <1>1, <4>1, NumbersAssumption DEF Typed
      <4> QED BY <1>1, <1>4, <4>1, <4>2, WorkerQueues
    <3>2. CASE ~HandOn(s)
      BY <1>1, <1>4, <3>2, WorkerQueues
    <3> QED BY <3>1, <3>2
  <2>3. Leads(inbox'[Lower]) /\ (HasBegin(inbox'[Lower]) => HasBegin(inbox[Lower]))
    <3>1. CASE hand[Upper] # <<>> /\ inbox'[Lower] = Append(inbox[Lower], hand[Upper][1])
      <4>1. hand[Upper][1] \in Messages /\ hand[Upper][1] \in Range(hand[Upper])
        BY <1>1, <3>1, HandQueue
      <4>2. ~OwnBegin(hand[Upper][1])
        BY <1>1, <4>1 DEF Origin, Rightly, OwnBegin
      <4> QED BY <1>1, <3>1, <4>1, <4>2, BeginAppended DEF FirstIsBegin
    <3> QED BY <2>2, <3>1 DEF FirstIsBegin
  <2>4. HasBegin(inbox[Lower]) => \A t \in Tasks : t[1] = Lower /\ 0 <= t[2] => data2'[t] = None
    BY <1>3 DEF FirstIsBegin, KeptNone
  <2>5. HasBegin(hand[Lower]) => \A t \in Tasks : t[1] = Lower /\ at[Lower] <= t[2] => data2'[t] = None
    BY <1>3 DEF FirstIsBegin, KeptNone
  <2> QED BY <2>1, <2>3, <2>4, <2>5 DEF FirstIsBegin, KeptNone
<1>5. CASE s = Lower
  <2>1. CASE /\ hand[s] = <<>> /\ inbox[s] # <<>> /\ inbox'[s] = Tail(inbox[s])
             /\ hand'[s] = <<Head(inbox[s])>> /\ at'[s] = 0
    <3>1. Leads(inbox'[s]) /\ ~HasBegin(inbox'[s]) /\ (OwnBegin(Head(inbox[s])) => HasBegin(inbox[s]))
      BY <1>1, <1>5, <2>1, BeginTaken DEF FirstIsBegin
    <3>2. HasBegin(hand'[s]) => OwnBegin(Head(inbox[s]))
      <4>1. \A m : Range(<<m>>) = {m}
        BY DEF Range
      <4> HIDE DEF Range
      <4> QED BY <2>1, <4>1 DEF HasBegin
    <3>3. HasBegin(inbox[s]) => \A t \in Tasks : t[1] = Lower /\ 0 <= t[2] => data2'[t] = None
      BY <1>3, <1>5, <2>1 DEF FirstIsBegin, KeptNone
    <3> QED BY <1>5, <2>1, <3>1, <3>2, <3>3 DEF FirstIsBegin, KeptNone
  <2>2. CASE /\ Finish(s) /\ inbox[s] # <<>> /\ hand'[s] = hand[s]
             /\ inbox'[s] = Append(Tail(inbox[s]), Message("END", data[HeadOf(s)]))
    <3>1. hand[s] = <<>>
      BY <2>2 DEF Finish
    <3>2. Message("END", data[HeadOf(s)]) \in Messages /\ ~OwnBegin(Message("END", data[HeadOf(s)]))
      <4>1. data[HeadOf(s)] \in Slots
        BY <1>1, FiniteTasks DEF Typed, Streams
      <4> QED BY <4>1, Values DEF Message, OwnBegin
    <3>3. Leads(Tail(inbox[s])) /\ ~HasBegin(Tail(inbox[s])) /\ Tail(inbox[s]) \in Seq(Messages)
      BY <1>1, <1>5, <2>2, BeginTaken, ShortenedQueue DEF FirstIsBegin
    <3>4. \A q \in Seq(Messages), m \in Messages : ~OwnBegin(m) =>
            (Leads(q) => Leads(Append(q, m))) /\ (HasBegin(Append(q, m)) => HasBegin(q))
      BY BeginAppended
    <3>5. Leads(inbox'[s]) /\ ~HasBegin(inbox'[s])
      BY <2>2, <3>2, <3>3, <3>4
    <3> QED BY <1>5, <2>2, <3>1, <3>5, BeginNowhere DEF FirstIsBegin
  <2>3. CASE inbox'[s] = <<>> /\ hand'[s] = hand[s] /\ hand[s] = <<>>
    BY <1>5, <2>3, BeginNowhere DEF FirstIsBegin
  <2>4. CASE /\ hand[s] # <<>> /\ hand'[s] = hand[s] /\ at'[s] = at[s] + 1
             /\ inbox'[s] = inbox[s] \/ inbox'[s] = Append(inbox[s], Stop)
    <3>1. ~HasBegin(inbox[s])
      BY <1>5, <2>4 DEF FirstIsBegin
    <3>2. Stop \in Messages /\ ~OwnBegin(Stop)
      BY Values DEF Stop, Message, OwnBegin
    <3>3. \A q \in Seq(Messages) :
            (Leads(q) => Leads(Append(q, Stop))) /\ (HasBegin(Append(q, Stop)) => HasBegin(q))
      BY <3>2, BeginAppended
    <3>4. Leads(inbox'[s]) /\ ~HasBegin(inbox'[s])
      BY <1>1, <1>5, <2>4, <3>1, <3>3 DEF FirstIsBegin
    <3>5. \A t \in Tasks : at[Lower] + 1 <= t[2] => at[Lower] <= t[2]
      BY <1>1, NumbersAssumption DEF Tasks
    <3>6. HasBegin(hand[s]) => \A t \in Tasks : t[1] = Lower /\ at[Lower] + 1 <= t[2] => data2'[t] = None
      BY <1>3, <1>5, <3>5 DEF FirstIsBegin, KeptNone
    <3> QED BY <1>5, <2>4, <3>4, <3>6 DEF FirstIsBegin, KeptNone
  <2>5. CASE hand[s] # <<>> /\ hand'[s] = <<>> /\ inbox' = inbox
    <3>1. ~HasBegin(inbox[s])
      BY <1>5, <2>5 DEF FirstIsBegin
    <3> QED BY <1>5, <2>5, <3>1, BeginNowhere DEF FirstIsBegin
  <2> QED BY <1>1, <1>5, <2>1, <2>2, <2>3, <2>4, <2>5, WorkerQueues
<1> QED BY <1>1, <1>4, <1>5

LEMMA FirstNext == IInv /\ Sessions /\ Origin /\ FirstIsBegin /\ [Next]_vars => FirstIsBegin'
<1>1. FirstIsBegin /\ UNCHANGED vars => FirstIsBegin'
  BY DEF FirstIsBegin, KeptNone
<1> QED BY <1>1, FirstOfCall, FirstOfWorker DEF Next

LEMMA FirstInit == Init => FirstIsBegin
<1> SUFFICES ASSUME Init PROVE FirstIsBegin
  OBVIOUS
<1>1. inbox[Lower] = <<>> /\ hand[Lower] = <<>>
  BY Values DEF Init
<1> QED BY <1>1, BeginNowhere DEF FirstIsBegin

-----------------------------------------------------------------------------
(* What is not forgotten. *)

\* Calls are counted up.
LEMMA CallsGrow ==
  ASSUME IInv, [Next]_vars
  PROVE  links \in Nat /\ resizes \in Nat /\ links' >= links /\ resizes' >= resizes
<1>1. links \in Nat /\ resizes \in Nat
  BY DEF IInv, Typed
<1>2. ASSUME NEW x \in Kinds PROVE Called(x)' = Called(x) \/ Called(x)' = Called(x) + 1
  BY CallMoves
<1>3. links' = links \/ links' = links + 1
  <2>1. Called("LINK") = links /\ Called("LINK")' = links'
    BY DEF Called
  <2> QED BY <1>2, <2>1 DEF Kinds
<1>4. resizes' = resizes \/ resizes' = resizes + 1
  <2>1. Called("RESIZE") = resizes /\ Called("RESIZE")' = resizes'
    BY DEF Called
  <2> QED BY <1>2, <2>1 DEF Kinds
<1> QED BY <1>1, <1>3, <1>4

\* A message that is at a task is one that a worker has.
LEMMA AtHand ==
  ASSUME IInv, NEW s \in Streams, NEW x, Handles(s, x)
  PROVE  /\ Has(hand[s], x) /\ hand[s][1] \in Range(hand[s]) /\ hand[s][1].type = x /\ hand[s] # <<>>
         /\ TaskAt(s) \in Tasks /\ TaskAt(s)[1] = s /\ TaskAt(s)[2] = at[s]
<1>1. Typed /\ OneAtHand /\ hand[s] # <<>> /\ hand[s][1].type = x /\ at[s] <= Modules
  BY DEF IInv, Handles
<1>2. hand[s][1] \in Range(hand[s]) /\ Has(hand[s], x)
  BY <1>1, HandQueue
<1>3. at[s] \in 0..Modules
  BY <1>1, NumbersAssumption DEF Typed
<1> QED BY <1>1, <1>2, <1>3 DEF TaskAt, Tasks

\* No RESIZE comes to any task before there is one.
LEMMA NoResize ==
  ASSUME IInv, Way, resizes = 0, NEW s \in Streams
  PROVE  ~HandleResize(s)
<1>1. Untouched("RESIZE")
  BY DEF Way, Kinds, Called
<1>2. HandleResize(s) => Has(hand[s], "RESIZE")
  BY AtHand DEF HandleResize
<1> QED BY <1>1, <1>2 DEF Untouched

LEMMA BelowNext == IInv /\ Sessions /\ Origin /\ Way /\ FirstIsBegin /\ KeptBelow /\ [Next]_vars => KeptBelow'
<1> SUFFICES ASSUME IInv, Sessions, Origin, Way, FirstIsBegin, KeptBelow, [Next]_vars, resizes' = 0,
                    NEW t \in Tasks, data2'[t] # None
             PROVE  OfUpper(data'[t])
  BY DEF KeptBelow
<1>1. Typed /\ OneAtHand /\ resizes = 0 /\ data \in [Tasks -> Slots] /\ data2 \in [Tasks -> Slots]
  BY CallsGrow DEF IInv, Typed
<1>2. OfUpper(None)
  BY DEF OfUpper
<1>3. ASSUME NEW s \in Streams, Handles(s, "LINK") PROVE OfUpper(hand[s][1].of)
  <2>1. hand[s][1] \in Range(hand[s]) /\ hand[s][1].type = "LINK"
    BY <1>3, AtHand
  <2> QED BY <2>1 DEF Origin, Rightly
<1>4. CASE data2[t] = None
  <2>1. PICK s \in Streams : Worker(s) /\ Handles(s, "LINK") /\ TaskAt(s) = t
    BY <1>4, KeptNext
  <2>2. HandleLink(s)
    <3>1. at[s] <= Modules /\ at'[s] # at[s] /\ hand[s] # <<>>
      BY <1>1, <2>1, NumbersAssumption DEF Handles, Typed
    <3>2. ~(at[s] > Modules)
      BY <1>1, <3>1, NumbersAssumption DEF Typed
    <3> QED BY <2>1, <3>1, <3>2 DEF Worker, Take, Finish, Leave, HandleBegin, HandleResize, HandleUnlink, HandleEnd,
                                  HandleControl, HandOn, Handles
  <2>3. (data' = data /\ data2' = data2) \/ data' = [data EXCEPT ![t] = hand[s][1].of]
    BY <2>1, <2>2 DEF HandleLink
  <2> QED BY <1>1, <1>3, <1>4, <2>1, <2>3
<1>5. CASE data2[t] # None
  <2>1. OfUpper(data[t]) /\ t[1] = Lower
    BY <1>1, <1>5 DEF KeptBelow, Origin, Tasks, Streams
  <2>2. CASE data'[t] = data[t]
    BY <2>1, <2>2
  <2>3. CASE \E s \in Streams : Initialize(s)
    BY <1>2, <2>1, <2>3 DEF Initialize
  <2>4. ASSUME NEW s \in Streams, Start(s) PROVE OfUpper(data'[t])
    <3>1. data' = [data EXCEPT ![HeadOf(s)] = NextOf(s)] /\ state[s] = "ready"
      BY <2>4 DEF Start
    <3>2. t # HeadOf(s)
      <4>1. HeadOf(s)[1] = s
        BY DEF HeadOf
      <4> QED BY <1>5, <3>1, <4>1 DEF Sessions
    <3> QED BY <1>1, <2>1, <3>1, <3>2
  <2>5. ASSUME NEW s \in Streams, Leave(s) PROVE OfUpper(data'[t])
    <3>1. data' = [data EXCEPT ![HeadOf(s)] = None]
      BY <2>5 DEF Leave
    <3> QED BY <1>1, <1>2, <2>1, <3>1
  <2>6. ASSUME NEW s \in Streams,
               HandleBegin(s) \/ HandleLink(s) \/ HandleResize(s) \/ HandleUnlink(s) \/ HandleEnd(s)
        PROVE  OfUpper(data'[t])
    <3> DEFINE a == TaskAt(s)
               c == hand[s][1].of
    <3>1. CASE a # t
      <4>1. data' = data \/ \E v : data' = [data EXCEPT ![a] = v]
        BY <2>6 DEF HandleBegin, HandleLink, HandleResize, HandleUnlink, GoBack, HandleEnd
      <4> HIDE DEF a
      <4> QED BY <1>1, <2>1, <3>1, <4>1
    <3>2. CASE a = t /\ HandleBegin(s)
      <4>1. OfUpper(c)
        <5>1. /\ hand[s][1] \in Range(hand[s]) /\ hand[s][1].type = "BEGIN" /\ t[1] = s /\ t[2] = at[s]
              /\ t[2] \in Int
          BY <1>1, <3>2, AtHand, NumbersAssumption DEF HandleBegin, Tasks
        <5>2. ~KeptNone(at[Lower])
          <6>1. at[Lower] <= t[2]
            BY <2>1, <5>1
          <6> QED BY <1>5, <2>1, <6>1 DEF KeptNone
        <5>3. ~OwnBegin(hand[s][1])
          BY <2>1, <5>1, <5>2 DEF FirstIsBegin, HasBegin
        <5> QED BY <5>1, <5>3 DEF OwnBegin
      <4>2. data' = data \/ data' = [data EXCEPT ![a] = c]
        BY <3>2 DEF HandleBegin
      <4> HIDE DEF a, c
      <4> QED BY <1>1, <2>1, <3>2, <4>1, <4>2
    <3>3. CASE a = t /\ HandleLink(s)
      <4>1. data' = data \/ data' = [data EXCEPT ![a] = c]
        BY <3>3 DEF HandleLink
      <4>2. OfUpper(c)
        BY <1>3, <3>3 DEF HandleLink
      <4> HIDE DEF a, c
      <4> QED BY <1>1, <2>1, <3>3, <4>1, <4>2
    <3>4. CASE HandleResize(s)
      BY <1>1, <3>4, NoResize
    <3>5. CASE a = t /\ HandleUnlink(s)
      <4>1. data' = data \/ data2' = [data2 EXCEPT ![a] = None]
        BY <3>5 DEF HandleUnlink, GoBack
      <4> HIDE DEF a
      <4> QED BY <1>1, <2>1, <3>5, <4>1
    <3>6. CASE a = t /\ HandleEnd(s)
      <4>1. data' = data \/ data' = [data EXCEPT ![a] = None]
        BY <3>6 DEF HandleEnd
      <4> HIDE DEF a
      <4> QED BY <1>1, <1>2, <2>1, <3>6, <4>1
    <3> QED BY <2>6, <3>1, <3>2, <3>3, <3>4, <3>5, <3>6
  <2>7. CASE Application
    BY <2>2, <2>3, <2>4, <2>7 DEF Application, Link, Unlink, Resize, StopStream, UnlinkLower, Send, Borrow, Post
  <2>8. CASE \E s \in Streams : Worker(s)
    <3>1. PICK s \in Streams : Worker(s)
      BY <2>8
    <3>2. CASE HandleBegin(s) \/ HandleLink(s) \/ HandleResize(s) \/ HandleUnlink(s) \/ HandleEnd(s)
      BY <2>6, <3>2
    <3> QED BY <2>2, <2>5, <3>1, <3>2 DEF Worker, Take, Finish, HandleControl, HandOn
  <2> QED BY <2>2, <2>7, <2>8 DEF Next
<1> QED BY <1>4, <1>5

\* The condition of NothingIsForgotten.
Few == resizes = 0 \/ (resizes = 1 /\ links <= 1)

\* While there are few calls, no step forgets anything.
LEMMA ForgetsNothing ==
  ASSUME IInv, Origin, Way, KeptBelow, Few
  PROVE  ~Forgets
<1>1. ASSUME NEW s \in Streams, ForgetsUsed(s) PROVE FALSE
  <2>1. HandleResize(s) /\ Handles(s, "RESIZE") /\ data[TaskAt(s)] # None /\ ~free[TaskAt(s)] /\ at[s] # 0
    BY <1>1 DEF ForgetsUsed, HandleResize
  <2>2. TaskAt(s) \in Tasks /\ TaskAt(s)[1] = s /\ TaskAt(s)[2] = at[s] /\ Has(hand[s], "RESIZE")
    BY <2>1, AtHand
  <2>3. Called("RESIZE") <= 1
    <3>1. resizes <= 1
      BY DEF Few
    <3> QED BY <3>1 DEF Called
  <2>4. ComesTo("RESIZE", TaskAt(s))
    <3>1. at[s] <= at[s]
      BY NumbersAssumption DEF IInv, Typed
    <3> QED BY <2>2, <3>1 DEF ComesTo
  <2>5. ~Marked("RESIZE", TaskAt(s))
    BY <2>2, <2>3, <2>4 DEF Way, Kinds
  <2> QED BY <2>1, <2>2, <2>5 DEF Marked
<1>2. ASSUME NEW s \in Streams, ForgetsKept(s) PROVE FALSE
  <2>1. Handles(s, "LINK") /\ data2[TaskAt(s)] # None /\ ~Shares(TaskAt(s), hand[s][1].of)
    BY <1>2 DEF ForgetsKept, HandleLink
  <2>2. /\ TaskAt(s) \in Tasks /\ TaskAt(s)[1] = s /\ TaskAt(s)[2] = at[s] /\ Has(hand[s], "LINK")
        /\ hand[s][1] \in Range(hand[s]) /\ hand[s][1].type = "LINK"
    BY <2>1, AtHand
  <2>3. CASE links <= 1
    <3>1. Called("LINK") <= 1
      BY <2>3 DEF Called
    <3>2. ComesTo("LINK", TaskAt(s))
      <4>1. at[s] <= at[s]
        BY NumbersAssumption DEF IInv, Typed
      <4> QED BY <2>2, <4>1 DEF ComesTo
    <3>3. ~Marked("LINK", TaskAt(s))
      BY <2>2, <3>1, <3>2 DEF Way, Kinds
    <3> QED BY <2>1, <3>3 DEF Marked
  <2>4. CASE resizes = 0
    <3>1. OfUpper(data[TaskAt(s)])
      BY <2>1, <2>2, <2>4 DEF KeptBelow
    <3>2. OfUpper(hand[s][1].of) /\ hand[s][1].of # None
      BY <2>2 DEF Origin, Rightly
    <3> QED BY <2>1, <3>1, <3>2 DEF Shares, OfUpper
  <2> QED BY <2>3, <2>4 DEF Few
<1> QED BY <1>1, <1>2 DEF Forgets

\* So every step keeps the surplus of every container.
LEMMA SurplusNext ==
  ASSUME IInv, Sessions, ~Forgets, [Next]_vars, NEW c \in Containers
  PROVE  Surplus(c)' = Surplus(c)
<1>1. Typed /\ Typed' /\ Borrowing /\ OneAtHand /\ OnlyMade /\ Safe(c)
  BY InvariantIsSafe, InvariantNext DEF IInv
<1>2. ASSUME NEW s \in Streams, Start(s) PROVE Surplus(c)' = Surplus(c)
  <2>1. data[HeadOf(s)] = None
    BY <1>2 DEF Start, Sessions, Rests
  <2> QED BY <1>1, <1>2, <2>1, StartIsSafe
<1>3. CASE Post
  BY <1>1, <1>3, PostIsSafe
<1>4. CASE Balanced(c)
  BY <1>4 DEF Balanced
<1>5. CASE \E s \in Streams : Initialize(s)
  BY <1>1, <1>4, <1>5, BalancedInitialize
<1>6. CASE \/ \E s \in Streams : Resize(s) \/ StopStream(s)
           \/ Link \/ Unlink \/ UnlinkLower \/ Send \/ Borrow
  BY <1>1, <1>4, <1>6, BalancedCall
<1>7. CASE \E s \in Streams : Worker(s)
  BY <1>1, <1>4, <1>7, BalancedWorker, BalancedTask DEF Worker
<1>8. CASE UNCHANGED vars
  BY <1>8 DEF Held, Surplus
<1> QED BY <1>2, <1>3, <1>5, <1>6, <1>7, <1>8 DEF Next, Application

Exact == Few => \A c \in Containers : Surplus(c) = 0

LEMMA ExactNext ==
  IInv /\ Sessions /\ Origin /\ Way /\ KeptBelow /\ Exact /\ [Next]_vars => Exact'
<1> SUFFICES ASSUME IInv, Sessions, Origin, Way, KeptBelow, Exact, [Next]_vars, Few', NEW c \in Containers
             PROVE  Surplus(c)' = 0
  BY DEF Exact
<1>1. Few
  <2>1. /\ links \in Nat /\ resizes \in Nat /\ links' >= links /\ resizes' >= resizes
        /\ links' \in Nat /\ resizes' \in Nat
    <3>1. Typed'
      BY InvariantNext DEF IInv
    <3> QED BY <3>1, CallsGrow DEF Typed
  <2>2. resizes' = 0 \/ (resizes' = 1 /\ links' <= 1)
    BY DEF Few
  <2> QED BY <2>1, <2>2 DEF Few
<1>2. Surplus(c)' = Surplus(c)
  BY <1>1, ForgetsNothing, SurplusNext
<1> QED BY <1>1, <1>2 DEF Exact

LEMMA ExactInit == Init => Exact
<1> SUFFICES ASSUME Init, NEW c \in Containers PROVE Surplus(c) = 0
  BY DEF Exact
<1>1. IInv
  BY InvariantInit
<1>2. Held(c) \in Nat /\ Held(c) <= count[c] /\ count[c] = 0
  BY <1>1, HolderNumbers DEF IInv, NotFreedInUse, Init
<1> QED BY <1>2 DEF Surplus

-----------------------------------------------------------------------------
(* A stream that has been initialized. *)

\* Until a RESIZE, the modules know of all the data that they have.
ReadyHasNone == resizes = 0 => \A t \in Tasks : state[t[1]] = "ready" => data[t] = None

LEMMA ReadyNext == IInv /\ Sessions /\ Way /\ ReadyHasNone /\ [Next]_vars => ReadyHasNone'
<1> SUFFICES ASSUME IInv, Sessions, Way, ReadyHasNone, [Next]_vars, resizes' = 0,
                    NEW t \in Tasks, state'[t[1]] = "ready"
             PROVE  data'[t] = None
  BY DEF ReadyHasNone
<1>1. /\ Typed /\ resizes = 0 /\ t[1] \in Streams
      /\ data \in [Tasks -> Slots] /\ state \in [Streams -> {"ready", "running", "stopping", "over"}]
  <2>1. Typed /\ t[1] \in Streams
    BY DEF IInv, Tasks
  <2>2. resizes = 0
    BY CallsGrow
  <2> QED BY <2>1, <2>2 DEF Typed
<1>2. ASSUME NEW s \in Streams, Initialize(s) PROVE data'[t] = None
  <2>1. /\ data'[t] = (IF t[1] = s /\ free[t] THEN None ELSE data[t])
        /\ state[s] = "over" /\ state' = [state EXCEPT ![s] = "ready"]
    BY <1>2 DEF Initialize
  <2>2. CASE t[1] = s
    <3>1. ~Marked("RESIZE", t)
      BY <1>1 DEF Way, Kinds, Called, Untouched
    <3>2. t[2] = 0 => t = HeadOf(s)
      BY <2>2 DEF Tasks, HeadOf
    <3>3. data[HeadOf(s)] = None
      BY <2>1 DEF Sessions, Rests
    <3>4. free[t] \/ data[t] = None
      BY <3>1, <3>2, <3>3 DEF Marked
    <3>5. CASE free[t]
      BY <2>1, <2>2, <3>5
    <3>6. CASE data[t] = None
      BY <2>1, <3>6
    <3> QED BY <3>4, <3>5, <3>6
  <2>3. CASE t[1] # s
    BY <1>1, <2>1, <2>3 DEF ReadyHasNone
  <2> QED BY <2>2, <2>3
<1>3. ASSUME NEW s \in Streams, Start(s) PROVE data'[t] = None
  <2>1. data' = [data EXCEPT ![HeadOf(s)] = NextOf(s)] /\ state' = [state EXCEPT ![s] = "running"]
    BY <1>3 DEF Start
  <2>2. t[1] # s /\ HeadOf(s)[1] = s
    BY <1>1, <2>1 DEF HeadOf
  <2> QED BY <1>1, <2>1, <2>2 DEF ReadyHasNone
<1>4. CASE data'[t] = data[t] /\ state[t[1]] = "ready"
  BY <1>1, <1>4 DEF ReadyHasNone
<1>5. ASSUME NEW s \in Streams, Worker(s) PROVE data'[t] = None
  <2>1. state[s] # "ready"
    <3>1. inbox[s] # <<>> \/ hand[s] # <<>>
      BY <1>5 DEF Worker, Take, Finish, Leave, HandleBegin, HandleLink, HandleResize, HandleUnlink, HandleEnd,
                  HandleControl, HandOn, Handles
    <3> QED BY <3>1 DEF Sessions, Rests
  <2>2. /\ state' = state \/ state' = [state EXCEPT ![s] = "over"] \/ state' = [state EXCEPT ![s] = "stopping"]
        /\ data' = data \/ \E x, v : x[1] = s /\ data' = [data EXCEPT ![x] = v]
    <3>1. TaskAt(s)[1] = s /\ HeadOf(s)[1] = s
      BY DEF TaskAt, HeadOf
    <3>2. CASE Take(s) \/ Finish(s) \/ HandleControl(s) \/ HandOn(s)
      BY <3>2 DEF Take, Finish, HandleControl, HandOn
    <3>3. CASE Leave(s)
      BY <3>1, <3>3 DEF Leave
    <3>4. CASE HandleBegin(s) \/ HandleLink(s) \/ HandleResize(s) \/ HandleUnlink(s) \/ HandleEnd(s)
      <4>1. data' = data \/ \E v : data' = [data EXCEPT ![TaskAt(s)] = v]
        BY <3>4 DEF HandleBegin, HandleLink, HandleResize, HandleUnlink, GoBack, HandleEnd
      <4>2. state' = state \/ state' = [state EXCEPT ![s] = "stopping"]
        BY <3>4 DEF HandleBegin, HandleLink, HandleResize, HandleUnlink, HandleEnd
      <4> QED BY <3>1, <4>1, <4>2
    <3> QED BY <1>5, <3>2, <3>3, <3>4 DEF Worker
  <2>3. t[1] # s
    BY <1>1, <2>1, <2>2
  <2> QED BY <1>1, <1>4, <2>2, <2>3
<1>6. CASE Application
  BY <1>1, <1>2, <1>3, <1>4, <1>6 DEF Application, Link, Unlink, Resize, StopStream, UnlinkLower, Send, Borrow, Post
<1> QED BY <1>1, <1>4, <1>5, <1>6 DEF Next

LEMMA ReadyInit == Init => ReadyHasNone
BY DEF Init, ReadyHasNone

-----------------------------------------------------------------------------
(* The head of a stream. *)

\* In a session it has data, that it does not get by BEGIN; before the first RESIZE, it uses or
\* keeps the newest container of its stream.
Newest(s) == <<s, made[s]>>
HeadHolds ==
  /\ \A s \in Streams : /\ ~free[HeadOf(s)]
                        /\ ~Rests(s) => data[HeadOf(s)] # None /\ Newest(s) \in Containers
  /\ borrowed # <<>> /\ borrowed[1] = None => state[Head(todo).to] = "over"
  /\ resizes = 0 => \A s \in Streams : ~Rests(s) =>
       data[HeadOf(s)] = Newest(s) \/ data2[HeadOf(s)] = Newest(s)

\* What a message does to the head.
LEMMA HeadOfTask ==
  ASSUME IInv, Sessions, Origin, Way, KeptBelow, HeadHolds, NEW s \in Streams,
         HandleBegin(s) \/ HandleLink(s) \/ HandleResize(s) \/ HandleUnlink(s) \/ HandleEnd(s),
         NEW r \in Streams
  PROVE  /\ ~free'[HeadOf(r)] /\ (~Rests(r) => data'[HeadOf(r)] # None)
         /\ resizes = 0 /\ ~Rests(r) =>
              data'[HeadOf(r)] = Newest(r) \/ data2'[HeadOf(r)] = Newest(r)
<1> DEFINE a == TaskAt(s)
           h == HeadOf(r)
           c == hand[s][1].of
           n == Newest(r)
<1>1. /\ Typed /\ OneAtHand /\ data \in [Tasks -> Slots] /\ data2 \in [Tasks -> Slots] /\ free \in [Tasks -> BOOLEAN]
      /\ h \in Tasks /\ h[1] = r /\ h[2] = 0
  BY FiniteTasks DEF IInv, Typed, Streams, HeadOf
<1>2. /\ ~free[h] /\ (~Rests(r) => data[h] # None)
      /\ resizes = 0 /\ ~Rests(r) => data[h] = n \/ data2[h] = n
  BY DEF HeadHolds
<1>3. /\ hand[s] # <<>> /\ hand[s][1] \in Range(hand[s]) /\ a[1] = s
      /\ HandleLink(s) \/ HandleResize(s) => c # None
      /\ HandleLink(s) => OfUpper(c)
  <2>1. hand[s] # <<>> /\ ~Rests(s)
    BY DEF HandleBegin, HandleLink, HandleResize, HandleUnlink, HandleEnd, Handles, Sessions
  <2>2. hand[s][1] \in Range(hand[s])
    BY <1>1, <2>1, HandQueue
  <2>3. /\ HandleLink(s) => hand[s][1].type = "LINK"
        /\ HandleResize(s) => hand[s][1].type = "RESIZE"
    BY DEF HandleLink, HandleResize, Handles
  <2> QED BY <2>1, <2>2, <2>3 DEF Origin, Rightly, TaskAt
<1>4. CASE a # h
  <2>1. /\ data' = data \/ \E v : data' = [data EXCEPT ![a] = v]
        /\ data2' = data2 \/ \E v : data2' = [data2 EXCEPT ![a] = v]
        /\ free' = free \/ \E v : free' = [free EXCEPT ![a] = v]
    BY DEF HandleBegin, HandleLink, HandleResize, HandleUnlink, GoBack, HandleEnd, Own
  <2> HIDE DEF a, h, n
  <2> QED BY <1>1, <1>2, <1>4, <2>1 DEF h, n
<1>5. CASE a = h
  <2>1. s = r /\ ~Rests(r) /\ data[h] # None
    <3>1. s = r
      BY <1>1, <1>3, <1>5
    <3> QED BY <1>2, <1>3, <3>1 DEF Sessions
  <2>2. CASE HandleBegin(s) \/ HandleEnd(s)
    <3>1. data' = data /\ data2' = data2 /\ free' = free
      BY <1>2, <1>5, <2>1, <2>2 DEF HandleBegin, HandleEnd
    <3> QED BY <1>2, <3>1
  <2>3. CASE HandleLink(s)
    <3>1. /\ free' = free
          /\ \/ data' = data /\ data2' = data2
             \/ /\ DataOf(data[h]) # DataOf(c) /\ data2' = [data2 EXCEPT ![h] = data[h]]
                /\ data' = [data EXCEPT ![h] = c]
      BY <1>5, <2>3 DEF HandleLink, HasNothingToSwitch, Shares
    <3>2. CASE data' = data /\ data2' = data2
      BY <1>2, <3>1, <3>2
    <3>3. CASE /\ DataOf(data[h]) # DataOf(c) /\ data2' = [data2 EXCEPT ![h] = data[h]]
               /\ data' = [data EXCEPT ![h] = c]
      <4>1. ~OfUpper(data[h])
        BY <1>3, <2>1, <2>3, <3>3 DEF OfUpper
      <4>2. resizes = 0 => data2[h] = None
        BY <1>1, <4>1 DEF KeptBelow
      <4>3. resizes = 0 => data[h] = n
        <5>1. n # None
          BY <2>1, StreamsAssumption DEF HeadHolds
        <5> QED BY <1>2, <2>1, <4>2, <5>1
      <4> HIDE DEF h, c, n
      <4> QED BY <1>1, <1>2, <1>3, <2>3, <3>1, <3>3, <4>3 DEF h, n
    <3> QED BY <3>1, <3>2, <3>3
  <2>4. CASE HandleResize(s)
    <3>1. free' = free /\ data' = [data EXCEPT ![h] = c] /\ resizes # 0
      BY <1>5, <2>4, NoResize DEF HandleResize
    <3> HIDE DEF h, c
    <3> QED BY <1>1, <1>2, <1>3, <2>4, <3>1 DEF h
  <2>5. CASE HandleUnlink(s)
    <3>1. /\ free' = free
          /\ \/ data' = data /\ data2' = data2
             \/ /\ data2[h] # None /\ data' = [data EXCEPT ![h] = data2[h]]
      BY <1>5, <2>5 DEF HandleUnlink, GoBack
    <3>2. CASE data' = data /\ data2' = data2
      BY <1>2, <3>1, <3>2
    <3>3. CASE data2[h] # None /\ data' = [data EXCEPT ![h] = data2[h]]
      <4>1. r # Upper /\ (resizes = 0 => OfUpper(data[h]))
        BY <1>1, <3>3 DEF KeptBelow, Origin
      <4>2. resizes = 0 => data[h] # n
        BY <2>1, <4>1 DEF OfUpper, DataOf, Newest
      <4>3. resizes = 0 => data2[h] = n
        BY <1>2, <2>1, <4>2
      <4> HIDE DEF h, n
      <4> QED BY <1>1, <1>2, <3>1, <3>3, <4>3 DEF h, n
    <3> QED BY <3>1, <3>2, <3>3
  <2> QED BY <2>2, <2>3, <2>4, <2>5
<1> QED BY <1>4, <1>5

\* The head of a stream in a step of the application, ...
LEMMA HeadOfCall ==
  ASSUME IInv, Sessions, HeadHolds, Application
  PROVE  HeadHolds'
<1>1. /\ Typed /\ Borrowing /\ data \in [Tasks -> Slots] /\ data2 \in [Tasks -> Slots]
      /\ free \in [Tasks -> BOOLEAN] /\ made \in [Streams -> 0..MaxContainers]
      /\ state \in [Streams -> {"ready", "running", "stopping", "over"}]
      /\ \A s \in Streams : HeadOf(s) \in Tasks /\ HeadOf(s)[1] = s
  BY FiniteTasks DEF IInv, Typed, Streams, HeadOf
<1>2. /\ \A s \in Streams : ~free[HeadOf(s)] /\ (~Rests(s) => data[HeadOf(s)] # None /\ Newest(s) \in Containers)
      /\ borrowed # <<>> /\ borrowed[1] = None => state[Head(todo).to] = "over"
      /\ resizes = 0 => \A s \in Streams : ~Rests(s) =>
           data[HeadOf(s)] = Newest(s) \/ data2[HeadOf(s)] = Newest(s)
  BY DEF HeadHolds
<1>3. ASSUME NEW s \in Streams, Initialize(s) PROVE HeadHolds'
  <2>1. /\ data' = [t \in Tasks |-> IF t[1] = s /\ free[t] THEN None ELSE data[t]]
        /\ data2' = [t \in Tasks |-> IF t[1] = s THEN None ELSE data2[t]]
        /\ free' = [t \in Tasks |-> free[t] /\ t[1] # s]
        /\ state[s] = "over" /\ state' = [state EXCEPT ![s] = "ready"]
        /\ made' = made /\ borrowed' = borrowed /\ borrowed = <<>> /\ resizes' = resizes
    BY <1>3 DEF Initialize, Idle
  <2>2. \A r \in Streams : Rests(r)' <=> Rests(r)
    BY <1>1, <2>1 DEF Rests
  <2>3. \A r \in Streams : ~free'[HeadOf(r)]
    BY <1>1, <1>2, <2>1
  <2>4. \A r \in Streams : ~Rests(r) => r # s
    BY <2>1 DEF Rests
  <2>5. \A r \in Streams : r # s => data'[HeadOf(r)] = data[HeadOf(r)] /\ data2'[HeadOf(r)] = data2[HeadOf(r)]
    BY <1>1, <2>1
  <2>6. \A r \in Streams : Newest(r)' = Newest(r)
    BY <2>1 DEF Newest
  <2> QED BY <1>2, <2>1, <2>2, <2>3, <2>4, <2>5, <2>6 DEF HeadHolds
<1>4. ASSUME NEW s \in Streams, Start(s) PROVE HeadHolds'
  <2>1. /\ data' = [data EXCEPT ![HeadOf(s)] = NextOf(s)] /\ data2' = data2 /\ free' = free
        /\ state[s] = "ready" /\ state' = [state EXCEPT ![s] = "running"]
        /\ made' = [made EXCEPT ![s] = made[s] + 1] /\ Make(s)
        /\ borrowed' = borrowed /\ borrowed = <<>> /\ resizes' = resizes
    BY <1>4 DEF Start, Make, Idle
  <2>2. NextOf(s) \in Containers /\ NextOf(s) # None /\ Newest(s)' = NextOf(s)
    <3>1. NextOf(s) \in Containers
      BY <1>1, <2>1, MakeType
    <3> QED BY <1>1, <2>1, <3>1, StreamsAssumption DEF NextOf, Newest
  <2>3. data'[HeadOf(s)] = NextOf(s)
    BY <1>1, <2>1
  <2>4. \A r \in Streams : r # s => /\ data'[HeadOf(r)] = data[HeadOf(r)] /\ Newest(r)' = Newest(r)
                                   /\ (Rests(r)' <=> Rests(r))
    BY <1>1, <2>1 DEF Newest, Rests
  <2> QED BY <1>2, <2>1, <2>2, <2>3, <2>4 DEF HeadHolds
<1>5. CASE Borrow
  <2> DEFINE s == Head(todo).to
  <2>1. /\ borrowed' = <<data[HeadOf(s)]>> /\ todo' = todo /\ todo # <<>>
        /\ UNCHANGED <<data, data2, free, state, made, resizes>>
    BY <1>5 DEF Borrow
  <2>2. s \in Streams /\ state[s] # "ready"
    BY <1>1, <2>1, CallsLeft DEF Sessions
  <2> HIDE DEF s
  <2>3. borrowed'[1] = data[HeadOf(s)] /\ (data[HeadOf(s)] = None => state[s] = "over")
    BY <1>2, <2>1, <2>2 DEF Rests
  <2> QED BY <1>2, <2>1, <2>3 DEF HeadHolds, Rests, Newest, s
<1>6. CASE Post
  <2> DEFINE s == Head(todo).to
  <2>1. /\ borrowed' = <<>> /\ borrowed # <<>> /\ UNCHANGED <<data, data2, free, state, resizes>>
        /\ made' = made \/ (borrowed[1] = None /\ made' = [made EXCEPT ![s] = made[s] + 1])
    BY <1>6 DEF Post, Make
  <2>2. borrowed[1] = None => state[s] = "over"
    BY <1>2, <2>1
  <2> HIDE DEF s
  <2>3. \A r \in Streams : ~Rests(r) => Newest(r)' = Newest(r)
    BY <1>1, <2>1, <2>2 DEF Rests, Newest
  <2>4. \A r \in Streams : Rests(r)' <=> Rests(r)
    BY <2>1 DEF Rests
  <2> QED BY <1>2, <2>1, <2>3, <2>4 DEF HeadHolds
<1>7. CASE Link \/ Unlink \/ UnlinkLower \/ Send \/ \E s \in Streams : Resize(s) \/ StopStream(s)
  <2>1. /\ UNCHANGED <<data, data2, free, made>> /\ borrowed' = <<>>
        /\ resizes' = 0 => resizes = 0
        /\ state' = state \/ \E s \in Streams : state[s] = "running" /\ state' = [state EXCEPT ![s] = "stopping"]
    <3>1. resizes' = 0 => resizes = 0
      <4>1. [Next]_vars
        BY DEF Next
      <4>2. resizes \in Nat /\ resizes' >= resizes
        BY <4>1, CallsGrow
      <4> QED BY <4>2
    <3> QED BY <1>7, <3>1 DEF Link, Unlink, UnlinkLower, Send, Resize, StopStream, Idle
  <2>2. \A r \in Streams : (Rests(r)' <=> Rests(r)) /\ Newest(r)' = Newest(r)
    BY <1>1, <2>1 DEF Rests, Newest
  <2> QED BY <1>2, <2>1, <2>2 DEF HeadHolds
<1> QED BY <1>3, <1>4, <1>5, <1>6, <1>7 DEF Application

\* ... and in one of a worker.
LEMMA HeadOfWorker ==
  ASSUME IInv, Sessions, Origin, Way, KeptBelow, HeadHolds, NEW s \in Streams, Worker(s)
  PROVE  HeadHolds'
<1>1. /\ Typed /\ data \in [Tasks -> Slots]
      /\ state \in [Streams -> {"ready", "running", "stopping", "over"}]
      /\ \A r \in Streams : HeadOf(r) \in Tasks /\ HeadOf(r)[1] = r
  BY FiniteTasks DEF IInv, Typed, Streams, HeadOf
<1>2. /\ \A r \in Streams : ~free[HeadOf(r)] /\ (~Rests(r) => data[HeadOf(r)] # None /\ Newest(r) \in Containers)
      /\ borrowed # <<>> /\ borrowed[1] = None => state[Head(todo).to] = "over"
      /\ resizes = 0 => \A r \in Streams : ~Rests(r) =>
           data[HeadOf(r)] = Newest(r) \/ data2[HeadOf(r)] = Newest(r)
  BY DEF HeadHolds
<1>3. /\ made' = made /\ todo' = todo /\ borrowed' = borrowed /\ resizes' = resizes
  BY DEF Worker, Take, Finish, Leave, HandleBegin, HandleLink, HandleResize, HandleUnlink, HandleEnd,
         HandleControl, HandOn
<1>4. \A r \in Streams : Newest(r)' = Newest(r)
  BY <1>3 DEF Newest
<1>7. borrowed # <<>> => Head(todo).to \in Streams
  BY <1>1, CallsLeft DEF IInv, Borrowing
<1>5. CASE Leave(s)
  <2>1. /\ data' = [data EXCEPT ![HeadOf(s)] = None] /\ data2' = data2 /\ free' = free
        /\ state' = [state EXCEPT ![s] = "over"]
    BY <1>5 DEF Leave
  <2>2. \A r \in Streams : ~Rests(r)' => ~Rests(r) /\ r # s /\ data'[HeadOf(r)] = data[HeadOf(r)]
    BY <1>1, <2>1 DEF Rests
  <2>3. borrowed' # <<>> /\ borrowed'[1] = None => state'[Head(todo').to] = "over"
    BY <1>1, <1>2, <1>3, <1>7, <2>1
  <2> QED BY <1>2, <1>3, <1>4, <2>1, <2>2, <2>3 DEF HeadHolds
<1>6. CASE ~Leave(s)
  <2>1. state' = state \/ (state[s] = "running" /\ state' = [state EXCEPT ![s] = "stopping"])
    BY <1>6 DEF Worker, Take, Finish, HandleBegin, HandleLink, HandleResize, HandleUnlink, StopsItself, HandleEnd,
         HandleControl, HandOn
  <2>2. \A r \in Streams : Rests(r)' <=> Rests(r)
    BY <1>1, <2>1 DEF Rests
  <2>3. borrowed' # <<>> /\ borrowed'[1] = None => state'[Head(todo').to] = "over"
    BY <1>1, <1>2, <1>3, <1>7, <2>1
  <2>4. CASE HandleBegin(s) \/ HandleLink(s) \/ HandleResize(s) \/ HandleUnlink(s) \/ HandleEnd(s)
    <3>1. \A r \in Streams : /\ ~free'[HeadOf(r)] /\ (~Rests(r) => data'[HeadOf(r)] # None)
                             /\ resizes = 0 /\ ~Rests(r) =>
                                  data'[HeadOf(r)] = Newest(r) \/ data2'[HeadOf(r)] = Newest(r)
      BY <2>4, HeadOfTask
    <3> QED BY <1>2, <1>3, <1>4, <2>2, <2>3, <3>1 DEF HeadHolds
  <2>5. CASE Take(s) \/ Finish(s) \/ HandleControl(s) \/ HandOn(s)
    <3>1. UNCHANGED <<data, data2, free>>
      BY <2>5 DEF Take, Finish, HandleControl, HandOn
    <3> QED BY <1>2, <1>3, <1>4, <2>2, <2>3, <3>1 DEF HeadHolds
  <2> QED BY <1>6, <2>4, <2>5 DEF Worker
<1> QED BY <1>5, <1>6

LEMMA HeadNext == IInv /\ Sessions /\ Origin /\ Way /\ KeptBelow /\ HeadHolds /\ [Next]_vars => HeadHolds'
<1>1. HeadHolds /\ UNCHANGED vars => HeadHolds'
  BY DEF HeadHolds, Rests, Newest
<1> QED BY <1>1, HeadOfCall, HeadOfWorker DEF Next

LEMMA HeadInit == Init => HeadHolds
<1> SUFFICES ASSUME Init PROVE HeadHolds
  OBVIOUS
<1>1. \A s \in Streams : HeadOf(s) \in Tasks
  BY FiniteTasks DEF Streams
<1> QED BY <1>1 DEF Init, HeadHolds, Rests

-----------------------------------------------------------------------------
(* The end of a session, and of a link. *)

\* What a step adds to the queue of a stream.
IsNew(r, m) ==
  \/ Start(r) /\ m = Message("BEGIN", NextOf(r))
  \/ /\ todo # <<>> /\ Head(todo).to = r
     /\ \/ Send /\ m.type = "CONTROL"
        \/ Send /\ m.type = "STOP" /\ Head(todo).op = "STOP"
        \/ Post /\ m.type = Head(todo).op
  \/ Finish(r) /\ m.type = "END"
  \/ HandleEnd(r) /\ m = Stop
  \/ HandleUnlink(r) /\ StopsItself(r) /\ m = Stop
  \/ r = Lower /\ HandOn(Upper) /\ upstream /\ hand[Upper] # <<>> /\ m = hand[Upper][1]

\* A step adds at most one message to a queue, at its end, ...
LEMMA QueueNext ==
  ASSUME IInv, [Next]_vars, NEW r \in Streams
  PROVE  \/ inbox'[r] = inbox[r]
         \/ inbox'[r] = <<>> /\ Leave(r)
         \/ inbox[r] # <<>> /\ inbox'[r] = Tail(inbox[r]) /\ Take(r)
         \/ \E m \in Messages : /\ m.type = "END" /\ IsNew(r, m) /\ Finish(r) /\ inbox[r] # <<>>
                                /\ inbox'[r] = Append(Tail(inbox[r]), m)
         \/ \E m \in Messages : IsNew(r, m) /\ inbox'[r] = Append(inbox[r], m)
<1>1. /\ Typed /\ Borrowing /\ OneAtHand
      /\ Upper \in Streams /\ Lower \in Streams /\ Upper # Lower /\ r \in {Upper, Lower}
  BY Values, StreamsAssumption DEF IInv, Streams
<1>2. CASE Application
  <2>1. CASE inbox'[r] = inbox[r]
    BY <2>1
  <2>2. CASE inbox'[r] # inbox[r]
    <3>1. PICK m \in Messages :
            /\ inbox'[r] = Append(inbox[r], m)
            /\ \/ Start(r) /\ m = Message("BEGIN", NextOf(r))
               \/ Send /\ m.type \in {"CONTROL", "STOP"}
                  /\ (m.type = "STOP" <=> Head(todo).op = "STOP")
               \/ Post /\ m = Posted
            /\ ~Start(r) => todo # <<>> /\ Head(todo).to = r
      BY <1>1, <1>2, <2>2, ApplicationQueues
    <3>2. (Send => ~Start(r)) /\ (Post => ~Start(r))
      BY DEF Send, Start, Idle, Post
    <3>3. Post /\ m = Posted => m.type = Head(todo).op
      BY DEF Posted, Message
    <3>4. IsNew(r, m)
      BY <3>1, <3>2, <3>3 DEF IsNew
    <3> QED BY <3>1, <3>4
  <2> QED BY <2>1, <2>2
<1>3. ASSUME NEW s \in Streams, Worker(s), inbox'[r] # inbox[r]
      PROVE  \/ inbox'[r] = <<>> /\ Leave(r)
             \/ inbox[r] # <<>> /\ inbox'[r] = Tail(inbox[r]) /\ Take(r)
             \/ \E m \in Messages : /\ m.type = "END" /\ IsNew(r, m) /\ Finish(r) /\ inbox[r] # <<>>
                                    /\ inbox'[r] = Append(Tail(inbox[r]), m)
             \/ \E m \in Messages : IsNew(r, m) /\ inbox'[r] = Append(inbox[r], m)
  <2>1. CASE HandOn(s)
    <3>1. ~Take(s) /\ ~Finish(s) /\ ~Leave(s) /\ ~(at[s] <= Modules)
      <4>1. hand[s] # <<>> /\ at[s] > Modules
        BY <2>1 DEF HandOn
      <4>2. ~(at[s] <= Modules)
        <5>1. at[s] \in Int /\ Modules \in Int
          BY <1>1, NumbersAssumption DEF Typed
        <5> QED BY <4>1, <5>1
      <4> QED BY <4>1, <4>2 DEF Take, Finish, Leave
    <3>2. /\ hand[s] # <<>>
          /\ s = Upper \/ inbox' = inbox
          /\ s = Upper => inbox'[Upper] = inbox[Upper]
          /\ \/ inbox'[Lower] = inbox[Lower]
             \/ s = Upper /\ upstream /\ inbox'[Lower] = Append(inbox[Lower], hand[s][1])
      BY <1>1, <1>3, <3>1, WorkerQueues
    <3>3. s = Upper /\ r = Lower /\ upstream /\ inbox'[r] = Append(inbox[r], hand[s][1])
      BY <1>1, <1>3, <3>2
    <3>4. hand[s][1] \in Messages
      BY <1>1, <3>2, HandQueue
    <3>5. IsNew(r, hand[s][1])
      BY <2>1, <3>2, <3>3 DEF IsNew
    <3> QED BY <3>3, <3>4, <3>5
  <2>2. CASE ~HandOn(s)
    <3>1. r = s
      BY <1>1, <1>3, <2>2, WorkerQueues
    <3>2. Stop \in Messages /\ \A c \in Slots : Message("END", c) \in Messages /\ Message("END", c).type = "END"
      BY Values DEF Message
    <3>3. data[HeadOf(s)] \in Slots
      BY <1>1, FiniteTasks DEF Typed, Streams
    <3>4. CASE Take(s) /\ inbox[s] # <<>> /\ inbox'[s] = Tail(inbox[s])
      BY <3>1, <3>4
    <3>5. CASE Finish(s) /\ inbox[s] # <<>> /\ inbox'[s] = Append(Tail(inbox[s]), Message("END", data[HeadOf(s)]))
      <4>1. IsNew(r, Message("END", data[HeadOf(s)]))
        BY <3>1, <3>2, <3>3, <3>5 DEF IsNew
      <4> QED BY <3>1, <3>2, <3>3, <3>5, <4>1
    <3>6. CASE Leave(s) /\ inbox'[s] = <<>>
      BY <3>1, <3>6
    <3>7. CASE inbox'[s] = Append(inbox[s], Stop) /\ (HandleEnd(s) \/ HandleUnlink(s))
      <4>1. HandleUnlink(s) => StopsItself(s)
        BY <1>3, <3>1 DEF HandleUnlink
      <4>2. IsNew(r, Stop)
        BY <3>1, <3>7, <4>1 DEF IsNew
      <4> QED BY <3>1, <3>2, <3>7, <4>2
    <3>8. CASE inbox'[s] = inbox[s]
      BY <1>3, <3>1, <3>8
    <3> QED BY <1>1, <1>3, <2>2, <3>4, <3>5, <3>6, <3>7, <3>8, WorkerQueues
  <2> QED BY <2>1, <2>2
<1>4. CASE UNCHANGED vars
  BY <1>4
<1> QED BY <1>2, <1>3, <1>4 DEF Next

\* ... and the messages that are there were, too, or are new.
LEMMA MessagesNext ==
  ASSUME IInv, [Next]_vars, NEW r \in Streams
  PROVE  /\ \A m \in Range(inbox'[r]) : m \in Range(inbox[r]) \/ IsNew(r, m)
         /\ \A m \in Range(hand'[r]) : m \in Range(hand[r]) \/ m \in Range(inbox[r])
<1>1. Typed /\ Borrowing /\ OneAtHand /\ inbox[r] \in Seq(Messages)
  BY DEF IInv, Typed
<1>2. /\ \A q \in Seq(Messages), m \in Messages : Range(Append(q, m)) = Range(q) \cup {m}
      /\ inbox[r] # <<>> => /\ Tail(inbox[r]) \in Seq(Messages)
                           /\ Range(Tail(inbox[r])) \subseteq Range(inbox[r]) /\ Head(inbox[r]) \in Range(inbox[r])
      /\ Range(<<>>) = {} /\ \A m : Range(<<m>>) = {m}
  <2>1. \A m : Range(<<m>>) = {m}
    BY DEF Range
  <2> QED BY <1>1, <2>1, AppendedQueue, ShortenedQueue, EmptyQueue
<1> HIDE DEF Range
<1>3. \A m \in Range(inbox'[r]) : m \in Range(inbox[r]) \/ IsNew(r, m)
  <2>1. CASE inbox'[r] = inbox[r]
    BY <2>1
  <2>2. CASE inbox'[r] = <<>>
    BY <1>2, <2>2
  <2>3. CASE inbox[r] # <<>> /\ inbox'[r] = Tail(inbox[r])
    BY <1>2, <2>3
  <2>4. ASSUME NEW m \in Messages, IsNew(r, m), inbox[r] # <<>>, inbox'[r] = Append(Tail(inbox[r]), m)
        PROVE  \A x \in Range(inbox'[r]) : x \in Range(inbox[r]) \/ IsNew(r, x)
    <3>1. Range(inbox'[r]) = Range(Tail(inbox[r])) \cup {m}
      BY <1>2, <2>4
    <3> QED BY <1>2, <2>4, <3>1
  <2>5. ASSUME NEW m \in Messages, IsNew(r, m), inbox'[r] = Append(inbox[r], m)
        PROVE  \A x \in Range(inbox'[r]) : x \in Range(inbox[r]) \/ IsNew(r, x)
    <3>1. Range(inbox'[r]) = Range(inbox[r]) \cup {m}
      BY <1>1, <1>2, <2>5
    <3> QED BY <2>5, <3>1
  <2> QED BY <2>1, <2>2, <2>3, <2>4, <2>5, QueueNext
<1>4. \A m \in Range(hand'[r]) : m \in Range(hand[r]) \/ m \in Range(inbox[r])
  <2>1. \/ hand'[r] = hand[r] \/ hand'[r] = <<>>
        \/ inbox[r] # <<>> /\ hand'[r] = <<Head(inbox[r])>>
    <3>1. CASE Application
      BY <1>1, <3>1, ApplicationQueues
    <3>2. CASE \E s \in Streams : Worker(s)
      <4>1. PICK s \in Streams : Worker(s)
        BY <3>2
      <4>2. CASE r = s
        BY <1>1, <4>1, <4>2, WorkerQueues
      <4>3. CASE r # s
        BY <1>1, <4>1, <4>3, WorkerQueues
      <4> QED BY <4>2, <4>3
    <3> QED BY <3>1, <3>2 DEF Next
  <2>2. CASE inbox[r] # <<>> /\ hand'[r] = <<Head(inbox[r])>>
    <3>1. Range(hand'[r]) = {Head(inbox[r])}
      BY <1>2, <2>2
    <3> QED BY <1>2, <2>2, <3>1
  <2>3. CASE hand'[r] = hand[r] \/ hand'[r] = <<>>
    BY <1>2, <2>3
  <2> QED BY <2>1, <2>2, <2>3
<1> QED BY <1>3, <1>4

\* A stream that is running has not got a message that ends it; while it is linked, the upper one
\* has not got one that ends the link either, and stop() will not have one sent before it has
\* called _unlink().
ToStop == EndAndUnlink \o <<Call("STOP", Upper)>>
Ends == {"END", "STOP"}
Running(s) == state[s] = "running"
Orderly ==
  /\ \A s \in Streams : Running(s) =>
       /\ \A x \in Ends : ~Has(inbox[s], x) /\ ~Has(hand[s], x)
       /\ Call("STOP", s) \notin Range(todo)
  /\ Running(Upper) =>
       ~Has(inbox[Upper], "UNLINK") /\ ~Has(hand[Upper], "UNLINK") /\ Call("UNLINK", Upper) \notin Range(todo)
  /\ upstream =>
       /\ \A x \in Ends \cup {"UNLINK"} : ~Has(inbox[Upper], x) /\ ~Has(hand[Upper], x)
       /\ \/ todo = ToStop \/ todo = Tail(ToStop)
          \/ \A c \in Range(todo) : c.op # "UNLINK" /\ c # Call("STOP", Upper)

\* A stream is running that was, or that is started.
LEMMA RunningNext ==
  ASSUME IInv, Sessions, [Next]_vars, NEW s \in Streams, Running(s)'
  PROVE  \/ Running(s) /\ ~StopStream(s) /\ ~(HandleUnlink(s) /\ StopsItself(s))
         \/ Start(s) /\ inbox[s] = <<>> /\ hand[s] = <<>> /\ todo = <<>> /\ todo' = <<>> /\ ~Running(s)
<1>1. state \in [Streams -> {"ready", "running", "stopping", "over"}] /\ state'[s] = "running"
  BY DEF IInv, Typed, Running
<1>2. CASE Start(s)
  BY <1>2 DEF Start, Idle, Sessions, Rests, Running
<1>3. CASE ~Start(s)
  <2>1. state[s] = "running"
    BY <1>1, <1>3 DEF Next, Application, Initialize, Start, Link, Unlink, Resize, StopStream, UnlinkLower, Send,
                      Borrow, Post, Worker, Take, Finish, Leave, HandleBegin, HandleLink, HandleResize,
                      HandleUnlink, HandleEnd, HandleControl, HandOn
  <2>2. ~StopStream(s) /\ ~(HandleUnlink(s) /\ StopsItself(s))
    BY <1>1 DEF StopStream, HandleUnlink
  <2> QED BY <2>1, <2>2 DEF Running
<1> QED BY <1>2, <1>3

\* The calls of stop(), in their order.
LEMMA CallsInOrder ==
  /\ Head(ToStop) = Call("END", Lower)
  /\ Head(Tail(ToStop)) = Call("unlink", Lower)
  /\ ToStop # <<>> /\ Tail(ToStop) # <<>>
<1> DEFINE a == Call("END", Lower)
           b == Call("unlink", Lower)
           c == Call("UNLINK", Lower)
           d == Call("UNLINK", Upper)
           e == Call("STOP", Upper)
<1>1. ToStop = <<a, b, c, d>> \o <<e>>
  BY DEF ToStop, EndAndUnlink
<1> HIDE DEF a, b, c, d, e
<1>2. <<a, b, c, d>> \o <<e>> = <<a, b, c, d, e>>
  <2> DEFINE S == {a, b, c, d, e}
             p == <<a, b, c, d>>
             r == <<e>>
             q == p \o r
  <2>1. a \in S /\ b \in S /\ c \in S /\ d \in S /\ e \in S
    OBVIOUS
  <2> HIDE DEF S
  <2>2. p \in Seq(S) /\ r \in Seq(S) /\ <<a, b, c, d, e>> \in Seq(S)
    BY <2>1
  <2>3. Len(p) = 4 /\ p[1] = a /\ p[2] = b /\ p[3] = c /\ p[4] = d /\ Len(r) = 1 /\ r[1] = e
    OBVIOUS
  <2> HIDE DEF p, r
  <2>4. q \in Seq(S) /\ Len(q) = 5 /\ \A i \in 1..5 : q[i] = IF i <= 4 THEN p[i] ELSE r[i - 4]
    <3>1. /\ p \o r \in Seq(S) /\ Len(p \o r) = Len(p) + Len(r)
          /\ \A i \in 1..Len(p) + Len(r) : (p \o r)[i] = IF i <= Len(p) THEN p[i] ELSE r[i - Len(p)]
      BY <2>2, ConcatProperties, Zenon
    <3>2. Len(p) + Len(r) = 5
      BY <2>3
    <3> QED BY <2>3, <3>1, <3>2
  <2> HIDE DEF q
  <2>5. q[1] = a /\ q[2] = b /\ q[3] = c /\ q[4] = d /\ q[5] = e
    BY <2>3, <2>4
  <2>6. q = <<a, b, c, d, e>>
    BY <2>2, <2>4, <2>5
  <2> QED BY <2>6 DEF p, q, r
<1>3. Head(<<a, b, c, d, e>>) = a /\ Tail(<<a, b, c, d, e>>) = <<b, c, d, e>>
  OBVIOUS
<1>4. Head(<<b, c, d, e>>) = b /\ <<a, b, c, d, e>> # <<>> /\ <<b, c, d, e>> # <<>>
  OBVIOUS
<1> QED BY <1>1, <1>2, <1>3, <1>4 DEF a, b

\* A message of a type that is in a queue was there, or in front of it, or is new.
LEMMA HasNext ==
  ASSUME IInv, [Next]_vars, NEW r \in Streams, NEW x
  PROVE  /\ Has(inbox'[r], x) => Has(inbox[r], x) \/ \E m : IsNew(r, m) /\ m.type = x
         /\ Has(hand'[r], x) => Has(hand[r], x) \/ Has(inbox[r], x)
BY MessagesNext DEF Has

\* Messages that end a session or a link are new in these cases only.
LEMMA EndsNext ==
  ASSUME IInv, Orderly, [Next]_vars, NEW r \in Streams, NEW m, IsNew(r, m), m.type \in Ends \cup {"UNLINK"}
  PROVE  \/ Call(m.type, r) \in Range(todo) /\ todo # <<>> /\ Head(todo) = Call(m.type, r) /\ m.type # "END"
         \/ Has(inbox[r], "STOP") \/ Has(hand[r], "END")
         \/ HandleUnlink(r) /\ StopsItself(r) /\ Has(hand[r], "UNLINK")
         \/ r = Lower /\ upstream /\ hand[Upper] # <<>> /\ m \in Range(hand[Upper])
<1>1. Typed /\ Borrowing /\ OneAtHand
  BY DEF IInv
<1>2. CASE Start(r) /\ m = Message("BEGIN", NextOf(r))
  BY <1>2 DEF Message, Ends
<1>3. CASE todo # <<>> /\ Head(todo).to = r /\ m.type # "END" /\ m.type = Head(todo).op
  <2>1. Head(todo) \in Calls /\ Head(todo) \in Range(todo)
    BY <1>1, <1>3, CallsLeft
  <2>2. Head(todo) = Call(m.type, r)
    BY <1>3, <2>1 DEF Calls, Call
  <2> QED BY <1>3, <2>1, <2>2
<1>4. CASE Finish(r)
  <2>1. Head(inbox[r]) \in Range(inbox[r]) /\ Head(inbox[r]).type = "STOP"
    <3>1. inbox[r] \in Seq(Messages) /\ inbox[r] # <<>> /\ Head(inbox[r]) = Stop
      BY <1>1, <1>4 DEF Typed, Finish
    <3> QED BY <3>1, ShortenedQueue DEF Stop, Message
  <2> QED BY <2>1 DEF Has
<1>5. CASE HandleEnd(r)
  BY <1>5, AtHand DEF HandleEnd
<1>6. CASE HandleUnlink(r) /\ StopsItself(r)
  BY <1>6, AtHand DEF HandleUnlink
<1>7. CASE r = Lower /\ HandOn(Upper) /\ upstream /\ hand[Upper] # <<>> /\ m = hand[Upper][1]
  <2>1. Upper \in Streams
    BY Values
  <2>2. m \in Range(hand[Upper])
    BY <1>1, <1>7, <2>1, HandQueue
  <2> QED BY <1>7, <2>2
<1>8. Post => Head(todo).op # "END"
  BY <1>1 DEF Post, Borrowing
<1> QED BY <1>2, <1>3, <1>4, <1>5, <1>6, <1>7, <1>8 DEF IsNew, Ends

\* A running stream.
LEMMA OrderlyRunning ==
  ASSUME IInv, Sessions, Orderly, [Next]_vars, NEW s \in Streams, Running(s)'
  PROVE  /\ \A x \in Ends : ~Has(inbox'[s], x) /\ ~Has(hand'[s], x)
         /\ Call("STOP", s) \notin Range(todo')
         /\ s = Upper => /\ ~Has(inbox'[s], "UNLINK") /\ ~Has(hand'[s], "UNLINK")
                         /\ Call("UNLINK", s) \notin Range(todo')
<1>0. /\ Typed /\ Borrowing /\ Upper # Lower /\ \A op, r : Call(op, r).op = op /\ Call(op, r).to = r
  BY StreamsAssumption DEF IInv, Call
<1>1. CASE Start(s) /\ inbox[s] = <<>> /\ hand[s] = <<>> /\ todo = <<>> /\ todo' = <<>>
  <2>1. Range(todo') = {} /\ Range(todo) = {}
    BY <1>1, EmptyQueue
  <2>2. \A x : ~Has(inbox[s], x) /\ ~Has(hand[s], x)
    BY <1>1, EmptyQueue
  <2>3. ASSUME NEW m, IsNew(s, m) PROVE m.type \notin Ends \cup {"UNLINK"}
    <3>1. SUFFICES ASSUME m.type \in Ends \cup {"UNLINK"} PROVE FALSE
      OBVIOUS
    <3>2. ~upstream
      BY <1>1 DEF Start, Sessions
    <3> QED BY <1>1, <2>2, <2>3, <3>1, <3>2, EndsNext
  <2> QED BY <2>1, <2>2, <2>3, HasNext
<1>2. CASE Running(s) /\ ~StopStream(s) /\ ~(HandleUnlink(s) /\ StopsItself(s))
  <2> DEFINE X == IF s = Upper THEN Ends \cup {"UNLINK"} ELSE Ends
  <2>1. /\ \A x \in X : ~Has(inbox[s], x) /\ ~Has(hand[s], x)
        /\ Call("STOP", s) \notin Range(todo) /\ (s = Upper => Call("UNLINK", s) \notin Range(todo))
    BY <1>2 DEF Orderly
  <2>2. ASSUME NEW m, IsNew(s, m), m.type \in X PROVE FALSE
    <3>1. m.type \in Ends \cup {"UNLINK"}
      BY <2>2
    <3>2. CASE Call(m.type, s) \in Range(todo) /\ m.type # "END"
      BY <2>1, <2>2, <3>2 DEF Ends
    <3>3. CASE Has(inbox[s], "STOP") \/ Has(hand[s], "END")
      BY <2>1, <3>3 DEF Ends
    <3>4. CASE s = Lower /\ upstream /\ m \in Range(hand[Upper])
      <4>1. Has(hand[Upper], m.type)
        BY <3>4 DEF Has
      <4> QED BY <3>1, <3>4, <4>1 DEF Orderly
    <3> QED BY <1>2, <2>2, <3>1, <3>2, <3>3, <3>4, EndsNext
  <2>3. \A x \in X : ~Has(inbox'[s], x) /\ ~Has(hand'[s], x)
    BY <2>1, <2>2, HasNext
  <2>4. Call("STOP", s) \notin Range(todo') /\ (s = Upper => Call("UNLINK", s) \notin Range(todo'))
    <3>1. CASE todo' = todo
      BY <2>1, <3>1
    <3>2. CASE todo # <<>> /\ todo' = Tail(todo)
      BY <1>0, <2>1, <3>2, CallsLeft
    <3>3. CASE \E op, r : todo' = <<Call(op, r)>> /\ op # "STOP" /\ (op = "UNLINK" => r = Lower)
      <4>1. PICK op, r : todo' = <<Call(op, r)>> /\ op # "STOP" /\ (op = "UNLINK" => r = Lower)
        BY <3>3
      <4>2. Range(todo') = {Call(op, r)}
        BY <4>1, CallsToStop
      <4> QED BY <1>0, <4>1, <4>2
    <3>4. ASSUME NEW r \in Streams, StopStream(r)
          PROVE  Call("STOP", s) \notin Range(todo') /\ (s = Upper => Call("UNLINK", s) \notin Range(todo'))
      <4>1. Range(todo') \subseteq
              {Call("STOP", r)} \cup IF r = Upper /\ upstream
                                     THEN {Call("END", Lower), Call("unlink", Lower), Call("UNLINK", Lower),
                                           Call("UNLINK", Upper)}
                                     ELSE {}
        BY <1>0, <3>4, CallsBegun
      <4>2. r # s
        BY <1>2, <3>4
      <4>3. /\ Call("STOP", s) # Call("STOP", r)
            /\ \A op : op # "STOP" => \A q : Call("STOP", s) # Call(op, q)
            /\ \A op : op # "UNLINK" => \A q : Call("UNLINK", s) # Call(op, q)
        BY <1>0, <4>2
      <4>4. Call("STOP", s) \notin Range(todo')
        BY <4>1, <4>3
      <4>5. s = Upper => Call("UNLINK", s) \notin Range(todo')
        BY <4>1, <4>2, <4>3
      <4> QED BY <4>4, <4>5
    <3> QED BY <1>0, <3>1, <3>2, <3>3, <3>4, CallsNext
  <2> QED BY <2>3, <2>4
<1> QED BY <1>1, <1>2, RunningNext

\* A stream that is linked.
LEMMA OrderlyLinked ==
  ASSUME IInv, Sessions, Orderly, [Next]_vars, upstream'
  PROVE  /\ \A x \in Ends \cup {"UNLINK"} : ~Has(inbox'[Upper], x) /\ ~Has(hand'[Upper], x)
         /\ \/ todo' = ToStop \/ todo' = Tail(ToStop)
            \/ \A c \in Range(todo') : c.op # "UNLINK" /\ c # Call("STOP", Upper)
<1>0. /\ Typed /\ Borrowing /\ Upper # Lower /\ \A op, r : Call(op, r).op = op /\ Call(op, r).to = r
      /\ Upper \in Streams
  BY StreamsAssumption, Values DEF IInv, Call
<1>1. CASE Link
  <2>1. /\ Running(Upper) /\ UNCHANGED <<inbox, hand>> /\ todo' = <<Call("LINK", Upper)>>
    BY <1>0, <1>1 DEF Link, Running
  <2>2. Range(todo') = {Call("LINK", Upper)}
    BY <2>1, CallsToStop
  <2>3. \A x \in Ends \cup {"UNLINK"} : ~Has(inbox[Upper], x) /\ ~Has(hand[Upper], x)
    BY <1>0, <2>1 DEF Orderly
  <2>4. \A c \in Range(todo') : c.op # "UNLINK" /\ c # Call("STOP", Upper)
    BY <1>0, <2>2
  <2> QED BY <2>1, <2>3, <2>4
<1>2. CASE ~Link
  <2>1. upstream /\ ~Unlink /\ ~UnlinkLower
    BY <1>2 DEF Next, Application, Initialize, Start, Unlink, Resize, StopStream, UnlinkLower, Send,
                Borrow, Post, Worker, Take, Finish, Leave, HandleBegin, HandleLink, HandleResize,
                HandleUnlink, HandleEnd, HandleControl, HandOn
  <2>2. /\ \A x \in Ends \cup {"UNLINK"} : ~Has(inbox[Upper], x) /\ ~Has(hand[Upper], x)
        /\ \/ todo = ToStop \/ todo = Tail(ToStop)
           \/ \A c \in Range(todo) : c.op # "UNLINK" /\ c # Call("STOP", Upper)
    BY <2>1 DEF Orderly
  <2>3. ASSUME NEW m, IsNew(Upper, m), m.type \in Ends \cup {"UNLINK"} PROVE FALSE
    <3>1. CASE Call(m.type, Upper) \in Range(todo) /\ Head(todo) = Call(m.type, Upper) /\ m.type # "END"
      <4>1. todo # ToStop /\ todo # Tail(ToStop)
        BY <1>0, <3>1, CallsInOrder
      <4> QED BY <1>0, <2>2, <2>3, <3>1, <4>1 DEF Ends
    <3> QED BY <1>0, <2>2, <2>3, <3>1, EndsNext DEF Ends
  <2>4. \A x \in Ends \cup {"UNLINK"} : ~Has(inbox'[Upper], x) /\ ~Has(hand'[Upper], x)
    BY <1>0, <2>2, <2>3, HasNext
  <2>5. \/ todo' = ToStop \/ todo' = Tail(ToStop)
        \/ \A c \in Range(todo') : c.op # "UNLINK" /\ c # Call("STOP", Upper)
    <3>1. CASE todo' = todo
      BY <2>2, <3>1
    <3>2. CASE todo # <<>> /\ todo' = Tail(todo)
      <4>1. todo # Tail(ToStop)
        <5>1. Send \/ Post
          <6>1. todo' # todo
            <7>1. todo \in Seq(Calls) /\ Len(Tail(todo)) = Len(todo) - 1 /\ Len(todo) \in Nat
              BY <1>0, <3>2, HeadTailProperties, LenProperties DEF Typed
            <7>2. todo' = todo => Len(todo) = Len(todo) - 1
              BY <3>2, <7>1
            <7> QED BY <7>1, <7>2
          <6> QED BY <2>1, <3>2, <6>1, <1>0, CallsNext DEF StopStream, Resize, Link, Unlink, Idle
        <5>2. Head(todo).op # "unlink"
          BY <1>0, <5>1 DEF Send, Post, Borrowing
        <5> QED BY <1>0, <5>2, CallsInOrder
      <4> QED BY <1>0, <2>2, <3>2, <4>1, CallsLeft
    <3>3. CASE \E s \in Streams : Resize(s) /\ todo' = <<Call("RESIZE", s)>>
      <4>1. PICK s \in Streams : todo' = <<Call("RESIZE", s)>>
        BY <3>3
      <4>2. Range(todo') = {Call("RESIZE", s)}
        BY <4>1, CallsToStop
      <4> QED BY <1>0, <4>2
    <3>4. ASSUME NEW s \in Streams, StopStream(s) 
          PROVE  todo' = ToStop \/ (Range(todo') = {Call("STOP", s)} /\ s # Upper)
      <4>1. s = Upper => todo' = ToStop
        BY <2>1, <3>4 DEF StopStream, ToStop
      <4>2. s # Upper => todo' = <<>> \o <<Call("STOP", s)>>
        BY <3>4 DEF StopStream
      <4>3. Range(<<>> \o <<Call("STOP", s)>>) = {Call("STOP", s)}
        BY CallsToStop
      <4> QED BY <4>1, <4>2, <4>3
    <3>5. (\E s \in Streams : StopStream(s)) =>
             todo' = ToStop \/ \A c \in Range(todo') : c.op # "UNLINK" /\ c # Call("STOP", Upper)
      BY <1>0, <3>4
    <3> QED BY <1>0, <1>2, <2>1, <3>1, <3>2, <3>3, <3>5, CallsNext
  <2> QED BY <2>4, <2>5
<1> QED BY <1>1, <1>2

LEMMA OrderlyNext == IInv /\ Sessions /\ Orderly /\ [Next]_vars => Orderly'
<1> SUFFICES ASSUME IInv, Sessions, Orderly, [Next]_vars PROVE Orderly'
  OBVIOUS
<1>1. \A s \in Streams : Running(s)' =>
        /\ \A x \in Ends : ~Has(inbox'[s], x) /\ ~Has(hand'[s], x)
        /\ Call("STOP", s) \notin Range(todo')
  BY OrderlyRunning
<1>2. Running(Upper)' =>
        ~Has(inbox'[Upper], "UNLINK") /\ ~Has(hand'[Upper], "UNLINK") /\ Call("UNLINK", Upper) \notin Range(todo')
  BY OrderlyRunning, Values
<1> QED BY <1>1, <1>2, OrderlyLinked DEF Orderly

LEMMA OrderlyInit == Init => Orderly
<1> SUFFICES ASSUME Init PROVE Orderly
  OBVIOUS
<1>1. ~upstream /\ \A s \in Streams : state[s] = "ready"
  BY DEF Init
<1> QED BY <1>1, Values DEF Orderly, Running

-----------------------------------------------------------------------------
(* What the tasks have. *)

\* The worker of a stream.
LEMMA HandNext ==
  ASSUME IInv, [Next]_vars, NEW r \in Streams
  PROVE  \/ hand'[r] = hand[r] /\ at'[r] = at[r]
         \/ /\ Take(r) /\ hand[r] = <<>> /\ inbox[r] # <<>> /\ inbox'[r] = Tail(inbox[r])
            /\ hand'[r] = <<Head(inbox[r])>> /\ at'[r] = 0
         \/ /\ hand[r] # <<>> /\ hand'[r] = hand[r] /\ at[r] <= Modules /\ at'[r] = at[r] + 1
            /\ \/ HandleBegin(r) \/ HandleLink(r) \/ HandleResize(r) \/ HandleUnlink(r) \/ HandleEnd(r)
               \/ HandleControl(r)
         \/ HandOn(r) /\ hand'[r] = <<>>
<1>1. Typed /\ Borrowing /\ OneAtHand
  BY DEF IInv
<1>2. CASE Application
  BY <1>1, <1>2, ApplicationQueues
<1>3. ASSUME NEW s \in Streams, Worker(s), s = r
      PROVE  \/ hand'[r] = hand[r] /\ at'[r] = at[r]
             \/ /\ Take(r) /\ hand[r] = <<>> /\ inbox[r] # <<>> /\ inbox'[r] = Tail(inbox[r])
                /\ hand'[r] = <<Head(inbox[r])>> /\ at'[r] = 0
             \/ /\ hand[r] # <<>> /\ hand'[r] = hand[r] /\ at[r] <= Modules /\ at'[r] = at[r] + 1
                /\ \/ HandleBegin(r) \/ HandleLink(r) \/ HandleResize(r) \/ HandleUnlink(r) \/ HandleEnd(r)
                   \/ HandleControl(r)
             \/ HandOn(r) /\ hand'[r] = <<>>
  BY <1>1, <1>3, WorkerQueues
<1>4. ASSUME NEW s \in Streams, Worker(s), s # r
      PROVE  hand'[r] = hand[r] /\ at'[r] = at[r]
  BY <1>1, <1>4, WorkerQueues
<1>5. CASE UNCHANGED vars
  BY <1>5
<1> QED BY <1>2, <1>3, <1>4, <1>5 DEF Next

\* The first message, and the others.
LEMMA HeadAndTail ==
  ASSUME NEW q \in Seq(Messages), q # <<>>
  PROVE  Range(q) = {Head(q)} \cup Range(Tail(q))
<1> DEFINE t == Tail(q)
<1>1. /\ Len(q) \in Nat /\ Len(q) # 0 /\ DOMAIN q = 1..Len(q) /\ DOMAIN t = 1..Len(q) - 1
      /\ \A i \in 1..Len(q) - 1 : t[i] = q[i + 1]
  BY HeadTailProperties, LenProperties, EmptySeq
<1>2. Head(q) = q[1] /\ Head(q) \in Range(q) /\ Range(t) \subseteq Range(q)
  BY ShortenedQueue
<1> HIDE DEF t
<1>3. ASSUME NEW m \in Range(q) PROVE m = Head(q) \/ m \in Range(t)
  <2>1. PICK i \in DOMAIN q : m = q[i]
    BY <1>3 DEF Range
  <2>2. CASE i = 1
    BY <1>2, <2>1, <2>2
  <2>3. CASE i # 1
    <3>1. i - 1 \in DOMAIN t /\ t[i - 1] = q[i]
      <4>1. i \in Int /\ i - 1 \in 1..Len(q) - 1 /\ (i - 1) + 1 = i
        BY <1>1, <2>1, <2>3
      <4> QED BY <1>1, <4>1
    <3> QED BY <2>1, <3>1 DEF Range
  <2> QED BY <2>2, <2>3
<1> QED BY <1>2, <1>3 DEF t

\* In a session that goes on, a task that has data has some.
LEMMA DataStays ==
  ASSUME IInv, Sessions, Origin, Orderly, [Next]_vars, NEW t \in Tasks, Running(t[1]), Running(t[1])',
         data[t] # None
  PROVE  data'[t] # None
<1>1. /\ Typed /\ data \in [Tasks -> Slots] /\ t[1] \in Streams
      /\ state[t[1]] = "running" /\ state'[t[1]] = "running"
      /\ state \in [Streams -> {"ready", "running", "stopping", "over"}]
  BY DEF IInv, Typed, Tasks, Running
<1>2. CASE data'[t] = data[t]
  BY <1>2
<1>3. ASSUME NEW s \in Streams, Initialize(s) PROVE data'[t] # None
  BY <1>1, <1>3 DEF Initialize
<1>4. ASSUME NEW s \in Streams, Start(s) \/ Leave(s) PROVE data'[t] # None
  <2>1. t[1] # s
    BY <1>1, <1>4 DEF Start, Leave
  <2>2. t # HeadOf(s)
    BY <2>1 DEF HeadOf
  <2>3. \E v : data' = [data EXCEPT ![HeadOf(s)] = v]
    BY <1>4 DEF Start, Leave
  <2> QED BY <1>1, <2>2, <2>3
<1>5. ASSUME NEW s \in Streams,
             HandleBegin(s) \/ HandleLink(s) \/ HandleResize(s) \/ HandleUnlink(s) \/ HandleEnd(s)
      PROVE  data'[t] # None
  <2> DEFINE a == TaskAt(s)
             c == hand[s][1].of
  <2>1. CASE a # t
    <3>1. data' = data \/ \E v : data' = [data EXCEPT ![a] = v]
      BY <1>5 DEF HandleBegin, HandleLink, HandleResize, HandleUnlink, GoBack, HandleEnd
    <3> HIDE DEF a
    <3> QED BY <1>1, <2>1, <3>1
  <2>2. CASE a = t
    <3>1. s = t[1]
      BY <2>2 DEF TaskAt
    <3>2. CASE HandleBegin(s)
      BY <2>2, <3>2 DEF HandleBegin
    <3>3. CASE HandleLink(s) \/ HandleResize(s)
      <4>1. c # None
        <5>1. hand[s][1] \in Range(hand[s]) /\ hand[s][1].type \in {"LINK", "RESIZE"}
          BY <3>3, AtHand DEF HandleLink, HandleResize
        <5> QED BY <5>1 DEF Origin, Rightly
      <4>2. data' = data \/ data' = [data EXCEPT ![a] = c]
        BY <3>3 DEF HandleLink, HandleResize
      <4> HIDE DEF a, c
      <4> QED BY <1>1, <2>2, <4>1, <4>2
    <3>4. CASE HandleUnlink(s)
      <4>1. data' = data \/ (data2[a] # None /\ data' = [data EXCEPT ![a] = data2[a]])
        BY <3>4 DEF HandleUnlink, GoBack
      <4> HIDE DEF a
      <4> QED BY <1>1, <2>2, <4>1
    <3>5. ~HandleEnd(s)
      <4>1. HandleEnd(s) => Has(hand[s], "END")
        BY AtHand DEF HandleEnd
      <4> QED BY <3>1, <4>1 DEF Orderly, Ends
    <3> QED BY <1>5, <3>2, <3>3, <3>4, <3>5
  <2> QED BY <2>1, <2>2
<1>6. CASE Application
  BY <1>2, <1>3, <1>4, <1>6 DEF Application, Link, Unlink, Resize, StopStream, UnlinkLower, Send, Borrow, Post
<1>7. CASE \E s \in Streams : Worker(s)
  <2>1. PICK s \in Streams : Worker(s)
    BY <1>7
  <2>2. CASE HandleBegin(s) \/ HandleLink(s) \/ HandleResize(s) \/ HandleUnlink(s) \/ HandleEnd(s)
    BY <1>5, <2>2
  <2> QED BY <1>2, <1>4, <2>1, <2>2 DEF Worker, Take, Finish, HandleControl, HandOn
<1> QED BY <1>2, <1>6, <1>7 DEF Next

\* Each task has got data by BEGIN, or will.
BeginOf(s, q) == \E m \in Range(q) : m.type = "BEGIN" /\ m.of # None /\ DataOf(m.of) = s
Begun == \A t \in Tasks : Running(t[1]) =>
           \/ data[t] # None
           \/ BeginOf(t[1], inbox[t[1]])
           \/ BeginOf(t[1], hand[t[1]]) /\ at[t[1]] <= t[2]

\* The queue of a stream whose session goes on.
LEMMA QueueStays ==
  ASSUME IInv, Sessions, Orderly, [Next]_vars, NEW r \in Streams, Running(r), Running(r)'
  PROVE  /\ inbox[r] \in Seq(Messages)
         /\ \/ inbox'[r] = inbox[r]
            \/ inbox[r] # <<>> /\ inbox'[r] = Tail(inbox[r]) /\ Take(r)
            \/ \E m \in Messages : IsNew(r, m) /\ inbox'[r] = Append(inbox[r], m)
<1>1. inbox[r] \in Seq(Messages) /\ state \in [Streams -> {"ready", "running", "stopping", "over"}]
  BY DEF IInv, Typed
<1>2. ~Leave(r)
  BY <1>1 DEF Leave, Running
<1>3. ~Finish(r)
  <2>1. SUFFICES ASSUME Finish(r) PROVE FALSE
    OBVIOUS
  <2>2. Head(inbox[r]) \in Range(inbox[r]) /\ Head(inbox[r]) = Stop
    BY <1>1, <2>1, ShortenedQueue DEF Finish
  <2>3. Has(inbox[r], "STOP")
    BY <2>2 DEF Has, Stop, Message
  <2> QED BY <2>3 DEF Orderly, Ends
<1> QED BY <1>1, <1>2, <1>3, QueueNext

LEMMA BegunNext == IInv /\ Sessions /\ Origin /\ Orderly /\ Begun /\ [Next]_vars => Begun'
<1> SUFFICES ASSUME IInv, Sessions, Origin, Orderly, Begun, [Next]_vars,
                    NEW t \in Tasks, Running(t[1])'
             PROVE  \/ data'[t] # None
                    \/ BeginOf(t[1], inbox'[t[1]])
                    \/ BeginOf(t[1], hand'[t[1]]) /\ at'[t[1]] <= t[2]
  BY DEF Begun
<1> DEFINE s == t[1]
<1>1. /\ Typed /\ OneAtHand /\ s \in Streams /\ t = <<s, t[2]>> /\ t[2] \in 0..Modules
      /\ t[2] \in Int /\ 0 <= t[2] /\ t[2] <= Modules /\ at[s] \in Int /\ Modules \in Int
  <2>1. Typed /\ OneAtHand /\ s \in Streams /\ t = <<s, t[2]>> /\ t[2] \in 0..Modules
    BY DEF IInv, Tasks
  <2> QED BY <2>1, NumbersAssumption DEF Typed
<1> HIDE DEF s
<1>2. SUFFICES ASSUME Running(s)'
               PROVE  \/ data'[t] # None
                      \/ BeginOf(s, inbox'[s])
                      \/ BeginOf(s, hand'[s]) /\ at'[s] <= t[2]
  BY DEF s
<1>3. CASE Start(s)
  <2> DEFINE m == Message("BEGIN", NextOf(s))
  <2>1. /\ \E k : Put(s, m, k)
        /\ state[s] = "ready" /\ Make(s)
    BY <1>3 DEF Start
  <2>2. NextOf(s) \in Containers
    BY <1>1, <2>1, MakeType DEF Typed
  <2>3. m \in Messages /\ m.type = "BEGIN" /\ m.of # None /\ DataOf(m.of) = s
    <3>1. m \in Messages
      BY <2>2, Values DEF Slots
    <3> QED BY <2>2, <3>1, StreamsAssumption DEF Message, DataOf, NextOf
  <2> HIDE DEF m
  <2>4. inbox'[s] = Append(inbox[s], m) /\ inbox[s] \in Seq(Messages)
    BY <1>1, <2>1, PutQueues DEF Typed
  <2>5. m \in Range(inbox'[s])
    BY <2>3, <2>4, AppendedQueue
  <2> QED BY <2>3, <2>5 DEF BeginOf
<1>4. CASE Running(s)
  <2>1. CASE data[t] # None
    BY <1>2, <1>4, <2>1, DataStays DEF s
  <2>2. CASE BeginOf(s, inbox[s])
    <3>1. PICK m \in Range(inbox[s]) : m.type = "BEGIN" /\ m.of # None /\ DataOf(m.of) = s
      BY <2>2 DEF BeginOf
    <3>2. CASE m \in Range(inbox'[s])
      BY <3>1, <3>2 DEF BeginOf
    <3>3. CASE inbox[s] # <<>> /\ inbox'[s] = Tail(inbox[s]) /\ Take(s) /\ m \notin Range(inbox'[s])
      <4>1. m = Head(inbox[s])
        <5>1. inbox[s] \in Seq(Messages)
          BY <1>1 DEF Typed
        <5> QED BY <3>3, <5>1, HeadAndTail
      <4>2. hand'[s] = <<m>> /\ at'[s] = 0
        <5>1. hand \in [Streams -> Seq(Messages)] /\ at \in [Streams -> 0..Modules + 1]
          BY <1>1 DEF Typed
        <5> QED BY <1>1, <3>3, <4>1, <5>1 DEF Take
      <4>3. m \in Range(hand'[s])
        BY <4>2 DEF Range
      <4> QED BY <1>1, <3>1, <4>2, <4>3 DEF BeginOf
    <3>4. ASSUME NEW x \in Messages, inbox'[s] = Append(inbox[s], x), inbox[s] \in Seq(Messages)
          PROVE  m \in Range(inbox'[s])
      BY <3>4, AppendedQueue
    <3> QED BY <1>1, <1>2, <1>4, <3>2, <3>3, <3>4, QueueStays
  <2>3. CASE BeginOf(s, hand[s]) /\ at[s] <= t[2] /\ data[t] = None
    <3>1. PICK m \in Range(hand[s]) : m.type = "BEGIN" /\ m.of # None /\ DataOf(m.of) = s
      BY <2>3 DEF BeginOf
    <3>2. hand[s] # <<>> /\ hand[s][1] = m
      <4>1. hand[s] # <<>>
        BY <3>1, EmptyQueue
      <4> QED BY <1>1, <3>1, <4>1, HandQueue
    <3>3. ~Take(s) /\ ~HandOn(s)
      <4>1. ~(at[s] > Modules)
        BY <1>1, <2>3
      <4> QED BY <3>2, <4>1 DEF Take, HandOn
    <3>4. CASE hand'[s] = hand[s] /\ at'[s] = at[s]
      BY <2>3, <3>4
    <3>5. CASE /\ hand'[s] = hand[s] /\ at'[s] = at[s] + 1
               /\ \/ HandleBegin(s) \/ HandleLink(s) \/ HandleResize(s) \/ HandleUnlink(s) \/ HandleEnd(s)
                  \/ HandleControl(s)
      <4>1. HandleBegin(s)
        BY <3>1, <3>2, <3>5 DEF HandleLink, HandleResize, HandleUnlink, HandleEnd, HandleControl, Handles
      <4>2. CASE at[s] = t[2]
        <5>1. TaskAt(s) = t
          BY <1>1, <4>2 DEF TaskAt
        <5>2. data' = [data EXCEPT ![t] = m.of]
          BY <2>3, <3>2, <4>1, <5>1 DEF HandleBegin
        <5>3. data \in [Tasks -> Slots]
          BY <1>1 DEF Typed
        <5> QED BY <3>1, <5>2, <5>3
      <4>3. CASE at[s] # t[2]
        <5>1. at'[s] <= t[2]
          BY <1>1, <2>3, <3>5, <4>3
        <5> QED BY <2>3, <3>5, <5>1
      <4> QED BY <4>2, <4>3
    <3> QED BY <1>1, <3>3, <3>4, <3>5, HandNext
  <2> QED BY <1>4, <2>1, <2>2, <2>3 DEF Begun, s
<1> QED BY <1>1, <1>2, <1>3, <1>4, RunningNext

LEMMA BegunInit == Init => Begun
<1> SUFFICES ASSUME Init, NEW t \in Tasks PROVE ~Running(t[1])
  BY DEF Begun
<1> QED BY DEF Init, Running, Tasks

-----------------------------------------------------------------------------
(* What linked tasks have. *)

\* Each task of the lower stream has got data of the upper stream by LINK, or will, and no
\* UNLINK comes to it after that.
LastIsLink(q) == \E i \in DOMAIN q : /\ q[i].type = "LINK"
                                     /\ \A j \in DOMAIN q : q[j].type = "UNLINK" => j < i
LinkIsOnItsWay == \/ todo # <<>> /\ Head(todo).op = "LINK"
                  \/ Has(inbox[Upper], "LINK")
                  \/ Has(hand[Upper], "LINK")
                  \/ LastIsLink(inbox[Lower])
LinkIsAtHand(t) == Has(hand[Lower], "LINK") /\ at[Lower] <= t[2]
UsesUpper(t) == /\ Has(hand[Lower], "UNLINK") => at[Lower] > t[2]
                /\ data[t] # None /\ DataOf(data[t]) = Upper
Linking(t) == \/ LinkIsOnItsWay
              \/ ~Has(inbox[Lower], "UNLINK") /\ (LinkIsAtHand(t) \/ UsesUpper(t))
BothRun == \A s \in Streams : state[s] = "running"
Linked == upstream /\ resizes = 0 /\ BothRun => \A t \in Tasks : t[1] = Lower => Linking(t)

\* A step in the course of a link.
LinkGoesOn ==
  /\ IInv /\ Sessions /\ Origin /\ Way /\ FirstIsBegin /\ Orderly /\ Begun /\ [Next]_vars
  /\ resizes = 0 /\ upstream /\ upstream'
  /\ \A s \in Streams : state[s] = "running" /\ state'[s] = "running"

\* Other messages come after LINK, ...
LEMMA LastAppended ==
  ASSUME NEW q \in Seq(Messages), NEW m \in Messages, m.type # "UNLINK", LastIsLink(q) \/ m.type = "LINK"
  PROVE  LastIsLink(Append(q, m))
<1> DEFINE a == Append(q, m)
<1>1. /\ Len(q) \in Nat /\ DOMAIN q = 1..Len(q) /\ DOMAIN a = 1..Len(q) + 1
      /\ \A i \in 1..Len(q) : a[i] = q[i]
      /\ a[Len(q) + 1] = m
  BY AppendProperties, LenProperties
<1> HIDE DEF a
<1>2. \A j \in DOMAIN a : a[j].type = "UNLINK" => j \in DOMAIN q /\ q[j].type = "UNLINK"
  <2>1. \A j \in DOMAIN a : j \in DOMAIN q \/ j = Len(q) + 1
    BY <1>1
  <2> QED BY <1>1, <2>1
<1>3. CASE m.type = "LINK"
  <2>1. Len(q) + 1 \in DOMAIN a /\ \A j \in DOMAIN q : j < Len(q) + 1
    BY <1>1
  <2> QED BY <1>1, <1>2, <1>3, <2>1 DEF LastIsLink, a
<1>4. CASE LastIsLink(q)
  <2>1. PICK i \in DOMAIN q : q[i].type = "LINK" /\ \A j \in DOMAIN q : q[j].type = "UNLINK" => j < i
    BY <1>4 DEF LastIsLink
  <2>2. i \in DOMAIN a /\ a[i] = q[i]
    BY <1>1
  <2> QED BY <1>2, <2>1, <2>2 DEF LastIsLink, a
<1> QED BY <1>3, <1>4

\* ... and those before it are taken first.
LEMMA LastTaken ==
  ASSUME NEW q \in Seq(Messages), q # <<>>, LastIsLink(q)
  PROVE  LastIsLink(Tail(q)) \/ (Head(q).type = "LINK" /\ ~Has(Tail(q), "UNLINK"))
<1> DEFINE t == Tail(q)
<1>1. /\ Len(q) \in Nat /\ Len(q) # 0 /\ DOMAIN q = 1..Len(q) /\ DOMAIN t = 1..Len(q) - 1
      /\ \A i \in 1..Len(q) - 1 : t[i] = q[i + 1]
      /\ Head(q) = q[1]
  BY HeadTailProperties, LenProperties, EmptySeq
<1> HIDE DEF t
<1>2. PICK i \in DOMAIN q : q[i].type = "LINK" /\ \A j \in DOMAIN q : q[j].type = "UNLINK" => j < i
  BY DEF LastIsLink
<1>3. \A j \in DOMAIN t : t[j].type = "UNLINK" => j \in Nat \ {0} /\ j + 1 < i
  <2>1. \A j \in DOMAIN t : j \in Nat \ {0} /\ j + 1 \in DOMAIN q /\ t[j] = q[j + 1]
    BY <1>1
  <2> QED BY <1>2, <2>1
<1>4. CASE i = 1
  <2>1. ~Has(t, "UNLINK")
    <3>1. \A j \in Nat \ {0} : ~(j + 1 < 1)
      OBVIOUS
    <3> QED BY <1>3, <1>4, <3>1 DEF Has, Range
  <2> QED BY <1>1, <1>2, <1>4, <2>1 DEF t
<1>5. CASE i # 1
  <2>1. i - 1 \in DOMAIN t /\ t[i - 1] = q[i]
    <3>1. i \in Int /\ i - 1 \in 1..Len(q) - 1 /\ (i - 1) + 1 = i
      BY <1>1, <1>5
    <3> QED BY <1>1, <3>1
  <2>2. \A j \in DOMAIN t : t[j].type = "UNLINK" => j < i - 1
    <3>1. i \in Int /\ \A j \in Nat \ {0} : j + 1 < i => j < i - 1
      BY <1>1
    <3> QED BY <1>3, <3>1
  <2>3. LastIsLink(t)
    BY <1>2, <2>1, <2>2 DEF LastIsLink
  <2> QED BY <2>3 DEF t
<1> QED BY <1>4, <1>5

\* No UNLINK comes to the lower stream in the course of a link.
LEMMA NoUnlink ==
  ASSUME LinkGoesOn, NEW m, IsNew(Lower, m)
  PROVE  m.type # "UNLINK"
<1> SUFFICES ASSUME m.type = "UNLINK" PROVE FALSE
  OBVIOUS
<1>1. /\ IInv /\ Sessions /\ Orderly /\ [Next]_vars /\ upstream /\ Lower \in Streams
      /\ Running(Lower) /\ Running(Lower)'
      /\ \A op, r : Call(op, r).op = op /\ Call(op, r).to = r
  BY Values DEF LinkGoesOn, Running, Call
<1>2. ~(HandleUnlink(Lower) /\ StopsItself(Lower))
  BY <1>1, RunningNext
<1>3. ~Has(inbox[Lower], "STOP") /\ ~Has(hand[Lower], "END")
  BY <1>1 DEF Orderly, Ends
<1>4. m \notin Range(hand[Upper])
  BY <1>1 DEF Orderly, Has
<1>5. Head(todo) # Call("UNLINK", Lower) \/ Call("UNLINK", Lower) \notin Range(todo)
  <2>1. CASE todo = ToStop \/ todo = Tail(ToStop)
    <3>1. Head(todo) = Call("END", Lower) \/ Head(todo) = Call("unlink", Lower)
      BY <2>1, CallsInOrder
    <3>2. Head(todo).op # "UNLINK" /\ Call("UNLINK", Lower).op = "UNLINK"
      BY <3>1 DEF Call
    <3> QED BY <3>2
  <2>2. CASE \A c \in Range(todo) : c.op # "UNLINK"
    BY <1>1, <2>2
  <2> QED BY <1>1, <2>1, <2>2 DEF Orderly
<1> QED BY <1>1, <1>2, <1>3, <1>4, <1>5, EndsNext DEF Ends

\* LINK goes from control() to the head of the upper stream, and from task to task to the lower
\* one, ...
LEMMA LinkGoes ==
  ASSUME LinkGoesOn, todo # <<>> /\ Head(todo).op = "LINK"
  PROVE  LinkIsOnItsWay'
<1>1. Typed /\ Borrowing /\ Origin /\ [Next]_vars /\ state[Upper] # "over" /\ Upper \in Streams
  BY Values DEF LinkGoesOn, IInv
<1>2. Head(todo).to = Upper
  <2>1. Head(todo) \in Range(todo)
    BY <1>1, CallsLeft
  <2> QED BY <2>1 DEF LinkGoesOn, Origin
<1>3. CASE todo' = todo
  BY <1>3 DEF LinkIsOnItsWay
<1>4. CASE Post
  <2> DEFINE c == IF borrowed[1] = None THEN NextOf(Upper) ELSE borrowed[1]
             m == Message("LINK", c)
  <2>1. Put(Upper, m, Referenced(count, c)) /\ borrowed # <<>> /\ (borrowed[1] = None => Make(Upper))
    BY <1>2, <1>4 DEF Post
  <2>2. c \in Slots
    <3>1. borrowed \in Seq(Slots) /\ (borrowed[1] = None => NextOf(Upper) \in Containers)
      BY <1>1, <2>1, MakeType DEF Typed
    <3>2. borrowed[1] \in Slots
      BY <2>1, <3>1, HeadTailProperties
    <3> QED BY <3>1, <3>2 DEF Slots
  <2>3. m \in Messages /\ m.type = "LINK"
    BY <2>2, Values DEF Message
  <2> HIDE DEF m, c
  <2>4. inbox'[Upper] = Append(inbox[Upper], m) /\ inbox[Upper] \in Seq(Messages)
    BY <1>1, <2>1, PutQueues DEF Typed
  <2>5. Has(inbox'[Upper], "LINK")
    BY <2>3, <2>4, AppendedQueue
  <2> QED BY <2>5 DEF LinkIsOnItsWay
<1>5. ~UnlinkLower /\ ~Send
  BY DEF UnlinkLower, Send
<1> QED BY <1>1, <1>3, <1>4, <1>5, CallsNext

\* ... through the queue, ...
LEMMA LinkIsQueued ==
  ASSUME LinkGoesOn, Has(inbox[Upper], "LINK")
  PROVE  LinkIsOnItsWay'
<1>1. IInv /\ Typed /\ Sessions /\ Orderly /\ [Next]_vars /\ Upper \in Streams /\ Running(Upper) /\ Running(Upper)'
  BY Values DEF LinkGoesOn, IInv, Running
<1>2. CASE inbox'[Upper] = inbox[Upper]
  BY <1>2 DEF LinkIsOnItsWay
<1>3. CASE inbox[Upper] # <<>> /\ inbox'[Upper] = Tail(inbox[Upper]) /\ Take(Upper)
  <2>1. Range(inbox[Upper]) = {Head(inbox[Upper])} \cup Range(inbox'[Upper])
    BY <1>1, <1>3, HeadAndTail DEF Typed
  <2>2. hand'[Upper] = <<Head(inbox[Upper])>>
    BY <1>1, <1>3 DEF Take, Typed
  <2>3. Range(hand'[Upper]) = {Head(inbox[Upper])}
    BY <2>2 DEF Range
  <2>4. Has(inbox'[Upper], "LINK") \/ Has(hand'[Upper], "LINK")
    BY <2>1, <2>3 DEF Has
  <2> QED BY <2>4 DEF LinkIsOnItsWay
<1>4. ASSUME NEW m \in Messages, inbox'[Upper] = Append(inbox[Upper], m)
      PROVE  Has(inbox'[Upper], "LINK")
  <2>1. inbox[Upper] \in Seq(Messages)
    BY <1>1 DEF Typed
  <2> QED BY <1>4, <2>1, AppendedQueue
<1> QED BY <1>1, <1>2, <1>3, <1>4, QueueStays DEF LinkIsOnItsWay

\* ... and the tasks of the upper stream.
LEMMA LinkIsHandedOn ==
  ASSUME LinkGoesOn, Has(hand[Upper], "LINK")
  PROVE  LinkIsOnItsWay'
<1>1. /\ IInv /\ Typed /\ OneAtHand /\ [Next]_vars /\ upstream /\ Upper \in Streams /\ Lower \in Streams
      /\ state[Lower] # "over"
  BY Values DEF LinkGoesOn, IInv
<1>2. hand[Upper] # <<>> /\ hand[Upper][1].type = "LINK" /\ hand[Upper][1] \in Messages
  BY <1>1, HandQueue
<1>3. CASE hand'[Upper] = hand[Upper]
  BY <1>3 DEF LinkIsOnItsWay
<1>4. CASE HandOn(Upper)
  <2> DEFINE m == hand[Upper][1]
  <2>1. Put(Lower, m, count)
    BY <1>1, <1>4 DEF HandOn
  <2> HIDE DEF m
  <2>2. inbox'[Lower] = Append(inbox[Lower], m) /\ inbox[Lower] \in Seq(Messages)
    BY <1>1, <2>1, PutQueues DEF Typed
  <2>3. LastIsLink(inbox'[Lower])
    BY <1>2, <2>2, LastAppended DEF m
  <2> QED BY <2>3 DEF LinkIsOnItsWay
<1>5. ~Take(Upper)
  BY <1>2 DEF Take
<1> QED BY <1>1, <1>3, <1>4, <1>5, HandNext

\* At the head of the lower stream, UNLINK is behind it, if there is one.
LEMMA LinkComesDown ==
  ASSUME LinkGoesOn, LastIsLink(inbox[Lower]), NEW t \in Tasks
  PROVE  Linking(t)'
<1>1. /\ IInv /\ Typed /\ Sessions /\ Orderly /\ [Next]_vars /\ Lower \in Streams /\ Running(Lower) /\ Running(Lower)'
  BY Values DEF LinkGoesOn, IInv, Running
<1>2. CASE inbox'[Lower] = inbox[Lower]
  BY <1>2 DEF Linking, LinkIsOnItsWay
<1>3. CASE inbox[Lower] # <<>> /\ inbox'[Lower] = Tail(inbox[Lower]) /\ Take(Lower)
  <2>1. inbox[Lower] \in Seq(Messages)
    BY <1>1 DEF Typed
  <2>2. CASE LastIsLink(inbox'[Lower])
    BY <2>2 DEF Linking, LinkIsOnItsWay
  <2>3. CASE Head(inbox[Lower]).type = "LINK" /\ ~Has(inbox'[Lower], "UNLINK")
    <3>1. hand'[Lower] = <<Head(inbox[Lower])>> /\ at'[Lower] = 0
      BY <1>1, <1>3 DEF Take, Typed
    <3>2. Has(hand'[Lower], "LINK")
      BY <2>3, <3>1 DEF Has, Range
    <3>3. at'[Lower] <= t[2]
      BY <3>1, NumbersAssumption DEF Tasks
    <3> QED BY <2>3, <3>2, <3>3 DEF Linking, LinkIsAtHand
  <2> QED BY <1>3, <2>1, <2>2, <2>3, LastTaken
<1>4. ASSUME NEW m \in Messages, IsNew(Lower, m), inbox'[Lower] = Append(inbox[Lower], m)
      PROVE  LastIsLink(inbox'[Lower])
  <2>1. inbox[Lower] \in Seq(Messages) /\ m.type # "UNLINK"
    BY <1>1, <1>4, NoUnlink DEF Typed
  <2> QED BY <1>4, <2>1, LastAppended
<1> QED BY <1>1, <1>2, <1>3, <1>4, QueueStays DEF Linking, LinkIsOnItsWay

\* No other one follows.
LEMMA NoneIsQueued ==
  ASSUME LinkGoesOn, ~Has(inbox[Lower], "UNLINK")
  PROVE  ~Has(inbox'[Lower], "UNLINK")
<1>1. IInv /\ [Next]_vars /\ Lower \in Streams
  BY Values DEF LinkGoesOn
<1> QED BY <1>1, NoUnlink, HasNext

\* When LINK comes to a task, the task has got data by BEGIN.
LEMMA DataBeforeLink ==
  ASSUME LinkGoesOn, Has(hand[Lower], "LINK"), NEW t \in Tasks, t[1] = Lower
  PROVE  data[t] # None
<1>1. /\ Typed /\ OneAtHand /\ FirstIsBegin /\ Begun /\ Lower \in Streams /\ Running(Lower)
  BY Values DEF LinkGoesOn, IInv, Running
<1>2. hand[Lower] # <<>> /\ ~Has(hand[Lower], "BEGIN")
  BY <1>1, HandQueue
<1>3. ~BeginOf(Lower, hand[Lower])
  BY <1>2 DEF BeginOf, Has
<1>4. ~BeginOf(Lower, inbox[Lower])
  <2>1. ~HasBegin(inbox[Lower])
    BY <1>1, <1>2 DEF FirstIsBegin
  <2>2. \A m : m.type = "BEGIN" /\ m.of # None /\ DataOf(m.of) = Lower => OwnBegin(m)
    BY StreamsAssumption DEF OwnBegin, OfUpper
  <2> QED BY <2>1, <2>2 DEF BeginOf, HasBegin
<1> QED BY <1>1, <1>3, <1>4 DEF Begun

\* At a task of the lower stream, LINK brings it the data of the upper one.
LEMMA LinkComesToTask ==
  ASSUME LinkGoesOn, ~Has(inbox[Lower], "UNLINK"), NEW t \in Tasks, t[1] = Lower, LinkIsAtHand(t)
  PROVE  Linking(t)'
<1>1. /\ IInv /\ Typed /\ OneAtHand /\ Origin /\ [Next]_vars /\ Lower \in Streams /\ Modules \in Int
      /\ t = <<Lower, t[2]>> /\ t[2] \in Int /\ t[2] <= Modules /\ at[Lower] \in Int /\ at[Lower] <= t[2]
      /\ data \in [Tasks -> Slots]
  <2>1. /\ IInv /\ Typed /\ OneAtHand /\ Origin /\ [Next]_vars /\ Lower \in Streams /\ at[Lower] <= t[2]
    BY Values DEF LinkGoesOn, IInv, LinkIsAtHand
  <2>2. at[Lower] \in 0..Modules + 1 /\ data \in [Tasks -> Slots]
    BY <2>1 DEF Typed
  <2>3. t = <<Lower, t[2]>> /\ t[2] \in 0..Modules
    BY DEF Tasks
  <2> QED BY <2>1, <2>2, <2>3, NumbersAssumption
<1>2. /\ Has(hand[Lower], "LINK") /\ hand[Lower] # <<>> /\ hand[Lower][1].type = "LINK"
      /\ ~Has(hand[Lower], "UNLINK") /\ hand[Lower][1] \in Range(hand[Lower])
  <2>1. hand[Lower] # <<>> /\ hand[Lower][1].type = "LINK" /\ Has(hand[Lower], "LINK")
    BY <1>1, HandQueue DEF LinkIsAtHand
  <2> QED BY <1>1, <2>1, HandQueue
<1>3. ~Has(inbox'[Lower], "UNLINK")
  BY NoneIsQueued
<1>4. CASE hand'[Lower] = hand[Lower] /\ at'[Lower] = at[Lower]
  BY <1>1, <1>2, <1>3, <1>4 DEF Linking, LinkIsAtHand
<1>5. CASE hand'[Lower] = hand[Lower] /\ at'[Lower] = at[Lower] + 1 /\ HandleLink(Lower)
  <2>1. CASE at[Lower] = t[2]
    <3> DEFINE c == hand[Lower][1].of
    <3>1. TaskAt(Lower) = t
      BY <1>1, <2>1 DEF TaskAt
    <3>2. c # None /\ DataOf(c) = Upper
      BY <1>1, <1>2 DEF Origin, Rightly, OfUpper
    <3>3. IF Shares(t, c) THEN data' = data ELSE data' = [data EXCEPT ![t] = c]
      BY <1>5, <3>1 DEF HandleLink, HasNothingToSwitch
    <3>4. data[t] # None
      BY <1>2, DataBeforeLink
    <3> HIDE DEF c
    <3>5. data'[t] # None /\ DataOf(data'[t]) = Upper
      BY <1>1, <3>2, <3>3, <3>4 DEF Shares
    <3>6. ~Has(hand'[Lower], "UNLINK")
      BY <1>2, <1>5
    <3> QED BY <1>3, <3>5, <3>6 DEF Linking, UsesUpper
  <2>2. CASE at[Lower] # t[2]
    <3>1. at'[Lower] <= t[2]
      BY <1>1, <1>5, <2>2
    <3> QED BY <1>2, <1>3, <1>5, <3>1 DEF Linking, LinkIsAtHand
  <2> QED BY <2>1, <2>2
<1>6. ~Take(Lower) /\ ~HandOn(Lower)
  <2>1. ~(at[Lower] > Modules)
    BY <1>1
  <2> QED BY <1>2, <2>1 DEF Take, HandOn
<1>7. /\ ~HandleBegin(Lower) /\ ~HandleResize(Lower) /\ ~HandleUnlink(Lower) /\ ~HandleEnd(Lower)
      /\ ~HandleControl(Lower)
  BY <1>2 DEF HandleBegin, HandleResize, HandleUnlink, HandleEnd, HandleControl, Handles
<1> QED BY <1>1, <1>4, <1>5, <1>6, <1>7, HandNext

\* A task that uses the data of the upper stream goes on with it.
LEMMA UpperDataStays ==
  ASSUME LinkGoesOn, NEW t \in Tasks, t[1] = Lower, UsesUpper(t)
  PROVE  data'[t] # None /\ DataOf(data'[t]) = Upper
<1>1. /\ IInv /\ Typed /\ Sessions /\ Origin /\ Orderly /\ Way /\ [Next]_vars /\ data \in [Tasks -> Slots]
      /\ \A s \in Streams : state[s] = "running" /\ state'[s] = "running"
      /\ state \in [Streams -> {"ready", "running", "stopping", "over"}]
      /\ data[t] # None /\ DataOf(data[t]) = Upper
  BY DEF LinkGoesOn, IInv, Typed, UsesUpper
<1>2. CASE data'[t] = data[t]
  BY <1>1, <1>2
<1>3. ASSUME NEW s \in Streams PROVE ~Initialize(s) /\ ~Start(s) /\ ~Leave(s) /\ ~HandleResize(s)
  <2>1. ~Initialize(s) /\ ~Start(s)
    BY <1>1 DEF Initialize, Start
  <2>2. ~Leave(s)
    BY <1>1 DEF Leave
  <2>3. ~HandleResize(s)
    BY <1>1, NoResize DEF LinkGoesOn
  <2> QED BY <2>1, <2>2, <2>3
<1>4. ASSUME NEW s \in Streams, HandleBegin(s) \/ HandleLink(s) \/ HandleUnlink(s) \/ HandleEnd(s)
      PROVE  data'[t] # None /\ DataOf(data'[t]) = Upper
  <2> DEFINE a == TaskAt(s)
             c == hand[s][1].of
  <2>1. CASE a # t
    <3>1. data' = data \/ \E v : data' = [data EXCEPT ![a] = v]
      BY <1>4 DEF HandleBegin, HandleLink, HandleUnlink, GoBack, HandleEnd
    <3> HIDE DEF a
    <3> QED BY <1>1, <2>1, <3>1
  <2>2. CASE a = t
    <3>1. s = Lower /\ at[s] = t[2]
      BY <2>2 DEF TaskAt
    <3>2. CASE HandleBegin(s)
      BY <1>1, <2>2, <3>2 DEF HandleBegin
    <3>3. CASE HandleLink(s)
      <4>1. c # None /\ DataOf(c) = Upper
        <5>1. hand[s][1] \in Range(hand[s]) /\ hand[s][1].type = "LINK"
          BY <1>1, <3>3, AtHand DEF HandleLink
        <5> QED BY <1>1, <5>1 DEF Origin, Rightly, OfUpper
      <4>2. data' = data \/ data' = [data EXCEPT ![a] = c]
        BY <3>3 DEF HandleLink
      <4> HIDE DEF a, c
      <4> QED BY <1>1, <2>2, <4>1, <4>2
    <3>4. ~HandleUnlink(s)
      <4>1. HandleUnlink(s) => Has(hand[s], "UNLINK")
        BY <1>1, AtHand DEF HandleUnlink
      <4>2. ~(at[s] > t[2])
        <5>1. at[s] \in Int
          BY <1>1, NumbersAssumption DEF Typed
        <5> QED BY <3>1, <5>1
      <4> QED BY <3>1, <4>1, <4>2 DEF UsesUpper
    <3>5. ~HandleEnd(s)
      <4>1. HandleEnd(s) => Has(hand[s], "END")
        BY <1>1, AtHand DEF HandleEnd
      <4> QED BY <1>1, <4>1 DEF Orderly, Ends, Running
    <3> QED BY <1>4, <3>2, <3>3, <3>4, <3>5
  <2> QED BY <2>1, <2>2
<1>5. CASE Application
  BY <1>2, <1>3, <1>5 DEF Application, Link, Unlink, Resize, StopStream, UnlinkLower, Send, Borrow, Post
<1>6. CASE \E s \in Streams : Worker(s)
  <2>1. PICK s \in Streams : Worker(s)
    BY <1>6
  <2>2. CASE HandleBegin(s) \/ HandleLink(s) \/ HandleUnlink(s) \/ HandleEnd(s)
    BY <1>4, <2>2
  <2> QED BY <1>2, <1>3, <2>1, <2>2 DEF Worker, Take, Finish, HandleControl, HandOn
<1> QED BY <1>1, <1>2, <1>5, <1>6 DEF Next

\* No UNLINK that is at hand comes to it.
LEMMA UsesUpperNext ==
  ASSUME LinkGoesOn, ~Has(inbox[Lower], "UNLINK"), NEW t \in Tasks, t[1] = Lower, UsesUpper(t)
  PROVE  Linking(t)'
<1>1. /\ IInv /\ Typed /\ OneAtHand /\ [Next]_vars /\ Lower \in Streams
      /\ t[2] \in Int /\ at[Lower] \in Int
  <2>1. IInv /\ Typed /\ OneAtHand /\ [Next]_vars /\ Lower \in Streams
    BY Values DEF LinkGoesOn, IInv
  <2>2. at[Lower] \in 0..Modules + 1 /\ t[2] \in 0..Modules
    BY <2>1 DEF Typed, Tasks
  <2> QED BY <2>1, <2>2, NumbersAssumption
<1>2. ~Has(inbox'[Lower], "UNLINK")
  BY NoneIsQueued
<1>3. Has(hand'[Lower], "UNLINK") => at'[Lower] > t[2]
  <2>1. CASE hand'[Lower] = hand[Lower] /\ at'[Lower] = at[Lower]
    BY <2>1 DEF UsesUpper
  <2>2. CASE inbox[Lower] # <<>> /\ hand'[Lower] = <<Head(inbox[Lower])>>
    <3>1. Head(inbox[Lower]) \in Range(inbox[Lower])
      BY <1>1, <2>2, ShortenedQueue DEF Typed
    <3>2. Range(hand'[Lower]) = {Head(inbox[Lower])}
      BY <2>2 DEF Range
    <3> QED BY <3>1, <3>2 DEF Has
  <2>3. CASE hand'[Lower] = hand[Lower] /\ at'[Lower] = at[Lower] + 1
    <3>1. at[Lower] > t[2] => at'[Lower] > t[2]
      BY <1>1, <2>3
    <3> QED BY <2>3, <3>1 DEF UsesUpper
  <2>4. CASE hand'[Lower] = <<>>
    BY <2>4, EmptyQueue
  <2> QED BY <1>1, <2>1, <2>2, <2>3, <2>4, HandNext
<1>4. data'[t] # None /\ DataOf(data'[t]) = Upper
  BY UpperDataStays
<1> QED BY <1>2, <1>3, <1>4 DEF Linking, UsesUpper

LEMMA LinkedNext ==
  IInv /\ Sessions /\ Origin /\ Way /\ FirstIsBegin /\ Orderly /\ Begun /\ Linked /\ [Next]_vars => Linked'
<1> SUFFICES ASSUME IInv, Sessions, Origin, Way, FirstIsBegin, Orderly, Begun, Linked, [Next]_vars,
                    upstream', resizes' = 0, \A s \in Streams : state'[s] = "running",
                    NEW t \in Tasks, t[1] = Lower
             PROVE  Linking(t)'
  BY DEF Linked, BothRun
<1>1. CASE Link
  <2>1. todo' = <<Call("LINK", Upper)>>
    BY <1>1 DEF Link
  <2>2. todo' # <<>> /\ Head(todo').op = "LINK"
    BY <2>1 DEF Call
  <2> QED BY <2>2 DEF Linking, LinkIsOnItsWay
<1>2. CASE ~Link
  <2>1. upstream
    BY <1>2 DEF Next, Application, Initialize, Start, Unlink, Resize, StopStream, UnlinkLower, Send,
                Borrow, Post, Worker, Take, Finish, Leave, HandleBegin, HandleLink, HandleResize,
                HandleUnlink, HandleEnd, HandleControl, HandOn
  <2>2. resizes = 0
    <3>1. resizes \in Nat /\ resizes' >= resizes /\ resizes' = 0
      BY CallsGrow
    <3> QED BY <3>1
  <2>3. ASSUME NEW s \in Streams PROVE state[s] = "running"
    <3>1. Running(s)'
      BY DEF Running
    <3>2. ~Start(s)
      BY <2>1 DEF Start, Sessions
    <3> QED BY <3>1, <3>2, RunningNext DEF Running
  <2>4. LinkGoesOn
    BY <2>1, <2>2, <2>3 DEF LinkGoesOn
  <2>5. Linking(t)
    BY <2>1, <2>2, <2>3 DEF Linked, BothRun
  <2>6. LinkIsOnItsWay' => Linking(t)'
    BY DEF Linking
  <2> QED BY <2>4, <2>5, <2>6, LinkGoes, LinkIsQueued, LinkIsHandedOn, LinkComesDown, LinkComesToTask,
             UsesUpperNext DEF Linking, LinkIsOnItsWay
<1> QED BY <1>1, <1>2

LEMMA LinkedInit == Init => Linked
BY DEF Init, Linked

-----------------------------------------------------------------------------
(* The theorems. *)

LInv == /\ IInv /\ Sessions /\ Origin /\ Way /\ FirstIsBegin /\ KeptBelow /\ Exact /\ ReadyHasNone /\ HeadHolds
        /\ Orderly /\ Begun /\ Linked

LEMMA LInvInit == Init => LInv
<1>1. Init => KeptBelow
  BY DEF Init, KeptBelow
<1> QED BY <1>1, InvariantInit, SessionsInit, OriginInit, WayInit, FirstInit, ExactInit, ReadyInit, HeadInit,
              OrderlyInit, BegunInit, LinkedInit DEF LInv

LEMMA LInvNext == LInv /\ [Next]_vars => LInv'
<1> SUFFICES ASSUME LInv, [Next]_vars PROVE LInv'
  OBVIOUS
<1>1. /\ IInv /\ Sessions /\ Origin /\ Way /\ FirstIsBegin /\ KeptBelow /\ Exact /\ ReadyHasNone /\ HeadHolds
      /\ Orderly /\ Begun /\ Linked
  BY DEF LInv
<1>2. IInv' /\ Sessions'
  BY <1>1, InvariantNext, SessionsNext DEF IInv
<1>3. Origin' /\ Way' /\ FirstIsBegin' /\ KeptBelow' /\ Exact' /\ ReadyHasNone' /\ HeadHolds'
  BY <1>1, OriginNext, WayNext, FirstNext, BelowNext, ExactNext, ReadyNext, HeadNext
<1>4. Orderly' /\ Begun' /\ Linked'
  BY <1>1, OrderlyNext, BegunNext, LinkedNext
<1> QED BY <1>2, <1>3, <1>4 DEF LInv

\* The invariant of the sessions holds in every state of every behaviour.
THEOREM SessionsInvariant == Spec => []LInv
BY LInvInit, LInvNext, PTL DEF Spec

\* increase() and decrease() are called as often for every container as somebody takes or gives
\* up a reference: none is released that somebody has, and, while there are few calls to link
\* and to resize, none is forgotten.
THEOREM CountsAreExact == Spec => []CountIsExact
<1>1. LInv => CountIsExact
  <2> SUFFICES ASSUME LInv PROVE CountIsExact
    OBVIOUS
  <2>1. IInv /\ Exact /\ NotFreedInUse
    BY DEF LInv, IInv
  <2>2. ASSUME Few, NEW c \in Containers PROVE count[c] <= Held(c)
    <3>1. count[c] \in Int /\ Held(c) \in Nat
      BY <2>1, HolderNumbers DEF IInv
    <3>2. count[c] - Held(c) = 0
      BY <2>1, <2>2 DEF Exact, Surplus
    <3> QED BY <3>1, <3>2
  <2> QED BY <2>1, <2>2 DEF CountIsExact, NothingIsForgotten, Few
<1> QED BY <1>1, SessionsInvariant, PTL

\* initialize() leaves no task of the stream with data of an earlier session, so that the next
\* BEGIN brings all of them the same.
THEOREM InitializedHoldsNothing == Spec => []ReadyHoldsNothing
<1>1. LInv => ReadyHoldsNothing
  BY DEF LInv, ReadyHoldsNothing, ReadyHasNone, Sessions
<1> QED BY <1>1, SessionsInvariant, PTL

\* What control() reads of the head without a reference is alive until the session is over or
\* the head has a newer container, unless there was a RESIZE.
THEOREM WhatIsReadIsAlive == Spec => []BorrowedIsAlive
<1>1. LInv => BorrowedIsAlive
  <2> SUFFICES ASSUME LInv, NEW i \in DOMAIN borrowed, borrowed[i] # None, count[borrowed[i]] = 0, ~(resizes > 0)
               PROVE  LET c == borrowed[i]
                      IN  state[c[1]] \in {"ready", "over"} \/ c[2] < made[c[1]]
    BY DEF BorrowedIsAlive
  <2> DEFINE c == borrowed[i]
             h == HeadOf(c[1])
  <2>1. /\ IInv /\ Typed /\ HeadHolds /\ OnlyMade /\ NotFreedInUse
    BY DEF LInv, IInv
  <2>2. resizes = 0
    BY <2>1 DEF Typed
  <2>3. c \in Containers /\ c[1] \in Streams /\ c[2] \in Int /\ c = <<c[1], c[2]>> /\ made[c[1]] \in Int
    <3>1. borrowed \in Seq(Slots)
      BY <2>1 DEF Typed
    <3>2. c \in Containers
      BY <3>1 DEF Slots
    <3> HIDE DEF c
    <3> QED BY <2>1, <3>2, NumbersAssumption DEF Containers, Typed
  <2>4. c[2] <= made[c[1]]
    BY <2>1 DEF OnlyMade, IsMade
  <2>5. SUFFICES ASSUME ~Rests(c[1]), ~(c[2] < made[c[1]]) PROVE FALSE
    BY DEF Rests
  <2>6. c = Newest(c[1])
    <3>1. c[2] = made[c[1]]
      BY <2>3, <2>4, <2>5
    <3> QED BY <2>3, <3>1 DEF Newest
  <2>7. h \in Tasks /\ (data[h] = c \/ data2[h] = c)
    <3>1. h \in Tasks
      BY <2>3, FiniteTasks DEF Streams
    <3> QED BY <2>1, <2>2, <2>3, <2>5, <2>6, <3>1 DEF HeadHolds
  <2>8. count[c] = 0
    OBVIOUS
  <2> HIDE DEF c, h
  <2>9. Held(c) > 0
    <3>1. Having(data, c) > 0 \/ Having(data2, c) > 0
      BY <2>1, <2>3, <2>7, HavingIt DEF Typed
    <3> QED BY <2>1, <2>3, <3>1, HolderNumbers
  <2> QED BY <2>1, <2>3, <2>8, <2>9, HolderNumbers DEF NotFreedInUse
<1> QED BY <1>1, SessionsInvariant, PTL

\* When all messages have arrived, every task of two linked streams has session data, and it is
\* that of the upper stream.
THEOREM LinkedUseTheSame == Spec => []LinkedShareData
<1>1. LInv => LinkedShareData
  <2> SUFFICES ASSUME LInv, Quiet, upstream, resizes = 0, \A s \in Streams : state[s] = "running", NEW t \in Tasks
               PROVE  DataOf(data[t]) = Upper
    BY DEF LinkedShareData
  <2>1. /\ IInv /\ Origin /\ Begun /\ Linked /\ todo = <<>> /\ t[1] \in Streams /\ Upper \in Streams /\ Lower \in Streams
        /\ \A s \in Streams : inbox[s] = <<>> /\ hand[s] = <<>>
    BY Values DEF LInv, Quiet, Idle, Tasks
  <2>2. ASSUME NEW s \in Streams, NEW x PROVE ~Has(inbox[s], x) /\ ~Has(hand[s], x)
    BY <2>1, EmptyQueue
  <2>3. CASE t[1] = Upper
    <3>1. ~BeginOf(Upper, inbox[Upper]) /\ ~BeginOf(Upper, hand[Upper])
      BY <2>1, EmptyQueue DEF BeginOf
    <3>2. data[t] # None
      BY <2>1, <2>3, <3>1 DEF Begun, Running
    <3> QED BY <2>1, <2>3, <3>2 DEF Origin, OfUpper
  <2>4. CASE t[1] = Lower
    <3>1. Linking(t)
      BY <2>1, <2>4 DEF Linked, BothRun
    <3>2. ~LastIsLink(inbox[Lower])
      BY <2>1 DEF LastIsLink
    <3> QED BY <2>1, <2>2, <3>1, <3>2 DEF Linking, LinkIsOnItsWay, LinkIsAtHand, UsesUpper
  <2> QED BY <2>1, <2>3, <2>4 DEF Streams
<1> QED BY <1>1, SessionsInvariant, PTL
=============================================================================
