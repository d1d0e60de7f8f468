---------------------------- MODULE Delay_proofs ----------------------------
(***************************************************************************)
(* Proofs of the safety properties of Delay, and that it implements        *)
(* Channel, for every rate, frame size and length of the messages, and any *)
(* configurations.                                                         *)
(***************************************************************************)
EXTENDS DelayProperties, QueueTheorems

USE DEF vars, tokens, threads, calls, bounds

-----------------------------------------------------------------------------
(* The inductive invariant. *)

\* Until a thread has taken the second queue, no other one serves any; afterwards at
\* most one is still to start, and if so no thread serves the first queue.
Taking ==
  /\ first => \A w \in Workers : pc[w] \in {"gone", "start"}
  /\ ~first => \E w \in Workers : pc[w] # "start"
  /\ ~first /\ (\E w \in Workers : pc[w] = "start")
       => \A w \in Workers : pc[w] \notin AtInbound

\* The threads run from BEGIN until END or ABORT is passed on.
Session ==
  /\ session = "ready" /\ handling # "begin" => first /\ ThreadsAreGone /\ sessions < MaxSessions
  /\ session = "over" => ThreadsAreGone
  /\ source = "pass" /\ handling \in {"abort", "end"} => ThreadsAreGone
  /\ handling = "begin" => source = "pass" /\ session = "ready"
  /\ source \in {"flush", "flush2"} => handling \in {"resize", "control", "abort"}
  /\ source \in {"stop", "wait"} => handling \in {"abort", "end"}

\* A thread that serves the first queue, or is about to, has a timer to cancel.
HasTimer == \A w \in Workers : pc[w] \in {"start"} \cup AtInbound => timers > 0

\* A thread that is to pass something on has it.
Holds == \A w \in Workers :
           pc[w] \in {"dispatch", "asleep", "check", "send", "put"} => hand[w] # <<>>

\* The tokens that are left and what they were spent on add up to the average; the
\* rest of a frame goes only with the last of them.
Budget == ~config.catchUp => \/ available + spent <= Average
                             \/ available = 0 /\ spent < Average + Frame

IInv == Taking /\ OneThreadPerQueue /\ Session /\ HasTimer /\ Holds /\ Budget

-----------------------------------------------------------------------------
(* Operators. *)

\* What n tokens are worth is a whole number of frames, and it is more than n only
\* if n is less than a frame.
LEMMA WholeFrames ==
  ASSUME NEW n \in Nat \ {0}, block \in {0, Frame}
  PROVE  /\ Aligned(n) \in Nat \ {0}
         /\ Aligned(n) <= n \/ (n < Frame /\ Aligned(n) = Frame)
<1>1. Frame \in Nat \ {0}
  BY NumbersAssumption
<1>2. ASSUME NEW b \in Nat \ {0}, b <= n PROVE (n \div b) * b \in 1..n
  BY <1>2
<1> QED BY <1>1, <1>2 DEF Aligned

\* Splitting a piece leaves pieces, and the first of them is as long as was asked for,
\* or as the piece.
LEMMA SplitPieces ==
  ASSUME NEW piece \in Pieces, NEW n \in Nat \ {0}
  PROVE  /\ Split(piece, n) \in Seq(Pieces) /\ Split(piece, n) # <<>>
         /\ Split(piece, n)[1].len = Least(piece.len, n)
<1>1. CASE n < piece.len
  <2>1. Piece(piece.msg, n) \in Pieces /\ Piece(piece.msg, piece.len - n) \in Pieces
    BY <1>1 DEF Piece, Pieces
  <2>2. Split(piece, n) = <<Piece(piece.msg, n), Piece(piece.msg, piece.len - n)>>
    BY <1>1 DEF Split
  <2>3. Split(piece, n)[1].len = n
    BY <2>2 DEF Piece
  <2> QED BY <1>1, <2>1, <2>2, <2>3 DEF Least, Pieces
<1>2. CASE ~(n < piece.len)
  <2>1. Split(piece, n) = <<piece>>
    BY <1>2 DEF Split
  <2> QED BY <1>2, <2>1 DEF Least, Pieces
<1> QED BY <1>1, <1>2

Items == Pieces \cup {Stop}

\* What the operations on a queue return.
LEMMA QueueOperations ==
  ASSUME NEW q \in Seq(Items)
  PROVE  /\ \A m \in Items : Append(q, m) \in Seq(Items) /\ <<m>> \o q \in Seq(Items)
         /\ Flushed(q) \in Seq(Items)
         /\ q # <<>> => Head(q) \in Items /\ Tail(q) \in Seq(Items)
<1>1. \A m \in Items : Append(q, m) \in Seq(Items)
  BY AppendProperties
<1>2. \A m \in Items : <<m>> \o q \in Seq(Items)
  BY RangePrepend
<1>3. Flushed(q) \in Seq(Items)
  BY WithoutType DEF Flushed
<1>4. q # <<>> => Head(q) \in Items /\ Tail(q) \in Seq(Items)
  BY HeadTailProperties
<1> QED BY <1>1, <1>2, <1>3, <1>4

-----------------------------------------------------------------------------
(* Types. *)

\* The module is constructed well typed, ...
LEMMA TypeInit == Init => TypeOK
<1> SUFFICES ASSUME Init PROVE TypeOK
  OBVIOUS
<1>1. <<>> \in Seq(Pieces \cup {Stop}) /\ <<>> \in Seq(Pieces)
  BY EmptySeq
<1>2. config.mode \in {"invalid", "bytes", "messages"} /\ 0 \in 0..config.faults
  BY ConfigurationsAssumption DEF Init, Configuration
<1>3. pc \in [Workers -> Places] /\ hand \in [Workers -> Seq(Pieces)]
  BY <1>1 DEF Init, Places, AtInbound, AtOutbound
<1>4. 0 \in 0..MaxMessages /\ 0 \in 0..MaxSessions /\ 0 \in 0..MaxResizes
  BY BoundsAssumption
<1>5. queue = <<>> /\ queue2 = <<>> /\ faults = 0 /\ mode = config.mode
  BY DEF Init
<1> QED BY <1>1, <1>2, <1>3, <1>4, <1>5 DEF Init, TypeOK, Steps

\* ... the source keeps the types, ...
LEMMA TypeSource == TypeOK /\ IInv /\ Source => TypeOK'
<1> SUFFICES ASSUME TypeOK, IInv, Source PROVE TypeOK'
  OBVIOUS
<1> USE BoundsAssumption, NumbersAssumption DEF TypeOK, Places, Steps, AtInbound, AtOutbound
<1>0. config \in Configuration
  BY ConfigurationsAssumption
<1>1. /\ \A m \in Items : Append(queue, m) \in Seq(Items) /\ <<m>> \o queue \in Seq(Items)
      /\ Flushed(queue) \in Seq(Items) /\ Flushed(queue2) \in Seq(Items)
      /\ Stop \in Items /\ Items = Pieces \cup {Stop}
  BY QueueOperations DEF Items
<1>2. CASE Initialize
  BY <1>2 DEF Initialize
<1>3. CASE Begin
  <2>1. sessions < MaxSessions
    BY <1>3 DEF Begin, IInv, Session
  <2> QED BY <1>3, <2>1 DEF Begin, SetBlock
<1>4. CASE BeginFails
  <2>1. sessions < MaxSessions
    BY <1>4 DEF BeginFails, IInv, Session
  <2> QED BY <1>0, <1>4, <2>1 DEF BeginFails, SetBlock, Configuration
<1>5. CASE BeginAsserts
  BY <1>5 DEF BeginAsserts
<1>6. CASE Data
  <2>1. PICK n \in Lengths : queue' = Append(queue, Piece(accepted', n))
    BY <1>6 DEF Data
  <2>2. Piece(accepted', n) \in Items
    BY <1>6 DEF Data, Piece, Pieces, Items
  <2> QED BY <1>1, <1>6, <2>1, <2>2 DEF Data
<1>7. CASE Resize
  BY <1>7 DEF Resize
<1>8. CASE ControlAbort
  BY <1>8 DEF ControlAbort
<1>9. CASE Abort
  BY <1>9 DEF Abort
<1>10. CASE End
  BY <1>10 DEF End
<1>11. CASE FlushQueue
  BY <1>1, <1>11 DEF FlushQueue
<1>12. CASE FlushQueue2
  BY <1>1, <1>12 DEF FlushQueue2
<1>13. CASE StopInbound
  <2>1. queue' \in Seq(Items)
    BY <1>1, <1>13 DEF StopInbound
  <2> QED BY <1>1, <1>13, <2>1 DEF StopInbound
<1>14. CASE Wait
  BY <1>14 DEF Wait
<1>15. CASE Pass
  BY <1>15 DEF Pass
<1> QED BY <1>2, <1>3, <1>4, <1>5, <1>6, <1>7, <1>8, <1>9, <1>10, <1>11, <1>12, <1>13, <1>14,
           <1>15 DEF Source

\* What taking tokens does to them, and to the piece at hand.
LEMMA Taken ==
  ASSUME TypeOK, Holds, NEW w \in Workers, TakeTokens(w)
  PROVE  /\ available' \in Nat /\ spent' \in Nat
         /\ hand' \in [Workers -> Seq(Pieces)] /\ hand'[w] # <<>>
         /\ \A v \in Workers \ {w} : hand'[v] = hand[v]
         /\ \/ available' + spent' <= available + spent
            \/ available' = 0 /\ spent' < available + spent + Frame
<1>1. hand[w] \in Seq(Pieces) /\ hand[w] # <<>> /\ available \in Nat \ {0} /\ spent \in Nat
      /\ block \in {0, Frame} /\ Frame \in Nat \ {0}
  BY NumbersAssumption DEF TakeTokens, HasTokens, Holds, TypeOK
<1> DEFINE piece == Head(hand[w])
           taken == IF mode = "bytes" THEN Least(piece.len, available) ELSE 1
           pieces == IF mode = "bytes" THEN Split(piece, Aligned(taken)) ELSE <<piece>>
<1>2. /\ available' = available - taken
      /\ spent' = spent + IF mode = "bytes" THEN pieces[1].len ELSE 1
      /\ hand' = [hand EXCEPT ![w] = pieces]
  BY DEF TakeTokens
<1>3. piece \in Pieces
  BY <1>1, HeadTailProperties
<1> HIDE DEF piece
<1>4. piece.len \in Nat \ {0}
  BY <1>3 DEF Pieces
<1>5. taken \in 1..available
  BY <1>1, <1>4 DEF Least
<1>6. CASE mode = "bytes"
  <2>1. /\ Aligned(taken) \in Nat \ {0}
        /\ Aligned(taken) <= taken \/ (taken < Frame /\ Aligned(taken) = Frame)
    BY <1>1, <1>5, WholeFrames
  <2>2. /\ pieces \in Seq(Pieces) /\ pieces # <<>>
        /\ pieces[1].len = Least(piece.len, Aligned(taken))
    BY <1>3, <1>6, <2>1, SplitPieces
  <2>3. pieces[1].len \in Nat /\ (pieces[1].len <= taken
                                  \/ (taken = available /\ pieces[1].len <= Frame))
    BY <1>1, <1>4, <1>6, <2>1, <2>2 DEF Least
  <2>4. taken = Least(piece.len, available)
    BY <1>6
  <2>5. hand' \in [Workers -> Seq(Pieces)] /\ hand'[w] # <<>>
        /\ \A v \in Workers \ {w} : hand'[v] = hand[v]
    BY <1>2, <2>2 DEF TypeOK
  <2>6. spent' = spent + pieces[1].len
    BY <1>2, <1>6
  <2> HIDE DEF taken, pieces
  <2> QED BY <1>1, <1>2, <1>5, <2>3, <2>5, <2>6
<1>7. CASE mode # "bytes"
  <2>1. pieces = <<piece>> /\ taken = 1
    BY <1>7
  <2>2. hand' \in [Workers -> Seq(Pieces)] /\ hand'[w] # <<>>
        /\ \A v \in Workers \ {w} : hand'[v] = hand[v]
    <3>1. <<piece>> \in Seq(Pieces) /\ <<piece>> # <<>>
      BY <1>3
    <3>2. hand' = [hand EXCEPT ![w] = <<piece>>]
      BY <1>2, <2>1
    <3> QED BY <3>1, <3>2 DEF TypeOK
  <2>3. available' = available - 1 /\ spent' = spent + 1
    BY <1>2, <1>7
  <2> QED BY <1>1, <2>2, <2>3
<1> QED BY <1>6, <1>7

\* ... and so do the threads and the timer.
LEMMA TypeServe ==
  ASSUME TypeOK, IInv, NEW w \in Workers, Serve(w)
  PROVE  TypeOK'
<1> USE DEF TypeOK, Places, AtInbound, AtOutbound, Go
<1>0. config \in Configuration
  BY ConfigurationsAssumption
<1>1. /\ queue # <<>> => Head(queue) \in Items /\ Tail(queue) \in Seq(Items)
      /\ queue2 # <<>> => Head(queue2) \in Items /\ Tail(queue2) \in Seq(Items)
      /\ \A m \in Items : Append(queue2, m) \in Seq(Items) /\ <<m>> \o queue2 \in Seq(Items)
      /\ Stop \in Items /\ Items = Pieces \cup {Stop}
  BY QueueOperations DEF Items
<1>2. \A v \in Workers : hand[v] # <<>> => /\ Head(hand[v]) \in Pieces
                                           /\ Tail(hand[v]) \in Seq(Pieces)
  BY HeadTailProperties
<1>3. <<>> \in Seq(Pieces)
  BY EmptySeq
<1>4. CASE Start(w)
  <2>1. pc' \in [Workers -> Places] /\ first' = FALSE
    BY <1>4 DEF Start, NotFirst
  <2> QED BY <1>4, <2>1 DEF Start
<1>5. CASE Dequeue(w)
  <2>1. CASE IsData(Head(queue))
    <3>1. <<Head(queue)>> \in Seq(Pieces) /\ Tail(queue) \in Seq(Items)
      BY <1>1, <1>5, <2>1 DEF Dequeue, IsData
    <3>2. hand' \in [Workers -> Seq(Pieces)] /\ pc' \in [Workers -> Places]
      BY <1>5, <2>1, <3>1 DEF Dequeue
    <3> QED BY <1>1, <1>5, <3>1, <3>2 DEF Dequeue
  <2>2. CASE ~IsData(Head(queue))
    <3>1. pc' \in [Workers -> Places] /\ UNCHANGED hand
      BY <1>5, <2>2 DEF Dequeue
    <3> QED BY <1>1, <1>5, <3>1 DEF Dequeue
  <2> QED BY <2>1, <2>2
<1>6. CASE Sleep(w)
  BY <1>6 DEF Sleep
<1>7. CASE TakeTokens(w)
  <2>1. /\ available' \in Nat /\ spent' \in Nat
        /\ hand' \in [Workers -> Seq(Pieces)]
    BY <1>7, Taken DEF IInv
  <2> QED BY <1>7, <2>1 DEF TakeTokens
<1>8. CASE Check(w)
  <2>1. hand' \in [Workers -> Seq(Pieces)] /\ pc' \in [Workers -> Places]
    BY <1>3, <1>8 DEF Check
  <2> QED BY <1>8, <2>1 DEF Check
<1>9. CASE Send(w)
  <2>1. hand[w] # <<>>
    BY <1>9 DEF Send, IInv, Holds
  <2>2. queue2' \in Seq(Items) /\ hand' \in [Workers -> Seq(Pieces)]
    BY <1>1, <1>2, <1>9, <2>1 DEF Send
  <2> QED BY <1>1, <1>9, <2>2 DEF Send
<1>10. CASE Leave(w)
  <2>1. queue2' \in Seq(Items)
    BY <1>1, <1>10 DEF Leave, StopLast
  <2> QED BY <1>1, <1>10, <2>1 DEF Leave
<1>11. CASE Join(w)
  <2>1. timers > 0
    BY <1>11 DEF Join, IInv, HasTimer
  <2> QED BY <1>11, <2>1 DEF Join
<1>12. CASE Dequeue2(w)
  <2>1. CASE IsData(Head(queue2))
    <3>1. <<Head(queue2)>> \in Seq(Pieces) /\ Tail(queue2) \in Seq(Items)
      BY <1>1, <1>12, <2>1 DEF Dequeue2, IsData
    <3>2. hand' \in [Workers -> Seq(Pieces)] /\ pc' \in [Workers -> Places]
      BY <1>12, <2>1, <3>1 DEF Dequeue2
    <3> QED BY <1>1, <1>12, <3>1, <3>2 DEF Dequeue2
  <2>2. CASE ~IsData(Head(queue2))
    <3>1. pc' \in [Workers -> Places] /\ UNCHANGED hand
      BY <1>12, <2>2 DEF Dequeue2
    <3> QED BY <1>1, <1>12, <3>1 DEF Dequeue2
  <2> QED BY <2>1, <2>2
<1>13. CASE PutNext(w)
  BY <1>3, <1>13 DEF PutNext
<1>14. CASE PutNextFails(w)
  BY <1>0, <1>3, <1>14 DEF PutNextFails, Configuration
<1> QED BY <1>4, <1>5, <1>6, <1>7, <1>8, <1>9, <1>10, <1>11, <1>12, <1>13, <1>14 DEF Serve

LEMMA TypeStep == TypeOK /\ IInv /\ [Next]_vars => TypeOK'
<1> SUFFICES ASSUME TypeOK, IInv, [Next]_vars PROVE TypeOK'
  OBVIOUS
<1>1. CASE Reset
  <2>1. available' \in Nat
    BY <1>1, NumbersAssumption DEF Reset, TypeOK
  <2>2. pc' \in [Workers -> Places]
    BY <1>1 DEF Reset, Wake, TypeOK, Places, AtInbound
  <2> QED BY <1>1, <2>1, <2>2 DEF Reset, TypeOK
<1>2. CASE UNCHANGED vars
  BY <1>2 DEF TypeOK
<1> QED BY <1>1, <1>2, TypeSource, TypeServe DEF Next

-----------------------------------------------------------------------------
(* The threads. *)

\* What depends on where the threads are only.
Threading == Taking /\ OneThreadPerQueue /\ HasTimer

\* The source starts threads only when none is left, ...
LEMMA ThreadingSource == TypeOK /\ IInv /\ Source => Threading'
<1> SUFFICES ASSUME TypeOK, IInv, Source PROVE Threading'
  OBVIOUS
<1> USE DEF IInv, Taking, OneThreadPerQueue, HasTimer, Inbound, Outbound, AtInbound, AtOutbound
<1>1. CASE Initialize
  <2>1. ThreadsAreGone
    BY <1>1 DEF Initialize, Session
  <2> QED BY <1>1, <2>1 DEF Initialize, ThreadsAreGone, Gone, Threading
<1>2. CASE Begin
  <2>1. first /\ pc' = [w \in Workers |-> "start"] /\ timers' > 0 /\ first' = first
    BY <1>2 DEF Begin, Session, TypeOK
  <2> QED BY <2>1 DEF Threading
<1>3. CASE BeginFails
  <2>1. UNCHANGED <<first, pc>> /\ (timers > 0 => timers' > 0)
    BY <1>3 DEF BeginFails, TypeOK
  <2> QED BY <2>1 DEF Threading
<1>4. CASE ~Initialize /\ ~Begin /\ ~BeginFails
  <2>1. UNCHANGED <<first, pc, timers>>
    BY <1>4 DEF Source, BeginAsserts, Data, Resize, ControlAbort, Abort, End, FlushQueue,
                FlushQueue2, StopInbound, Wait, Pass
  <2> QED BY <2>1 DEF Threading
<1> QED BY <1>1, <1>2, <1>3, <1>4

\* ... the first to start takes the second queue, the other one the first queue, ...
LEMMA ThreadingServe ==
  ASSUME TypeOK, IInv, NEW w \in Workers, Serve(w)
  PROVE  Threading'
<1> USE DEF IInv, Taking, OneThreadPerQueue, HasTimer, Inbound, Outbound, AtInbound, AtOutbound, Go, TypeOK
<1>1. CASE Start(w)
  <2>1. pc' = [pc EXCEPT ![w] = IF first THEN "outbound" ELSE "inbound"]
        /\ first' = FALSE /\ pc[w] = "start" /\ timers' = timers
    BY <1>1 DEF Start, NotFirst
  <2>2. \A v \in Workers \ {w} : pc'[v] = pc[v] /\ pc[v] \notin AtInbound
                                 /\ (first \/ pc[v] # "start")
                                 /\ (first => pc[v] \notin AtOutbound)
    BY <2>1 DEF Workers
  <2>3. pc'[w] = IF first THEN "outbound" ELSE "inbound"
    BY <2>1
  <2>4. timers > 0
    BY <2>1
  <2> QED BY <2>1, <2>2, <2>3, <2>4 DEF Threading
<1>2. CASE Join(w)
  <2>1. pc' = [pc EXCEPT ![w] = "gone"] /\ pc[w] = "join" /\ first' = first /\ ~first
    BY <1>2 DEF Join
  <2>2. \A v \in Workers \ {w} : /\ pc'[v] = pc[v] /\ pc[v] # "start" /\ pc[v] \notin AtInbound
    BY <2>1
  <2>3. pc'[w] = "gone"
    BY <2>1
  <2> QED BY <2>1, <2>2, <2>3 DEF Threading
<1>3. CASE ~Start(w) /\ ~Join(w)
  <2>1. PICK place \in Places :
          /\ pc' = [pc EXCEPT ![w] = place] /\ first' = first /\ timers' = timers
          /\ \/ pc[w] \in AtInbound /\ place \in AtInbound
             \/ pc[w] \in AtOutbound /\ place \in AtOutbound \cup {"gone"}
    BY <1>3 DEF Serve, Dequeue, Sleep, TakeTokens, Check, Send, Leave, Dequeue2, PutNext,
                PutNextFails, Places
  <2>2. /\ pc'[w] = place /\ \A v \in Workers \ {w} : pc'[v] = pc[v]
        /\ ~first /\ place # "start"
    BY <2>1
  <2> QED BY <2>1, <2>2 DEF Threading
<1> QED BY <1>1, <1>2, <1>3

\* ... and the timer only wakes a thread.
LEMMA ThreadingStep == TypeOK /\ IInv /\ [Next]_vars => Threading'
<1> SUFFICES ASSUME TypeOK, IInv, [Next]_vars PROVE Threading'
  OBVIOUS
<1> USE DEF IInv, Taking, OneThreadPerQueue, HasTimer, Inbound, Outbound, AtInbound, AtOutbound
<1>1. CASE Reset
  <2>1. /\ UNCHANGED <<first, timers>>
        /\ \A w \in Workers : \/ pc'[w] = pc[w]
                              \/ pc[w] = "asleep" /\ pc'[w] = "dispatch"
    BY <1>1 DEF Reset, Wake, TypeOK
  <2> QED BY <2>1 DEF Threading
<1>2. CASE UNCHANGED vars
  BY <1>2 DEF Threading
<1> QED BY <1>1, <1>2, ThreadingSource, ThreadingServe DEF Next

\* A thread has a piece at hand from the step that takes it to the one that passes it on.
LEMMA HoldsStep == TypeOK /\ IInv /\ [Next]_vars => Holds'
<1> SUFFICES ASSUME TypeOK, IInv, [Next]_vars PROVE Holds'
  OBVIOUS
<1> USE DEF IInv, Holds, Go
<1>0. pc \in [Workers -> Places] /\ hand \in [Workers -> Seq(Pieces)]
  BY DEF TypeOK
<1>1. CASE Source
  <2>1. CASE Begin
    BY <2>1 DEF Begin
  <2>2. CASE ~Begin
    <3>1. UNCHANGED <<pc, hand>>
      BY <1>1, <2>2 DEF Source, Initialize, BeginFails, BeginAsserts, Data, Resize, ControlAbort,
                        Abort, End, FlushQueue, FlushQueue2, StopInbound, Wait, Pass
    <3> QED BY <3>1
  <2> QED BY <2>1, <2>2
<1>2. ASSUME NEW w \in Workers, Serve(w) PROVE Holds'
  <2>1. \A v \in Workers \ {w} : pc'[v] = pc[v] /\ hand'[v] = hand[v]
    BY <1>0, <1>2, Taken DEF Serve, Start, Dequeue, Sleep, TakeTokens, Check, Send, Leave, Join,
                             Dequeue2, PutNext, PutNextFails
  <2>2. ASSUME pc'[w] \in {"dispatch", "asleep", "check", "send", "put"}
        PROVE  hand'[w] # <<>>
    <3>1. CASE TakeTokens(w)
      BY <3>1, Taken
    <3>2. CASE Dequeue(w) \/ Dequeue2(w)
      <4>1. hand'[w] = <<Head(queue)>> \/ hand'[w] = <<Head(queue2)>>
        BY <1>0, <2>2, <3>2 DEF Dequeue, Dequeue2
      <4>2. \A x : <<x>> # <<>>
        OBVIOUS
      <4> QED BY <4>1, <4>2
    <3>3. CASE Send(w)
      BY <1>0, <2>2, <3>3 DEF Send
    <3>4. CASE Sleep(w) \/ Check(w)
      BY <1>0, <2>2, <3>4 DEF Sleep, Check
    <3>5. CASE Start(w) \/ Leave(w) \/ Join(w) \/ PutNext(w) \/ PutNextFails(w)
      BY <1>0, <2>2, <3>5 DEF Start, Leave, Join, PutNext, PutNextFails
    <3> QED BY <1>2, <3>1, <3>2, <3>3, <3>4, <3>5 DEF Serve
  <2> QED BY <2>1, <2>2
<1>3. CASE Reset
  <2>1. /\ UNCHANGED hand
        /\ \A w \in Workers : \/ pc'[w] = pc[w]
                              \/ pc[w] = "asleep" /\ pc'[w] = "dispatch"
    BY <1>0, <1>3 DEF Reset, Wake
  <2>2. ASSUME NEW w \in Workers, pc'[w] \in {"dispatch", "asleep", "check", "send", "put"}
        PROVE  hand'[w] # <<>>
    <3>1. pc[w] \in {"dispatch", "asleep", "check", "send", "put"}
      BY <2>1, <2>2
    <3> QED BY <2>1, <3>1
  <2> QED BY <2>2
<1>4. CASE UNCHANGED vars
  BY <1>4
<1> QED BY <1>1, <1>2, <1>3, <1>4 DEF Next

-----------------------------------------------------------------------------
(* The session. *)

\* A thread that is gone stays so until BEGIN.
LEMMA GoneStays ==
  ASSUME TypeOK, ThreadsAreGone, [Next]_vars, ~Begin
  PROVE  ThreadsAreGone'
<1> USE DEF ThreadsAreGone, Gone
<1>1. CASE Source
  BY <1>1 DEF Source, Initialize, BeginFails, BeginAsserts, Data, Resize, ControlAbort,
              Abort, End, FlushQueue, FlushQueue2, StopInbound, Wait, Pass
<1>2. ASSUME NEW w \in Workers, Serve(w) PROVE FALSE
  BY <1>2 DEF Serve, Start, Dequeue, Sleep, TakeTokens, Check, Send, Leave, Join, Dequeue2,
              PutNext, PutNextFails
<1>3. CASE Reset
  BY <1>3 DEF Reset, Wake, TypeOK
<1>4. CASE UNCHANGED vars
  BY <1>4
<1> QED BY <1>1, <1>2, <1>3, <1>4 DEF Next

\* Messages of the session are passed on when the threads are where they have to be.
LEMMA SessionStep == TypeOK /\ IInv /\ [Next]_vars => Session'
<1> SUFFICES ASSUME TypeOK, IInv, [Next]_vars PROVE Session'
  OBVIOUS
<1> USE DEF IInv, Session
<1>1. CASE Initialize
  <2>1. ThreadsAreGone'
    BY <1>1, GoneStays DEF Initialize, Begin
  <2> QED BY <1>1, <2>1 DEF Initialize
<1>2. CASE Begin \/ BeginFails
  BY <1>2 DEF Begin, BeginFails
<1>3. CASE Source /\ ~Initialize /\ ~Begin /\ ~BeginFails
  <2>1. ThreadsAreGone => ThreadsAreGone'
    BY <1>3, GoneStays
  <2>2. UNCHANGED <<first, sessions>>
    BY <1>3 DEF Source, BeginAsserts, Data, Resize, ControlAbort, Abort, End, FlushQueue,
                FlushQueue2, StopInbound, Wait, Pass
  <2>3. CASE BeginAsserts \/ Data \/ Resize \/ ControlAbort \/ Abort \/ End
    BY <2>1, <2>2, <2>3 DEF BeginAsserts, Data, Resize, ControlAbort, Abort, End
  <2>4. CASE FlushQueue \/ FlushQueue2 \/ StopInbound
    BY <2>1, <2>2, <2>4 DEF FlushQueue, FlushQueue2, StopInbound
  <2>5. CASE Wait \/ Pass
    BY <2>1, <2>2, <2>5 DEF Wait, Pass
  <2> QED BY <1>3, <2>3, <2>4, <2>5 DEF Source
<1>4. CASE UNCHANGED <<calls, sessions>> /\ ~Source
  <2>1. ThreadsAreGone => ThreadsAreGone' /\ UNCHANGED first
    <3>1. ASSUME ThreadsAreGone PROVE ThreadsAreGone'
      BY <1>4, <3>1, GoneStays DEF Source
    <3>2. ASSUME ThreadsAreGone, NEW w \in Workers, Start(w) PROVE FALSE
      BY <3>2 DEF Start, ThreadsAreGone, Gone
    <3>3. (\A w \in Workers : ~Start(w)) => UNCHANGED first
      BY <1>4 DEF Next, Serve, Dequeue, Sleep, TakeTokens, Check, Send, Leave, Join, Dequeue2,
                  PutNext, PutNextFails, Reset
    <3> QED BY <3>1, <3>2, <3>3
  <2> QED BY <1>4, <2>1
<1>5. ~Source => UNCHANGED <<calls, sessions>>
  BY DEF Next, Serve, Start, Dequeue, Sleep, TakeTokens, Check, Send, Leave, Join, Dequeue2,
         PutNext, PutNextFails, Reset
<1> QED BY <1>1, <1>2, <1>3, <1>4, <1>5

-----------------------------------------------------------------------------
(* The tokens. *)

\* Tokens are spent by TakeTokens and granted by Begin and the timer; to be initialized
\* again takes what is left.
LEMMA BudgetStep == TypeOK /\ IInv /\ [Next]_vars => Budget'
<1> SUFFICES ASSUME TypeOK, IInv, [Next]_vars PROVE Budget'
  OBVIOUS
<1> USE NumbersAssumption DEF IInv, Budget, TypeOK
<1>1. ASSUME NEW w \in Workers, TakeTokens(w) PROVE Budget'
  <2>1. /\ available' \in Nat /\ spent' \in Nat /\ UNCHANGED config /\ available > 0
        /\ \/ available' + spent' <= available + spent
           \/ available' = 0 /\ spent' < available + spent + Frame
    BY <1>1, Taken DEF TakeTokens, HasTokens
  <2>2. \A a, b, c, d, f, g \in Nat : a + b <= f /\ (c + d <= a + b \/ (c = 0 /\ d < a + b + g))
                                     => c + d <= f \/ (c = 0 /\ d < f + g)
    OBVIOUS
  <2>3. available + spent <= Average \/ config.catchUp
    BY <2>1
  <2> QED BY <2>1, <2>2, <2>3
<1>2. CASE Initialize
  BY <1>2 DEF Initialize
<1>3. CASE Begin \/ BeginFails
  BY <1>3 DEF Begin, BeginFails
<1>4. CASE Reset
  BY <1>4 DEF Reset
<1>5. CASE UNCHANGED <<config, available, spent>>
  BY <1>5
<1>6. \/ \E w \in Workers : TakeTokens(w)
      \/ Initialize \/ Begin \/ BeginFails \/ Reset \/ UNCHANGED <<config, available, spent>>
  BY DEF Next, Source, BeginAsserts, Data, Resize, ControlAbort, Abort, End, FlushQueue,
         FlushQueue2, StopInbound, Wait, Pass, Serve, Start, Dequeue, Sleep, Check, Send, Leave,
         Join, Dequeue2, PutNext, PutNextFails
<1> QED BY <1>1, <1>2, <1>3, <1>4, <1>5, <1>6

-----------------------------------------------------------------------------
(* The theorems. *)

LEMMA InvariantInit == Init => IInv
BY NumbersAssumption, BoundsAssumption
DEF Init, IInv, Taking, OneThreadPerQueue, Inbound, Outbound, Session, ThreadsAreGone, Gone,
    HasTimer, Holds, Budget, AtInbound, AtOutbound

\* In every reachable state the module is well typed and the invariant holds.
THEOREM Invariance == Spec => [](TypeOK /\ IInv)
<1>1. Init => TypeOK /\ IInv
  BY TypeInit, InvariantInit
<1>2. TypeOK /\ IInv /\ [Next]_vars => (TypeOK /\ IInv)'
  BY TypeStep, ThreadingStep, SessionStep, HoldsStep, BudgetStep DEF Threading, IInv
<1> QED BY <1>1, <1>2, PTL DEF Spec

\* The queues hold data and MB_STOP only, and no counter falls below zero: neither the
\* tokens, whatever the frame size, nor the number of timers to cancel.
THEOREM TypeCorrect == Spec => []TypeOK
<1>1. TypeOK /\ IInv => TypeOK
  OBVIOUS
<1> QED BY <1>1, Invariance, PTL

\* svc() of two threads never dispatches from the same queue.
THEOREM ThreadsAreApart == Spec => []OneThreadPerQueue
<1>1. TypeOK /\ IInv => OneThreadPerQueue
  BY DEF IInv
<1> QED BY <1>1, Invariance, PTL

\* dispatch() passes on no more than the average and the rest of one frame from one tick
\* of the timer to the next, however messages are split.
THEOREM PaceIsKept == Spec => []Paced
<1>1. TypeOK /\ IInv => Paced
  BY NumbersAssumption DEF IInv, Budget, Paced, TypeOK
<1> QED BY <1>1, Invariance, PTL

-----------------------------------------------------------------------------
(* The end of a session. *)

\* MB_STOP is the last item of a queue, behind data.
Marked(q) == \E p \in Seq(Pieces) : q = Append(p, Stop)

\* The way of MB_STOP through the module: it is still to come; it is in the first queue;
\* the thread that took it has left the loop; it is in the second queue; the other
\* thread has taken it as well.
Unstopped == {"start", "inbound", "dispatch", "asleep", "check", "send"} \cup AtOutbound
HasLeft(w) == \/ pc[w] = "join" /\ timers = 1
              \/ pc[w] = "gone" /\ timers = 0
Serving == queue2 \in Seq(Pieces) /\ timers = 1 /\ \A w \in Workers : pc[w] \in Unstopped
ToCome == queue \in Seq(Pieces) /\ Serving
InFirst == Marked(queue) /\ Serving
Taken1 == /\ queue = <<>> /\ queue2 \in Seq(Pieces) /\ timers = 1
          /\ \E v, w \in Workers : v # w /\ pc[w] = "leave" /\ pc[v] \in AtOutbound
InSecond == /\ queue = <<>> /\ Marked(queue2)
            /\ \E v, w \in Workers : v # w /\ HasLeft(w) /\ pc[v] \in AtOutbound
Taken2 == /\ queue = <<>> /\ queue2 = <<>>
          /\ \E v, w \in Workers : v # w /\ HasLeft(w) /\ Gone(v)
Drained == queue = <<>> /\ queue2 = <<>> /\ timers = 0

\* No session has begun, or END or ABORT goes downstream, or went.
Over == \/ session = "over"
        \/ session = "ready" /\ handling # "begin"
        \/ source = "pass" /\ handling \in {"abort", "end"}

Draining ==
  /\ aborting => session = "running" /\ handling \notin {"abort", "end"}
  /\ handling \notin {"none", "begin"} => session = "running"
  /\ handling = "abort" /\ source \in {"flush2", "stop"} => queue = <<>>
  /\ Over => Drained
  /\ source = "wait" => InFirst \/ Taken1 \/ InSecond \/ Taken2
  /\ ~Over /\ source # "wait" => ToCome

\* Queues of data, and with MB_STOP at their end.
LEMMA DataQueues ==
  /\ Stop \notin Pieces /\ \A x \in Pieces : IsData(x)
  /\ \A q \in Seq(Pieces) : /\ q # <<>> => Head(q) \in Pieces /\ Tail(q) \in Seq(Pieces)
                            /\ \A x \in Pieces : Append(q, x) \in Seq(Pieces)
                            /\ Marked(Append(q, Stop))
                            /\ Flushed(q) = <<>>
  /\ Marked(<<Stop>> \o <<>>) /\ <<>> \in Seq(Pieces)
<1>1. Stop \notin Pieces /\ \A x \in Pieces : IsData(x)
  BY DEF Stop, Pieces, IsData
<1>2. ASSUME NEW q \in Seq(Pieces)
      PROVE  /\ q # <<>> => Head(q) \in Pieces /\ Tail(q) \in Seq(Pieces)
             /\ \A x \in Pieces : Append(q, x) \in Seq(Pieces)
             /\ Marked(Append(q, Stop))
             /\ Flushed(q) = <<>>
  BY HeadTailProperties, AppendProperties, WithoutAll DEF Marked, Flushed
<1>3. <<>> \in Seq(Pieces)
  BY EmptySeq
<1>4. <<Stop>> \o <<>> = Append(<<>>, Stop)
  OBVIOUS
<1> QED BY <1>1, <1>2, <1>3, <1>4 DEF Marked

LEMMA MarkedTail ==
  ASSUME NEW q, Marked(q)
  PROVE  /\ q # <<>>
         /\ \/ Head(q) = Stop /\ Tail(q) = <<>>
            \/ Head(q) \in Pieces /\ Marked(Tail(q))
<1>1. PICK p \in Seq(Pieces) : q = Append(p, Stop)
  BY DEF Marked
<1>2. p \in Seq(Items) /\ Stop \in Items
  BY DEF Items
<1>3. /\ q # <<>>
      /\ Head(q) = IF p = <<>> THEN Stop ELSE Head(p)
      /\ Tail(q) = IF p = <<>> THEN <<>> ELSE Append(Tail(p), Stop)
  BY <1>1, <1>2, HeadTailAppend, AppendProperties
<1> QED BY <1>1, <1>3, DataQueues

\* While both threads serve their queues, data moves on, and nothing else.
LEMMA ServingServe ==
  ASSUME TypeOK, Holds, config.faults = 0, Serving, NEW w \in Workers, Serve(w),
         ~(Dequeue(w) /\ Head(queue) = Stop)
  PROVE  Serving' /\ (queue' = queue \/ (queue # <<>> /\ queue' = Tail(queue)))
<1>0. /\ pc \in [Workers -> Places] /\ hand \in [Workers -> Seq(Pieces)] /\ faults \in 0..0
      /\ queue2 \in Seq(Pieces) /\ timers = 1 /\ \A v \in Workers : pc[v] \in Unstopped
  BY DEF TypeOK, Serving
<1>1. ASSUME NEW place \in Unstopped, Go(w, place) PROVE \A v \in Workers : pc'[v] \in Unstopped
  BY <1>0, <1>1 DEF Go
<1>2. \A place \in {"start", "inbound", "dispatch", "asleep", "check", "send", "outbound", "put"} :
        place \in Unstopped
  BY DEF Unstopped, AtOutbound
<1>3. pc[w] \notin {"leave", "join", "gone"}
  BY <1>0 DEF Unstopped, AtOutbound
<1>4. CASE Start(w)
  <2>1. Go(w, "outbound") \/ Go(w, "inbound")
    BY <1>4 DEF Start
  <2> QED BY <1>0, <1>1, <1>2, <1>4, <2>1 DEF Start, Serving
<1>5. CASE Dequeue(w)
  <2>1. IsData(Head(queue))
    BY <1>5 DEF IsData
  <2>2. Go(w, "dispatch") /\ UNCHANGED <<queue2, timers>> /\ queue # <<>> /\ queue' = Tail(queue)
    BY <1>5, <2>1 DEF Dequeue
  <2> QED BY <1>0, <1>1, <1>2, <2>2 DEF Serving
<1>6. CASE Sleep(w)
  BY <1>0, <1>1, <1>2, <1>6 DEF Sleep, Serving
<1>7. CASE TakeTokens(w)
  <2>1. Go(w, "check") /\ UNCHANGED <<queue, queue2, timers>>
    BY <1>7 DEF TakeTokens
  <2> QED BY <1>0, <1>1, <1>2, <2>1 DEF Serving
<1>8. CASE Check(w)
  <2>1. Go(w, "inbound") \/ Go(w, "send")
    BY <1>8 DEF Check
  <2> QED BY <1>0, <1>1, <1>2, <1>8, <2>1 DEF Check, Serving
<1>9. CASE Send(w)
  <2>1. Go(w, "inbound") \/ Go(w, "dispatch")
    BY <1>9 DEF Send
  <2>2. Head(hand[w]) \in Pieces
    <3>1. hand[w] # <<>> /\ hand[w] \in Seq(Pieces)
      BY <1>0, <1>9 DEF Send, Holds
    <3> QED BY <3>1, DataQueues
  <2>3. Append(queue2, Head(hand[w])) \in Seq(Pieces)
    BY <1>0, <2>2, DataQueues
  <2>4. UNCHANGED <<queue, timers>> /\ queue2' = Append(queue2, Head(hand[w]))
    BY <1>9 DEF Send
  <2> QED BY <1>0, <1>1, <1>2, <2>1, <2>3, <2>4 DEF Serving
<1>10. CASE Dequeue2(w)
  <2>1. queue2 # <<>> /\ queue2' = Tail(queue2) /\ UNCHANGED <<queue, timers>>
    BY <1>10 DEF Dequeue2
  <2>2. IsData(Head(queue2)) /\ Tail(queue2) \in Seq(Pieces)
    BY <1>0, <2>1, DataQueues
  <2>3. Go(w, "put")
    BY <1>10, <2>2 DEF Dequeue2
  <2> QED BY <1>0, <1>1, <1>2, <2>1, <2>2, <2>3 DEF Serving
<1>11. CASE PutNext(w)
  BY <1>0, <1>1, <1>2, <1>11 DEF PutNext, Serving
<1>12. ~PutNextFails(w) /\ ~Leave(w) /\ ~Join(w)
  BY <1>0, <1>3 DEF PutNextFails, Leave, Join
<1> QED BY <1>4, <1>5, <1>6, <1>7, <1>8, <1>9, <1>10, <1>11, <1>12 DEF Serve

\* The thread that takes MB_STOP from the first queue is not the one that serves the second.
LEMMA StopIsTaken ==
  ASSUME TypeOK, IInv, InFirst, NEW w \in Workers, Dequeue(w), Head(queue) = Stop
  PROVE  Taken1'
<1>1. queue # <<>> /\ Tail(queue) = <<>>
  BY MarkedTail, DataQueues DEF InFirst
<1>2. queue' = <<>> /\ UNCHANGED <<queue2, timers>> /\ Go(w, "leave") /\ pc[w] = "inbound"
  BY <1>1 DEF Dequeue, IsData
<1>3. PICK v \in Workers : v # w
  BY WorkersAssumption DEF Workers
<1>4. pc[v] \in AtOutbound
  <2>1. ~first /\ pc[w] \in AtInbound
    BY <1>2 DEF IInv, Taking, AtInbound
  <2>2. pc[v] # "start" /\ pc[v] \notin AtInbound
    BY <1>2, <1>3, <2>1 DEF IInv, Taking, OneThreadPerQueue, Inbound
  <2>3. pc[v] \in Unstopped
    BY DEF InFirst, Serving
  <2> QED BY <2>2, <2>3 DEF Unstopped, AtInbound
<1>5. pc'[w] = "leave" /\ pc'[v] = pc[v]
  BY <1>2, <1>3 DEF Go, TypeOK
<1>6. queue2' \in Seq(Pieces) /\ timers' = 1
  BY <1>2 DEF InFirst, Serving
<1> QED BY <1>2, <1>3, <1>4, <1>5, <1>6 DEF Taken1

\* It leaves MB_STOP behind what is in the second queue, ...
LEMMA StopIsPassedOn ==
  ASSUME TypeOK, config.faults = 0, config.waits, Taken1, NEW w \in Workers, Serve(w)
  PROVE  Taken1' \/ InSecond'
<1>0. pc \in [Workers -> Places] /\ faults \in 0..0 /\ queue = <<>> /\ queue2 \in Seq(Pieces) /\ timers = 1
  BY DEF TypeOK, Taken1
<1>1. PICK v, x \in Workers : v # x /\ pc[x] = "leave" /\ pc[v] \in AtOutbound
  BY DEF Taken1
<1>2. w = v \/ w = x
  BY <1>1 DEF Workers
<1>3. CASE w = x
  <2>1. Leave(w)
    BY <1>1, <1>3 DEF Serve, Start, Dequeue, Sleep, TakeTokens, Check, Send, Join, Dequeue2, PutNext,
                      PutNextFails
  <2>2. queue2' = Append(queue2, Stop) /\ UNCHANGED <<queue, timers>> /\ Go(w, "join")
    BY <2>1 DEF Leave, StopLast
  <2>3. pc'[x] = "join" /\ pc'[v] = pc[v]
    BY <1>0, <1>1, <1>3, <2>2 DEF Go
  <2>4. Marked(queue2')
    BY <1>0, <2>2, DataQueues
  <2> QED BY <1>0, <1>1, <2>2, <2>3, <2>4 DEF InSecond, HasLeft
<1>4. CASE w = v
  <2>1. Dequeue2(w) \/ PutNext(w)
    BY <1>0, <1>1, <1>4 DEF Serve, Start, Dequeue, Sleep, TakeTokens, Check, Send, Leave, Join,
                            PutNextFails, AtOutbound
  <2>2. /\ queue2' \in Seq(Pieces) /\ UNCHANGED <<queue, timers>>
        /\ \E place \in AtOutbound : Go(w, place)
    <3>1. CASE Dequeue2(w)
      <4>1. queue2 # <<>> /\ queue2' = Tail(queue2) /\ UNCHANGED <<queue, timers>>
        BY <3>1 DEF Dequeue2
      <4>2. IsData(Head(queue2)) /\ Tail(queue2) \in Seq(Pieces)
        BY <1>0, <4>1, DataQueues
      <4>3. Go(w, "put")
        BY <3>1, <4>2 DEF Dequeue2
      <4> QED BY <4>1, <4>2, <4>3 DEF AtOutbound
    <3>2. CASE PutNext(w)
      BY <1>0, <3>2 DEF PutNext, AtOutbound
    <3> QED BY <2>1, <3>1, <3>2
  <2>3. pc'[x] = "leave" /\ pc'[v] \in AtOutbound
    BY <1>0, <1>1, <1>4, <2>2 DEF Go
  <2> QED BY <1>0, <1>1, <2>2, <2>3 DEF Taken1
<1> QED BY <1>2, <1>3, <1>4

\* ... and goes, when it has cancelled the timer, before the other one or after it.
LEMMA LastThreadJoins ==
  ASSUME TypeOK, NEW w \in Workers, HasLeft(w), Serve(w)
  PROVE  HasLeft(w)' /\ UNCHANGED <<queue, queue2>> /\ \A v \in Workers \ {w} : pc'[v] = pc[v]
<1>1. pc \in [Workers -> Places]
  BY DEF TypeOK
<1>2. Join(w) /\ pc[w] = "join" /\ timers = 1
  BY DEF HasLeft, Serve, Start, Dequeue, Sleep, TakeTokens, Check, Send, Leave, Join, Dequeue2, PutNext,
         PutNextFails
<1>3. Go(w, "gone") /\ timers' = 0 /\ UNCHANGED <<queue, queue2>>
  BY <1>2 DEF Join
<1> QED BY <1>1, <1>3 DEF Go, HasLeft

\* The other thread passes on what is left, and leaves on MB_STOP.
LEMMA StopArrives ==
  ASSUME TypeOK, config.faults = 0, InSecond, NEW w \in Workers, Serve(w)
  PROVE  InSecond' \/ Taken2'
<1>0. pc \in [Workers -> Places] /\ faults \in 0..0 /\ queue = <<>> /\ Marked(queue2)
  BY DEF TypeOK, InSecond
<1>1. PICK v, x \in Workers : v # x /\ HasLeft(x) /\ pc[v] \in AtOutbound
  BY DEF InSecond
<1>2. w = v \/ w = x
  BY <1>1 DEF Workers
<1>3. CASE w = x
  <2>1. HasLeft(x)' /\ UNCHANGED <<queue, queue2>> /\ pc'[v] = pc[v]
    BY <1>1, <1>3, LastThreadJoins
  <2> QED BY <1>0, <1>1, <2>1 DEF InSecond, HasLeft, Marked
<1>4. CASE w = v
  <2>1. Dequeue2(w) \/ PutNext(w)
    BY <1>0, <1>1, <1>4 DEF Serve, Start, Dequeue, Sleep, TakeTokens, Check, Send, Leave, Join,
                            PutNextFails, AtOutbound
  <2>2. UNCHANGED <<queue, timers>>
    BY <2>1 DEF Dequeue2, PutNext
  <2>3. CASE Dequeue2(w) /\ Head(queue2) = Stop
    <3>1. queue2' = <<>> /\ Go(w, "gone")
      BY <1>0, <2>3, MarkedTail, DataQueues DEF Dequeue2, IsData
    <3>2. pc'[v] = "gone" /\ pc'[x] = pc[x]
      BY <1>0, <1>1, <1>4, <3>1 DEF Go
    <3>3. HasLeft(x)' /\ Gone(v)'
      BY <1>1, <2>2, <3>2 DEF HasLeft, Gone
    <3> QED BY <1>0, <1>1, <2>2, <3>1, <3>3 DEF Taken2
  <2>4. CASE ~(Dequeue2(w) /\ Head(queue2) = Stop)
    <3>1. Marked(queue2') /\ \E place \in AtOutbound : Go(w, place)
      <4>1. CASE Dequeue2(w)
        <5>1. IsData(Head(queue2)) /\ Marked(Tail(queue2))
          BY <1>0, <2>4, <4>1, MarkedTail, DataQueues
        <5>2. queue2' = Tail(queue2) /\ Go(w, "put")
          BY <4>1, <5>1 DEF Dequeue2
        <5> QED BY <5>1, <5>2 DEF AtOutbound
      <4>2. CASE PutNext(w)
        BY <1>0, <4>2 DEF PutNext, AtOutbound
      <4> QED BY <2>1, <4>1, <4>2
    <3>2. pc'[v] \in AtOutbound /\ pc'[x] = pc[x]
      BY <1>0, <1>1, <1>4, <3>1 DEF Go
    <3>3. HasLeft(x)'
      BY <1>1, <2>2, <3>2 DEF HasLeft
    <3>4. Marked(queue2)'
      BY <3>1 DEF Marked
    <3> QED BY <1>0, <1>1, <2>2, <3>2, <3>3, <3>4 DEF InSecond
  <2> QED BY <2>3, <2>4
<1> QED BY <1>2, <1>3, <1>4

\* When both have gone, MB_STOP has arrived and all queues are empty.
LEMMA GoneIsDrained ==
  ASSUME ThreadsAreGone, InFirst \/ Taken1 \/ InSecond \/ Taken2
  PROVE  Drained
<1>1. \A w \in Workers : pc[w] = "gone"
  BY DEF ThreadsAreGone, Gone
<1>2. ~InFirst /\ ~Taken1 /\ ~InSecond
  BY <1>1 DEF InFirst, Serving, Taken1, InSecond, Unstopped, AtOutbound, Workers
<1>3. Taken2
  BY <1>2
<1> QED BY <1>1, <1>3 DEF Taken2, HasLeft, Drained

\* A thread that runs: no session is over.
LEMMA DrainingServe ==
  ASSUME TypeOK, IInv, Regular, Draining, NEW w \in Workers, Serve(w)
  PROVE  Draining'
<1>0. config.faults = 0 /\ config.waits /\ Holds /\ Session
  BY DEF Regular, IInv
<1>1. UNCHANGED <<calls, sessions>>
  BY DEF Serve, Start, Dequeue, Sleep, TakeTokens, Check, Send, Leave, Join, Dequeue2, PutNext,
         PutNextFails
<1>2. Over' = Over
  BY <1>1 DEF Over
<1>3. ~Over
  <2>1. ~Gone(w)
    BY DEF Serve, Start, Dequeue, Sleep, TakeTokens, Check, Send, Leave, Join, Dequeue2, PutNext,
           PutNextFails, Gone
  <2> QED BY <1>0, <2>1 DEF Session, ThreadsAreGone, Over
<1>4. queue = <<>> => queue' = <<>>
  BY DEF Serve, Start, Dequeue, Sleep, TakeTokens, Check, Send, Leave, Join, Dequeue2, PutNext,
         PutNextFails
<1>5. /\ ~Over' /\ source' = source
      /\ aborting' => session' = "running" /\ handling' \notin {"abort", "end"}
      /\ handling' \notin {"none", "begin"} => session' = "running"
      /\ handling' = "abort" /\ source' \in {"flush2", "stop"} => queue' = <<>>
  BY <1>1, <1>2, <1>3, <1>4 DEF Draining, calls
<1>6. CASE source # "wait"
  <2>1. queue \in Seq(Pieces) /\ Serving
    BY <1>3, <1>6 DEF Draining, ToCome
  <2>2. ~(Dequeue(w) /\ Head(queue) = Stop)
    BY <2>1, DataQueues DEF Dequeue
  <2>3. Serving' /\ (queue' = queue \/ (queue # <<>> /\ queue' = Tail(queue)))
    BY <1>0, <2>1, <2>2, ServingServe
  <2>4. queue' \in Seq(Pieces)
    BY <2>1, <2>3, DataQueues
  <2>5. ToCome'
    BY <2>3, <2>4 DEF ToCome
  <2> QED BY <1>5, <1>6, <2>5 DEF Draining
<1>7. CASE source = "wait"
  <2> SUFFICES InFirst' \/ Taken1' \/ InSecond' \/ Taken2'
    BY <1>5, <1>7 DEF Draining
  <2>1. CASE InFirst
    <3>1. CASE Dequeue(w) /\ Head(queue) = Stop
      BY <2>1, <3>1, StopIsTaken
    <3>2. CASE ~(Dequeue(w) /\ Head(queue) = Stop)
      <4>1. Serving' /\ (queue' = queue \/ (queue # <<>> /\ queue' = Tail(queue)))
        BY <1>0, <2>1, <3>2, ServingServe DEF InFirst
      <4>2. CASE queue' = queue
        BY <2>1, <4>1, <4>2 DEF InFirst, Marked
      <4>3. CASE queue' # queue
        <5>1. Dequeue(w) /\ queue' = Tail(queue)
          BY <4>1, <4>3 DEF Serve, Start, Dequeue, Sleep, TakeTokens, Check, Send, Leave, Join,
                            Dequeue2, PutNext, PutNextFails
        <5>2. Marked(queue')
          BY <2>1, <3>2, <5>1, MarkedTail DEF InFirst
        <5> QED BY <4>1, <5>2 DEF InFirst, Marked
      <4> QED BY <4>2, <4>3
    <3> QED BY <3>1, <3>2
  <2>2. CASE Taken1
    BY <1>0, <2>2, StopIsPassedOn
  <2>3. CASE InSecond
    BY <1>0, <2>3, StopArrives
  <2>4. CASE Taken2
    <3>1. PICK v, x \in Workers : v # x /\ HasLeft(x) /\ Gone(v)
      BY <2>4 DEF Taken2
    <3>2. w # v
      BY <3>1 DEF Serve, Start, Dequeue, Sleep, TakeTokens, Check, Send, Leave, Join, Dequeue2, PutNext,
                  PutNextFails, Gone
    <3>3. w = x
      BY <3>1, <3>2 DEF Workers
    <3>4. HasLeft(x)' /\ UNCHANGED <<queue, queue2>> /\ pc'[v] = pc[v]
      BY <3>1, <3>3, LastThreadJoins
    <3> QED BY <2>4, <3>1, <3>4 DEF Taken2, Gone, HasLeft
  <2> QED BY <1>7, <2>1, <2>2, <2>3, <2>4 DEF Draining
<1> QED BY <1>6, <1>7

\* The timer, as long as it ticks, wakes a thread that has not been stopped.
LEMMA DrainingReset ==
  ASSUME TypeOK, Draining, Reset
  PROVE  Draining'
<1>1. /\ UNCHANGED <<queue, queue2, timers, calls, sessions>>
      /\ \A w \in Workers : \/ pc'[w] = pc[w]
                            \/ pc[w] = "asleep" /\ pc'[w] = "dispatch"
  BY DEF Reset, Wake, TypeOK
<1>2. ASSUME NEW w \in Workers
      PROVE  /\ pc[w] \in Unstopped => pc'[w] \in Unstopped
             /\ pc[w] \in AtOutbound \cup {"leave", "join", "gone"} => pc'[w] = pc[w]
  BY <1>1 DEF Unstopped, AtOutbound
<1>3. /\ Over' = Over /\ Drained' = Drained
      /\ Marked(queue)' = Marked(queue) /\ Marked(queue2)' = Marked(queue2)
  BY <1>1 DEF Over, Drained, Marked
<1>4. Serving => Serving'
  BY <1>1, <1>2 DEF Serving
<1>5. \A w \in Workers : (HasLeft(w) => HasLeft(w)') /\ (Gone(w) => Gone(w)')
  BY <1>1, <1>2 DEF HasLeft, Gone
<1>6. ToCome => ToCome'
  BY <1>1, <1>4 DEF ToCome
<1>7. InFirst => InFirst'
  BY <1>1, <1>3, <1>4 DEF InFirst
<1>8. Taken1 => Taken1'
  BY <1>1, <1>2 DEF Taken1
<1>9. InSecond => InSecond'
  BY <1>1, <1>2, <1>3, <1>5 DEF InSecond
<1>10. Taken2 => Taken2'
  BY <1>1, <1>2, <1>5 DEF Taken2
<1> QED BY <1>1, <1>3, <1>6, <1>7, <1>8, <1>9, <1>10 DEF Draining

\* The source begins a session when the queues are empty, discards data, or adds some, while
\* no MB_STOP is under way, and says that the session is over when the threads have gone.
LEMMA DrainingSource ==
  ASSUME TypeOK, IInv, Regular, Draining, Source
  PROVE  Draining'
<1>0. config.faults = 0 /\ config.waits /\ ~config.lateAbort /\ Session /\ faults \in 0..0
  BY DEF Regular, IInv, TypeOK
<1> DEFINE Rest == Taken1 \/ InSecond \/ Taken2
<1>1. ASSUME UNCHANGED <<queue2, timers, pc>>
      PROVE  /\ Serving' = Serving
             /\ UNCHANGED queue => (ToCome' = ToCome /\ InFirst' = InFirst /\ Rest' = Rest /\ Drained' = Drained)
  <2>1. Serving' = Serving
    BY <1>1 DEF Serving
  <2>2. ASSUME UNCHANGED queue PROVE ToCome' = ToCome /\ InFirst' = InFirst /\ Drained' = Drained
    BY <1>1, <2>1, <2>2 DEF ToCome, InFirst, Marked, Drained
  <2>3. ASSUME UNCHANGED queue PROVE Rest' = Rest
    BY <1>1, <2>3 DEF Taken1, InSecond, Taken2, Marked, HasLeft, Gone
  <2> QED BY <2>1, <2>2, <2>3
<1> HIDE DEF Rest
<1>2. Draining <=>
        /\ aborting => session = "running" /\ handling \notin {"abort", "end"}
        /\ handling \notin {"none", "begin"} => session = "running"
        /\ handling = "abort" /\ source \in {"flush2", "stop"} => queue = <<>>
        /\ Over => Drained
        /\ source = "wait" => InFirst \/ Rest
        /\ ~Over /\ source # "wait" => ToCome
  BY DEF Draining, Rest
<1>3. Draining' <=>
        /\ aborting' => session' = "running" /\ handling' \notin {"abort", "end"}
        /\ handling' \notin {"none", "begin"} => session' = "running"
        /\ handling' = "abort" /\ source' \in {"flush2", "stop"} => queue' = <<>>
        /\ Over' => Drained'
        /\ source' = "wait" => InFirst' \/ Rest'
        /\ ~Over' /\ source' # "wait" => ToCome'
  BY DEF Draining, Rest
<1>4. CASE Initialize
  BY <1>0, <1>1, <1>2, <1>3, <1>4 DEF Initialize, Over, Session
<1>5. CASE Begin
  <2>1. Drained
    BY <1>0, <1>2, <1>5 DEF Begin, Over, Session
  <2>2. /\ UNCHANGED <<queue, queue2, aborting, session>> /\ timers' = 1 /\ session = "ready"
        /\ pc' = [w \in Workers |-> "start"] /\ handling' = "begin" /\ source' = "pass"
    BY <1>5, <2>1 DEF Begin, Drained
  <2>3. ToCome'
    BY <2>1, <2>2, DataQueues DEF ToCome, Serving, Drained, Unstopped
  <2> QED BY <1>2, <1>3, <2>2, <2>3 DEF Over
<1>6. ~BeginFails
  BY <1>0 DEF BeginFails
<1>7. CASE BeginAsserts
  BY <1>0, <1>1, <1>2, <1>3, <1>7 DEF BeginAsserts, Over, Session
<1>8. CASE Data
  <2>1. session = "running" /\ source = "idle" /\ UNCHANGED <<queue2, timers, pc, calls>>
    BY <1>8 DEF Data
  <2>2. queue \in Seq(Pieces) /\ Serving
    BY <1>2, <2>1 DEF Over, ToCome
  <2>3. queue' \in Seq(Pieces)
    <3>1. PICK n \in Lengths : queue' = Append(queue, Piece(accepted', n))
      BY <1>8 DEF Data
    <3>2. Piece(accepted', n) \in Pieces
      BY <1>8, NumbersAssumption DEF Data, Piece, Pieces, TypeOK
    <3> QED BY <2>2, <3>1, <3>2, DataQueues
  <2>4. ToCome'
    BY <1>1, <2>1, <2>2, <2>3 DEF ToCome
  <2> QED BY <1>2, <1>3, <2>1, <2>4 DEF Over
<1>9. CASE Resize \/ ControlAbort \/ Abort \/ End
  <2>1. /\ source = "idle" /\ session = "running" /\ session' = session
        /\ source' \in {"flush", "stop"} /\ handling' \notin {"none", "begin"}
        /\ source' = "stop" => handling' = "end"
        /\ aborting' => handling' \in {"resize", "control"}
        /\ UNCHANGED <<queue, queue2, timers, pc>>
    BY <1>0, <1>2, <1>9 DEF Resize, ControlAbort, Abort, End
  <2>2. ToCome'
    BY <1>1, <1>2, <2>1 DEF Over
  <2> QED BY <1>3, <2>1, <2>2 DEF Over
<1>10. CASE FlushQueue
  <2>1. /\ source = "flush" /\ source' = "flush2" /\ UNCHANGED <<queue2, timers, pc, handling, aborting, session>>
        /\ queue' = Flushed(queue) /\ session = "running"
    BY <1>0, <1>2, <1>10 DEF FlushQueue, Session
  <2>2. queue \in Seq(Pieces) /\ Serving
    BY <1>2, <2>1 DEF Over, ToCome
  <2>3. queue' = <<>>
    BY <2>1, <2>2, DataQueues
  <2>4. ToCome'
    BY <1>1, <2>1, <2>2, <2>3, DataQueues DEF ToCome
  <2> QED BY <1>2, <1>3, <2>1, <2>3, <2>4 DEF Over
<1>11. CASE FlushQueue2
  <2>1. /\ source = "flush2" /\ UNCHANGED <<queue, timers, pc, handling, aborting, session>>
        /\ source' = IF handling = "abort" THEN "stop" ELSE "pass"
        /\ queue2' = Flushed(queue2) /\ session = "running" /\ handling \in {"resize", "control", "abort"}
    BY <1>0, <1>2, <1>11 DEF FlushQueue2, Session
  <2>2. queue \in Seq(Pieces) /\ Serving
    BY <1>2, <2>1 DEF Over, ToCome
  <2>3. queue2' = <<>>
    BY <2>1, <2>2, DataQueues DEF Serving
  <2>4. ToCome'
    BY <2>1, <2>2, <2>3, DataQueues DEF ToCome, Serving
  <2> QED BY <1>2, <1>3, <2>1, <2>4 DEF Over
<1>12. CASE StopInbound
  <2>1. /\ source = "stop" /\ source' = "wait" /\ UNCHANGED <<queue2, timers, pc, handling, aborting, session>>
        /\ queue' = IF handling = "abort" THEN <<Stop>> \o queue ELSE Append(queue, Stop)
        /\ session = "running"
    BY <1>0, <1>2, <1>12 DEF StopInbound, Session
  <2>2. queue \in Seq(Pieces) /\ Serving /\ (handling = "abort" => queue = <<>>)
    BY <1>2, <2>1 DEF Over, ToCome
  <2>3. Marked(queue')
    BY <2>1, <2>2, DataQueues
  <2>4. InFirst'
    BY <1>1, <2>1, <2>2, <2>3 DEF InFirst, Marked
  <2> QED BY <1>2, <1>3, <2>1, <2>4 DEF Over
<1>13. CASE Wait
  <2>1. /\ source = "wait" /\ source' = "pass" /\ ThreadsAreGone
        /\ UNCHANGED <<queue, queue2, timers, pc, handling, aborting, session>>
        /\ handling \in {"abort", "end"}
    BY <1>0, <1>13 DEF Wait, Session
  <2>2. Drained
    BY <2>1, GoneIsDrained DEF Draining
  <2>3. Drained' /\ Over'
    BY <1>1, <2>1, <2>2 DEF Over
  <2> QED BY <1>2, <1>3, <2>1, <2>3
<1>14. CASE Pass
  <2>1. /\ source = "pass" /\ source' = "idle" /\ handling' = "none"
        /\ UNCHANGED <<queue, queue2, timers, pc, aborting>>
        /\ session' = CASE handling = "begin" -> "running"
                        [] handling \in {"abort", "end"} -> "over"
                        [] OTHER -> session
    BY <1>14 DEF Pass
  <2>2. CASE handling = "begin"
    BY <1>0, <1>1, <1>2, <1>3, <2>1, <2>2 DEF Over, Session
  <2>3. CASE handling \in {"abort", "end"}
    <3>1. ~aborting /\ Drained
      BY <1>2, <2>1, <2>3 DEF Over
    <3>2. Drained' /\ Over' /\ session' = "over"
      BY <1>1, <2>1, <2>3, <3>1 DEF Over
    <3> QED BY <1>3, <2>1, <3>1, <3>2
  <2>4. CASE handling \notin {"begin", "abort", "end"}
    BY <1>1, <1>2, <1>3, <2>1, <2>4 DEF Over
  <2> QED BY <2>2, <2>3, <2>4
<1> QED BY <1>4, <1>5, <1>6, <1>7, <1>8, <1>9, <1>10, <1>11, <1>12, <1>13, <1>14 DEF Source

LEMMA DrainingStep == TypeOK /\ IInv /\ (Regular => Draining) /\ [Next]_vars => (Regular => Draining)'
<1> SUFFICES ASSUME TypeOK, IInv, Regular => Draining, [Next]_vars, Regular'
             PROVE  Draining'
  OBVIOUS
<1>1. Regular /\ Draining
  BY DEF Next, Source, Initialize, Begin, BeginFails, BeginAsserts, Data, Resize, ControlAbort, Abort, End,
         FlushQueue, FlushQueue2, StopInbound, Wait, Pass, Serve, Start, Dequeue, Sleep, TakeTokens,
         Check, Send, Leave, Join, Dequeue2, PutNext, PutNextFails, Reset, Regular
<1>2. CASE UNCHANGED vars
  BY <1>1, <1>2 DEF Draining, Over, Drained, ToCome, InFirst, Taken1, InSecond, Taken2, Serving, Marked,
                    HasLeft, Gone
<1> QED BY <1>1, <1>2, DrainingSource, DrainingServe, DrainingReset DEF Next

\* A session that waits for its data, and in which nothing fails, leaves nothing behind: END and
\* ABORT go downstream, by way of two queues and two threads, behind all of its data.
THEOREM NothingRemains == Spec => []NothingIsLeft
<1>1. Init => (Regular => Draining)
  BY DEF Init, Draining, Over, Drained
<1>2. TypeOK /\ IInv /\ (Regular => Draining) => NothingIsLeft
  <2> SUFFICES ASSUME IInv, Draining, session = "over"
               PROVE  Held = <<>> /\ timers = 0 /\ \A w \in Workers : Gone(w)
    BY DEF NothingIsLeft
  <2>1. queue = <<>> /\ queue2 = <<>> /\ timers = 0
    BY DEF Draining, Over, Drained
  <2>2. \A w \in Workers : Gone(w)
    BY DEF IInv, Session, ThreadsAreGone
  <2>3. Outbound = {} /\ Inbound = {}
    BY <2>2 DEF Outbound, Inbound, AtOutbound, AtInbound, Gone
  <2>4. Held = <<>> \o <<>> \o <<>> \o <<>>
    BY <2>1, <2>3, WithoutEmpty DEF Held
  <2> QED BY <2>1, <2>2, <2>4
<1> QED BY <1>1, <1>2, DrainingStep, Invariance, PTL DEF Spec

-----------------------------------------------------------------------------
(* The data that is held back. *)

\* A thread has one piece at hand, or two when it has split a message, or none.
Handy ==
  \A w \in Workers :
    /\ pc[w] \in {"dispatch", "asleep", "put"} => \E p \in Pieces : hand[w] = <<p>>
    /\ pc[w] \in {"check", "send"}
         => \E p \in Pieces : hand[w] = <<p>> \/ \E r \in Pieces : hand[w] = <<p, r>>
    /\ pc[w] \notin {"dispatch", "asleep", "put", "check", "send"} => hand[w] = <<>>

\* The bytes of a piece, of a sequence of pieces, and of the pieces in a queue.
Block(p) == [j \in 1..p.len |-> p.msg]
BytesOf(s) == FlattenSeq([i \in DOMAIN s |-> Block(s[i])])
Payload(q) == BytesOf(Without(q, {Stop}))

\* A piece has as many bytes as it is long.
LEMMA BlockType ==
  ASSUME NEW p \in Pieces
  PROVE  Block(p) \in Seq(Nat) /\ Block(p) # <<>> /\ Len(Block(p)) = p.len
<1>1. p.len \in Nat \ {0} /\ p.msg \in Nat
  BY DEF Pieces
<1>2. Block(p) \in Seq(Nat) /\ Len(Block(p)) = p.len
  BY <1>1 DEF Block
<1> QED BY <1>1, <1>2, EmptySeq

\* The bytes of a split message are those of the message.
LEMMA SplitBytes ==
  ASSUME NEW p \in Pieces, NEW n \in Nat \ {0}, n < p.len
  PROVE  Joined(Block(Piece(p.msg, n)), Block(Piece(p.msg, p.len - n))) = Block(p)
<1> DEFINE q == Piece(p.msg, n)
           r == Piece(p.msg, p.len - n)
<1>1. /\ q \in Pieces /\ r \in Pieces /\ q.len = n /\ r.len = p.len - n
      /\ q.msg = p.msg /\ r.msg = p.msg /\ p.len \in Nat
  BY DEF Piece, Pieces
<1> HIDE DEF q, r
<1>2. /\ Block(p) \in Seq(Nat) /\ Len(Block(p)) = p.len
      /\ Block(q) \in Seq(Nat) /\ Len(Block(q)) = n
      /\ Block(r) \in Seq(Nat) /\ Len(Block(r)) = p.len - n
  BY <1>1, BlockType
<1>3. /\ \A i \in 1..p.len : Block(p)[i] = p.msg
      /\ \A i \in 1..n : Block(q)[i] = p.msg
      /\ \A i \in 1..p.len - n : Block(r)[i] = p.msg
  BY <1>1 DEF Block
<1>4. PICK u, v, w \in Seq(Nat) : u = Block(q) /\ v = Block(r) /\ w = Joined(u, v)
  BY <1>2, JoinedProperties
<1>5. Len(w) = p.len /\ \A i \in 1..p.len : w[i] = IF i <= n THEN u[i] ELSE v[i - n]
  <2>1. Len(u) = n /\ Len(v) = p.len - n /\ n + (p.len - n) = p.len
    BY <1>1, <1>2, <1>4
  <2>2. /\ Len(w) = Len(u) + Len(v)
        /\ \A i \in 1..Len(u) + Len(v) : w[i] = IF i <= Len(u) THEN u[i] ELSE v[i - Len(u)]
    BY <1>4, ConcatProperties DEF Joined
  <2> QED BY <2>1, <2>2
<1>6. ASSUME NEW i \in 1..Len(w) PROVE w[i] = Block(p)[i]
  <2>1. i \in 1..p.len /\ (i <= n => i \in 1..n) /\ (~(i <= n) => i - n \in 1..p.len - n)
    BY <1>1, <1>5
  <2> QED BY <1>3, <1>4, <1>5, <2>1
<1>7. w = Block(p)
  <2>1. Len(w) = Len(Block(p)) /\ Block(p) \in Seq(Nat)
    BY <1>2, <1>5
  <2> QED BY <1>6, <2>1, SeqEqual
<1> QED BY <1>4, <1>7 DEF q, r

\* The bytes of pieces, one after the other.
LEMMA BytesType ==
  ASSUME NEW s \in Seq(Pieces)
  PROVE  BytesOf(s) \in Seq(Nat)
<1> DEFINE b == [i \in DOMAIN s |-> Block(s[i])]
<1>1. Len(s) \in Nat /\ DOMAIN s = 1..Len(s) /\ \A i \in 1..Len(s) : Block(s[i]) \in Seq(Nat)
  BY LenProperties, ElementOfSeq, BlockType
<1>2. b \in Seq(Seq(Nat))
  BY <1>1
<1> HIDE DEF b
<1>3. FlattenSeq(b) \in Seq(Nat)
  BY <1>2, FlattenType
<1> QED BY <1>3 DEF BytesOf, b

\* ... those of a piece that is added stand at the end, ...
LEMMA BytesAppend ==
  ASSUME NEW s \in Seq(Pieces), NEW p \in Pieces
  PROVE  BytesOf(Append(s, p)) = Joined(BytesOf(s), Block(p))
<1> DEFINE t == Append(s, p)
           b == [i \in DOMAIN s |-> Block(s[i])]
           c == [i \in DOMAIN t |-> Block(t[i])]
<1>1. PICK a \in Nat : a = Len(s)
  BY LenProperties
<1>2. t \in Seq(Pieces) /\ Len(t) = a + 1 /\ t[a + 1] = p /\ \A i \in 1..a : t[i] = s[i]
  BY <1>1, AppendProperties
<1> HIDE DEF t
<1>3. DOMAIN s = 1..a /\ DOMAIN t = 1..a + 1
  BY <1>1, <1>2, LenProperties
<1>4. /\ \A i \in 1..a : Block(s[i]) \in Seq(Nat)
      /\ \A i \in 1..a + 1 : Block(t[i]) \in Seq(Nat)
      /\ Block(p) \in Seq(Nat)
  BY <1>1, <1>2, ElementOfSeq, BlockType
<1>5. b \in Seq(Seq(Nat)) /\ Len(b) = a /\ \A i \in 1..a : b[i] = Block(s[i])
  BY <1>3, <1>4
<1>6. c \in Seq(Seq(Nat)) /\ Len(c) = a + 1 /\ \A i \in 1..a + 1 : c[i] = Block(t[i])
  BY <1>3, <1>4
<1>7. c = Append(b, Block(p))
  <2> HIDE DEF b, c
  <2> DEFINE e == Append(b, Block(p))
  <2>1. e \in Seq(Seq(Nat)) /\ Len(e) = a + 1 /\ e[a + 1] = Block(p) /\ \A i \in 1..a : e[i] = b[i]
    BY <1>4, <1>5, AppendProperties
  <2> HIDE DEF e
  <2>2. ASSUME NEW i \in 1..Len(c) PROVE c[i] = e[i]
    <3>1. i \in 1..a + 1
      BY <1>6
    <3>2. CASE i = a + 1
      BY <1>2, <1>6, <2>1, <3>1, <3>2
    <3>3. CASE i # a + 1
      <4>1. i \in 1..a
        BY <3>1, <3>3
      <4> QED BY <1>2, <1>5, <1>6, <2>1, <3>1, <4>1
    <3> QED BY <3>2, <3>3
  <2>3. c = e
    BY <1>6, <2>1, <2>2, SeqEqual
  <2> QED BY <2>3 DEF e
<1> HIDE DEF b, c
<1>8. FlattenSeq(Append(b, Block(p))) = Joined(FlattenSeq(b), Block(p))
  BY <1>4, <1>5, FlattenAppend DEF Joined
<1> QED BY <1>7, <1>8 DEF BytesOf, b, c, t

\* ... and of no piece, one and two they are what one thinks.
LEMMA BytesOfFew ==
  /\ BytesOf(<<>>) = <<>>
  /\ \A p \in Pieces : BytesOf(<<p>>) = Block(p)
  /\ \A p, r \in Pieces : BytesOf(<<p, r>>) = Joined(Block(p), Block(r))
<1>1. BytesOf(<<>>) = <<>>
  <2>1. PICK s \in Seq(Pieces) : s = <<>> /\ DOMAIN s = 1..0
    BY EmptySeq, LenProperties
  <2> DEFINE b == [i \in DOMAIN s |-> Block(s[i])]
  <2>2. b \in Seq(Nat) /\ Len(b) = 0
    BY <2>1
  <2>3. b = <<>>
    <3> HIDE DEF b
    <3> QED BY <2>2, EmptySeq
  <2> QED BY <2>1, <2>3, FlattenEmpty DEF BytesOf
<1>2. ASSUME NEW p \in Pieces PROVE BytesOf(<<p>>) = Block(p)
  <2>1. BytesOf(Append(<<>>, p)) = Joined(<<>>, Block(p))
    BY <1>1, EmptySeq, BytesAppend
  <2>2. Append(<<>>, p) = <<p>>
    OBVIOUS
  <2>3. Joined(<<>>, Block(p)) = Block(p)
    BY BlockType, JoinedProperties
  <2> QED BY <2>1, <2>2, <2>3
<1>3. ASSUME NEW p \in Pieces, NEW r \in Pieces
      PROVE  BytesOf(<<p, r>>) = Joined(Block(p), Block(r))
  <2>1. <<p>> \in Seq(Pieces)
    OBVIOUS
  <2>2. BytesOf(Append(<<p>>, r)) = Joined(Block(p), Block(r))
    BY <1>2, <2>1, BytesAppend
  <2>3. Append(<<p>>, r) = <<p, r>>
    <3> DEFINE s == Append(<<p>>, r)
               t == <<p, r>>
    <3>1. Len(<<p>>) = 1 /\ <<p>>[1] = p
      OBVIOUS
    <3>2. s \in Seq(Pieces) /\ Len(s) = 2 /\ s[1] = p /\ s[2] = r
      BY <2>1, <3>1, AppendProperties
    <3>3. t \in Seq(Pieces) /\ Len(t) = 2 /\ t[1] = p /\ t[2] = r
      OBVIOUS
    <3> HIDE DEF s, t
    <3>4. s = t
      <4>1. \A i \in 1..Len(s) : i = 1 \/ i = 2
        BY <3>2
      <4>2. \A i \in 1..Len(s) : s[i] = t[i]
        BY <3>2, <3>3, <4>1
      <4> QED BY <3>2, <3>3, <4>2, SeqEqual
    <3> QED BY <3>4 DEF s, t
  <2> QED BY <2>2, <2>3
<1> QED BY <1>1, <1>2, <1>3

\* The bytes of two sequences of pieces.
BytesApart(s, t) == BytesOf(s \o t) = Joined(BytesOf(s), BytesOf(t))

\* They stand one after the other: this stays true when a piece is added, ...
LEMMA BytesJoinedStep ==
  ASSUME NEW s \in Seq(Pieces), NEW t \in Seq(Pieces), NEW p \in Pieces
  PROVE  BytesApart(s, t) => BytesApart(s, Append(t, p))
<1> DEFINE y == <<p>>
           u == s \o t
           a == BytesOf(s)
           b == BytesOf(t)
           x == Block(p)
<1>0. \A c, d, e \in Seq(Pieces) : (c \o d) \o e = c \o (d \o e)
  BY ConcatAssociative
<1>1. y \in Seq(Pieces) /\ u \in Seq(Pieces)
  BY ConcatProperties
<1>2. a \in Seq(Nat) /\ b \in Seq(Nat) /\ x \in Seq(Nat)
  BY BytesType, BlockType
<1>3. Append(t, p) = t \o y /\ u = s \o t
  BY AppendIsConcat
<1>4. BytesOf(Append(t, p)) = Joined(b, x)
  BY BytesAppend
<1> HIDE DEF y, u, a, b, x
<1>5. Append(u, p) = u \o y
  BY <1>1, AppendIsConcat DEF y
<1>6. (s \o t) \o y = s \o (t \o y)
  BY <1>0, <1>1
<1>7. s \o Append(t, p) = Append(u, p)
  BY <1>3, <1>5, <1>6
<1>8. BytesOf(Append(u, p)) = Joined(BytesOf(u), x)
  BY <1>1, BytesAppend DEF x
<1>9. Joined(Joined(a, b), x) = Joined(a, Joined(b, x))
  BY <1>2, JoinedProperties
<1>10. a = BytesOf(s) /\ b = BytesOf(t)
  BY DEF a, b
<1>11. BytesOf(u) = Joined(a, b) => BytesOf(Append(u, p)) = Joined(a, BytesOf(Append(t, p)))
  BY <1>4, <1>8, <1>9
<1> QED BY <1>3, <1>7, <1>10, <1>11 DEF BytesApart

\* ... hence of all pieces.
LEMMA BytesJoined ==
  ASSUME NEW s \in Seq(Pieces), NEW r \in Seq(Pieces)
  PROVE  BytesApart(s, r)
<1> DEFINE P == {n \in Nat : \A t \in Seq(Pieces) : Len(t) = n => BytesApart(s, t)}
<1>1. BytesApart(s, <<>>)
  <2>1. s \o <<>> = s
    BY ConcatEmptySeq
  <2>2. Joined(BytesOf(s), <<>>) = BytesOf(s)
    BY BytesType, JoinedProperties
  <2> QED BY <2>1, <2>2, BytesOfFew DEF BytesApart
<1>2. 0 \in P
  BY <1>1, EmptySeq
<1>3. ASSUME NEW n \in 1..Len(r), n - 1 \in P PROVE n \in P
  <2>0. n \in Nat /\ n # 0
    BY LenProperties
  <2> SUFFICES ASSUME NEW t \in Seq(Pieces), Len(t) = n PROVE BytesApart(s, t)
    BY <2>0
  <2>1. PICK u \in Seq(Pieces), p \in Pieces : t = Append(u, p)
    <3>1. t # <<>>
      BY <2>0, EmptySeq
    <3> QED BY <3>1, SequenceEmptyOrAppend
  <2>2. Len(u) = n - 1
    <3>1. Len(u) \in Nat /\ Len(t) = Len(u) + 1
      BY <2>1, LenProperties, AppendProperties
    <3> QED BY <2>0, <3>1
  <2>3. BytesApart(s, u)
    BY <1>3, <2>2
  <2> QED BY <2>1, <2>3, BytesJoinedStep
<1>4. Len(r) \in P
  <2>1. Len(r) \in Nat
    BY LenProperties
  <2>2. 0..Len(r) \subseteq P
    <3> HIDE DEF P
    <3> QED BY <1>2, <1>3, <2>1, UpTo
  <2>3. Len(r) \in 0..Len(r)
    BY <2>1
  <2> HIDE DEF P
  <2> QED BY <2>2, <2>3
<1> QED BY <1>4

-----------------------------------------------------------------------------
(* What the operations on a queue do to the data in it. *)

\* The pieces in a queue.
LEMMA Unmarked ==
  ASSUME NEW q \in Seq(Items)
  PROVE  Without(q, {Stop}) \in Seq(Pieces)
<1>1. Without(q, {Stop}) \in Seq(Items \ {Stop})
  BY WithoutRemoves
<1>2. Items \ {Stop} \subseteq Pieces
  BY DEF Items
<1> QED BY <1>1, <1>2, SeqMonotonic

\* What the operations on a queue do to the bytes in it: one queue behind another, ...
LEMMA PayloadJoined ==
  ASSUME NEW q \in Seq(Items), NEW r \in Seq(Items)
  PROVE  Payload(q \o r) = Joined(Payload(q), Payload(r)) /\ Payload(q) \in Seq(Nat)
<1> DEFINE u == Without(q, {Stop})
           v == Without(r, {Stop})
<1>1. u \in Seq(Pieces) /\ v \in Seq(Pieces)
  BY Unmarked
<1>2. Without(q \o r, {Stop}) = u \o v
  BY WithoutConcat
<1> HIDE DEF u, v
<1>3. BytesOf(u \o v) = Joined(BytesOf(u), BytesOf(v)) /\ BytesOf(u) \in Seq(Nat)
  BY <1>1, BytesJoined, BytesType DEF BytesApart
<1> QED BY <1>2, <1>3 DEF Payload, u, v

\* ... a single message, ...
LEMMA PayloadOfOne ==
  /\ Payload(<<>>) = <<>>
  /\ Payload(<<Stop>>) = <<>>
  /\ \A p \in Pieces : Payload(<<p>>) = Block(p)
<1>1. Payload(<<>>) = <<>>
  BY WithoutEmpty, BytesOfFew DEF Payload
<1>2. Payload(<<Stop>>) = <<>>
  <2>1. Without(<<Stop>>, {Stop}) = <<>>
    BY WithoutOne, Stop \in Items DEF Items
  <2> QED BY <2>1, BytesOfFew DEF Payload
<1>3. ASSUME NEW p \in Pieces PROVE Payload(<<p>>) = Block(p)
  <2>1. p # Stop /\ p \in Items
    BY DEF Pieces, Stop, Items
  <2>2. Without(<<p>>, {Stop}) = <<p>>
    BY <2>1, WithoutOne
  <2> QED BY <2>2, BytesOfFew DEF Payload
<1> QED BY <1>1, <1>2, <1>3

\* ... a message that is added or taken, and a flush.
LEMMA PayloadOperations ==
  ASSUME NEW q \in Seq(Items)
  PROVE  /\ Payload(q) \in Seq(Nat)
         /\ \A p \in Pieces : Payload(Append(q, p)) = Joined(Payload(q), Block(p))
         /\ Payload(Append(q, Stop)) = Payload(q) /\ Payload(<<Stop>> \o q) = Payload(q)
         /\ q # <<>> /\ Head(q) = Stop => Payload(q) = Payload(Tail(q))
         /\ q # <<>> /\ Head(q) # Stop
              => Payload(q) = Joined(Block(Head(q)), Payload(Tail(q)))
         /\ Payload(Flushed(q)) = <<>>
<1>0. Payload(q) \in Seq(Nat)
  BY PayloadJoined
<1>1. ASSUME NEW m \in Items
      PROVE  /\ Payload(Append(q, m)) = Joined(Payload(q), Payload(<<m>>))
             /\ Payload(<<m>> \o q) = Joined(Payload(<<m>>), Payload(q))
  <2>1. <<m>> \in Seq(Items) /\ Append(q, m) = q \o <<m>>
    BY AppendIsConcat
  <2> QED BY <2>1, PayloadJoined
<1>2. Stop \in Items /\ Pieces \subseteq Items
  BY DEF Items
<1>3. \A p \in Pieces : Payload(Append(q, p)) = Joined(Payload(q), Block(p))
  BY <1>1, <1>2, PayloadOfOne
<1>4. Payload(Append(q, Stop)) = Payload(q) /\ Payload(<<Stop>> \o q) = Payload(q)
  BY <1>0, <1>1, <1>2, PayloadOfOne, JoinedProperties
<1>5. ASSUME q # <<>>
      PROVE  /\ Head(q) \in Items
             /\ Payload(q) = Joined(Payload(<<Head(q)>>), Payload(Tail(q)))
             /\ Payload(Tail(q)) \in Seq(Nat)
  <2>1. Head(q) \in Items /\ Tail(q) \in Seq(Items) /\ q = <<Head(q)>> \o Tail(q)
    BY <1>5, HeadTailProperties, HeadAndTail
  <2>2. <<Head(q)>> \in Seq(Items)
    BY <2>1
  <2>3. Payload(<<Head(q)>> \o Tail(q)) = Joined(Payload(<<Head(q)>>), Payload(Tail(q)))
    BY <2>1, <2>2, PayloadJoined
  <2> QED BY <2>1, <2>3, PayloadJoined
<1>6. q # <<>> /\ Head(q) = Stop => Payload(q) = Payload(Tail(q))
  BY <1>5, PayloadOfOne, JoinedProperties
<1>7. q # <<>> /\ Head(q) # Stop => Payload(q) = Joined(Block(Head(q)), Payload(Tail(q)))
  BY <1>5, PayloadOfOne DEF Items
<1>8. Payload(Flushed(q)) = <<>>
  <2>1. Flushed(q) \in Seq(Items \ Pieces)
    BY WithoutRemoves DEF Flushed
  <2>2. Items \ Pieces \subseteq {Stop}
    BY DEF Items
  <2>3. Without(Flushed(q), {Stop}) = <<>>
    BY <2>1, <2>2, WithoutAll
  <2> QED BY <2>3, BytesOfFew DEF Payload
<1> QED BY <1>0, <1>3, <1>4, <1>6, <1>7, <1>8

-----------------------------------------------------------------------------
(* The data that is held back, in a row. *)

\* When a row loses a sequence, it passes its first bytes on, or discards some.
LEMMA RowLoses ==
  ASSUME NEW a \in Seq(Nat), NEW b \in Seq(Nat), NEW c \in Seq(Nat), NEW d \in Seq(Nat)
  PROVE  /\ a # <<>> => OfBytes!PassedOn(Row(a, b, c, d), Row(<<>>, b, c, d))
         /\ b # <<>> => OfBytes!Discarded(Row(a, b, c, d), Row(a, <<>>, c, d))
         /\ c # <<>> => OfBytes!Discarded(Row(a, b, c, d), Row(a, b, <<>>, d))
         /\ d # <<>> => OfBytes!Discarded(Row(a, b, c, d), Row(a, b, c, <<>>))
<1>1. ASSUME NEW s, NEW x \in Seq(Nat), NEW new, x # <<>>, InMidst(s, x, new, Nat)
      PROVE  OfBytes!Discarded(s, new)
  <2>1. PICK l, r \in Seq(Nat) : s = Joined(Joined(l, x), r) /\ new = Joined(l, r)
    BY <1>1 DEF InMidst
  <2>2. BeginsAndEnds(s, l, r)
    BY <1>1, <2>1, JoinedParts
  <2> QED BY <2>1, <2>2 DEF BeginsAndEnds, OfBytes!Discarded, Joined
<1>2. ASSUME NEW s, NEW x \in Seq(Nat), NEW new, x # <<>>, AtFront(s, x, new, Nat)
      PROVE  OfBytes!PassedOn(s, new)
  <2>1. PICK r \in Seq(Nat) : s = Joined(x, r) /\ new = r
    BY <1>2 DEF AtFront
  <2>2. EndsIn(s, r)
    BY <1>2, <2>1, JoinedParts
  <2> QED BY <2>1, <2>2 DEF EndsIn, OfBytes!PassedOn
<1>3. /\ AtFront(Row(a, b, c, d), a, Row(<<>>, b, c, d), Nat)
      /\ InMidst(Row(a, b, c, d), b, Row(a, <<>>, c, d), Nat)
      /\ InMidst(Row(a, b, c, d), c, Row(a, b, <<>>, d), Nat)
      /\ InMidst(Row(a, b, c, d), d, Row(a, b, c, <<>>), Nat)
  BY RowParts
<1>4. a # <<>> => OfBytes!PassedOn(Row(a, b, c, d), Row(<<>>, b, c, d))
  BY <1>2, <1>3
<1>5. b # <<>> => OfBytes!Discarded(Row(a, b, c, d), Row(a, <<>>, c, d))
  BY <1>1, <1>3
<1>6. c # <<>> => OfBytes!Discarded(Row(a, b, c, d), Row(a, b, <<>>, d))
  BY <1>1, <1>3
<1>7. d # <<>> => OfBytes!Discarded(Row(a, b, c, d), Row(a, b, c, <<>>))
  BY <1>1, <1>3
<1> QED BY <1>4, <1>5, <1>6, <1>7

\* What comes in last stands at the end of the row.
LEMMA RowAccepts ==
  ASSUME NEW a \in Seq(Nat), NEW b \in Seq(Nat), NEW c \in Seq(Nat), NEW d \in Seq(Nat),
         NEW x \in Seq(Nat)
  PROVE  Row(a, b, c, Joined(d, x)) = Joined(Row(a, b, c, d), x)
<1>1. PICK s \in Seq(Nat) : s = Joined(Joined(a, b), c)
  <2>1. \A u, v \in Seq(Nat) : Joined(u, v) \in Seq(Nat)
    BY JoinedProperties
  <2> QED BY <2>1
<1>2. Joined(s, Joined(d, x)) = Joined(Joined(s, d), x)
  BY JoinedProperties
<1> QED BY <1>1, <1>2 DEF Row

\* Four sequences of pieces are a row of bytes.
LEMMA RowOfBytes ==
  ASSUME NEW a \in Seq(Pieces), NEW b \in Seq(Pieces), NEW c \in Seq(Pieces), NEW d \in Seq(Pieces)
  PROVE  BytesOf(a \o b \o c \o d) = Row(BytesOf(a), BytesOf(b), BytesOf(c), BytesOf(d))
<1>1. PICK s \in Seq(Pieces) : s = a \o b
  BY ConcatProperties
<1>2. PICK t \in Seq(Pieces) : t = s \o c
  BY ConcatProperties
<1>3. BytesOf(s) = Joined(BytesOf(a), BytesOf(b))
  BY <1>1, BytesJoined DEF BytesApart
<1>4. BytesOf(t) = Joined(BytesOf(s), BytesOf(c))
  BY <1>2, BytesJoined DEF BytesApart
<1>5. BytesOf(t \o d) = Joined(BytesOf(t), BytesOf(d))
  BY BytesJoined DEF BytesApart
<1> QED BY <1>1, <1>2, <1>3, <1>4, <1>5 DEF Row

\* What one of some threads has at hand.
HeldBy(h, ws) == IF ws = {} THEN <<>> ELSE h[CHOOSE w \in ws : TRUE]
OutHand == BytesOf(HeldBy(hand, Outbound))
InHand == BytesOf(HeldBy(hand, Inbound))

\* It is a sequence of pieces, ...
LEMMA HeldByType ==
  ASSUME NEW h \in [Workers -> Seq(Pieces)], NEW ws \in SUBSET Workers
  PROVE  HeldBy(h, ws) \in Seq(Pieces)
<1>1. ws # {} => (CHOOSE w \in ws : TRUE) \in ws
  OBVIOUS
<1> QED BY <1>1, EmptySeq DEF HeldBy

\* ... that of the only thread there is, ...
LEMMA HeldByOne ==
  ASSUME NEW h, NEW ws \in SUBSET Workers, NEW w \in Workers, \A v \in Workers : v # w => v \notin ws
  PROVE  HeldBy(h, ws) = IF w \in ws THEN h[w] ELSE <<>>
<1>1. ws # {} => (CHOOSE v \in ws : TRUE) \in ws
  OBVIOUS
<1> QED BY <1>1 DEF HeldBy

\* ... and the same if none of the threads changes what it has.
LEMMA HeldByOthers ==
  ASSUME NEW h, NEW i, NEW ws \in SUBSET Workers, \A v \in ws : h[v] = i[v]
  PROVE  HeldBy(h, ws) = HeldBy(i, ws)
<1>1. ws # {} => (CHOOSE v \in ws : TRUE) \in ws
  OBVIOUS
<1> QED BY <1>1 DEF HeldBy

\* The bytes that the module holds back are a row of four: what the thread of the second
\* queue has at hand, that queue, what the other thread has at hand, and the first queue; ...
LEMMA BytesAreRow ==
  TypeOK => /\ Bytes = Row(OutHand, Payload(queue2), InHand, Payload(queue))
            /\ OutHand \in Seq(Nat) /\ InHand \in Seq(Nat)
            /\ Payload(queue2) \in Seq(Nat) /\ Payload(queue) \in Seq(Nat)
<1> SUFFICES ASSUME TypeOK
             PROVE  /\ Bytes = Row(OutHand, Payload(queue2), InHand, Payload(queue))
                    /\ OutHand \in Seq(Nat) /\ InHand \in Seq(Nat)
                    /\ Payload(queue2) \in Seq(Nat) /\ Payload(queue) \in Seq(Nat)
  OBVIOUS
<1>1. hand \in [Workers -> Seq(Pieces)] /\ queue \in Seq(Items) /\ queue2 \in Seq(Items)
  BY DEF TypeOK, Items
<1>2. Outbound \in SUBSET Workers /\ Inbound \in SUBSET Workers
  BY DEF Outbound, Inbound
<1>3. /\ HeldBy(hand, Outbound) \in Seq(Pieces) /\ HeldBy(hand, Inbound) \in Seq(Pieces)
      /\ Without(queue2, {Stop}) \in Seq(Pieces) /\ Without(queue, {Stop}) \in Seq(Pieces)
  BY <1>1, <1>2, HeldByType, Unmarked
<1>4. Held = HeldBy(hand, Outbound) \o Without(queue2, {Stop}) \o HeldBy(hand, Inbound)
               \o Without(queue, {Stop})
  BY DEF Held, HeldBy
<1>5. BytesOf(Held) = Row(OutHand, Payload(queue2), InHand, Payload(queue))
  BY <1>3, <1>4, RowOfBytes DEF OutHand, InHand, Payload
<1>6. Bytes = BytesOf(Held)
  BY DEF Bytes, BytesOf, Block
<1> QED BY <1>3, <1>5, <1>6, BytesType DEF OutHand, InHand, Payload

\* ... and so they are after a step.
LEMMA BytesAreRowNext ==
  TypeOK' => /\ Bytes' = Row(OutHand', Payload(queue2'), InHand', Payload(queue'))
             /\ OutHand' \in Seq(Nat) /\ InHand' \in Seq(Nat)
             /\ Payload(queue2') \in Seq(Nat) /\ Payload(queue') \in Seq(Nat)
<1> SUFFICES ASSUME TypeOK'
             PROVE  /\ Bytes' = Row(OutHand', Payload(queue2'), InHand', Payload(queue'))
                    /\ OutHand' \in Seq(Nat) /\ InHand' \in Seq(Nat)
                    /\ Payload(queue2') \in Seq(Nat) /\ Payload(queue') \in Seq(Nat)
  OBVIOUS
<1>1. hand' \in [Workers -> Seq(Pieces)] /\ queue' \in Seq(Items) /\ queue2' \in Seq(Items)
  BY DEF TypeOK, Items
<1>2. Outbound' \in SUBSET Workers /\ Inbound' \in SUBSET Workers
  BY DEF Outbound, Inbound
<1>3. /\ HeldBy(hand', Outbound') \in Seq(Pieces) /\ HeldBy(hand', Inbound') \in Seq(Pieces)
      /\ Without(queue2', {Stop}) \in Seq(Pieces) /\ Without(queue', {Stop}) \in Seq(Pieces)
  BY <1>1, <1>2, HeldByType, Unmarked
<1>4. Held' = HeldBy(hand', Outbound') \o Without(queue2', {Stop}) \o HeldBy(hand', Inbound')
               \o Without(queue', {Stop})
  BY DEF Held, HeldBy
<1>5. BytesOf(Held') = Row(OutHand', Payload(queue2'), InHand', Payload(queue'))
  BY <1>3, <1>4, RowOfBytes DEF OutHand, InHand, Payload
<1>6. Bytes' = BytesOf(Held')
  BY DEF Bytes, BytesOf, Block
<1> QED BY <1>3, <1>5, <1>6, BytesType DEF OutHand, InHand, Payload

-----------------------------------------------------------------------------
(* What a step does to the data that is held back. *)

\* To take tokens is to split the piece at hand.
LEMMA SplitAtHand ==
  ASSUME TypeOK, Handy, NEW w \in Workers, TakeTokens(w)
  PROVE  /\ \E p \in Pieces : hand'[w] = <<p>> \/ \E r \in Pieces : hand'[w] = <<p, r>>
         /\ BytesOf(hand'[w]) = BytesOf(hand[w])
<1>1. PICK p \in Pieces : hand[w] = <<p>>
  BY DEF TakeTokens, Handy
<1> DEFINE piece == Head(hand[w])
           taken == IF mode = "bytes" THEN Least(piece.len, available) ELSE 1
           pieces == IF mode = "bytes" THEN Split(piece, Aligned(taken)) ELSE <<piece>>
<1>2. hand' = [hand EXCEPT ![w] = pieces]
  BY DEF TakeTokens
<1>3. piece = p /\ available \in Nat \ {0} /\ block \in {0, Frame}
  BY <1>1 DEF TakeTokens, HasTokens, TypeOK
<1> HIDE DEF piece
<1>4. hand'[w] = pieces
  <2> HIDE DEF pieces
  <2> QED BY <1>2 DEF TypeOK
<1>5. CASE pieces = <<p>>
  <2> HIDE DEF pieces
  <2> QED BY <1>1, <1>4, <1>5
<1>6. CASE pieces # <<p>>
  <2>1. mode = "bytes" /\ p.len \in Nat \ {0}
    BY <1>3, <1>6 DEF Pieces
  <2>2. taken \in Nat \ {0}
    BY <1>3, <2>1 DEF Least
  <2> HIDE DEF taken
  <2>3. PICK n \in Nat \ {0} : n = Aligned(taken)
    BY <1>3, <2>2, WholeFrames
  <2>4. n < p.len /\ pieces = <<Piece(p.msg, n), Piece(p.msg, p.len - n)>>
    BY <1>3, <1>6, <2>1, <2>3 DEF Split
  <2>5. Piece(p.msg, n) \in Pieces /\ Piece(p.msg, p.len - n) \in Pieces
    BY <2>1, <2>4 DEF Piece, Pieces
  <2>6. BytesOf(pieces) = Block(p)
    <3> HIDE DEF pieces
    <3> QED BY <2>1, <2>4, <2>5, BytesOfFew, SplitBytes
  <2>7. BytesOf(hand[w]) = Block(p)
    BY <1>1, BytesOfFew
  <2> HIDE DEF pieces
  <2> QED BY <1>4, <2>4, <2>5, <2>6, <2>7
<1> QED BY <1>5, <1>6

\* What a thread has at hand, by where it is.
LEMMA HandyServe ==
  ASSUME TypeOK, IInv, Handy, NEW w \in Workers, Serve(w)
  PROVE  Handy'
<1>0. pc \in [Workers -> Places] /\ hand \in [Workers -> Seq(Pieces)]
  BY DEF TypeOK
<1>1. \A v \in Workers \ {w} : pc'[v] = pc[v] /\ hand'[v] = hand[v]
  BY <1>0, Taken DEF IInv, Go, Serve, Start, Dequeue, Sleep, TakeTokens, Check, Send, Leave, Join,
                     Dequeue2, PutNext, PutNextFails
<1> DEFINE One == \E p \in Pieces : hand'[w] = <<p>>
           Few == \E p \in Pieces : hand'[w] = <<p>> \/ \E r \in Pieces : hand'[w] = <<p, r>>
<1>2. SUFFICES /\ pc'[w] \in {"dispatch", "asleep", "put"} => One
               /\ pc'[w] \in {"check", "send"} => Few
               /\ pc'[w] \notin {"dispatch", "asleep", "put", "check", "send"} => hand'[w] = <<>>
  <2> SUFFICES ASSUME /\ pc'[w] \in {"dispatch", "asleep", "put"} => One
                      /\ pc'[w] \in {"check", "send"} => Few
                      /\ pc'[w] \notin {"dispatch", "asleep", "put", "check", "send"} => hand'[w] = <<>>
               PROVE  Handy'
    OBVIOUS
  <2>1. ASSUME NEW v \in Workers
        PROVE  /\ pc'[v] \in {"dispatch", "asleep", "put"} => \E p \in Pieces : hand'[v] = <<p>>
               /\ pc'[v] \in {"check", "send"}
                    => \E p \in Pieces : hand'[v] = <<p>> \/ \E r \in Pieces : hand'[v] = <<p, r>>
               /\ pc'[v] \notin {"dispatch", "asleep", "put", "check", "send"} => hand'[v] = <<>>
    <3>1. CASE v = w
      BY <3>1
    <3>2. CASE v # w
      BY <1>1, <3>2 DEF Handy
    <3> QED BY <3>1, <3>2
  <2> QED BY <2>1 DEF Handy
<1>3. CASE Start(w) \/ Leave(w) \/ Join(w)
  BY <1>0, <1>3 DEF Start, Leave, Join, Go, Handy
<1>4. CASE Dequeue(w)
  <2>1. Head(queue) \in Items
    BY <1>4, QueueOperations DEF Dequeue, TypeOK, Items
  <2>2. CASE IsData(Head(queue))
    <3>1. Head(queue) \in Pieces /\ pc'[w] = "dispatch" /\ hand'[w] = <<Head(queue)>>
      BY <1>0, <1>4, <2>1, <2>2 DEF Dequeue, IsData, Items, Go
    <3> QED BY <3>1
  <2>3. CASE ~IsData(Head(queue))
    BY <1>0, <1>4, <2>3 DEF Dequeue, Go, Handy
  <2> QED BY <2>2, <2>3
<1>5. CASE Dequeue2(w)
  <2>1. Head(queue2) \in Items
    BY <1>5, QueueOperations DEF Dequeue2, TypeOK, Items
  <2>2. CASE IsData(Head(queue2))
    <3>1. Head(queue2) \in Pieces /\ pc'[w] = "put" /\ hand'[w] = <<Head(queue2)>>
      BY <1>0, <1>5, <2>1, <2>2 DEF Dequeue2, IsData, Items, Go
    <3> QED BY <3>1
  <2>3. CASE ~IsData(Head(queue2))
    BY <1>0, <1>5, <2>3 DEF Dequeue2, Go, Handy
  <2> QED BY <2>2, <2>3
<1>6. CASE Sleep(w)
  BY <1>0, <1>6 DEF Sleep, Go, Handy
<1>7. CASE TakeTokens(w)
  <2>1. Few /\ pc'[w] = "check"
    BY <1>0, <1>7, SplitAtHand DEF TakeTokens, Go
  <2> QED BY <2>1
<1>8. CASE Check(w)
  BY <1>0, <1>8 DEF Check, Go, Handy
<1>9. CASE Send(w)
  <2>1. PICK p \in Pieces : hand[w] = <<p>> \/ \E r \in Pieces : hand[w] = <<p, r>>
    BY <1>9 DEF Send, Handy
  <2>2. CASE hand[w] = <<p>>
    <3>1. Tail(hand[w]) = <<>>
      BY <2>2
    <3> QED BY <1>0, <1>9, <3>1 DEF Send, Go
  <2>3. CASE \E r \in Pieces : hand[w] = <<p, r>>
    <3>1. PICK r \in Pieces : hand[w] = <<p, r>>
      BY <2>3
    <3>2. Tail(hand[w]) = <<r>> /\ <<r>> # <<>>
      BY <3>1
    <3>3. hand'[w] = <<r>> /\ pc'[w] = "dispatch"
      BY <1>0, <1>9, <3>2 DEF Send, Go
    <3> QED BY <3>3
  <2> QED BY <2>1, <2>2, <2>3
<1>10. CASE PutNext(w) \/ PutNextFails(w)
  BY <1>0, <1>10 DEF PutNext, PutNextFails, Go
<1> QED BY <1>3, <1>4, <1>5, <1>6, <1>7, <1>8, <1>9, <1>10 DEF Serve

\* Only threads take and give pieces.
LEMMA HandyStep == TypeOK /\ IInv /\ Handy /\ [Next]_vars => Handy'
<1> SUFFICES ASSUME TypeOK, IInv, Handy, [Next]_vars PROVE Handy'
  OBVIOUS
<1>0. pc \in [Workers -> Places]
  BY DEF TypeOK
<1>1. CASE Begin
  <2>1. \A w \in Workers : hand'[w] = <<>> /\ pc'[w] = "start"
    BY <1>1 DEF Begin, IInv, Session, ThreadsAreGone, Gone, Handy
  <2> QED BY <2>1 DEF Handy
<1>2. CASE Reset
  <2>1. /\ UNCHANGED hand
        /\ \A w \in Workers : \/ pc'[w] = pc[w]
                              \/ pc[w] = "asleep" /\ pc'[w] = "dispatch"
    BY <1>0, <1>2 DEF Reset, Wake
  <2> QED BY <2>1 DEF Handy
<1>3. CASE UNCHANGED <<pc, hand>>
  BY <1>3 DEF Handy
<1>4. Source /\ ~Begin => UNCHANGED <<pc, hand>>
  BY DEF Source, Initialize, BeginFails, BeginAsserts, Data, Resize, ControlAbort,
         Abort, End, FlushQueue, FlushQueue2, StopInbound, Wait, Pass
<1> QED BY <1>1, <1>2, <1>3, <1>4, HandyServe DEF Next

\* A thread of the first queue leaves the other one what it has at hand, ...
LEMMA InboundWorks ==
  ASSUME TypeOK, OneThreadPerQueue, Handy', NEW w \in Workers,
         pc[w] \in AtInbound, pc'[w] \in AtInbound \cup {"gone"},
         \A v \in Workers \ {w} : pc'[v] = pc[v] /\ hand'[v] = hand[v]
  PROVE  OutHand' = OutHand /\ InHand = BytesOf(hand[w]) /\ InHand' = BytesOf(hand'[w])
<1>1. /\ Inbound \in SUBSET Workers /\ w \in Inbound
      /\ Inbound' \in SUBSET Workers /\ (w \notin Inbound' => pc'[w] = "gone")
  BY DEF Inbound
<1>2. \A v \in Workers : v # w => v \notin Inbound /\ v \notin Inbound'
  BY <1>1 DEF OneThreadPerQueue, Inbound
<1>3. HeldBy(hand, Inbound) = hand[w]
  BY <1>1, <1>2, HeldByOne
<1>4. HeldBy(hand', Inbound') = hand'[w]
  <2>1. HeldBy(hand', Inbound') = IF w \in Inbound' THEN hand'[w] ELSE <<>>
    BY <1>1, <1>2, HeldByOne
  <2>2. w \notin Inbound' => hand'[w] = <<>>
    BY <1>1 DEF Handy
  <2> QED BY <2>1, <2>2
<1>5. Outbound' = Outbound /\ Outbound \in SUBSET Workers /\ w \notin Outbound
  BY DEF Outbound, AtInbound, AtOutbound
<1>6. HeldBy(hand', Outbound) = HeldBy(hand, Outbound)
  <2>1. \A v \in Outbound : hand'[v] = hand[v]
    BY <1>5
  <2> QED BY <1>5, <2>1, HeldByOthers
<1>7. OutHand' = BytesOf(HeldBy(hand', Outbound')) /\ InHand' = BytesOf(HeldBy(hand', Inbound'))
  BY DEF OutHand, InHand, HeldBy, BytesOf, Block
<1> QED BY <1>3, <1>4, <1>5, <1>6, <1>7 DEF OutHand, InHand

\* ... and so does a thread of the second one.
LEMMA OutboundWorks ==
  ASSUME TypeOK, OneThreadPerQueue, Handy', NEW w \in Workers,
         pc[w] \in AtOutbound, pc'[w] \in AtOutbound \cup {"gone"},
         \A v \in Workers \ {w} : pc'[v] = pc[v] /\ hand'[v] = hand[v]
  PROVE  InHand' = InHand /\ OutHand = BytesOf(hand[w]) /\ OutHand' = BytesOf(hand'[w])
<1>1. /\ Outbound \in SUBSET Workers /\ w \in Outbound
      /\ Outbound' \in SUBSET Workers /\ (w \notin Outbound' => pc'[w] = "gone")
  BY DEF Outbound
<1>2. \A v \in Workers : v # w => v \notin Outbound /\ v \notin Outbound'
  BY <1>1 DEF OneThreadPerQueue, Outbound
<1>3. HeldBy(hand, Outbound) = hand[w]
  BY <1>1, <1>2, HeldByOne
<1>4. HeldBy(hand', Outbound') = hand'[w]
  <2>1. HeldBy(hand', Outbound') = IF w \in Outbound' THEN hand'[w] ELSE <<>>
    BY <1>1, <1>2, HeldByOne
  <2>2. w \notin Outbound' => hand'[w] = <<>>
    BY <1>1 DEF Handy
  <2> QED BY <2>1, <2>2
<1>5. Inbound' = Inbound /\ Inbound \in SUBSET Workers /\ w \notin Inbound
  BY DEF Inbound, AtInbound, AtOutbound
<1>6. HeldBy(hand', Inbound) = HeldBy(hand, Inbound)
  <2>1. \A v \in Inbound : hand'[v] = hand[v]
    BY <1>5
  <2> QED BY <1>5, <2>1, HeldByOthers
<1>7. OutHand' = BytesOf(HeldBy(hand', Outbound')) /\ InHand' = BytesOf(HeldBy(hand', Inbound'))
  BY DEF OutHand, InHand, HeldBy, BytesOf, Block
<1> QED BY <1>3, <1>4, <1>5, <1>6, <1>7 DEF OutHand, InHand

\* Whoever serves the queues, and has nothing at hand, is as good as none.
LEMMA HandsStay ==
  ASSUME UNCHANGED hand,
         UNCHANGED Inbound \/ \A w \in Inbound \cup Inbound' : hand[w] = <<>>,
         UNCHANGED Outbound \/ \A w \in Outbound \cup Outbound' : hand[w] = <<>>
  PROVE  OutHand' = OutHand /\ InHand' = InHand
<1>1. ASSUME NEW ws, NEW vs, vs = ws \/ \A w \in ws \cup vs : hand[w] = <<>>
      PROVE  HeldBy(hand, ws) = HeldBy(hand, vs)
  <2>1. CASE vs = ws
    BY <2>1
  <2>2. CASE \A w \in ws \cup vs : hand[w] = <<>>
    <3>1. ASSUME NEW us, us \in {ws, vs}
          PROVE  HeldBy(hand, us) = <<>>
      <4>1. us # {} => (CHOOSE w \in us : TRUE) \in us
        OBVIOUS
      <4>2. \A w \in us : hand[w] = <<>>
        BY <2>2, <3>1
      <4> QED BY <4>1, <4>2 DEF HeldBy
    <3> QED BY <3>1
  <2> QED BY <1>1, <2>1, <2>2
<1>2. HeldBy(hand, Inbound) = HeldBy(hand, Inbound') /\ HeldBy(hand, Outbound) = HeldBy(hand, Outbound')
  BY <1>1
<1>3. OutHand' = BytesOf(HeldBy(hand', Outbound')) /\ InHand' = BytesOf(HeldBy(hand', Inbound'))
  BY DEF OutHand, InHand, HeldBy, BytesOf, Block
<1> QED BY <1>2, <1>3 DEF OutHand, InHand

-----------------------------------------------------------------------------
(* Steps of the threads. *)

\* A thread of the first queue moves bytes along the row, or after a RESIZE discards some.
LEMMA InboundBytes ==
  ASSUME TypeOK, TypeOK', IInv, Handy, Handy', NEW w \in Workers, Serve(w), pc[w] \in AtInbound
  PROVE  OfBytes!Change(Bytes, Bytes')
<1> DEFINE a == OutHand
           b == Payload(queue2)
           c == InHand
           d == Payload(queue)
<1>1. /\ pc \in [Workers -> Places] /\ hand \in [Workers -> Seq(Pieces)]
      /\ queue \in Seq(Items) /\ queue2 \in Seq(Items) /\ OneThreadPerQueue
  BY DEF TypeOK, Items, IInv
<1>2. /\ pc'[w] \in AtInbound \cup {"gone"}
      /\ \A v \in Workers \ {w} : pc'[v] = pc[v] /\ hand'[v] = hand[v]
  BY <1>1, Taken DEF IInv, Go, AtInbound, Serve, Start, Dequeue, Sleep, TakeTokens, Check, Send,
                     Leave, Join, Dequeue2, PutNext, PutNextFails
<1>3. OutHand' = a /\ c = BytesOf(hand[w]) /\ InHand' = BytesOf(hand'[w])
  BY <1>1, <1>2, InboundWorks
<1>4. /\ Bytes = Row(a, b, c, d) /\ Bytes' = Row(a, Payload(queue2'), InHand', Payload(queue'))
      /\ a \in Seq(Nat) /\ b \in Seq(Nat) /\ c \in Seq(Nat) /\ d \in Seq(Nat)
      /\ Payload(queue2') \in Seq(Nat) /\ InHand' \in Seq(Nat) /\ Payload(queue') \in Seq(Nat)
  BY <1>3, BytesAreRow, BytesAreRowNext
<1> HIDE DEF a, b, c, d
<1>5. Bytes' = Bytes => OfBytes!Change(Bytes, Bytes')
  BY DEF OfBytes!Change
<1>6. CASE UNCHANGED <<queue, hand>> /\ Payload(queue2') = b
  BY <1>3, <1>4, <1>5, <1>6 DEF d
<1>7. CASE Sleep(w) \/ Join(w)
  BY <1>6, <1>7 DEF Sleep, Join, b
<1>8. CASE Leave(w)
  <2>1. Payload(queue2') = b
    BY <1>1, <1>8, PayloadOperations DEF Leave, StopLast, b
  <2> QED BY <1>6, <1>8, <2>1 DEF Leave
<1>9. CASE Dequeue(w)
  <2>1. queue # <<>> /\ queue' = Tail(queue) /\ queue2' = queue2 /\ pc[w] = "inbound"
    BY <1>9 DEF Dequeue
  <2>2. c = <<>>
    BY <1>3, <2>1, BytesOfFew DEF Handy
  <2>3. CASE Head(queue) = Stop
    <3>1. UNCHANGED hand
      BY <1>9, <2>3 DEF Dequeue, IsData
    <3>2. Payload(queue') = d
      BY <1>1, <2>1, <2>3, PayloadOperations DEF d
    <3> QED BY <1>3, <1>4, <1>5, <2>1, <3>1, <3>2 DEF b
  <2>4. CASE Head(queue) # Stop
    <3>1. Head(queue) \in Pieces /\ hand'[w] = <<Head(queue)>>
      BY <1>1, <1>9, <2>1, <2>4, QueueOperations DEF Dequeue, IsData, Items
    <3>2. InHand' = Block(Head(queue))
      BY <1>3, <3>1, BytesOfFew
    <3>3. d = Joined(InHand', Payload(queue'))
      BY <1>1, <2>1, <2>4, <3>2, PayloadOperations DEF d
    <3>4. Payload(queue2') = b
      BY <2>1 DEF b
    <3>5. Bytes' = Bytes
      BY <1>4, <2>2, <3>3, <3>4, RowMoves
    <3> QED BY <1>5, <3>5
  <2> QED BY <2>3, <2>4
<1>10. CASE TakeTokens(w)
  <2>1. InHand' = c /\ UNCHANGED <<queue, queue2>>
    BY <1>3, <1>10, SplitAtHand DEF TakeTokens
  <2> QED BY <1>4, <1>5, <2>1 DEF b, d
<1>11. CASE Check(w)
  <2>1. CASE ~resized
    BY <1>6, <1>11, <2>1 DEF Check, b
  <2>2. CASE resized
    <3>1. hand'[w] = <<>> /\ UNCHANGED <<queue, queue2>> /\ Discarding
      BY <1>1, <1>11, <2>2 DEF Check, Discarding
    <3>2. InHand' = <<>>
      BY <1>3, <3>1, BytesOfFew
    <3>3. Bytes' = Row(a, b, <<>>, d)
      BY <1>4, <3>1, <3>2 DEF b, d
    <3>4. CASE c = <<>>
      BY <1>4, <1>5, <3>3, <3>4
    <3>5. CASE c # <<>>
      <4>1. OfBytes!Discarded(Bytes, Bytes')
        BY <1>4, <3>3, <3>5, RowLoses
      <4> QED BY <3>1, <4>1 DEF OfBytes!Change
    <3> QED BY <3>4, <3>5
  <2> QED BY <2>1, <2>2
<1>12. CASE Send(w)
  <2>1. queue2' = Append(queue2, Head(hand[w])) /\ hand'[w] = Tail(hand[w]) /\ queue' = queue
    BY <1>1, <1>12 DEF Send
  <2>2. PICK p \in Pieces : hand[w] = <<p>> \/ \E r \in Pieces : hand[w] = <<p, r>>
    BY <1>12 DEF Send, Handy
  <2>3. Head(hand[w]) = p /\ Block(p) \in Seq(Nat)
    BY <2>2, BlockType
  <2>4. Payload(queue2') = Joined(b, Block(p))
    BY <1>1, <2>1, <2>3, PayloadOperations DEF b
  <2>5. c = Joined(Block(p), InHand')
    <3>1. CASE hand[w] = <<p>>
      <4>1. hand'[w] = <<>>
        BY <2>1, <3>1
      <4>2. c = Block(p) /\ InHand' = <<>>
        BY <1>3, <3>1, <4>1, BytesOfFew
      <4> QED BY <2>3, <4>2, JoinedProperties
    <3>2. CASE \E r \in Pieces : hand[w] = <<p, r>>
      <4>1. PICK r \in Pieces : hand[w] = <<p, r>>
        BY <3>2
      <4>2. hand'[w] = <<r>>
        BY <2>1, <4>1
      <4> QED BY <1>3, <4>1, <4>2, BytesOfFew
    <3> QED BY <2>2, <3>1, <3>2
  <2>6. Payload(queue') = d
    BY <2>1 DEF d
  <2>7. Row(a, Joined(b, Block(p)), InHand', d) = Row(a, b, Joined(Block(p), InHand'), d)
    BY <1>4, <2>3, RowMoves
  <2>8. Bytes' = Bytes
    BY <1>4, <2>4, <2>5, <2>6, <2>7
  <2> QED BY <1>5, <2>8
<1>13. ~Start(w) /\ ~Dequeue2(w) /\ ~PutNext(w) /\ ~PutNextFails(w)
  BY DEF AtInbound, Start, Dequeue2, PutNext, PutNextFails
<1> QED BY <1>7, <1>8, <1>9, <1>10, <1>11, <1>12, <1>13 DEF Serve

\* A thread of the second queue takes bytes from it, and passes them on.
LEMMA OutboundBytes ==
  ASSUME TypeOK, TypeOK', IInv, Handy, Handy', NEW w \in Workers, Serve(w), pc[w] \in AtOutbound
  PROVE  OfBytes!Change(Bytes, Bytes')
<1> DEFINE a == OutHand
           b == Payload(queue2)
           c == InHand
           d == Payload(queue)
<1>1. /\ pc \in [Workers -> Places] /\ hand \in [Workers -> Seq(Pieces)]
      /\ queue \in Seq(Items) /\ queue2 \in Seq(Items) /\ OneThreadPerQueue
  BY DEF TypeOK, Items, IInv
<1>0. Dequeue2(w) \/ PutNext(w) \/ PutNextFails(w)
  BY DEF AtOutbound, Serve, Start, Dequeue, Sleep, TakeTokens, Check, Send, Leave, Join
<1>2. /\ pc'[w] \in AtOutbound \cup {"gone"} /\ UNCHANGED queue
      /\ \A v \in Workers \ {w} : pc'[v] = pc[v] /\ hand'[v] = hand[v]
  BY <1>0, <1>1 DEF Go, AtOutbound, Dequeue2, PutNext, PutNextFails
<1>3. InHand' = c /\ a = BytesOf(hand[w]) /\ OutHand' = BytesOf(hand'[w])
  BY <1>1, <1>2, OutboundWorks
<1>4. /\ Bytes = Row(a, b, c, d) /\ Bytes' = Row(OutHand', Payload(queue2'), c, d)
      /\ a \in Seq(Nat) /\ b \in Seq(Nat) /\ c \in Seq(Nat) /\ d \in Seq(Nat)
      /\ OutHand' \in Seq(Nat) /\ Payload(queue2') \in Seq(Nat)
  BY <1>2, <1>3, BytesAreRow, BytesAreRowNext
<1> HIDE DEF a, b, c, d
<1>5. Bytes' = Bytes => OfBytes!Change(Bytes, Bytes')
  BY DEF OfBytes!Change
<1>6. CASE Dequeue2(w)
  <2>1. queue2 # <<>> /\ queue2' = Tail(queue2) /\ pc[w] = "outbound"
    BY <1>6 DEF Dequeue2
  <2>2. a = <<>>
    BY <1>3, <2>1, BytesOfFew DEF Handy
  <2>3. CASE Head(queue2) = Stop
    <3>1. UNCHANGED hand
      BY <1>6, <2>3 DEF Dequeue2, IsData
    <3>2. Payload(queue2') = b
      BY <1>1, <2>1, <2>3, PayloadOperations DEF b
    <3> QED BY <1>3, <1>4, <1>5, <3>1, <3>2
  <2>4. CASE Head(queue2) # Stop
    <3>1. Head(queue2) \in Pieces /\ hand'[w] = <<Head(queue2)>>
      BY <1>1, <1>6, <2>1, <2>4, QueueOperations DEF Dequeue2, IsData, Items
    <3>2. OutHand' = Block(Head(queue2))
      BY <1>3, <3>1, BytesOfFew
    <3>3. b = Joined(OutHand', Payload(queue2'))
      BY <1>1, <2>1, <2>4, <3>2, PayloadOperations DEF b
    <3>4. Bytes' = Bytes
      BY <1>4, <2>2, <3>3, RowMoves
    <3> QED BY <1>5, <3>4
  <2> QED BY <2>3, <2>4
<1>7. CASE PutNext(w) \/ PutNextFails(w)
  <2>1. hand'[w] = <<>> /\ UNCHANGED queue2 /\ pc[w] = "put"
    BY <1>1, <1>7 DEF PutNext, PutNextFails
  <2>2. PICK p \in Pieces : hand[w] = <<p>>
    BY <2>1 DEF Handy
  <2>3. a # <<>>
    BY <1>3, <2>2, BytesOfFew, BlockType
  <2>4. Bytes' = Row(<<>>, b, c, d)
    BY <1>3, <1>4, <2>1, BytesOfFew DEF b
  <2>5. OfBytes!PassedOn(Bytes, Bytes')
    BY <1>4, <2>3, <2>4, RowLoses
  <2> QED BY <2>5 DEF OfBytes!Change
<1> QED BY <1>0, <1>6, <1>7

\* A thread that starts has nothing at hand.
LEMMA StartBytes ==
  ASSUME TypeOK, TypeOK', IInv, Handy, NEW w \in Workers, Start(w)
  PROVE  OfBytes!Change(Bytes, Bytes')
<1>1. /\ pc[w] = "start" /\ UNCHANGED <<hand, queue, queue2>> /\ hand[w] = <<>>
      /\ pc' = [pc EXCEPT ![w] = IF first THEN "outbound" ELSE "inbound"]
      /\ pc \in [Workers -> Places]
  BY DEF Start, Go, Handy, TypeOK
<1>2. CASE first
  <2>1. UNCHANGED Inbound /\ Outbound = {} /\ Outbound' = {w}
    BY <1>1, <1>2 DEF Inbound, Outbound, AtInbound, AtOutbound, IInv, Taking
  <2> QED BY <1>1, <2>1, HandsStay, BytesAreRow, BytesAreRowNext DEF OfBytes!Change
<1>3. CASE ~first
  <2>1. UNCHANGED Outbound /\ Inbound = {} /\ Inbound' = {w}
    BY <1>1, <1>3 DEF Inbound, Outbound, AtInbound, AtOutbound, IInv, Taking
  <2> QED BY <1>1, <2>1, HandsStay, BytesAreRow, BytesAreRowNext DEF OfBytes!Change
<1> QED BY <1>2, <1>3

\* Whatever a thread does, the bytes change as those of a channel may.
LEMMA ServeBytes ==
  ASSUME TypeOK, TypeOK', IInv, Handy, Handy', NEW w \in Workers, Serve(w)
  PROVE  OfBytes!Change(Bytes, Bytes')
<1>1. CASE pc[w] \in AtInbound
  BY <1>1, InboundBytes
<1>2. CASE pc[w] \in AtOutbound
  BY <1>2, OutboundBytes
<1>3. CASE pc[w] \notin AtInbound \cup AtOutbound
  <2>1. Start(w)
    BY <1>3 DEF AtInbound, AtOutbound, Serve, Dequeue, Sleep, TakeTokens, Check, Send, Leave, Join,
                Dequeue2, PutNext, PutNextFails
  <2> QED BY <2>1, StartBytes
<1> QED BY <1>1, <1>2, <1>3

-----------------------------------------------------------------------------
(* Steps of the source and of the timer. *)

\* Where only the queues may change, the rest of the row stays.
LEMMA QueuesBytes ==
  ASSUME TypeOK, TypeOK', OutHand' = OutHand, InHand' = InHand
  PROVE  /\ Bytes' = Row(OutHand, Payload(queue2'), InHand, Payload(queue'))
         /\ Payload(queue2') = Payload(queue2) /\ Payload(queue') = Payload(queue)
              => OfBytes!Change(Bytes, Bytes')
         /\ Payload(queue2') = Payload(queue2) /\ Payload(queue') = <<>> /\ Discarding
              => OfBytes!Change(Bytes, Bytes')
         /\ Payload(queue2') = <<>> /\ Payload(queue') = Payload(queue) /\ Discarding
              => OfBytes!Change(Bytes, Bytes')
<1> DEFINE a == OutHand
           b == Payload(queue2)
           c == InHand
           d == Payload(queue)
<1>1. /\ Bytes = Row(a, b, c, d) /\ Bytes' = Row(a, Payload(queue2'), c, Payload(queue'))
      /\ a \in Seq(Nat) /\ b \in Seq(Nat) /\ c \in Seq(Nat) /\ d \in Seq(Nat)
  BY BytesAreRow, BytesAreRowNext
<1> HIDE DEF a, b, c, d
<1>2. /\ b # <<>> => OfBytes!Discarded(Row(a, b, c, d), Row(a, <<>>, c, d))
      /\ d # <<>> => OfBytes!Discarded(Row(a, b, c, d), Row(a, b, c, <<>>))
  BY <1>1, RowLoses
<1>3. ASSUME Payload(queue2') = b, Payload(queue') = d
      PROVE  OfBytes!Change(Bytes, Bytes')
  BY <1>1, <1>3 DEF OfBytes!Change
<1>4. ASSUME Payload(queue2') = b, Payload(queue') = <<>>, Discarding
      PROVE  OfBytes!Change(Bytes, Bytes')
  <2>1. Bytes' = Bytes \/ OfBytes!Discarded(Bytes, Bytes')
    BY <1>1, <1>2, <1>4
  <2> QED BY <1>4, <2>1 DEF OfBytes!Change
<1>5. ASSUME Payload(queue2') = <<>>, Payload(queue') = d, Discarding
      PROVE  OfBytes!Change(Bytes, Bytes')
  <2>1. Bytes' = Bytes \/ OfBytes!Discarded(Bytes, Bytes')
    BY <1>1, <1>2, <1>5
  <2> QED BY <1>5, <2>1 DEF OfBytes!Change
<1> QED BY <1>1, <1>3, <1>4, <1>5 DEF a, b, c, d

\* The source adds bytes at the end of the row, or discards those of a queue.
LEMMA SourceBytes ==
  ASSUME TypeOK, TypeOK', IInv, Handy, Source
  PROVE  OfBytes!Change(Bytes, Bytes')
<1>1. /\ queue \in Seq(Items) /\ queue2 \in Seq(Items) /\ pc \in [Workers -> Places]
  BY DEF TypeOK, Items
<1>2. OutHand' = OutHand /\ InHand' = InHand
  <2>1. CASE Begin
    <3>1. UNCHANGED hand /\ pc' = [w \in Workers |-> "start"] /\ ThreadsAreGone
      BY <2>1 DEF Begin, IInv, Session
    <3>2. Inbound = {} /\ Outbound = {} /\ Inbound' = {} /\ Outbound' = {}
      BY <3>1 DEF ThreadsAreGone, Gone, Inbound, Outbound, AtInbound, AtOutbound
    <3> QED BY <3>1, <3>2, HandsStay
  <2>2. CASE ~Begin
    <3>1. UNCHANGED <<pc, hand>>
      BY <2>2 DEF Source, Initialize, BeginFails, BeginAsserts, Data, Resize, ControlAbort,
                  Abort, End, FlushQueue, FlushQueue2, StopInbound, Wait, Pass
    <3>2. UNCHANGED Inbound /\ UNCHANGED Outbound
      BY <3>1 DEF Inbound, Outbound
    <3> QED BY <3>1, <3>2, HandsStay
  <2> QED BY <2>1, <2>2
<1>3. CASE Data
  <2>1. PICK n \in Lengths : queue' = Append(queue, Piece(accepted', n))
    BY <1>3 DEF Data
  <2>2. queue2' = queue2 /\ accepted' \in 1..MaxMessages
    BY <1>3, BoundsAssumption DEF Data, TypeOK
  <2>3. PICK p \in Pieces : p = Piece(accepted', n) /\ p.msg = accepted' /\ p.len = n
    <3>1. n \in Nat \ {0} /\ accepted' \in Nat \ {0}
      BY <2>2, NumbersAssumption
    <3>2. Piece(accepted', n) = [msg |-> accepted', len |-> n]
      BY DEF Piece
    <3>3. Piece(accepted', n) \in Pieces
      BY <3>1, <3>2 DEF Pieces
    <3> QED BY <3>2, <3>3
  <2>4. Block(p) = [i \in 1..n |-> accepted'] /\ Block(p) \in Seq(Nat)
    BY <2>3, BlockType DEF Block
  <2>5. Payload(queue') = Joined(Payload(queue), Block(p))
    BY <1>1, <2>1, <2>3, PayloadOperations
  <2>6. Bytes' = Row(OutHand, Payload(queue2), InHand, Joined(Payload(queue), Block(p)))
    BY <1>2, <2>2, <2>5, QueuesBytes
  <2>7. Bytes' = Bytes \o [i \in 1..n |-> accepted']
    <3>1. PICK x \in Seq(Nat) : x = Block(p)
      BY <2>4
    <3>2. PICK a, b, c, d \in Seq(Nat) :
            Bytes = Row(a, b, c, d) /\ Bytes' = Row(a, b, c, Joined(d, x))
      BY <2>6, <3>1, BytesAreRow
    <3>3. Bytes' = Joined(Bytes, x)
      BY <3>2, RowAccepts
    <3> QED BY <2>4, <3>1, <3>3 DEF Joined
  <2>8. OfBytes!Accepted(Bytes, Bytes')
    BY <2>2, <2>7 DEF OfBytes!Accepted
  <2> QED BY <2>8 DEF OfBytes!Change
<1>4. CASE FlushQueue
  <2>1. queue' = Flushed(queue) /\ queue2' = queue2 /\ Discarding
    BY <1>4 DEF FlushQueue, Discarding
  <2>2. Payload(queue') = <<>>
    BY <1>1, <2>1, PayloadOperations
  <2> QED BY <1>2, <2>1, <2>2, QueuesBytes
<1>5. CASE FlushQueue2
  <2>1. queue2' = Flushed(queue2) /\ queue' = queue /\ Discarding
    BY <1>5 DEF FlushQueue2, Discarding
  <2>2. Payload(queue2') = <<>>
    BY <1>1, <2>1, PayloadOperations
  <2> QED BY <1>2, <2>1, <2>2, QueuesBytes
<1>6. CASE StopInbound
  <2>1. (queue' = <<Stop>> \o queue \/ queue' = Append(queue, Stop)) /\ queue2' = queue2
    BY <1>6 DEF StopInbound
  <2>2. Payload(queue') = Payload(queue)
    BY <1>1, <2>1, PayloadOperations
  <2> QED BY <1>2, <2>1, <2>2, QueuesBytes
<1>7. CASE ~Data /\ ~FlushQueue /\ ~FlushQueue2 /\ ~StopInbound
  <2>1. UNCHANGED <<queue, queue2>>
    BY <1>7 DEF Source, Initialize, Begin, BeginFails, BeginAsserts, Resize, ControlAbort,
                Abort, End, Wait, Pass
  <2> QED BY <1>2, <2>1, QueuesBytes
<1> QED BY <1>3, <1>4, <1>5, <1>6, <1>7

\* The timer wakes a thread where it is.
LEMMA ResetBytes ==
  ASSUME TypeOK, TypeOK', Reset
  PROVE  OfBytes!Change(Bytes, Bytes')
<1>1. /\ UNCHANGED <<hand, queue, queue2>> /\ pc \in [Workers -> Places]
      /\ \A w \in Workers : \/ pc'[w] = pc[w]
                            \/ pc[w] = "asleep" /\ pc'[w] = "dispatch"
  BY DEF Reset, Wake, TypeOK
<1>2. UNCHANGED Inbound /\ UNCHANGED Outbound
  BY <1>1 DEF Inbound, Outbound, AtInbound, AtOutbound
<1>3. OutHand' = OutHand /\ InHand' = InHand
  BY <1>1, <1>2, HandsStay
<1> QED BY <1>1, <1>3, QueuesBytes

-----------------------------------------------------------------------------
(* The refinement. *)

\* The module holds nothing back at first, ...
LEMMA ChannelInit == Init => OfBytes!Init /\ Handy
<1> SUFFICES ASSUME Init PROVE OfBytes!Init /\ Handy
  OBVIOUS
<1>1. /\ queue = <<>> /\ queue2 = <<>> /\ pc = [w \in Workers |-> "gone"]
      /\ hand = [w \in Workers |-> <<>>] /\ source = "idle" /\ resized = FALSE
  BY DEF Init
<1>2. Inbound = {} /\ Outbound = {}
  BY <1>1 DEF Inbound, Outbound, AtInbound, AtOutbound
<1>3. OutHand = <<>> /\ InHand = <<>>
  BY <1>2, BytesOfFew DEF OutHand, InHand, HeldBy
<1>4. Payload(queue) = <<>> /\ Payload(queue2) = <<>>
  BY <1>1, PayloadOfOne
<1>5. Bytes = Row(<<>>, <<>>, <<>>, <<>>)
  BY <1>3, <1>4, TypeInit, BytesAreRow
<1>6. Row(<<>>, <<>>, <<>>, <<>>) = <<>>
  <2>1. Joined(<<>>, <<>>) = <<>>
    BY JoinedProperties, EmptySeq
  <2> QED BY <2>1 DEF Row
<1>7. Handy
  BY <1>1 DEF Handy
<1>8. Discarding \in BOOLEAN
  BY DEF Discarding
<1> QED BY <1>5, <1>6, <1>7, <1>8 DEF OfBytes!Init

\* ... every step of the module is one of the channel, or leaves it alone, ...
LEMMA ChannelStep ==
  TypeOK /\ TypeOK' /\ IInv /\ Handy /\ Handy' /\ [Next]_vars => [OfBytes!Next]_OfBytes!vars
<1> SUFFICES ASSUME TypeOK, TypeOK', IInv, Handy, Handy', [Next]_vars
             PROVE  [OfBytes!Next]_OfBytes!vars
  OBVIOUS
<1>1. CASE UNCHANGED vars
  <2>1. Held' = Held
    BY <1>1 DEF Held, Inbound, Outbound
  <2>2. Bytes' = Bytes /\ UNCHANGED Discarding
    BY <1>1, <2>1 DEF Bytes, Discarding
  <2> QED BY <2>2 DEF OfBytes!vars
<1>2. CASE Next
  <2>1. OfBytes!Change(Bytes, Bytes')
    BY <1>2, SourceBytes, ServeBytes, ResetBytes DEF Next
  <2> QED BY <2>1 DEF OfBytes!Next
<1> QED BY <1>1, <1>2

\* ... and so Delay passes on what it has accepted in order and once, and loses data
\* only when it is to discard some: handleDataMessage(), svc() and dispatch(), with the
\* flushes by RESIZE and ABORT and every interleaving of the threads and the timer.
THEOREM DelayImplementsChannel == Spec => ImplementsChannel
<1>1. Spec => [](TypeOK /\ IInv)
  BY Invariance
<1>2. Init => OfBytes!Init /\ Handy
  BY ChannelInit
<1>3. TypeOK /\ IInv /\ Handy /\ [Next]_vars => Handy'
  BY HandyStep
<1>4. TypeOK /\ TypeOK' /\ IInv /\ Handy /\ Handy' /\ [Next]_vars => [OfBytes!Next]_OfBytes!vars
  BY ChannelStep
<1> QED BY <1>1, <1>2, <1>3, <1>4, PTL DEF Spec, ImplementsChannel, OfBytes!Spec
=============================================================================
