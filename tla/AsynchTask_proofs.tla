------------------------- MODULE AsynchTask_proofs -------------------------
(***************************************************************************)
(* Proofs of the safety properties of AsynchTask for every finite set of   *)
(* workers and every set of messages.                                      *)
(***************************************************************************)
EXTENDS AsynchTaskProperties, QueueTheorems

USE DEF vars, mq, threads, worker, ghost, bounds

-----------------------------------------------------------------------------
(* Counting the workers. *)

\* The set of serving workers is finite; with one element it is a singleton.
LEMMA ServingIsFinite ==
  /\ IsFiniteSet(Serving) /\ Cardinality(Serving) \in Nat
  /\ Cardinality(Serving) = 0 <=> Serving = {}
  /\ \A w \in Serving : /\ Cardinality(Serving \ {w}) = Cardinality(Serving) - 1
                        /\ Cardinality(Serving) = 1 => Serving = {w}
<1>1. IsFiniteSet(Serving)
  BY WorkersAssumption, FS_Subset DEF Serving
<1>2. Cardinality(Serving) \in Nat /\ (Cardinality(Serving) = 0 <=> Serving = {})
  BY <1>1, FS_CardinalityType, FS_EmptySet
<1>3. ASSUME NEW w \in Serving
      PROVE  /\ Cardinality(Serving \ {w}) = Cardinality(Serving) - 1
             /\ Cardinality(Serving) = 1 => Serving = {w}
  <2>1. IsFiniteSet(Serving \ {w}) /\ Cardinality(Serving \ {w}) = Cardinality(Serving) - 1
    BY <1>1, FS_RemoveElement
  <2>2. Cardinality(Serving \ {w}) = 0 <=> Serving \ {w} = {}
    BY <2>1, FS_EmptySet
  <2> QED BY <1>2, <2>1, <2>2
<1> QED BY <1>1, <1>2, <1>3

\* A thread that is still to be counted out is counted.
LEMMA CountIsPositive ==
  ASSUME CountIsExact, NEW w \in Serving
  PROVE  thrCount \in Nat \ {0}
<1> QED BY ServingIsFinite DEF CountIsExact

\* The count is exact, only the last thread, which alone finds it at zero, closes
\* the queue, and a module is prepared when its workers are gone.
Counting ==
  /\ CountIsExact
  /\ lastThread # None => thrCount = 0
  /\ \A w \in Workers : pc[w] \in {"deactivate", "flush"} => lastThread = w
  /\ ServedQueueIsActive
  /\ phase = "ready" => AllIdle

-----------------------------------------------------------------------------
(* Types. *)

\* What the operations on the queue return, for any item.
LEMMA QueueOperations ==
  ASSUME TypeOK
  PROVE  /\ \A m \in Items : AtTail(m) \in Seq(Items) /\ AtHead(m) \in Seq(Items)
         /\ \A m \in Items : Append(sent, m) \in Seq(Items)
         /\ \A m \in Messages : Append(log, m) \in Seq(Messages)
         /\ \A S : Without(queue, S) \in Seq(Items)
         /\ <<>> \in Seq(Items) /\ <<>> \in Seq(Messages)
         /\ queue # <<>> => Head(queue) \in Items /\ Tail(queue) \in Seq(Items)
<1>1. queue \in Seq(Items) /\ sent \in Seq(Items) /\ log \in Seq(Messages)
  BY DEF TypeOK
<1>2. \A m \in Items : Append(queue, m) \in Seq(Items) /\ Append(sent, m) \in Seq(Items)
  BY <1>1, AppendProperties
<1>3. \A m \in Items : <<m>> \o queue \in Seq(Items)
  BY <1>1, RangePrepend
<1>4. \A m \in Messages : Append(log, m) \in Seq(Messages)
  BY <1>1, AppendProperties
<1>5. \A S : Without(queue, S) \in Seq(Items)
  BY <1>1, WithoutType
<1>6. queue # <<>> => Head(queue) \in Items /\ Tail(queue) \in Seq(Items)
  BY <1>1, HeadTailProperties
<1> QED BY <1>1, <1>2, <1>3, <1>4, <1>5, <1>6, EmptySeq DEF AtTail, AtHead

\* The state a task is constructed in is well typed, ...
LEMMA TypeInit == Init => TypeOK
<1> SUFFICES ASSUME Init PROVE TypeOK
  OBVIOUS
<1>1. <<>> \in Seq(Items) /\ <<>> \in Seq(Messages)
  BY EmptySeq
<1> QED BY <1>1, BatchesAssumption, BoundsAssumption DEF Init, TypeOK, Places

\* ... and every step keeps the types.
LEMMA TypeStep == TypeOK /\ Counting /\ [Next]_vars => TypeOK'
<1> SUFFICES ASSUME TypeOK, Counting, [Next]_vars PROVE TypeOK'
  OBVIOUS
<1> USE DEF TypeOK
<1>1. /\ \A m \in Items : AtTail(m) \in Seq(Items) /\ AtHead(m) \in Seq(Items)
      /\ \A m \in Items : Append(sent, m) \in Seq(Items)
      /\ \A m \in Messages : Append(log, m) \in Seq(Messages)
      /\ \A S : Without(queue, S) \in Seq(Items)
      /\ <<>> \in Seq(Items) /\ <<>> \in Seq(Messages)
      /\ queue # <<>> => Head(queue) \in Items /\ Tail(queue) \in Seq(Items)
  BY QueueOperations
<1>2. Data \subseteq Messages /\ Aborts \subseteq Messages /\ Stop \in Items
      /\ Messages \subseteq Items /\ None \notin Messages
  BY MessagesAssumption DEF Messages, Items
<1>3. ASSUME NEW m \in Messages, Put(m) PROVE TypeOK'
  BY <1>1, <1>2, <1>3 DEF Put, Accept
<1>4. ASSUME NEW m \in Messages, PutExpedited(m) PROVE TypeOK'
  BY <1>1, <1>2, <1>4 DEF PutExpedited, Accept
<1>5. ASSUME NEW m \in Messages, PutAbort(m) PROVE TypeOK'
  BY <1>1, <1>2, <1>5 DEF PutAbort, Accept
<1>6. CASE PutFlush
  BY <1>1, <1>6 DEF PutFlush
<1>7. ASSUME NEW highPriority \in BOOLEAN, StopTask(highPriority) PROVE TypeOK'
  BY <1>1, <1>2, <1>7 DEF StopTask, Accept
<1>8. ASSUME NEW m \in Messages, HandleInline(m) PROVE TypeOK'
  BY <1>1, <1>8 DEF HandleInline
<1>9. ASSUME NEW w \in Workers, Work(w) PROVE TypeOK'
  <2> USE DEF Go, Places, Looping, Stopping
  <2>1. CASE Get(w)
    <3>1. CASE active /\ Head(queue) = Stop
      BY <1>1, <2>1, <3>1 DEF Get
    <3>2. CASE active /\ Head(queue) # Stop
      <4>1. Head(queue) \in Messages /\ Tail(queue) \in Seq(Items)
        BY <1>1, <2>1, <3>2 DEF Get, Items
      <4> QED BY <1>2, <2>1, <3>2, <4>1 DEF Get
    <3>3. CASE ~active
      BY <2>1, <3>3 DEF Get
    <3> QED BY <3>1, <3>2, <3>3
  <2>2. CASE Handle(w)
    <3>1. held[w] \in Messages
      BY <2>2 DEF Handle
    <3> QED BY <1>1, <2>2, <3>1 DEF Handle
  <2>3. CASE StopSelf(w)
    BY <1>1, <1>2, <2>3 DEF StopSelf, Accept
  <2>4. CASE CountThreads(w)
    BY <2>4 DEF CountThreads, CountThreadsIf
  <2>5. CASE PassStop(w)
    BY <1>1, <1>2, <2>5 DEF PassStop, PassStopWith
  <2>6. CASE Exit(w)
    <3>1. thrCount # 0
      BY <2>6, CountIsPositive DEF Exit, ExitWith, Serving, Counting
    <3> QED BY <2>6, <3>1 DEF Exit, ExitWith
  <2>7. CASE CloseWorker(w)
    BY <2>7 DEF CloseWorker, CloseWorkerIf
  <2>8. CASE DeactivateQueue(w)
    BY <2>8 DEF DeactivateQueue
  <2>9. CASE FlushQueue(w)
    BY <1>1, <2>9 DEF FlushQueue
  <2> QED BY <1>9, <2>1, <2>2, <2>3, <2>4, <2>5, <2>6, <2>7, <2>8, <2>9 DEF Work
<1>10. CASE CloseModule
  BY <1>1, <1>10 DEF CloseModule, CloseModuleWith
<1>11. CASE Initialize
  BY <1>1, <1>11, BatchesAssumption DEF Initialize
<1>12. CASE Open
  <2>1. Cardinality(Workers) \in Nat
    BY WorkersAssumption, FS_CardinalityType
  <2>2. \A w \in Workers : held[w] = None
    BY <1>12 DEF Open, Counting, AllIdle
  <2> QED BY <1>12, <2>1, <2>2 DEF Open, Places, Looping
<1>13. CASE UNCHANGED vars
  BY <1>13
<1> QED BY <1>3, <1>4, <1>5, <1>6, <1>7, <1>8, <1>9, <1>10, <1>11, <1>12, <1>13
        DEF Next, Upstream, Stream

-----------------------------------------------------------------------------
(* The count. *)

\* A worker that moves within svc(), or outside of it, is counted as before.
LEMMA ServingUnchanged ==
  ASSUME TypeOK, NEW w \in Workers, NEW place, Go(w, place),
         pc[w] \in Looping \cup Stopping \cup {"leave"}
           <=> place \in Looping \cup Stopping \cup {"leave"}
  PROVE  Serving' = Serving
<1> QED BY DEF TypeOK, Go, Serving

\* The count is right when the task is constructed, ...
LEMMA CountingInit == Init => Counting
<1> SUFFICES ASSUME Init PROVE Counting
  OBVIOUS
<1>1. Serving = {}
  BY DEF Init, Serving, Looping, Stopping
<1> QED BY <1>1, FS_EmptySet DEF Init, Counting, CountIsExact, ServedQueueIsActive, AllIdle

\* ... and after every step.
LEMMA CountingStep == TypeOK /\ Counting /\ [Next]_vars => Counting'
<1> SUFFICES ASSUME TypeOK, Counting, [Next]_vars PROVE Counting'
  OBVIOUS
<1> USE DEF Counting, CountIsExact, ServedQueueIsActive, AllIdle
<1>1. ASSUME UNCHANGED <<phase, worker, threads, active>>
      PROVE  Counting'
  BY <1>1 DEF Serving
<1>2. CASE Upstream
  BY <1>1, <1>2 DEF Upstream, Put, PutExpedited, PutAbort, PutFlush, StopTask
<1>3. ASSUME NEW m \in Messages, HandleInline(m) PROVE Counting'
  BY <1>1, <1>3 DEF HandleInline
<1>4. ASSUME NEW w \in Workers, Work(w) PROVE Counting'
  <2> DEFINE InSvc == Looping \cup Stopping \cup {"leave"}
  <2>0. phase' = phase /\ phase # "ready"
    BY <1>4 DEF Work, Get, Handle, StopSelf, CountThreads, CountThreadsIf, PassStop,
                PassStopWith, Exit, ExitWith, CloseWorker, CloseWorkerIf, DeactivateQueue, FlushQueue
  <2>1. ASSUME NEW place \in InSvc, pc[w] \in InSvc, Go(w, place), UNCHANGED <<threads, active>>
        PROVE  Counting'
    <3>1. Serving' = Serving
      BY <2>1, ServingUnchanged
    <3>2. \A x \in Workers : pc'[x] \in {"deactivate", "flush"} => pc[x] = pc'[x]
      BY <2>1 DEF Go, TypeOK, Looping, Stopping
    <3> QED BY <2>0, <2>1, <3>1, <3>2
  <2>2. CASE Get(w)
    BY <2>1, <2>2 DEF Get, Looping, Stopping
  <2>3. CASE Handle(w)
    BY <2>1, <2>3 DEF Handle, Looping, Stopping
  <2>4. CASE StopSelf(w)
    BY <2>1, <2>4 DEF StopSelf, Looping, Stopping
  <2>5. CASE CountThreads(w)
    BY <2>1, <2>5 DEF CountThreads, CountThreadsIf, Looping, Stopping
  <2>6. CASE PassStop(w)
    BY <2>1, <2>6 DEF PassStop, PassStopWith, Looping, Stopping
  <2>7. CASE Exit(w)
    <3>1. w \in Serving /\ Serving' = Serving \ {w}
      BY <2>7 DEF Exit, ExitWith, Serving, Go, TypeOK, Looping, Stopping
    <3>2. thrCount \in Nat \ {0} /\ thrCount' = thrCount - 1 /\ thrCount' = Cardinality(Serving')
      <4>1. thrCount' = thrCount - 1
        BY <2>7 DEF Exit, ExitWith
      <4>2. Cardinality(Serving') = Cardinality(Serving) - 1
        BY <3>1, ServingIsFinite
      <4>3. thrCount \in Nat \ {0}
        BY <3>1, CountIsPositive
      <4> QED BY <4>1, <4>2, <4>3
    <3>3. lastThread' # None => thrCount' = 0
      BY <2>7, <3>2 DEF Exit, ExitWith
    <3>4. ASSUME NEW x \in Workers, pc'[x] \in {"deactivate", "flush"} PROVE lastThread' = x
      <4>1. pc[x] \in {"deactivate", "flush"}
        BY <2>7, <3>4 DEF Exit, ExitWith, Go, TypeOK
      <4> QED BY <3>2, <4>1, WorkersAssumption
    <3>5. ServedQueueIsActive'
      BY <2>7, <3>1 DEF Exit, ExitWith
    <3> QED BY <2>0, <3>2, <3>3, <3>4, <3>5
  <2>8. CASE CloseWorker(w)
    <3>1. Serving' = Serving
      BY <2>8, ServingUnchanged DEF CloseWorker, CloseWorkerIf, Looping, Stopping
    <3>2. ASSUME NEW x \in Workers, pc'[x] \in {"deactivate", "flush"} PROVE lastThread = x
      BY <2>8, <3>2 DEF CloseWorker, CloseWorkerIf, Go, TypeOK
    <3> QED BY <2>0, <2>8, <3>1, <3>2 DEF CloseWorker, CloseWorkerIf
  <2>9. CASE DeactivateQueue(w)
    <3>1. Serving' = Serving
      BY <2>9, ServingUnchanged DEF DeactivateQueue, Looping, Stopping
    <3>2. lastThread = w /\ Serving = {}
      BY <2>9, WorkersAssumption, ServingIsFinite DEF DeactivateQueue
    <3>3. ASSUME NEW x \in Workers, pc'[x] \in {"deactivate", "flush"} PROVE lastThread = x
      BY <2>9, <3>2, <3>3 DEF DeactivateQueue, Go, TypeOK
    <3> QED BY <2>0, <2>9, <3>1, <3>2, <3>3 DEF DeactivateQueue
  <2>10. CASE FlushQueue(w)
    <3>1. Serving' = Serving
      BY <2>10, ServingUnchanged DEF FlushQueue, Looping, Stopping
    <3>2. ASSUME NEW x \in Workers, pc'[x] \in {"deactivate", "flush"} PROVE lastThread = x
      BY <2>10, <3>2 DEF FlushQueue, Go, TypeOK
    <3> QED BY <2>0, <2>10, <3>1, <3>2 DEF FlushQueue
  <2> QED BY <1>4, <2>2, <2>3, <2>4, <2>5, <2>6, <2>7, <2>8, <2>9, <2>10 DEF Work
<1>5. CASE CloseModule
  BY <1>5 DEF CloseModule, CloseModuleWith, Serving
<1>6. CASE Initialize
  <2>1. Serving' = Serving /\ active'
    BY <1>6 DEF Initialize, Serving
  <2> QED BY <1>6, <2>1 DEF Initialize
<1>7. CASE Open
  <2>1. Serving' = Workers
    BY <1>7 DEF Open, Serving, Looping
  <2> QED BY <1>7, <2>1 DEF Open
<1>8. CASE UNCHANGED vars
  BY <1>1, <1>8
<1> QED BY <1>2, <1>3, <1>4, <1>5, <1>6, <1>7, <1>8 DEF Next, Stream

\* The fields of the task keep their types, and thr_count_ never falls below zero.
THEOREM TypeCorrect == Spec => []TypeOK
<1>1. Init => TypeOK /\ Counting
  BY TypeInit, CountingInit
<1>2. TypeOK /\ Counting /\ [Next]_vars => (TypeOK /\ Counting)'
  BY TypeStep, CountingStep DEF Counting
<1> QED BY <1>1, <1>2, PTL DEF Spec

\* So it holds throughout.
LEMMA CountingInvariant == Spec => []Counting
<1> QED BY CountingInit, CountingStep, TypeCorrect, PTL DEF Spec

\* svc() compares thr_count_ without a lock with the number of the threads that
\* still serve the queue: it is that number in every state.
THEOREM CountCorrect == Spec => []CountIsExact
<1>1. Counting => CountIsExact
  BY DEF Counting
<1> QED BY <1>1, CountingInvariant, PTL

\* While the module is not popped getq() never fails: close(0), which the last thread runs
\* while others still put messages, deactivates the queue when nobody serves it.
THEOREM ServedQueueCorrect == Spec => []ServedQueueIsActive
<1>1. Counting => ServedQueueIsActive
  BY DEF Counting
<1> QED BY <1>1, CountingInvariant, PTL

-----------------------------------------------------------------------------
(* MB_STOP is passed on. *)

\* An MB_STOP stays in the queue, whatever is put, flushed as data, or taken
\* before it; and it is put into an active queue.
LEMMA StopStays ==
  ASSUME TypeOK
  PROVE  /\ Stop \in Queued =>
              /\ \A m \in Items : Stop \in Range(AtTail(m)) /\ Stop \in Range(AtHead(m))
              /\ Stop \in Range(Without(queue, Data))
              /\ queue # <<>> /\ Head(queue) # Stop => Stop \in Range(Tail(queue))
         /\ active => Stop \in Range(AtTail(Stop)) /\ Stop \in Range(AtHead(Stop))
<1>1. queue \in Seq(Items) /\ Stop \in Items
  BY DEF TypeOK, Items
<1>2. \A m \in Items : /\ Range(Append(queue, m)) = Queued \cup {m}
                       /\ Range(<<m>> \o queue) = Queued \cup {m}
  BY <1>1, RangeAppend, RangePrepend DEF Queued
<1>3. Stop \in Queued => Stop \in Range(Without(queue, Data))
  <2>1. Stop \notin Data
    BY MessagesAssumption DEF Messages
  <2> QED BY <1>1, <2>1, WithoutKeeps DEF Queued
<1>4. Stop \in Queued /\ queue # <<>> /\ Head(queue) # Stop => Stop \in Range(Tail(queue))
  BY <1>1, RangeTail DEF Queued
<1> QED BY <1>1, <1>2, <1>3, <1>4 DEF AtTail, AtHead, Queued

\* The property is inductive relative to the count: it holds at first, ...
LEMMA StopInit == Init => StopIsPassedOn
<1> QED BY DEF Init, StopIsPassedOn, Looping

\* ... and each step keeps it.  A worker takes the last MB_STOP with it only if it
\* is the last worker.
LEMMA StopStep == TypeOK /\ Counting /\ StopIsPassedOn /\ [Next]_vars => StopIsPassedOn'
<1> SUFFICES ASSUME TypeOK, Counting, StopIsPassedOn, [Next]_vars PROVE StopIsPassedOn'
  OBVIOUS
<1> DEFINE StopKept == Stop \in Queued => Stop \in Queued'
<1>1. /\ Stop \in Queued =>
           /\ \A m \in Items : Stop \in Range(AtTail(m)) /\ Stop \in Range(AtHead(m))
           /\ Stop \in Range(Without(queue, Data))
           /\ queue # <<>> /\ Head(queue) # Stop => Stop \in Range(Tail(queue))
      /\ active => Stop \in Range(AtTail(Stop)) /\ Stop \in Range(AtHead(Stop))
  BY StopStays
<1>2. Messages \subseteq Items /\ Stop \in Items
  BY DEF Items
<1>3. ASSUME UNCHANGED <<pc, active, flushed>>, StopKept PROVE StopIsPassedOn'
  BY <1>3 DEF StopIsPassedOn
<1>4. CASE Upstream
  <2>1. ASSUME NEW m \in Messages, Put(m) PROVE StopIsPassedOn'
    BY <1>1, <1>2, <1>3, <2>1 DEF Put, Queued
  <2>2. ASSUME NEW m \in Messages, PutExpedited(m) PROVE StopIsPassedOn'
    BY <1>1, <1>2, <1>3, <2>2 DEF PutExpedited, Queued
  <2>3. ASSUME NEW m \in Messages, PutAbort(m) PROVE StopIsPassedOn'
    BY <1>1, <1>2, <1>3, <2>3 DEF PutAbort, Queued
  <2>4. CASE PutFlush
    BY <2>4 DEF PutFlush, StopIsPassedOn
  <2>5. ASSUME NEW highPriority \in BOOLEAN, StopTask(highPriority) PROVE StopIsPassedOn'
    BY <1>1, <1>2, <1>3, <2>5 DEF StopTask, Queued
  <2> QED BY <1>4, <2>1, <2>2, <2>3, <2>4, <2>5 DEF Upstream
<1>5. ASSUME NEW m \in Messages, HandleInline(m) PROVE StopIsPassedOn'
  BY <1>1, <1>3, <1>5 DEF HandleInline, Queued
<1>6. ASSUME NEW w \in Workers, Work(w) PROVE StopIsPassedOn'
  \* The worker stays on its side of the MB_STOP.
  <2>1. ASSUME NEW place, Go(w, place), UNCHANGED <<active, flushed>>, StopKept,
               pc[w] \in Looping <=> place \in Looping,
               pc[w] \in Stopping <=> place \in Stopping
        PROVE  StopIsPassedOn'
    <3>1. \A x \in Workers : /\ pc'[x] \in Looping <=> pc[x] \in Looping
                             /\ pc'[x] \in Stopping <=> pc[x] \in Stopping
      BY <2>1 DEF Go, TypeOK
    <3> QED BY <2>1, <3>1 DEF StopIsPassedOn
  <2>2. CASE Get(w)
    <3>1. CASE active /\ Head(queue) = Stop
      <4>1. pc'[w] \in Stopping
        BY <2>2, <3>1 DEF Get, Go, TypeOK, Stopping
      <4> QED BY <4>1 DEF StopIsPassedOn
    <3>2. CASE active /\ Head(queue) # Stop
      <4>1. StopKept
        BY <1>1, <2>2, <3>2 DEF Get, Queued
      <4> QED BY <2>1, <2>2, <3>2, <4>1 DEF Get, Looping, Stopping
    <3>3. CASE ~active
      BY <2>2, <3>3 DEF Get, StopIsPassedOn
    <3> QED BY <3>1, <3>2, <3>3
  <2>3. CASE Handle(w)
    <3>1. StopKept
      BY <1>1, <2>3 DEF Handle, Queued
    <3> QED BY <2>1, <2>3, <3>1 DEF Handle, Looping, Stopping
  <2>4. CASE StopSelf(w)
    <3>1. StopKept
      BY <1>1, <1>2, <2>4 DEF StopSelf, Queued
    <3> QED BY <2>1, <2>4, <3>1 DEF StopSelf, Looping, Stopping
  <2>5. CASE CountThreads(w)
    <3>1. CASE thrCount > 1
      <4>1. pc'[w] \in Stopping
        BY <2>5, <3>1 DEF CountThreads, CountThreadsIf, Go, TypeOK, Stopping
      <4> QED BY <4>1 DEF StopIsPassedOn
    <3>2. CASE ~(thrCount > 1)
      <4>1. w \in Serving /\ pc' = [pc EXCEPT ![w] = "leave"]
        BY <2>5, <3>2 DEF CountThreads, CountThreadsIf, Go, Serving, Stopping
      <4>2. Serving = {w}
        <5>1. thrCount \in Nat \ {0} /\ thrCount = Cardinality(Serving)
          BY <4>1, CountIsPositive DEF Counting, CountIsExact
        <5>2. thrCount = 1
          BY <3>2, <5>1
        <5> QED BY <4>1, <5>1, <5>2, ServingIsFinite
      <4>3. \A x \in Workers : pc'[x] \notin Looping
        BY <4>1, <4>2 DEF Serving, Looping, TypeOK
      <4> QED BY <4>3 DEF StopIsPassedOn
    <3> QED BY <3>1, <3>2
  <2>6. CASE PassStop(w)
    BY <1>1, <2>6 DEF PassStop, PassStopWith, StopIsPassedOn, Queued
  <2>7. CASE Exit(w)
    BY <2>1, <2>7 DEF Exit, ExitWith, Queued, Looping, Stopping
  <2>8. CASE CloseWorker(w)
    BY <2>1, <2>8 DEF CloseWorker, CloseWorkerIf, Queued, Looping, Stopping
  <2>9. CASE DeactivateQueue(w)
    BY <2>9 DEF DeactivateQueue, StopIsPassedOn
  <2>10. CASE FlushQueue(w)
    <3>1. Serving = {}
      BY <2>10, WorkersAssumption, ServingIsFinite DEF FlushQueue, Counting, CountIsExact
    <3>2. \A x \in Workers : pc'[x] \notin Looping
      BY <2>10, <3>1 DEF FlushQueue, Go, TypeOK, Serving, Looping
    <3> QED BY <3>2 DEF StopIsPassedOn
  <2> QED BY <1>6, <2>2, <2>3, <2>4, <2>5, <2>6, <2>7, <2>8, <2>9, <2>10 DEF Work
<1>7. CASE CloseModule
  BY <1>7 DEF CloseModule, CloseModuleWith, StopIsPassedOn
<1>8. CASE Initialize
  BY <1>8 DEF Initialize, StopIsPassedOn, Looping
<1>9. CASE Open
  BY <1>9 DEF Open, StopIsPassedOn, Looping
<1>10. CASE UNCHANGED vars
  BY <1>3, <1>10 DEF Queued
<1> QED BY <1>4, <1>5, <1>6, <1>7, <1>8, <1>9, <1>10 DEF Next, Stream

\* However many workers there are, a worker that leaves svc() on an MB_STOP leaves
\* another one in the queue, or in the hands of a colleague, for those that stay.
THEOREM StopCorrect == Spec => []StopIsPassedOn
<1> QED BY StopInit, StopStep, TypeCorrect, CountingInvariant, PTL DEF Spec

-----------------------------------------------------------------------------
(* The last thread cleans up. *)

\* How far the last thread has got with close(0).
CleaningUp ==
  /\ thrCount = 0 => lastThread # None
  /\ \A w \in Workers : lastThread = w =>
       /\ pc[w] \in {"closing", "deactivate", "flush", "idle"}
       /\ pc[w] # "closing" => threadIds = {}
       /\ pc[w] \in {"flush", "idle"} => ~active
       /\ pc[w] = "idle" => queue = <<>>

\* From open() on, each step keeps what the last thread has done so far.
LEMMA CleaningUpStep ==
  TypeOK /\ Counting /\ (phase # "ready" => CleaningUp) /\ [Next]_vars
    => (phase # "ready" => CleaningUp)'
<1> SUFFICES ASSUME TypeOK, Counting, phase # "ready" => CleaningUp, [Next]_vars,
                    phase' # "ready"
             PROVE  CleaningUp'
  OBVIOUS
<1> USE DEF CleaningUp
<1>1. ASSUME phase # "ready", UNCHANGED <<pc, threads, active>>,
             ~active /\ queue = <<>> => queue' = <<>>
      PROVE  CleaningUp'
  BY <1>1
<1>2. CASE Upstream
  BY <1>1, <1>2 DEF Upstream, Put, PutExpedited, PutAbort, PutFlush, StopTask, AtTail, AtHead,
                    Counting, AllIdle
<1>3. ASSUME NEW m \in Messages, HandleInline(m) PROVE CleaningUp'
  BY <1>1, <1>3, WithoutEmpty DEF HandleInline
<1>4. ASSUME NEW w \in Workers, Work(w) PROVE CleaningUp'
  <2>1. phase # "ready"
    BY <1>4 DEF Work, Get, Handle, StopSelf, CountThreads, CountThreadsIf, PassStop,
                PassStopWith, Exit, ExitWith, CloseWorker, CloseWorkerIf, DeactivateQueue,
                FlushQueue, Counting, AllIdle
  \* While a worker serves the queue there is no last thread yet.
  <2>2. ASSUME w \in Serving PROVE lastThread = None /\ thrCount \in Nat \ {0}
    BY <2>2, CountIsPositive DEF Counting
  <2>3. ASSUME w \in Serving, UNCHANGED threads PROVE CleaningUp'
    BY <2>2, <2>3, WorkersAssumption
  <2>4. CASE Get(w)
    BY <2>3, <2>4 DEF Get, Serving, Looping
  <2>5. CASE Handle(w)
    BY <2>3, <2>5 DEF Handle, Serving, Looping
  <2>6. CASE StopSelf(w)
    BY <2>3, <2>6 DEF StopSelf, Serving, Looping
  <2>7. CASE CountThreads(w)
    BY <2>3, <2>7 DEF CountThreads, CountThreadsIf, Serving, Stopping
  <2>8. CASE PassStop(w)
    BY <2>3, <2>8 DEF PassStop, PassStopWith, Serving, Stopping
  <2>9. CASE Exit(w)
    <3>1. w \in Serving
      BY <2>9 DEF Exit, ExitWith, Serving
    <3>2. CASE thrCount = 1
      <4>1. lastThread' = w /\ pc'[w] = "closing"
        BY <2>9, <3>2 DEF Exit, ExitWith, Go, TypeOK
      <4> QED BY <4>1, WorkersAssumption
    <3>3. CASE thrCount # 1
      <4>1. lastThread' = None /\ thrCount' # 0
        BY <2>2, <2>9, <3>1, <3>3 DEF Exit, ExitWith
      <4> QED BY <4>1, WorkersAssumption
    <3> QED BY <3>2, <3>3
  <2>10. CASE CloseWorker(w)
    BY <2>1, <2>10 DEF CloseWorker, CloseWorkerIf, Go, TypeOK
  <2>11. CASE DeactivateQueue(w)
    BY <2>1, <2>11 DEF DeactivateQueue, Go, TypeOK, Counting
  <2>12. CASE FlushQueue(w)
    BY <2>1, <2>12 DEF FlushQueue, Go, TypeOK, Counting
  <2> QED BY <1>4, <2>4, <2>5, <2>6, <2>7, <2>8, <2>9, <2>10, <2>11, <2>12 DEF Work
<1>5. CASE CloseModule
  BY <1>5 DEF CloseModule, CloseModuleWith
<1>6. CASE Open
  <2>1. thrCount' # 0 /\ lastThread' = None
    BY <1>6, WorkersAssumption, FS_EmptySet DEF Open
  <2> QED BY <2>1, WorkersAssumption
<1>7. CASE UNCHANGED vars
  BY <1>1, <1>7
<1> QED BY <1>2, <1>3, <1>4, <1>5, <1>6, <1>7 DEF Next, Stream, Initialize

\* When every worker has gone, the last one has deactivated and flushed the queue
\* and cleared the thread ids, and no later put() has left anything in it.
THEOREM LastThreadCorrect == Spec => []LastThreadCleansUp
<1>1. Init => (phase # "ready" => CleaningUp)
  BY DEF Init
<1>2. TypeOK /\ Counting /\ (phase # "ready" => CleaningUp) => LastThreadCleansUp
  <2> SUFFICES ASSUME TypeOK, Counting, CleaningUp, AllIdle
               PROVE  ~active /\ queue = <<>> /\ threadIds = {}
    BY DEF LastThreadCleansUp
  <2>1. Serving = {}
    BY DEF AllIdle, Serving, Looping, Stopping
  <2>2. lastThread \in Workers
    BY <2>1, ServingIsFinite DEF Counting, CountIsExact, CleaningUp, TypeOK
  <2> QED BY <2>2 DEF AllIdle, CleaningUp
<1> QED BY <1>1, <1>2, CleaningUpStep, TypeCorrect, CountingInvariant, PTL DEF Spec

-----------------------------------------------------------------------------
(* The module is popped. *)

\* ACE has closed the queue of a module that is being popped, and nobody fills it again.
ClosedQueueIsEmpty == phase = "closing" => ~active /\ queue = <<>>

LEMMA ClosedQueueStep ==
  ASSUME TypeOK, ClosedQueueIsEmpty, [Next]_vars
  PROVE  ClosedQueueIsEmpty'
<1> USE DEF ClosedQueueIsEmpty
<1>1. ASSUME UNCHANGED <<phase, active>>, ~active /\ queue = <<>> => queue' = <<>>
      PROVE  ClosedQueueIsEmpty'
  BY <1>1
<1>2. CASE Upstream
  BY <1>1, <1>2 DEF Upstream, Put, PutExpedited, PutAbort, PutFlush, StopTask, AtTail, AtHead
<1>3. ASSUME NEW m \in Messages, HandleInline(m) PROVE ClosedQueueIsEmpty'
  BY <1>1, <1>3, WithoutEmpty DEF HandleInline
<1>4. ASSUME NEW w \in Workers, Work(w) PROVE ClosedQueueIsEmpty'
  <2>1. CASE Get(w)
    BY <1>1, <2>1 DEF Get
  <2>2. CASE Handle(w)
    BY <1>1, <2>2, WithoutEmpty DEF Handle
  <2>3. CASE StopSelf(w) \/ PassStop(w)
    BY <1>1, <2>3 DEF StopSelf, PassStop, PassStopWith, AtTail
  <2>4. CASE CountThreads(w) \/ Exit(w) \/ CloseWorker(w)
    BY <1>1, <2>4 DEF CountThreads, CountThreadsIf, Exit, ExitWith, CloseWorker, CloseWorkerIf
  <2>5. CASE DeactivateQueue(w) \/ FlushQueue(w)
    BY <2>5 DEF DeactivateQueue, FlushQueue
  <2> QED BY <1>4, <2>1, <2>2, <2>3, <2>4, <2>5 DEF Work
<1>5. CASE Stream
  BY <1>5 DEF Stream, CloseModule, CloseModuleWith, Initialize, Open
<1>6. CASE UNCHANGED vars
  BY <1>1, <1>6
<1> QED BY <1>2, <1>3, <1>4, <1>5, <1>6 DEF Next

LEMMA ClosedQueueInvariant == Spec => []ClosedQueueIsEmpty
<1>1. Init => ClosedQueueIsEmpty
  BY DEF Init, ClosedQueueIsEmpty
<1>2. TypeOK /\ ClosedQueueIsEmpty /\ [Next]_vars => ClosedQueueIsEmpty'
  BY ClosedQueueStep
<1> QED BY <1>1, <1>2, TypeCorrect, PTL DEF Spec

-----------------------------------------------------------------------------
(* The order of the messages.  Before(q, x, y) says that some x is ahead of *)
(* some y in q; sent is the order in which the queue accepted them.         *)

Ordinary == Messages \ Overtaking          \* messages that do not overtake the queue
Taken == Range(log) \cup Range(held)
AllLooping == \A w \in Workers : pc[w] \in Looping

\* An MB_STOP that is queued was accepted in this session, and so was the one that made a
\* worker leave its loop: as long as the module is not popped it leaves for no other reason.
StopWasSent ==
  Stop \in Queued \/ (phase = "open" /\ ~AllLooping) => Stop \in Range(sent)

\* A queued message that came behind no MB_STOP has none ahead of it, and all workers in
\* front of it; those that were left over came behind one.
AheadOfStops ==
  /\ \A m \in Queued \cap Messages : ~Before(sent, Stop, m) =>
       ~Before(queue, Stop, m) /\ (phase = "open" => AllLooping)
  /\ \A m \in leftover : Before(sent, Stop, m)

\* The ordinary messages of the queue are in the order in which they were sent, and those
\* that were taken came ahead of them.
Ordered ==
  /\ \A m \in Ordinary : /\ m \in Queued => m \in Range(sent)
                         /\ m \in unsent => m \notin Range(sent) \cup Taken
                         /\ ~Before(sent, m, m)
  /\ \A x, y \in Ordinary : Before(queue, x, y) => Before(sent, x, y)
  /\ \A x, y \in Ordinary : y \in Taken /\ Before(sent, x, y) => x \notin Queued

\* What the operations on the queue do to it, ...
LEMMA AtEnds ==
  ASSUME TypeOK, NEW m \in Items
  PROVE  /\ Range(AtTail(m)) \subseteq Queued \cup {m} /\ Range(AtHead(m)) \subseteq Queued \cup {m}
         /\ \A x, y : Before(AtTail(m), x, y) => Before(queue, x, y) \/ (x \in Queued /\ y = m)
         /\ \A x, y : Before(AtHead(m), x, y) => Before(queue, x, y) \/ (x = m /\ y \in Queued)
<1>1. queue \in Seq(Items)
  BY DEF TypeOK
<1>2. Range(Append(queue, m)) = Queued \cup {m} /\ Range(<<m>> \o queue) = Queued \cup {m}
  BY <1>1, RangeAppend, RangePrepend DEF Queued
<1>3. \A x, y : Before(Append(queue, m), x, y) => Before(queue, x, y) \/ (x \in Queued /\ y = m)
  BY <1>1, BeforeAppend DEF Queued
<1>4. \A x, y : Before(<<m>> \o queue, x, y) => Before(queue, x, y) \/ (x = m /\ y \in Queued)
  BY <1>1, BeforePrepend DEF Queued
<1> QED BY <1>2, <1>3, <1>4 DEF AtTail, AtHead, Queued

LEMMA AfterFlush ==
  ASSUME TypeOK, NEW S
  PROVE  /\ Range(Without(queue, S)) \subseteq Queued /\ Range(<<>>) = {}
         /\ \A x, y : Before(Without(queue, S), x, y) => Before(queue, x, y)
         /\ \A x, y : ~Before(<<>>, x, y)
<1>1. queue \in Seq(Items) /\ <<>> \in Seq(Items) /\ Len(<<>>) = 0
  BY EmptySeq DEF TypeOK
<1>2. Range(<<>>) = {<<>>[i] : i \in 1..Len(<<>>)}
  BY <1>1, RangeEquality
<1>3. 1..Len(<<>>) = {}
  BY <1>1
<1> QED BY <1>1, <1>2, <1>3, WithoutOrder DEF Queued, Before

LEMMA AfterGet ==
  ASSUME TypeOK, queue # <<>>
  PROVE  /\ Head(queue) \in Queued /\ Range(Tail(queue)) \subseteq Queued
         /\ \A x, y : Before(Tail(queue), x, y) => Before(queue, x, y)
         /\ \A y \in Range(Tail(queue)) : Before(queue, Head(queue), y)
<1>1. queue \in Seq(Items)
  BY DEF TypeOK
<1>2. Head(queue) \in Queued
  <2>1. Len(queue) \in Nat /\ Len(queue) # 0 /\ Head(queue) = queue[1]
    BY <1>1, LenProperties, EmptySeq
  <2>2. 1 \in 1..Len(queue)
    BY <2>1
  <2> QED BY <1>1, <2>1, <2>2, RangeEquality DEF Queued
<1> QED BY <1>1, <1>2, BeforeTail DEF Queued

\* ... and what accepting a message does to the order.
LEMMA Accepting ==
  ASSUME TypeOK, NEW m \in Items, Accept(m)
  PROVE  /\ Range(sent) \subseteq Range(sent') /\ Range(sent') \subseteq Range(sent) \cup {m}
         /\ active => m \in Range(sent')
         /\ \A x, y : Before(sent', x, y) => Before(sent, x, y) \/ (x \in Range(sent) /\ y = m)
         /\ \A x, y : Before(sent, x, y) => Before(sent', x, y)
         /\ active /\ Stop \in Range(sent) => Before(sent', Stop, m)
<1>1. sent \in Seq(Items)
  BY DEF TypeOK
<1>2. Range(Append(sent, m)) = Range(sent) \cup {m}
  BY <1>1, RangeAppend
<1>3. \A x, y : Before(Append(sent, m), x, y) <=> Before(sent, x, y) \/ (x \in Range(sent) /\ y = m)
  BY <1>1, BeforeAppend
<1>4. CASE active
  <2>1. sent' = Append(sent, m)
    BY <1>4 DEF Accept
  <2> QED BY <1>2, <1>3, <2>1
<1>5. CASE ~active
  BY <1>5 DEF Accept
<1> QED BY <1>4, <1>5

-----------------------------------------------------------------------------
(* MB_STOP was sent. *)

LEMMA StopSentStep ==
  ASSUME TypeOK, Counting, LastThreadCleansUp, ClosedQueueIsEmpty, StopWasSent, [Next]_vars
  PROVE  StopWasSent'
<1> USE DEF StopWasSent
<1>0. Messages \subseteq Items /\ Stop \in Items /\ Stop \notin Messages
  BY MessagesAssumption DEF Items
<1>1. ASSUME Range(sent) \subseteq Range(sent'), Queued' \subseteq Queued \cup Messages,
             phase' = "open" => phase = "open", AllLooping => AllLooping'
      PROVE  StopWasSent'
  BY <1>0, <1>1
<1>2. ASSUME UNCHANGED pc PROVE AllLooping' = AllLooping
  BY <1>2 DEF AllLooping
<1>3. \A m \in Messages : /\ Range(AtTail(m)) \subseteq Queued \cup Messages
                          /\ Range(AtHead(m)) \subseteq Queued \cup Messages
                          /\ Accept(m) => Range(sent) \subseteq Range(sent')
  BY <1>0, AtEnds, Accepting
<1>4. \A S : Range(Without(queue, S)) \subseteq Queued /\ Range(<<>>) = {}
  BY AfterFlush
<1>5. ASSUME NEW m \in Messages, Put(m) \/ PutExpedited(m) PROVE StopWasSent'
  BY <1>1, <1>2, <1>3, <1>5 DEF Put, PutExpedited, Queued
<1>6. ASSUME NEW m \in Messages, PutAbort(m) PROVE StopWasSent'
  BY <1>1, <1>2, <1>3, <1>6 DEF PutAbort, Queued
<1>7. CASE PutFlush
  BY <1>1, <1>2, <1>4, <1>7 DEF PutFlush, Queued
<1>8. ASSUME Accept(Stop), UNCHANGED active, Queued' \subseteq Queued \cup {Stop},
             ~active => Queued' \subseteq Queued,
             phase' = "open" => phase = "open", AllLooping => AllLooping'
      PROVE  StopWasSent'
  <2>1. Range(sent) \subseteq Range(sent') /\ (active => Stop \in Range(sent'))
    BY <1>0, <1>8, Accepting
  <2> QED BY <1>8, <2>1
<1>9. Range(AtTail(Stop)) \subseteq Queued \cup {Stop} /\ Range(AtHead(Stop)) \subseteq Queued \cup {Stop}
      /\ (~active => Range(AtTail(Stop)) = Queued /\ Range(AtHead(Stop)) = Queued)
  BY <1>0, AtEnds DEF AtTail, AtHead, Queued
<1>10. ASSUME NEW highPriority \in BOOLEAN, StopTask(highPriority) PROVE StopWasSent'
  BY <1>2, <1>8, <1>9, <1>10 DEF StopTask, Queued
<1>11. ASSUME NEW m \in Messages, HandleInline(m) PROVE StopWasSent'
  BY <1>1, <1>2, <1>4, <1>11 DEF HandleInline, Queued
<1>12. ASSUME NEW w \in Workers, Work(w) PROVE StopWasSent'
  <2>1. phase # "ready" /\ phase' = phase
    BY <1>12 DEF Work, Get, Handle, StopSelf, CountThreads, CountThreadsIf, PassStop,
                 PassStopWith, Exit, ExitWith, CloseWorker, CloseWorkerIf, DeactivateQueue,
                 FlushQueue, Counting, AllIdle
  \* The worker is out of its loop already.
  <2>2. ASSUME pc[w] \notin Looping, Queued' \subseteq Queued \cup {Stop}, UNCHANGED sent,
               ~active => Queued' \subseteq Queued
        PROVE  StopWasSent'
    <3>1. phase = "open" => Stop \in Range(sent)
      BY <2>2 DEF AllLooping
    <3>2. phase = "closing" => Queued' \subseteq Queued
      BY <2>2 DEF ClosedQueueIsEmpty
    <3>3. phase \in {"open", "closing"}
      BY <2>1 DEF TypeOK
    <3> QED BY <2>1, <2>2, <3>1, <3>2, <3>3
  <2>3. ASSUME NEW place \in Looping, Go(w, place) PROVE AllLooping => AllLooping'
    BY <2>3 DEF Go, TypeOK, AllLooping
  <2>4. CASE Get(w)
    \* The queue was closed below the worker.
    <3>0. CASE ~active
      <4>1. phase # "open"
        BY <2>4, <3>0 DEF Get, Counting, ServedQueueIsActive, Serving, Looping
      <4> QED BY <2>1, <2>4, <3>0, <4>1 DEF Get, Queued
    <3>1. CASE active
      <4>1. queue # <<>>
        BY <2>4, <3>1 DEF Get
      <4>2. Head(queue) \in Queued /\ Range(Tail(queue)) \subseteq Queued
        BY <4>1, AfterGet
      <4>3. /\ queue' = Tail(queue) /\ UNCHANGED sent
            /\ Go(w, IF Head(queue) = Stop THEN "stop" ELSE "handle")
        BY <2>4, <3>1 DEF Get
      <4>4. CASE Head(queue) = Stop
        BY <4>2, <4>3, <4>4 DEF Queued
      <4>5. CASE Head(queue) # Stop
        BY <1>1, <2>1, <2>3, <4>2, <4>3, <4>5 DEF Queued, Looping
      <4> QED BY <4>4, <4>5
    <3> QED BY <3>0, <3>1
  <2>5. CASE Handle(w)
    <3>1. \E place \in Looping : Go(w, place)
      BY <2>5 DEF Handle, Looping
    <3> QED BY <1>1, <1>4, <2>1, <2>3, <2>5, <3>1 DEF Handle, Queued
  <2>6. CASE StopSelf(w)
    <3>1. \E place \in Looping : Go(w, place)
      BY <2>6 DEF StopSelf, Looping
    <3> QED BY <1>8, <1>9, <2>1, <2>3, <2>6, <3>1 DEF StopSelf, Queued
  <2>7. CASE CountThreads(w)
    BY <2>2, <2>7 DEF CountThreads, CountThreadsIf, Queued, Looping
  <2>8. CASE PassStop(w)
    BY <1>9, <2>2, <2>8 DEF PassStop, PassStopWith, Queued, Looping
  <2>9. CASE Exit(w)
    BY <2>2, <2>9 DEF Exit, ExitWith, Queued, Looping
  <2>10. CASE CloseWorker(w)
    BY <2>2, <2>10 DEF CloseWorker, CloseWorkerIf, Queued, Looping
  <2>11. CASE DeactivateQueue(w)
    BY <2>2, <2>11 DEF DeactivateQueue, Queued, Looping
  <2>12. CASE FlushQueue(w)
    BY <1>4, <2>2, <2>12 DEF FlushQueue, Queued, Looping
  <2> QED BY <1>12, <2>4, <2>5, <2>6, <2>7, <2>8, <2>9, <2>10, <2>11, <2>12 DEF Work
<1>13. CASE CloseModule
  <2>1. Queued' = {} /\ phase' = "closing"
    BY <1>4, <1>13 DEF CloseModule, CloseModuleWith, Queued
  <2> QED BY <2>1
<1>14. CASE Initialize
  <2>1. queue = <<>>
    BY <1>14 DEF Initialize, LastThreadCleansUp, AllIdle
  <2>2. Queued = {} /\ Queued' \subseteq Queued
    BY <1>4, <1>14, <2>1 DEF Initialize, Queued
  <2> QED BY <1>14, <2>2 DEF Initialize
<1>15. CASE Open
  <2>1. AllLooping'
    BY <1>15 DEF Open, AllLooping, Looping
  <2> QED BY <1>15, <2>1 DEF Open, Queued
<1>16. CASE UNCHANGED vars
  BY <1>1, <1>2, <1>16 DEF Queued
<1> QED BY <1>5, <1>6, <1>7, <1>10, <1>11, <1>12, <1>13, <1>14, <1>15, <1>16
        DEF Next, Upstream, Stream

\* It holds throughout.
LEMMA StopSentInvariant == Spec => []StopWasSent
<1>1. Init => StopWasSent
  <2> SUFFICES ASSUME Init PROVE StopWasSent
    OBVIOUS
  <2>1. queue = <<>> /\ phase = "ready"
    BY DEF Init
  <2>2. Queued = {}
    BY <2>1, TypeInit, AfterFlush DEF Queued
  <2> QED BY <2>1, <2>2 DEF StopWasSent
<1>2. TypeOK /\ Counting /\ LastThreadCleansUp /\ ClosedQueueIsEmpty /\ StopWasSent
        /\ [Next]_vars => StopWasSent'
  BY StopSentStep
<1> QED BY <1>1, <1>2, TypeCorrect, CountingInvariant, LastThreadCorrect, ClosedQueueInvariant,
           PTL DEF Spec

-----------------------------------------------------------------------------
(* What the last worker releases. *)

\* A message is put: behind an MB_STOP, or with all workers in front of it.
LEMMA AheadPut ==
  ASSUME TypeOK, StopWasSent, AheadOfStops, NEW m \in Messages, Accept(m),
         queue' \in {AtTail(m), AtHead(m)}, UNCHANGED <<active, pc, phase, leftover>>
  PROVE  AheadOfStops'
<1>0. m \in Items /\ m # Stop
  BY MessagesAssumption DEF Items
<1>1. \A x, y : Before(sent, x, y) => Before(sent', x, y)
  BY <1>0, Accepting
<1>2. AllLooping' = AllLooping
  BY DEF AllLooping
<1>3. ASSUME NEW x \in Queued' \cap Messages, ~Before(sent', Stop, x)
      PROVE  ~Before(queue', Stop, x) /\ (phase = "open" => AllLooping)
  <2>1. ~Before(sent, Stop, x)
    BY <1>1, <1>3
  <2>2. CASE ~active
    <3>1. queue' = queue
      BY <2>2 DEF AtTail, AtHead
    <3> QED BY <1>3, <2>1, <3>1 DEF AheadOfStops, Queued
  <2>3. CASE active /\ Stop \in Range(sent)
    <3>1. x # m
      BY <1>0, <1>3, <2>3, Accepting
    <3>2. x \in Queued
      BY <1>0, <1>3, <3>1, AtEnds DEF Queued
    <3>3. Before(queue', Stop, x) => Before(queue, Stop, x)
      BY <1>0, <3>1, AtEnds
    <3> QED BY <2>1, <3>2, <3>3 DEF AheadOfStops
  <2>4. CASE Stop \notin Range(sent)
    <3>1. Stop \notin Queued /\ (phase = "open" => AllLooping)
      BY <2>4 DEF StopWasSent
    <3>2. ~Before(queue, Stop, x)
      <4>1. Range(queue) = {queue[i] : i \in 1..Len(queue)}
        BY RangeEquality DEF TypeOK
      <4> QED BY <3>1, <4>1 DEF Before, Queued
    <3> QED BY <1>0, <3>1, <3>2, AtEnds
  <2> QED BY <2>2, <2>3, <2>4
<1> QED BY <1>1, <1>2, <1>3 DEF AheadOfStops

\* A step that adds no message, and takes no worker out of its loop.
LEMMA AheadStays ==
  ASSUME AheadOfStops, \A x : Before(sent, Stop, x) => Before(sent', Stop, x),
         \A x \in Messages : /\ x \in Queued' => x \in Queued
                             /\ Before(queue', Stop, x) => Before(queue, Stop, x),
         phase' = "open" => phase = "open", AllLooping => AllLooping', leftover' = leftover
  PROVE  AheadOfStops'
BY DEF AheadOfStops

\* A step of a worker that is out of its loop, or of a module that is being popped.
LEMMA AheadLate ==
  ASSUME AheadOfStops, sent' = sent, (phase = "open" /\ ~AllLooping) \/ Queued = {},
         \A x \in Messages : x \in Queued' => x \in Queued,
         leftover' \subseteq leftover \cup (Queued \cap Messages)
  PROVE  AheadOfStops'
BY DEF AheadOfStops

LEMMA AheadStep ==
  ASSUME TypeOK, Counting, LastThreadCleansUp, ClosedQueueIsEmpty, StopWasSent,
         ~overtaken => AheadOfStops, [Next]_vars, ~overtaken'
  PROVE  AheadOfStops'
<1>0. Messages \subseteq Items /\ Stop \in Items /\ Stop \notin Messages
  BY MessagesAssumption DEF Items
<1>1. ASSUME UNCHANGED overtaken PROVE AheadOfStops
  BY <1>1
<1>2. ASSUME UNCHANGED pc PROVE AllLooping' = AllLooping
  BY <1>2 DEF AllLooping
<1>3. \A S : /\ Range(Without(queue, S)) \subseteq Queued /\ Range(<<>>) = {}
             /\ \A x, y : Before(Without(queue, S), x, y) => Before(queue, x, y)
             /\ \A x, y : ~Before(<<>>, x, y)
  BY AfterFlush
<1>4. ASSUME NEW m \in Messages, Put(m) \/ PutExpedited(m) PROVE AheadOfStops'
  BY <1>1, <1>4, AheadPut DEF Put, PutExpedited
<1>5. ASSUME NEW m \in Messages, PutAbort(m) PROVE AheadOfStops'
  <2>1. CASE thrCount = 0 \/ isShuttingDown
    BY <1>1, <1>2, <1>5, <2>1, AheadStays DEF PutAbort, Queued
  <2>2. CASE ~(thrCount = 0 \/ isShuttingDown)
    BY <1>1, <1>5, <2>2, AheadPut DEF PutAbort
  <2> QED BY <2>1, <2>2
<1>6. CASE PutFlush
  <2>1. Queued' = {} /\ \A x, y : ~Before(queue', x, y)
    BY <1>3, <1>6 DEF PutFlush, Queued
  <2> QED BY <1>1, <1>2, <1>6, <2>1, AheadStays DEF PutFlush
<1>7. ASSUME Accept(Stop), queue' = AtTail(Stop), UNCHANGED <<active, phase, leftover, overtaken>>,
             AllLooping => AllLooping'
      PROVE  AheadOfStops'
  <2>1. \A x, y : Before(sent, x, y) => Before(sent', x, y)
    BY <1>0, <1>7, Accepting
  <2>2. \A x \in Messages : /\ x \in Queued' => x \in Queued
                            /\ Before(queue', Stop, x) => Before(queue, Stop, x)
    BY <1>0, <1>7, AtEnds DEF Queued
  <2> QED BY <1>1, <1>7, <2>1, <2>2, AheadStays
<1>8. ASSUME NEW highPriority \in BOOLEAN, StopTask(highPriority) PROVE AheadOfStops'
  <2>1. ~highPriority /\ UNCHANGED overtaken
    BY <1>8 DEF StopTask, TypeOK
  <2> QED BY <1>2, <1>7, <1>8, <2>1 DEF StopTask
<1>9. ASSUME NEW m \in Messages, HandleInline(m) PROVE AheadOfStops'
  BY <1>1, <1>2, <1>3, <1>9, AheadStays DEF HandleInline, Queued
<1>10. ASSUME NEW w \in Workers, Work(w) PROVE AheadOfStops'
  <2>1. phase # "ready" /\ phase' = phase /\ UNCHANGED overtaken
    BY <1>10 DEF Work, Get, Handle, StopSelf, CountThreads, CountThreadsIf, PassStop,
                 PassStopWith, Exit, ExitWith, CloseWorker, CloseWorkerIf, DeactivateQueue,
                 FlushQueue, Counting, AllIdle
  <2>2. AheadOfStops
    BY <1>1, <2>1
  <2>3. ASSUME pc[w] \notin Looping, UNCHANGED sent,
               leftover' \subseteq leftover \cup (Queued \cap Messages),
               \A x \in Messages : x \in Queued' => x \in Queued
        PROVE  AheadOfStops'
    <3>1. ~AllLooping
      BY <2>3 DEF AllLooping
    <3>2. phase = "open" \/ Queued = {}
      BY <1>3, <2>1 DEF ClosedQueueIsEmpty, TypeOK, Queued
    <3> QED BY <2>2, <2>3, <3>1, <3>2, AheadLate
  <2>4. ASSUME NEW place \in Looping, Go(w, place) PROVE AllLooping => AllLooping'
    BY <2>4 DEF Go, TypeOK, AllLooping
  <2>5. CASE Get(w)
    \* The queue was closed, and emptied, below the worker.
    <3>0. CASE ~active
      <4>1. phase = "closing"
        BY <2>1, <2>5, <3>0 DEF Get, Counting, ServedQueueIsActive, Serving, Looping, TypeOK
      <4>2. Queued = {} /\ Queued' = Queued /\ UNCHANGED <<sent, leftover>>
        BY <1>3, <2>5, <3>0, <4>1 DEF Get, ClosedQueueIsEmpty, Queued
      <4> QED BY <2>2, <4>2, AheadLate
    <3>1. CASE active
      <4>1. queue # <<>>
        BY <2>5, <3>1 DEF Get
      <4>2. /\ Head(queue) \in Queued /\ Range(Tail(queue)) \subseteq Queued
            /\ \A x, y : Before(Tail(queue), x, y) => Before(queue, x, y)
            /\ \A y \in Range(Tail(queue)) : Before(queue, Head(queue), y)
        BY <4>1, AfterGet
      <4>3. /\ queue' = Tail(queue) /\ UNCHANGED <<sent, leftover>>
            /\ Go(w, IF Head(queue) = Stop THEN "stop" ELSE "handle")
        BY <2>5, <3>1 DEF Get
      \* All that were behind the MB_STOP in the queue were sent behind one.
      <4>4. CASE Head(queue) = Stop
        <5>1. \A x \in Queued' \cap Messages : x \in Queued /\ Before(queue, Stop, x)
          BY <4>2, <4>3, <4>4 DEF Queued
        <5>2. \A x \in Queued' \cap Messages : Before(sent', Stop, x)
          BY <2>2, <4>3, <5>1 DEF AheadOfStops
        <5> QED BY <2>2, <4>3, <5>2 DEF AheadOfStops
      <4>5. CASE Head(queue) # Stop
        <5>1. AllLooping => AllLooping'
          BY <2>4, <4>3, <4>5 DEF Looping
        <5> QED BY <2>1, <2>2, <4>2, <4>3, <5>1, AheadStays DEF Queued
      <4> QED BY <4>4, <4>5
    <3> QED BY <3>0, <3>1
  <2>6. CASE Handle(w)
    <3>1. \E place \in Looping : Go(w, place)
      BY <2>6 DEF Handle, Looping
    <3>2. AllLooping => AllLooping'
      BY <2>4, <3>1
    <3>3. Queued' \subseteq Queued /\ \A x, y : Before(queue', x, y) => Before(queue, x, y)
      BY <1>3, <2>6 DEF Handle, Queued
    <3>4. UNCHANGED <<sent, leftover>>
      BY <2>6 DEF Handle
    <3> QED BY <2>1, <2>2, <3>2, <3>3, <3>4, AheadStays
  <2>7. CASE StopSelf(w)
    <3>1. \E place \in Looping : Go(w, place)
      BY <2>7 DEF StopSelf, Looping
    <3> QED BY <1>7, <2>4, <2>7, <3>1 DEF StopSelf
  <2>8. CASE CountThreads(w)
    BY <2>3, <2>8 DEF CountThreads, CountThreadsIf, Queued, Looping
  <2>9. CASE PassStop(w)
    <3>1. \A x \in Messages : x \in Range(AtTail(Stop)) => x \in Queued
      BY <1>0, AtEnds
    <3> QED BY <2>3, <2>9, <3>1 DEF PassStop, PassStopWith, Queued, Looping
  <2>10. CASE Exit(w)
    BY <2>3, <2>10 DEF Exit, ExitWith, Queued, Looping
  <2>11. CASE CloseWorker(w)
    BY <2>3, <2>11 DEF CloseWorker, CloseWorkerIf, Queued, Looping
  <2>12. CASE DeactivateQueue(w)
    BY <2>3, <2>12 DEF DeactivateQueue, Queued, Looping
  <2>13. CASE FlushQueue(w)
    BY <1>3, <2>3, <2>13 DEF FlushQueue, Queued, Looping
  <2> QED BY <1>10, <2>5, <2>6, <2>7, <2>8, <2>9, <2>10, <2>11, <2>12, <2>13 DEF Work
<1>11. CASE CloseModule
  <2>1. UNCHANGED <<sent, leftover, overtaken>> /\ Queued' = {}
    BY <1>3, <1>11 DEF CloseModule, CloseModuleWith, Queued
  <2> QED BY <1>1, <2>1 DEF AheadOfStops
<1>12. CASE Initialize
  <2>1. queue = <<>>
    BY <1>12 DEF Initialize, LastThreadCleansUp, AllIdle
  <2>2. Queued' = {} /\ leftover' = {}
    BY <1>3, <1>12, <2>1 DEF Initialize, Queued
  <2> QED BY <2>2 DEF AheadOfStops
<1>13. CASE Open
  <2>1. AllLooping' /\ AheadOfStops
    BY <1>1, <1>13 DEF Open, AllLooping, Looping
  <2>2. UNCHANGED <<queue, sent, leftover>>
    BY <1>13 DEF Open
  <2> QED BY <2>1, <2>2 DEF AheadOfStops, Queued
<1>14. CASE UNCHANGED vars
  BY <1>1, <1>2, <1>14, AheadStays DEF Queued
<1> QED BY <1>4, <1>5, <1>6, <1>8, <1>9, <1>10, <1>11, <1>12, <1>13, <1>14
        DEF Next, Upstream, Stream

\* The session is processed up to its end: the last worker releases no message, unprocessed,
\* that was put ahead of every MB_STOP, however many workers there are.
THEOREM LeftoverCorrect == Spec => []OnlyLateMessagesAreLeftOver
<1>1. Init => (~overtaken => AheadOfStops)
  <2> SUFFICES ASSUME Init PROVE AheadOfStops
    OBVIOUS
  <2>1. queue = <<>> /\ leftover = {}
    BY DEF Init
  <2>2. Queued = {}
    BY <2>1, TypeInit, AfterFlush DEF Queued
  <2> QED BY <2>1, <2>2 DEF AheadOfStops
<1>2. TypeOK /\ Counting /\ LastThreadCleansUp /\ ClosedQueueIsEmpty /\ StopWasSent
        /\ (~overtaken => AheadOfStops) /\ [Next]_vars => (~overtaken => AheadOfStops)'
  BY AheadStep
<1>3. TypeOK /\ (~overtaken => AheadOfStops) => OnlyLateMessagesAreLeftOver
  <2> SUFFICES ASSUME TypeOK, AheadOfStops, NEW m \in leftover
               PROVE  \E i, j \in DOMAIN sent : i < j /\ sent[i] = Stop /\ sent[j] = m
    BY DEF OnlyLateMessagesAreLeftOver
  <2>1. DOMAIN sent = 1..Len(sent)
    BY LenProperties DEF TypeOK
  <2> QED BY <2>1 DEF AheadOfStops, Before
<1> QED BY <1>1, <1>2, <1>3, TypeCorrect, CountingInvariant, LastThreadCorrect,
           ClosedQueueInvariant, StopSentInvariant, PTL DEF Spec

-----------------------------------------------------------------------------
(* Ordinary messages are taken in the order in which they were sent. *)

\* A step that moves no ordinary message forward.
LEMMA OrderedStays ==
  ASSUME Ordered, unsent' \subseteq unsent,
         \A x \in Ordinary : /\ x \in Queued' => x \in Queued
                             /\ x \in Taken' => x \in Taken
                             /\ x \in Range(sent') <=> x \in Range(sent),
         \A x, y \in Ordinary : /\ Before(queue', x, y) => Before(queue, x, y)
                                /\ Before(sent', x, y) <=> Before(sent, x, y)
  PROVE  Ordered'
<1>1. \A m \in Ordinary : /\ m \in Queued' => m \in Range(sent')
                          /\ m \in unsent' => m \notin Range(sent') \cup Taken'
                          /\ ~Before(sent', m, m)
  BY DEF Ordered
<1>2. \A x, y \in Ordinary : Before(queue', x, y) => Before(sent', x, y)
  BY DEF Ordered
<1>3. \A x, y \in Ordinary : y \in Taken' /\ Before(sent', x, y) => x \notin Queued'
  BY DEF Ordered
<1> QED BY <1>1, <1>2, <1>3 DEF Ordered

\* A message that overtakes the others is put, or an MB_STOP.
LEMMA OrderedPutOther ==
  ASSUME TypeOK, Ordered, NEW m \in Items \ Ordinary, Accept(m),
         queue' \in {AtTail(m), AtHead(m)}, unsent' \subseteq unsent, Taken' = Taken
  PROVE  Ordered'
<1>1. \A x \in Ordinary : x # m
  OBVIOUS
<1>2. \A x \in Ordinary : x \in Queued' => x \in Queued
  BY <1>1, AtEnds DEF Queued
<1>3. \A x \in Ordinary : x \in Range(sent') <=> x \in Range(sent)
  BY <1>1, Accepting
<1>4. \A x, y \in Ordinary : Before(queue', x, y) => Before(queue, x, y)
  BY <1>1, AtEnds
<1>5. \A x, y \in Ordinary : Before(sent', x, y) <=> Before(sent, x, y)
  BY <1>1, Accepting
<1> QED BY <1>2, <1>3, <1>4, <1>5, OrderedStays

\* An ordinary message is put.
LEMMA OrderedPut ==
  ASSUME TypeOK, Ordered, NEW m \in Ordinary, Put(m)
  PROVE  Ordered'
<1>0. m \in Items
  BY DEF Ordinary, Items
<1>1. m \in unsent /\ unsent' = unsent \ {m} /\ queue' = AtTail(m) /\ Accept(m) /\ Taken' = Taken
  BY DEF Put, Taken
<1>2. m \notin Range(sent) /\ m \notin Taken /\ m \notin Queued
  BY <1>1 DEF Ordered
<1>3. CASE ~active
  <2>1. queue' = queue /\ sent' = sent
    BY <1>1, <1>3 DEF AtTail, Accept
  <2> QED BY <1>1, <2>1, OrderedStays DEF Queued
<1>4. CASE active
  <2>1. /\ Range(sent) \subseteq Range(sent') /\ Range(sent') \subseteq Range(sent) \cup {m}
        /\ m \in Range(sent')
        /\ \A x, y : Before(sent', x, y) => Before(sent, x, y) \/ (x \in Range(sent) /\ y = m)
        /\ \A x, y : Before(sent, x, y) => Before(sent', x, y)
    BY <1>0, <1>1, <1>4, Accepting
  <2>2. /\ Queued' \subseteq Queued \cup {m}
        /\ \A x, y : Before(queue', x, y) => Before(queue, x, y) \/ (x \in Queued /\ y = m)
    BY <1>0, <1>1, AtEnds DEF Queued
  <2>3. \A x \in Ordinary : /\ x \in Queued' => x \in Range(sent')
                            /\ x \in unsent' => x \notin Range(sent') \cup Taken'
                            /\ ~Before(sent', x, x)
    BY <1>1, <1>2, <2>1, <2>2 DEF Ordered
  \* What is queued was sent before m.
  <2>4. \A x \in Ordinary : x \in Queued => Before(sent', x, m)
    <3>1. sent \in Seq(Items) /\ sent' = Append(sent, m)
      BY <1>1, <1>4 DEF TypeOK, Accept
    <3> QED BY <1>0, <3>1, BeforeAppend DEF Ordered
  <2>5. \A x, y \in Ordinary : Before(queue', x, y) => Before(sent', x, y)
    BY <2>1, <2>2, <2>4 DEF Ordered
  <2>6. ASSUME NEW x \in Ordinary, NEW y \in Ordinary, y \in Taken', Before(sent', x, y)
        PROVE  x \notin Queued'
    <3>1. y \in Taken /\ y # m /\ Before(sent, x, y)
      BY <1>1, <1>2, <2>1, <2>6
    <3>2. x \notin Queued
      BY <3>1 DEF Ordered
    <3>3. x # m
      <4>1. Range(sent) = {sent[i] : i \in 1..Len(sent)}
        BY RangeEquality DEF TypeOK
      <4>2. x \in Range(sent)
        BY <3>1, <4>1 DEF Before
      <4> QED BY <1>2, <4>2
    <3> QED BY <2>2, <3>2, <3>3
  <2> QED BY <2>3, <2>5, <2>6 DEF Ordered
<1> QED BY <1>3, <1>4

\* A worker takes the first message of the queue: all others came behind it.
LEMMA OrderedGet ==
  ASSUME TypeOK, Ordered, NEW w \in Workers, Get(w), active
  PROVE  Ordered'
<1> DEFINE h == Head(queue)
<1>1. /\ queue # <<>> /\ queue' = Tail(queue) /\ UNCHANGED <<unsent, log, sent>>
      /\ held' = [held EXCEPT ![w] = IF h = Stop THEN None ELSE h]
  BY DEF Get
<1>2. /\ h \in Queued /\ Range(Tail(queue)) \subseteq Queued
      /\ \A x, y : Before(Tail(queue), x, y) => Before(queue, x, y)
      /\ \A y \in Range(Tail(queue)) : Before(queue, h, y)
  BY <1>1, AfterGet
<1> HIDE DEF h
<1>3. \A x \in Ordinary : x \in Taken' => x \in Taken \/ x = h
  <2>1. \A x \in Range(held') : x \in Range(held) \/ x \in {None, h}
    BY <1>1 DEF TypeOK, Range
  <2>2. None \notin Ordinary
    BY MessagesAssumption DEF Items, Ordinary
  <2> QED BY <1>1, <2>1, <2>2 DEF Taken
<1>4. \A x \in Ordinary : x \in Queued' => x \in Queued
  BY <1>1, <1>2 DEF Queued
<1>5. \A x \in Ordinary : /\ x \in Queued' => x \in Range(sent')
                          /\ x \in unsent' => x \notin Range(sent') \cup Taken'
                          /\ ~Before(sent', x, x)
  BY <1>1, <1>2, <1>3, <1>4 DEF Ordered
<1>6. \A x, y \in Ordinary : Before(queue', x, y) => Before(sent', x, y)
  BY <1>1, <1>2 DEF Ordered
<1>7. ASSUME NEW x \in Ordinary, NEW y \in Ordinary, y \in Taken', Before(sent', x, y), x \in Queued'
      PROVE  FALSE
  <2>1. CASE y \in Taken
    BY <1>1, <1>4, <1>7, <2>1 DEF Ordered
  <2>2. CASE y = h
    <3>1. Before(sent, x, h) /\ h \in Ordinary
      BY <1>1, <1>7, <2>2
    <3>2. Before(queue, h, x)
      BY <1>1, <1>2, <1>7 DEF Queued
    <3>3. Before(sent, h, x) /\ ~Before(sent, x, x) /\ ~Before(sent, h, h)
      BY <1>7, <3>1, <3>2 DEF Ordered
    <3>4. sent \in Seq(Items)
      BY DEF TypeOK
    <3> QED BY <3>1, <3>3, <3>4, BeforeIsAsymmetric
  <2> QED BY <1>3, <1>7, <2>1, <2>2
<1> QED BY <1>5, <1>6, <1>7 DEF Ordered

LEMMA OrderedStep ==
  ASSUME TypeOK, Counting, LastThreadCleansUp, Ordered, [Next]_vars
  PROVE  Ordered'
<1>0. /\ Messages \subseteq Items /\ Stop \in Items /\ None \notin Ordinary
      /\ \A m \in Aborts \cup Expedited \cup {Stop} : m \in Items \ Ordinary
  BY MessagesAssumption DEF Items, Ordinary, Overtaking, Messages
<1>1. \A S : /\ Range(Without(queue, S)) \subseteq Queued /\ Range(<<>>) = {}
             /\ \A x, y : Before(Without(queue, S), x, y) => Before(queue, x, y)
             /\ \A x, y : ~Before(<<>>, x, y)
  BY AfterFlush
<1>2. ASSUME NEW S, queue' \in {queue, Without(queue, S), <<>>}
      PROVE  /\ \A x : x \in Queued' => x \in Queued
             /\ \A x, y : Before(queue', x, y) => Before(queue, x, y)
  BY <1>1, <1>2 DEF Queued
<1>3. ASSUME NEW S, queue' \in {queue, Without(queue, S), <<>>}, UNCHANGED sent,
             unsent' \subseteq unsent, \A x \in Ordinary : x \in Taken' => x \in Taken
      PROVE  Ordered'
  BY <1>2, <1>3, OrderedStays
<1>4. ASSUME UNCHANGED <<log, held>> PROVE Taken' = Taken
  BY <1>4 DEF Taken
<1>5. ASSUME NEW m \in Messages, Put(m) PROVE Ordered'
  <2>1. m \in Ordinary
    BY <1>5 DEF Put, Ordinary, Overtaking
  <2> QED BY <1>5, <2>1, OrderedPut
<1>6. ASSUME NEW m \in Messages, PutExpedited(m) PROVE Ordered'
  BY <1>0, <1>4, <1>6, OrderedPutOther DEF PutExpedited
<1>7. ASSUME NEW m \in Messages, PutAbort(m) PROVE Ordered'
  <2>1. CASE thrCount = 0 \/ isShuttingDown
    BY <1>3, <1>4, <1>7, <2>1 DEF PutAbort
  <2>2. CASE ~(thrCount = 0 \/ isShuttingDown)
    BY <1>0, <1>4, <1>7, <2>2, OrderedPutOther DEF PutAbort
  <2> QED BY <2>1, <2>2
<1>8. CASE PutFlush
  BY <1>3, <1>4, <1>8 DEF PutFlush
<1>9. ASSUME NEW highPriority \in BOOLEAN, StopTask(highPriority) PROVE Ordered'
  BY <1>0, <1>4, <1>9, OrderedPutOther DEF StopTask
<1>10. ASSUME NEW m \in Messages, HandleInline(m) PROVE Ordered'
  <2>1. m \in Aborts /\ m \in Messages /\ log \in Seq(Messages)
    BY <1>10 DEF HandleInline, TypeOK
  <2>2. Range(log') = Range(log) \cup {m} /\ held' = held
    BY <1>10, <2>1, RangeAppend DEF HandleInline
  <2>3. \A x \in Ordinary : x \in Taken' => x \in Taken
    BY <1>0, <2>1, <2>2 DEF Taken
  <2> QED BY <1>3, <1>10, <2>3 DEF HandleInline
<1>11. ASSUME NEW w \in Workers, Work(w) PROVE Ordered'
  <2>1. CASE Get(w)
    <3>1. CASE active
      BY <2>1, <3>1, OrderedGet
    <3>2. CASE ~active
      BY <1>3, <1>4, <2>1, <3>2 DEF Get
    <3> QED BY <3>1, <3>2
  <2>2. CASE Handle(w)
    <3>1. held[w] # None /\ held[w] \in Messages /\ held[w] \in Range(held) /\ log \in Seq(Messages)
      BY <2>2 DEF Handle, TypeOK, Range
    <3>2. Range(log') = Range(log) \cup {held[w]}
      BY <2>2, <3>1, RangeAppend DEF Handle
    <3>3. \A x \in Range(held') : x \in Range(held) \/ x = None
      BY <2>2 DEF Handle, TypeOK, Range
    <3>4. \A x \in Ordinary : x \in Taken' => x \in Taken
      BY <1>0, <3>1, <3>2, <3>3 DEF Taken
    <3>5. queue' \in {queue, Without(queue, Data), <<>>}
      BY <2>2 DEF Handle
    <3> QED BY <1>3, <2>2, <3>4, <3>5 DEF Handle
  <2>3. CASE StopSelf(w)
    BY <1>0, <1>4, <2>3, OrderedPutOther DEF StopSelf
  <2>4. CASE CountThreads(w)
    BY <1>3, <1>4, <2>4 DEF CountThreads, CountThreadsIf
  <2>5. CASE PassStop(w)
    <3>1. UNCHANGED <<sent, log, held, unsent>> /\ queue' = AtTail(Stop)
      BY <2>5 DEF PassStop, PassStopWith
    <3>2. \A x \in Ordinary : x # Stop
      BY <1>0
    <3>3. \A x \in Ordinary : x \in Queued' => x \in Queued
      BY <1>0, <3>1, <3>2, AtEnds DEF Queued
    <3>4. \A x, y \in Ordinary : Before(queue', x, y) => Before(queue, x, y)
      BY <1>0, <3>1, <3>2, AtEnds
    <3> QED BY <1>4, <3>1, <3>3, <3>4, OrderedStays
  <2>6. CASE Exit(w)
    BY <1>3, <1>4, <2>6 DEF Exit, ExitWith
  <2>7. CASE CloseWorker(w)
    BY <1>3, <1>4, <2>7 DEF CloseWorker, CloseWorkerIf
  <2>8. CASE DeactivateQueue(w)
    BY <1>3, <1>4, <2>8 DEF DeactivateQueue
  <2>9. CASE FlushQueue(w)
    BY <1>3, <1>4, <2>9 DEF FlushQueue
  <2> QED BY <1>11, <2>1, <2>2, <2>3, <2>4, <2>5, <2>6, <2>7, <2>8, <2>9 DEF Work
<1>12. CASE CloseModule
  BY <1>3, <1>4, <1>12 DEF CloseModule, CloseModuleWith
<1>13. CASE Initialize
  <2>1. queue = <<>> /\ \A w \in Workers : held[w] = None
    BY <1>13 DEF Initialize, LastThreadCleansUp, AllIdle, TypeOK
  <2>2. Queued' = {} /\ \A x, y : ~Before(queue', x, y)
    <3>1. queue' = Without(queue, Data \cup Session)
      BY <1>13 DEF Initialize
    <3>2. Range(queue) = {} /\ \A x, y : ~Before(queue, x, y)
      BY <1>1, <2>1
    <3> QED BY <1>1, <3>1, <3>2 DEF Queued
  <2>3. Range(sent') = {} /\ Range(log') = {} /\ \A x, y : ~Before(sent', x, y)
    BY <1>1, <1>13 DEF Initialize
  <2>4. \A x \in Range(held') : x = None
    BY <1>13, <2>1 DEF Initialize, TypeOK, Range
  <2>5. \A x \in Ordinary : x \notin Taken'
    BY <1>0, <2>3, <2>4 DEF Taken
  <2> QED BY <2>2, <2>3, <2>5 DEF Ordered
<1>14. CASE Open
  BY <1>3, <1>4, <1>14 DEF Open
<1>15. CASE UNCHANGED vars
  BY <1>3, <1>4, <1>15 DEF vars, mq, worker, ghost
<1> QED BY <1>5, <1>6, <1>7, <1>8, <1>9, <1>10, <1>11, <1>12, <1>13, <1>14, <1>15
        DEF Next, Upstream, Stream

\* Whoever processes them, the messages that do not overtake the queue are taken from it in
\* the order in which upstream put them.
THEOREM OrderCorrect == Spec => []InOrder
<1>1. Init => Ordered
  <2> SUFFICES ASSUME Init PROVE Ordered
    OBVIOUS
  <2>1. /\ Range(queue) = {} /\ Range(sent) = {} /\ Range(log) = {}
        /\ \A x, y : ~Before(queue, x, y) /\ ~Before(sent, x, y)
    BY TypeInit, AfterFlush DEF Init
  <2>2. \A x \in Range(held) : x = None
    BY DEF Init, Range
  <2>3. None \notin Ordinary
    BY MessagesAssumption DEF Items, Ordinary
  <2> QED BY <2>1, <2>2, <2>3 DEF Ordered, Taken, Queued
<1>2. TypeOK /\ Counting /\ LastThreadCleansUp /\ Ordered /\ [Next]_vars => Ordered'
  BY OrderedStep
<1>3. TypeOK /\ Ordered => InOrder
  <2> SUFFICES ASSUME TypeOK, Ordered, NEW i \in DOMAIN sent, NEW j \in DOMAIN sent, i < j,
                      sent[i] \notin Overtaking, sent[j] \notin Overtaking,
                      sent[j] \in Range(log) \cup Range(held), sent[i] \in Queued \cap Messages
               PROVE  FALSE
    BY DEF InOrder
  <2>1. DOMAIN sent = 1..Len(sent)
    BY LenProperties DEF TypeOK
  <2>2. Before(sent, sent[i], sent[j])
    BY <2>1 DEF Before
  <2>3. sent[j] \in Messages
    <3>1. Range(log) \subseteq Messages /\ Range(held) \subseteq Messages \cup {None}
      BY RangeEquality, LenProperties DEF TypeOK, Range
    <3>2. sent[j] \in Items
      BY <2>1 DEF TypeOK
    <3> QED BY <3>1, <3>2, MessagesAssumption
  <2> QED BY <2>2, <2>3 DEF Ordered, Taken, Ordinary
<1> QED BY <1>1, <1>2, <1>3, TypeCorrect, CountingInvariant, LastThreadCorrect, PTL DEF Spec
=============================================================================
