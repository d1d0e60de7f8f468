----------------------------- MODULE AsynchTask -----------------------------
(***************************************************************************)
(* A module task with worker threads and a queue of its own,               *)
(* Stream_TaskBaseAsynch_T.  Threads of the upstream modules put messages, *)
(* Workers serve the queue; an END or ABORT session message, or a message  *)
(* that could not be processed, makes the worker that met it enqueue       *)
(* MB_STOP, and each worker that takes MB_STOP passes it on to the next.   *)
(* The stream opens the task when it pushes the module and closes it when  *)
(* it pops the module.                                                     *)
(***************************************************************************)
EXTENDS FiniteSets, Queues, SequencesExt

CONSTANTS Workers,    \* the threads: configuration_->numberOfThreads of them
          Data,       \* data messages
          Session,    \* session messages
          Ends,       \* those of them that end the session
          Expedited,  \* those of them that overtake the queue
          Aborts,     \* control messages: ABORT
          Failing,    \* messages that handleMessage() fails to process or to pass on
          Batches,    \* what may be put in a session: sets of messages
          Stop,       \* an MB_STOP message
          None,       \* no worker, no message
          MaxOpens,   \* bound: times the module is pushed
          MaxStops,   \* bound: calls of stop()
          MayFlush    \* bound: may an MB_FLUSH message come ?

Messages == Data \cup Session \cup Aborts
Items == Messages \cup {Stop}

ASSUME WorkersAssumption == IsFiniteSet(Workers) /\ Workers # {} /\ None \notin Workers
ASSUME MessagesAssumption ==
  /\ Ends \subseteq Session /\ Expedited \subseteq Session /\ Failing \subseteq Messages
  /\ Data \cap (Session \cup Aborts) = {} /\ Session \cap Aborts = {}
  /\ Stop \notin Messages /\ None \notin Items
ASSUME BatchesAssumption == Batches \subseteq SUBSET Messages
ASSUME BoundsAssumption == MaxOpens \in Nat /\ MaxStops \in Nat /\ MayFlush \in BOOLEAN

VARIABLES
  phase,           \* of the module: "ready", "open" (pushed), "closing" (popped)
  queue,           \* queue_
  active,          \* is the queue activated ?
  isShuttingDown,  \* queue_.isShuttingDown_
  pc,              \* where each worker is
  held,            \* the message each worker has taken
  ending,          \* the workers whose stop_processing is set
  threadIds,       \* threadIds_
  thrCount,        \* thr_count_
  lastThread,      \* last_thread()
  inline,          \* ABORTs that the putting thread processes itself
  unsent,          \* messages that upstream has not put yet
  sent,            \* what the queue accepted in this session, in that order
  log,             \* what was processed in this session, in that order
  leftover,        \* messages that the last worker found in the queue and released
  opens, stops, flushed, overtaken

mq      == <<queue, active, isShuttingDown>>
threads == <<threadIds, thrCount, lastThread>>
worker  == <<pc, held, ending>>
ghost   == <<sent, log, leftover>>
bounds  == <<opens, stops, flushed, overtaken>>
vars == <<phase, mq, worker, threads, inline, unsent, ghost, bounds>>

\* Where a worker that counts in thr_count_ is: in its loop, on its way out
\* with an MB_STOP in its hands, or out of svc().
Looping == {"get", "handle", "end"}
Stopping == {"stop", "pass"}
Serving == {w \in Workers : pc[w] \in Looping \cup Stopping \cup {"leave"}}
Places == Looping \cup Stopping \cup {"leave", "closing", "deactivate", "flush", "idle"}

Queued == Range(queue)
AtTail(m) == IF active THEN Append(queue, m) ELSE queue
AtHead(m) == IF active THEN <<m>> \o queue ELSE queue
Accept(m) == sent' = IF active THEN Append(sent, m) ELSE sent
Go(w, place) == pc' = [pc EXCEPT ![w] = place]
-----------------------------------------------------------------------------
(* put() and stop(), by any other thread. *)

\* Mutant: a message overtakes the others.
PutAtHead(m) ==
  /\ m \in unsent \ (Aborts \cup Expedited)
  /\ unsent' = unsent \ {m}
  /\ queue' = AtHead(m)
  /\ Accept(m)
  /\ UNCHANGED <<phase, active, isShuttingDown, worker, threads, inline, log, leftover, bounds>>

\* A deactivated queue turns the message down.
Put(m) ==
  /\ m \in unsent \ (Aborts \cup Expedited)
  /\ unsent' = unsent \ {m}
  /\ queue' = AtTail(m)
  /\ Accept(m)
  /\ UNCHANGED <<phase, active, isShuttingDown, worker, threads, inline, log, leftover, bounds>>

\* The code does not take the queue's lock here.  This module looks at what
\* becomes of a message that is enqueued undisturbed.
PutExpedited(m) ==
  /\ m \in unsent \cap Expedited
  /\ unsent' = unsent \ {m}
  /\ queue' = AtHead(m)
  /\ Accept(m)
  /\ UNCHANGED <<phase, active, isShuttingDown, worker, threads, inline, log, leftover, bounds>>

\* Under the queue's lock: with no worker to process it the message is
\* processed here, after the lock was released.
PutAbort(m) ==
  /\ m \in unsent \cap Aborts
  /\ unsent' = unsent \ {m}
  /\ IF thrCount = 0 \/ isShuttingDown
     THEN inline' = inline \cup {m} /\ UNCHANGED <<queue, sent>>
     ELSE queue' = AtHead(m) /\ Accept(m) /\ UNCHANGED inline
  /\ UNCHANGED <<phase, active, isShuttingDown, worker, threads, log, leftover, bounds>>

HandleInline(m) ==
  /\ m \in inline
  /\ inline' = inline \ {m}
  /\ queue' = Without(queue, Data)
  /\ log' = Append(log, m)
  /\ UNCHANGED <<phase, active, isShuttingDown, worker, threads, unsent, sent, leftover,
                 bounds>>

PutFlush ==
  /\ MayFlush /\ ~flushed
  /\ flushed' = TRUE
  /\ queue' = <<>>
  /\ UNCHANGED <<phase, active, isShuttingDown, worker, threads, inline, unsent, ghost,
                 opens, stops, overtaken>>

\* Mutant: the queue is deactivated at once.
StopDeactivates(highPriority) ==
  /\ threadIds # {}
  /\ stops < MaxStops
  /\ stops' = stops + 1
  /\ active' = FALSE
  /\ overtaken' = (overtaken \/ highPriority)
  /\ UNCHANGED <<phase, queue, isShuttingDown, worker, threads, inline, unsent, ghost, opens,
                 flushed>>

\* stop(_, high priority), by way of close(1) or of the module.
StopTask(highPriority) ==
  /\ threadIds # {}
  /\ stops < MaxStops
  /\ stops' = stops + 1
  /\ queue' = IF highPriority THEN AtHead(Stop) ELSE AtTail(Stop)
  /\ Accept(Stop)
  /\ overtaken' = (overtaken \/ highPriority)
  /\ UNCHANGED <<phase, active, isShuttingDown, worker, threads, inline, unsent, log,
                 leftover, opens, flushed>>
-----------------------------------------------------------------------------
(* svc(), by a worker. *)

\* getq() waits for a message, and fails with ESHUTDOWN once the queue is deactivated.
Get(w) ==
  /\ pc[w] = "get"
  /\ active => queue # <<>>
  /\ IF active
     THEN /\ queue' = Tail(queue)
          /\ isShuttingDown' = (isShuttingDown \/ Head(queue) = Stop)
          /\ held' = [held EXCEPT ![w] = IF Head(queue) = Stop THEN None ELSE Head(queue)]
          /\ Go(w, IF Head(queue) = Stop THEN "stop" ELSE "handle")
     ELSE Go(w, "leave") /\ UNCHANGED <<queue, isShuttingDown, held>>
  /\ UNCHANGED <<phase, active, ending, threads, inline, unsent, ghost, bounds>>

\* stop_processing is declared outside the loop and never reset.
Handle(w) ==
  /\ pc[w] = "handle"
  /\ log' = Append(log, held[w])
  /\ held' = [held EXCEPT ![w] = None]
  /\ queue' = IF held[w] \in Aborts THEN Without(queue, Data) ELSE queue
  /\ ending' = IF held[w] \in Ends \cup Failing THEN ending \cup {w} ELSE ending
  /\ Go(w, IF w \in ending' THEN "end" ELSE "get")
  /\ UNCHANGED <<phase, active, isShuttingDown, threads, inline, unsent, sent, leftover,
                 bounds>>

StopSelf(w) ==
  /\ pc[w] = "end"
  /\ queue' = AtTail(Stop)
  /\ Accept(Stop)
  /\ Go(w, "get")
  /\ UNCHANGED <<phase, active, isShuttingDown, held, ending, threads, inline, unsent, log,
                 leftover, bounds>>

CountThreadsIf(w, others) ==
  /\ pc[w] = "stop"
  /\ Go(w, IF others THEN "pass" ELSE "leave")
  /\ UNCHANGED <<phase, mq, held, ending, threads, inline, unsent, ghost, bounds>>

\* Mutant: off by one.
CountThreadsMore(w) == CountThreadsIf(w, thrCount > 2)

\* thr_count_ is read without a lock.
CountThreads(w) == CountThreadsIf(w, thrCount > 1)

PassStopWith(w, q) ==
  /\ pc[w] = "pass"
  /\ queue' = q
  /\ Go(w, "leave")
  /\ UNCHANGED <<phase, active, isShuttingDown, held, ending, threads, inline, unsent, ghost,
                 bounds>>

\* Mutant: the message is released in any case.
PassStopNot(w) == PassStopWith(w, queue)

PassStop(w) == PassStopWith(w, AtTail(Stop))
-----------------------------------------------------------------------------
(* ACE's cleanup of a thread that left svc(), and close(0). *)

ExitWith(w, n) ==
  /\ pc[w] = "leave"
  /\ thrCount' = thrCount - n
  /\ lastThread' = IF thrCount = 1 THEN w ELSE lastThread
  /\ ending' = ending \ {w}
  /\ Go(w, "closing")
  /\ UNCHANGED <<phase, mq, held, threadIds, inline, unsent, ghost, bounds>>

\* Mutants: the count is decremented by close(0) as well, or for one thread only.
ExitTwice(w) == ExitWith(w, 2)
ExitUncounted(w) == ExitWith(w, IF thrCount = 1 THEN 1 ELSE 0)

\* thr_count_ is decremented under the task's lock, before close(0).
Exit(w) == ExitWith(w, 1)

CloseWorkerIf(w, last) ==
  /\ pc[w] = "closing"
  /\ threadIds' = IF last THEN {} ELSE threadIds \ {w}
  /\ Go(w, IF last THEN "deactivate" ELSE "idle")
  /\ UNCHANGED <<phase, mq, held, ending, thrCount, lastThread, inline, unsent, ghost, bounds>>

\* Mutants: no thread is the last; every thread is.
CloseWorkerNever(w) == CloseWorkerIf(w, FALSE)
CloseWorkerAlways(w) == CloseWorkerIf(w, TRUE)

CloseWorker(w) == CloseWorkerIf(w, lastThread = w)

DeactivateQueue(w) ==
  /\ pc[w] = "deactivate"
  /\ active' = FALSE
  /\ Go(w, "flush")
  /\ UNCHANGED <<phase, queue, isShuttingDown, held, ending, threads, inline, unsent, ghost,
                 bounds>>

FlushQueue(w) ==
  /\ pc[w] = "flush"
  /\ queue' = <<>>
  /\ leftover' = leftover \cup (Queued \cap Messages)
  /\ Go(w, "idle")
  /\ UNCHANGED <<phase, active, isShuttingDown, held, ending, threads, inline, unsent, sent,
                 log, bounds>>
-----------------------------------------------------------------------------
(* The stream pushes and pops the module. *)

CloseModuleWith(q, activated) ==
  /\ phase = "open"
  /\ phase' = "closing"
  /\ queue' = q
  /\ active' = activated
  /\ UNCHANGED <<isShuttingDown, worker, threads, inline, unsent, ghost, bounds>>

\* Mutant: the task's own flush() (stream_task_base_asynch.h:77) takes the place of ACE's.
CloseModuleKeepsQueue == CloseModuleWith(Without(queue, Data), active)

\* The stream pops the module.  module_closed() does nothing; ACE then flushes the task, which
\* closes its queue, and that deactivates and empties it; then it waits for the threads.
CloseModule == CloseModuleWith(<<>>, FALSE)

\* The wait is over, and the module is prepared for the next session.
Initialize ==
  /\ phase = "closing"
  /\ \A w \in Workers : pc[w] = "idle"
  /\ opens < MaxOpens
  /\ phase' = "ready"
  /\ queue' = Without(queue, Data \cup Session)
  /\ active' = TRUE
  /\ unsent' \in {batch \ inline : batch \in Batches}
  /\ sent' = <<>> /\ log' = <<>> /\ leftover' = {}
  /\ UNCHANGED <<isShuttingDown, worker, threads, inline, bounds>>

\* ACE pushes the module: activate() the queue and spawn the workers.
Open ==
  /\ phase = "ready"
  /\ phase' = "open"
  /\ opens' = opens + 1
  /\ active' = TRUE
  /\ thrCount' = Cardinality(Workers)
  /\ threadIds' = Workers
  /\ lastThread' = None
  /\ pc' = [w \in Workers |-> "get"]
  /\ UNCHANGED <<queue, isShuttingDown, held, ending, inline, unsent, ghost, stops, flushed,
                 overtaken>>
-----------------------------------------------------------------------------
Init ==
  /\ phase = "ready"
  /\ queue = <<>> /\ active = TRUE /\ isShuttingDown = FALSE
  /\ pc = [w \in Workers |-> "idle"]
  /\ held = [w \in Workers |-> None]
  /\ ending = {}
  /\ threadIds = {} /\ thrCount = 0 /\ lastThread = None
  /\ inline = {} /\ unsent \in Batches
  /\ sent = <<>> /\ log = <<>> /\ leftover = {}
  /\ opens = 0 /\ stops = 0 /\ flushed = FALSE /\ overtaken = FALSE

Upstream == \/ \E m \in Messages : Put(m) \/ PutExpedited(m) \/ PutAbort(m)
            \/ PutFlush
            \/ \E highPriority \in BOOLEAN : StopTask(highPriority)

Work(w) == \/ Get(w) \/ Handle(w) \/ StopSelf(w)
           \/ CountThreads(w) \/ PassStop(w)
           \/ Exit(w) \/ CloseWorker(w) \/ DeactivateQueue(w) \/ FlushQueue(w)

Stream == CloseModule \/ Initialize \/ Open

Next == Upstream \/ (\E m \in Messages : HandleInline(m)) \/ (\E w \in Workers : Work(w))
        \/ Stream

Spec == Init /\ [][Next]_vars

\* The operating system schedules the workers.
FairSpec == Spec /\ \A w \in Workers : WF_vars(Work(w))
=============================================================================
