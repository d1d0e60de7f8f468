----------------------------- MODULE HeadModule -----------------------------
(***************************************************************************)
(* The head module of a stream, Stream_HeadModuleTaskBase_T: the state     *)
(* machine that drives a session, the task whose worker processes the      *)
(* queue, and the flags that tie them together.  The threads that call     *)
(* the stream's interface (Users) and the worker run the code              *)
(* concurrently; a step ends where the code takes or leaves a lock, or     *)
(* reads a field that another thread writes without one.                   *)
(*                                                                         *)
(* stack[t] is what thread t still has to do: a sequence of <<label, arg>> *)
(* pairs, the next one first.  A call pushes the callee's labels before    *)
(* the rest of the caller's.                                               *)
(*                                                                         *)
(* The configuration is the default one: generateSessionMessages and       *)
(* hasReentrantSynchronousSubDownstream are true (the stream lock is not   *)
(* taken), no autoStart, no statistic timer, the stream is not linked, and *)
(* the modules below the head are synchronous, so that a message comes     *)
(* back to the stream's onEvent in the thread that processes it.           *)
(***************************************************************************)
EXTENDS FiniteSets, Queues, StreamStates

CONSTANTS Users,        \* threads of the application
          Workers,      \* threads that an ACTIVE head module may spawn (one at a time)
          None,         \* no thread
          Applications  \* what uses the stream, and how

Threads == Users \cup Workers
Modes == {"ACTIVE", "PASSIVE", "CONCURRENT"}
Calls == {"initialize", "start", "stop", "abort_stop", "pause", "data",
          "notify", "notify_expedited", "close"}

ASSUME ThreadsAssumption == Users \cap Workers = {} /\ None \notin Threads

\* An application: the concurrency it configures the head module with, the calls
\* that each of its threads makes, at most so many of them in a behaviour, whether
\* it may stop a session that is still starting, whether a module may abort the
\* session from BEGIN or DATA, whether put_next() of a data message may fail, and
\* whether the thread that start() borrows (PASSIVE) ends when start() has returned:
\* then it makes that one call only.
ASSUME ApplicationsAssumption ==
  \A a \in Applications :
    /\ a \in [mode : Modes, api : [Users -> SUBSET Calls], calls : Nat,
             stopsEarly : BOOLEAN, modulesAbort : BOOLEAN, downstreamFails : BOOLEAN,
             lentEnds : BOOLEAN]
    /\ a.lentEnds => \A u \in Users : /\ "start" \in a.api[u] => a.api[u] = {"start"}
                                     /\ "initialize" \notin a.api[u]

VARIABLES
  app,                  \* the application
  state,                \* state_
  stateLock,            \* stateMachineLock_, which is also stateLock_ : owner
  taskLock,             \* lock_ of the task: owner, where it is held across calls
  stack,                \* what each thread still has to do
  queue,                \* queue_: the kinds of the queued messages
  queueActive,          \* is the queue activated ?
  isShuttingDown,       \* queue_.isShuttingDown_: was an MB_STOP ever dequeued ?
  threadIds,            \* threadIds_
  thrCount,             \* thr_count_
  suspended,            \* the worker or borrowed thread that pause() suspended
  isHighPriorityStop, abortSent, sessionEndSent, sessionEndProcessed,
  aborted,              \* the session data's aborted flag
  sessionData,          \* is sessionData_ set ?
  calls,                \* bound: calls made so far
  log,                  \* what left the head in this session, by kind
  failed                \* the assertions that did not hold

sync  == <<state, stateLock, taskLock>>
mq    == <<queue, queueActive, isShuttingDown>>
task  == <<threadIds, thrCount, suspended>>
flags == <<isHighPriorityStop, abortSent, sessionEndSent, sessionEndProcessed>>
session == <<aborted, sessionData>>
ghost == <<log, failed>>
usage == <<app, calls>>
vars  == <<sync, stack, mq, task, flags, session, usage, ghost>>

At(t, label) == stack[t] # <<>> /\ stack[t][1][1] = label /\ t # suspended
Arg(t) == stack[t][1][2]
Do(t, steps) == stack' = [stack EXCEPT ![t] = steps \o Tail(@)]
Step(label) == <<label, "">>

Events == {"BEGIN", "END", "ABORT", "NOTIFIED"}
NoLog == [e \in Events |-> 0]
Count(e) == log' = [log EXCEPT ![e] = IF @ < 2 THEN @ + 1 ELSE @]
Check(name, holds) == failed' = IF holds THEN failed ELSE failed \cup {name}

SessionEndSeen == sessionEndSent \/ sessionEndProcessed
Mode == app.mode
Inline == Mode = "CONCURRENT"
-----------------------------------------------------------------------------
(* The message queue, under its lock. *)

Enqueue(m) == queue' = IF queueActive THEN Append(queue, m) ELSE queue
EnqueueHead(m) == queue' = IF queueActive THEN <<m>> \o queue ELSE queue
Kind(m) == IF m = "EXPEDITED_ABORT" THEN "ABORT" ELSE m
Stops(m) == m \in {"END", "ABORT"}  \* handleMessage() sets stopProcessing_out
\* Mutant: the stop messages are flushed with the data.
FlushAll == queue' = <<>>

FlushData == queue' = Without(queue, {"DATA"})
-----------------------------------------------------------------------------
(* The state machine: Stream_StateMachine_Control_T::change.  The lock is  *)
(* held while the request is checked and released before it is carried     *)
(* out, so the state may have moved on in between.                         *)

Change(t) ==
  /\ At(t, "change")
  /\ stateLock = None
  /\ Do(t, IF <<state, Arg(t)>> \notin Allowed THEN <<>>
           ELSE [i \in DOMAIN Route(state, Arg(t)) |->
                   <<"enter", Route(state, Arg(t))[i]>>])
  /\ UNCHANGED <<sync, mq, task, flags, session, usage, ghost>>

\* Common_StateMachine_Base_T::change sets the state when onChange() returned
\* true, and signals the threads that wait for it.
SetState(t) ==
  /\ At(t, "set")
  /\ stateLock = None
  /\ state' = Arg(t)
  /\ Do(t, <<>>)
  /\ UNCHANGED <<stateLock, taskLock, mq, task, flags, session, usage, ghost>>
-----------------------------------------------------------------------------
(* onChange(), by the state that is entered. *)

EnterInitialized(t) ==
  /\ At(t, "enter") /\ Arg(t) = "INITIALIZED"
  /\ taskLock = None
  /\ sessionEndSent' = FALSE
  /\ sessionEndProcessed' = FALSE
  /\ threadIds' = {}
  /\ Do(t, <<<<"set", "INITIALIZED">>>>)
  /\ UNCHANGED <<sync, mq, thrCount, suspended, isHighPriorityStop, abortSent,
                 session, usage, ghost>>

\* A new session: its data first, then the state (early, by onChange() itself).
EnterStarting(t) ==
  /\ At(t, "enter") /\ Arg(t) = "SESSION_STARTING"
  /\ Check("start: no session data", ~sessionData)
  /\ aborted' = FALSE
  /\ sessionData' = TRUE
  /\ log' = NoLog
  /\ Do(t, <<Step("starting")>>)
  /\ UNCHANGED <<sync, mq, task, flags, usage>>

StartingWith(t, steps) ==
  /\ At(t, "starting")
  /\ stateLock = None
  /\ state' = "SESSION_STARTING"
  /\ Do(t, steps)
  /\ UNCHANGED <<stateLock, taskLock, mq, task, flags, session, usage, ghost>>

\* Mutant: the worker is there before the first message.
StartingSpawnsFirst(t) == StartingWith(t, <<Step("spawn"), <<"put", "BEGIN">>>>)

Starting(t) == StartingWith(t, <<<<"put", "BEGIN">>, Step("spawn")>>)

\* ACTIVE: a worker thread.  PASSIVE: the calling thread is the worker.
\* CONCURRENT: none; a session that failed to initialize is stopped.
Spawn(t) ==
  /\ At(t, "spawn")
  /\ taskLock = None
  /\ CASE Mode = "ACTIVE" /\ thrCount = 0 ->
            \E w \in Workers :
              /\ stack[w] = <<>>
              /\ threadIds' = threadIds \cup {w}
              /\ thrCount' = 1
              /\ stack' = [stack EXCEPT ![t] = Tail(@), ![w] = <<Step("svc")>>]
       [] Mode = "ACTIVE" /\ thrCount > 0 ->  \* already active
            /\ Do(t, <<>>)
            /\ UNCHANGED <<threadIds, thrCount>>
       [] Mode = "PASSIVE" ->
            /\ threadIds' = threadIds \cup {t}
            /\ Do(t, <<Step("svc")>>)
            /\ UNCHANGED thrCount
       [] Mode = "CONCURRENT" ->
            /\ Do(t, IF aborted THEN <<<<"change", "SESSION_STOPPING">>>> ELSE <<>>)
            /\ UNCHANGED <<threadIds, thrCount>>
  /\ failed' = CASE Mode = "PASSIVE" /\ threadIds # {} ->
                      failed \cup {"start: no worker"}
                 [] Mode = "CONCURRENT" /\ ~sessionData ->
                      failed \cup {"start: session data"}
                 [] OTHER -> failed
  /\ UNCHANGED <<sync, mq, suspended, flags, session, usage, log>>

\* Mutant: a paused worker is left alone.
NeverResumed == suspended

Resumed == IF state = "PAUSED" THEN None ELSE suspended

EnterRunning(t) ==
  /\ At(t, "enter") /\ Arg(t) = "RUNNING"
  /\ stateLock = None
  /\ suspended' = Resumed
  /\ Do(t, <<<<"set", "RUNNING">>>>)
  /\ UNCHANGED <<sync, mq, threadIds, thrCount, flags, session, usage, ghost>>

EnterPaused(t) ==
  /\ At(t, "enter") /\ Arg(t) = "PAUSED"
  /\ suspended' = IF threadIds = {} \/ Inline THEN suspended
                  ELSE CHOOSE w \in threadIds : TRUE
  /\ Do(t, <<<<"set", "PAUSED">>>>)
  /\ UNCHANGED <<sync, mq, threadIds, thrCount, flags, session, usage, ghost>>

\* Mutant: the state is set by the caller, as for other states.
EnterStoppingLate(t) ==
  /\ At(t, "enter") /\ Arg(t) = "SESSION_STOPPING"
  /\ stateLock = None
  /\ suspended' = Resumed
  /\ UNCHANGED state
  /\ Do(t, <<Step("stopping"), <<"set", "SESSION_STOPPING">>>>)
  /\ UNCHANGED <<stateLock, taskLock, mq, threadIds, thrCount, flags, session,
                 usage, ghost>>

EnterStopping(t) ==
  /\ At(t, "enter") /\ Arg(t) = "SESSION_STOPPING"
  /\ stateLock = None
  /\ suspended' = Resumed
  /\ state' = "SESSION_STOPPING"
  /\ Do(t, <<Step("stopping")>>)
  /\ UNCHANGED <<stateLock, taskLock, mq, threadIds, thrCount, flags, session,
                 usage, ghost>>

StoppingWith(t, manual) ==
  /\ At(t, "stopping")
  /\ Check("stop: session data", abortSent \/ sessionData)
  /\ Do(t, (IF Inline THEN <<Step("finished")>> ELSE <<Step("put_stop")>>)
           \o (IF manual THEN <<<<"change", "STOPPED">>>> ELSE <<>>))
  /\ UNCHANGED <<sync, mq, task, flags, session, usage, log>>

\* Mutant: the manual transition is made for every session.
StoppingStops(t) == StoppingWith(t, TRUE)

\* Was the session aborted ?  Then nothing will bring the END message that
\* leads to STOPPED, and the transition is made here.
Stopping(t) == StoppingWith(t, abortSent \/ aborted)

EnterStopped(t) ==
  /\ At(t, "enter") /\ Arg(t) = "STOPPED"
  /\ stateLock = None
  /\ state' = "STOPPED"
  /\ Do(t, <<<<"change", "FINISHED">>>>)
  /\ UNCHANGED <<stateLock, taskLock, mq, task, flags, session, usage, ghost>>

EnterFinished(t) ==
  /\ At(t, "enter") /\ Arg(t) = "FINISHED"
  /\ sessionData' = IF Mode = "ACTIVE" THEN sessionData ELSE FALSE
  /\ Do(t, <<<<"set", "FINISHED">>>>)
  /\ UNCHANGED <<sync, mq, task, flags, aborted, usage, ghost>>

OnChange(t) ==
  \/ EnterInitialized(t) \/ EnterStarting(t) \/ Starting(t) \/ Spawn(t)
  \/ EnterRunning(t) \/ EnterPaused(t) \/ EnterStopping(t) \/ Stopping(t)
  \/ EnterStopped(t) \/ EnterFinished(t)
-----------------------------------------------------------------------------
(* put(): the queue of an ACTIVE or PASSIVE head module, or the message is *)
(* processed right here (CONCURRENT).                                      *)

\* BEGIN, END and DATA go to the tail, an expedited ABORT to the head.
Put(t) ==
  /\ At(t, "put")
  /\ IF Inline
     THEN /\ Do(t, <<<<"handle", Kind(Arg(t))>>>>
                   \o (IF Stops(Kind(Arg(t))) THEN <<Step("error")>> ELSE <<>>))
          /\ UNCHANGED queue
     ELSE /\ Do(t, <<>>)
          /\ IF Arg(t) = "EXPEDITED_ABORT" THEN EnqueueHead("ABORT") ELSE Enqueue(Arg(t))
  /\ failed' = IF Arg(t) \in {"BEGIN", "END"} /\ ~sessionData
               THEN failed \cup {"put: session data"} ELSE failed
  /\ UNCHANGED <<sync, queueActive, isShuttingDown, task, flags, session, usage, log>>

\* After a message that stops the processing: was the session end missed ?
PutError(t) ==
  /\ At(t, "error")
  /\ taskLock = None
  /\ Do(t, IF sessionEndProcessed THEN <<>> ELSE <<Step("finished")>>)
  /\ UNCHANGED <<sync, mq, task, flags, session, usage, ghost>>

\* An MB_STOP message: at the tail, or behind a control(ABORT) at the head.
PutStop(t) ==
  /\ At(t, "put_stop")
  /\ IF isHighPriorityStop
     THEN Do(t, <<Step("abort"), Step("put_stop_head")>>) /\ UNCHANGED queue
     ELSE Do(t, <<>>) /\ Enqueue("STOP")
  /\ UNCHANGED <<sync, queueActive, isShuttingDown, task, flags, session, usage, ghost>>

PutStopHead(t) ==
  /\ At(t, "put_stop_head")
  /\ IF threadIds # {}
     THEN EnqueueHead("STOP") /\ UNCHANGED isHighPriorityStop
     ELSE isHighPriorityStop' = FALSE /\ UNCHANGED queue
  /\ Do(t, <<>>)
  /\ UNCHANGED <<sync, queueActive, isShuttingDown, task, abortSent, sessionEndSent,
                 sessionEndProcessed, session, usage, ghost>>

ControlAbortIf(t, queued) ==
  /\ At(t, "abort")
  /\ IF queued
     THEN /\ EnqueueHead("CONTROL_ABORT")
          /\ Do(t, IF queueActive THEN <<Step("abort_sent")>> ELSE <<>>)
     ELSE /\ Do(t, <<<<"handle", "CONTROL_ABORT">>, Step("abort_sent")>>)
          /\ UNCHANGED queue
  /\ UNCHANGED <<sync, queueActive, isShuttingDown, task, flags, session, usage, ghost>>

\* Mutant: the test of isShuttingDown() is inverted.
ControlAbortInline(t) == ControlAbortIf(t, ~Inline /\ thrCount > 0 /\ isShuttingDown)

\* control(STREAM_CONTROL_ABORT): to the head of the queue, or, with no worker
\* to process it, inline.
ControlAbort(t) == ControlAbortIf(t, ~Inline /\ thrCount > 0 /\ ~isShuttingDown)

AbortSent(t) ==
  /\ At(t, "abort_sent")
  /\ abortSent' = TRUE
  /\ Do(t, <<>>)
  /\ UNCHANGED <<sync, mq, task, isHighPriorityStop, sessionEndSent,
                 sessionEndProcessed, session, usage, ghost>>

PutMessage(t) == Put(t) \/ PutError(t) \/ PutStop(t) \/ PutStopHead(t)
                 \/ ControlAbort(t) \/ AbortSent(t)
-----------------------------------------------------------------------------
(* finished(): send the END message.                                       *)

Finished(t) ==
  /\ At(t, "finished")
  /\ stateLock = None
  /\ Do(t, IF state = "FINISHED" THEN <<>> ELSE <<Step("send_end")>>)
  /\ Check("finished: stopping", state \in {"FINISHED", "SESSION_STOPPING"})
  /\ UNCHANGED <<sync, mq, task, flags, session, usage, log>>

\* The flag guards the first call only: a later one sends END again.
SendEnd(t) ==
  /\ At(t, "send_end")
  /\ taskLock = None
  /\ sessionEndSent' = TRUE
  /\ Do(t, IF ~sessionEndSent /\ sessionEndProcessed THEN <<>> ELSE <<<<"put", "END">>>>)
  /\ UNCHANGED <<sync, mq, task, isHighPriorityStop, abortSent, sessionEndProcessed,
                 session, usage, ghost>>
-----------------------------------------------------------------------------
(* notify(STREAM_SESSION_MESSAGE_ABORT), by a module or the application.   *)

NotifyAborted(t) ==
  /\ At(t, "notify")
  /\ aborted' = TRUE
  /\ Do(t, <<<<"notify_end", Arg(t)>>>>)
  /\ UNCHANGED <<sync, mq, task, flags, sessionData, usage, ghost>>

NotifyEnd(t) ==
  /\ At(t, "notify_end")
  /\ taskLock = None
  /\ sessionEndSent' = TRUE
  /\ Do(t, <<<<"notify_control", Arg(t)>>>>)
  /\ UNCHANGED <<sync, mq, task, isHighPriorityStop, abortSent, sessionEndProcessed,
                 session, usage, ghost>>

NotifyControlThen(t, steps) ==
  /\ At(t, "notify_control")
  /\ Do(t, (IF abortSent THEN <<>> ELSE <<Step("abort")>>) \o <<<<"put", Arg(t)>>>> \o steps)
  /\ UNCHANGED <<sync, mq, task, flags, session, usage, ghost>>

\* Mutant: the notifying thread makes the transition itself.
NotifyControlStops(t) == NotifyControlThen(t, <<<<"change", "SESSION_STOPPING">>>>)

NotifyControl(t) == NotifyControlThen(t, <<>>)

Notify(t) == NotifyAborted(t) \/ NotifyEnd(t) \/ NotifyControl(t)
-----------------------------------------------------------------------------
(* handleMessage() at the head, the modules below it, and the stream's     *)
(* onEvent(), which the tail's reply reaches in the same thread.           *)

Handle(t) ==
  /\ At(t, "handle")
  /\ LET m == Arg(t) IN
     /\ Do(t, CASE m = "CONTROL_ABORT" -> <<>>
                [] m = "ABORT" -> <<<<"change", "SESSION_STOPPING">>, Step("process_end"),
                                    <<"deliver", "ABORT">>>>
                [] m = "END"   -> <<Step("process_end"), <<"deliver", "END">>>>
                [] OTHER       -> <<<<"deliver", m>>>>)
     /\ IF m = "CONTROL_ABORT" THEN FlushData ELSE UNCHANGED queue
     /\ isHighPriorityStop' = (m = "ABORT" \/ isHighPriorityStop)
     /\ Check("begin: session data", m = "BEGIN" => sessionData)
  /\ UNCHANGED <<sync, queueActive, isShuttingDown, task, abortSent, sessionEndSent,
                 sessionEndProcessed, session, usage, log>>

\* Only the first END or ABORT of a session stops the task.
ProcessEnd(t) ==
  /\ At(t, "process_end")
  /\ taskLock = None
  /\ sessionEndProcessed' = TRUE
  /\ Do(t, IF sessionEndProcessed \/ Inline THEN <<>> ELSE <<Step("put_stop")>>)
  /\ UNCHANGED <<sync, mq, task, isHighPriorityStop, abortSent, sessionEndSent,
                 session, usage, ghost>>

Deliver(t) ==
  /\ At(t, "deliver")
  /\ \/ Do(t, IF Arg(t) = "DATA" THEN <<>> ELSE <<<<"event", Arg(t)>>>>)
     \/ \* a module gives up
        /\ app.modulesAbort /\ Arg(t) \in {"BEGIN", "DATA"}
        /\ \E a \in {"ABORT", "EXPEDITED_ABORT"} :
             Do(t, <<<<"notify", a>>>>
                   \o (IF Arg(t) = "DATA" THEN <<>> ELSE <<<<"event", Arg(t)>>>>))
     \/ \* put_next() fails: the caller stops processing
        /\ app.downstreamFails /\ Arg(t) = "DATA"
        /\ Do(t, <<Step(IF Inline THEN "error" ELSE "stop_processing")>>)
  /\ IF Arg(t) = "DATA" THEN UNCHANGED log ELSE Count(Arg(t))
  /\ UNCHANGED <<sync, mq, task, flags, session, usage, failed>>

\* An aborted session ends as well; the end of a session that is over is ignored.
OnEvent(t) ==
  /\ At(t, "event")
  /\ stateLock = None
  /\ LET early == state = "SESSION_STARTING" /\ ~aborted
         stopping == Rank[state] >= Rank["SESSION_STOPPING"]
         over == Rank[state] > Rank["SESSION_STOPPING"]
     IN Do(t, CASE Arg(t) = "BEGIN" -> <<<<"change", "RUNNING">>>>
                [] Arg(t) = "ABORT" /\ early -> <<<<"notify", "ABORT">>>>
                [] Arg(t) = "ABORT" /\ ~early ->
                     (IF stopping THEN <<>> ELSE <<<<"change", "SESSION_STOPPING">>>>)
                     \o <<<<"event", "END">>>>
                [] Arg(t) = "END" /\ over -> <<>>
                [] Arg(t) = "END" /\ ~over ->
                     <<<<"change", IF state = "RUNNING" THEN "SESSION_STOPPING"
                                   ELSE "STOPPED">>,
                       Step("session_end")>>)
  /\ UNCHANGED <<sync, mq, task, flags, session, usage, ghost>>

\* onSessionEnd() of the stream.
SessionEnd(t) ==
  /\ At(t, "session_end")
  /\ Count("NOTIFIED")
  /\ Do(t, <<>>)
  /\ UNCHANGED <<sync, mq, task, flags, session, usage, failed>>

Message(t) == Handle(t) \/ ProcessEnd(t) \/ Deliver(t) \/ OnEvent(t) \/ SessionEnd(t)
-----------------------------------------------------------------------------
(* svc() and close(0): the worker of an ACTIVE module, or the thread that  *)
(* start() borrowed (PASSIVE).                                             *)

Svc(t) ==
  /\ At(t, "svc")
  /\ Check("svc: session data", sessionData)
  /\ Do(t, <<Step("get")>>)
  /\ UNCHANGED <<sync, mq, task, flags, session, usage, log>>

GetQ(t) ==
  /\ At(t, "get")
  /\ queueActive /\ queue # <<>>
  /\ queue' = Tail(queue)
  /\ isShuttingDown' = (Head(queue) = "STOP" \/ isShuttingDown)
  /\ Do(t, IF Head(queue) = "STOP"
           THEN (IF isHighPriorityStop /\ ~abortSent THEN <<Step("abort")>> ELSE <<>>)
                \o <<Step("leave")>>
           ELSE <<<<"handle", Head(queue)>>>>
                \o (IF Stops(Head(queue)) THEN <<Step("stop_processing")>> ELSE <<>>)
                \o <<Step("get")>>)
  /\ UNCHANGED <<sync, queueActive, task, flags, session, usage, ghost>>

\* The queue was deactivated below the worker: unless the session has finished,
\* activate it again and send END, holding lock_ all the while.
GetQShutdown(t) ==
  /\ At(t, "get")
  /\ ~queueActive
  /\ taskLock = None /\ stateLock = None
  /\ IF state = "FINISHED"
     THEN /\ Do(t, <<Step("exit")>>)
          /\ UNCHANGED <<taskLock, queueActive>>
     ELSE /\ queueActive' = TRUE
          /\ taskLock' = t
          /\ Do(t, <<Step("finished"), Step("unlock"), Step("get")>>)
  /\ UNCHANGED <<state, stateLock, queue, isShuttingDown, task, flags, session,
                 usage, ghost>>

Unlock(t) ==
  /\ At(t, "unlock")
  /\ taskLock' = IF taskLock = t THEN None ELSE taskLock
  /\ stateLock' = IF stateLock = t THEN None ELSE stateLock
  /\ Do(t, <<>>)
  /\ UNCHANGED <<state, mq, task, flags, session, usage, ghost>>

StopProcessing(t) ==
  /\ At(t, "stop_processing")
  /\ taskLock = None
  /\ Do(t, IF SessionEndSeen THEN <<>> ELSE <<Step("finished")>>)
  /\ UNCHANGED <<sync, mq, task, flags, session, usage, ghost>>

LeaveIf(t, ended) ==
  /\ At(t, "leave")
  /\ taskLock = None
  /\ IF ended
     THEN isHighPriorityStop' = FALSE /\ Do(t, <<Step("exit")>>)
     ELSE Do(t, <<Step("finished"), Step("get")>>) /\ UNCHANGED isHighPriorityStop
  /\ UNCHANGED <<sync, mq, task, abortSent, sessionEndSent, sessionEndProcessed,
                 session, usage, ghost>>

\* Mutants: MB_STOP ends the worker whatever was sent; END is sent again while
\* it is still queued.
LeaveAtOnce(t) == LeaveIf(t, TRUE)
LeaveProcessed(t) == LeaveIf(t, sessionEndProcessed)

\* An MB_STOP makes the worker send END first, unless that was done.  (A head
\* module has one worker, so the message is never passed on to another.)
Leave(t) == LeaveIf(t, SessionEndSeen)

ExitBy(t, n) ==
  /\ At(t, "exit")
  /\ thrCount' = IF Mode = "ACTIVE" THEN thrCount - n ELSE thrCount
  /\ Do(t, <<Step("clear_ids"), Step("deactivate"), Step("flush"), Step("release")>>)
  /\ UNCHANGED <<sync, mq, threadIds, suspended, flags, session, usage, ghost>>

\* Mutant: close(0) decrements the count as well.
ExitTwice(t) == ExitBy(t, 2)

\* ACE decrements thr_count_ before it calls close(0).
Exit(t) == ExitBy(t, 1)

ClearThreadIds(t) ==
  /\ At(t, "clear_ids")
  /\ taskLock = None
  /\ threadIds' = {}
  /\ Do(t, <<>>)
  /\ UNCHANGED <<sync, mq, thrCount, suspended, flags, session, usage, ghost>>

Deactivate(t) ==
  /\ At(t, "deactivate")
  /\ queueActive' = FALSE
  /\ Do(t, <<>>)
  /\ UNCHANGED <<sync, queue, isShuttingDown, task, flags, session, usage, ghost>>

FlushTo(t, left) ==
  /\ At(t, "flush")
  /\ queue' = left
  /\ Do(t, <<>>)
  /\ UNCHANGED <<sync, queueActive, isShuttingDown, task, flags, session, usage, ghost>>

\* Mutant: messages that came after MB_STOP stay.
FlushNot(t) == FlushTo(t, queue)

Flush(t) == FlushTo(t, <<>>)

Release(t) ==
  /\ At(t, "release")
  /\ Check("close: session data", Mode = "ACTIVE" => sessionData)
  /\ sessionData' = IF Mode = "ACTIVE" THEN FALSE ELSE sessionData
  /\ Do(t, <<>>)
  /\ UNCHANGED <<sync, mq, task, flags, aborted, usage, log>>

Serve(t) == Svc(t) \/ GetQ(t) \/ GetQShutdown(t) \/ Unlock(t) \/ StopProcessing(t)
            \/ Leave(t) \/ Exit(t) \/ ClearThreadIds(t) \/ Deactivate(t) \/ Flush(t)
            \/ Release(t)
-----------------------------------------------------------------------------
(* stop(wait, _, high priority), wait() and the rest of the interface.     *)

IsRunning ==
  \/ state \in {"SESSION_STARTING", "RUNNING", "PAUSED"}
  \/ /\ state \in {"SESSION_STOPPING", "STOPPED", "FINISHED"}
     /\ threadIds # {} /\ queue # <<>>

Start(t) ==
  /\ At(t, "start")
  /\ stateLock = None /\ taskLock = None
  /\ Do(t, IF IsRunning THEN <<>> ELSE <<<<"change", "SESSION_STARTING">>>>)
  /\ UNCHANGED <<sync, mq, task, flags, session, usage, ghost>>

Stop(t) ==
  /\ At(t, "stop")
  /\ isHighPriorityStop' = Arg(t)
  /\ Do(t, <<Step("stop_state")>>)
  /\ UNCHANGED <<sync, mq, task, abortSent, sessionEndSent, sessionEndProcessed,
                 session, usage, ghost>>

\* Under stateMachineLock_.  The wait for a starting session to settle takes its
\* timeout of 5 s for a point in time, so that it is over at once.
StopState(t) ==
  /\ At(t, "stop_state")
  /\ stateLock = None
  /\ CASE state \in {"INVALID", "INITIALIZED"} ->
            stack' = [stack EXCEPT ![t] = Tail(Tail(@))] /\ UNCHANGED stateLock
       [] state \in {"SESSION_STARTING", "RUNNING", "PAUSED"} ->
            Do(t, <<<<"change", "SESSION_STOPPING">>>>) /\ UNCHANGED stateLock
       [] state \in {"SESSION_STOPPING", "STOPPED", "FINISHED"} ->
            IF isHighPriorityStop /\ ~abortSent
            THEN stateLock' = t /\ Do(t, <<Step("abort"), Step("unlock")>>)
            ELSE Do(t, <<>>) /\ UNCHANGED stateLock
  /\ UNCHANGED <<state, taskLock, mq, task, flags, session, usage, ghost>>

\* stop() waits if asked to: wait(), for the final state, or until its deadline,
\* then for the worker.
WaitState(t) ==
  /\ At(t, "wait")
  /\ Arg(t) => stateLock = None
  /\ Do(t, IF Arg(t) THEN <<Step("join")>> ELSE <<>>)
  /\ UNCHANGED <<sync, mq, task, flags, session, usage, ghost>>

\* ACTIVE: ACE waits for the worker.  PASSIVE: the thread that start() borrowed is
\* joined, under the id that was read here.
Join(t) ==
  /\ At(t, "join")
  /\ taskLock = None
  /\ \/ /\ threadIds = {} \/ t \in threadIds \/ Inline
        /\ Do(t, <<>>)
     \/ /\ Mode = "ACTIVE" /\ \A w \in threadIds : stack[w] = <<>>
        /\ Do(t, <<>>)
     \/ /\ Mode = "PASSIVE" /\ t \notin threadIds
        /\ \E u \in threadIds : Do(t, <<<<"join_lent", u>>>>)
  /\ UNCHANGED <<sync, mq, task, flags, session, usage, ghost>>

\* A join returns when the thread terminates, not when it returns from svc().
LentJoined(t) ==
  /\ At(t, "join_lent")
  /\ app.lentEnds /\ stack[Arg(t)] = <<>>
  /\ Do(t, <<>>)
  /\ UNCHANGED <<sync, mq, task, flags, session, usage, ghost>>

\* ACE closes the module: module_closed(), then the queue, then the threads.
ModuleClosed(t) ==
  /\ At(t, "module_closed")
  /\ stateLock = None /\ taskLock = None
  /\ Do(t, (IF IsRunning THEN <<<<"stop", TRUE>>, <<"wait", TRUE>>>> ELSE <<>>)
           \o <<Step("close_queue"), Step("wait_threads")>>)
  /\ UNCHANGED <<sync, mq, task, flags, session, usage, ghost>>

\* ACE's flush() of a task closes its queue, under the queue's lock.
CloseQueue(t) ==
  /\ At(t, "close_queue")
  /\ queue' = <<>>
  /\ queueActive' = FALSE
  /\ Do(t, <<>>)
  /\ UNCHANGED <<sync, isShuttingDown, task, flags, session, usage, ghost>>

WaitThreads(t) ==
  /\ At(t, "wait_threads")
  /\ \A w \in Workers : stack[w] = <<>>
  /\ Do(t, <<>>)
  /\ UNCHANGED <<sync, mq, task, flags, session, usage, ghost>>

\* The head's initialize(); the flags of the session end are reset by the
\* transition, isShuttingDown_ by nobody.
Initialize(t) ==
  /\ At(t, "initialize")
  /\ abortSent' = FALSE
  /\ isHighPriorityStop' = FALSE
  /\ queueActive' = TRUE
  /\ Do(t, <<<<"change", "INITIALIZED">>>>)
  /\ UNCHANGED <<sync, queue, isShuttingDown, task, sessionEndSent,
                 sessionEndProcessed, session, usage, ghost>>

\* What each call of the interface has to do.
Body(call, wait) ==
  CASE call = "initialize"       -> <<Step("module_closed"), Step("initialize")>>
    [] call = "close"            -> <<Step("module_closed")>>
    [] call = "start"            -> <<Step("start")>>
    [] call = "stop"             -> <<<<"stop", FALSE>>, <<"wait", wait>>>>
    [] call = "abort_stop"       -> <<<<"stop", TRUE>>, <<"wait", wait>>>>
    [] call = "pause"            -> <<<<"change", "PAUSED">>>>
    [] call = "data"             -> <<<<"put", "DATA">>>>
    [] call = "notify"           -> <<<<"notify", "ABORT">>>>
    [] call = "notify_expedited" -> <<<<"notify", "EXPEDITED_ABORT">>>>

\* When an application makes a call: it starts the stream once that is prepared,
\* prepares it again in its final state ("close" does not wait for that), and
\* addresses a session that has begun.
Ready(call) ==
  CASE call = "start" -> state = "INITIALIZED"
    [] call = "initialize" -> state = "FINISHED"
    [] call \in {"notify", "notify_expedited", "data"} ->
         state \in {"RUNNING", "SESSION_STOPPING"}
    [] OTHER -> state # "INITIALIZED" /\ (state = "SESSION_STARTING" => app.stopsEarly)

Call(u) ==
  /\ stack[u] = <<>> /\ u # suspended /\ failed = {}
  /\ calls < app.calls
  /\ calls' = calls + 1
  /\ \E call \in app.api[u], wait \in BOOLEAN :
       /\ Ready(call)
       /\ stack' = [stack EXCEPT ![u] = Body(call, wait)]
  /\ UNCHANGED <<sync, mq, task, flags, session, app, ghost>>

Interface(t) == Start(t) \/ Stop(t) \/ StopState(t) \/ WaitState(t) \/ Join(t)
                \/ LentJoined(t) \/ ModuleClosed(t) \/ CloseQueue(t)
                \/ WaitThreads(t) \/ Initialize(t)
-----------------------------------------------------------------------------
Init ==
  /\ app \in Applications
  /\ state = "INITIALIZED"
  /\ stateLock = None /\ taskLock = None
  /\ stack = [t \in Threads |-> <<>>]
  /\ queue = <<>> /\ queueActive = TRUE /\ isShuttingDown = FALSE
  /\ threadIds = {} /\ thrCount = 0 /\ suspended = None
  /\ isHighPriorityStop = FALSE /\ abortSent = FALSE
  /\ sessionEndSent = FALSE /\ sessionEndProcessed = FALSE
  /\ aborted = FALSE /\ sessionData = FALSE
  /\ calls = 0 /\ log = NoLog /\ failed = {}

\* A thread that is inside the code goes on, until an assertion fails.
Run(t) ==
  /\ failed = {}
  /\ \/ Change(t) \/ SetState(t) \/ OnChange(t) \/ PutMessage(t)
     \/ Finished(t) \/ SendEnd(t) \/ Notify(t) \/ Message(t)
     \/ Serve(t) \/ Interface(t)

Next == (\E u \in Users : Call(u)) \/ (\E t \in Threads : Run(t))

Spec == Init /\ [][Next]_vars

\* The operating system schedules every thread that can go on; whether the
\* application makes another call is its own affair.
FairSpec == Spec /\ \A t \in Threads : WF_vars(Run(t))
=============================================================================
