# ACEStream in TLA+

ACEStream is a C++ framework on top of ACE: an application assembles a *stream* from
*modules*, starts a *session* on it, and the modules hand messages (data, control and
session messages) down the stream, each in a thread of its own or in the thread of the
module above. The code that decides when a session begins, ends, is aborted or paused, and
who processes which message in which thread, is in `src/src/*.inl`: templates of a few
thousand lines, full of threads, locks and flags. That is what these modules specify.
`PROJECT.json` holds the same information for tools: the runs, the lines that every
definition stands for, the findings, hazards and theorems.

## 1. The system

Paths are relative to `src/src/`.

| part | code | state | operations | who calls it |
|---|---|---|---|---|
| control state machine | `stream_statemachine_control.inl` | `state_`, `stateMachineLock_`, a condition | `change()`: check a request against a table, carry it out through `onChange()` | head module, stream, application |
| head module task | `stream_headmoduletask_base.inl` | the state machine; queue; `threadIds_`, `thr_count_`; `isHighPriorityStop_`, `abortSent_`, `sessionEndSent_`, `sessionEndProcessed_`; `sessionData_` | `start`, `stop`, `pause`, `wait`, `notify`, `put`, `svc`, `close`, `onChange`, `finished` | stream; its worker; modules below it (`notify`) |
| stream | `stream_base.inl` | list of modules, session data, subscribers, up- and downstream links, a lock | `initialize`, `start`, `stop`, `notify`, `onEvent`, `link`, `lock`, `shutdown`, `finalize` | application; the tail's reply (`onEvent`) |
| head and tail tasks | `stream_head_task.inl`, `stream_tail_task.inl` | a pointer to the stream | `put`: hand a message on, or back up | the last module |
| task base | `stream_task_base.inl` | session data | `handleMessage`: dispatch, process, pass on | every task |
| asynchronous task | `stream_task_base_asynch.inl` | queue, threads, `threadIds_`, `thr_count_` | `open`, `put`, `svc`, `stop`, `control`, `close`, `module_closed` | upstream modules; its workers; the stream |
| synchronous task | `stream_task_base_synch.inl` | none | `put` | the thread of the module above |
| message queue | `stream_messagequeue*.inl` | doubly linked list, count, lock, condition, `isShuttingDown_` | enqueue at both ends, `dequeue_head`, `flush`, `signal`, activate, deactivate | tasks |
| session data | `stream_session_data.inl`, `stream_data_base.inl` | reference count, flags | `increase`, `decrease`, merge on link | session messages, modules |
| session manager | `stream_session_manager.inl` | map of session data by stream | `getR`, `setR`, `onSessionBegin`... | streams |
| layout | `stream_layout.inl` | tree of modules | append, remove, next | stream |
| allocators | `stream_cachedmessageallocator.inl` ... | pools with a limit | `malloc`, `calloc`, `free` | whoever makes messages |
| delay module | `modules/misc/stream_misc_delay.inl` | two queues, two threads, tokens, a timer | `handleSessionMessage`, `handleDataMessage`, `svc`, `dispatch`, `reset`, `stop` | upstream module; its threads; the timer |
| processing modules | `modules/` | codecs, devices, sockets | `handleDataMessage` | tasks |

How they interact. The application calls the stream; the stream drives the head module's
state machine; a state that is entered (`onChange`) puts a session message, spawns the
worker, or enqueues MB_STOP. The worker takes messages from the queue and hands each one
down the modules; the last one hands session messages back up to the stream's `onEvent()`,
which requests further transitions, **in the worker's thread**. A module that fails calls
`notify(ABORT)` on the head, from inside a message. When a worker returns from `svc()`, ACE
decrements `thr_count_` and calls `close(0)` on its task, which cleans up.

Two streams can be *linked*: the last module of the upper one then hands its messages to the
head of the lower one. The application calls `link()`, a LINK message goes down both, and every
task of the lower stream changes over to the session data of the upper one, keeping its own
aside; UNLINK undoes that. The containers of the session data count their references: each
message that carries one has one, and so has each task.

What is hard here:

* *check, then act*: `change()` checks a request under the lock and carries it out after
  releasing it; `svc()` and `finished()` decide by flags that other threads set;
* *re-entrance*: `change()` calls `onChange()`, which calls `put()`, which (CONCURRENT)
  processes the message and comes back to `change()` from `onEvent()`;
* *several ends*: a session may be ended by `stop()`, by a module's abort, by the
  application's abort, by a message that cannot be passed on, and by closing the module, at
  the same time, and must end once;
* *hand-over of MB_STOP* among the workers of a task, by a count read without a lock;
* *locks not taken*: an expedited session message is enqueued without the queue's lock;
* *waiting*: `stop(wait)`, `close()` and `wait()` wait for threads that must be told to stop;
* *who owns what*: a task decides by `linked_`, `freeSessionData_` and `sessionData_2` whether
  it has a reference to give up, over any sequence of BEGIN, LINK, RESIZE, UNLINK and END;
* *pace*: a module that holds data back must still end, flush and abort in order;
* *leftovers*: flags, queues and ids of one session that the next one finds.

What makes each part correct: only transitions of the table are made; BEGIN comes before
END and END comes once; the worker leaves a finished session and nothing of it stays; every
call returns; each worker gets an MB_STOP; the queue keeps every accepted message, in order;
the count of a container is the number of those who will release it; linked streams agree on
the session data; a delay keeps the rate, and the data, and lets nothing follow the END.

## 2. The modules

| module | what it is |
|---|---|
| `StreamStates` | the states, their numeric rank, the table of `change()` and the "tape recorder" routes |
| `StreamLifecycle` | abstract specification: one variable, each step a transition of the table |
| `HeadModule` | head module, state machine, stream and task base together, with the threads of the application and the worker |
| `HeadModuleProperties` | what a session promises; the refinement of `StreamLifecycle` |
| `MCHeadModule` | the applications that TLC runs against it |
| `HeadSession` | where a session stands at each step of the thread that controls it and of the worker: the inductive invariant of its proofs |
| `HeadModule_proofs` | the proofs of its types, that one worker serves the queue, and of its sessions |
| `AsynchTask` | a module task with any number of workers |
| `AsynchTaskProperties`, `MCAsynchTask` | its properties, its instance |
| `AsynchTask_proofs` | the proofs of its safety properties |
| `MessageBuffer` | abstract specification of a queue: a sequence |
| `LinkedLists` | the sequence of elements that a link leads through, as an operator |
| `MessageQueue` | the doubly linked list, its lock and its condition variable |
| `MessageQueueProperties`, `MCMessageQueue` | its properties, the refinement, its instance |
| `LinkedListTheorems` | what appending, prepending and removing do to a linked list |
| `MessageQueue_proofs` | the proofs of its safety properties and of the refinement |
| `LinkedStreams` | two streams, their tasks and heads, the messages and the session data |
| `LinkedStreamsProperties`, `MCLinkedStreams` | their properties, their instance |
| `LinkedStreams_proofs` | the proof that session data in use is not freed |
| `LinkedSessions_proofs` | the proofs of their other safety properties |
| `Channel` | abstract specification of a module that holds data back: a sequence of bytes |
| `Delay` | the delay module with its two threads and its timer |
| `DelayProperties`, `MCDelay` | its properties, the refinement of `Channel`, its instance |
| `Delay_proofs` | proofs of its safety properties and of the refinement |
| `Queues`, `QueueTheorems` | the selective flush of a queue as an operator, and lemmas about it |

**HeadModule.** `stack[t]` is what thread `t` still has to do: a sequence of
`<<label, argument>>`, where a call pushes the callee's labels before the rest of the
caller's. One action per label; a step ends where the code takes or leaves a lock, or reads
a field that another thread writes without one. `Change` models the check under the lock and
pushes an `enter` for each state of the route; `EnterStarting`, `Starting`, `Spawn`,
`EnterRunning`, `EnterPaused`, `EnterStopping`, `Stopping`, `EnterStopped`, `EnterFinished`
are the cases of `onChange()`. Some of them set the state themselves, early and under the
lock, as the code does; the others leave it to `SetState`. `stateLock` and `taskLock` are variables because the code holds them across calls
(`StopState`, `GetQShutdown`); where a lock is held for one step only, the guard suffices.
`failed` collects the `ACE_ASSERT`s that did not hold; a behaviour ends there, as an aborted
process would. `log` counts what left the head in a session. `app` is the application: the
head's concurrency, the calls its threads make, whether modules abort, whether `put_next()`
fails. The calls are bounded by `app.calls`. Who waits for a PASSIVE head joins the thread that `start()`
borrowed: `Join` reads its id and `LentJoined` returns when it has terminated, not when it has left
`svc()`. `app.lentEnds` says whether the application lets it terminate after its call of `start()`; if not,
the join does not return (`v_passive_wait`).

**AsynchTask.** One action per step of `svc()` between two accesses to shared state:
`Get`, `Handle`, `StopSelf` (enqueue MB_STOP after a session end or a failure),
`CountThreads` (read `thr_count_`), `PassStop`, then ACE's `Exit` and `CloseWorker`,
`DeactivateQueue`, `FlushQueue` of the last thread. Upstream: `Put`, `PutExpedited`,
`PutAbort` with `HandleInline`, `PutFlush`, `StopTask`. The stream: `Open`, `CloseModule`,
`Initialize`. `sent`, `log` and `leftover` record what was enqueued, processed and released.
`CloseModule` is what ACE does when the stream pops the module, as the comment at
`stream_base.inl:649-654` has it: `module_closed()`, which does nothing, and a flush that closes the
task's queue, which deactivates and empties it. The workers then find `ESHUTDOWN` in `getq()`
(732-743), wherever they were, and `Initialize` follows when all have left. `Batches` says which sets
of messages upstream may have to send in a session.

**MessageQueue.** `head`, `tail`, `next`, `prev`, `count` are the fields of ACE's list. What
is done under the lock is one step, with two exceptions: the loop of `flush()`, one step per
message, and the gap between finding the list empty and sleeping, during which the worker
holds the lock. `enqueue_head_i()` as `put()` calls it for an expedited message, without the
lock, is one step per statement. `fate` says what became of each message. `use` says which
threads there are and which messages are expedited.

**LinkedStreams.** Task `<<s, 0>>` is the head of stream `s`, `<<s, i>>` its `i`-th module. A
container is `<<stream, number>>`: what it refers to, `DataOf`, is the stream's session data,
and `count` its `refcount_`. Per task there are `data`, `data2`, `linked` and `free`
(`sessionData_`, `sessionData_2`, `linked_`, `freeSessionData_`); per stream the queue of the
head (`inbox`) and the message its worker carries from task to task (`hand`, `at`): one action
for each kind of message at a task, `HandleBegin` to `HandleControl`, and `HandOn` behind the last one.
The application makes its calls one after the other, but each is several steps (`todo`), and
`control()` is two: `Borrow` reads the head's container, `Post` increases its count and
enqueues the message. The end of the upper stream (`EndAndUnlink`) makes the four calls of
`onChange()` on the lower one. The life cycle of each stream is `ready`, `running`,
`stopping`, `over`: `HeadModule` has its detail.

**Delay.** The source is the thread of the module above, and makes one handler after the
other (`source`, `handling`): BEGIN schedules the timer and starts the two threads, RESIZE and
ABORT flush both queues in two steps, END and ABORT enqueue MB_STOP and wait for the threads.
The threads are `First` (`threadIds_[0]`) and `Second`; whichever comes first takes the second
queue (`Start`). Inbound: `Dequeue`, `Sleep` while there are no tokens, `TakeTokens` (with
the rounding to audio frames, and the split of the message), `Check` for a RESIZE, `Send` to
the second queue, `Leave` and `Join`. Outbound: `Dequeue2`, `PutNext` or `PutNextFails`. `Reset` is the
timer. A message is a number and a length. `spent`, `downstream` and `session` record what
the properties speak of.

## 3. What the runs check

| run | instance | what it shows |
|---|---|---|
| `session` | six applications, six calls at most: stop and feed (ACTIVE), with high-priority stops, with pauses, CONCURRENT, PASSIVE (with a borrowed thread that ends after its call), and modules or the application that abort | life cycle refined; no assertion fails; the worker leaves only a finished session; an ABORT is processed inline only where the code says it should be; nothing left behind; `onSessionEnd()` once; liveness: a stopping session finishes, every call returns |
| `stop_races` | two threads start, stop, hard-stop, pause and feed one session, also while it starts, with data that may be refused | END (or ABORT) once, notified once, never before BEGIN |
| `task` | two workers, the module pushed twice and popped at any point; a session has a data message and an END, or an expedited ABORT, or a message that fails and a control ABORT; one external stop, one MB_FLUSH | the count of threads is exact; an MB_STOP is there for the workers that remain; nobody serves a deactivated queue before the module is popped; the last thread cleans up; messages are taken in order, and only what came after an MB_STOP is released unprocessed; liveness: MB_STOP or the session's end reaches all, and all workers of a popped module leave, though the flush may have discarded their MB_STOP |
| `queue` | a putter, two workers, a thread with two operations out of flush (both kinds, and ACE's), deactivate, activate, signal; two data, one session, one urgent message. Or the putter alone, with the session message expedited | the list is well formed and implements `MessageBuffer`; flush follows no dead link and is complete; no lost wake-up; workers leave a deactivated queue; the unlocked insert is right when nobody else is there |
| `delay` | two threads, two messages of two or three bytes, three tokens a tick, frames of two bytes, two sessions: an audio stream with a RESIZE; images; a stream with one failure and `catchUp`; one that does not wait for its data and may be aborted after its end | one thread per queue; the rate; data goes in order and whole, whatever splits or interrupts it (`ImplementsChannel`); nothing is left when a session that waits for its data has ended; liveness: END and ABORT return, data goes without another message to push it |
| `links` | a head and a module in each stream; two sessions and one link with `stopOnUnlink`, or one session and two links, or a link and a RESIZE of either stream | the count of each container is the number of its holders (`NotFreedInUse`: it is no less; `NothingIsForgotten`: it is no more); linked tasks agree; nothing is held by an initialized stream; liveness: the end of the upper stream ends the lower one |
| `v_*` | see section 4 | where the code departs from its comments |

Why the bounds are enough. The head module has one worker by construction
(`Spawn` is refused while `thr_count_ > 0`); two application threads make every pair of
calls concurrent, and six calls suffice for a session, its end, and the preparation, start
and stop of the next. Two workers suffice for the hand-over of MB_STOP on the model
checker's side, and the theorems of section 6 hold for any number. Four messages
of three kinds are enough for the flush to remove the first, a middle, the last and
the only message of a list, with a message that stays before or after it; two workers can
wait, be woken and find the message gone. In `delay` three tokens for messages of two and
three bytes and frames of two make all the cases of the rounding happen: a whole message, a
frame for less than a frame, a rest that is less than a frame; two messages fill both queues and
both hands in turn, and the theorems hold for any numbers. In `links` one module behind
each head is enough to tell a head from a module, which is the only distinction the code makes
between tasks; what a second session finds, a second link finds, and a RESIZE overtakes are apart,
because together they exceed the time of a run; the properties are proved for all of them together (section 6).
`MaxContainers = 5` is never reached: a stream makes one container per session, and one more when `control()` finds none.

`CHECK_DEADLOCK FALSE` is set everywhere because the applications make a bounded
number of calls and then stop, and workers wait for messages for ever: a state without a
successor is normal. Real deadlocks are found as violations of `CallsReturn`,
`StoppingSessionFinishes`, `StopStopsAll`, `MessagesAreTaken`, `WorkersLeave`,
`HandlersReturn` and `UpstreamEndsDownstream`.

Fairness. `FairSpec` asks of every thread that is inside the code that it goes on when it
can (weak fairness of its next step): the operating system does not starve a runnable thread.
Nothing is asked of the application: it need not make another call. In `AsynchTask` only the
workers are fair, in `MessageQueue` the workers and whoever holds the lock, in `LinkedStreams`
the workers and a call that has begun, in `Delay` its threads, a handler that has begun, and
the timer as long as it is scheduled (a periodic timer of the timer queue fires again and again). Weak fairness is
enough although locks are contended, because the number of calls, messages and flushes is
bounded, so that a lock is in the end free for good.

`InlineAbortIsTooEarlyOrTooLate` and the second session: the applications of `session` abort
only in their first one; see observation 5 of section 5.

## 4. Findings

Each is a run that TLC must find violated, and a line of the code's own documentation.

1. `v_stop_and_abort`: two requests that `change()` accepted are both carried out, since it
   releases the lock between the check and the change (`stream_statemachine_control.inl:191`);
   a stop and an abort in two threads make a transition the table does not have.
2. `v_close_early`: `svc()` calls `finished()` with `lock_` held (`stream_headmoduletask_base.inl:805`),
   which takes the same non-recursive mutex.
3. `v_abort_concurrent`: `finished()` sends END although the session was aborted, as
   `sessionEndSent_` guards its first branch only (2994, 3176); a CONCURRENT session ends twice.
4. `v_put_next_fails`: a data message that cannot be passed on makes a RUNNING session call
   `finished()`, which asserts that it is not RUNNING (914, 3158).
5. `v_passive_wait`: who waits for a PASSIVE stream joins the thread that called `start()`
   (`stream_headmoduletask_base.inl:2252`). Unless that thread terminates after its call, `stop()` with `wait`
   never returns; the TODO at 2233 says what should be done instead.
6. `v_expedited`: an expedited session message is enqueued without the lock that
   `stream_messagequeue_base.h:55` demands (`stream_task_base_asynch.inl:498`); a message that
   another thread puts at that moment is lost. With more threads a worker may also find `head_` null.

## 5. Further observations

Met while modelling; no run of the project shows them.

1. A second `stop()` enqueues a second MB_STOP, and the worker leaves on it before END was
   processed, because `sessionEndSent_` is set before END is enqueued (866, 3178).
2. The end of an aborted session is not notified: `onEvent()` drops END once the state is past
   SESSION_STOPPING (`stream_base.inl:1566`). `SessionEndIsNotified` excludes it.
3. A finished stream that is started again without `initialize()`, as the transition table
   allows, keeps the flags and the deactivated queue of the last session (2470).
4. `stop()` passes a relative timeout where a point in time is expected (1715, 1758): it
   does not wait for a starting session to settle. The model has it as no wait at all.
5. `isShuttingDown_` is set by the first MB_STOP and reset by nobody (`stream_messagequeue_base.inl:71`),
   so that from the second session on an ABORT of another thread is processed in that thread, also when it is
   neither "too early" nor "too late" (`stream_headmoduletask_base.inl:276`). TLC finds
   `InlineAbortIsTooEarlyOrTooLate` violated with the application `AbortSecond` of `MCHeadModule`.
6. `flush()` leaves the `prev()` of the new first message pointing to a released one
   (`stream_messagequeue.inl:76`). Nobody follows it today (`FlushFollowsLiveLinks`, proved in
   section 6); the change that the TODO at line 84 suggests would.
7. MB_FLUSH discards an MB_STOP along with the rest; the liveness of `AsynchTask` excuses it.

Of linked streams:

8. A reference is taken late: `control()` reads `sessionData_` without a lock (1395) and
   increases its count 100 lines below. At the end of the session, or when a RESIZE of the
   upper stream overtakes LINK and frees the lower head's own container, it is gone by then.
   `BorrowedIsAlive` excludes exactly these cases.
9. A RESIZE of the lower stream that is on its way while LINK arrives carries the data of the
   lower stream and puts it back (`stream_task_base.inl:349`). `LinkedShareData` excludes it. A
   RESIZE that arrives behind END gives a module a container that it will not release, since
   `freeSessionData_` is cleared; `ReadyHoldsNothing` excludes it. `CountIsExact` holds all the same.
10. An ordinary `unlink()` sends UNLINK through the lower head with the container that it
    uses, which is the upper stream's: "same data", so that the tasks do not go back to
    their own, and keep it in `sessionData_2` until they are initialized again. The comment in
    `stream_task_base.inl:268-275` speaks of going back. The modules of the upper stream get no UNLINK at all, and their
    `linked_` stays above zero, so that END does not release their data; `initialize()` does.
11. The branch of UNLINK for streams whose session data have different locks
    (`stream_task_base.inl:404`) would leave a reference behind. It is not taken: all session
    data share the lock of the session manager (`stream_session_manager.inl:383`).
12. END of the upper stream can reach the lower head as a message, when the upper one is stopped
    before LINK was processed; the model rules that order of calls out (`StopStream`).
13. A task that is linked a second time, after a RESIZE of the lower stream has put its data back
    (no. 9), overwrites `sessionData_2` (`stream_task_base.inl:300`) without giving up the container it
    had kept: the reference is lost, and the container never freed. `NothingIsForgotten` excludes two links with a RESIZE.
    It also excludes two of these: when both come to a module after END, the first one gives it a container
    that `freeSessionData_` does not own up to, and the second one overwrites that without releasing it (349).

Of the delay module:

14. BEGIN writes `mode` into the shared configuration of an audio stream, but keeps the
    interval to itself, so that the next session asks for the frame rate of a video and fails
    its assertion (`stream_misc_delay.inl:360`, `BeginAsserts`).
15. By default END does not wait for the data: what is left in the queues goes downstream
    in the next session, ahead of its BEGIN or behind it. `NothingIsLeft` asks for `waitForDataOnEnd`.
16. An ABORT after END, or after a BEGIN that failed, leaves an MB_STOP in the first queue, and
    the thread of the next session leaves at once.
17. `resizeOccured_` stays set when no message is being dispatched; the first one after the RESIZE is
    then dropped (1109). `Discarding` allows it.
18. An `open()` that fails behind the timer leaves the timer scheduled.

Of pausing and popping:

19. `pause()` and `stop()` of two threads may both be accepted while RUNNING, and the pause carried out behind the
    stop, since `change()` acts after releasing the lock. The worker is suspended, where the platform can do that, and
    the state is PAUSED while the session is stopping; the resuming that the comment at
    `stream_statemachine_control.inl:123` speaks of was decided before. The session never finishes: TLC finds
    `StoppingSessionFinishes` violated with the application `PauseAndStop` of `MCHeadModule`. Were the worker
    resumed, its END would be dropped, because PAUSED ranks above SESSION_STOPPING (`stream_base.inl:1566`).
20. `stream_task_base_asynch.h:77` declares a `flush()` of its own, which keeps the session messages and
    deactivates nothing. If ACE's `flush()` is virtual in the version that is built against, popping the
    module calls this one, and workers that have seen no end of the session wait for ever:
    the mutant of `CloseModule`, for which TLC finds `ClosingModuleJoins` violated.

## 6. Proofs

`HeadModule_proofs` proves, for any threads, workers and applications, in every concurrency mode, from
the assumptions of `HeadModule` alone (users and workers differ; an application is a record of its kind):

* `TypeCorrect` : `Spec => []TypeOK`
* `OneThreadServes` : of the threads of an ACTIVE head module, at most one serves the queue

and, of the sessions of a stream that is used as `ControlledBy(c)` (in `HeadSession`) says, each
as `Spec /\ ControlledBy(c) => []P` with one of the properties that `session` or `stop_races` checks:

* `AssertionsHold` : `NoAssertionFailed`
* `EndsOnce` : `SessionEndsOnce`
* `BeginsBeforeEnd` : `BeginBeforeEnd`
* `WorkerLeavesFinished` : `LeavesFinishedSession`
* `AllIsReleased` : `NothingLeftBehind`
* `EndIsNotified` : `SessionEndIsNotified`
* `LifecycleImplemented` : `ImplementsLifecycle` (without the box)

`ControlledBy(c)` is the ordinary use of an ACTIVE stream: thread `c` calls `initialize`, `start`,
`stop` (of both kinds, waiting or not), `pause` and `close`, any number of times in any order that `Ready`
allows; any number of other threads feed the stream; nobody aborts it from below, and no `put_next()` fails. The
applications `StopAndFeed`, `HardStopAndFeed` and `PauseAndFeed` of the run `session` are of that kind,
each with some of the calls; the theorems have all of them at once and without a bound. `c` controls no session that
is still starting (`stopsEarly`). The hypothesis is not there for the prover: with two threads that control the session, with
aborts, or with data that is refused, some of these properties are false of the code, as
`v_stop_and_abort`, `v_close_early`, `v_put_next_fails` and section 5 show, and those that hold
in `stop_races` or `session` for wider uses or other modes are checked by TLC there.

The argument for the first two. What makes the type invariant more than bookkeeping is `thrCount \in 0..1`, which needs to
know who decrements the count. `Stacks` gives every step its arguments (`Entries`), and says that only users make
calls and that the entry below a `stop` is always there for `stop_state` to drop. `OneWorker` says of
an ACTIVE head that users never serve the queue, that a worker's step that serves it (`Serving`) is the last one on its stack,
and that one worker at most has such a step, and only while the count is 1. An action is then a replacement
of the first step of one stack: by work (`WorkingStep`), by work and a step that serves again, or by the end of serving,
which counts the worker out (`ServingStep`), by nothing and not even the next one (`DroppingStep`), or, in
`Spawn`, by a first step on another stack.

The argument for the sessions. None of the properties is inductive, nor is their conjunction: each depends on what
the worker and `c` will still do. `SInv` joins `Sound`, by which the other threads only put data and nothing
has failed or been aborted, with `InSession`, which lists where a session may be. Between the sessions (`Bare`) there is no worker,
and `Prepares` says for each step of `initialize()` and `start()` what is set and queued. In a session
there is one worker `w`, and `Service(e, q)` says, for each step `e` that it may be at and the steps `q` behind it,
how far the session has come: the state, whether END was sent or processed, what was logged, and what is queued
(`Fresh`, `Taken`, `Begun`, `Going`, `Queued`, `Leaving`, `EndAtHand`, ... `Over`). What is queued is taken without the data and
without a control(ABORT) (`Rest`), because those may be anywhere at any time and change nothing of the session. `Control(e, q)` says
the same of `c`, with only as much about the state as the worker, running ahead, cannot invalidate. The exception is the
time from `SESSION_STOPPING` until MB_STOP is queued: then the worker stays in its loop (`Waited`), since
nobody else can end the session, and `c` has the MB_STOP to queue (`Owes`). After the session the worker
releases what it held (`Closed`) until all is `Gone`.

A step of the worker is then a step from one line of `Service` to another (`...Serves`, `...Closes`), which must leave
`Control` true (`Spares`); a step of `c` one of `Control` (`...Commands`), of `Owing` (`...Halts`) or of `Prepares`
(`...Founds`), which must leave `Service` true (`Kept` when the session stays where it is, `Paces` when it is
paused or resumed, `QueueCloses` when `close()` flushes the queue). That last case is where END may be flushed: the
worker then finds the queue closed, opens it again, and calls `finished()`, which queues another END. `Settled` is
what makes it safe: no MB_STOP is flushed that the worker would need. `LifecycleImplemented` follows because a line
that sets a state says which state it finds (`Advanced`).

`AsynchTask_proofs` proves the seven safety properties of the asynchronous task for every set of workers and
messages, from the assumptions of `AsynchTask` alone (the workers are a finite non-empty set,
the kinds of messages are disjoint, the bounds are natural numbers):

* `TypeCorrect` : `Spec => []TypeOK`
* `CountCorrect` : `Spec => []CountIsExact`
* `ServedQueueCorrect` : `Spec => []ServedQueueIsActive`
* `StopCorrect` : `Spec => []StopIsPassedOn`
* `LastThreadCorrect` : `Spec => []LastThreadCleansUp`
* `LeftoverCorrect` : `Spec => []OnlyLateMessagesAreLeftOver`
* `OrderCorrect` : `Spec => []InOrder`

The argument. None of them but the type invariant is inductive. `Counting` joins what
depends on each other: the count is exact; a last thread is only named when the count is
zero; only that thread deactivates and flushes; a queue that is not active is
served by nobody; a module that is ready to be opened has no threads. From `TypeOK /\
Counting` follows `ServedQueueCorrect`, while the module is not popped; once it is, the workers
leave by `ESHUTDOWN`, and the queue stays deactivated and empty until it is initialized, since a put
to it is refused (`ClosedQueueInvariant`). Then comes
`StopIsPassedOn`: the interesting step is `CountThreads`, where a worker that reads
`thr_count_ = 1` is, by exactness, the only one in `svc()`, so that nobody is left to whom
MB_STOP should be passed. `CleaningUp` strengthens `LastThreadCleansUp` by what holds between
the exit of the last thread and its flush. The lemmas on queues (`QueueTheorems`) say that
the selective flush yields a sequence of what was there, and loses nothing but the flushed kinds.

The last two are about order, which `Before(q, x, y)` states of two messages of a queue; the lemmas say
what appending, prepending, taking and flushing do to it (`BeforeAppend` to `WithoutOrder`).
`LeftoverCorrect` rests on `StopWasSent` (an MB_STOP that is queued, or that made a worker leave its loop, was
accepted in this session, while the module is not popped) and on `AheadOfStops`: a queued message that was sent behind no MB_STOP has none
ahead of it in the queue either, and all workers are still in their loops, so that the last of them cannot have
left and flushed. The step that matters is `Get` of an MB_STOP: all that remains
was behind it. `OrderCorrect` rests on `Ordered`: what is queued is in the order in which it was sent, and
of two messages the one sent first is not queued when the other one was taken; a message that comes
from upstream is sent once.

`MessageQueue_proofs` proves the safety properties of the message queue, and that it implements
`MessageBuffer`, for every set of threads and messages and any number of flushes:

* `TypeCorrect` : `Spec => []TypeOK`
* `QueueIsWellFormed` : `Spec => []WellFormed`
* `FlushLinksAreLive` : `Spec => []FlushFollowsLiveLinks`
* `FlushRemovesAll` : `Spec => FlushIsComplete`
* `QueueImplementsBuffer` : `Spec => ImplementsBuffer`

They assume `ExpeditedAlone`: in a use in which messages are expedited, without the lock, the thread
that does so is the only one. That is the line between the runs `queue`, which has such a use and one with
all threads and the lock, and `v_expedited`, where TLC finds a message lost.

The argument. `Shape` says that `List`, the path of `next()` from `head_`, is a linked list in the sense of
`Linked` (each message leads to the next one, the last one to null, none occurs twice), that its
messages are the queued ones, and that `prev()` leads back behind the first. A path is determined by
its links (`PathIsUnique`), so that for each operation on the pointers it is enough to give the sequence
that they lead through afterwards: `LinkedAppend`, `LinkedPrepend`, `LinkedRemove` and their like. `Path` is a recursive
function, about which induction is out of the prover's reach; the lemmas argue by a least counterexample
instead (`LeastNatural`). `Ends` has the count and the tail, also between the
statements of `enqueue_head_i()`, where the message is half queued; `Progress` says how far `flush()` has got, and
that it left nothing of the flushed kind behind; `InPlace` and `Alone` say who may be where and who
holds the lock. The refinement then reads each step off the same lemmas: a message
is added, taken or removed, or the list is cleared, or it is as before.

`Delay_proofs` proves the safety properties of the delay module, and that it implements `Channel`, for every rate, frame size,
set of lengths and set of configurations, from the assumptions of `Delay` (the threads
differ, the numbers are positive):

* `TypeCorrect` : `Spec => []TypeOK`
* `ThreadsAreApart` : `Spec => []OneThreadPerQueue`
* `PaceIsKept` : `Spec => []Paced`
* `NothingRemains` : `Spec => []NothingIsLeft`
* `DelayImplementsChannel` : `Spec => ImplementsChannel`

The argument. `IInv` joins `OneThreadPerQueue` with `Taking` (until a thread has taken the second queue
none serves any, and while one is still to start, nobody serves the first), `Session` (the threads are gone
whenever the next BEGIN may come, so that the flag is set when they start), `HasTimer` (who is
to cancel a timer finds one, which keeps `timers` natural), `Holds` (who is to send a piece has one),
and `Budget` (tokens left and spent add up to at most the average, or the tokens are used up and at
most the rest of one frame was spent on top). `Paced` is not inductive, since it does not speak of the tokens
that are left: `Budget` is. The lemmas are about the arithmetic: a number of tokens is rounded to a positive
number of bytes, of which it exceeds the tokens only below one frame (`WholeFrames`), and splitting
a piece leaves pieces.

`NothingIsLeft` says nothing of the way there, so its invariant `Draining` follows MB_STOP through the module:
it is still to come (`ToCome`); it is the last item of the first queue (`InFirst`); one thread has
taken it, and left behind an empty queue (`Taken1`); it is the last item of the second queue (`InSecond`); the
other thread has taken it as well (`Taken2`). While a handler waits, one of the last four holds, and
only in the last of them may both threads be gone. The thread that serves the second queue is another
one than the one that takes MB_STOP first: that is `OneThreadPerQueue` again. Before an ABORT the first
queue is flushed, so that MB_STOP, which then overtakes, is also the last item.

For the refinement, what the module holds back is a row of four sequences of bytes (`BytesAreRow`): what the thread of
the second queue has at hand, that queue, what the thread of the first one has at hand, and that queue. `Handy` strengthens
`Holds`: a thread has one piece, or two when it has split a message, or none, depending on where it is. A step then
moves bytes from the front of one of the four to the end of the one before it, which leaves the row as it is (`RowMoves`); adds
some at the end (`RowAccepts`); or empties one of the four (`RowLoses`): the first, when it is passed on, and another one only
when `Discarding`. That the bytes of a split message are those of the message is `SplitBytes`, and that an MB_STOP has none
and a flush leaves none is `PayloadOperations`, which rests on what `Without` and `FlattenSeq` make of joined sequences
(`WithoutConcat`, `FlattenAppend`). That only one thread serves each queue is `OneThreadPerQueue` again: were there
two, which piece comes first would not be determined.

`LinkedStreams_proofs` proves, for any number of modules, containers, sessions, links and
resizes, from the assumptions of `LinkedStreams` (the streams differ, `None` is no container, the
numbers are natural), the half of `CountIsExact` that keeps memory safe:

* `TypeCorrect` : `Spec => []TypeOK`, hence that no count falls below zero
* `NeverFreedInUse` : `Spec => []NotFreedInUse`

The argument. `Held(c)` is a sum of cardinalities: tasks that use or keep `c`, messages in a queue and at
hand that carry it. The lemmas say how each changes when one task, or one queue, changes
(`OneTaskChanges`, `OneQueueChanges`, `CarryingAppend`, `CarryingTail`), or many tasks at once
(`SomeTasksGiveUp`, for `initialize()`). From them follows for every step but `Start` and `Post` that it keeps the
balance of each container (`Balanced`): the count falls by no more than the number of holders
does, and rises only while somebody holds the container. `Start` and
`Post` may make a container; that nobody holds it yet follows from
`OnlyMade` (what was not made has no count), and what `control()` has read without a reference
was made, though it may be freed by then. `Typed` is `TypeOK` with counts that could fall below zero, and `Borrowing` says
where in a call `control()` is.

`LinkedSessions_proofs` goes on from there, from the same assumptions:

* `CountsAreExact` : `Spec => []CountIsExact`
* `InitializedHoldsNothing` : `Spec => []ReadyHoldsNothing`
* `WhatIsReadIsAlive` : `Spec => []BorrowedIsAlive`
* `LinkedUseTheSame` : `Spec => []LinkedShareData`

The argument. `LInv` joins what each of them needs with `IInv`; `SessionsInvariant` says that it is an invariant.
The *surplus* of a container is its count less its holders, zero at first. Every step keeps it, but for two
that overwrite a container which a task holds (`Forgets`): LINK at a task that has put one aside, and RESIZE
at a module that has one without knowing it. So nothing is forgotten if neither happens with few calls,
and that is a matter of where the messages are. `Sessions` says that none are under way in a
stream that is not running, `Origin` whose containers they carry. `Way` follows the first LINK and the first RESIZE
from the call through both streams: it is in one place (`Once`), and a task that it may still come to
(`ComesTo`) has no trace of an earlier one. That leaves the data that a task has put aside *before* its session's BEGIN
would come: `FirstIsBegin` says that BEGIN is the first message of a session, and
`KeptBelow` that who has put data aside uses that of the other stream. `ReadyHasNone` follows from `Way`,
`BorrowedIsAlive` from `HeadHolds` (the head has the newest container of a session that goes on, or has put it aside).

`LinkedShareData` speaks of the moment when all is quiet, so that its invariant has to say who will bring
a task the data. `Orderly`: no message that ends a session is in the queue of a stream that is running, and none
that ends a link in that of a linked upper stream, where `stop()` calls `_unlink()` first. `Begun`: a task of a
running stream has data, or BEGIN is coming to it. `Linked`: LINK is coming to a task of the lower stream, with no
UNLINK behind it, or has been there. With nothing under way, only the last of each remains.

Model-checked only: the sessions of `HeadModule` in the other uses and modes (two threads that control the stream, aborts, refused
data, CONCURRENT and PASSIVE heads), `InlineAbortIsTooEarlyOrTooLate`, and all liveness, which is beyond the prover: `StoppingSessionFinishes`,
`CallsReturn` and the like rest on fairness.

## 7. Not modelled

* The delegation of the stream's lock, layout and branches, allocators: planned, section 8.
* Of links: chains of more than two streams, and the steps inside `link()` and `unlink()`, which set the pointer
  before and after the wiring; one flag stands for both. The fields of the session data and
  their merging. `handleResize` is taken as set. A container that was freed and is posted
  nevertheless is modelled as if its memory was still there, so that the run goes on past it.
* Of the session manager: `create`, `setR` and `destroy`, which the applications call.
* Of the delay module: the adaptive token factor, the modes that take the time from the scheduler,
  `Stream_Module_Delay_2`; an ABORT that a thread of the module itself notifies comes, as
  every ABORT, from the source.
* `generateSessionMessages = false`, `hasReentrantSynchronousSubDownstream = false`,
  `autoStart`, statistic timers: variants of the configuration; the models fix the defaults.
* Locks of the task and of the session data that are held for a single step: the suspension of a
  worker in `pause()` while it holds one is therefore not seen.
* `waitForIdleState()`, water marks and byte counts of the queue: the framework's queues have no limit.
* Processing modules, examples, tests, third-party code: wrappers and applications.
* ACE itself is modelled from its use (`external` in the map): the list operations of
  `ACE_Message_Queue`, the exit of a thread, the closing of a module. What ACE flushes and waits for when a
  module is popped is taken from the comment at `stream_base.inl:649-654`; see no. 20 of section 5.

## 8. Plan

Done, in this order: the state machine and the head module, because every session depends on
them, with proofs; the asynchronous task, where several workers share a queue, with proofs; the queue's list, with proofs;
two linked streams and the reference counts of their session data, with proofs; the delay module, the one
of the processing modules with threads, queues and a clock of its own, with proofs.

Next, by weight:

1. Proofs of the properties of a session of a CONCURRENT head module, which has no worker, and with aborts from below.
2. The delegation of the stream's lock along the links: who is locked is who gets unlocked.
3. `Allocator`: pools with a limit, waiting, and messages that are freed by another thread.
4. `Layout`: the tree of modules as pure operators against a reference definition; then the
   distributor, which hands a message to several branches.
5. The variant `generateSessionMessages = false` of `HeadModule`.
