------------------------ MODULE HeadModuleProperties ------------------------
(***************************************************************************)
(* What a session of a stream promises, stated over HeadModule.            *)
(***************************************************************************)
EXTENDS HeadModule

Labels ==
  {"change", "set", "enter", "starting", "spawn", "stopping", "put", "error",
   "put_stop", "put_stop_head", "abort", "abort_sent", "finished", "send_end",
   "notify", "notify_end", "notify_control", "handle", "process_end", "deliver",
   "event", "session_end", "svc", "get", "unlock", "stop_processing", "leave",
   "exit", "clear_ids", "deactivate", "flush", "release", "start", "stop",
   "stop_state", "wait", "join", "join_lent", "module_closed", "close_queue", "wait_threads",
   "initialize"}

Kinds == {"BEGIN", "END", "ABORT", "DATA", "STOP", "CONTROL_ABORT"}

TypeOK ==
  /\ state \in States
  /\ {stateLock, taskLock, suspended} \subseteq Threads \cup {None}
  /\ DOMAIN stack = Threads
  /\ \A t \in Threads : \A i \in DOMAIN stack[t] : stack[t][i][1] \in Labels
  /\ \A i \in DOMAIN queue : queue[i] \in Kinds
  /\ {queueActive, isShuttingDown, isHighPriorityStop, abortSent, sessionEndSent,
      sessionEndProcessed, aborted, sessionData} \subseteq BOOLEAN
  /\ threadIds \subseteq Threads
  /\ thrCount \in 0..1
  /\ app \in Applications /\ calls \in 0..app.calls
  /\ log \in [Events -> 0..2]

\* The head's state machine, whatever the threads do, only ever makes the
\* transitions that change() accepts.
Lifecycle == INSTANCE StreamLifecycle
ImplementsLifecycle == Lifecycle!Spec

\* No ACE_ASSERT on the session's state or its data fails.
NoAssertionFailed == failed = {}

\* A session ends once: one END message, or one ABORT message in its place, is
\* processed, and the application is told once.
SessionEndsOnce == log["END"] + log["ABORT"] <= 1 /\ log["NOTIFIED"] <= 1

\* No module sees the end of a session that it has not seen begin.
BeginBeforeEnd == log["END"] + log["ABORT"] > 0 => log["BEGIN"] = 1

\* The worker returns from svc() only once the session has finished.
LeavesFinishedSession == \A t \in Threads : At(t, "exit") => state = "FINISHED"

\* A control(ABORT) overtakes the queue by way of its head; a thread that is not
\* the worker processes it only when there is no session for a worker to process.
InlineAbortIsTooEarlyOrTooLate ==
  \A u \in Users : At(u, "handle") /\ Arg(u) = "CONTROL_ABORT" => state # "RUNNING"

Idle == \A t \in Threads : stack[t] = <<>>
Clean == /\ state = "FINISHED"
         /\ \A w \in Workers : stack[w] = <<>>
         /\ ~sessionData /\ threadIds = {} /\ queue = <<>>

\* Once everybody has returned from a finished session, nothing of it is left.
NothingLeftBehind ==
  Idle /\ state = "FINISHED" =>
    Clean /\ thrCount = 0 /\ sessionEndProcessed

\* and the stream's onSessionEnd() was called, unless the session was aborted.
SessionEndIsNotified == Idle /\ state = "FINISHED" /\ ~aborted => log["NOTIFIED"] = 1

\* A stopping session finishes, and everything it held is released.
StoppingSessionFinishes == state = "SESSION_STOPPING" ~> Clean

\* Every call into the stream returns, except that the start() of a PASSIVE head
\* serves the session.
CallsReturn == \A u \in Users :
  stack[u] # <<>> /\ u \notin threadIds ~> stack[u] = <<>> \/ u \in threadIds
=============================================================================
