------------------------ MODULE AsynchTaskProperties ------------------------
(***************************************************************************)
(* What a module task with worker threads promises, stated over            *)
(* AsynchTask.                                                             *)
(***************************************************************************)
EXTENDS AsynchTask

TypeOK ==
  /\ phase \in {"ready", "open", "closing"}
  /\ queue \in Seq(Items)
  /\ active \in BOOLEAN /\ isShuttingDown \in BOOLEAN
  /\ pc \in [Workers -> Places]
  /\ held \in [Workers -> Messages \cup {None}]
  /\ \A w \in Workers : pc[w] = "handle" <=> held[w] # None
  /\ ending \subseteq Workers /\ threadIds \subseteq Workers
  /\ thrCount \in Nat
  /\ lastThread \in Workers \cup {None}
  /\ inline \subseteq Aborts /\ unsent \subseteq Messages /\ leftover \subseteq Messages
  /\ sent \in Seq(Items) /\ log \in Seq(Messages)
  /\ opens \in Nat /\ stops \in Nat /\ flushed \in BOOLEAN /\ overtaken \in BOOLEAN

AllIdle == \A w \in Workers : pc[w] = "idle"

\* thr_count_, which the workers read without a lock, counts the threads that
\* have not returned from svc().
CountIsExact == thrCount = Cardinality(Serving)

\* No worker is left behind: once one of them has left, those that still serve
\* the queue find an MB_STOP in it, or one of them is about to pass it on.
StopIsPassedOn ==
  /\ ~flushed /\ active
  /\ \E w \in Workers : pc[w] \notin Looping \cup Stopping
  /\ \E w \in Workers : pc[w] \in Looping
  => Stop \in Queued \/ \E w \in Workers : pc[w] \in Stopping

\* Only the popping of the module deactivates the queue below a worker that serves it:
\* close(0), which runs while upstream still puts messages, leaves nobody behind.
ServedQueueIsActive == phase = "open" /\ ~active => Serving = {}

\* When the last worker is gone, nothing is left that nobody would process.
LastThreadCleansUp ==
  phase # "ready" /\ AllIdle => ~active /\ queue = <<>> /\ threadIds = {}

\* The last worker releases no message that was put ahead of every MB_STOP,
\* unless that had high priority: the session is processed up to its end, if the module is
\* not popped before.
OnlyLateMessagesAreLeftOver ==
  ~overtaken => \A m \in leftover : \E i, j \in DOMAIN sent :
                  i < j /\ sent[i] = Stop /\ sent[j] = m

\* The messages that do not overtake the queue are taken from it in the order in which
\* they were put: none is still queued when a worker has taken a later one.
Overtaking == Aborts \cup Expedited
InOrder == \A i, j \in DOMAIN sent :
  /\ i < j /\ sent[i] \notin Overtaking /\ sent[j] \notin Overtaking
  /\ sent[j] \in Range(log) \cup Range(held)
  => sent[i] \notin Queued \cap Messages

\* An MB_STOP reaches every worker, unless somebody flushes the queue.
StopStopsAll == Stop \in Queued ~> AllIdle \/ flushed

\* and so does the end of the session.
EndStopsAll == Range(log) \cap Ends # {} ~> AllIdle \/ flushed

\* The workers of a module that is popped return, whatever they have seen of a session and
\* wherever they are: shutdown() relies on that (stream_base.inl:4568).
ClosingModuleJoins == phase = "closing" ~> AllIdle
=============================================================================
