----------------------- MODULE MessageQueueProperties -----------------------
(***************************************************************************)
(* What the threads that share a message queue rely on, stated over        *)
(* MessageQueue.                                                           *)
(***************************************************************************)
EXTENDS MessageQueue

MaybeMessage == Messages \cup {Null}

TypeOK ==
  /\ head \in MaybeMessage /\ tail \in MaybeMessage
  /\ next \in [Messages -> MaybeMessage] /\ prev \in [Messages -> MaybeMessage]
  /\ count \in 0..Cardinality(Messages)
  /\ active \in BOOLEAN
  /\ lock \in Threads \cup {Null}
  /\ pc \in [Threads -> Places]
  /\ block \in [Threads -> MaybeMessage]
  /\ fate \in [Messages -> Fates]
  /\ use \in Uses /\ flushes \in 0..MaxFlushes

Queued == {m \in Messages : fate[m] = "queued"}
Putting == \E p \in Putters : pc[p] # "idle"

\* Whoever takes the lock finds the two directions of the list, its ends and its
\* length in agreement, and in it the messages that were neither taken nor
\* released.  (The prev() of the first message is not looked at: flush() leaves it.)
WellFormed ==
  lock = Null /\ ~Putting =>
    /\ Range(List) = Queued /\ Len(List) = Cardinality(Queued)
    /\ count = Len(List)
    /\ tail = IF List = <<>> THEN Null ELSE Last(List)
    /\ \A i \in 2..Len(List) : prev[List[i]] = List[i - 1]

\* No message that the queue has accepted is lost: it can be reached from head_.
NothingIsLost == lock = Null /\ ~Putting => Queued \subseteq Range(List)

\* The list implements the buffer, whatever the threads do.
Buffer == INSTANCE MessageBuffer WITH buffer <- List, open <- active
ImplementsBuffer == Buffer!Spec

\* flush() follows the prev() of a message only to one that was not released.
FlushFollowsLiveLinks ==
  \A f \in Flushers :
    pc[f] \in {"data", "all"} /\ block[f] \in Messages \ {head} => fate[prev[block[f]]] = "queued"

\* When flush() returns, no message of the kind is left.
FlushIsComplete ==
  [][\A f \in Flushers : pc[f] \in {"data", "all"} /\ pc'[f] = "idle" =>
       Range(List) \cap Flushable(pc[f] = "all") = {}]_vars

\* If there are workers, a message that was accepted is taken by one, or flushed, unless
\* the queue is deactivated.
MessagesAreTaken ==
  \A m \in Messages : Getters \subseteq use.threads /\ m \in Queued ~> m \notin Queued \/ ~active

\* Workers that sleep when the queue is deactivated leave.
WorkersLeave == ~active ~> active \/ \A g \in Getters \cap use.threads : pc[g] = "left"
=============================================================================
