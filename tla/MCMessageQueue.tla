--------------------------- MODULE MCMessageQueue ---------------------------
(* Instances of MessageQueue for TLC: the threads and messages of a task.  *)
EXTENDS MessageQueueProperties

\* All threads, and no message is expedited; or nobody but those who put.
TogetherOrAlone == {[threads |-> Threads, expedited |-> {}],
                    [threads |-> Putters, expedited |-> Session]}

\* All threads, and session messages are expedited.
Expediting == {[threads |-> Threads, expedited |-> Session]}
=============================================================================
