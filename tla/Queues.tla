------------------------------- MODULE Queues -------------------------------
(***************************************************************************)
(* What Stream_MessageQueue_T::flush leaves of a queue.                    *)
(***************************************************************************)
EXTENDS Integers, Sequences

\* The messages of q that are not in S, in their order.  (A recursive function
\* rather than SelectSeq, of which the provers know nothing.)
Without(q, S) ==
  LET kept[n \in 0..Len(q)] ==
        IF n = 0 THEN <<>>
        ELSE IF q[n] \in S THEN kept[n - 1] ELSE Append(kept[n - 1], q[n])
  IN  kept[Len(q)]
=============================================================================
