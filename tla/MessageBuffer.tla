--------------------------- MODULE MessageBuffer ---------------------------
(***************************************************************************)
(* What a message queue promises to the threads that share it: a sequence  *)
(* of messages that grows at either end while it is open, that messages    *)
(* are taken from at its head, and that messages may be discarded from.    *)
(* MessageQueue is checked to implement it.                                *)
(***************************************************************************)
EXTENDS Integers, Sequences, SequencesExt

CONSTANT Messages

VARIABLES buffer,  \* the messages, in order
          open     \* is it activated ?

vars == <<buffer, open>>

Init == buffer = <<>> /\ open = TRUE

Add(m) ==
  /\ open
  /\ m \in Messages \ Range(buffer)
  /\ buffer' \in {Append(buffer, m), <<m>> \o buffer}
  /\ UNCHANGED open

Take ==
  /\ open /\ buffer # <<>>
  /\ buffer' = Tail(buffer)
  /\ UNCHANGED open

Discard ==
  /\ \E i \in DOMAIN buffer : buffer' = RemoveAt(buffer, i)
  /\ UNCHANGED open

Clear == buffer' = <<>> /\ UNCHANGED open

Toggle == open' = ~open /\ UNCHANGED buffer

Next == (\E m \in Messages : Add(m)) \/ Take \/ Discard \/ Clear \/ Toggle

Spec == Init /\ [][Next]_vars
=============================================================================
