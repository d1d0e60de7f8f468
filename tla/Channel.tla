------------------------------ MODULE Channel ------------------------------
(***************************************************************************)
(* What a module that holds data back promises: the bytes it has accepted  *)
(* are passed on in order, each of them once, and none is lost unless the  *)
(* data was to be discarded.  Delay is checked to implement it.            *)
(***************************************************************************)
EXTENDS Integers, Sequences

CONSTANTS Messages, Lengths

VARIABLES bytes,  \* the bytes held back, each by the message it belongs to
          lossy   \* may data be discarded ?

vars == <<bytes, lossy>>

Init == bytes = <<>> /\ lossy \in BOOLEAN

\* Bytes are added at the end.
Accepted(old, new) == \E m \in Messages, n \in Lengths : new = old \o [i \in 1..n |-> m]

\* The first bytes go.
PassedOn(old, new) == \E n \in DOMAIN old : new = SubSeq(old, n + 1, Len(old))

\* Bytes that came one after the other go.
Discarded(old, new) ==
  \E i, j \in DOMAIN old :
    i <= j /\ new = SubSeq(old, 1, i - 1) \o SubSeq(old, j + 1, Len(old))

Change(old, new) == \/ new = old \/ PassedOn(old, new) \/ Accepted(old, new)
                    \/ lossy /\ Discarded(old, new)

Next == Change(bytes, bytes')

Spec == Init /\ [][Next]_vars
=============================================================================
