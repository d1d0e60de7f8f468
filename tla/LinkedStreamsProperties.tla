----------------------- MODULE LinkedStreamsProperties -----------------------
(***************************************************************************)
(* What linked streams and the session data they share guarantee.          *)
(***************************************************************************)
EXTENDS LinkedStreams

Messages == [type : {"BEGIN", "LINK", "UNLINK", "RESIZE", "END", "CONTROL", "STOP"},
             of : Containers \cup {None}]
Calls == [op : {"LINK", "UNLINK", "RESIZE", "END", "STOP", "unlink"}, to : Streams]

\* The types of the variables; in particular no count ever falls below zero.
TypeOK ==
  /\ use \in Uses
  /\ count \in [Containers -> Nat]
  /\ made \in [Streams -> Nat]
  /\ data \in [Tasks -> Containers \cup {None}] /\ data2 \in [Tasks -> Containers \cup {None}]
  /\ linked \in [Tasks -> Nat] /\ free \in [Tasks -> BOOLEAN]
  /\ endSeen \in BOOLEAN /\ ended \in [Streams -> BOOLEAN]
  /\ state \in [Streams -> {"ready", "running", "stopping", "over"}]
  /\ inbox \in [Streams -> Seq(Messages)]
  /\ hand \in [Streams -> Seq(Messages)] /\ at \in [Streams -> 0..Modules + 1]
  /\ upstream \in BOOLEAN
  /\ todo \in Seq(Calls) /\ borrowed \in Seq(Containers \cup {None})
  /\ links \in 0..use.links /\ resizes \in 0..use.resizes

\* How many tasks have c in f, and how many messages carry it in the queues of b.
Having(f, c) == Cardinality({t \in Tasks : f[t] = c})
CarriedIn(b, c) == Carrying(b[Upper], c) + Carrying(b[Lower], c)

\* How many there are who will release a container: the tasks that use or keep it, and
\* the messages that carry it, in a queue or at a task.
Held(c) == Having(data, c) + Having(data2, c) + CarriedIn(inbox, c) + CarriedIn(hand, c)

\* Nobody releases a reference that he does not have: what somebody holds is not freed.
NotFreedInUse == \A c \in Containers : Held(c) <= count[c]

\* And nobody forgets one.  (A second LINK does, if a RESIZE has meanwhile put the data of
\* the lower stream back: sessionData_2 is overwritten.  And a second RESIZE that comes to a
\* module after END: the first one gave it data that it does not know it has to release.)
NothingIsForgotten ==
  resizes = 0 \/ (resizes = 1 /\ links <= 1) => \A c \in Containers : count[c] <= Held(c)

\* The count of a container is the number of its holders.
CountIsExact == NotFreedInUse /\ NothingIsForgotten

\* control() reads the container of a head without a reference, and takes one later: it
\* may be freed meanwhile, but only when its session is over, or by a RESIZE of the upper
\* stream that puts another container in its place.
BorrowedIsAlive ==
  \A i \in DOMAIN borrowed :
    borrowed[i] # None /\ count[borrowed[i]] = 0
      => \/ resizes > 0
         \/ LET c == borrowed[i]
            IN  state[c[1]] \in {"ready", "over"} \/ c[2] < made[c[1]]

Quiet == Idle /\ \A s \in Streams : inbox[s] = <<>> /\ hand[s] = <<>>

\* When all messages have arrived, the tasks of two streams that are linked use the
\* session data of the upper one.  (A RESIZE of the lower stream that is on its way at
\* the same time carries the data of the lower one, and puts it back.)
LinkedShareData ==
  Quiet /\ upstream /\ resizes = 0 /\ (\A s \in Streams : state[s] = "running")
    => \A t \in Tasks : DataOf(data[t]) = Upper

\* A stream that has been initialized holds no session data, unless a RESIZE came to a
\* module when the session had ended.
ReadyHoldsNothing ==
  \A t \in Tasks : state[t[1]] = "ready" /\ resizes = 0 => data[t] = None /\ data2[t] = None

\* A lower stream that is to stop with the upper one does.
UpstreamEndsDownstream ==
  (use.stopOnUnlink /\ upstream /\ state[Upper] = "stopping" /\ state[Lower] = "running")
    ~> state[Lower] = "over"
=============================================================================
