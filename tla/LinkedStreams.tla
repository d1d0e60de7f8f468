--------------------------- MODULE LinkedStreams ---------------------------
(***************************************************************************)
(* Two streams, one linked below the other, and the session data that      *)
(* their tasks share.  Task <<s, 0>> is the head of stream s, <<s, i>> its *)
(* i-th module.  The data of a stream comes in containers with a count of  *)
(* references: each session begins with a new one, a session message       *)
(* carries one, a task holds one, and a second one, its own, while it uses *)
(* that of the stream above.                                               *)
(*                                                                         *)
(* One thread, the application, makes the calls, and a worker per stream   *)
(* takes messages from the queue of the head and hands them from task to   *)
(* task; those of the upper stream go on to the queue of the lower head.   *)
(***************************************************************************)
EXTENDS Integers, Sequences, FiniteSets

CONSTANTS Upper, Lower,  \* the streams
          None,          \* no container
          Modules,       \* modules below each head
          Uses,          \* how the streams may be used
          MaxContainers  \* bound: containers that a stream makes

Streams == {Upper, Lower}
Tasks == Streams \X (0..Modules)
HeadOf(s) == <<s, 0>>

\* stopOnUnlink, of the lower stream: does it end with the upper one ?  And bounds: the
\* sessions of each stream, and how often it may be linked and be resized.
Use == [stopOnUnlink : BOOLEAN, sessions : Nat, links : Nat, resizes : Nat]

\* The containers of each stream, in the order in which they are made.
Containers == Streams \X (1..MaxContainers)
DataOf(c) == c[1]  \* getR(): the session data itself, one per stream

ASSUME StreamsAssumption == Upper # Lower /\ None \notin Containers
ASSUME NumbersAssumption == Modules \in Nat \ {0} /\ MaxContainers \in Nat
ASSUME UsesAssumption == Uses \subseteq Use

VARIABLES
  use,      \* one of Uses
  count,    \* refcount_, of each container
  made,     \* how many containers were made, per stream
  data,     \* sessionData_, of each task
  data2,    \* sessionData_2
  linked,   \* linked_
  free,     \* freeSessionData_
  endSeen,  \* endSeenFromUpstream_, of the lower head
  ended,    \* sessionEndSent_ or sessionEndProcessed_, of each head
  state,    \* of each stream
  inbox,    \* the queue of each head
  hand,     \* the message that each worker hands on, if any,
  at,       \* and the task that is next
  upstream, \* linked_us_ of the lower stream, and the wiring: is it linked ?
  todo,     \* the application: what is left to do in a call
  borrowed, \* what it has read of a head, without a reference, if anything
  links, resizes  \* bounds: calls so far

references == <<count, made>>
slots == <<data, data2, linked, free>>
heads == <<endSeen, ended, state>>
workers == <<hand, at>>
app == <<todo, borrowed>>
bounds == <<links, resizes>>
vars == <<use, references, slots, heads, inbox, workers, upstream, app, bounds>>

Message(type, c) == [type |-> type, of |-> c]
Call(operation, s) == [op |-> operation, to |-> s]
Stop == Message("STOP", None)

\* increase() and decrease(), in the counts k.
Plus(k, c) == IF c = None THEN k ELSE [k EXCEPT ![c] = @ + 1]
Minus(k, c) == IF c = None THEN k ELSE [k EXCEPT ![c] = @ - 1]

\* A deactivated queue turns a message down, and it is released.
Active(s) == state[s] # "over"
Put(s, m, k) ==
  /\ inbox' = IF Active(s) THEN [inbox EXCEPT ![s] = Append(@, m)] ELSE inbox
  /\ count' = IF Active(s) THEN k ELSE Minus(k, m.of)

NextOf(s) == <<s, made[s] + 1>>
Make(s) == made[s] < MaxContainers /\ made' = [made EXCEPT ![s] = @ + 1]
-----------------------------------------------------------------------------
(* The application: initialize(), start(), link(), unlink(), control() and *)
(* stop() of a stream.                                                     *)

Idle == todo = <<>> /\ borrowed = <<>>

\* Mutant: the data of its own that a task has kept is not released.
KeepSecond(s, c) == Cardinality({t \in Tasks : t[1] = s /\ free[t] /\ data[t] = c})

\* How many references to a container the tasks of a stream give up.
GivenUp(s, c) == Cardinality({t \in Tasks : t[1] = s /\ free[t] /\ data[t] = c})
               + Cardinality({t \in Tasks : t[1] = s /\ data2[t] = c})

Initialize(s) ==
  /\ Idle /\ state[s] = "over" /\ ~upstream
  /\ count' = [c \in Containers |-> count[c] - GivenUp(s, c)]
  /\ data' = [t \in Tasks |-> IF t[1] = s /\ free[t] THEN None ELSE data[t]]
  /\ data2' = [t \in Tasks |-> IF t[1] = s THEN None ELSE data2[t]]
  /\ linked' = [t \in Tasks |-> IF t[1] = s THEN 0 ELSE linked[t]]
  /\ free' = [t \in Tasks |-> free[t] /\ t[1] # s]
  /\ state' = [state EXCEPT ![s] = "ready"]
  /\ endSeen' = (endSeen /\ s # Lower)
  /\ UNCHANGED <<use, made, ended, inbox, workers, upstream, app, bounds>>

\* SESSION_STARTING: the head makes a container, and sends BEGIN.
Start(s) ==
  /\ Idle /\ state[s] = "ready" /\ made[s] < use.sessions
  /\ Make(s)
  /\ data' = [data EXCEPT ![HeadOf(s)] = NextOf(s)]
  /\ Put(s, Message("BEGIN", NextOf(s)), [count EXCEPT ![NextOf(s)] = 2])
  /\ state' = [state EXCEPT ![s] = "running"]
  /\ ended' = [ended EXCEPT ![s] = FALSE]
  /\ UNCHANGED <<use, data2, linked, free, endSeen, workers, upstream, app, bounds>>

\* LINK goes to the upper head.
Link ==
  /\ Idle /\ ~upstream /\ \A s \in Streams : state[s] = "running"
  /\ links < use.links
  /\ links' = links + 1
  /\ upstream' = TRUE
  /\ todo' = <<Call("LINK", Upper)>>
  /\ UNCHANGED <<use, references, slots, heads, inbox, workers, borrowed, resizes>>

\* UNLINK goes to the lower head.
Unlink ==
  /\ Idle /\ upstream
  /\ upstream' = FALSE
  /\ todo' = <<Call("UNLINK", Lower)>>
  /\ UNCHANGED <<use, references, slots, heads, inbox, workers, borrowed, bounds>>

Resize(s) ==
  /\ Idle /\ state[s] = "running" /\ resizes < use.resizes
  /\ resizes' = resizes + 1
  /\ todo' = <<Call("RESIZE", s)>>
  /\ UNCHANGED <<use, references, slots, heads, inbox, workers, upstream, borrowed,
                 links>>

\* Mutant: the lower stream is not told that the upper one ends.
UnlinkOnly == <<Call("unlink", Lower), Call("UNLINK", Lower), Call("UNLINK", Upper)>>

EndAndUnlink == <<Call("END", Lower), Call("unlink", Lower), Call("UNLINK", Lower),
                  Call("UNLINK", Upper)>>

\* SESSION_STOPPING: the upper head ends and unlinks the lower stream.  The
\* application does not stop the upper stream while LINK is on its way to the head.
StopStream(s) ==
  /\ Idle /\ state[s] = "running"
  /\ s = Upper /\ upstream => linked[HeadOf(Upper)] > 0
  /\ state' = [state EXCEPT ![s] = "stopping"]
  /\ todo' = (IF s = Upper /\ upstream THEN EndAndUnlink ELSE <<>>) \o <<Call("STOP", s)>>
  /\ UNCHANGED <<use, references, slots, endSeen, ended, inbox, workers, upstream,
                 borrowed, bounds>>

\* _unlink(), within that.
UnlinkLower ==
  /\ borrowed = <<>> /\ todo # <<>> /\ Head(todo).op = "unlink"
  /\ upstream' = FALSE
  /\ todo' = Tail(todo)
  /\ UNCHANGED <<use, references, slots, heads, inbox, workers, borrowed, bounds>>

\* The control message END, and MB_STOP: they carry no session data.
Send ==
  /\ borrowed = <<>> /\ todo # <<>> /\ Head(todo).op \in {"END", "STOP"}
  /\ Put(Head(todo).to, IF Head(todo).op = "END" THEN Message("CONTROL", None) ELSE Stop, count)
  /\ todo' = Tail(todo)
  /\ UNCHANGED <<use, made, slots, heads, workers, upstream, borrowed, bounds>>

\* control(): the container of the head is read,
Borrow ==
  /\ borrowed = <<>> /\ todo # <<>> /\ Head(todo).op \in {"LINK", "UNLINK", "RESIZE"}
  /\ borrowed' = <<data[HeadOf(Head(todo).to)]>>
  /\ UNCHANGED <<use, references, slots, heads, inbox, workers, upstream, todo, bounds>>

Referenced(k, c) == Plus(k, c)

\* and then its count is increased.  If there was none, another one is made for the
\* session data that the session manager has.
Post ==
  /\ borrowed # <<>>
  /\ LET s == Head(todo).to
         c == IF borrowed[1] = None THEN NextOf(s) ELSE borrowed[1]
     IN  /\ IF borrowed[1] = None THEN Make(s) ELSE UNCHANGED made
         /\ Put(s, Message(Head(todo).op, c), Referenced(count, c))
  /\ borrowed' = <<>>
  /\ todo' = Tail(todo)
  /\ UNCHANGED <<use, slots, heads, workers, upstream, bounds>>

Application == \/ \E s \in Streams : Initialize(s) \/ Start(s) \/ Resize(s) \/ StopStream(s)
               \/ Link \/ Unlink \/ UnlinkLower \/ Send \/ Borrow \/ Post
-----------------------------------------------------------------------------
(* The worker of a stream: svc() of the head, and handleMessage() of each  *)
(* task that the message comes to.                                         *)

Take(s) ==
  /\ hand[s] = <<>> /\ inbox[s] # <<>> /\ Head(inbox[s]) # Stop
  /\ hand' = [hand EXCEPT ![s] = <<Head(inbox[s])>>]
  /\ at' = [at EXCEPT ![s] = 0]
  /\ inbox' = [inbox EXCEPT ![s] = Tail(@)]
  /\ UNCHANGED <<use, references, slots, heads, upstream, app, bounds>>

\* finished(): the first MB_STOP becomes END.
Finish(s) ==
  /\ hand[s] = <<>> /\ inbox[s] # <<>> /\ Head(inbox[s]) = Stop /\ ~ended[s]
  /\ ended' = [ended EXCEPT ![s] = TRUE]
  /\ inbox' = [inbox EXCEPT ![s] = Append(Tail(@), Message("END", data[HeadOf(s)]))]
  /\ count' = Plus(count, data[HeadOf(s)])
  /\ UNCHANGED <<use, made, slots, endSeen, state, workers, upstream, app, bounds>>

Carrying(q, c) == Cardinality({i \in DOMAIN q : q[i].of = c})

\* close(0): the queue is deactivated and flushed, the head releases its data.
Leave(s) ==
  /\ hand[s] = <<>> /\ inbox[s] # <<>> /\ Head(inbox[s]) = Stop /\ ended[s]
  /\ count' = [c \in Containers |-> Minus(count, data[HeadOf(s)])[c] - Carrying(inbox[s], c)]
  /\ inbox' = [inbox EXCEPT ![s] = <<>>]
  /\ data' = [data EXCEPT ![HeadOf(s)] = None]
  /\ state' = [state EXCEPT ![s] = "over"]
  /\ UNCHANGED <<use, made, data2, linked, free, endSeen, ended, workers, upstream, app,
                 bounds>>

\* A message is at a task, and goes on to the next one.
TaskAt(s) == <<s, at[s]>>
Handles(s, type) == /\ hand[s] # <<>> /\ at[s] <= Modules /\ hand[s][1].type = type
                    /\ at' = [at EXCEPT ![s] = @ + 1]
Shares(t, c) == data[t] = None \/ DataOf(data[t]) = DataOf(c)

\* Mutant: the task does not know that it has to release the data.
Forget(t) == UNCHANGED free

Own(t) == free' = [free EXCEPT ![t] = TRUE]

HandleBegin(s) ==
  /\ Handles(s, "BEGIN")
  /\ LET t == TaskAt(s)
         c == hand[s][1].of
     IN  IF data[t] = None
         THEN /\ data' = [data EXCEPT ![t] = c]
              /\ Own(t)
              /\ count' = Plus(count, c)
         ELSE UNCHANGED <<data, free, count>>
  /\ UNCHANGED <<use, made, data2, linked, heads, inbox, hand, upstream, app, bounds>>

\* Mutant: the task does not take a reference to the data of the other stream.
SwitchUncounted(c) == UNCHANGED count

SwitchCounted(c) == count' = Plus(count, c)

\* Mutant: the task goes on with its own data.
KeepsOwn(t, c) == TRUE

HasNothingToSwitch(t, c) == Shares(t, c)

HandleLink(s) ==
  /\ Handles(s, "LINK")
  /\ LET t == TaskAt(s)
         c == hand[s][1].of
     IN  /\ linked' = [linked EXCEPT ![t] = @ + 1]
         /\ IF HasNothingToSwitch(t, c)
            THEN UNCHANGED <<data, data2, count>>
            ELSE /\ data2' = [data2 EXCEPT ![t] = data[t]]
                 /\ data' = [data EXCEPT ![t] = c]
                 /\ SwitchCounted(c)
  /\ UNCHANGED <<use, made, free, heads, inbox, hand, upstream, app, bounds>>

HandleResize(s) ==
  /\ Handles(s, "RESIZE")
  /\ LET t == TaskAt(s)
         c == hand[s][1].of
     IN  /\ data' = [data EXCEPT ![t] = c]
         /\ count' = Plus(IF free[t] \/ at[s] = 0 THEN Minus(count, data[t]) ELSE count, c)
  /\ UNCHANGED <<use, made, data2, linked, free, heads, inbox, hand, upstream, app,
                 bounds>>

\* UNLINK: a task that has kept data of its own goes back to it, unless the message
\* has the data that it uses.
GoBack(s) ==
  LET t == TaskAt(s)
  IN  /\ linked' = IF linked[t] = 0 THEN linked ELSE [linked EXCEPT ![t] = @ - 1]
      /\ IF linked[t] = 0 \/ Shares(t, hand[s][1].of) \/ data2[t] = None
         THEN UNCHANGED <<data, data2, count>>
         ELSE /\ count' = Minus(count, data[t])
              /\ data' = [data EXCEPT ![t] = data2[t]]
              /\ data2' = [data2 EXCEPT ![t] = None]

\* The head of a stream that ends with the upper one stops itself.
StopsItself(s) == at[s] = 0 /\ s = Lower /\ endSeen /\ use.stopOnUnlink /\ state[s] = "running"

HandleUnlink(s) ==
  /\ Handles(s, "UNLINK")
  /\ GoBack(s)
  /\ IF StopsItself(s)
     THEN state' = [state EXCEPT ![s] = "stopping"] /\ inbox' = [inbox EXCEPT ![s] = Append(@, Stop)]
     ELSE UNCHANGED <<state, inbox>>
  /\ UNCHANGED <<use, made, free, endSeen, ended, hand, upstream, app, bounds>>

\* The head stops; a module releases its data, unless it is linked.
HandleEnd(s) ==
  /\ Handles(s, "END")
  /\ LET t == TaskAt(s)
     IN  IF linked[t] = 0 /\ free[t]
         THEN /\ data' = [data EXCEPT ![t] = None]
              /\ free' = [free EXCEPT ![t] = FALSE]
              /\ count' = Minus(count, data[t])
         ELSE UNCHANGED <<data, free, count>>
  /\ inbox' = IF at[s] = 0 THEN [inbox EXCEPT ![s] = Append(@, Stop)] ELSE inbox
  /\ UNCHANGED <<use, made, data2, linked, heads, hand, upstream, app, bounds>>

HandleControl(s) ==
  /\ Handles(s, "CONTROL")
  /\ endSeen' = TRUE
  /\ UNCHANGED <<use, references, slots, ended, state, inbox, hand, upstream, app, bounds>>

\* A message of the upper stream goes on to the lower head, any other one is released.
HandOn(s) ==
  /\ hand[s] # <<>> /\ at[s] > Modules
  /\ hand' = [hand EXCEPT ![s] = <<>>]
  /\ at' = [at EXCEPT ![s] = 0]
  /\ IF s = Upper /\ upstream
     THEN Put(Lower, hand[s][1], count)
     ELSE count' = Minus(count, hand[s][1].of) /\ UNCHANGED inbox
  /\ UNCHANGED <<use, made, slots, heads, upstream, app, bounds>>

Worker(s) == \/ Take(s) \/ Finish(s) \/ Leave(s)
             \/ HandleBegin(s) \/ HandleLink(s) \/ HandleResize(s) \/ HandleUnlink(s)
             \/ HandleEnd(s) \/ HandleControl(s) \/ HandOn(s)
-----------------------------------------------------------------------------
Init ==
  /\ use \in Uses
  /\ count = [c \in Containers |-> 0] /\ made = [s \in Streams |-> 0]
  /\ data = [t \in Tasks |-> None] /\ data2 = [t \in Tasks |-> None]
  /\ linked = [t \in Tasks |-> 0] /\ free = [t \in Tasks |-> FALSE]
  /\ endSeen = FALSE /\ ended = [s \in Streams |-> FALSE]
  /\ state = [s \in Streams |-> "ready"]
  /\ inbox = [s \in Streams |-> <<>>] /\ hand = [s \in Streams |-> <<>>]
  /\ at = [s \in Streams |-> 0]
  /\ upstream = FALSE /\ todo = <<>> /\ borrowed = <<>>
  /\ links = 0 /\ resizes = 0

Next == Application \/ \E s \in Streams : Worker(s)

Spec == Init /\ [][Next]_vars

\* The workers are scheduled, and the application finishes a call that it has begun.
FairSpec == /\ Spec
            /\ \A s \in Streams : WF_vars(Worker(s))
            /\ WF_vars(UnlinkLower \/ Send \/ Borrow \/ Post)
=============================================================================
