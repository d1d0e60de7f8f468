------------------------ MODULE MessageQueue_proofs ------------------------
(***************************************************************************)
(* Proofs about MessageQueue.                                              *)
(*                                                                         *)
(* The queue is a list of pointers, so everything rests on its shape: the  *)
(* messages that next() leads to are the ones that were queued, each once. *)
(* IInv says so, says how far a flush() or an expedited message has got    *)
(* when its steps are separate, and who may hold the lock meanwhile.       *)
(*                                                                         *)
(* The theorems are about uses in which the messages that are expedited,   *)
(* without the lock, are put by the only thread that uses the queue        *)
(* (ExpeditedAlone): otherwise WellFormed does not hold.                   *)
(***************************************************************************)
EXTENDS MessageQueueProperties, LinkedListTheorems

\* What a use must be like for the list to stay well-formed.
ExpeditedAlone ==
  \A u \in Uses : u.expedited = {} \/ \E p \in Putters : u.threads \subseteq {p}
-----------------------------------------------------------------------------
(* The inductive invariant. *)

Adding == {"link", "prev", "head"}  \* places in which a message is half queued
Flushing == {"data", "all"}
SomeAdding == \E p \in Putters : pc[p] \in Adding
LastOf(q) == IF q = <<>> THEN Null ELSE Last(q)

Typed ==
  /\ head \in MaybeMessage
  /\ next \in [Messages -> MaybeMessage] /\ prev \in [Messages -> MaybeMessage]
  /\ active \in BOOLEAN
  /\ lock \in Threads \cup {Null}
  /\ pc \in [Threads -> Places]
  /\ block \in [Threads -> MaybeMessage]
  /\ fate \in [Messages -> Fates]
  /\ use \in Uses /\ flushes \in 0..MaxFlushes

\* Where each kind of thread may be, and who holds the lock.
InPlace ==
  /\ \A t \in Threads : pc[t] # "idle" => t \in use.threads
  /\ \A p \in Putters : pc[p] \in Adding \cup {"idle", "signal"}
  /\ \A g \in Getters : pc[g] \in {"idle", "empty", "asleep", "woken", "left"}
  /\ \A f \in Flushers : pc[f] \in Flushing \cup {"idle"}
  /\ \A g \in Getters : pc[g] = "empty" => lock = g
  /\ \A f \in Flushers : pc[f] \in Flushing <=> lock = f
  /\ \A p \in Putters : lock # p

\* A thread that expedites a message is alone.
Alone ==
  \A p \in Putters : pc[p] # "idle" =>
    /\ use.threads \subseteq {p} /\ active
    /\ block[p] \in Messages
    /\ pc[p] \in Adding => fate[block[p]] = "putting"

Shape ==
  /\ Linked(List, head, next, Null)
  /\ Range(List) = Queued
  /\ \A i \in 2..Len(List) : prev[List[i]] = List[i - 1]
  /\ \A m \in Messages : fate[m] = "unsent" => next[m] = Null

Ends ==
  /\ count = Len(List) + IF SomeAdding THEN 1 ELSE 0
  /\ (\A p \in Putters : pc[p] # "head") => tail = LastOf(List)
  /\ \A p \in Putters :
       /\ pc[p] \in {"prev", "head"} => next[block[p]] = head
       /\ pc[p] = "head" /\ List = <<>> => tail = block[p]
       /\ pc[p] = "head" /\ List # <<>> => tail = LastOf(List) /\ prev[head] = block[p]

\* flush() has got to the k-th message, or past the last one, and left none behind.
Flushed(f, k) ==
  /\ block[f] = IF k = Len(List) + 1 THEN Null ELSE List[k]
  /\ \A i \in 1..(k - 1) : List[i] \notin Flushable(pc[f] = "all")

Progress ==
  \A f \in Flushers : pc[f] \in Flushing => \E k \in 1..Len(List) + 1 : Flushed(f, k)

Control == Typed /\ InPlace /\ Alone
IInv == Control /\ Shape /\ Ends /\ Progress
-----------------------------------------------------------------------------
(* The threads: what an action does to pc and to the lock. *)

\* Thread t goes to a place; the others stay, but for sleepers that are woken.
Moves(t, place) ==
  /\ pc' \in [Threads -> Places] /\ pc'[t] = place
  /\ \A u \in Threads \ {t} :
       pc'[u] = pc[u] \/ (u \in Getters /\ pc[u] = "asleep" /\ pc'[u] = "woken")

\* Thread t takes the lock, releases it, or leaves it as it is.
Locks(t, place) ==
  /\ lock' = lock \/ (lock = Null /\ lock' = t) \/ (lock = t /\ lock' = Null)
  /\ t \in Getters /\ place = "empty" => lock' = t
  /\ t \in Flushers => (place \in Flushing <=> lock' = t)
  /\ t \in Putters => lock' = lock

PlacesOf(t) == IF t \in Putters THEN Adding \cup {"idle", "signal"}
               ELSE IF t \in Getters THEN {"idle", "empty", "asleep", "woken", "left"}
               ELSE Flushing \cup {"idle"}

\* Putters, Getters and Flushers are different threads.
LEMMA Kinds ==
  ASSUME NEW t \in Threads
  PROVE  /\ t # Null
         /\ t \in Putters => t \notin Getters /\ t \notin Flushers
         /\ t \in Getters => t \notin Putters /\ t \notin Flushers
         /\ t \in Flushers => t \notin Putters /\ t \notin Getters
BY ThreadsAssumption DEF Threads

\* A thread that goes somewhere and wakes nobody.
LEMMA GoMoves ==
  ASSUME Typed, NEW t \in Threads, NEW place \in Places, Go(t, place)
  PROVE  Moves(t, place)
BY DEF Typed, Go, Moves

\* A thread that signals the condition wakes a sleeper at most.
LEMMA SignalMoves ==
  ASSUME Typed, NEW t \in Threads, t \notin Getters, NEW place \in Places, SignalOne(t, place)
  PROVE  Moves(t, place)
<1>1. pc \in [Threads -> Places] /\ "woken" \in Places
  BY DEF Typed, Places
<1>2. CASE Go(t, place)
  BY <1>2, GoMoves
<1>3. CASE \E g \in Asleep : pc' = [pc EXCEPT ![t] = place, ![g] = "woken"]
  <2>1. PICK g \in Asleep : pc' = [pc EXCEPT ![t] = place, ![g] = "woken"]
    BY <1>3
  <2>2. g \in Getters /\ pc[g] = "asleep" /\ g # t /\ g \in Threads
    BY <2>1 DEF Asleep, Threads
  <2> QED BY <1>1, <2>1, <2>2 DEF Moves
<1> QED BY <1>2, <1>3 DEF SignalOne

\* Waking all sleepers moves no other thread.
LEMMA WakeAllMoves ==
  ASSUME Typed, NEW t \in Threads, t \notin Getters, WakeAll
  PROVE  Moves(t, pc[t])
<1>1. pc \in [Threads -> Places] /\ "woken" \in Places
  BY DEF Typed, Places
<1> QED BY <1>1 DEF Moves, WakeAll, Asleep

\* While a thread acts, no other thread is expediting a message.
LEMMA OthersIdle ==
  ASSUME Alone, NEW t \in use.threads, NEW p \in Putters, p # t
  PROVE  pc[p] = "idle"
BY DEF Alone

\* A step keeps everybody in a place of theirs, and the lock with whom it belongs to.
LEMMA InPlaceStep ==
  ASSUME Control, NEW t \in use.threads \cap Threads, NEW place \in PlacesOf(t),
         Moves(t, place), Locks(t, place), use' = use
  PROVE  InPlace'
<1> DEFINE GP == {"idle", "empty", "asleep", "woken", "left"}
<1>0. InPlace /\ Typed /\ t \in Threads
  BY DEF Control
<1>1. Putters \subseteq Threads /\ Getters \subseteq Threads /\ Flushers \subseteq Threads
  BY DEF Threads
<1>2. \A u \in Threads : u # t =>
        pc'[u] = pc[u] \/ (u \in Getters /\ pc[u] = "asleep" /\ pc'[u] = "woken")
  BY DEF Moves
<1>3. pc'[t] = place
  BY DEF Moves
<1>4. \A u \in Threads : pc'[u] # "idle" => u \in use'.threads
  <2> SUFFICES ASSUME NEW u \in Threads, pc'[u] # "idle", u # t PROVE u \in use.threads
    OBVIOUS
  <2>1. pc[u] # "idle"
    BY <1>2
  <2> QED BY <1>0, <2>1 DEF InPlace
<1>5. \A p \in Putters : pc'[p] \in Adding \cup {"idle", "signal"}
  <2> TAKE p \in Putters
  <2>1. p \in Threads /\ p \notin Getters
    BY <1>1, Kinds
  <2>2. CASE p = t
    BY <1>3, <2>2 DEF PlacesOf
  <2>3. CASE p # t
    <3>1. pc'[p] = pc[p]
      BY <1>2, <2>1, <2>3
    <3> QED BY <1>0, <3>1 DEF InPlace
  <2> QED BY <2>2, <2>3
<1>6. \A g \in Getters : pc'[g] \in GP
  <2> TAKE g \in Getters
  <2>1. g \in Threads /\ g \notin Putters
    BY <1>1, Kinds
  <2>2. CASE g = t
    BY <1>3, <2>1, <2>2 DEF PlacesOf
  <2>3. CASE g # t
    <3>1. pc'[g] = pc[g] \/ pc'[g] = "woken"
      BY <1>2, <2>1, <2>3
    <3> QED BY <1>0, <3>1 DEF InPlace
  <2> QED BY <2>2, <2>3
<1>7. \A f \in Flushers : pc'[f] \in Flushing \cup {"idle"}
  <2> TAKE f \in Flushers
  <2>1. f \in Threads /\ f \notin Putters /\ f \notin Getters
    BY <1>1, Kinds
  <2>2. CASE f = t
    BY <1>3, <2>1, <2>2 DEF PlacesOf
  <2>3. CASE f # t
    <3>1. pc'[f] = pc[f]
      BY <1>2, <2>1, <2>3
    <3> QED BY <1>0, <3>1 DEF InPlace
  <2> QED BY <2>2, <2>3
<1>8. lock' = lock \/ (lock = Null /\ lock' = t) \/ (lock = t /\ lock' = Null)
  BY DEF Locks
<1>9. \A g \in Getters : pc'[g] = "empty" => lock' = g
  <2> SUFFICES ASSUME NEW g \in Getters, pc'[g] = "empty" PROVE lock' = g
    OBVIOUS
  <2>1. g \in Threads /\ g # Null
    BY <1>1, Kinds
  <2>2. CASE g = t
    BY <1>3, <2>2 DEF Locks
  <2>3. CASE g # t
    <3>1. pc[g] = "empty"
      BY <1>2, <2>1, <2>3
    <3>2. lock = g
      BY <1>0, <3>1 DEF InPlace
    <3> QED BY <1>8, <2>1, <2>3, <3>2
  <2> QED BY <2>2, <2>3
<1>10. \A f \in Flushers : pc'[f] \in Flushing <=> lock' = f
  <2> TAKE f \in Flushers
  <2>1. f \in Threads /\ f # Null /\ f \notin Getters
    BY <1>1, Kinds
  <2>2. CASE f = t
    BY <1>3, <2>2 DEF Locks
  <2>3. CASE f # t
    <3>1. pc'[f] = pc[f]
      BY <1>2, <2>1, <2>3
    <3>2. pc[f] \in Flushing <=> lock = f
      BY <1>0 DEF InPlace
    <3>3. lock = f <=> lock' = f
      BY <1>8, <2>1, <2>3
    <3> QED BY <3>1, <3>2, <3>3
  <2> QED BY <2>2, <2>3
<1>11. \A p \in Putters : lock' # p
  <2> TAKE p \in Putters
  <2>1. p \in Threads /\ p # Null
    BY <1>1, Kinds
  <2>2. lock # p
    BY <1>0 DEF InPlace
  <2>3. t = p => lock' = lock
    BY DEF Locks
  <2> QED BY <1>8, <2>1, <2>2, <2>3
<1> QED BY <1>4, <1>5, <1>6, <1>7, <1>9, <1>10, <1>11 DEF InPlace

\* No message is being expedited before or after the step of a thread, unless it is
\* expediting one itself.
LEMMA AloneStep ==
  ASSUME Control, NEW t \in use.threads \cap Threads, NEW place,
         Moves(t, place), t \in Putters => place = "idle"
  PROVE  /\ \A p \in Putters : pc'[p] = "idle" /\ (p # t => pc[p] = "idle")
         /\ Alone'
<1>1. ASSUME NEW p \in Putters PROVE pc'[p] = "idle" /\ (p # t => pc[p] = "idle")
  <2>1. p \in Threads /\ p \notin Getters
    BY Kinds DEF Threads
  <2>2. CASE p = t
    BY <2>2 DEF Moves
  <2>3. CASE p # t
    <3>1. pc[p] = "idle"
      BY <2>3, OthersIdle DEF Control
    <3>2. pc'[p] = pc[p]
      BY <2>1, <2>3 DEF Moves
    <3> QED BY <3>1, <3>2
  <2> QED BY <2>2, <2>3
<1> QED BY <1>1 DEF Alone

\* A flush() is under way only while its thread holds the lock.
LEMMA NoFlushStep ==
  ASSUME Control, NEW t \in use.threads \cap Threads, t \notin Flushers, NEW place,
         Moves(t, place), lock \notin Flushers
  PROVE  Progress'
<1>1. ASSUME NEW f \in Flushers PROVE pc'[f] \notin Flushing
  <2>1. f \in Threads /\ f \notin Getters /\ f # t
    BY Kinds DEF Threads
  <2>2. pc'[f] = pc[f]
    BY <2>1 DEF Moves
  <2> QED BY <2>2 DEF Control, InPlace
<1> QED BY <1>1 DEF Progress

\* Nobody holds the lock while a message is being expedited.
LEMMA AloneUnlocked ==
  ASSUME Control, NEW p \in Putters, use.threads \subseteq {p}
  PROVE  lock \notin Flushers
<1>1. ASSUME NEW f \in Flushers, lock = f PROVE FALSE
  <2>1. f \in Threads /\ f # p
    BY Kinds DEF Threads
  <2>2. pc[f] \in Flushing
    BY <1>1 DEF Control, InPlace
  <2>3. pc[f] # "idle"
    BY <2>2 DEF Flushing
  <2> QED BY <2>1, <2>3 DEF Control, InPlace
<1> QED BY <1>1

\* Whoever may expedite a message is alone.
LEMMA ExpeditingIsAlone ==
  ASSUME ExpeditedAlone, Typed, NEW p \in Putters \cap use.threads, use.expedited # {}
  PROVE  use.threads \subseteq {p}
BY DEF ExpeditedAlone, Typed
-----------------------------------------------------------------------------
(* The list. *)

\* The elements of a path are its List.
LEMMA ListIs ==
  ASSUME NEW h, NEW nx, DOMAIN nx = Messages, NEW q, Linked(q, h, nx, Null)
  PROVE  Path(h, nx, Null) = q
BY PathIsUnique, MessagesAssumption

\* The list after a step, from the links after it.
LEMMA NewList ==
  ASSUME NEW q, DOMAIN next' = Messages, Linked(q, head', next', Null)
  PROVE  List' = q
BY ListIs DEF List

\* What Shape says of the list, fact by fact.
LEMMA ListFacts ==
  ASSUME Typed, Shape
  PROVE  /\ DOMAIN next = Messages /\ Null \notin Messages
         /\ List \in Seq(Messages) /\ Len(List) \in Nat
         /\ List = <<>> <=> Len(List) = 0
         /\ \A i, j \in 1..Len(List) : List[i] = List[j] => i = j
         /\ head = IF List = <<>> THEN Null ELSE List[1]
         /\ List = <<>> <=> head = Null
         /\ \A i \in 1..Len(List) : next[List[i]] = IF i = Len(List) THEN Null ELSE List[i + 1]
         /\ \A i \in 1..Len(List) : List[i] \in Messages /\ fate[List[i]] = "queued"
         /\ Range(List) = {List[i] : i \in 1..Len(List)}
<1>1. DOMAIN next = Messages /\ Null \notin Messages
  BY MessagesAssumption DEF Typed
<1>2. /\ List \in Seq(Messages)
      /\ \A i, j \in 1..Len(List) : List[i] = List[j] => i = j
      /\ head = IF List = <<>> THEN Null ELSE List[1]
      /\ \A i \in 1..Len(List) : next[List[i]] = IF i = Len(List) THEN Null ELSE List[i + 1]
  <2>1. Linked(List, head, next, Null)
    BY DEF Shape
  <2> HIDE DEF List
  <2> QED BY <1>1, <2>1 DEF Linked
<1>3. Len(List) \in Nat /\ (List = <<>> <=> Len(List) = 0)
  BY <1>2, LenProperties, EmptySeq
<1>4. \A i \in 1..Len(List) : List[i] \in Messages
  BY <1>2, ElementOfSeq
<1>5. Range(List) = {List[i] : i \in 1..Len(List)}
  BY <1>2, RangeEquality
<1>6. \A i \in 1..Len(List) : fate[List[i]] = "queued"
  <2> TAKE i \in 1..Len(List)
  <2>1. List[i] \in Range(List)
    BY <1>5
  <2>2. List[i] \in Queued
    BY <2>1 DEF Shape
  <2> QED BY <2>2 DEF Queued
<1>7. List = <<>> <=> head = Null
  <2>1. List # <<>> => 1 \in 1..Len(List)
    BY <1>3
  <2> QED BY <1>1, <1>2, <1>4, <2>1
<1> QED BY <1>1, <1>2, <1>3, <1>4, <1>5, <1>6, <1>7

\* A step that leaves the links alone, and no message queued or back unsent.
LEMMA ShapeStays ==
  ASSUME Shape, head' = head, next' = next, prev' = prev,
         \A m \in Messages : /\ fate'[m] = "queued" <=> fate[m] = "queued"
                             /\ fate'[m] = "unsent" => fate[m] = "unsent"
  PROVE  Shape' /\ List' = List
<1>1. List' = List
  BY DEF List
<1>2. Queued' = Queued
  BY DEF Queued
<1> HIDE DEF List, Queued
<1>3. Linked(List', head', next', Null)
  BY <1>1 DEF Shape
<1> QED BY <1>1, <1>2, <1>3 DEF Shape

\* The count and the tail when no message is half queued, before and after a step.
LEMMA PlainNow ==
  ASSUME Ends, \A p \in Putters : pc[p] \notin Adding
  PROVE  count = Len(List) /\ tail = LastOf(List)
<1>1. ~SomeAdding /\ \A p \in Putters : pc[p] # "head"
  BY DEF SomeAdding, Adding
<1> QED BY <1>1 DEF Ends

LEMMA PlainThen ==
  ASSUME \A p \in Putters : pc'[p] \notin Adding,
         count' = Len(List'), count' \in Nat, tail' = LastOf(List)'
  PROVE  Ends'
<1>1. ~SomeAdding' /\ \A p \in Putters : pc'[p] # "head" /\ pc'[p] # "prev"
  BY DEF SomeAdding, Adding
<1>2. count' = Len(List') + IF SomeAdding' THEN 1 ELSE 0
  BY <1>1
<1> QED BY <1>1, <1>2 DEF Ends
-----------------------------------------------------------------------------
(* The actions that leave the list as it is. *)

\* What they have in common.
LEMMA QuietStep ==
  ASSUME IInv, NEW t \in use.threads \cap Threads, NEW place \in PlacesOf(t),
         Moves(t, place), Locks(t, place), t \in Putters => place = "idle" /\ pc[t] \notin Adding,
         UNCHANGED list, use' = use, Typed', Progress',
         \A m \in Messages : /\ fate'[m] = "queued" <=> fate[m] = "queued"
                             /\ fate'[m] = "unsent" => fate[m] = "unsent"
  PROVE  IInv' /\ List' = List
<1>0. Control /\ Typed /\ InPlace /\ Alone /\ Shape /\ Ends
  BY DEF IInv, Control
<1>1. InPlace'
  BY <1>0, InPlaceStep
<1>2. Alone' /\ \A p \in Putters : pc'[p] = "idle" /\ (p # t => pc[p] = "idle")
  BY <1>0, AloneStep
<1>3. head' = head /\ tail' = tail /\ next' = next /\ prev' = prev /\ count' = count
  BY DEF list
<1>4. Shape' /\ List' = List
  BY <1>0, <1>3, ShapeStays
<1>5. \A p \in Putters : pc[p] \notin Adding /\ pc'[p] \notin Adding
  BY <1>2 DEF Adding
<1>6. count = Len(List) /\ tail = LastOf(List) /\ Len(List) \in Nat
  BY <1>0, <1>5, PlainNow, ListFacts
<1>7. LastOf(List)' = LastOf(List)
  BY <1>4 DEF LastOf
<1>8. Ends'
  <2> HIDE DEF List
  <2> QED BY <1>3, <1>4, <1>5, <1>6, <1>7, PlainThen
<1> QED BY <1>1, <1>2, <1>4, <1>8 DEF IInv, Control

LEMMA RefuseStep ==
  ASSUME ExpeditedAlone, IInv, NEW p \in Putters \cap use.threads, NEW m \in Messages,
         Refuse(p, m)
  PROVE  IInv' /\ List' = List
<1>0. Control /\ Typed /\ InPlace /\ p \in Threads
  BY DEF IInv, Control, Threads
<1>1. pc[p] = "idle" /\ fate[m] = "unsent" /\ fate' = [fate EXCEPT ![m] = "refused"]
      /\ UNCHANGED <<list, active, lock, pc, block, use, flushes>>
  BY DEF Refuse, Becomes, bounds
<1>2. Moves(p, "idle") /\ Locks(p, "idle")
  BY <1>0, <1>1, Kinds DEF Moves, Locks, Typed
<1>3. lock \notin Flushers
  <2>1. CASE lock = Null
    BY <2>1, ThreadsAssumption DEF Threads
  <2>2. CASE m \in use.expedited
    BY <1>0, <2>2, ExpeditingIsAlone, AloneUnlocked
  <2> QED BY <2>1, <2>2 DEF Refuse
<1>4. Progress'
  BY <1>0, <1>2, <1>3, Kinds, NoFlushStep
<1>5. Typed'
  BY <1>0, <1>1 DEF Typed, list, Fates
<1>6. "idle" \in PlacesOf(p) /\ pc[p] \notin Adding
  BY <1>1 DEF PlacesOf, Adding
<1>7. \A x \in Messages : /\ fate'[x] = "queued" <=> fate[x] = "queued"
                          /\ fate'[x] = "unsent" => fate[x] = "unsent"
  BY <1>0, <1>1 DEF Typed
<1> QED BY <1>0, <1>1, <1>2, <1>4, <1>5, <1>6, <1>7, QuietStep

LEMMA SignalStep ==
  ASSUME IInv, NEW p \in Putters \cap use.threads, Signal(p)
  PROVE  IInv' /\ List' = List
<1>0. Control /\ Typed /\ InPlace /\ Alone /\ p \in Threads /\ p \notin Getters /\ p \notin Flushers
  BY Kinds DEF IInv, Control, Threads
<1>1. pc[p] = "signal" /\ SignalOne(p, "idle") /\ block' = [block EXCEPT ![p] = Null]
      /\ UNCHANGED <<list, active, lock, fate, use, flushes>>
  BY DEF Signal, bounds
<1>2. "idle" \in Places /\ "idle" \in PlacesOf(p) /\ pc[p] \notin Adding
  BY <1>1 DEF Places, PlacesOf, Adding
<1>3. Moves(p, "idle")
  BY <1>0, <1>1, <1>2, SignalMoves
<1>4. Locks(p, "idle")
  BY <1>0, <1>1 DEF Locks
<1>5. Progress'
  BY <1>0, <1>1, <1>3, AloneUnlocked, NoFlushStep DEF Alone
<1>6. Typed'
  BY <1>0, <1>1, <1>3 DEF Typed, list, Moves, MaybeMessage
<1> QED BY <1>0, <1>1, <1>2, <1>3, <1>4, <1>5, <1>6, QuietStep

LEMMA LeaveStep ==
  ASSUME IInv, NEW g \in Getters \cap use.threads, Leave(g)
  PROVE  IInv' /\ List' = List
<1>0. Control /\ Typed /\ g \in Threads /\ g \notin Putters /\ g \notin Flushers
  BY Kinds DEF IInv, Control, Threads
<1>1. lock = Null /\ Go(g, "left") /\ UNCHANGED <<list, active, lock, block, fate, use, flushes>>
  BY DEF Leave, bounds
<1>2. "left" \in Places /\ "left" \in PlacesOf(g)
  BY <1>0 DEF Places, PlacesOf
<1>3. Moves(g, "left") /\ Locks(g, "left")
  BY <1>0, <1>1, <1>2, GoMoves DEF Locks
<1>4. Progress'
  BY <1>0, <1>1, <1>3, NoFlushStep, ThreadsAssumption DEF Threads
<1>5. Typed'
  BY <1>0, <1>1, <1>3 DEF Typed, list, Moves
<1> QED BY <1>0, <1>1, <1>2, <1>3, <1>4, <1>5, QuietStep

LEMMA FindEmptyStep ==
  ASSUME IInv, NEW g \in Getters \cap use.threads, FindEmpty(g)
  PROVE  IInv' /\ List' = List
<1>0. Control /\ Typed /\ g \in Threads /\ g \notin Putters /\ g \notin Flushers
  BY Kinds DEF IInv, Control, Threads
<1>1. lock = Null /\ lock' = g /\ Go(g, "empty")
      /\ UNCHANGED <<list, active, block, fate, use, flushes>>
  BY DEF FindEmpty, bounds
<1>2. "empty" \in Places /\ "empty" \in PlacesOf(g)
  BY <1>0 DEF Places, PlacesOf
<1>3. Moves(g, "empty") /\ Locks(g, "empty")
  BY <1>0, <1>1, <1>2, GoMoves DEF Locks
<1>4. Progress'
  BY <1>0, <1>1, <1>3, NoFlushStep, ThreadsAssumption DEF Threads
<1>5. Typed'
  BY <1>0, <1>1, <1>3 DEF Typed, list, Moves
<1> QED BY <1>0, <1>1, <1>2, <1>3, <1>4, <1>5, QuietStep

LEMMA SleepStep ==
  ASSUME IInv, NEW g \in Getters \cap use.threads, Sleep(g)
  PROVE  IInv' /\ List' = List
<1>0. Control /\ Typed /\ InPlace /\ g \in Threads /\ g \notin Putters /\ g \notin Flushers
  BY Kinds DEF IInv, Control, Threads
<1>1. pc[g] = "empty" /\ lock' = Null /\ Go(g, "asleep")
      /\ UNCHANGED <<list, active, block, fate, use, flushes>>
  BY DEF Sleep, bounds
<1>2. "asleep" \in Places /\ "asleep" \in PlacesOf(g) /\ lock = g
  BY <1>0, <1>1 DEF Places, PlacesOf, InPlace
<1>3. Moves(g, "asleep") /\ Locks(g, "asleep")
  BY <1>0, <1>1, <1>2, GoMoves DEF Locks
<1>4. Progress'
  BY <1>0, <1>2, <1>3, NoFlushStep
<1>5. Typed'
  BY <1>0, <1>1, <1>3 DEF Typed, list, Moves
<1> QED BY <1>0, <1>1, <1>2, <1>3, <1>4, <1>5, QuietStep

\* At most one flush() is under way.
LEMMA OneFlush ==
  ASSUME Control, NEW f \in Flushers \cap use.threads, NEW place, Moves(f, place),
         lock \in {Null, f}
  PROVE  \A h \in Flushers : h # f => pc'[h] \notin Flushing
<1> SUFFICES ASSUME NEW h \in Flushers, h # f PROVE pc'[h] \notin Flushing
  OBVIOUS
<1>1. h \in Threads /\ h \notin Getters /\ h # Null
  BY Kinds DEF Threads
<1>2. pc'[h] = pc[h]
  BY <1>1 DEF Moves
<1>3. lock # h
  BY <1>1
<1> QED BY <1>2, <1>3 DEF Control, InPlace

LEMMA FlushBeginStep ==
  ASSUME IInv, NEW f \in Flushers \cap use.threads, NEW sessionMessages \in BOOLEAN,
         FlushBegin(f, sessionMessages)
  PROVE  IInv' /\ List' = List
<1> DEFINE place == IF sessionMessages THEN "all" ELSE "data"
<1>0. Control /\ Typed /\ Shape /\ f \in Threads /\ f \notin Putters /\ f \notin Getters
  BY Kinds DEF IInv, Control, Threads
<1>1. lock = Null /\ lock' = f /\ block' = [block EXCEPT ![f] = head] /\ Go(f, place)
      /\ flushes < MaxFlushes /\ flushes' = flushes + 1
      /\ UNCHANGED <<list, active, fate, use>>
  BY DEF FlushBegin
<1>2. place \in Places /\ place \in PlacesOf(f) /\ place \in Flushing
  BY <1>0 DEF Places, PlacesOf, Flushing
<1> HIDE DEF place
<1>3. Moves(f, place)
  BY <1>0, <1>1, <1>2, GoMoves
<1>4. Locks(f, place)
  BY <1>0, <1>1, <1>2 DEF Locks
<1>5. List' = List
  BY <1>1 DEF List, list
<1>6. Progress'
  <2>1. \A h \in Flushers : h # f => pc'[h] \notin Flushing
    BY <1>0, <1>1, <1>3, OneFlush
  <2>2. Len(List) \in Nat /\ head = (IF List = <<>> THEN Null ELSE List[1])
        /\ (List = <<>> <=> Len(List) = 0)
    BY <1>0, ListFacts
  <2>3. block'[f] = head
    BY <1>0, <1>1 DEF Typed
  <2>4. block'[f] = IF 1 = Len(List') + 1 THEN Null ELSE List'[1]
    <3> HIDE DEF List
    <3>1. 1 = Len(List) + 1 <=> List = <<>>
      BY <2>2
    <3> QED BY <1>5, <2>2, <2>3, <3>1
  <2>5. Flushed(f, 1)'
    <3>1. 1..(1 - 1) = {}
      OBVIOUS
    <3> QED BY <2>4, <3>1 DEF Flushed
  <2>6. 1 \in 1..Len(List') + 1
    BY <1>5, <2>2
  <2> QED BY <2>1, <2>5, <2>6 DEF Progress
<1>7. Typed'
  <2>1. flushes' \in 0..MaxFlushes
    BY <1>0, <1>1, BoundsAssumption DEF Typed
  <2> QED BY <1>0, <1>1, <1>3, <2>1 DEF Typed, list, Moves
<1>8. use' = use /\ UNCHANGED list /\ fate' = fate
  BY <1>1
<1> QED BY <1>0, <1>2, <1>3, <1>4, <1>6, <1>7, <1>8, QuietStep

LEMMA FlushSkipStep ==
  ASSUME IInv, NEW f \in Flushers \cap use.threads, FlushSkip(f)
  PROVE  IInv' /\ List' = List
<1>0. Control /\ Typed /\ InPlace /\ Shape /\ Progress /\ f \in Threads
      /\ f \notin Putters /\ f \notin Getters
  BY Kinds DEF IInv, Control, Threads
<1>1. pc[f] \in {"data", "all"} /\ block[f] \in Messages \ Flushable(pc[f] = "all")
      /\ block' = [block EXCEPT ![f] = next[block[f]]]
      /\ UNCHANGED <<list, active, lock, pc, fate, use, flushes>>
  BY DEF FlushSkip, bounds
<1>2. pc[f] \in Flushing /\ pc[f] \in PlacesOf(f) /\ lock = f
  BY <1>0, <1>1 DEF Flushing, PlacesOf, InPlace
<1>3. Moves(f, pc[f]) /\ Locks(f, pc[f])
  BY <1>0, <1>1, <1>2 DEF Moves, Locks, Typed, InPlace
<1>4. List' = List
  BY <1>1 DEF List, list
<1>5. Progress'
  <2>1. \A h \in Flushers : h # f => pc'[h] \notin Flushing
    BY <1>0, <1>2, <1>3, OneFlush
  <2>2. PICK k \in 1..Len(List) + 1 : Flushed(f, k)
    BY <1>0, <1>2 DEF Progress
  <2>3. block[f] = (IF k = Len(List) + 1 THEN Null ELSE List[k])
        /\ \A i \in 1..(k - 1) : List[i] \notin Flushable(pc[f] = "all")
    BY <2>2 DEF Flushed
  <2>4. Len(List) \in Nat /\ Null \notin Messages
        /\ \A i \in 1..Len(List) : next[List[i]] = IF i = Len(List) THEN Null ELSE List[i + 1]
    BY <1>0, ListFacts
  <2> HIDE DEF List
  <2>5. k # Len(List) + 1 /\ k \in 1..Len(List) /\ block[f] = List[k]
    BY <1>1, <2>3, <2>4
  <2>6. block'[f] = next[List[k]]
    BY <1>0, <1>1, <2>5 DEF Typed
  <2>7. block'[f] = IF k + 1 = Len(List) + 1 THEN Null ELSE List[k + 1]
    <3>1. k + 1 = Len(List) + 1 <=> k = Len(List)
      BY <2>4, <2>5
    <3> QED BY <2>4, <2>5, <2>6, <3>1
  <2>8. \A i \in 1..((k + 1) - 1) : List[i] \notin Flushable(pc[f] = "all")
    <3> TAKE i \in 1..((k + 1) - 1)
    <3>1. i \in 1..(k - 1) \/ i = k
      BY <2>4, <2>5
    <3>2. List[k] \notin Flushable(pc[f] = "all")
      BY <1>1, <2>5
    <3> QED BY <2>3, <3>1, <3>2
  <2>9. Flushed(f, k + 1)'
    BY <1>1, <1>4, <2>7, <2>8 DEF Flushed
  <2>10. k + 1 \in 1..Len(List') + 1
    BY <1>4, <2>4, <2>5
  <2> QED BY <2>1, <2>9, <2>10 DEF Progress
<1>6. Typed'
  <2>1. block' \in [Threads -> MaybeMessage]
    BY <1>0, <1>1 DEF Typed, MaybeMessage
  <2> QED BY <1>0, <1>1, <2>1 DEF Typed, list
<1>7. use' = use /\ UNCHANGED list /\ fate' = fate
  BY <1>1
<1> QED BY <1>0, <1>2, <1>3, <1>5, <1>6, <1>7, QuietStep

LEMMA FlushEndStep ==
  ASSUME IInv, NEW f \in Flushers \cap use.threads, FlushEnd(f)
  PROVE  IInv' /\ List' = List
<1>0. Control /\ Typed /\ InPlace /\ f \in Threads /\ f \notin Putters /\ f \notin Getters
  BY Kinds DEF IInv, Control, Threads
<1>1. pc[f] \in {"data", "all"} /\ lock' = Null /\ Go(f, "idle")
      /\ UNCHANGED <<list, active, block, fate, use, flushes>>
  BY DEF FlushEnd, bounds
<1>2. pc[f] \in Flushing /\ "idle" \in Places /\ "idle" \in PlacesOf(f) /\ lock = f
      /\ "idle" \notin Flushing /\ f # Null
  BY <1>0, <1>1, Kinds DEF Flushing, Places, PlacesOf, InPlace
<1>3. Moves(f, "idle") /\ Locks(f, "idle")
  BY <1>0, <1>1, <1>2, GoMoves DEF Locks
<1>4. Progress'
  <2>1. \A h \in Flushers : h # f => pc'[h] \notin Flushing
    BY <1>0, <1>2, <1>3, OneFlush
  <2> QED BY <1>2, <1>3, <2>1 DEF Progress, Moves
<1>5. Typed'
  BY <1>0, <1>1, <1>3 DEF Typed, list, Moves
<1> QED BY <1>0, <1>1, <1>2, <1>3, <1>4, <1>5, QuietStep

\* deactivate() and signal(): the sleepers wake.
LEMMA WakeStep ==
  ASSUME IInv, NEW f \in Flushers \cap use.threads, Deactivate(f) \/ SignalAll(f)
  PROVE  IInv' /\ List' = List
<1>0. Control /\ Typed /\ InPlace /\ f \in Threads /\ f \notin Putters /\ f \notin Getters
  BY Kinds DEF IInv, Control, Threads
<1>1. pc[f] = "idle" /\ lock = Null /\ flushes < MaxFlushes /\ flushes' = flushes + 1
      /\ active' \in {active, FALSE} /\ WakeAll /\ UNCHANGED <<list, lock, block, fate, use>>
  BY DEF Deactivate, SignalAll
<1>2. "idle" \in PlacesOf(f) /\ "idle" \notin Flushing /\ f # Null
  BY <1>0, Kinds DEF PlacesOf, Flushing
<1>3. Moves(f, "idle")
  BY <1>0, <1>1, WakeAllMoves
<1>4. Locks(f, "idle")
  BY <1>0, <1>1, <1>2 DEF Locks
<1>5. Progress'
  <2>1. \A h \in Flushers : h # f => pc'[h] \notin Flushing
    BY <1>0, <1>1, <1>3, OneFlush
  <2> QED BY <1>2, <1>3, <2>1 DEF Progress, Moves
<1>6. Typed'
  <2>1. flushes' \in 0..MaxFlushes
    BY <1>0, <1>1, BoundsAssumption DEF Typed
  <2> QED BY <1>0, <1>1, <1>3, <2>1 DEF Typed, list, Moves
<1> QED BY <1>0, <1>1, <1>2, <1>3, <1>4, <1>5, <1>6, QuietStep

\* activate(): the workers are gone, and come back.
LEMMA ActivateStep ==
  ASSUME IInv, NEW f \in Flushers \cap use.threads, Activate(f)
  PROVE  IInv' /\ List' = List
<1>0. Control /\ Typed /\ InPlace /\ Alone /\ Shape /\ Ends /\ f \in Threads
      /\ f \notin Putters /\ f \notin Getters
  BY Kinds DEF IInv, Control, Threads
<1>1. pc[f] = "idle" /\ lock = Null /\ flushes < MaxFlushes /\ flushes' = flushes + 1
      /\ active' = TRUE /\ pc' = [t \in Threads |-> IF t \in Getters THEN "idle" ELSE pc[t]]
      /\ UNCHANGED <<head, tail, next, prev, count, lock, block, fate, use>>
  BY DEF Activate, list
<1>2. \A p \in Putters : p \in Threads /\ p \notin Getters /\ p \notin Flushers
  BY Kinds DEF Threads
<1>3. \A h \in Flushers : h \in Threads /\ h \notin Getters /\ h # Null
  BY Kinds DEF Threads
<1>4. \A g \in Getters : g \in Threads
  BY DEF Threads
<1>5. \A p \in Putters : pc[p] = "idle" /\ pc'[p] = "idle"
  BY <1>0, <1>1, <1>2, OthersIdle
<1>6. \A h \in Flushers : pc'[h] = pc[h] /\ pc'[h] \notin Flushing /\ lock' # h
  <2>1. \A h \in Flushers : pc[h] \in Flushing <=> lock = h
    BY <1>0 DEF InPlace
  <2> QED BY <1>1, <1>3, <2>1
<1>7. \A g \in Getters : pc'[g] = "idle"
  BY <1>1, <1>4
<1>8. InPlace'
  <2>1. \A t \in Threads : pc'[t] # "idle" => t \in use'.threads
    BY <1>0, <1>1 DEF InPlace
  <2>2. \A p \in Putters : lock' # p
    BY <1>0, <1>1 DEF InPlace
  <2>3. \A h \in Flushers : pc'[h] \in Flushing \cup {"idle"}
    BY <1>0, <1>6 DEF InPlace
  <2> QED BY <2>1, <2>2, <2>3, <1>5, <1>6, <1>7 DEF InPlace
<1>9. Alone' /\ Progress'
  BY <1>5, <1>6 DEF Alone, Progress
<1>10. Typed'
  <2>1. flushes' \in 0..MaxFlushes
    BY <1>0, <1>1, BoundsAssumption DEF Typed
  <2>2. pc' \in [Threads -> Places]
    BY <1>0, <1>1 DEF Typed, Places
  <2> QED BY <1>0, <1>1, <2>1, <2>2 DEF Typed
<1>11. Shape' /\ List' = List
  BY <1>0, <1>1, ShapeStays
<1>12. Ends'
  <2>1. \A p \in Putters : pc[p] \notin Adding /\ pc'[p] \notin Adding
    BY <1>5 DEF Adding
  <2>2. count = Len(List) /\ tail = LastOf(List) /\ Len(List) \in Nat
    BY <1>0, <2>1, PlainNow, ListFacts
  <2>3. LastOf(List)' = LastOf(List)
    BY <1>11 DEF LastOf
  <2> HIDE DEF List
  <2> QED BY <1>1, <1>11, <2>1, <2>2, <2>3, PlainThen
<1> QED BY <1>8, <1>9, <1>10, <1>11, <1>12 DEF IInv, Control
-----------------------------------------------------------------------------
(* The actions that change the list under the lock. *)

\* What they have in common: q is the list that they leave.
LEMMA ListStep ==
  ASSUME IInv, NEW t \in use.threads \cap Threads, NEW place \in PlacesOf(t),
         Moves(t, place), Locks(t, place), t \in Putters => place = "idle",
         use' = use, Typed', Progress',
         NEW q, Linked(q, head', next', Null), Range(q) = Queued',
         \A i \in 2..Len(q) : prev'[q[i]] = q[i - 1],
         \A m \in Messages : fate'[m] = "unsent" => next'[m] = Null,
         count' = Len(q), tail' = LastOf(q)
  PROVE  IInv' /\ List' = q
<1>0. Control /\ Typed
  BY DEF IInv, Control
<1>1. InPlace'
  BY <1>0, InPlaceStep
<1>2. Alone' /\ \A p \in Putters : pc'[p] = "idle"
  BY <1>0, AloneStep
<1>3. DOMAIN next' = Messages
  BY DEF Typed
<1>4. List' = q
  BY <1>3, NewList
<1>5. Shape'
  <2> HIDE DEF List, Queued
  <2> QED BY <1>4 DEF Shape
<1>6. \A p \in Putters : pc'[p] \notin Adding
  BY <1>2 DEF Adding
<1>7. Ends'
  <2>1. Len(q) \in Nat
    BY LenProperties DEF Linked
  <2>2. count' = Len(List') /\ count' \in Nat
    BY <1>4, <2>1
  <2>3. tail' = LastOf(List)'
    BY <1>4 DEF LastOf
  <2> HIDE DEF List
  <2> QED BY <1>6, <2>2, <2>3, PlainThen
<1> QED BY <1>1, <1>2, <1>5, <1>7, <1>4 DEF IInv, Control

\* What the ends of the list are when no message is half queued.
LEMMA EndsFacts ==
  ASSUME Typed, Shape, Ends, \A p \in Putters : pc[p] \notin Adding
  PROVE  /\ count = Len(List) /\ tail = LastOf(List)
         /\ Empty <=> List = <<>>
         /\ List # <<>> => Len(List) \in 1..Len(List) /\ Last(List) = List[Len(List)]
                           /\ Last(List) \in Messages /\ tail = Last(List)
<1>1. count = Len(List) /\ tail = LastOf(List)
  BY PlainNow
<1>2. /\ Len(List) \in Nat /\ (List = <<>> <=> Len(List) = 0) /\ Null \notin Messages
      /\ \A i \in 1..Len(List) : List[i] \in Messages
  BY ListFacts
<1> HIDE DEF List
<1>3. ASSUME List # <<>>
      PROVE  Len(List) \in 1..Len(List) /\ Last(List) = List[Len(List)] /\ Last(List) \in Messages
             /\ tail = Last(List)
  <2>1. Len(List) \in 1..Len(List)
    BY <1>2, <1>3
  <2> QED BY <1>1, <1>2, <1>3, <2>1 DEF LastOf, Last
<1>4. Empty <=> List = <<>>
  BY <1>1, <1>2, <1>3 DEF LastOf, Empty
<1> QED BY <1>1, <1>3, <1>4

\* What is queued after a message was put.
LEMMA QueuedMore ==
  ASSUME Typed, NEW m \in Messages, fate' = [fate EXCEPT ![m] = "queued"]
  PROVE  Queued' = Queued \cup {m}
BY DEF Typed, Queued

\* ... and after one was taken or released.
LEMMA QueuedLess ==
  ASSUME Typed, NEW m \in Messages, NEW f, f # "queued", fate' = [fate EXCEPT ![m] = f]
  PROVE  Queued' = Queued \ {m}
BY DEF Typed, Queued

\* Putters that act under the lock: the facts that both ways of putting need.
LEMMA PutFacts ==
  ASSUME IInv, NEW p \in Putters \cap use.threads, NEW m \in Messages,
         lock = Null, pc[p] = "idle", fate[m] = "unsent", SignalOne(p, "idle"), lock' = lock
  PROVE  /\ Moves(p, "idle") /\ Locks(p, "idle") /\ "idle" \in PlacesOf(p) /\ Progress'
         /\ \A x \in Putters : pc[x] \notin Adding
         /\ \A i \in 1..Len(List) : List[i] # m
         /\ next[m] = Null
<1>0. Control /\ Typed /\ InPlace /\ Alone /\ Shape /\ p \in Threads /\ p \notin Getters
      /\ p \notin Flushers
  BY Kinds DEF IInv, Control, Threads
<1>1. "idle" \in PlacesOf(p) /\ "idle" \in Places
  BY DEF PlacesOf, Places
<1>2. Moves(p, "idle")
  BY <1>0, <1>1, SignalMoves
<1>3. Locks(p, "idle")
  BY <1>0 DEF Locks
<1>4. Progress'
  BY <1>0, <1>2, NoFlushStep, ThreadsAssumption DEF Threads
<1>5. \A x \in Putters : pc[x] = "idle"
  BY <1>0, OthersIdle
<1>6. \A i \in 1..Len(List) : List[i] # m
  BY <1>0, ListFacts
<1>7. next[m] = Null
  BY <1>0 DEF Shape
<1> QED BY <1>1, <1>2, <1>3, <1>4, <1>5, <1>6, <1>7 DEF Adding

LEMMA PutTailStep ==
  ASSUME IInv, NEW p \in Putters \cap use.threads, NEW m \in Messages, PutTail(p, m)
  PROVE  IInv' /\ List' = Append(List, m) /\ m \notin Range(List)
<1>0. Control /\ Typed /\ InPlace /\ Alone /\ Shape /\ Ends /\ p \in Threads
  BY DEF IInv, Control, Threads
<1>1. /\ lock = Null /\ pc[p] = "idle" /\ fate[m] = "unsent" /\ SignalOne(p, "idle")
      /\ head' = (IF Empty THEN m ELSE head)
      /\ next' = (IF Empty THEN next ELSE [next EXCEPT ![tail] = m])
      /\ prev' = [prev EXCEPT ![m] = tail] /\ tail' = m /\ count' = count + 1
      /\ fate' = [fate EXCEPT ![m] = "queued"]
      /\ UNCHANGED <<active, lock, block, use, flushes>>
  BY DEF PutTail, IsLast, Becomes, bounds
<1>2. /\ Moves(p, "idle") /\ Locks(p, "idle") /\ "idle" \in PlacesOf(p) /\ Progress'
      /\ \A x \in Putters : pc[x] \notin Adding
      /\ \A i \in 1..Len(List) : List[i] # m
      /\ next[m] = Null
  BY <1>1, PutFacts
<1>3. /\ List \in Seq(Messages) /\ Len(List) \in Nat /\ DOMAIN next = Messages
      /\ Range(List) = {List[i] : i \in 1..Len(List)} /\ Linked(List, head, next, Null)
      /\ \A i \in 1..Len(List) : List[i] \in Messages
  BY <1>0, ListFacts DEF Shape
<1>4. /\ count = Len(List) /\ (Empty <=> List = <<>>)
      /\ List # <<>> => Len(List) \in 1..Len(List) /\ Last(List) = List[Len(List)]
                           /\ Last(List) \in Messages /\ tail = Last(List)
  BY <1>0, <1>2, EndsFacts
<1> DEFINE q == Append(List, m)
<1> HIDE DEF List
<1>5. Linked(q, head', next', Null)
  <2>1. Linked(q, IF List = <<>> THEN m ELSE head,
               IF List = <<>> THEN next ELSE [next EXCEPT ![Last(List)] = m], Null)
    BY <1>2, <1>3, LinkedAppend
  <2>2. CASE List = <<>>
    BY <1>1, <1>4, <2>1, <2>2
  <2>3. CASE List # <<>>
    BY <1>1, <1>4, <2>1, <2>3
  <2> QED BY <2>2, <2>3
<1>6. /\ Len(q) = Len(List) + 1 /\ q # <<>> /\ q[Len(List) + 1] = m
      /\ \A i \in 1..Len(List) : q[i] = List[i]
  BY <1>3, AppendProperties
<1>7. Range(q) = Queued'
  <2>1. Range(q) = Range(List) \cup {m}
    BY <1>3, RangeAppend
  <2>2. Queued' = Queued \cup {m}
    BY <1>0, <1>1, QueuedMore
  <2>3. Range(List) = Queued
    BY <1>0 DEF Shape
  <2> HIDE DEF q, Queued
  <2> QED BY <2>1, <2>2, <2>3
<1> HIDE DEF q
<1>8. ASSUME NEW i \in 2..Len(q) PROVE prev'[q[i]] = q[i - 1]
  <2>1. CASE i = Len(List) + 1
    <3>1. List # <<>>
      <4>1. Len(<<>>) = 0
        BY EmptySeq
      <4> QED BY <1>3, <2>1, <4>1
    <3>2. prev'[m] = tail
      BY <1>0, <1>1 DEF Typed
    <3>3. i - 1 = Len(List)
      BY <1>3, <2>1
    <3> QED BY <1>4, <1>6, <2>1, <3>1, <3>2, <3>3
  <2>2. CASE i # Len(List) + 1
    <3>1. i \in 2..Len(List) /\ i \in 1..Len(List) /\ i - 1 \in 1..Len(List)
      BY <1>3, <1>6, <2>2
    <3>2. prev[List[i]] = List[i - 1]
      BY <1>0, <3>1 DEF Shape
    <3>3. prev'[List[i]] = prev[List[i]]
      BY <1>0, <1>1, <1>2, <1>3, <3>1 DEF Typed
    <3> QED BY <1>6, <3>1, <3>2, <3>3
  <2> QED BY <2>1, <2>2
<1>9. ASSUME NEW x \in Messages, fate'[x] = "unsent" PROVE next'[x] = Null
  <2>1. x # m /\ fate[x] = "unsent"
    BY <1>0, <1>1, <1>9 DEF Typed
  <2>2. next[x] = Null
    BY <1>0, <2>1 DEF Shape
  <2>3. CASE Empty
    BY <1>1, <2>2, <2>3
  <2>4. CASE ~Empty
    <3>1. fate[tail] = "queued"
      BY <1>0, <1>4, <2>4, ListFacts
    <3>2. x # tail
      BY <2>1, <3>1
    <3> QED BY <1>1, <1>3, <2>2, <2>4, <3>2
  <2> QED BY <2>3, <2>4
<1>10. count' = Len(q) /\ tail' = LastOf(q)
  BY <1>1, <1>4, <1>6 DEF LastOf, Last
<1>11. Typed'
  <2>1. next' \in [Messages -> MaybeMessage] /\ prev' \in [Messages -> MaybeMessage]
        /\ head' \in MaybeMessage
    <3>1. tail \in MaybeMessage
      BY <1>4 DEF Empty, MaybeMessage
    <3> QED BY <1>0, <1>1, <3>1 DEF Typed, MaybeMessage
  <2>2. fate' \in [Messages -> Fates]
    BY <1>0, <1>1 DEF Typed, Fates
  <2> QED BY <1>0, <1>1, <1>2, <2>1, <2>2 DEF Typed, Moves
<1>12. p \in use.threads \cap Threads /\ use' = use
  BY <1>0, <1>1
<1>13. IInv' /\ List' = q
  <2> HIDE DEF Queued
  <2> QED BY <1>12, <1>2, <1>5, <1>7, <1>8, <1>9, <1>10, <1>11, ListStep
<1>14. m \notin Range(List)
  BY <1>2, <1>3
<1> QED BY <1>13, <1>14 DEF q

\* A sequence with one more message in front.
LEMMA PrependFacts ==
  ASSUME NEW s \in Seq(Messages), NEW m \in Messages
  PROVE  /\ <<m>> \o s \in Seq(Messages) /\ <<m>> \o s # <<>>
         /\ Len(<<m>> \o s) = Len(s) + 1 /\ (<<m>> \o s)[1] = m
         /\ \A i \in 2..Len(s) + 1 : (<<m>> \o s)[i] = s[i - 1]
         /\ LastOf(<<m>> \o s) = IF s = <<>> THEN m ELSE Last(s)
<1> DEFINE q == <<m>> \o s
<1>1. <<m>> \in Seq(Messages) /\ Len(<<m>>) = 1 /\ <<m>>[1] = m
  OBVIOUS
<1>2. q \in Seq(Messages) /\ Len(q) = 1 + Len(s)
      /\ \A i \in 1..1 + Len(s) : q[i] = IF i <= 1 THEN <<m>>[i] ELSE s[i - 1]
  BY <1>1, ConcatProperties
<1>3. Len(s) \in Nat /\ (s = <<>> <=> Len(s) = 0) /\ (q = <<>> <=> Len(q) = 0)
  BY <1>2, LenProperties, EmptySeq
<1> HIDE DEF q
<1>4. q # <<>> /\ Len(q) = Len(s) + 1
  BY <1>2, <1>3
<1>5. q[1] = m
  BY <1>1, <1>2, <1>3
<1>6. \A i \in 2..Len(s) + 1 : q[i] = s[i - 1]
  <2> TAKE i \in 2..Len(s) + 1
  <2>1. i \in 1..1 + Len(s) /\ ~(i <= 1)
    BY <1>3
  <2> QED BY <1>2, <2>1
<1>7. LastOf(q) = IF s = <<>> THEN m ELSE Last(s)
  <2>1. CASE s = <<>>
    BY <1>3, <1>4, <1>5, <2>1 DEF LastOf, Last
  <2>2. CASE s # <<>>
    <3>1. Len(s) + 1 \in 2..Len(s) + 1 /\ Len(s) + 1 - 1 = Len(s)
      BY <1>3, <2>2
    <3>2. q[Len(s) + 1] = s[Len(s)]
      BY <1>6, <3>1
    <3> QED BY <1>4, <2>2, <3>2 DEF LastOf, Last
  <2> QED BY <2>1, <2>2
<1> QED BY <1>2, <1>4, <1>5, <1>6, <1>7 DEF q

LEMMA PutHeadStep ==
  ASSUME IInv, NEW p \in Putters \cap use.threads, NEW m \in Messages, PutHead(p, m)
  PROVE  IInv' /\ List' = <<m>> \o List /\ m \notin Range(List)
<1>0. Control /\ Typed /\ InPlace /\ Alone /\ Shape /\ Ends /\ p \in Threads
  BY DEF IInv, Control, Threads
<1>1. /\ lock = Null /\ pc[p] = "idle" /\ fate[m] = "unsent" /\ SignalOne(p, "idle")
      /\ next' = [next EXCEPT ![m] = head]
      /\ prev' = (IF head = Null THEN prev ELSE [prev EXCEPT ![head] = m])
      /\ tail' = (IF head = Null THEN m ELSE tail)
      /\ head' = m /\ count' = count + 1
      /\ fate' = [fate EXCEPT ![m] = "queued"]
      /\ UNCHANGED <<active, lock, block, use, flushes>>
  BY DEF PutHead, Becomes, bounds
<1>2. /\ Moves(p, "idle") /\ Locks(p, "idle") /\ "idle" \in PlacesOf(p) /\ Progress'
      /\ \A x \in Putters : pc[x] \notin Adding
      /\ \A i \in 1..Len(List) : List[i] # m
  BY <1>1, PutFacts
<1>3. /\ List \in Seq(Messages) /\ Len(List) \in Nat /\ DOMAIN next = Messages
      /\ Range(List) = {List[i] : i \in 1..Len(List)} /\ Linked(List, head, next, Null)
      /\ head = (IF List = <<>> THEN Null ELSE List[1]) /\ (List = <<>> <=> head = Null)
      /\ \A i, j \in 1..Len(List) : List[i] = List[j] => i = j
      /\ \A i \in 1..Len(List) : List[i] \in Messages
  BY <1>0, ListFacts DEF Shape
<1>4. count = Len(List) /\ (List # <<>> => tail = Last(List))
  BY <1>0, <1>2, EndsFacts
<1> DEFINE q == <<m>> \o List
<1> HIDE DEF List
<1>5. Linked(q, head', next', Null)
  <2>1. DOMAIN next' = DOMAIN next /\ next'[m] = head
    BY <1>1, <1>3
  <2>2. \A i \in 1..Len(List) : next'[List[i]] = next[List[i]]
    BY <1>1, <1>2, <1>3
  <2>3. Linked(List, head, next', Null)
    BY <1>3, <2>1, <2>2, LinkedElsewhere
  <2>4. m \in DOMAIN next'
    BY <1>3, <2>1
  <2>5. Linked(q, m, next', Null)
    BY <1>2, <2>1, <2>3, <2>4, LinkedPrepend
  <2> HIDE DEF q
  <2> QED BY <1>1, <2>5
<1>6. /\ Len(q) = Len(List) + 1 /\ q[1] = m
      /\ \A i \in 2..Len(List) + 1 : q[i] = List[i - 1]
      /\ LastOf(q) = IF List = <<>> THEN m ELSE Last(List)
  BY <1>3, PrependFacts
<1>7. Range(q) = Queued'
  <2>1. Range(q) = Range(List) \cup {m}
    BY <1>3, RangePrepend
  <2>2. Queued' = Queued \cup {m}
    BY <1>0, <1>1, QueuedMore
  <2>3. Range(List) = Queued
    BY <1>0 DEF Shape
  <2> HIDE DEF q, Queued
  <2> QED BY <2>1, <2>2, <2>3
<1> HIDE DEF q
<1>8. ASSUME NEW i \in 2..Len(q) PROVE prev'[q[i]] = q[i - 1]
  <2>1. i \in 2..Len(List) + 1 /\ i - 1 \in 1..Len(List) /\ q[i] = List[i - 1] /\ List # <<>>
    <3>1. i \in 2..Len(List) + 1 /\ i - 1 \in 1..Len(List)
      BY <1>3, <1>6
    <3>2. List # <<>>
      BY <3>1, EmptySeq
    <3> QED BY <1>6, <3>1, <3>2
  <2>2. CASE i = 2
    <3>1. q[i] = head /\ i - 1 = 1
      BY <1>3, <2>1, <2>2
    <3>2. prev'[head] = m
      BY <1>0, <1>1, <1>3, <2>1 DEF Typed
    <3> QED BY <1>6, <3>1, <3>2
  <2>3. CASE i # 2
    <3>1. i - 1 \in 2..Len(List) /\ 1 \in 1..Len(List) /\ i - 1 # 1
          /\ i - 1 \in 2..Len(List) + 1
      BY <1>3, <2>1, <2>3
    <3>2. List[i - 1] # head
      BY <1>3, <2>1, <3>1
    <3>3. prev'[List[i - 1]] = prev[List[i - 1]]
      BY <1>0, <1>1, <1>3, <2>1, <3>2 DEF Typed
    <3>4. prev[List[i - 1]] = List[i - 1 - 1] /\ q[i - 1] = List[i - 1 - 1]
      BY <1>0, <1>6, <3>1 DEF Shape
    <3> QED BY <2>1, <3>3, <3>4
  <2> QED BY <2>2, <2>3
<1>9. ASSUME NEW x \in Messages, fate'[x] = "unsent" PROVE next'[x] = Null
  <2>1. x # m /\ fate[x] = "unsent"
    BY <1>0, <1>1, <1>9 DEF Typed
  <2>2. next[x] = Null
    BY <1>0, <2>1 DEF Shape
  <2> QED BY <1>1, <1>3, <2>1, <2>2
<1>10. count' = Len(q) /\ tail' = LastOf(q)
  BY <1>1, <1>3, <1>4, <1>6
<1>11. Typed'
  <2>1. next' \in [Messages -> MaybeMessage] /\ prev' \in [Messages -> MaybeMessage]
        /\ head' \in MaybeMessage
    BY <1>0, <1>1 DEF Typed, MaybeMessage
  <2>2. fate' \in [Messages -> Fates]
    BY <1>0, <1>1 DEF Typed, Fates
  <2> QED BY <1>0, <1>1, <1>2, <2>1, <2>2 DEF Typed, Moves
<1>12. p \in use.threads \cap Threads /\ use' = use
  BY <1>0, <1>1
<1>13. IInv' /\ List' = q
  <2> HIDE DEF Queued
  <2> QED BY <1>12, <1>2, <1>5, <1>7, <1>8, <1>9, <1>10, <1>11, ListStep
<1>14. m \notin Range(List)
  BY <1>2, <1>3
<1> QED BY <1>13, <1>14 DEF q

\* What is left of a list without its k-th message.
LEMMA LessFacts ==
  ASSUME Typed, Shape, NEW k \in 1..Len(List)
  PROVE  /\ RemoveAt(List, k) \in Seq(Messages)
         /\ Len(RemoveAt(List, k)) = Len(List) - 1
         /\ \A i \in 1..Len(List) - 1 :
              RemoveAt(List, k)[i] = IF i < k THEN List[i] ELSE List[i + 1]
         /\ RemoveAt(List, k) = <<>> <=> Len(List) = 1
         /\ k # Len(List) => LastOf(RemoveAt(List, k)) = List[Len(List)]
         /\ Range(RemoveAt(List, k)) = Queued \ {List[k]}
<1>0. /\ List \in Seq(Messages) /\ Len(List) \in Nat
      /\ \A i, j \in 1..Len(List) : List[i] = List[j] => i = j
  BY ListFacts
<1> DEFINE q == RemoveAt(List, k)
<1>1. Range(List) = Queued
  BY DEF Shape
<1> HIDE DEF List
<1>2. q \in Seq(Messages) /\ Len(q) = Len(List) - 1
      /\ \A i \in 1..Len(List) - 1 : q[i] = IF i < k THEN List[i] ELSE List[i + 1]
  BY <1>0, RemoveAtProperties
<1>3. Range(q) = Queued \ {List[k]}
  <2> HIDE DEF Queued
  <2> QED BY <1>0, <1>1, RangeRemoveAt
<1>4. q = <<>> <=> Len(q) = 0
  BY <1>2, EmptySeq
<1> HIDE DEF q
<1>5. q = <<>> <=> Len(List) = 1
  BY <1>0, <1>2, <1>4
<1>6. ASSUME k # Len(List) PROVE LastOf(q) = List[Len(List)]
  <2>1. /\ Len(List) - 1 \in 1..Len(List) - 1 /\ ~(Len(List) - 1 < k)
        /\ Len(List) - 1 + 1 = Len(List) /\ Len(List) # 1
    BY <1>0, <1>6
  <2>2. q[Len(List) - 1] = List[Len(List)]
    BY <1>2, <2>1
  <2> QED BY <1>2, <1>5, <2>1, <2>2 DEF LastOf, Last
<1> QED BY <1>2, <1>3, <1>5, <1>6 DEF q

LEMMA DequeueStep ==
  ASSUME IInv, NEW g \in Getters \cap use.threads, Dequeue(g)
  PROVE  IInv' /\ List # <<>> /\ List' = Tail(List)
<1>0. Control /\ Typed /\ InPlace /\ Alone /\ Shape /\ Ends /\ g \in Threads
      /\ g \notin Putters /\ g \notin Flushers
  BY Kinds DEF IInv, Control, Threads
<1>1. \A p \in Putters : pc[p] \notin Adding
  <2>1. \A p \in Putters : pc[p] = "idle"
    BY <1>0, OthersIdle
  <2> QED BY <2>1 DEF Adding
<1>2. /\ List \in Seq(Messages) /\ Len(List) \in Nat /\ (List = <<>> <=> Len(List) = 0)
      /\ DOMAIN next = Messages /\ Null \notin Messages
      /\ head = (IF List = <<>> THEN Null ELSE List[1]) /\ (List = <<>> <=> head = Null)
      /\ \A i, j \in 1..Len(List) : List[i] = List[j] => i = j
      /\ \A i \in 1..Len(List) : next[List[i]] = IF i = Len(List) THEN Null ELSE List[i + 1]
      /\ \A i \in 1..Len(List) : List[i] \in Messages
  BY <1>0, ListFacts
<1>3. /\ count = Len(List) /\ (Empty <=> List = <<>>)
      /\ List # <<>> => tail = Last(List) /\ Last(List) = List[Len(List)]
  BY <1>0, <1>1, EndsFacts
<1>4. List # <<>> /\ head # Null
  BY <1>2, <1>3 DEF Dequeue, NotEmpty
<1>5. Linked(List, head, next, Null)
  BY <1>0 DEF Shape
<1> DEFINE rest == next[head]
           q == RemoveAt(List, 1)
<1>6. /\ lock = Null /\ count' = count - 1 /\ head' = rest
      /\ tail' = (IF rest = Null THEN Null ELSE tail)
      /\ prev' = [m \in Messages |-> IF m \in {head, rest} THEN Null ELSE prev[m]]
      /\ next' = [next EXCEPT ![head] = Null]
      /\ fate' = [fate EXCEPT ![head] = "taken"] /\ Go(g, "idle")
      /\ UNCHANGED <<active, lock, block, use, flushes>>
  BY <1>4 DEF Dequeue, Becomes, bounds
<1>7. 1 \in 1..Len(List) /\ List[1] = head /\ head \in Messages
  BY <1>2, <1>4
<1>8. /\ q \in Seq(Messages) /\ Len(q) = Len(List) - 1
      /\ \A i \in 1..Len(List) - 1 : q[i] = IF i < 1 THEN List[i] ELSE List[i + 1]
      /\ q = <<>> <=> Len(List) = 1
      /\ 1 # Len(List) => LastOf(q) = List[Len(List)]
      /\ Range(q) = Queued \ {List[1]}
  BY <1>0, <1>7, LessFacts
<1>9. q = Tail(List)
  BY <1>2, <1>4, RemoveFirstIsTail
<1> HIDE DEF List
<1>10. Linked(q, rest, next, Null)
  <2>1. Linked(q, next[List[1]], next, Null)
    BY <1>5, <1>7, LinkedRemove
  <2> HIDE DEF q
  <2> QED BY <1>7, <2>1
<1> HIDE DEF q
<1>11. \A i \in 1..Len(q) : i \in 1..Len(List) - 1 /\ i + 1 \in 2..Len(List)
         /\ i + 1 \in 1..Len(List) /\ i + 1 # 1 /\ q[i] = List[i + 1] /\ q[i] # head
  <2> TAKE i \in 1..Len(q)
  <2>1. i \in 1..Len(List) - 1 /\ i + 1 \in 2..Len(List) /\ i + 1 \in 1..Len(List)
        /\ i + 1 # 1 /\ ~(i < 1)
    BY <1>2, <1>8
  <2>2. q[i] = List[i + 1]
    BY <1>8, <2>1
  <2> QED BY <1>2, <1>7, <2>1, <2>2
<1>12. Linked(q, head', next', Null)
  <2>1. DOMAIN next' = DOMAIN next
    BY <1>6
  <2>2. \A i \in 1..Len(q) : next'[q[i]] = next[q[i]]
    BY <1>2, <1>6, <1>11
  <2> HIDE DEF rest
  <2> QED BY <1>6, <1>10, <2>1, <2>2, LinkedElsewhere
<1>13. rest = IF Len(List) = 1 THEN Null ELSE List[2]
  <2>1. next[List[1]] = IF 1 = Len(List) THEN Null ELSE List[1 + 1]
    BY <1>2, <1>7
  <2> QED BY <1>7, <2>1
<1>14. Len(List) # 1 => 2 \in 1..Len(List) /\ List[2] \in Messages
  <2>1. Len(List) # 1 => 2 \in 1..Len(List)
    <3>1. \A n \in Nat : n # 0 /\ n # 1 => 2 \in 1..n
      OBVIOUS
    <3> QED BY <1>2, <1>4, <3>1
  <2> QED BY <1>2, <2>1
<1> HIDE DEF rest
<1>15. Range(q) = Queued'
  <2>1. Queued' = Queued \ {head}
    BY <1>0, <1>6, <1>7, QueuedLess
  <2> HIDE DEF Queued
  <2> QED BY <1>7, <1>8, <2>1
<1>16. ASSUME NEW i \in 2..Len(q) PROVE prev'[q[i]] = q[i - 1]
  <2>1. i \in 1..Len(q) /\ i - 1 \in 1..Len(q) /\ i + 1 # 2 /\ i - 1 + 1 = i /\ i + 1 - 1 = i
    BY <1>2, <1>8
  <2>2. q[i] = List[i + 1] /\ i + 1 \in 2..Len(List) /\ q[i - 1] = List[i] /\ q[i] # head
        /\ i + 1 \in 1..Len(List)
    BY <1>11, <2>1
  <2>3. prev[List[i + 1]] = List[i]
    <3>1. prev[List[i + 1]] = List[i + 1 - 1]
      BY <1>0, <2>2 DEF Shape
    <3> QED BY <2>1, <3>1
  <2>4. q[i] # rest
    <3>1. q[i] \in Messages
      BY <1>2, <2>2
    <3> QED BY <1>2, <1>13, <1>14, <2>1, <2>2, <3>1
  <2>5. prev'[q[i]] = prev[q[i]]
    BY <1>2, <1>6, <2>2, <2>4
  <2> QED BY <2>2, <2>3, <2>5
<1>17. ASSUME NEW x \in Messages, fate'[x] = "unsent" PROVE next'[x] = Null
  <2>1. fate[x] = "unsent"
    BY <1>0, <1>6, <1>7, <1>17 DEF Typed
  <2>2. next[x] = Null
    BY <1>0, <2>1 DEF Shape
  <2> QED BY <1>2, <1>6, <2>2
<1>18. count' = Len(q) /\ tail' = LastOf(q)
  <2>1. CASE Len(List) = 1
    BY <1>3, <1>6, <1>8, <1>13, <2>1 DEF LastOf
  <2>2. CASE Len(List) # 1
    BY <1>2, <1>3, <1>4, <1>6, <1>8, <1>13, <1>14, <2>2
  <2> QED BY <2>1, <2>2
<1>19. Moves(g, "idle") /\ Locks(g, "idle") /\ "idle" \in PlacesOf(g)
  <2>1. "idle" \in Places /\ "idle" \in PlacesOf(g)
    BY <1>0 DEF Places, PlacesOf
  <2> QED BY <1>0, <1>6, <2>1, GoMoves DEF Locks
<1>20. Progress'
  BY <1>0, <1>6, <1>19, NoFlushStep, ThreadsAssumption DEF Threads
<1>21. Typed'
  <2>1. rest \in MaybeMessage
    BY <1>13, <1>14 DEF MaybeMessage
  <2>2. next' \in [Messages -> MaybeMessage] /\ prev' \in [Messages -> MaybeMessage]
    BY <1>0, <1>6 DEF Typed, MaybeMessage
  <2>3. fate' \in [Messages -> Fates]
    BY <1>0, <1>6 DEF Typed, Fates
  <2> QED BY <1>0, <1>6, <1>19, <2>1, <2>2, <2>3 DEF Typed, Moves
<1>22. g \in use.threads \cap Threads /\ use' = use
  BY <1>0, <1>6
<1>23. IInv' /\ List' = q
  <2> HIDE DEF Queued
  <2> QED BY <1>0, <1>22, <1>12, <1>15, <1>16, <1>17, <1>18, <1>19, <1>20, <1>21, ListStep
<1> QED BY <1>4, <1>9, <1>23

LEMMA FlushListStep ==
  ASSUME IInv, NEW f \in Flushers \cap use.threads, FlushList(f)
  PROVE  IInv' /\ List' = <<>>
<1>0. Control /\ Typed /\ InPlace /\ Alone /\ Shape /\ Ends /\ f \in Threads
      /\ f \notin Putters /\ f \notin Getters
  BY Kinds DEF IInv, Control, Threads
<1>1. \A p \in Putters : pc[p] \notin Adding
  <2>1. \A p \in Putters : pc[p] = "idle"
    BY <1>0, OthersIdle
  <2> QED BY <2>1 DEF Adding
<1>2. Len(List) \in Nat /\ DOMAIN next = Messages /\ count = Len(List)
  BY <1>0, <1>1, ListFacts, EndsFacts
<1>3. /\ pc[f] = "idle" /\ lock = Null /\ flushes < MaxFlushes /\ flushes' = flushes + 1
      /\ head' = Null /\ tail' = Null /\ count' = count - Len(List)
      /\ fate' = [m \in Messages |-> IF m \in Range(List) THEN "released" ELSE fate[m]]
      /\ UNCHANGED <<next, prev, active, lock, pc, block, use>>
  BY DEF FlushList
<1>4. Range(List) = Queued
  BY <1>0 DEF Shape
<1>5. <<>> \in Seq(Messages) /\ Len(<<>>) = 0 /\ Range(<<>>) = {}
  <2>1. <<>> \in Seq(Messages) /\ Len(<<>>) = 0
    BY EmptySeq
  <2>2. Range(<<>>) = {<<>>[i] : i \in 1..Len(<<>>)}
    BY <2>1, RangeEquality
  <2> QED BY <2>1, <2>2
<1>6. Linked(<<>>, head', next', Null)
  BY <1>2, <1>3, <1>5 DEF Linked
<1>7. Queued' = {}
  BY <1>3, <1>4 DEF Queued
<1>8. \A m \in Messages : fate'[m] = "unsent" => next'[m] = Null
  <2>1. \A m \in Messages : fate'[m] = "unsent" => fate[m] = "unsent"
    BY <1>3
  <2> QED BY <1>0, <1>3, <2>1 DEF Shape
<1>9. count' = Len(<<>>) /\ tail' = LastOf(<<>>)
  BY <1>2, <1>3, <1>5 DEF LastOf
<1>10. "idle" \in PlacesOf(f) /\ "idle" \notin Flushing /\ f # Null
  BY <1>0, Kinds DEF PlacesOf, Flushing
<1>11. Moves(f, "idle") /\ Locks(f, "idle")
  BY <1>0, <1>3, <1>10 DEF Moves, Locks, Typed
<1>12. Progress'
  <2>1. \A h \in Flushers : h # f => pc'[h] \notin Flushing
    BY <1>0, <1>3, <1>11, OneFlush
  <2> QED BY <1>3, <1>10, <2>1 DEF Progress
<1>13. Typed'
  <2>1. flushes' \in 0..MaxFlushes
    BY <1>0, <1>3, BoundsAssumption DEF Typed
  <2>2. fate' \in [Messages -> Fates]
    BY <1>0, <1>3 DEF Typed, Fates
  <2> QED BY <1>0, <1>3, <2>1, <2>2 DEF Typed, MaybeMessage
<1>14. f \in use.threads \cap Threads /\ use' = use
  BY <1>0, <1>3
<1>15. \A i \in 2..Len(<<>>) : prev'[<<>>[i]] = <<>>[i - 1]
  BY <1>5
<1>16. Range(<<>>) = Queued'
  BY <1>5, <1>7
<1> QED
  <2> HIDE DEF Queued
  <2> QED BY <1>0, <1>6, <1>8, <1>9, <1>10, <1>11, <1>12, <1>13, <1>14, <1>15, <1>16, ListStep

LEMMA FlushRemoveStep ==
  ASSUME IInv, NEW f \in Flushers \cap use.threads, FlushRemove(f)
  PROVE  IInv' /\ \E k \in 1..Len(List) : List' = RemoveAt(List, k)
<1>0. Control /\ Typed /\ InPlace /\ Alone /\ Shape /\ Ends /\ Progress /\ f \in Threads
      /\ f \notin Putters /\ f \notin Getters
  BY Kinds DEF IInv, Control, Threads
<1>1. \A p \in Putters : pc[p] \notin Adding
  <2>1. \A p \in Putters : pc[p] = "idle"
    BY <1>0, OthersIdle
  <2> QED BY <2>1 DEF Adding
<1>2. /\ List \in Seq(Messages) /\ Len(List) \in Nat /\ (List = <<>> <=> Len(List) = 0)
      /\ DOMAIN next = Messages /\ Null \notin Messages
      /\ head = (IF List = <<>> THEN Null ELSE List[1])
      /\ \A i, j \in 1..Len(List) : List[i] = List[j] => i = j
      /\ \A i \in 1..Len(List) : next[List[i]] = IF i = Len(List) THEN Null ELSE List[i + 1]
      /\ \A i \in 1..Len(List) : List[i] \in Messages
  BY <1>0, ListFacts
<1>3. /\ count = Len(List)
      /\ List # <<>> => tail = Last(List) /\ Last(List) = List[Len(List)]
                        /\ Len(List) \in 1..Len(List)
  BY <1>0, <1>1, EndsFacts
<1> DEFINE m == block[f]
<1>4. /\ pc[f] \in Flushing /\ m \in Flushable(pc[f] = "all")
      /\ IF m = head THEN head' = next[m] /\ UNCHANGED <<next, prev>>
                     ELSE Unlink(m) /\ UNCHANGED head
      /\ tail' = IF m # tail THEN tail ELSE IF head' = Null THEN Null ELSE Last(List')
      /\ count' = count - 1 /\ block' = [block EXCEPT ![f] = next[m]]
      /\ fate' = [fate EXCEPT ![m] = "released"]
      /\ UNCHANGED <<active, lock, pc, use, flushes>>
  <2> HIDE DEF List
  <2> QED BY DEF FlushRemove, Flushing, LastIsLeft, After, Becomes, bounds
<1>5. PICK k \in 1..Len(List) + 1 : Flushed(f, k)
  BY <1>0, <1>4 DEF Progress
<1>6. m = (IF k = Len(List) + 1 THEN Null ELSE List[k])
      /\ \A i \in 1..(k - 1) : List[i] \notin Flushable(pc[f] = "all")
  BY <1>5 DEF Flushed
<1>7. m \in Messages
  BY <1>4 DEF Flushable, Messages
<1> DEFINE q == RemoveAt(List, k)
<1>8. k \in 1..Len(List) /\ m = List[k] /\ List # <<>> /\ k \in Nat
  <2> HIDE DEF List, m
  <2> QED BY <1>2, <1>6, <1>7
<1>9. /\ q \in Seq(Messages) /\ Len(q) = Len(List) - 1
      /\ \A i \in 1..Len(List) - 1 : q[i] = IF i < k THEN List[i] ELSE List[i + 1]
      /\ q = <<>> <=> Len(List) = 1
      /\ k # Len(List) => LastOf(q) = List[Len(List)]
      /\ Range(q) = Queued \ {List[k]}
  BY <1>0, <1>8, LessFacts
<1>10. Linked(q, IF k = 1 THEN next[List[k]] ELSE head,
              IF k = 1 THEN next ELSE [next EXCEPT ![List[k - 1]] = next[List[k]]], Null)
  <2>1. Linked(List, head, next, Null)
    BY <1>0 DEF Shape
  <2> HIDE DEF List
  <2> QED BY <1>8, <2>1, LinkedRemove
<1> HIDE DEF List, q, m
<1>11. m = head <=> k = 1
  <2>1. 1 \in 1..Len(List)
    BY <1>2, <1>8
  <2> QED BY <1>2, <1>8, <2>1
<1>12. k # 1 => prev[m] = List[k - 1] /\ k - 1 \in 1..Len(List) /\ k \in 2..Len(List)
  <2>1. ASSUME k # 1 PROVE k \in 2..Len(List) /\ k - 1 \in 1..Len(List)
    BY <1>2, <1>8, <2>1
  <2> QED BY <1>0, <1>8, <2>1 DEF Shape
<1>13. next[m] = IF k = Len(List) THEN Null ELSE List[k + 1]
  BY <1>2, <1>8
<1>14. k # 1 => /\ next' = [next EXCEPT ![List[k - 1]] = next[m]] /\ head' = head
                /\ prev' = IF next[m] = Null THEN prev ELSE [prev EXCEPT ![next[m]] = List[k - 1]]
  BY <1>4, <1>11, <1>12 DEF Unlink
<1>15. k = 1 => head' = next[m] /\ next' = next /\ prev' = prev
  BY <1>4, <1>11
<1>16. Linked(q, head', next', Null)
  <2>1. CASE k = 1
    BY <1>8, <1>10, <1>15, <2>1
  <2>2. CASE k # 1
    BY <1>8, <1>10, <1>14, <2>2
  <2> QED BY <2>1, <2>2
<1>17. DOMAIN next' = Messages
  BY <1>2, <1>14, <1>15
<1>18. List' = q
  BY <1>16, <1>17, NewList
<1>19. Range(q) = Queued'
  <2>1. Queued' = Queued \ {m}
    BY <1>0, <1>4, <1>7, QueuedLess
  <2> HIDE DEF Queued
  <2> QED BY <1>8, <1>9, <2>1
<1>20. ASSUME NEW i \in 2..Len(q) PROVE prev'[q[i]] = q[i - 1]
  <2>0. /\ i \in 1..Len(List) - 1 /\ i - 1 \in 1..Len(List) - 1 /\ i \in Nat
        /\ i \in 2..Len(List) /\ i + 1 \in 2..Len(List) /\ i - 1 + 1 = i /\ i + 1 - 1 = i
        /\ i \in 1..Len(List) /\ i + 1 \in 1..Len(List)
    BY <1>2, <1>9
  <2>1. q[i] = (IF i < k THEN List[i] ELSE List[i + 1])
        /\ q[i - 1] = (IF i - 1 < k THEN List[i - 1] ELSE List[i])
    BY <1>9, <2>0
  <2>2. prev[List[i]] = List[i - 1] /\ prev[List[i + 1]] = List[i]
    <3>1. \A j \in 2..Len(List) : prev[List[j]] = List[j - 1]
      BY <1>0 DEF Shape
    <3>2. prev[List[i]] = List[i - 1] /\ prev[List[i + 1]] = List[i + 1 - 1]
      BY <2>0, <3>1
    <3> QED BY <2>0, <3>2
  <2>3. CASE k = 1
    <3>1. ~(i < k) /\ ~(i - 1 < k)
      BY <2>0, <2>3
    <3> QED BY <1>15, <2>1, <2>2, <2>3, <3>1
  <2>4. CASE k # 1 /\ i = k
    <3>1. ~(i < k) /\ i - 1 < k /\ k # Len(List)
      BY <1>2, <1>8, <2>0, <2>4
    <3>2. next[m] = List[k + 1] /\ List[k + 1] \in Messages /\ next[m] # Null
      BY <1>2, <1>13, <2>0, <2>4, <3>1
    <3>3. prev'[List[k + 1]] = List[k - 1]
      BY <1>0, <1>14, <2>4, <3>2 DEF Typed
    <3> QED BY <2>1, <2>4, <3>1, <3>3
  <2>5. CASE k # 1 /\ i # k
    <3>1. prev'[q[i]] = prev[q[i]]
      <4>1. q[i] # next[m] \/ next[m] = Null
        <5>1. CASE k = Len(List)
          BY <1>13, <5>1
        <5>2. CASE k # Len(List)
          <6>1. k + 1 \in 1..Len(List) /\ next[m] = List[k + 1]
            BY <1>2, <1>8, <1>13, <5>2
          <6>2. (i < k => i # k + 1) /\ i + 1 # k + 1
            BY <1>8, <2>0, <2>5
          <6> QED BY <1>2, <2>0, <2>1, <6>1, <6>2
        <5> QED BY <5>1, <5>2
      <4>2. q[i] \in Messages
        BY <1>2, <2>0, <2>1
      <4> QED BY <1>0, <1>14, <2>5, <4>1, <4>2 DEF Typed
    <3>2. CASE i < k
      <4>1. i - 1 < k
        BY <1>8, <2>0, <3>2
      <4> QED BY <2>1, <2>2, <3>1, <3>2, <4>1
    <3>3. CASE ~(i < k)
      <4>1. ~(i - 1 < k)
        BY <1>8, <2>0, <2>5, <3>3
      <4> QED BY <2>1, <2>2, <3>1, <3>3, <4>1
    <3> QED BY <3>2, <3>3
  <2> QED BY <2>3, <2>4, <2>5
<1>21. ASSUME NEW x \in Messages, fate'[x] = "unsent" PROVE next'[x] = Null
  <2>1. fate[x] = "unsent"
    BY <1>0, <1>4, <1>7, <1>21 DEF Typed
  <2>2. next[x] = Null
    BY <1>0, <2>1 DEF Shape
  <2>3. CASE k = 1
    BY <1>15, <2>2, <2>3
  <2>4. CASE k # 1
    <3>1. fate[List[k - 1]] = "queued"
      BY <1>0, <1>12, <2>4, ListFacts
    <3>2. x # List[k - 1]
      BY <2>1, <3>1
    <3> QED BY <1>2, <1>14, <2>2, <2>4, <3>2
  <2> QED BY <2>3, <2>4
<1>22. tail' = LastOf(q)
  <2>1. q = <<>> <=> head' = Null
    <3>1. head' = IF q = <<>> THEN Null ELSE q[1]
      BY <1>16 DEF Linked
    <3>2. q # <<>> => q[1] \in Messages
      <4>1. q # <<>> => 1 \in 1..Len(q)
        BY <1>9, EmptySeq
      <4> QED BY <1>9, <4>1, ElementOfSeq
    <3> QED BY <1>2, <3>1, <3>2
  <2>2. tail = List[Len(List)] /\ Len(List) \in 1..Len(List)
    BY <1>3, <1>8
  <2>3. CASE k = Len(List)
    <3>1. m = tail
      BY <1>8, <2>2, <2>3
    <3> QED BY <1>4, <1>18, <2>1, <3>1 DEF LastOf
  <2>4. CASE k # Len(List)
    <3>1. m # tail
      BY <1>2, <1>8, <2>2, <2>4
    <3> QED BY <1>4, <1>9, <2>2, <2>4, <3>1
  <2> QED BY <2>3, <2>4
<1>23. count' = Len(q)
  BY <1>3, <1>4, <1>9
<1>24. pc[f] \in PlacesOf(f) /\ lock = f
  BY <1>0, <1>4 DEF PlacesOf, InPlace
<1>25. Moves(f, pc[f]) /\ Locks(f, pc[f])
  BY <1>0, <1>4, <1>24 DEF Moves, Locks, Typed, InPlace
<1>26. Progress'
  <2>1. \A h \in Flushers : h # f => pc'[h] \notin Flushing
    BY <1>0, <1>24, <1>25, OneFlush
  <2>2. block'[f] = next[m] /\ pc'[f] = pc[f]
    BY <1>0, <1>4 DEF Typed
  <2>3. block'[f] = IF k = Len(q) + 1 THEN Null ELSE q[k]
    <3>1. k = Len(q) + 1 <=> k = Len(List)
      BY <1>2, <1>8, <1>9
    <3>2. k # Len(List) => k \in 1..Len(List) - 1 /\ ~(k < k)
      BY <1>2, <1>8
    <3>3. k # Len(List) => q[k] = List[k + 1]
      BY <1>9, <3>2
    <3> QED BY <1>13, <2>2, <3>1, <3>3
  <2>4. \A i \in 1..(k - 1) : q[i] \notin Flushable(pc[f] = "all")
    <3> TAKE i \in 1..(k - 1)
    <3>1. i \in 1..Len(List) - 1 /\ i < k
      BY <1>2, <1>8
    <3>2. q[i] = List[i]
      BY <1>9, <3>1
    <3> QED BY <1>6, <3>2
  <2>5. Flushed(f, k)'
    BY <1>18, <2>2, <2>3, <2>4 DEF Flushed
  <2>6. k \in 1..Len(List') + 1
    BY <1>2, <1>8, <1>9, <1>18
  <2> QED BY <2>1, <2>5, <2>6 DEF Progress
<1>27. Typed'
  <2>1. next[m] \in MaybeMessage
    BY <1>0, <1>7 DEF Typed
  <2>2. head' \in MaybeMessage
    BY <1>0, <1>14, <1>15, <2>1 DEF Typed
  <2>3. k # 1 => List[k - 1] \in Messages
    BY <1>2, <1>12
  <2>4. next' \in [Messages -> MaybeMessage]
    BY <1>0, <1>14, <1>15, <2>1 DEF Typed
  <2>5. prev' \in [Messages -> MaybeMessage]
    BY <1>0, <1>14, <1>15, <2>3 DEF Typed, MaybeMessage
  <2>6. block' \in [Threads -> MaybeMessage]
    BY <1>0, <1>4, <2>1 DEF Typed
  <2>7. fate' \in [Messages -> Fates]
    BY <1>0, <1>4 DEF Typed, Fates
  <2> QED BY <1>0, <1>4, <2>2, <2>4, <2>5, <2>6, <2>7 DEF Typed
<1>28. f \in use.threads \cap Threads /\ use' = use
  BY <1>0, <1>4
<1>29. IInv'
  <2> HIDE DEF Queued
  <2> QED BY <1>0, <1>16, <1>19, <1>20, <1>21, <1>22, <1>23, <1>24, <1>25, <1>26, <1>27, <1>28,
             ListStep
<1> QED BY <1>8, <1>18, <1>29 DEF q
-----------------------------------------------------------------------------
(* The actions of an expedited message, which is put without the lock. *)

\* What they have in common.
LEMMA ExpediteStep ==
  ASSUME Control, NEW p \in Putters \cap use.threads, use.threads \subseteq {p},
         NEW place \in PlacesOf(p), Go(p, place), UNCHANGED <<lock, use, active>>, active, Typed',
         block'[p] \in Messages, place \in Adding => fate'[block'[p]] = "putting"
  PROVE  /\ Control' /\ Progress'
         /\ pc'[p] = place /\ \A x \in Putters : x # p => pc[x] = "idle" /\ pc'[x] = "idle"
<1>0. Typed /\ InPlace /\ Alone /\ p \in Threads /\ p \notin Getters /\ p \notin Flushers
  BY Kinds DEF Control, Threads
<1>1. place \in Places
  BY <1>0 DEF PlacesOf, Places, Adding
<1>2. Moves(p, place)
  BY <1>0, <1>1, GoMoves
<1>3. Locks(p, place)
  BY <1>0 DEF Locks
<1>4. InPlace'
  BY <1>0, <1>2, <1>3, InPlaceStep
<1>5. Progress'
  BY <1>0, <1>2, AloneUnlocked, NoFlushStep
<1>6. ASSUME NEW x \in Putters, x # p PROVE pc[x] = "idle" /\ pc'[x] = "idle"
  <2>1. pc[x] = "idle"
    BY <1>0, <1>6, OthersIdle
  <2>2. pc'[x] = pc[x]
    BY <1>0, <1>6 DEF Go, Typed, Threads
  <2> QED BY <2>1, <2>2
<1>7. pc'[p] = place
  BY <1>2 DEF Moves
<1>8. Alone'
  <2> SUFFICES ASSUME NEW x \in Putters, pc'[x] # "idle"
               PROVE  /\ use'.threads \subseteq {x} /\ active' /\ block'[x] \in Messages
                      /\ pc'[x] \in Adding => fate'[block'[x]] = "putting"
    BY DEF Alone
  <2>1. x = p
    BY <1>6
  <2> QED BY <1>7, <2>1
<1> QED BY <1>4, <1>5, <1>6, <1>7, <1>8 DEF Control

LEMMA BeginExpeditedStep ==
  ASSUME ExpeditedAlone, IInv, NEW p \in Putters \cap use.threads, NEW m \in Messages,
         BeginExpedited(p, m)
  PROVE  IInv' /\ List' = List
<1>0. Control /\ Typed /\ Alone /\ Shape /\ Ends /\ p \in Threads
  BY DEF IInv, Control, Threads
<1>1. /\ pc[p] = "idle" /\ fate[m] = "unsent" /\ active /\ m \in use.expedited
      /\ count' = count + 1 /\ block' = [block EXCEPT ![p] = m]
      /\ fate' = [fate EXCEPT ![m] = "putting"] /\ Go(p, "link")
      /\ UNCHANGED <<head, tail, next, prev, active, lock, use, flushes>>
  BY DEF BeginExpedited, Becomes, bounds
<1>2. use.threads \subseteq {p}
  BY <1>0, <1>1, ExpeditingIsAlone
<1>3. "link" \in PlacesOf(p) /\ "link" \in Adding /\ "link" \in Places
  BY DEF PlacesOf, Adding, Places
<1>4. block'[p] = m /\ fate'[m] = "putting"
  BY <1>0, <1>1 DEF Typed
<1>5. Typed'
  <2>1. pc' \in [Threads -> Places]
    BY <1>0, <1>1, <1>3, GoMoves DEF Moves
  <2>2. block' \in [Threads -> MaybeMessage] /\ fate' \in [Messages -> Fates]
    BY <1>0, <1>1 DEF Typed, MaybeMessage, Fates
  <2> QED BY <1>0, <1>1, <2>1, <2>2 DEF Typed
<1>6. /\ Control' /\ Progress'
      /\ pc'[p] = "link" /\ \A x \in Putters : x # p => pc[x] = "idle" /\ pc'[x] = "idle"
  BY <1>0, <1>1, <1>2, <1>3, <1>4, <1>5, ExpediteStep
<1>7. Shape' /\ List' = List
  <2>1. \A x \in Messages : /\ fate'[x] = "queued" <=> fate[x] = "queued"
                            /\ fate'[x] = "unsent" => fate[x] = "unsent"
    BY <1>0, <1>1 DEF Typed
  <2> QED BY <1>0, <1>1, <2>1, ShapeStays
<1>8. Ends'
  <2>1. \A x \in Putters : pc[x] \notin Adding /\ pc[x] # "head"
    BY <1>1, <1>6 DEF Adding
  <2>2. count = Len(List) /\ tail = LastOf(List)
    BY <1>0, <2>1, PlainNow
  <2>3. SomeAdding'
    BY <1>3, <1>6 DEF SomeAdding
  <2>4. \A x \in Putters : pc'[x] # "head" /\ pc'[x] # "prev"
    BY <1>6
  <2>5. count' = Len(List') + 1
    BY <1>1, <1>7, <2>2
  <2>6. tail' = LastOf(List)'
    BY <1>1, <1>7, <2>2 DEF LastOf
  <2> HIDE DEF List
  <2> QED BY <2>3, <2>4, <2>5, <2>6 DEF Ends
<1> QED BY <1>6, <1>7, <1>8 DEF IInv

\* What is known of a thread that is expediting a message.
LEMMA AddingFacts ==
  ASSUME IInv, NEW p \in Putters \cap use.threads, pc[p] \in Adding
  PROVE  /\ use.threads \subseteq {p} /\ active /\ block[p] \in Messages
         /\ fate[block[p]] = "putting" /\ \A i \in 1..Len(List) : List[i] # block[p]
         /\ count = Len(List) + 1
         /\ \A x \in Putters : x # p => pc[x] = "idle"
         /\ pc[p] # "head" => tail = LastOf(List)
<1>0. Control /\ Typed /\ Alone /\ Shape /\ Ends
  BY DEF IInv, Control
<1>1. pc[p] # "idle"
  BY DEF Adding
<1>2. use.threads \subseteq {p} /\ active /\ block[p] \in Messages /\ fate[block[p]] = "putting"
  BY <1>0, <1>1 DEF Alone
<1>3. \A i \in 1..Len(List) : List[i] # block[p]
  BY <1>0, <1>2, ListFacts
<1>4. \A x \in Putters : x # p => pc[x] = "idle"
  BY <1>0, OthersIdle
<1>5. SomeAdding
  BY DEF SomeAdding
<1> HIDE DEF List
<1>6. count = Len(List) + 1
  BY <1>0, <1>5 DEF Ends
<1>7. pc[p] # "head" => tail = LastOf(List)
  BY <1>0, <1>4 DEF Ends
<1> QED BY <1>2, <1>3, <1>4, <1>6, <1>7

LEMMA LinkNextStep ==
  ASSUME IInv, NEW p \in Putters \cap use.threads, LinkNext(p)
  PROVE  IInv' /\ List' = List
<1> DEFINE b == block[p]
<1>0. Control /\ Typed /\ Alone /\ Shape /\ Ends /\ p \in Threads
  BY DEF IInv, Control, Threads
<1>1. /\ pc[p] = "link" /\ next' = [next EXCEPT ![b] = head] /\ Go(p, "prev")
      /\ UNCHANGED <<head, tail, prev, count, active, lock, block, fate, use, flushes>>
  BY DEF LinkNext, bounds
<1>2. pc[p] \in Adding /\ "prev" \in Adding /\ "prev" \in PlacesOf(p) /\ "prev" \in Places
  BY <1>1 DEF Adding, PlacesOf, Places
<1>3. /\ use.threads \subseteq {p} /\ active /\ b \in Messages
      /\ fate[b] = "putting" /\ \A i \in 1..Len(List) : List[i] # b
      /\ count = Len(List) + 1 /\ tail = LastOf(List)
  BY <1>1, <1>2, AddingFacts
<1>4. Typed'
  <2>1. pc' \in [Threads -> Places]
    BY <1>0, <1>1, <1>2, GoMoves DEF Moves
  <2>2. next' \in [Messages -> MaybeMessage]
    BY <1>0, <1>1 DEF Typed
  <2> QED BY <1>0, <1>1, <2>1, <2>2 DEF Typed
<1>5. /\ Control' /\ Progress'
      /\ pc'[p] = "prev" /\ \A x \in Putters : x # p => pc[x] = "idle" /\ pc'[x] = "idle"
  BY <1>0, <1>1, <1>2, <1>3, <1>4, ExpediteStep
<1>6. DOMAIN next' = Messages /\ DOMAIN next = Messages /\ next'[b] = head
      /\ \A x \in Messages : x # b => next'[x] = next[x]
  BY <1>0, <1>1, <1>3 DEF Typed
<1>7. \A i \in 1..Len(List) : List[i] \in Messages
  BY <1>0, ListFacts
<1> HIDE DEF List, b
<1>8. Linked(List, head', next', Null)
  <2>1. Linked(List, head, next, Null)
    BY <1>0 DEF Shape
  <2>2. \A i \in 1..Len(List) : next'[List[i]] = next[List[i]]
    BY <1>3, <1>6, <1>7
  <2> QED BY <1>1, <1>6, <2>1, <2>2, LinkedElsewhere
<1>9. List' = List
  BY <1>6, <1>8, NewList
<1>10. Shape'
  <2>1. Queued' = Queued
    BY <1>1 DEF Queued
  <2>2. \A x \in Messages : fate'[x] = "unsent" => next'[x] = Null
    BY <1>0, <1>1, <1>3, <1>6 DEF Shape
  <2>3. \A i \in 2..Len(List) : prev'[List[i]] = List[i - 1]
    BY <1>0, <1>1 DEF Shape
  <2> HIDE DEF Queued
  <2>4. Range(List) = Queued
    BY <1>0 DEF Shape
  <2> QED BY <1>8, <1>9, <2>1, <2>2, <2>3, <2>4 DEF Shape
<1>11. Ends'
  <2>1. SomeAdding'
    BY <1>2, <1>5 DEF SomeAdding
  <2>2. \A x \in Putters : pc'[x] # "head" /\ (pc'[x] = "prev" => x = p)
    BY <1>5
  <2>3. count' = Len(List') + 1 /\ tail' = LastOf(List)'
    BY <1>1, <1>3, <1>9 DEF LastOf
  <2>4. next'[block'[p]] = head'
    BY <1>1, <1>6 DEF b
  <2> QED BY <2>1, <2>2, <2>3, <2>4 DEF Ends
<1> QED BY <1>5, <1>9, <1>10, <1>11 DEF IInv

LEMMA LinkPrevStep ==
  ASSUME IInv, NEW p \in Putters \cap use.threads, LinkPrev(p)
  PROVE  IInv' /\ List' = List
<1> DEFINE b == block[p]
<1>0. Control /\ Typed /\ Alone /\ Shape /\ Ends /\ p \in Threads
  BY DEF IInv, Control, Threads
<1>1. /\ pc[p] = "prev" /\ Go(p, "head")
      /\ IF head = Null THEN tail' = b /\ prev' = prev
                        ELSE prev' = [prev EXCEPT ![head] = b] /\ tail' = tail
      /\ UNCHANGED <<head, next, count, active, lock, block, fate, use, flushes>>
  BY DEF LinkPrev, bounds
<1>2. pc[p] \in Adding /\ "head" \in Adding /\ "head" \in PlacesOf(p) /\ "head" \in Places
  BY <1>1 DEF Adding, PlacesOf, Places
<1>3. /\ use.threads \subseteq {p} /\ active /\ b \in Messages
      /\ fate[b] = "putting"
      /\ count = Len(List) + 1 /\ tail = LastOf(List)
  BY <1>1, <1>2, AddingFacts
<1>4. Typed'
  <2>1. pc' \in [Threads -> Places]
    BY <1>0, <1>1, <1>2, GoMoves DEF Moves
  <2>2. prev' \in [Messages -> MaybeMessage]
    BY <1>0, <1>1, <1>3 DEF Typed, MaybeMessage
  <2> QED BY <1>0, <1>1, <2>1, <2>2 DEF Typed
<1>5. /\ Control' /\ Progress'
      /\ pc'[p] = "head" /\ \A x \in Putters : x # p => pc[x] = "idle" /\ pc'[x] = "idle"
  BY <1>0, <1>1, <1>2, <1>3, <1>4, ExpediteStep
<1>6. /\ head = (IF List = <<>> THEN Null ELSE List[1]) /\ (List = <<>> <=> head = Null)
      /\ \A i, j \in 1..Len(List) : List[i] = List[j] => i = j
      /\ \A i \in 1..Len(List) : List[i] \in Messages
      /\ Len(List) \in Nat /\ (List = <<>> <=> Len(List) = 0)
  BY <1>0, ListFacts
<1>7. List' = List
  BY <1>1 DEF List
<1>8. next[b] = head
  BY <1>0, <1>1 DEF Ends
<1> HIDE DEF List, b
<1>9. Shape'
  <2>1. Queued' = Queued
    BY <1>1 DEF Queued
  <2>2. \A x \in Messages : fate'[x] = "unsent" => next'[x] = Null
    BY <1>0, <1>1 DEF Shape
  <2>3. ASSUME NEW i \in 2..Len(List) PROVE prev'[List[i]] = List[i - 1]
    <3>1. prev[List[i]] = List[i - 1]
      BY <1>0 DEF Shape
    <3>2. i \in 1..Len(List) /\ 1 \in 1..Len(List) /\ i # 1
      BY <1>6
    <3>3. List[i] # List[1] /\ List[i] \in Messages /\ List # <<>>
      BY <1>6, <3>2
    <3>4. prev'[List[i]] = prev[List[i]]
      BY <1>0, <1>1, <1>6, <3>3 DEF Typed
    <3> QED BY <3>1, <3>4
  <2> HIDE DEF Queued
  <2>4. Range(List) = Queued /\ Linked(List, head, next, Null)
    BY <1>0 DEF Shape
  <2>5. Linked(List', head', next', Null) /\ Range(List') = Queued'
    BY <1>1, <1>7, <2>1, <2>4
  <2> QED BY <1>7, <2>2, <2>3, <2>5 DEF Shape
<1>10. Ends'
  <2>1. SomeAdding'
    BY <1>2, <1>5 DEF SomeAdding
  <2>2. \A x \in Putters : (pc'[x] = "prev" \/ pc'[x] = "head") => x = p
    BY <1>5
  <2>3. count' = Len(List') + 1
    BY <1>1, <1>3, <1>7
  <2>4. next'[block'[p]] = head'
    BY <1>1, <1>8 DEF b
  <2>5. List' = <<>> => tail' = block'[p]
    BY <1>1, <1>6, <1>7 DEF b
  <2>6. List' # <<>> => tail' = LastOf(List)' /\ prev'[head'] = block'[p]
    <3>1. ASSUME List # <<>> PROVE head \in Messages
      <4>1. 1 \in 1..Len(List)
        BY <1>6, <3>1
      <4> QED BY <1>6, <3>1, <4>1
    <3> QED BY <1>0, <1>1, <1>3, <1>6, <1>7, <3>1 DEF b, LastOf, Typed
  <2>7. ~ \A x \in Putters : pc'[x] # "head"
    BY <1>5
  <2> QED BY <2>1, <2>2, <2>3, <2>4, <2>5, <2>6, <2>7 DEF Ends
<1> QED BY <1>5, <1>7, <1>9, <1>10 DEF IInv

LEMMA LinkHeadStep ==
  ASSUME IInv, NEW p \in Putters \cap use.threads, LinkHead(p)
  PROVE  /\ IInv' /\ List' = <<block[p]>> \o List /\ active
         /\ block[p] \in Messages \ Range(List)
<1> DEFINE b == block[p]
           q == <<b>> \o List
<1>0. Control /\ Typed /\ Alone /\ Shape /\ Ends /\ p \in Threads
  BY DEF IInv, Control, Threads
<1>1. /\ pc[p] = "head" /\ head' = b /\ fate' = [fate EXCEPT ![b] = "queued"] /\ Go(p, "signal")
      /\ UNCHANGED <<tail, next, prev, count, active, lock, block, use, flushes>>
  BY DEF LinkHead, Becomes, bounds
<1>2. pc[p] \in Adding /\ "signal" \notin Adding /\ "signal" \in PlacesOf(p) /\ "signal" \in Places
  BY <1>1 DEF Adding, PlacesOf, Places
<1>3. /\ use.threads \subseteq {p} /\ active /\ b \in Messages
      /\ fate[b] = "putting" /\ \A i \in 1..Len(List) : List[i] # b
      /\ count = Len(List) + 1
  BY <1>1, <1>2, AddingFacts
<1>4. Typed'
  <2>1. pc' \in [Threads -> Places]
    BY <1>0, <1>1, <1>2, GoMoves DEF Moves
  <2>2. head' \in MaybeMessage /\ fate' \in [Messages -> Fates]
    BY <1>0, <1>1, <1>3 DEF Typed, MaybeMessage, Fates
  <2> QED BY <1>0, <1>1, <2>1, <2>2 DEF Typed
<1>5. /\ Control' /\ Progress'
      /\ pc'[p] = "signal" /\ \A x \in Putters : x # p => pc[x] = "idle" /\ pc'[x] = "idle"
  BY <1>0, <1>1, <1>2, <1>3, <1>4, ExpediteStep
<1>6. /\ List \in Seq(Messages) /\ Len(List) \in Nat /\ DOMAIN next = Messages
      /\ Range(List) = {List[i] : i \in 1..Len(List)}
      /\ head = (IF List = <<>> THEN Null ELSE List[1])
  BY <1>0, ListFacts
<1> HIDE DEF List
<1>7. /\ next[b] = head
      /\ List = <<>> => tail = b
      /\ List # <<>> => tail = LastOf(List) /\ prev[head] = b
  BY <1>0, <1>1 DEF Ends
<1>8. Linked(q, head', next', Null)
  <2>1. Linked(List, head, next, Null)
    BY <1>0 DEF Shape
  <2>2. Linked(q, b, next, Null)
    BY <1>3, <1>6, <1>7, <2>1, LinkedPrepend
  <2> HIDE DEF q, b
  <2> QED BY <1>1, <2>2
<1>9. /\ Len(q) = Len(List) + 1 /\ q[1] = b
      /\ \A i \in 2..Len(List) + 1 : q[i] = List[i - 1]
      /\ LastOf(q) = IF List = <<>> THEN b ELSE Last(List)
  BY <1>3, <1>6, PrependFacts
<1>10. Range(q) = Queued'
  <2>1. Range(q) = Range(List) \cup {b}
    BY <1>3, <1>6, RangePrepend
  <2>2. Queued' = Queued \cup {b}
    BY <1>0, <1>1, <1>3, QueuedMore
  <2>3. Range(List) = Queued
    BY <1>0 DEF Shape
  <2> HIDE DEF q, Queued, b
  <2> QED BY <2>1, <2>2, <2>3
<1> HIDE DEF q, b
<1>11. List' = q
  BY <1>1, <1>6, <1>8, NewList
<1>12. ASSUME NEW i \in 2..Len(q) PROVE prev'[q[i]] = q[i - 1]
  <2>1. i \in 2..Len(List) + 1 /\ i - 1 \in 1..Len(List) /\ q[i] = List[i - 1] /\ List # <<>>
    <3>1. i \in 2..Len(List) + 1 /\ i - 1 \in 1..Len(List)
      BY <1>6, <1>9
    <3>2. List # <<>>
      BY <3>1, EmptySeq
    <3> QED BY <1>9, <3>1, <3>2
  <2>2. CASE i = 2
    <3>1. q[i] = head /\ i - 1 = 1
      BY <1>6, <2>1, <2>2
    <3> QED BY <1>1, <1>7, <1>9, <2>1, <3>1
  <2>3. CASE i # 2
    <3>1. i - 1 \in 2..Len(List) /\ i - 1 \in 2..Len(List) + 1
      BY <1>6, <2>1, <2>3
    <3>2. prev[List[i - 1]] = List[i - 1 - 1] /\ q[i - 1] = List[i - 1 - 1]
      BY <1>0, <1>9, <3>1 DEF Shape
    <3> QED BY <1>1, <2>1, <3>2
  <2> QED BY <2>2, <2>3
<1>13. Shape'
  <2>1. \A x \in Messages : fate'[x] = "unsent" => next'[x] = Null
    <3>1. \A x \in Messages : fate'[x] = "unsent" => fate[x] = "unsent"
      BY <1>0, <1>1, <1>3 DEF Typed
    <3> QED BY <1>0, <1>1, <3>1 DEF Shape
  <2> HIDE DEF Queued
  <2> QED BY <1>8, <1>10, <1>11, <1>12, <2>1 DEF Shape
<1>14. Ends'
  <2>1. \A x \in Putters : pc'[x] \notin Adding
    BY <1>2, <1>5 DEF Adding
  <2>2. count' = Len(List') /\ count' \in Nat
    BY <1>1, <1>3, <1>6, <1>9, <1>11
  <2>3. tail' = LastOf(q)
    BY <1>1, <1>7, <1>9 DEF LastOf
  <2>4. tail' = LastOf(List)'
    BY <1>11, <2>3 DEF LastOf
  <2> QED BY <2>1, <2>2, <2>4, PlainThen
<1>15. b \in Messages \ Range(List)
  BY <1>3, <1>6
<1> QED BY <1>3, <1>5, <1>11, <1>13, <1>14, <1>15 DEF IInv, q, b
-----------------------------------------------------------------------------
(* The invariant holds, and what follows from it. *)

LEMMA InitInv ==
  Init => IInv
<1> SUFFICES ASSUME Init PROVE IInv
  OBVIOUS
<1>1. /\ head = Null /\ tail = Null /\ count = 0
      /\ next = [m \in Messages |-> Null] /\ prev = [m \in Messages |-> Null]
      /\ active = TRUE /\ lock = Null /\ pc = [t \in Threads |-> "idle"]
      /\ block = [t \in Threads |-> Null] /\ fate = [m \in Messages |-> "unsent"]
      /\ use \in Uses /\ flushes = 0
  BY DEF Init
<1>2. Typed
  BY <1>1, BoundsAssumption DEF Typed, MaybeMessage, Places, Fates
<1>3. \A t \in Threads : pc[t] = "idle" /\ lock # t
  BY <1>1, Kinds
<1>4. Putters \subseteq Threads /\ Getters \subseteq Threads /\ Flushers \subseteq Threads
  BY DEF Threads
<1>5. InPlace
  BY <1>3, <1>4 DEF InPlace, Flushing
<1>6. Alone /\ Progress
  BY <1>3, <1>4 DEF Alone, Progress, Flushing
<1>7. <<>> \in Seq(Messages) /\ Len(<<>>) = 0 /\ Range(<<>>) = {}
  <2>1. <<>> \in Seq(Messages) /\ Len(<<>>) = 0
    BY EmptySeq
  <2>2. Range(<<>>) = {<<>>[i] : i \in 1..Len(<<>>)}
    BY <2>1, RangeEquality
  <2> QED BY <2>1, <2>2
<1>8. DOMAIN next = Messages
  BY <1>1
<1>9. Linked(<<>>, head, next, Null)
  BY <1>1, <1>7, <1>8 DEF Linked
<1>10. List = <<>>
  BY <1>8, <1>9, ListIs DEF List
<1>11. Queued = {}
  BY <1>1 DEF Queued
<1> HIDE DEF List, Queued
<1>12. Shape
  BY <1>1, <1>7, <1>9, <1>10, <1>11 DEF Shape
<1>13. Ends
  <2>1. \A p \in Putters : pc[p] = "idle"
    BY <1>3, <1>4
  <2>2. ~SomeAdding
    BY <2>1 DEF SomeAdding, Adding
  <2> QED BY <1>1, <1>7, <1>10, <2>1, <2>2 DEF Ends, LastOf
<1> QED BY <1>2, <1>5, <1>6, <1>12, <1>13 DEF IInv, Control

LEMMA PutStep ==
  ASSUME ExpeditedAlone, IInv, NEW p \in Putters \cap use.threads, Put(p)
  PROVE  IInv'
<1>1. CASE \E m \in Messages : Refuse(p, m)
  BY <1>1, RefuseStep
<1>2. CASE \E m \in Messages : PutTail(p, m)
  BY <1>2, PutTailStep
<1>3. CASE \E m \in Messages : PutHead(p, m)
  BY <1>3, PutHeadStep
<1>4. CASE \E m \in Messages : BeginExpedited(p, m)
  BY <1>4, BeginExpeditedStep
<1>5. CASE LinkNext(p)
  BY <1>5, LinkNextStep
<1>6. CASE LinkPrev(p)
  BY <1>6, LinkPrevStep
<1>7. CASE LinkHead(p)
  BY <1>7, LinkHeadStep
<1>8. CASE Signal(p)
  BY <1>8, SignalStep
<1> QED BY <1>1, <1>2, <1>3, <1>4, <1>5, <1>6, <1>7, <1>8 DEF Put

LEMMA GetStep ==
  ASSUME IInv, NEW g \in Getters \cap use.threads, Get(g)
  PROVE  IInv'
BY DequeueStep, LeaveStep, FindEmptyStep, SleepStep DEF Get

LEMMA FlushStep ==
  ASSUME IInv, NEW f \in Flushers \cap use.threads, Flush(f)
  PROVE  IInv'
BY FlushBeginStep, FlushSkipStep, FlushRemoveStep, FlushEndStep, FlushListStep, WakeStep,
   ActivateStep DEF Flush

\* A step that changes nothing.
LEMMA StutterStep ==
  ASSUME IInv, UNCHANGED vars
  PROVE  IInv' /\ List' = List
<1>1. UNCHANGED <<head, tail, next, prev, count, active, lock, pc, block, fate, use, flushes>>
  BY DEF vars, list, bounds
<1>2. Control'
  BY <1>1 DEF IInv, Control, Typed, InPlace, Alone
<1>3. Shape' /\ List' = List
  BY <1>1, ShapeStays DEF IInv
<1>4. Ends' /\ Progress'
  <2>1. SomeAdding' = SomeAdding /\ LastOf(List)' = LastOf(List)
    BY <1>1, <1>3 DEF SomeAdding, LastOf
  <2>2. \A f, k : Flushed(f, k)' = Flushed(f, k)
    BY <1>1, <1>3 DEF Flushed
  <2> HIDE DEF List
  <2> QED BY <1>1, <1>3, <2>1, <2>2 DEF IInv, Ends, Progress
<1> QED BY <1>2, <1>3, <1>4 DEF IInv

LEMMA NextInv ==
  ASSUME ExpeditedAlone, IInv, [Next]_vars
  PROVE  IInv'
<1>1. CASE \E p \in Putters \cap use.threads : Put(p)
  BY <1>1, PutStep
<1>2. CASE \E g \in Getters \cap use.threads : Get(g)
  BY <1>2, GetStep
<1>3. CASE \E f \in Flushers \cap use.threads : Flush(f)
  BY <1>3, FlushStep
<1>4. CASE UNCHANGED vars
  BY <1>4, StutterStep
<1> QED BY <1>1, <1>2, <1>3, <1>4 DEF Next

\* What the list is like, and how far a thread has got in changing it, whenever a
\* thread may look at it.
THEOREM ListInvariant ==
  ASSUME ExpeditedAlone
  PROVE  Spec => []IInv
<1>1. IInv /\ [Next]_vars => IInv'
  BY NextInv
<1> QED BY <1>1, InitInv, PTL DEF Spec
-----------------------------------------------------------------------------
(* What the invariant says of the properties that the runs check. *)

\* The messages of the list are as many as are queued.
LEMMA ListLength ==
  ASSUME IInv
  PROVE  /\ Len(List) = Cardinality(Queued) /\ Len(List) \in Nat
         /\ Len(List) <= Cardinality(Messages) /\ Cardinality(Messages) \in Nat
         /\ IsFiniteSet(Queued)
<1>1. /\ List \in Seq(Messages) /\ \A i, j \in 1..Len(List) : List[i] = List[j] => i = j
      /\ Range(List) = Queued
  BY ListFacts DEF IInv, Control, Shape
<1> HIDE DEF List, Queued
<1>2. /\ IsFiniteSet(Range(List)) /\ Len(List) = Cardinality(Range(List))
      /\ Len(List) <= Cardinality(Messages) /\ Len(List) \in Nat /\ Cardinality(Messages) \in Nat
  BY <1>1, LengthIsCardinality, MessagesAssumption
<1> QED BY <1>1, <1>2

\* A message that is being expedited is counted, though it is not in the list yet.
LEMMA CountIsBounded ==
  ASSUME IInv
  PROVE  count \in 0..Cardinality(Messages)
<1>1. count = Len(List) + IF SomeAdding THEN 1 ELSE 0
  BY DEF IInv, Ends
<1>2. /\ Len(List) = Cardinality(Queued) /\ Len(List) \in Nat
      /\ Len(List) <= Cardinality(Messages) /\ Cardinality(Messages) \in Nat
      /\ IsFiniteSet(Queued)
  BY ListLength
<1> HIDE DEF List
<1>3. CASE ~SomeAdding
  BY <1>1, <1>2, <1>3
<1>4. CASE SomeAdding
  <2>1. PICK p \in Putters : pc[p] \in Adding
    BY <1>4 DEF SomeAdding
  <2>2. p \in use.threads
    <3>1. pc[p] # "idle" /\ p \in Threads
      BY <2>1 DEF Adding, Threads
    <3> QED BY <3>1 DEF IInv, Control, InPlace
  <2>3. block[p] \in Messages /\ fate[block[p]] = "putting"
    BY <2>1, <2>2, AddingFacts
  <2> DEFINE b == block[p]
             More == Queued \cup {b}
  <2>4. b \notin Queued /\ More \subseteq Messages
    BY <2>3 DEF Queued
  <2> HIDE DEF b, Queued
  <2>5. Cardinality(More) = Cardinality(Queued) + 1 /\ IsFiniteSet(More)
    BY <1>2, <2>4, FS_AddElement
  <2>6. Cardinality(More) <= Cardinality(Messages)
    <3> HIDE DEF More
    <3> QED BY <2>4, FS_Subset, MessagesAssumption
  <2>7. count = Cardinality(More)
    <3> HIDE DEF More
    <3> QED BY <1>1, <1>2, <1>4, <2>5
  <2> HIDE DEF More
  <2> QED BY <1>2, <2>5, <2>6, <2>7
<1> QED BY <1>3, <1>4

\* The tail is a message, or there is none.
LEMMA TailIsAMessage ==
  ASSUME IInv
  PROVE  tail \in MaybeMessage
<1>1. Typed /\ Shape /\ Ends /\ Alone /\ InPlace
  BY DEF IInv, Control
<1>2. /\ Len(List) \in Nat /\ (List = <<>> <=> Len(List) = 0)
      /\ \A i \in 1..Len(List) : List[i] \in Messages
  BY <1>1, ListFacts
<1> HIDE DEF List
<1>3. LastOf(List) \in MaybeMessage
  <2>1. CASE List = <<>>
    BY <2>1 DEF LastOf, MaybeMessage
  <2>2. CASE List # <<>>
    <3>1. Len(List) \in 1..Len(List)
      BY <1>2, <2>2
    <3> QED BY <1>2, <2>2, <3>1 DEF LastOf, Last, MaybeMessage
  <2> QED BY <2>1, <2>2
<1>4. CASE \A p \in Putters : pc[p] # "head"
  BY <1>1, <1>3, <1>4 DEF Ends
<1>5. CASE \E p \in Putters : pc[p] = "head"
  <2>1. PICK p \in Putters : pc[p] = "head"
    BY <1>5
  <2>2. block[p] \in MaybeMessage
    BY <1>1, <2>1 DEF Alone, MaybeMessage
  <2>3. tail = block[p] \/ tail = LastOf(List)
    BY <1>1, <2>1 DEF Ends
  <2> QED BY <1>3, <2>2, <2>3
<1> QED BY <1>4, <1>5

\* Type correctness: the links lead from messages to messages, and the count never
\* exceeds the number of messages that there are.
THEOREM TypeCorrect ==
  ASSUME ExpeditedAlone
  PROVE  Spec => []TypeOK
<1>1. IInv => TypeOK
  <2> SUFFICES ASSUME IInv PROVE TypeOK
    OBVIOUS
  <2>1. Typed
    BY DEF IInv, Control
  <2>2. count \in 0..Cardinality(Messages) /\ tail \in MaybeMessage
    BY CountIsBounded, TailIsAMessage
  <2> QED BY <2>1, <2>2 DEF Typed, TypeOK
<1> QED BY <1>1, ListInvariant, PTL

\* Whoever takes the lock of a queue finds a list whose links in both directions, ends,
\* count and content agree.
THEOREM QueueIsWellFormed ==
  ASSUME ExpeditedAlone
  PROVE  Spec => []WellFormed
<1>1. IInv => WellFormed
  <2> SUFFICES ASSUME IInv, ~Putting PROVE WellFormed
    BY DEF WellFormed
  <2>1. Typed /\ Shape /\ Ends
    BY DEF IInv, Control
  <2>2. \A p \in Putters : pc[p] \notin Adding
    BY DEF Putting, Adding
  <2>3. count = Len(List) /\ tail = LastOf(List)
    BY <2>1, <2>2, PlainNow
  <2>4. Range(List) = Queued /\ \A i \in 2..Len(List) : prev[List[i]] = List[i - 1]
    BY <2>1 DEF Shape
  <2>5. Len(List) = Cardinality(Queued)
    BY ListLength
  <2> HIDE DEF List, Queued
  <2> QED BY <2>3, <2>4, <2>5 DEF WellFormed, LastOf
<1> QED BY <1>1, ListInvariant, PTL

\* The prev() that flush() reads, to unlink a message that is not the first one, is a
\* message that it has passed and left in the list, never one that it has released.
THEOREM FlushLinksAreLive ==
  ASSUME ExpeditedAlone
  PROVE  Spec => []FlushFollowsLiveLinks
<1>1. IInv => FlushFollowsLiveLinks
  <2> SUFFICES ASSUME IInv, NEW f \in Flushers, pc[f] \in {"data", "all"},
                      block[f] \in Messages \ {head}
               PROVE  fate[prev[block[f]]] = "queued"
    BY DEF FlushFollowsLiveLinks
  <2>1. Typed /\ Shape /\ Progress /\ pc[f] \in Flushing
    BY DEF IInv, Control, Flushing
  <2>2. PICK k \in 1..Len(List) + 1 : Flushed(f, k)
    BY <2>1 DEF Progress
  <2>3. block[f] = IF k = Len(List) + 1 THEN Null ELSE List[k]
    BY <2>2 DEF Flushed
  <2>4. /\ Len(List) \in Nat /\ Null \notin Messages /\ (List = <<>> <=> Len(List) = 0)
        /\ head = (IF List = <<>> THEN Null ELSE List[1])
        /\ \A i \in 1..Len(List) : fate[List[i]] = "queued"
        /\ \A i \in 2..Len(List) : prev[List[i]] = List[i - 1]
    BY <2>1, ListFacts DEF Shape
  <2> HIDE DEF List
  <2>5. k # Len(List) + 1 /\ k \in 1..Len(List) /\ block[f] = List[k]
    BY <2>3, <2>4
  <2>6. k # 1
    BY <2>4, <2>5
  <2>7. k \in 2..Len(List) /\ k - 1 \in 1..Len(List)
    BY <2>4, <2>5, <2>6
  <2> QED BY <2>4, <2>5, <2>7
<1> QED BY <1>1, ListInvariant, PTL

\* A step of another thread does not move a thread that flushes.
LEMMA FlusherStays ==
  ASSUME IInv, [Next]_vars, NEW f \in Flushers, pc[f] \in Flushing, pc'[f] # pc[f]
  PROVE  FlushEnd(f)
<1>0. pc \in [Threads -> Places] /\ f \in Threads /\ pc[f] # "idle" /\ f \notin Getters
      /\ f \notin Putters /\ Asleep \subseteq Getters
  BY Kinds DEF IInv, Control, Typed, Threads, Flushing, Asleep
<1>1. ASSUME NEW p \in Putters, Put(p) PROVE FALSE
  <2>1. \A place : Go(p, place) => pc'[f] = pc[f]
    BY <1>0, <1>1 DEF Go
  <2>2. \A place : SignalOne(p, place) => pc'[f] = pc[f]
    BY <1>0, <1>1, <2>1 DEF SignalOne
  <2>3. pc' = pc \/ (\E place : Go(p, place)) \/ \E place : SignalOne(p, place)
    BY <1>1 DEF Put, Refuse, PutTail, PutHead, BeginExpedited, LinkNext, LinkPrev, LinkHead,
                Signal
  <2> QED BY <2>1, <2>2, <2>3
<1>2. ASSUME NEW g \in Getters, Get(g) PROVE FALSE
  <2>1. \E place : Go(g, place)
    BY <1>2 DEF Get, Dequeue, Leave, FindEmpty, Sleep
  <2> QED BY <1>0, <1>2, <2>1 DEF Go
<1>3. ASSUME NEW h \in Flushers, Flush(h) PROVE FlushEnd(f)
  <2>1. h \in Threads
    BY DEF Threads
  <2>2. CASE \E s \in BOOLEAN : FlushBegin(h, s)
    BY <1>0, <2>2 DEF FlushBegin, Go
  <2>3. CASE FlushSkip(h) \/ FlushRemove(h) \/ FlushList(h)
    BY <2>3 DEF FlushSkip, FlushRemove, FlushList
  <2>4. CASE FlushEnd(h)
    BY <1>0, <2>4 DEF FlushEnd, Go
  <2>5. CASE Deactivate(h) \/ SignalAll(h)
    BY <1>0, <2>5 DEF Deactivate, SignalAll, WakeAll
  <2>6. CASE Activate(h)
    BY <1>0, <2>6 DEF Activate
  <2> QED BY <1>3, <2>2, <2>3, <2>4, <2>5, <2>6 DEF Flush
<1>4. CASE UNCHANGED vars
  BY <1>4 DEF vars
<1> QED BY <1>1, <1>2, <1>3, <1>4 DEF Next

\* When flush() returns, none of the messages that it is to remove is in the queue.
THEOREM FlushRemovesAll ==
  ASSUME ExpeditedAlone
  PROVE  Spec => FlushIsComplete
<1> DEFINE Complete == \A f \in Flushers : pc[f] \in {"data", "all"} /\ pc'[f] = "idle" =>
                         Range(List) \cap Flushable(pc[f] = "all") = {}
<1>1. IInv /\ [Next]_vars => [Complete]_vars
  <2> SUFFICES ASSUME IInv, [Next]_vars, NEW f \in Flushers,
                      pc[f] \in {"data", "all"}, pc'[f] = "idle"
               PROVE  Range(List) \cap Flushable(pc[f] = "all") = {}
    OBVIOUS
  <2>1. Typed /\ Shape /\ Progress /\ pc[f] \in Flushing /\ pc'[f] # pc[f]
    BY DEF IInv, Control, Flushing
  <2>2. block[f] = Null
    BY <2>1, FlusherStays DEF FlushEnd
  <2>3. PICK k \in 1..Len(List) + 1 : Flushed(f, k)
    BY <2>1 DEF Progress
  <2>4. block[f] = (IF k = Len(List) + 1 THEN Null ELSE List[k])
        /\ \A i \in 1..(k - 1) : List[i] \notin Flushable(pc[f] = "all")
    BY <2>3 DEF Flushed
  <2>5. /\ Len(List) \in Nat /\ Null \notin Messages
        /\ \A i \in 1..Len(List) : List[i] \in Messages
        /\ Range(List) = {List[i] : i \in 1..Len(List)}
    BY <2>1, ListFacts
  <2> HIDE DEF List
  <2>6. k = Len(List) + 1 /\ k - 1 = Len(List)
    BY <2>2, <2>4, <2>5
  <2>7. \A i \in 1..Len(List) : List[i] \notin Flushable(pc[f] = "all")
    BY <2>4, <2>6
  <2> QED BY <2>5, <2>7
<1> QED BY <1>1, ListInvariant, PTL DEF Spec, FlushIsComplete
-----------------------------------------------------------------------------
(* The refinement: every step of the queue is one of the buffer, or leaves *)
(* it as it is.                                                            *)

LEMMA BufferInit ==
  ASSUME Init
  PROVE  Buffer!Init
<1>1. Typed /\ Shape /\ head = Null
  BY InitInv DEF IInv, Control, Init
<1>2. List = <<>>
  BY <1>1, ListFacts
<1>3. active = TRUE
  BY DEF Init
<1> QED BY <1>2, <1>3 DEF Buffer!Init

\* A message joins the buffer at either end.
LEMMA BufferAdd ==
  ASSUME active, active' = active, NEW m \in Messages, m \notin Range(List),
         List' \in {Append(List, m), <<m>> \o List}
  PROVE  Buffer!Next
<1>1. Buffer!Add(m)
  <2> HIDE DEF List
  <2> QED BY DEF Buffer!Add, Range, Buffer!Range
<1> QED BY <1>1 DEF Buffer!Next

LEMMA BufferPut ==
  ASSUME ExpeditedAlone, IInv, NEW p \in Putters \cap use.threads, Put(p)
  PROVE  Buffer!Next \/ UNCHANGED Buffer!vars
<1>1. CASE \E m \in Messages : PutTail(p, m)
  <2>1. PICK m \in Messages : PutTail(p, m)
    BY <1>1
  <2>2. List' = Append(List, m) /\ m \notin Range(List) /\ active /\ active' = active
    BY <2>1, PutTailStep DEF PutTail
  <2> HIDE DEF List
  <2> QED BY <2>2, BufferAdd
<1>2. CASE \E m \in Messages : PutHead(p, m)
  <2>1. PICK m \in Messages : PutHead(p, m)
    BY <1>2
  <2>2. List' = <<m>> \o List /\ m \notin Range(List) /\ active /\ active' = active
    BY <2>1, PutHeadStep DEF PutHead
  <2> HIDE DEF List
  <2> QED BY <2>2, BufferAdd
<1>3. CASE LinkHead(p)
  <2>1. List' = <<block[p]>> \o List /\ active /\ block[p] \in Messages \ Range(List)
    BY <1>3, LinkHeadStep
  <2>2. active' = active
    BY <1>3 DEF LinkHead
  <2> HIDE DEF List
  <2> QED BY <2>1, <2>2, BufferAdd
<1>4. CASE \/ \E m \in Messages : Refuse(p, m) \/ BeginExpedited(p, m)
           \/ LinkNext(p) \/ LinkPrev(p) \/ Signal(p)
  <2>1. List' = List
    BY <1>4, RefuseStep, BeginExpeditedStep, LinkNextStep, LinkPrevStep, SignalStep
  <2>2. active' = active
    BY <1>4 DEF Refuse, BeginExpedited, LinkNext, LinkPrev, Signal
  <2> HIDE DEF List
  <2> QED BY <2>1, <2>2 DEF Buffer!vars
<1> QED BY <1>1, <1>2, <1>3, <1>4 DEF Put

LEMMA BufferGet ==
  ASSUME IInv, NEW g \in Getters \cap use.threads, Get(g)
  PROVE  Buffer!Next \/ UNCHANGED Buffer!vars
<1>1. CASE Dequeue(g)
  <2>1. List # <<>> /\ List' = Tail(List)
    BY <1>1, DequeueStep
  <2>2. active /\ active' = active
    BY <1>1 DEF Dequeue
  <2> HIDE DEF List
  <2> QED BY <2>1, <2>2 DEF Buffer!Take, Buffer!Next
<1>2. CASE Leave(g) \/ FindEmpty(g) \/ Sleep(g)
  <2>1. List' = List
    BY <1>2, LeaveStep, FindEmptyStep, SleepStep
  <2>2. active' = active
    BY <1>2 DEF Leave, FindEmpty, Sleep
  <2> HIDE DEF List
  <2> QED BY <2>1, <2>2 DEF Buffer!vars
<1> QED BY <1>1, <1>2 DEF Get

LEMMA BufferFlush ==
  ASSUME IInv, NEW f \in Flushers \cap use.threads, Flush(f)
  PROVE  Buffer!Next \/ UNCHANGED Buffer!vars
<1>1. CASE FlushRemove(f)
  <2>1. PICK k \in 1..Len(List) : List' = RemoveAt(List, k)
    BY <1>1, FlushRemoveStep
  <2>2. active' = active
    BY <1>1 DEF FlushRemove
  <2>3. k \in DOMAIN List
    <3>1. List \in Seq(Messages)
      BY ListFacts DEF IInv, Control
    <3> HIDE DEF List
    <3> QED BY <3>1, LenProperties
  <2> HIDE DEF List
  <2>4. Buffer!Discard
    BY <2>1, <2>2, <2>3 DEF Buffer!Discard, RemoveAt, Buffer!RemoveAt
  <2> QED BY <2>4 DEF Buffer!Next
<1>2. CASE FlushList(f)
  <2>1. List' = <<>>
    BY <1>2, FlushListStep
  <2>2. active' = active
    BY <1>2 DEF FlushList
  <2> HIDE DEF List
  <2> QED BY <2>1, <2>2 DEF Buffer!Clear, Buffer!Next
<1>3. CASE Deactivate(f) \/ Activate(f)
  <2>1. List' = List
    BY <1>3, WakeStep, ActivateStep
  <2>2. active \in BOOLEAN /\ active' \in BOOLEAN
    BY <1>3 DEF IInv, Control, Typed, Deactivate, Activate
  <2>3. active' = active \/ active' = ~active
    BY <2>2
  <2> HIDE DEF List
  <2> QED BY <2>1, <2>3 DEF Buffer!Toggle, Buffer!Next, Buffer!vars
<1>4. CASE \/ \E s \in BOOLEAN : FlushBegin(f, s)
           \/ FlushSkip(f) \/ FlushEnd(f) \/ SignalAll(f)
  <2>1. List' = List
    BY <1>4, FlushBeginStep, FlushSkipStep, FlushEndStep, WakeStep
  <2>2. active' = active
    BY <1>4 DEF FlushBegin, FlushSkip, FlushEnd, SignalAll
  <2> HIDE DEF List
  <2> QED BY <2>1, <2>2 DEF Buffer!vars
<1> QED BY <1>1, <1>2, <1>3, <1>4 DEF Flush

LEMMA BufferStep ==
  ASSUME ExpeditedAlone, IInv, [Next]_vars
  PROVE  [Buffer!Next]_(Buffer!vars)
<1>1. CASE \E p \in Putters \cap use.threads : Put(p)
  BY <1>1, BufferPut
<1>2. CASE \E g \in Getters \cap use.threads : Get(g)
  BY <1>2, BufferGet
<1>3. CASE \E f \in Flushers \cap use.threads : Flush(f)
  BY <1>3, BufferFlush
<1>4. CASE UNCHANGED vars
  <2>1. List' = List
    BY <1>4, StutterStep
  <2>2. active' = active
    BY <1>4 DEF vars
  <2> HIDE DEF List
  <2> QED BY <2>1, <2>2 DEF Buffer!vars
<1> QED BY <1>1, <1>2, <1>3, <1>4 DEF Next

\* Whatever the threads do, in whatever order their steps come, the linked list is a
\* sequence of messages that is put to at either end and taken from at its head.
THEOREM QueueImplementsBuffer ==
  ASSUME ExpeditedAlone
  PROVE  Spec => ImplementsBuffer
<1>1. Init => Buffer!Init
  BY BufferInit
<1>2. IInv /\ [Next]_vars => [Buffer!Next]_(Buffer!vars)
  BY BufferStep
<1> QED BY <1>1, <1>2, ListInvariant, PTL DEF Spec, ImplementsBuffer, Buffer!Spec
=============================================================================
