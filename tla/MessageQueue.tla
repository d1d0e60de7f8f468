---------------------------- MODULE MessageQueue ----------------------------
(***************************************************************************)
(* The queue of a task, Stream_MessageQueue_T: a doubly linked list of     *)
(* message blocks with a count, a lock and a condition variable.  Putters  *)
(* enqueue, Getters dequeue in a loop and sleep while the list is empty,   *)
(* Flushers flush, deactivate and activate it.                             *)
(*                                                                         *)
(* What is done under the lock is one step, but for the loop of flush(),   *)
(* which is one step per message, and the moment between finding the list  *)
(* empty and going to sleep.  The steps of enqueue_head_i() are apart,     *)
(* because a task calls it for an expedited session message without the    *)
(* lock.                                                                   *)
(***************************************************************************)
EXTENDS LinkedLists

CONSTANTS Putters, Getters, Flushers,  \* threads
          Data, Session,  \* messages, by type
          Others,         \* control messages and MB_STOP
          Urgent,         \* those that are enqueued at the head, under the lock
          Uses,           \* how the queue may be used
          Null,           \* no message, no thread
          MaxFlushes      \* bound: operations of the Flushers

Messages == Data \cup Session \cup Others
Threads == Putters \cup Getters \cup Flushers

\* The threads that there are, and the messages that are enqueued at the head without
\* the lock.
Use == [threads : SUBSET Threads, expedited : SUBSET (Session \ Urgent)]

ASSUME ThreadsAssumption ==
  /\ Putters \cap (Getters \cup Flushers) = {} /\ Getters \cap Flushers = {}
  /\ Null \notin Threads
ASSUME MessagesAssumption ==
  /\ IsFiniteSet(Messages) /\ Null \notin Messages
  /\ Data \cap Session = {} /\ Others \cap (Data \cup Session) = {}
  /\ Urgent \subseteq Messages
ASSUME UsesAssumption == Uses \subseteq Use
ASSUME BoundsAssumption == MaxFlushes \in Nat

VARIABLES
  head, tail, next, prev,  \* head_, tail_, and the links of each message
  count,                   \* cur_count_
  active,                  \* is the queue activated ?
  lock,                    \* lock_: owner
  pc,                      \* where each thread is
  block,                   \* the message that each thread works on
  fate,                    \* what became of each message
  use,                     \* one of Uses
  flushes                  \* bound: operations of the Flushers so far

list == <<head, tail, next, prev, count>>
bounds == <<use, flushes>>
vars == <<list, active, lock, pc, block, fate, bounds>>

Fates == {"unsent", "putting", "queued", "refused", "taken", "released"}
\* "crashed" is not a place that a thread should ever be in.
Places == {"idle", "link", "prev", "head", "signal", "empty", "asleep", "woken", "left",
           "data", "all"}

Empty == tail = Null  \* is_empty_i()
Go(t, place) == pc' = [pc EXCEPT ![t] = place]
Becomes(m, f) == fate' = [fate EXCEPT ![m] = f]
Asleep == {g \in Getters : pc[g] = "asleep"}

\* Mutant: the condition is not signalled.
SignalNone(t, place) == Go(t, place)

\* pc after t has gone to place and signalled the condition: one sleeper wakes.
SignalOne(t, place) ==
  \/ Asleep = {} /\ Go(t, place)
  \/ \E g \in Asleep : pc' = [pc EXCEPT ![t] = place, ![g] = "woken"]

\* The messages from head_ on.
List == Path(head, next, Null)
-----------------------------------------------------------------------------
(* enqueue_tail() and enqueue_head(), under the lock. *)

\* With the lock or without it, a deactivated queue refuses the message.
Refuse(p, m) ==
  /\ lock = Null \/ m \in use.expedited
  /\ pc[p] = "idle" /\ fate[m] = "unsent"
  /\ ~active
  /\ Becomes(m, "refused")
  /\ UNCHANGED <<list, active, lock, pc, block, bounds>>

\* Mutant: a message that is appended does not become the last one.
FirstIsLast(m) == tail' = IF Empty THEN m ELSE tail

IsLast(m) == tail' = m

PutTail(p, m) ==
  /\ lock = Null /\ pc[p] = "idle" /\ fate[m] = "unsent"
  /\ active /\ m \notin Urgent \cup use.expedited
  /\ head' = IF Empty THEN m ELSE head
  /\ next' = IF Empty THEN next ELSE [next EXCEPT ![tail] = m]
  /\ prev' = [prev EXCEPT ![m] = tail]
  /\ IsLast(m)
  /\ count' = count + 1
  /\ SignalOne(p, "idle")
  /\ Becomes(m, "queued")
  /\ UNCHANGED <<active, lock, block, bounds>>

PutHead(p, m) ==
  /\ lock = Null /\ pc[p] = "idle" /\ fate[m] = "unsent"
  /\ active /\ m \in Urgent
  /\ next' = [next EXCEPT ![m] = head]
  /\ prev' = IF head = Null THEN prev ELSE [prev EXCEPT ![head] = m]
  /\ tail' = IF head = Null THEN m ELSE tail
  /\ head' = m
  /\ count' = count + 1
  /\ SignalOne(p, "idle")
  /\ Becomes(m, "queued")
  /\ UNCHANGED <<active, lock, block, bounds>>
-----------------------------------------------------------------------------
(* enqueue_head_i() without the lock, statement by statement. *)

BeginExpedited(p, m) ==
  /\ pc[p] = "idle" /\ fate[m] = "unsent"
  /\ active /\ m \in use.expedited
  /\ count' = count + 1
  /\ block' = [block EXCEPT ![p] = m]
  /\ Becomes(m, "putting")
  /\ Go(p, "link")
  /\ UNCHANGED <<head, tail, next, prev, active, lock, bounds>>

LinkNext(p) ==
  /\ pc[p] = "link"
  /\ next' = [next EXCEPT ![block[p]] = head]
  /\ Go(p, "prev")
  /\ UNCHANGED <<head, tail, prev, count, active, lock, block, fate, bounds>>

\* Mutant: the message that was first is not told.
LinkPrevNot(p) == pc[p] = "prev" /\ Go(p, "head")
                  /\ tail' = (IF head = Null THEN block[p] ELSE tail)
                  /\ UNCHANGED <<head, next, prev, count, active, lock, block, fate, bounds>>

LinkPrev(p) ==
  /\ pc[p] = "prev"
  /\ IF head = Null
     THEN tail' = block[p] /\ UNCHANGED prev
     ELSE prev' = [prev EXCEPT ![head] = block[p]] /\ UNCHANGED tail
  /\ Go(p, "head")
  /\ UNCHANGED <<head, next, count, active, lock, block, fate, bounds>>

LinkHead(p) ==
  /\ pc[p] = "head"
  /\ head' = block[p]
  /\ Becomes(block[p], "queued")
  /\ Go(p, "signal")
  /\ UNCHANGED <<tail, next, prev, count, active, lock, block, bounds>>

Signal(p) ==
  /\ pc[p] = "signal"
  /\ SignalOne(p, "idle")
  /\ block' = [block EXCEPT ![p] = Null]
  /\ UNCHANGED <<list, active, lock, fate, bounds>>

Put(p) ==
  \/ \E m \in Messages : \/ Refuse(p, m) \/ PutTail(p, m) \/ PutHead(p, m)
                         \/ BeginExpedited(p, m)
  \/ LinkNext(p) \/ LinkPrev(p) \/ LinkHead(p) \/ Signal(p)
-----------------------------------------------------------------------------
(* dequeue_head(), by a worker. *)

\* Mutant: a worker that was woken does not look again.
NotEmptyOrWoken(g) == ~Empty \/ pc[g] = "woken"

NotEmpty(g) == ~Empty

\* dequeue_head_i() reads the head without a test.
Dequeue(g) ==
  /\ pc[g] \in {"idle", "woken"} /\ lock = Null
  /\ active /\ NotEmpty(g)
  /\ IF head = Null
     THEN Go(g, "crashed") /\ UNCHANGED <<list, fate>>
     ELSE LET rest == next[head] IN
          /\ count' = count - 1
          /\ head' = rest
          /\ tail' = IF rest = Null THEN Null ELSE tail
          /\ prev' = [m \in Messages |-> IF m \in {head, rest} THEN Null ELSE prev[m]]
          /\ next' = [next EXCEPT ![head] = Null]
          /\ Becomes(head, "taken")
          /\ Go(g, "idle")
  /\ UNCHANGED <<active, lock, block, bounds>>

\* The queue is deactivated: the worker leaves.
Leave(g) ==
  /\ pc[g] \in {"idle", "woken"} /\ lock = Null
  /\ ~active
  /\ Go(g, "left")
  /\ UNCHANGED <<list, active, lock, block, fate, bounds>>

FindEmpty(g) ==
  /\ pc[g] \in {"idle", "woken"} /\ lock = Null
  /\ active /\ ~NotEmpty(g)
  /\ lock' = g
  /\ Go(g, "empty")
  /\ UNCHANGED <<list, active, block, fate, bounds>>

\* The condition variable releases the lock as the thread goes to sleep.
Sleep(g) ==
  /\ pc[g] = "empty"
  /\ lock' = Null
  /\ Go(g, "asleep")
  /\ UNCHANGED <<list, active, block, fate, bounds>>

Get(g) == Dequeue(g) \/ Leave(g) \/ FindEmpty(g) \/ Sleep(g)
-----------------------------------------------------------------------------
(* flush(false), flush(true), ACE's flush(), deactivate(), activate() and  *)
(* signal(), under the lock.                                               *)

Flushable(sessionMessages) == IF sessionMessages THEN Data \cup Session ELSE Data

FlushBegin(f, sessionMessages) ==
  /\ pc[f] = "idle" /\ lock = Null /\ flushes < MaxFlushes
  /\ flushes' = flushes + 1
  /\ lock' = f
  /\ block' = [block EXCEPT ![f] = head]
  /\ Go(f, IF sessionMessages THEN "all" ELSE "data")
  /\ UNCHANGED <<list, active, fate, use>>

FlushSkip(f) ==
  /\ pc[f] \in {"data", "all"}
  /\ block[f] \in Messages \ Flushable(pc[f] = "all")
  /\ block' = [block EXCEPT ![f] = next[block[f]]]
  /\ UNCHANGED <<list, active, lock, pc, fate, bounds>>

\* Mutant: the message after the one that goes is not told.
UnlinkNextOnly(m) == next' = [next EXCEPT ![prev[m]] = next[m]] /\ UNCHANGED prev

\* The message is not the first one.
Unlink(m) ==
  /\ next' = [next EXCEPT ![prev[m]] = next[m]]
  /\ prev' = IF next[m] = Null THEN prev ELSE [prev EXCEPT ![next[m]] = prev[m]]

\* If the last message goes, the last one that is left is found from the head on.
LastIsLeft(m) ==
  tail' = IF m # tail THEN tail ELSE IF head' = Null THEN Null ELSE Last(List')

\* Mutant: flush() steps on after it has removed a message, as it does after the others.
AfterNext(m) == IF next[m] = Null THEN Null ELSE next[next[m]]

After(m) == next[m]

\* The new first message keeps its prev() to the one that is released.
FlushRemove(f) ==
  /\ pc[f] \in {"data", "all"}
  /\ block[f] \in Flushable(pc[f] = "all")
  /\ LET m == block[f] IN
     /\ IF m = head THEN head' = next[m] /\ UNCHANGED <<next, prev>>
                    ELSE Unlink(m) /\ UNCHANGED head
     /\ LastIsLeft(m)
     /\ count' = count - 1
     /\ block' = [block EXCEPT ![f] = After(m)]
     /\ Becomes(m, "released")
  /\ UNCHANGED <<active, lock, pc, bounds>>

FlushEnd(f) ==
  /\ pc[f] \in {"data", "all"} /\ block[f] = Null
  /\ lock' = Null
  /\ Go(f, "idle")
  /\ UNCHANGED <<list, active, block, fate, bounds>>

FlushList(f) ==
  /\ pc[f] = "idle" /\ lock = Null /\ flushes < MaxFlushes
  /\ flushes' = flushes + 1
  /\ head' = Null /\ tail' = Null /\ count' = count - Len(List)
  /\ fate' = [m \in Messages |-> IF m \in Range(List) THEN "released" ELSE fate[m]]
  /\ UNCHANGED <<next, prev, active, lock, pc, block, use>>

\* Mutant: a single sleeper is woken.
WakeOne ==
  \/ Asleep = {} /\ UNCHANGED pc
  \/ \E g \in Asleep : pc' = [pc EXCEPT ![g] = "woken"]

WakeAll == pc' = [t \in Threads |-> IF t \in Asleep THEN "woken" ELSE pc[t]]

Deactivate(f) ==
  /\ pc[f] = "idle" /\ lock = Null /\ flushes < MaxFlushes
  /\ flushes' = flushes + 1
  /\ active' = FALSE
  /\ WakeAll
  /\ UNCHANGED <<list, lock, block, fate, use>>

\* The workers are gone when the queue is activated again.
Activate(f) ==
  /\ pc[f] = "idle" /\ lock = Null /\ flushes < MaxFlushes
  /\ ~active /\ \A g \in Getters \cap use.threads : pc[g] = "left"
  /\ flushes' = flushes + 1
  /\ active' = TRUE
  /\ pc' = [t \in Threads |-> IF t \in Getters THEN "idle" ELSE pc[t]]
  /\ UNCHANGED <<list, lock, block, fate, use>>

SignalAll(f) ==
  /\ pc[f] = "idle" /\ lock = Null /\ flushes < MaxFlushes
  /\ flushes' = flushes + 1
  /\ WakeAll
  /\ UNCHANGED <<list, active, lock, block, fate, use>>

Flush(f) == \/ \E sessionMessages \in BOOLEAN : FlushBegin(f, sessionMessages)
            \/ FlushSkip(f) \/ FlushRemove(f) \/ FlushEnd(f) \/ FlushList(f)
            \/ Deactivate(f) \/ Activate(f) \/ SignalAll(f)
-----------------------------------------------------------------------------
Init ==
  /\ head = Null /\ tail = Null /\ count = 0
  /\ next = [m \in Messages |-> Null] /\ prev = [m \in Messages |-> Null]
  /\ active = TRUE /\ lock = Null
  /\ pc = [t \in Threads |-> "idle"]
  /\ block = [t \in Threads |-> Null]
  /\ fate = [m \in Messages |-> "unsent"]
  /\ use \in Uses /\ flushes = 0

Next == \/ \E p \in Putters \cap use.threads : Put(p)
        \/ \E g \in Getters \cap use.threads : Get(g)
        \/ \E f \in Flushers \cap use.threads : Flush(f)

Spec == Init /\ [][Next]_vars

\* The operating system schedules the workers, and a thread that holds the lock.
FairSpec == /\ Spec
            /\ \A g \in Getters : WF_vars(g \in use.threads /\ Get(g))
            /\ \A f \in Flushers : WF_vars(FlushSkip(f) \/ FlushRemove(f) \/ FlushEnd(f))
=============================================================================
