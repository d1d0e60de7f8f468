------------------------------- MODULE Delay -------------------------------
(***************************************************************************)
(* Stream_Module_Delay_T: a module that passes data on at a given rate.    *)
(* The source, a thread upstream, calls its handlers; data goes to a first *)
(* queue, from there piece by piece, as the tokens of a timer allow, to a  *)
(* second one, and from there downstream.  Two threads of the module serve *)
(* the two queues: whichever starts first takes the second one.            *)
(*                                                                         *)
(* A message is a number, in the order of arrival, and a length in bytes;  *)
(* a piece of it has its number and its own length.                        *)
(***************************************************************************)
EXTENDS Integers, Queues

CONSTANTS First, Second,   \* the threads: First is threadIds_[0]
          Average,         \* averageTokensPerInterval
          Frame,           \* bytes per audio frame
          Lengths,         \* lengths of messages
          Configurations,  \* how the module may be configured and used
          MaxMessages, MaxSessions, MaxResizes  \* bounds

Workers == {First, Second}

\* delayConfiguration: mode and catchUp; waitForDataOnEnd and handleResize.  An audio
\* stream sets neither mode nor interval.  Further: how many calls may fail, and
\* whether an ABORT may come after the END of a session.
Configuration ==
  [mode : {"invalid", "bytes", "messages"}, catchUp : BOOLEAN, waits : BOOLEAN,
   resizes : BOOLEAN, faults : Nat, lateAbort : BOOLEAN]

ASSUME WorkersAssumption == First # Second
ASSUME NumbersAssumption == /\ Average \in Nat \ {0} /\ Frame \in Nat \ {0}
                            /\ Lengths \subseteq Nat \ {0}
ASSUME ConfigurationsAssumption == Configurations \subseteq Configuration
ASSUME BoundsAssumption == MaxMessages \in Nat /\ MaxSessions \in Nat \ {0} /\ MaxResizes \in Nat

VARIABLES
  config,      \* a configuration
  mode,        \* delayConfiguration->mode, which the module sets itself
  block,       \* blockSize_
  available,   \* availableTokens_
  timers,      \* how many timers are scheduled
  first,       \* isFirstDispatchingThread_
  resized,     \* resizeOccured_
  queue,       \* queue_
  queue2,      \* queue_2_
  pc,          \* where each thread is
  hand,        \* the piece it has dequeued, and the rest of the message
  source,      \* where the source is in a handler
  handling,    \* the message that it handles
  aborting,    \* did the control message of an ABORT come, its session message not yet ?
  session,     \* the session, as the source sees it
  downstream,  \* the session message that was passed on last
  spent,       \* what the tokens were spent on, since the last tick of the timer
  accepted, sessions, resizes, faults  \* bounds: calls so far

tokens == <<mode, block, available, timers, spent>>
threads == <<first, pc, hand>>
calls == <<source, handling, aborting, session, downstream>>
bounds == <<accepted, sessions, resizes, faults>>
vars == <<config, tokens, resized, queue, queue2, threads, calls, bounds>>

Stop == [msg |-> 0, len |-> 0]  \* MB_STOP
IsData(piece) == piece # Stop
Piece(m, n) == [msg |-> m, len |-> n]
Pieces == [msg : Nat \ {0}, len : Nat \ {0}]
Flushed(q) == Without(q, Pieces)  \* flush(false)
Least(a, b) == IF a < b THEN a ELSE b
Go(w, place) == pc' = [pc EXCEPT ![w] = place]
Gone(w) == pc[w] = "gone"
-----------------------------------------------------------------------------
(* handleSessionMessage(), handleControlMessage() and handleDataMessage(), *)
(* in the thread of the source.                                            *)

\* The module is initialized again.  The queues, and what the module wrote to its
\* configuration, stay.
Initialize ==
  /\ source = "idle" /\ session = "over" /\ sessions < MaxSessions
  /\ available' = 0 /\ block' = 0 /\ first' = TRUE /\ resized' = FALSE
  /\ session' = "ready"
  /\ UNCHANGED <<config, mode, timers, spent, queue, queue2, pc, hand, source, handling, aborting,
                 downstream, bounds>>

\* Does BEGIN deduce the interval from the frame rate of a video ?  In the first
\* session of an audio stream it takes the default, but keeps it to itself.
DeducesInterval == config.mode = "invalid" /\ mode # "invalid"

SetBlock == block' = IF mode = "invalid" THEN Frame ELSE block

\* The timer is scheduled and the threads are started.
Begin ==
  /\ source = "idle" /\ session = "ready"
  /\ ~DeducesInterval
  /\ SetBlock
  /\ mode' = IF mode = "invalid" THEN "bytes" ELSE mode
  /\ available' = Average /\ spent' = 0
  /\ timers' = timers + 1
  /\ pc' = [w \in Workers |-> "start"]
  /\ sessions' = sessions + 1
  /\ handling' = "begin" /\ source' = "pass"
  /\ UNCHANGED <<config, resized, queue, queue2, first, hand, aborting, session, downstream,
                 accepted, resizes, faults>>

\* The timer cannot be scheduled, or the threads cannot be started: the module
\* notifies an ABORT and the session goes on.
BeginFails ==
  /\ source = "idle" /\ session = "ready"
  /\ ~DeducesInterval /\ faults < config.faults
  /\ SetBlock
  /\ mode' = IF mode = "invalid" THEN "bytes" ELSE mode
  /\ available' = Average /\ spent' = 0
  /\ timers' \in {timers, timers + 1}
  /\ faults' = faults + 1 /\ sessions' = sessions + 1
  /\ handling' = "begin" /\ source' = "pass"
  /\ UNCHANGED <<config, resized, queue, queue2, threads, aborting, session, downstream,
                 accepted, resizes>>

\* There is no video in an audio stream: an assertion fails.
BeginAsserts ==
  /\ source = "idle" /\ session = "ready"
  /\ DeducesInterval
  /\ source' = "failed"
  /\ UNCHANGED <<config, tokens, resized, queue, queue2, threads, handling, aborting, session,
                 downstream, bounds>>

Data ==
  /\ source = "idle" /\ session = "running" /\ accepted < MaxMessages
  /\ accepted' = accepted + 1
  /\ \E n \in Lengths : queue' = Append(queue, Piece(accepted', n))
  /\ UNCHANGED <<config, tokens, resized, queue2, threads, calls, sessions, resizes, faults>>

Resize ==
  /\ source = "idle" /\ session = "running" /\ config.resizes /\ resizes < MaxResizes
  /\ resizes' = resizes + 1
  /\ resized' = TRUE
  /\ handling' = "resize" /\ source' = "flush"
  /\ UNCHANGED <<config, tokens, queue, queue2, threads, aborting, session, downstream,
                 accepted, sessions, faults>>

\* An ABORT is a control message, and then a session message.
ControlAbort ==
  /\ source = "idle" /\ ~aborting /\ downstream # "abort"
  /\ session = "running" \/ (session = "over" /\ config.lateAbort)
  /\ aborting' = TRUE
  /\ handling' = "control" /\ source' = "flush"
  /\ UNCHANGED <<config, tokens, resized, queue, queue2, threads, session, downstream, bounds>>

Abort ==
  /\ source = "idle" /\ aborting
  /\ aborting' = FALSE
  /\ handling' = "abort" /\ source' = "flush"
  /\ UNCHANGED <<config, tokens, resized, queue, queue2, threads, session, downstream, bounds>>

End ==
  /\ source = "idle" /\ session = "running" /\ ~aborting
  /\ handling' = "end" /\ source' = "stop"
  /\ UNCHANGED <<config, tokens, resized, queue, queue2, threads, aborting, session, downstream,
                 bounds>>

FlushQueue ==
  /\ source = "flush"
  /\ queue' = Flushed(queue)
  /\ source' = "flush2"
  /\ UNCHANGED <<config, tokens, resized, queue2, threads, handling, aborting, session,
                 downstream, bounds>>

FlushQueue2 ==
  /\ source = "flush2"
  /\ queue2' = Flushed(queue2)
  /\ source' = IF handling = "abort" THEN "stop" ELSE "pass"
  /\ UNCHANGED <<config, tokens, resized, queue, threads, handling, aborting, session,
                 downstream, bounds>>

\* stop(true, ...): MB_STOP overtakes the data, or follows it.
StopInbound ==
  /\ source = "stop"
  /\ queue' = IF handling = "abort" \/ ~config.waits THEN <<Stop>> \o queue
                                                     ELSE Append(queue, Stop)
  /\ source' = "wait"
  /\ UNCHANGED <<config, tokens, resized, queue2, threads, handling, aborting, session,
                 downstream, bounds>>

ThreadsAreGone == \A w \in Workers : Gone(w)

\* wait()
Wait ==
  /\ source = "wait" /\ ThreadsAreGone
  /\ source' = "pass"
  /\ UNCHANGED <<config, tokens, resized, queue, queue2, threads, handling, aborting, session,
                 downstream, bounds>>

\* The message that was handled goes downstream.
Pass ==
  /\ source = "pass"
  /\ IF handling \in {"begin", "abort", "end"}
     THEN /\ downstream' = handling
          /\ session' = IF handling = "begin" THEN "running" ELSE "over"
     ELSE UNCHANGED <<downstream, session>>
  /\ handling' = "none" /\ source' = "idle"
  /\ UNCHANGED <<config, tokens, resized, queue, queue2, threads, aborting, bounds>>

Source == \/ Initialize \/ Begin \/ BeginFails \/ BeginAsserts
          \/ Data \/ Resize \/ ControlAbort \/ Abort \/ End
          \/ FlushQueue \/ FlushQueue2 \/ StopInbound \/ Wait \/ Pass
-----------------------------------------------------------------------------
(* svc(), stop(false, ...) and dispatch(). *)

\* Mutant: the flag is not cleared.
StillFirst == UNCHANGED first

NotFirst == first' = FALSE

\* The thread that comes first serves the second queue.
Start(w) ==
  /\ pc[w] = "start"
  /\ Go(w, IF first THEN "outbound" ELSE "inbound")
  /\ NotFirst
  /\ UNCHANGED <<config, tokens, resized, queue, queue2, hand, calls, bounds>>

Dequeue(w) ==
  /\ pc[w] = "inbound" /\ queue # <<>>
  /\ queue' = Tail(queue)
  /\ IF IsData(Head(queue))
     THEN Go(w, "dispatch") /\ hand' = [hand EXCEPT ![w] = <<Head(queue)>>]
     ELSE Go(w, "leave") /\ UNCHANGED hand
  /\ UNCHANGED <<config, tokens, resized, queue2, first, calls, bounds>>

\* Mutant: the tokens are not tested.
NotTested == TRUE

HasTokens == available > 0

Sleep(w) ==
  /\ pc[w] = "dispatch" /\ ~HasTokens
  /\ Go(w, "asleep")
  /\ UNCHANGED <<config, tokens, resized, queue, queue2, first, hand, calls, bounds>>

\* How many bytes go for n tokens.
Aligned(n) == IF block = 0 THEN n ELSE IF n < block THEN block ELSE (n \div block) * block

\* Mutant: the message goes as a whole.
Whole(piece, n) == <<piece>>

\* The piece of n bytes at the front of a message, and what is left of it.
Split(piece, n) == IF n < piece.len THEN <<Piece(piece.msg, n), Piece(piece.msg, piece.len - n)>>
                                    ELSE <<piece>>

TakeTokens(w) ==
  /\ pc[w] = "dispatch" /\ HasTokens
  /\ LET piece == Head(hand[w])
         taken == IF mode = "bytes" THEN Least(piece.len, available) ELSE 1
         pieces == IF mode = "bytes" THEN Split(piece, Aligned(taken)) ELSE <<piece>>
     IN  /\ available' = available - taken
         /\ spent' = spent + IF mode = "bytes" THEN pieces[1].len ELSE 1
         /\ hand' = [hand EXCEPT ![w] = pieces]
  /\ Go(w, "check")
  /\ UNCHANGED <<config, mode, block, timers, resized, queue, queue2, first, calls, bounds>>

\* After a RESIZE the message is released instead.
Check(w) ==
  /\ pc[w] = "check"
  /\ IF resized THEN Go(w, "inbound") /\ hand' = [hand EXCEPT ![w] = <<>>]
                ELSE Go(w, "send") /\ UNCHANGED hand
  /\ resized' = FALSE
  /\ UNCHANGED <<config, tokens, queue, queue2, first, calls, bounds>>

\* Mutant: what is left of the message is enqueued again, and by now it is not the first.
SendAndPutBack(w) ==
  /\ pc[w] = "send"
  /\ queue2' = Append(queue2, Head(hand[w]))
  /\ queue' = queue \o Tail(hand[w])
  /\ hand' = [hand EXCEPT ![w] = <<>>]
  /\ Go(w, "inbound")
  /\ UNCHANGED <<config, tokens, resized, first, calls, bounds>>

Send(w) ==
  /\ pc[w] = "send"
  /\ queue2' = Append(queue2, Head(hand[w]))
  /\ hand' = [hand EXCEPT ![w] = Tail(hand[w])]
  /\ Go(w, IF Tail(hand[w]) = <<>> THEN "inbound" ELSE "dispatch")
  /\ UNCHANGED <<config, tokens, resized, queue, first, calls, bounds>>

\* Mutant: the thread leaves without a word to the other one.
NoStop == UNCHANGED queue2

\* Mutant: MB_STOP overtakes what is still to be passed on.
StopFirst == queue2' = <<Stop>> \o queue2

StopLast == queue2' = IF config.waits THEN Append(queue2, Stop) ELSE <<Stop>> \o queue2

Leave(w) ==
  /\ pc[w] = "leave"
  /\ StopLast
  /\ Go(w, "join")
  /\ UNCHANGED <<config, tokens, resized, queue, first, hand, calls, bounds>>

\* A thread does not wait for itself: join() returns an error.
Join(w) ==
  /\ pc[w] = "join"
  /\ w = First \/ Gone(First)
  /\ timers' = timers - 1
  /\ Go(w, "gone")
  /\ UNCHANGED <<config, mode, block, available, spent, resized, queue, queue2, first, hand,
                 calls, bounds>>

Dequeue2(w) ==
  /\ pc[w] = "outbound" /\ queue2 # <<>>
  /\ queue2' = Tail(queue2)
  /\ IF IsData(Head(queue2))
     THEN Go(w, "put") /\ hand' = [hand EXCEPT ![w] = <<Head(queue2)>>]
     ELSE Go(w, "gone") /\ UNCHANGED hand
  /\ UNCHANGED <<config, tokens, resized, queue, first, calls, bounds>>

PutNext(w) ==
  /\ pc[w] = "put"
  /\ hand' = [hand EXCEPT ![w] = <<>>]
  /\ Go(w, "outbound")
  /\ UNCHANGED <<config, tokens, resized, queue, queue2, first, calls, bounds>>

PutNextFails(w) ==
  /\ pc[w] = "put" /\ faults < config.faults
  /\ faults' = faults + 1
  /\ hand' = [hand EXCEPT ![w] = <<>>]
  /\ Go(w, "gone")
  /\ UNCHANGED <<config, tokens, resized, queue, queue2, first, calls, accepted, sessions, resizes>>

Serve(w) == \/ Start(w) \/ Dequeue(w) \/ Sleep(w) \/ TakeTokens(w) \/ Check(w) \/ Send(w)
            \/ Leave(w) \/ Join(w) \/ Dequeue2(w) \/ PutNext(w) \/ PutNextFails(w)
-----------------------------------------------------------------------------
\* Mutant: no thread is woken.
WakeNone == UNCHANGED pc

Wake == pc' = [w \in Workers |-> IF pc[w] = "asleep" THEN "dispatch" ELSE pc[w]]

\* reset(), by the timer.  The bound on what a timer may add up is a guard.
Reset ==
  /\ timers > 0
  /\ available <= Average
  /\ available' = IF config.catchUp THEN available + Average ELSE Average
  /\ spent' = 0
  /\ Wake
  /\ UNCHANGED <<config, mode, block, timers, resized, queue, queue2, first, hand, calls, bounds>>
-----------------------------------------------------------------------------
Init ==
  /\ config \in Configurations
  /\ mode = config.mode /\ block = 0 /\ available = 0 /\ timers = 0 /\ spent = 0
  /\ first = TRUE /\ resized = FALSE
  /\ queue = <<>> /\ queue2 = <<>>
  /\ pc = [w \in Workers |-> "gone"] /\ hand = [w \in Workers |-> <<>>]
  /\ source = "idle" /\ handling = "none" /\ aborting = FALSE
  /\ session = "ready" /\ downstream = "none"
  /\ accepted = 0 /\ sessions = 0 /\ resizes = 0 /\ faults = 0

Next == Source \/ (\E w \in Workers : Serve(w)) \/ Reset

Spec == Init /\ [][Next]_vars

\* The operating system schedules the threads of the module, and a handler that has
\* begun; the timer ticks as long as it is scheduled.
Handler == FlushQueue \/ FlushQueue2 \/ StopInbound \/ Wait \/ Pass
FairSpec == /\ Spec
            /\ \A w \in Workers : WF_vars(Serve(w))
            /\ WF_vars(Reset)
            /\ WF_vars(Handler)
=============================================================================
