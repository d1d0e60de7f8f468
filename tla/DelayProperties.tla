-------------------------- MODULE DelayProperties --------------------------
(***************************************************************************)
(* What the modules up and down the stream rely on, stated over Delay.     *)
(***************************************************************************)
EXTENDS Delay, FiniteSets, SequencesExt

\* Where a thread is that serves the first queue, the second one, and none.
AtInbound == {"inbound", "dispatch", "asleep", "check", "send", "leave", "join"}
AtOutbound == {"outbound", "put"}
Places == {"gone", "start"} \cup AtInbound \cup AtOutbound
Steps == {"idle", "flush", "flush2", "stop", "wait", "pass", "failed"}

TypeOK ==
  /\ config \in Configurations
  /\ mode \in {"invalid", "bytes", "messages"} /\ block \in {0, Frame}
  /\ available \in Nat /\ timers \in Nat /\ spent \in Nat
  /\ first \in BOOLEAN /\ resized \in BOOLEAN
  /\ queue \in Seq(Pieces \cup {Stop}) /\ queue2 \in Seq(Pieces \cup {Stop})
  /\ pc \in [Workers -> Places]
  /\ hand \in [Workers -> Seq(Pieces)]
  /\ source \in Steps
  /\ handling \in {"none", "begin", "resize", "control", "abort", "end"}
  /\ aborting \in BOOLEAN
  /\ session \in {"ready", "running", "over"}
  /\ downstream \in {"none", "begin", "abort", "end"}
  /\ accepted \in 0..MaxMessages /\ sessions \in 0..MaxSessions
  /\ resizes \in 0..MaxResizes /\ faults \in 0..config.faults

Inbound == {w \in Workers : pc[w] \in AtInbound}
Outbound == {w \in Workers : pc[w] \in AtOutbound}

\* The data that the module holds back, in order.
Held ==
  LET heldBy(ws) == IF ws = {} THEN <<>> ELSE hand[CHOOSE w \in ws : TRUE]
  IN  heldBy(Outbound) \o Without(queue2, {Stop}) \o heldBy(Inbound) \o Without(queue, {Stop})
Bytes == FlattenSeq([i \in DOMAIN Held |-> [j \in 1..Held[i].len |-> Held[i].msg]])

\* The well-behaved uses: END waits for the data, nothing fails, nothing comes after it.
Regular == config.waits /\ config.faults = 0 /\ ~config.lateAbort

\* Each queue is served by one thread, whichever comes first.
OneThreadPerQueue == \A v, w \in Workers :
  v # w => ~(v \in Inbound /\ w \in Inbound) /\ ~(v \in Outbound /\ w \in Outbound)

\* Data is passed on in order and once, whichever way it is split and whatever
\* interrupts it; only a flush, a RESIZE or a failure loses any.
Discarding == source \in {"flush", "flush2"} \/ resized \/ config.faults > 0
OfBytes == INSTANCE Channel WITH Messages <- 1..MaxMessages, bytes <- Bytes, lossy <- Discarding
ImplementsChannel == OfBytes!Spec

\* Between two ticks of the timer no more than the average goes, but for the rest of
\* the last audio frame.
Paced == ~config.catchUp => spent < Average + Frame

\* When END or ABORT has gone downstream, no data is left that would follow it, or be
\* part of the next session, no thread runs, and no timer ticks.
NothingIsLeft ==
  Regular /\ session = "over" => Held = <<>> /\ timers = 0 /\ \A w \in Workers : Gone(w)

\* END and ABORT are handled, in a finite time.
HandlersReturn == source = "wait" ~> source # "wait"

\* What was accepted goes, without another message to push it.
DataIsPassedOn ==
  \A m \in 1..MaxMessages : Regular /\ (\E i \in DOMAIN Held : Held[i].msg = m)
                              ~> ~ \E i \in DOMAIN Held : Held[i].msg = m
=============================================================================
