---------------------------- MODULE HeadSession ----------------------------
(***************************************************************************)
(* The sessions of an ACTIVE head module that one thread controls: what is *)
(* queued, flagged, logged and still to do at each of the steps of that    *)
(* thread and of the worker.                                               *)
(***************************************************************************)
EXTENDS HeadModuleProperties

\* The application: one of its threads, c, controls an ACTIVE stream, and does so only
\* while no session is starting; the others feed it; nothing is aborted from below.
ControlledBy(c) ==
  /\ app.mode = "ACTIVE" /\ ~app.stopsEarly /\ ~app.modulesAbort /\ ~app.downstreamFails
  /\ app.api[c] \subseteq {"initialize", "start", "stop", "abort_stop", "pause", "close"}
  /\ \A u \in Users \ {c} : app.api[u] \subseteq {"data"}

\* Thread t is at step e, and goes on with those of q.
Heads(s, e, q) == s # <<>> /\ s[1] = e /\ Tail(s) = q
Doing(t, e, q) == Heads(stack[t], e, q)

Push(e, q) == <<e>> \o q

-----------------------------------------------------------------------------
(* What there is of a session. *)

\* What is queued, but for the data and what overtakes it.
Overlooked == {"DATA", "CONTROL_ABORT"}
Rest == Without(queue, Overlooked)

\* END was not sent; was, but not processed; was processed.
Unsent == ~sessionEndSent /\ ~sessionEndProcessed
Sent   == sessionEndSent /\ ~sessionEndProcessed
Done   == sessionEndProcessed

SawNothing == log["BEGIN"] = 0 /\ log["END"] = 0 /\ log["NOTIFIED"] = 0
SawBegin   == log["BEGIN"] = 1 /\ log["END"] = 0 /\ log["NOTIFIED"] = 0
SawEnd     == log["BEGIN"] = 1 /\ log["END"] = 1 /\ log["NOTIFIED"] = 0
SawAll     == log["BEGIN"] = 1 /\ log["END"] = 1 /\ log["NOTIFIED"] = 1

MayStop == Rest = <<>> \/ Rest = <<"STOP">>

\* BEGIN is queued, was taken, was passed on; the session goes on.
Starts == state = "SESSION_STARTING" /\ Unsent /\ queueActive /\ ~abortSent
Fresh  == Starts /\ SawNothing /\ Rest = <<"BEGIN">>
Taken  == Starts /\ SawNothing /\ Rest = <<>>
Begun  == Starts /\ SawBegin /\ Rest = <<>>
Going  == /\ state \in {"RUNNING", "PAUSED"} /\ Unsent /\ queueActive /\ ~abortSent
          /\ SawBegin /\ Rest = <<>>
\* MB_STOP is still to be queued, is queued, was taken.
AtEnd == state = "SESSION_STOPPING" /\ SawBegin
Owed    == AtEnd /\ Unsent /\ Rest = <<>> /\ queueActive
Queued  == AtEnd /\ Unsent /\ Rest = <<"STOP">> /\ queueActive
Leaving == AtEnd /\ Unsent /\ Rest = <<>>
\* END is at hand, is queued (or was dropped by a queue that was closed), was taken.
EndAtHand == AtEnd /\ Sent /\ Rest = <<>>
EndQueued == AtEnd /\ Sent /\ Rest = IF queueActive THEN <<"END">> ELSE <<>>
EndTaken  == AtEnd /\ Done /\ Rest = <<>>
EndPassed == AtEnd /\ Done /\ MayStop
\* END has come to the last module.
Ended     == state = "SESSION_STOPPING" /\ SawEnd /\ Done /\ MayStop
Stopped   == state = "STOPPED" /\ SawEnd /\ Done /\ MayStop
Finishing == state = "FINISHED" /\ SawEnd /\ Done /\ MayStop
Over      == state = "FINISHED" /\ SawAll /\ Done /\ MayStop

\* The worker looks for messages.
Looping == Fresh \/ Going \/ Queued \/ EndQueued \/ Over

-----------------------------------------------------------------------------
(* The steps of the worker. *)

Loop      == Push(Step("get"), <<>>)
ToLeave   == Push(Step("leave"), <<>>)
ToStop    == Push(Step("stop_processing"), Loop)
ToDeliver == Push(<<"deliver", "END">>, ToStop)
ToTell    == Push(Step("session_end"), ToStop)

\* Data, and a control(ABORT) that flushes them, leave the session where it is.
OnLoop(e, q) ==
  \/ e[1] = "get" /\ q = <<>>
  \/ e[1] \in {"handle", "deliver"} /\ e[2] = "DATA" /\ q = Loop
  \/ e[1] = "handle" /\ e[2] = "CONTROL_ABORT" /\ q = Loop

\* The steps of a control(ABORT), on the way to the steps of then.
Aborting(e, q, then) ==
  \/ e[1] \in {"abort", "abort_sent"} /\ q = then
  \/ e[1] = "handle" /\ e[2] = "CONTROL_ABORT" /\ q = Push(Step("abort_sent"), then)

Service(e, q) ==
  \/ e[1] = "svc" /\ q = <<>> /\ Fresh
  \/ OnLoop(e, q) /\ Looping
  \/ e[1] \in {"handle", "deliver"} /\ e[2] = "BEGIN" /\ q = Loop /\ Taken
  \/ e[1] = "event" /\ e[2] = "BEGIN" /\ q = Loop /\ Begun
  \/ e[1] \in {"change", "enter", "set"} /\ e[2] = "RUNNING" /\ q = Loop /\ Begun
  \/ e[1] = "leave" /\ q = <<>> /\ (Leaving \/ Over)
  \/ Aborting(e, q, ToLeave) /\ (Leaving \/ Over)
  \/ e[1] \in {"finished", "send_end"} /\ q = Loop /\ Leaving
  \/ e[1] \in {"finished", "send_end"} /\ q = Push(Step("unlock"), Loop)
     /\ EndAtHand /\ taskLock # None
  \/ e[1] = "put" /\ e[2] = "END" /\ q = Loop /\ EndAtHand
  \/ e[1] = "handle" /\ e[2] = "END" /\ q = ToStop /\ EndAtHand
  \/ e[1] = "process_end" /\ q = ToDeliver /\ EndAtHand
  \/ e[1] \in {"put_stop", "put_stop_head"} /\ q = ToDeliver /\ EndTaken
  \/ Aborting(e, q, Push(Step("put_stop_head"), ToDeliver)) /\ EndTaken
  \/ e[1] = "deliver" /\ e[2] = "END" /\ q = ToStop /\ EndPassed
  \/ e[1] = "event" /\ e[2] = "END" /\ q = ToStop /\ Ended
  \/ e[1] \in {"change", "enter"} /\ e[2] = "STOPPED" /\ q = ToTell /\ Ended
  \/ e[1] \in {"change", "enter", "set"} /\ e[2] = "FINISHED" /\ q = ToTell /\ Stopped
  \/ e[1] = "session_end" /\ q = ToStop /\ Finishing
  \/ e[1] = "stop_processing" /\ q = Loop /\ Over
  \/ e[1] = "exit" /\ q = <<>> /\ Over

ToRelease == Push(Step("release"), <<>>)
ToFlush   == Push(Step("flush"), ToRelease)

Closing(e, q) ==
  \/ e[1] = "clear_ids" /\ q = Push(Step("deactivate"), ToFlush)
  \/ e[1] = "deactivate" /\ q = ToFlush /\ threadIds = {}
  \/ e[1] = "flush" /\ q = ToRelease /\ threadIds = {} /\ ~queueActive
  \/ e[1] = "release" /\ q = <<>> /\ threadIds = {} /\ ~queueActive /\ queue = <<>>

NoWorker == \A w \in Workers : stack[w] = <<>>
Alone(w) == sessionData /\ \A v \in Workers : v # w => stack[v] = <<>>
Counted(w) == Alone(w) /\ threadIds = {w} /\ thrCount = 1

Waited(w) == Counted(w) /\ Owed /\ \E e, q : Doing(w, e, q) /\ OnLoop(e, q)
Served(w) == Counted(w) /\ \E e, q : Doing(w, e, q) /\ Service(e, q)
Closed(w) == Alone(w) /\ thrCount = 0 /\ Over /\ \E e, q : Doing(w, e, q) /\ Closing(e, q)
Gone == /\ NoWorker /\ thrCount = 0 /\ threadIds = {} /\ ~sessionData
        /\ state = "FINISHED" /\ SawAll /\ Done /\ queue = <<>> /\ ~queueActive

-----------------------------------------------------------------------------
(* The steps of the thread that controls the stream. *)

Later == {"SESSION_STOPPING", "STOPPED", "FINISHED"}
Since == {"RUNNING", "PAUSED"} \cup Later

ToWait(b, k) == Push(<<"wait", b>>, k)
ToInit  == Push(Step("initialize"), <<>>)
ToAwait(then) == Push(Step("wait_threads"), then)
ToClose(then) == Push(Step("close_queue"), ToAwait(then))

\* initialize() and close() end with these steps.
Then(q) == \/ q = <<>>
           \/ q = ToInit /\ state = "FINISHED"
\* What follows a wait().
Waits(q) == \/ q = <<>>
            \/ q = ToClose(<<>>)
            \/ q = ToClose(ToInit) /\ state = "FINISHED"
\* What follows a stop().
After(q) == \/ q = ToWait(FALSE, <<>>)
            \/ q = ToWait(TRUE, <<>>)
            \/ q = ToWait(TRUE, ToClose(<<>>))
            \/ q = ToWait(TRUE, ToClose(ToInit)) /\ state = "FINISHED"

\* stop() has MB_STOP still to queue.
Owing(e, q) ==
  \/ e[1] = "stopping" /\ After(q) /\ ~abortSent
  \/ e[1] \in {"put_stop", "put_stop_head"} /\ After(q)
  \/ \E k : After(k) /\ Aborting(e, q, Push(Step("put_stop_head"), k))

\* No MB_STOP is queued that the worker needs to finish the session.
Settled == state \in Later /\ ~(Unsent /\ Rest = <<"STOP">>)

Control(e, q) ==
  \/ e[1] \in {"stop", "stop_state"} /\ After(q) /\ state \in Since
  \/ e[1] = "change" /\ e[2] = "PAUSED" /\ q = <<>> /\ state \in Since
  \/ e[1] \in {"enter", "set"} /\ e[2] = "PAUSED" /\ q = <<>> /\ state = "RUNNING"
  \/ e[1] \in {"enter", "set"} /\ e[2] = "RUNNING" /\ state = "PAUSED"
     /\ \/ q = <<>>
        \/ \E k : After(k) /\ q = Push(<<"enter", "SESSION_STOPPING">>, k)
  \/ e[1] = "change" /\ e[2] = "SESSION_STOPPING" /\ After(q)
     /\ state \in {"RUNNING", "PAUSED"}
  \/ e[1] = "enter" /\ e[2] = "SESSION_STOPPING" /\ After(q) /\ state = "RUNNING"
  \/ \E k : After(k) /\ Aborting(e, q, Push(Step("unlock"), k)) /\ state \in Later
  \/ e[1] = "unlock" /\ After(q) /\ state \in Later
  \/ e[1] = "wait" /\ e[2] = FALSE /\ q = <<>> /\ state \in Since
  \/ e[1] = "wait" /\ e[2] = TRUE /\ Waits(q) /\ state \in Since
  \/ e[1] = "join" /\ Waits(q) /\ state \in Since
  \/ e[1] = "module_closed" /\ Then(q) /\ state \in Since
  \/ e[1] = "close_queue" /\ (\E k : Then(k) /\ q = ToAwait(k)) /\ Settled
  \/ e[1] = "wait_threads" /\ Then(q) /\ Settled
  \/ e[1] = "initialize" /\ q = <<>> /\ NoWorker

Controls(c) == \/ stack[c] = <<>> /\ state # "INITIALIZED"
               \/ \E e, q : Doing(c, e, q) /\ Control(e, q)
Owes(c) == \E e, q : Doing(c, e, q) /\ Owing(e, q)

-----------------------------------------------------------------------------
(* Between the sessions: initialize(), and start() up to its spawn. *)

Bare == NoWorker /\ thrCount = 0 /\ threadIds = {} /\ queueActive /\ ~abortSent
Tidy == SawNothing \/ SawAll

\* Nothing was done yet; there is session data; the last session is there to see.
Prepared == state = "INITIALIZED" /\ Unsent /\ Tidy /\ Rest = <<>> /\ ~sessionData
Opened   == state = "INITIALIZED" /\ Unsent /\ SawNothing /\ Rest = <<>> /\ sessionData
Past     == state = "FINISHED" /\ SawAll /\ Rest = <<>> /\ ~sessionData

Prepares(e, q) ==
  \/ e[1] = "start" /\ q = <<>> /\ Prepared
  \/ e[1] \in {"change", "enter"} /\ e[2] = "SESSION_STARTING" /\ q = <<>> /\ Prepared
  \/ e[1] = "starting" /\ q = <<>> /\ Opened
  \/ e[1] = "put" /\ e[2] = "BEGIN" /\ q = Push(Step("spawn"), <<>>) /\ Taken /\ sessionData
  \/ e[1] = "spawn" /\ q = <<>> /\ Fresh /\ sessionData
  \/ e[1] \in {"change", "enter"} /\ e[2] = "INITIALIZED" /\ q = <<>> /\ Past
  \/ e[1] = "set" /\ e[2] = "INITIALIZED" /\ q = <<>> /\ Past /\ Unsent

Preparing(c) == \/ stack[c] = <<>> /\ Prepared
                \/ \E e, q : Doing(c, e, q) /\ Prepares(e, q)

-----------------------------------------------------------------------------
(* The whole. *)

Feeds(u) == stack[u] = <<>> \/ Doing(u, <<"put", "DATA">>, <<>>)

Sound(c) == /\ ControlledBy(c)
            /\ \A u \in Users \ {c} : Feeds(u)
            /\ failed = {} /\ ~aborted /\ log["ABORT"] = 0 /\ taskLock \notin Users

InSession(c) ==
  \/ Bare /\ Preparing(c)
  \/ Gone /\ Controls(c)
  \/ \E w \in Workers : /\ Controls(c) /\ (Served(w) \/ Closed(w))
  \/ \E w \in Workers : Owes(c) /\ Waited(w)

SInv(c) == Sound(c) /\ InSession(c)
=============================================================================
