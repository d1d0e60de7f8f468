--------------------------- MODULE MCHeadModule ---------------------------
(* Instances of HeadModule for TLC: the applications that use the stream.  *)
EXTENDS HeadModuleProperties

CONSTANTS u1, u2

\* u1 makes the calls in first, u2 those in second, at most n in all.
Uses(concurrency, first, second, n) ==
  [mode |-> concurrency, api |-> [u \in Users |-> IF u = u1 THEN first ELSE second],
   calls |-> n, stopsEarly |-> FALSE, modulesAbort |-> FALSE, downstreamFails |-> FALSE,
   lentEnds |-> FALSE]

\* One thread controls the stream, another one feeds it.
Sessions == {"initialize", "start", "stop"}
StopAndFeed     == Uses("ACTIVE", Sessions, {"data"}, 6)
HardStopAndFeed == Uses("ACTIVE", Sessions \cup {"abort_stop"}, {"data"}, 5)
PauseAndFeed    == Uses("ACTIVE", Sessions \cup {"pause"}, {"data"}, 5)
FeedInline      == Uses("CONCURRENT", Sessions, {"data"}, 6)
\* The thread that starts the stream serves it, and ends.
FeedBorrowed    == [Uses("PASSIVE", {"start"}, {"data", "stop", "abort_stop", "pause"}, 5)
                      EXCEPT !.lentEnds = TRUE]
\* A module, or the application, aborts the session.
AbortAnyhow     == [Uses("ACTIVE", {"start"}, {"data", "notify", "notify_expedited"}, 4)
                      EXCEPT !.modulesAbort = TRUE]

OneController == {StopAndFeed, HardStopAndFeed, PauseAndFeed, FeedInline, FeedBorrowed,
                  AbortAnyhow}

\* Two threads control one session, which may be stopped before it has begun, or
\* whose data may not be passed on.
RaceToStop(n) == [Uses("ACTIVE", {"start", "stop"}, {"data", "stop", "abort_stop", "pause"}, n)
                    EXCEPT !.stopsEarly = TRUE]
TwoControllers == {RaceToStop(4), [RaceToStop(3) EXCEPT !.downstreamFails = TRUE]}

\* What shows where the code departs from its comments.
StopAndNotify == {Uses("ACTIVE", {"start", "stop"}, {"notify"}, 4)}
CloseEarly    == {Uses("ACTIVE", {"start", "stop", "close"}, {}, 3)}
AbortInline   == {Uses("CONCURRENT", {"start", "notify"}, {}, 3)}
PauseAndStop  == {Uses("ACTIVE", {"start", "stop"}, {"pause"}, 3)}
AbortSecond   == {Uses("ACTIVE", Sessions, {"notify"}, 5)}
LentForLonger == {[FeedBorrowed EXCEPT !.lentEnds = FALSE, !.calls = 2]}
DataRefused   == {[StopAndFeed EXCEPT !.downstreamFails = TRUE]}
=============================================================================
