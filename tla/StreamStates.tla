---------------------------- MODULE StreamStates ----------------------------
(***************************************************************************)
(* The states of Stream_StateMachine_ControlState and the transitions that *)
(* Stream_StateMachine_Control_T::change accepts.                          *)
(***************************************************************************)
EXTENDS Integers, Sequences

\* The numeric values of the enumeration: the code compares states with < and
\* >, and PAUSED lies above SESSION_STOPPING.
Rank ==
  [INVALID |-> -1, INITIALIZED |-> 0, SESSION_STARTING |-> 1, RUNNING |-> 2,
   SESSION_STOPPING |-> 3, PAUSED |-> 4, STOPPED |-> 5, FINISHED |-> 6]

States == {"INVALID", "INITIALIZED", "SESSION_STARTING", "RUNNING",
           "SESSION_STOPPING", "PAUSED", "STOPPED", "FINISHED"}

\* The requests change() accepts, as (current state, requested state) pairs.
Allowed ==
  { <<"INVALID", "INITIALIZED">>,
    <<"INITIALIZED", "INITIALIZED">>, <<"INITIALIZED", "SESSION_STARTING">>,
    <<"SESSION_STARTING", "RUNNING">>, <<"SESSION_STARTING", "SESSION_STOPPING">>,
    <<"RUNNING", "PAUSED">>, <<"RUNNING", "SESSION_STOPPING">>,
    <<"PAUSED", "PAUSED">>, <<"PAUSED", "RUNNING">>, <<"PAUSED", "SESSION_STOPPING">>,
    <<"SESSION_STOPPING", "STOPPED">>,
    <<"STOPPED", "INITIALIZED">>, <<"STOPPED", "SESSION_STARTING">>,
    <<"STOPPED", "FINISHED">>,
    <<"FINISHED", "INITIALIZED">>, <<"FINISHED", "SESSION_STARTING">> }

\* What an accepted request makes of the state, in order.  A tape recorder: a
\* request to pause a paused stream resumes it, and a paused stream is resumed
\* before it is stopped.
Route(from, to) ==
  CASE from = "PAUSED" /\ to = "PAUSED"           -> <<"RUNNING">>
    [] from = "PAUSED" /\ to = "SESSION_STOPPING" -> <<"RUNNING", "SESSION_STOPPING">>
    [] OTHER                                      -> <<to>>
=============================================================================
