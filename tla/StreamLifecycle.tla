-------------------------- MODULE StreamLifecycle --------------------------
(***************************************************************************)
(* The life cycle a stream promises to an observer: one variable, no       *)
(* threads, each step a transition that                                    *)
(* Stream_StateMachine_Control_T::change accepts.  HeadModule is checked   *)
(* to implement it.                                                        *)
(***************************************************************************)
EXTENDS StreamStates

VARIABLE state

Init == state = "INITIALIZED"

Transition(to) ==
  /\ <<state, to>> \in Allowed
  /\ state' = Head(Route(state, to))

Next == \E to \in States : Transition(to)

Spec == Init /\ [][Next]_state
=============================================================================
