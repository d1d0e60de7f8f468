---------------------------- MODULE MCAsynchTask ----------------------------
(* Instances of AsynchTask for TLC: the messages of a session.             *)
EXTENDS AsynchTaskProperties
=============================================================================
