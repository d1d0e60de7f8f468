-------------------------- MODULE MCLinkedStreams --------------------------
(***************************************************************************)
(* Two linked streams, checked by TLC.                                     *)
(***************************************************************************)
EXTENDS LinkedStreamsProperties

\* Either a second session, or a second link, or a RESIZE.
AllUses == {[stopOnUnlink |-> TRUE, sessions |-> 2, links |-> 1, resizes |-> 0],
            [stopOnUnlink |-> FALSE, sessions |-> 1, links |-> 2, resizes |-> 0],
            [stopOnUnlink |-> FALSE, sessions |-> 1, links |-> 1, resizes |-> 1]}
=============================================================================
