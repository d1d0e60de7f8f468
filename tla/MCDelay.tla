------------------------------ MODULE MCDelay ------------------------------
(* Instances of Delay for TLC: how the module is configured and used. *)
EXTENDS DelayProperties

Use(m, catchUp, waits, resize, n, late) ==
  [mode |-> m, catchUp |-> catchUp, waits |-> waits,
   resizes |-> resize, faults |-> n, lateAbort |-> late]

\* Audio; images, one by one; a stream in which a call fails; one that does not wait
\* for its data and may be aborted after its end.
Audio == Use("invalid", FALSE, TRUE, TRUE, 0, FALSE)
Images == Use("messages", FALSE, TRUE, FALSE, 0, FALSE)
Failing == Use("bytes", TRUE, TRUE, FALSE, 1, FALSE)
Hasty == Use("bytes", FALSE, FALSE, FALSE, 0, TRUE)

AllUses == {Audio, Images, Failing, Hasty}
=============================================================================
