---------------------------- MODULE LinkedLists ----------------------------
(***************************************************************************)
(* A list that is linked through next(), as the sequence of its elements.  *)
(***************************************************************************)
EXTENDS FiniteSets, Integers, SequencesExt

\* The elements from first on, by way of link, up to end; one more than there are
\* if the links run in circles.
Path(first, link, end) ==
  LET N == Cardinality(DOMAIN link) + 1
      from[n \in 0..N] ==
        IF n = 0 THEN <<>>
        ELSE LET before == from[n - 1]
                 m == IF before = <<>> THEN first ELSE link[Last(before)]
             IN  IF Len(before) < n - 1 \/ m = end THEN before ELSE Append(before, m)
  IN  from[N]
=============================================================================
