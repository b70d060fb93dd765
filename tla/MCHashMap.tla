----------------------------- MODULE MCHashMap -----------------------------
(* Instances of HashMap for TLC. *)
EXTENDS HashMap

CONSTANTS k1, k2, k3

\* All keys in one bucket for ever; two of them until the table has four buckets.
MCHashFuns ==
  {[k \in {k1, k2, k3} |-> 0],
   [k \in {k1, k2, k3} |-> IF k = k2 THEN 2 ELSE 0]}
=============================================================================
