---------------------------- MODULE MCMetricCards -----------------------------
(***************************************************************************)
(* The cards of every definition with up to two names.                     *)
(***************************************************************************)
EXTENDS MetricCards

\* The values are 10, but for one query, or all are missing.
MCPolled(keys) ==
    {[k \in keys |-> IF k = other THEN v ELSE 10] : other \in keys, v \in {None, 0, 10, 13, 20}}
      \cup {[k \in keys |-> None]}
=============================================================================
