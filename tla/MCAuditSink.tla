----------------------------- MODULE MCAuditSink -----------------------------
(***************************************************************************)
(* The audit sink on small instances, with the trail that it implements.   *)
(***************************************************************************)
EXTENDS SinkTrail

CONSTANTS a, b, c

Symmetry == Permutations(Procs)
=============================================================================
