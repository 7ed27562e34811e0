----------------------------- MODULE AuditTrail -----------------------------
(***************************************************************************)
(* What the audit sink of ofw-audit promises a reader of the log, with no  *)
(* files, locks or processes: records reach the trail one at a time, whole *)
(* and at its end, the trail never loses or reorders one, and an append    *)
(* answers Ok only for a record that is on the trail.                      *)
(***************************************************************************)
EXTENDS Sequences, Functions

CONSTANT Records        \* the records that may ever be written

VARIABLES
    trail,              \* the records a reader finds, oldest first
    acked               \* the records whose append has returned Ok

vars == <<trail, acked>>

Init ==
    /\ trail = <<>>
    /\ acked = {}

\* A record becomes readable.
Persist(r) ==
    /\ r \notin Range(trail)
    /\ trail' = Append(trail, r)
    /\ UNCHANGED acked

\* The writer of a readable record is told that the append succeeded.
Acknowledge(r) ==
    /\ r \in Range(trail) \ acked
    /\ acked' = acked \cup {r}
    /\ UNCHANGED trail

Next == \E r \in Records : Persist(r) \/ Acknowledge(r)

Spec == Init /\ [][Next]_vars
=============================================================================
