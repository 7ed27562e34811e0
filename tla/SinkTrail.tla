------------------------------ MODULE SinkTrail ------------------------------
(***************************************************************************)
(* The refinement mapping under which an audit directory (AuditSink) is an *)
(* AuditTrail, and the circumstances in which it is one.                   *)
(***************************************************************************)
EXTENDS AuditSink, SequencesExt

\* The records on lines of their own in one file, in order.
LinesOf(contents) ==
    FlattenSeq([i \in 1..Len(contents) |->
                   IF WholeAt(contents, i) THEN <<contents[i].rec>> ELSE <<>>])

\* What a reader finds in the active segment.  While an open is rewriting it
\* the reader is owed what that open has read and kept.
ActiveLines ==
    IF \E p \in Procs : pc[p] = "rewrite"
      THEN LinesOf(Intact(snapshot[CHOOSE p \in Procs : pc[p] = "rewrite"]))
      ELSE LinesOf(Contents)

Trail ==
    FlattenSeq([i \in 1..Len(closed) |-> LinesOf(files[closed[i]])]) \o ActiveLines

AT == INSTANCE AuditTrail WITH trail <- Trail

\* The circumstances in which the trail is promised whole: no running writer
\* loses its lock, and one process at most is killed, by a signal or by its
\* watchdog, and leaves the directory to processes that come one at a time.
\* What happens in others is what sink_glued, sink_open_race and sink_stale_race
\* are about.
Dead == {p \in Procs : pc[p] = "dead"}
Calm ==
    /\ ~usurped'
    /\ Dead' # Dead => Dead = {} /\ \A p \in Procs : pc'[p] \in Stopped
    /\ Dead' # {} =>
          \A p, q \in Procs : pc'[p] \in Running /\ pc'[q] \in Running => p = q

CalmSpec == Init /\ [][Next /\ Calm]_vars

\* The directory behaves as the trail the sink promises: records arrive whole,
\* at the end, one at a time, and none is lost or answered Ok too early.
ImplementsTrail == AT!Spec
=============================================================================
