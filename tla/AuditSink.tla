------------------------------ MODULE AuditSink ------------------------------
(***************************************************************************)
(* The append-only audit sink (crates/ofw-audit/src/sink.rs) as the        *)
(* processes that share an audit directory run it: every file-system call  *)
(* is a step of its own, because the directory is the only thing the       *)
(* processes share and nothing but the lock file orders their calls.       *)
(*                                                                         *)
(* Data abstraction.  A line of the log is two units: a head (some strict  *)
(* prefix of the record) and a tail that carries the rest and the newline. *)
(* A file is a sequence of units, so a torn, glued or interleaved line is  *)
(* visible and the text of a record is not.  Files are numbered like       *)
(* inodes, because a process keeps writing to the file it opened whatever  *)
(* name the file has by then.                                              *)
(*                                                                         *)
(* Bounds: MaxAppends, MaxClosed, MaxFaults, MaxCrashes.  Time is counted  *)
(* in ages that saturate, so there is no bound on it.                      *)
(***************************************************************************)
EXTENDS Naturals, Sequences, FiniteSets

CONSTANTS
    Procs,          \* processes that open the sink
    MaxAppends,     \* appends one open sink performs (the hook: one)
    MaxSegment,     \* MAX_SEGMENT_BYTES, in units
    MaxClosed,      \* the last index rotation tries
    LockTimeout,    \* LOCK_TIMEOUT
    StaleAfter,     \* LOCK_STALE_AFTER
    Armed,          \* TRUE: a watchdog ends the process (the hook, not assess)
    Deadline,       \* the watchdog's deadline
    TornReads,      \* TRUE: a read may observe a write that is in progress
    Skewed,         \* TRUE: a lock's modification time may lie in the future
    MaxFaults,      \* writes, syncs and removals on drop that may fail
    MaxCrashes,     \* processes that may be killed
    Free            \* no lock file

ASSUME NumbersAssumption ==
    /\ MaxAppends \in Nat \ {0}
    /\ {MaxSegment, MaxClosed, LockTimeout, StaleAfter, Deadline} \subseteq Nat
    /\ {MaxFaults, MaxCrashes} \subseteq Nat

ASSUME SwitchesAssumption ==
    {Armed, TornReads, Skewed} \subseteq BOOLEAN

Records == Procs \X (1..MaxAppends)

ASSUME FreeAssumption == Free \notin Records

Units == [rec : Records, end : BOOLEAN]

RecordUnits == 2        \* the length of one line

VARIABLES
    files,          \* contents by inode
    active,         \* inode named audit.jsonl, 0 when the name is absent
    closed,         \* inodes named audit.1.jsonl, audit.2.jsonl, ...
    quarantine,     \* units in audit.quarantine.<millis>.jsonl files
    lock,           \* the append that created the lock file, or Free
    lockAge,        \* ticks since its modification time
    pc,             \* where each process is
    count,          \* appends each process has finished
    snapshot,       \* what quarantine_partial_record read
    handle,         \* the inode a process has open for writing
    candidate,      \* the index rotation found unused
    health,         \* AuditSink.health
    result,         \* what the last open or append returned
    waited,         \* ticks since LockGuard::acquire was entered
    lived,          \* ticks since the process armed its watchdog
    acked,          \* records whose append returned Ok
    judged,         \* history: the lock a process saw to be stale
    usurped,        \* history: some running writer lost its lock to a breaker
    left,           \* history: locks whose removal on drop failed
    faults, crashes \* budgets spent

disk == <<files, active, closed, quarantine>>
lockVars == <<lock, lockAge, judged, usurped, left>>
local == <<count, snapshot, handle, candidate, health, result>>
time == <<waited, lived>>
budget == <<faults, crashes>>
vars == <<disk, lockVars, pc, local, time, acked, budget>>

Opening == {"read", "quarantine", "truncate", "rewrite"}
Acquiring == {"lock", "stat", "break"}
Critical == {"measure", "scan", "rename", "create", "head", "tail", "sync",
             "release"}
Running == Opening \cup {"opened"} \cup Acquiring \cup Critical
Stopped == {"idle", "done", "dead"}
Steps == Running \cup Stopped

Results == {"none", "ok", "LockUnavailable", "WriteFailed", "RotationFailed"}

\* The record process p is about to append, or is appending.
Record(p) == <<p, count[p] + 1>>

HeadUnit(r) == [rec |-> r, end |-> FALSE]
TailUnit(r) == [rec |-> r, end |-> TRUE]

InCritical(p) == pc[p] \in Critical

Goto(p, step) == pc' = [pc EXCEPT ![p] = step]

\* contents.ends_with(b"\n"), or nothing to end.
Terminated(c) == c = <<>> \/ c[Len(c)].end

\* The bytes after the last newline (rposition): where quarantine splits.
\* SplitShort is the mutation that forgets to step over the newline.
LineEnds(c) == {i \in 1..Len(c) : c[i].end}
TornPart(c) == {i \in 1..Len(c) : \A j \in i..Len(c) : ~c[j].end}
SplitShort(c) == Len(c) - Cardinality(TornPart(c)) - 1
Split(c) == Len(c) - Cardinality(TornPart(c))
Intact(c) == SubSeq(c, 1, Split(c))
Damaged(c) == {c[i] : i \in TornPart(c)}

Contents == IF active = 0 THEN <<>> ELSE files[active]

\* should_rotate: an empty segment never rotates.
ShouldRotate(existing) ==
    existing > 0 /\ existing + RecordUnits > MaxSegment

\* The age of a lock whose modification time lies in the future: elapsed() is
\* an error, and the lock is not stale for as long as anyone waits.
Future == StaleAfter + 2

\* is_stale, for the lock file as it is now; StaleEarly moves the boundary.
StaleEarly == lock # Free /\ lockAge >= StaleAfter /\ lockAge # Future
LockIsStale == lock # Free /\ lockAge > StaleAfter /\ lockAge # Future

\* The deadline LockGuard::acquire fixed; NeverTimedOut forgets to look at it.
NeverTimedOut(p) == FALSE
TimedOut(p) == waited[p] >= LockTimeout

\* A process breaks a stale lock before it looks at its deadline; BreaksInTime
\* looks at the deadline first.
BreaksInTime(p) == LockIsStale /\ ~TimedOut(p)
Breaks(p) == LockIsStale

\* create_new(true) creates the lock file; CreateAnyway is create(true).
CreateAnyway == TRUE
CreateNew == lock = Free

\* LockGuard::drop: remove_file, whose result is discarded, so the file may
\* still be there afterwards.  ForgetGuard is a return without the destructor.
ForgetGuard == UNCHANGED <<lock, left, faults>>
DropGuard ==
    \/ lock' = Free /\ UNCHANGED <<left, faults>>
    \/ /\ lock # Free /\ faults < MaxFaults
       /\ faults' = faults + 1
       /\ left' = left \cup {lock}
       /\ UNCHANGED lock

\* The indices rotation may use; AnyIndex does not look whether a file exists.
AnyIndex == 1..MaxClosed
UnusedIndex == (Len(closed) + 1)..MaxClosed
-----------------------------------------------------------------------------
Init ==
    /\ files = <<>>
    /\ active = 0
    /\ closed = <<>>
    /\ quarantine = {}
    /\ lock = Free
    /\ lockAge = 0
    /\ pc = [p \in Procs |-> "idle"]
    /\ count = [p \in Procs |-> 0]
    /\ snapshot = [p \in Procs |-> <<>>]
    /\ handle = [p \in Procs |-> 0]
    /\ candidate = [p \in Procs |-> 0]
    /\ health = [p \in Procs |-> "Healthy"]
    /\ result = [p \in Procs |-> "none"]
    /\ waited = [p \in Procs |-> 0]
    /\ lived = [p \in Procs |-> 0]
    /\ acked = {}
    /\ judged = [p \in Procs |-> Free]
    /\ usurped = FALSE
    /\ left = {}
    /\ faults = 0
    /\ crashes = 0

\* The process calls AuditSink::open (its watchdog is armed just before).
Start(p) ==
    /\ pc[p] = "idle"
    /\ Goto(p, "read")
    /\ UNCHANGED <<disk, lockVars, local, time, acked, budget>>

\* std::fs::read of the active segment, with no lock held.
OpenRead(p) ==
    /\ pc[p] = "read"
    /\ TornReads \/ \A q \in Procs : pc[q] # "tail"
    /\ IF Terminated(Contents)
         THEN /\ Goto(p, "opened")
              /\ UNCHANGED snapshot
         ELSE /\ Goto(p, "quarantine")
              /\ snapshot' = [snapshot EXCEPT ![p] = Contents]
    /\ UNCHANGED <<disk, lockVars, count, handle, candidate, health, result,
                   time, acked, budget>>

\* Mutation: the damaged bytes are not kept.
QuarantineNothing(p) ==
    /\ pc[p] = "quarantine"
    /\ Goto(p, "truncate")
    /\ UNCHANGED <<disk, lockVars, local, time, acked, budget>>

\* std::fs::write of the damaged bytes to the quarantine file.
QuarantineWrite(p) ==
    /\ pc[p] = "quarantine"
    /\ quarantine' = quarantine \cup Damaged(snapshot[p])
    /\ Goto(p, "truncate")
    /\ UNCHANGED <<files, active, closed, lockVars, local, time, acked, budget>>

\* std::fs::write of the intact bytes opens the active segment truncating it
\* (creating it when rotation has just taken the name away) ...
QuarantineTruncate(p) ==
    /\ pc[p] = "truncate"
    /\ IF active = 0
         THEN /\ files' = Append(files, <<>>)
              /\ active' = Len(files) + 1
         ELSE /\ files' = [files EXCEPT ![active] = <<>>]
              /\ UNCHANGED active
    /\ handle' = [handle EXCEPT ![p] = active']
    /\ Goto(p, "rewrite")
    /\ UNCHANGED <<closed, quarantine, lockVars, count, snapshot, candidate,
                   health, result, time, acked, budget>>

\* ... and then writes them from offset zero, over whatever was appended since.
QuarantineRewrite(p) ==
    LET intact == Intact(snapshot[p])
        now == files[handle[p]]
    IN  /\ pc[p] = "rewrite"
        /\ files' = [files EXCEPT ![handle[p]] =
                        intact \o SubSeq(now, Len(intact) + 1, Len(now))]
        /\ health' = [health EXCEPT ![p] = "Degraded"]
        /\ snapshot' = [snapshot EXCEPT ![p] = <<>>]
        /\ Goto(p, "opened")
        /\ UNCHANGED <<active, closed, quarantine, lockVars, count, handle,
                       candidate, result, time, acked, budget>>

\* Either write of the quarantine path fails, the second one when it opens the
\* segment or later: open returns WriteFailed.
QuarantineFails(p) ==
    /\ pc[p] \in {"quarantine", "truncate", "rewrite"}
    /\ faults < MaxFaults
    /\ faults' = faults + 1
    /\ result' = [result EXCEPT ![p] = "WriteFailed"]
    /\ Goto(p, "done")
    /\ UNCHANGED <<disk, lockVars, count, snapshot, handle, candidate, health,
                   time, acked, crashes>>

\* The owner of an open sink drops it.
Close(p) ==
    /\ pc[p] = "opened"
    /\ Goto(p, "done")
    /\ UNCHANGED <<disk, lockVars, local, time, acked, budget>>

\* append enters LockGuard::acquire, which fixes its deadline.
BeginAppend(p) ==
    /\ pc[p] = "opened"
    /\ count[p] < MaxAppends
    /\ waited' = [waited EXCEPT ![p] = 0]
    /\ Goto(p, "lock")
    /\ UNCHANGED <<disk, lockVars, local, lived, acked, budget>>

\* create_new of the lock file.
TryLock(p) ==
    /\ pc[p] = "lock"
    /\ IF CreateNew
         THEN /\ lock' = Record(p)
              /\ lockAge' \in {0} \cup (IF Skewed THEN {Future} ELSE {})
              /\ Goto(p, "measure")
         ELSE /\ Goto(p, "stat")
              /\ UNCHANGED <<lock, lockAge>>
    /\ UNCHANGED <<disk, judged, usurped, left, local, time, acked, budget>>

\* append returned e.
Finish(p, e) ==
    /\ result' = [result EXCEPT ![p] = e]
    /\ count' = [count EXCEPT ![p] = @ + 1]
    /\ Goto(p, IF count[p] + 1 < MaxAppends THEN "opened" ELSE "done")

\* create_new failed: is the lock stale, and if not, is there time left?
StatLock(p) ==
    /\ pc[p] = "stat"
    /\ IF Breaks(p)
         THEN /\ judged' = [judged EXCEPT ![p] = lock]
              /\ Goto(p, "break")
              /\ UNCHANGED <<count, result>>
         ELSE /\ UNCHANGED judged
              /\ IF TimedOut(p)
                   THEN Finish(p, "LockUnavailable")
                   ELSE Goto(p, "lock") /\ UNCHANGED <<count, result>>
    /\ UNCHANGED <<disk, lock, lockAge, usurped, left, snapshot, handle,
                   candidate, health, time, acked, budget>>

\* remove_file of the lock path, whichever lock file has that name by now.  Its
\* result is discarded, so that file may still be there afterwards.
BreakLock(p) ==
    /\ pc[p] = "break"
    /\ Goto(p, "lock")
    /\ lock' = Free \/ UNCHANGED lock
    /\ usurped' = \/ usurped
                  \/ /\ lock' # lock
                     /\ \E q \in Procs : InCritical(q) /\ lock = Record(q)
    /\ UNCHANGED <<disk, lockAge, judged, left, local, time, acked, budget>>

\* metadata of the active segment decides on rotation.
Measure(p) ==
    /\ pc[p] = "measure"
    /\ Goto(p, IF ShouldRotate(Len(Contents)) THEN "scan" ELSE "create")
    /\ UNCHANGED <<disk, lockVars, local, time, acked, budget>>

\* rotate looks for the first index with no file.
Scan(p) ==
    /\ pc[p] = "scan"
    /\ IF UnusedIndex # {}
         THEN /\ \E i \in UnusedIndex :
                    /\ \A j \in UnusedIndex : i <= j
                    /\ candidate' = [candidate EXCEPT ![p] = i]
              /\ Goto(p, "rename")
              /\ UNCHANGED result
         ELSE /\ result' = [result EXCEPT ![p] = "RotationFailed"]
              /\ Goto(p, "release")
              /\ UNCHANGED candidate
    /\ UNCHANGED <<disk, lockVars, count, snapshot, handle, health, time,
                   acked, budget>>

\* rename moves the active segment there, replacing a file that has appeared.
Rename(p) ==
    /\ pc[p] = "rename"
    /\ IF active = 0
         THEN /\ result' = [result EXCEPT ![p] = "RotationFailed"]
              /\ Goto(p, "release")
              /\ UNCHANGED <<active, closed>>
         ELSE /\ closed' = IF candidate[p] <= Len(closed)
                             THEN [closed EXCEPT ![candidate[p]] = active]
                             ELSE Append(closed, active)
              /\ active' = 0
              /\ Goto(p, "create")
              /\ UNCHANGED result
    /\ UNCHANGED <<files, quarantine, lockVars, count, snapshot, handle,
                   candidate, health, time, acked, budget>>

\* Mutation: the process keeps the handle it had.
OpenAppendStale(p) ==
    /\ pc[p] = "create"
    /\ Goto(p, "head")
    /\ UNCHANGED <<disk, lockVars, local, time, acked, budget>>

\* The active segment is opened for appending, and created if need be.
OpenAppend(p) ==
    /\ pc[p] = "create"
    /\ IF active = 0
         THEN /\ files' = Append(files, <<>>)
              /\ active' = Len(files) + 1
         ELSE UNCHANGED <<files, active>>
    /\ handle' = [handle EXCEPT ![p] = active']
    /\ Goto(p, "head")
    /\ UNCHANGED <<closed, quarantine, lockVars, count, snapshot, candidate,
                   health, result, time, acked, budget>>

\* write_all has put the first bytes of the line at the end of the file ...
WriteHead(p) ==
    /\ pc[p] = "head"
    /\ files' = [files EXCEPT ![handle[p]] = Append(@, HeadUnit(Record(p)))]
    /\ Goto(p, "tail")
    /\ UNCHANGED <<active, closed, quarantine, lockVars, local, time, acked,
                   budget>>

\* ... and the last ones.
WriteTail(p) ==
    /\ pc[p] = "tail"
    /\ files' = [files EXCEPT ![handle[p]] = Append(@, TailUnit(Record(p)))]
    /\ Goto(p, "sync")
    /\ UNCHANGED <<active, closed, quarantine, lockVars, local, time, acked,
                   budget>>

\* Opening, writing (before or after the first bytes) or syncing fails.
WriteFails(p) ==
    /\ pc[p] \in {"create", "head", "tail", "sync"}
    /\ faults < MaxFaults
    /\ faults' = faults + 1
    /\ result' = [result EXCEPT ![p] = "WriteFailed"]
    /\ Goto(p, "release")
    /\ UNCHANGED <<disk, lockVars, count, snapshot, handle, candidate, health,
                   time, acked, crashes>>

\* sync_all succeeded: append will return Ok.
Sync(p) ==
    /\ pc[p] = "sync"
    /\ result' = [result EXCEPT ![p] = "ok"]
    /\ Goto(p, "release")
    /\ UNCHANGED <<disk, lockVars, count, snapshot, handle, candidate, health,
                   time, acked, budget>>

\* Drop removes the lock file, whoever created it, or fails to, and append
\* returns what it would have returned anyway.
Release(p) ==
    /\ pc[p] = "release"
    /\ DropGuard
    /\ acked' = IF result[p] = "ok" THEN acked \cup {Record(p)} ELSE acked
    /\ Finish(p, result[p])
    /\ UNCHANGED <<disk, lockAge, judged, usurped, snapshot, handle, candidate,
                   health, time, crashes>>

\* A process is killed: no destructor runs, so its lock file stays.
Die(p) ==
    /\ Goto(p, "dead")
    /\ UNCHANGED <<disk, lockVars, local, time, acked, faults>>

Crash(p) ==
    /\ pc[p] \in Running
    /\ crashes < MaxCrashes
    /\ crashes' = crashes + 1
    /\ Die(p)

\* The watchdog calls process::exit, which runs no destructor either.
Expire(p) ==
    /\ Armed
    /\ pc[p] \in Running
    /\ lived[p] >= Deadline
    /\ Die(p)
    /\ UNCHANGED crashes

Bump(n, max) == IF n < max THEN n + 1 ELSE n

NextAge ==
    IF lock = Free \/ lockAge = Future THEN lockAge
                                      ELSE Bump(lockAge, StaleAfter + 1)

\* One unit of time passes; a watchdog that is due is not put off.
Tick ==
    /\ Armed => \A p \in Procs : pc[p] \in Running => lived[p] < Deadline
    /\ lockAge' = NextAge
    /\ waited' = [p \in Procs |-> IF pc[p] \in Acquiring
                                    THEN Bump(waited[p], LockTimeout)
                                    ELSE waited[p]]
    /\ lived' = [p \in Procs |-> IF Armed /\ pc[p] \in Running
                                   THEN lived[p] + 1 ELSE lived[p]]
    /\ UNCHANGED <<disk, lock, judged, usurped, left, pc, local, acked, budget>>

Open(p) == OpenRead(p) \/ QuarantineWrite(p) \/ QuarantineTruncate(p)
             \/ QuarantineRewrite(p) \/ QuarantineFails(p)
Acquire(p) == TryLock(p) \/ StatLock(p) \/ BreakLock(p)
Rotate(p) == Measure(p) \/ Scan(p) \/ Rename(p)
Write(p) == OpenAppend(p) \/ WriteHead(p) \/ WriteTail(p) \/ WriteFails(p)
              \/ Sync(p) \/ Release(p)

\* What the process does by itself once it has called into the sink.
Work(p) == Open(p) \/ Acquire(p) \/ Rotate(p) \/ Write(p)

Next ==
    \/ Tick
    \/ \E p \in Procs : \/ Start(p) \/ Close(p) \/ BeginAppend(p)
                        \/ Work(p)
                        \/ Crash(p) \/ Expire(p)

Spec == Init /\ [][Next]_vars

\* The scheduler runs a process that can run, and the clock advances.
\* Nothing obliges a caller to open a sink or to append to it.
Fairness == WF_vars(Tick) /\ \A p \in Procs : WF_vars(Work(p)) /\ WF_vars(Expire(p))

FairSpec == Spec /\ Fairness
-----------------------------------------------------------------------------
\* The properties.

\* Position i of c ends a line that is exactly one record.
WholeAt(c, i) ==
    /\ i > 1 /\ c[i].end
    /\ c[i - 1] = HeadUnit(c[i].rec)
    /\ i = 2 \/ c[i - 2].end

Linked == {closed[i] : i \in 1..Len(closed)} \cup ({active} \ {0})

\* The records a reader of the directory finds on a line of their own.
Readable ==
    {r \in Records : \E f \in Linked : \E i \in 1..Len(files[f]) :
        WholeAt(files[f], i) /\ files[f][i].rec = r}

DiskType ==
    /\ files \in Seq(Seq(Units))
    /\ active \in 0..Len(files)
    /\ closed \in Seq(1..Len(files))
    /\ quarantine \subseteq Units

LockType ==
    /\ lock \in Records \cup {Free}
    /\ lockAge \in 0..Future
    /\ judged \in [Procs -> Records \cup {Free}]
    /\ usurped \in BOOLEAN
    /\ left \subseteq Records

StepType ==
    /\ pc \in [Procs -> Steps]
    /\ count \in [Procs -> 0..MaxAppends]
    /\ \A p \in Procs :
          pc[p] \in Acquiring \cup Critical => count[p] < MaxAppends

LocalType ==
    /\ snapshot \in [Procs -> Seq(Units)]
    /\ handle \in [Procs -> 0..Len(files)]
    /\ \A p \in Procs :
          pc[p] \in {"rewrite", "head", "tail"} => handle[p] # 0
    /\ candidate \in [Procs -> Nat]
    /\ \A p \in Procs : pc[p] = "rename" => candidate[p] # 0

ReportType ==
    /\ health \in [Procs -> {"Healthy", "Degraded"}]
    /\ result \in [Procs -> Results]
    /\ acked \subseteq Records

CounterType ==
    /\ waited \in [Procs -> Nat]
    /\ lived \in [Procs -> Nat]
    /\ faults \in Nat
    /\ crashes \in Nat

\* The value of every variable is one the code can give it; in particular a
\* process that is about to write has a file open.
TypeOK ==
    /\ DiskType /\ LockType /\ StepType
    /\ LocalType /\ ReportType /\ CounterType

\* Exclusive append (sink.rs "Exclusive append"): two processes are between
\* taking the lock and returning from append only after a breaker has removed
\* the lock of a process that was still running.
MutualExclusion ==
    ~usurped => \A p, q \in Procs : InCritical(p) /\ InCritical(q) => p = q

\* While no running writer has been usurped, a lock file has an owner inside
\* append, or it is abandoned in one of the two ways the code accounts for:
\* its creator was killed, or the guard's drop ran and could not remove the
\* file.  No return, an error return included, leaves a lock any other way.
LockHasOwner ==
    ~usurped => \/ lock \in left \cup {Free}
                \/ \E p \in Procs : /\ lock = Record(p)
                                     /\ (InCritical(p) \/ pc[p] = "dead")

\* The inductive form of the two: while no writer has been usurped, the lock
\* file of a writer is the one that the append under way created.
HolderInv ==
    /\ ~usurped => \A p \in Procs : InCritical(p) => lock = Record(p)
    /\ LockHasOwner

\* LOCK_STALE_AFTER against the hook's deadline: with the watchdog armed, the
\* lock that a process has judged stale never belongs to a running writer, so
\* a running writer loses its lock only to a breaker that removes another
\* lock file than the one it judged.
LiveLockNotJudged ==
    Armed /\ Deadline <= StaleAfter => \A p, q \in Procs :
        pc[p] = "break" /\ judged[p] = lock /\ lock = Record(q) => ~InCritical(q)

\* Its inductive form, in three parts.  A lock file was created by an append
\* that is over, under way, or cut short by a kill ...
Used(r) ==
    \/ r[2] <= count[r[1]]
    \/ r[2] = count[r[1]] + 1 /\ (InCritical(r[1]) \/ pc[r[1]] = "dead")
LockUsed == lock # Free => Used(lock)

\* ... it is no older than the process of an append under way, which the
\* watchdog keeps within its deadline ...
LockYoung ==
    Armed => \A p \in Procs :
        /\ lived[p] <= Deadline
        /\ InCritical(p) /\ lock = Record(p) =>
              lockAge <= lived[p] \/ lockAge = Future

\* ... and the append that created a lock judged stale never runs again.
Over(r) == r[2] <= count[r[1]] \/ pc[r[1]] = "dead"
JudgedOver ==
    Armed /\ Deadline <= StaleAfter =>
        \A p \in Procs : judged[p] # Free => Over(judged[p])

\* No step of an append or a rotation takes a readable record away: only the
\* rewriting of the active segment by an open can.
AppendNeverErases ==
    [][~usurped =>
         \/ Readable \subseteq Readable'
         \/ \E p \in Procs : pc[p] \in {"truncate", "rewrite"} /\ pc'[p] # pc[p]]_vars

\* The bytes of an unfinished line leave the log only after they were written
\* to a quarantine file, wherever a crash falls (quarantine_partial_record).
DamageQuarantinedFirst ==
    [][\A f \in Linked : \A u \in Damaged(files[f]) :
         \/ u \in quarantine'
         \/ \E i \in 1..Len(files'[f]) : files'[f][i] = u]_vars

\* "There is no path where a write silently does not happen" (sink.rs:20-21):
\* once append has returned Ok, the end of its record is somewhere in the log
\* or in a quarantine file, except while an open is rewriting a segment.
AckedNotErased ==
    (\A p \in Procs : pc[p] # "rewrite") =>
        \A r \in acked : \/ TailUnit(r) \in quarantine
                         \/ \E f \in Linked : \E i \in 1..Len(files[f]) :
                               files[f][i] = TailUnit(r)

\* "A record is a whole line or it is not there" (sink.rs:15): every
\* terminated line of every segment is exactly one record.
WholeLines ==
    \A f \in Linked : \A i \in LineEnds(files[f]) : WholeAt(files[f], i)

\* "the quarantine path is what catches its result" (sink.rs:101): when
\* every process has stopped, damage is at most an unterminated last line.
InterleavingCaught ==
    (\A p \in Procs : pc[p] \in Stopped) =>
        WholeLines \/ ~Terminated(Contents)

\* A remove_file by a breaker that left the lock file where it was.
FailedRemoval(p) == BreakLock(p) /\ lock # Free /\ lock' = lock

\* "How long to keep trying for the lock before giving up" (sink.rs:89): an
\* attempt to take the lock ends, with the lock or with LockUnavailable, unless
\* the process again and again fails to remove a stale lock.  The exception is
\* the code's: acquire discards the result of remove_file and tries again
\* without looking at its deadline (sink.rs:305-307).
LockAttemptEnds ==
    \A p \in Procs : \/ []<><<FailedRemoval(p)>>_vars
                     \/ (pc[p] \in Acquiring ~> pc[p] \notin Acquiring)

\* A lock left by a killed process, or by a drop that could not remove it, does
\* not wedge auditing (the staleness check "clears" it, sink.rs:331-332): once
\* it is stale, a process that waits for it sees it gone, unless that process
\* is killed first or again and again fails to remove it.
StaleLockFalls ==
    \A p \in Procs :
        \/ []<><<FailedRemoval(p)>>_vars
        \/ (pc[p] \in {"lock", "stat"} /\ LockIsStale ~>
               ~LockIsStale \/ pc[p] = "dead")
=============================================================================
