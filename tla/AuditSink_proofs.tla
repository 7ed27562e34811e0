-------------------------- MODULE AuditSink_proofs --------------------------
(***************************************************************************)
(* What TLAPS proves of the audit sink, for any number of processes and    *)
(* appends and any values of the bounds and timeouts.                      *)
(***************************************************************************)
EXTENDS SinkTrail, SequenceTheorems, FiniteSetTheorems, WellFoundedInduction, TLAPS

\* Splitting contents at the last newline leaves a sequence of units.
LEMMA IntactType ==
    ASSUME NEW c \in Seq(Units)
    PROVE  Intact(c) \in Seq(Units)
<1>1. /\ IsFiniteSet(TornPart(c))
      /\ Cardinality(TornPart(c)) \in 0..Len(c)
  <2>1. TornPart(c) \subseteq 1..Len(c)
    BY DEF TornPart
  <2>2. Len(c) \in Nat
    BY LenProperties
  <2>3. IsFiniteSet(1..Len(c)) /\ Cardinality(1..Len(c)) = Len(c)
    BY SMTT(60), <2>2, FS_Interval
  <2>4. QED
    BY <2>1, <2>2, <2>3, FS_Subset, FS_CardinalityType
<1>2. Split(c) \in 0..Len(c)
  BY <1>1 DEF Split
<1>3. QED
  BY <1>2, ElementOfSeq, LenProperties, SubSeqProperties DEF Intact

\* The damaged part of a sequence of units is a set of units.
LEMMA DamagedType ==
    ASSUME NEW c \in Seq(Units)
    PROVE  Damaged(c) \subseteq Units
BY ElementOfSeq DEF Damaged, TornPart

\* Appending a unit to one file of a directory leaves files of units.
LEMMA WriteType ==
    ASSUME NEW fs \in Seq(Seq(Units)), NEW h \in 1..Len(fs), NEW u \in Seq(Units)
    PROVE  /\ [fs EXCEPT ![h] = u] \in Seq(Seq(Units))
           /\ Len([fs EXCEPT ![h] = u]) = Len(fs)
BY ExceptSeq

\* The record a process appends is one of Records while it has appends left.
LEMMA RecordType ==
    ASSUME NEW p \in Procs, count \in [Procs -> 0..MaxAppends],
           count[p] < MaxAppends
    PROVE  Record(p) \in Records
BY NumbersAssumption DEF Record, Records
\* A new empty file extends the files and keeps the names that exist.
LEMMA NewFileType ==
    ASSUME DiskType
    PROVE  /\ Append(files, <<>>) \in Seq(Seq(Units))
           /\ Len(Append(files, <<>>)) = Len(files) + 1
           /\ Len(files) + 1 \in 0..Len(Append(files, <<>>))
           /\ active \in 0..Len(Append(files, <<>>))
           /\ closed \in Seq(1..Len(Append(files, <<>>)))
<1>1. Len(files) \in Nat
  BY LenProperties DEF DiskType
<1>2. /\ Append(files, <<>>) \in Seq(Seq(Units))
      /\ Len(Append(files, <<>>)) = Len(files) + 1
  BY EmptySeq, AppendProperties DEF DiskType
<1>3. 1..Len(files) \subseteq 1..(Len(files) + 1)
  BY <1>1
<1>4. closed \in Seq(1..(Len(files) + 1))
  BY <1>3, SeqMonotonic DEF DiskType
<1>5. QED
  BY <1>1, <1>2, <1>4 DEF DiskType

USE NumbersAssumption, SwitchesAssumption, FreeAssumption
    DEF Opening, Acquiring, Critical, Running, Stopped, Steps, Results,
        disk, lockVars, local, time, budget, Goto, CreateNew, Breaks,
        DropGuard, TimedOut

\* Every file stays a sequence of units and every name keeps naming a file.
LEMMA DiskStep ==
    ASSUME TypeOK, [Next]_vars
    PROVE  DiskType'
<1>1. ASSUME NEW p \in Procs, QuarantineWrite(p) PROVE DiskType'
  <2>1. Damaged(snapshot[p]) \subseteq Units
    BY DamagedType DEF TypeOK, LocalType
  <2>2. QED
    BY <1>1, <2>1 DEF TypeOK, DiskType, QuarantineWrite
<1>2. ASSUME NEW p \in Procs, QuarantineTruncate(p) PROVE DiskType'
  <2>1. CASE active = 0
    BY <1>2, <2>1, NewFileType DEF TypeOK, DiskType, QuarantineTruncate
  <2>2. CASE active # 0
    <3>1. active \in 1..Len(files) /\ <<>> \in Seq(Units)
      BY <2>2, EmptySeq, LenProperties DEF TypeOK, DiskType
    <3>2. QED
      BY ZenonT(60), <1>2, <2>2, <3>1, WriteType DEF TypeOK, DiskType, QuarantineTruncate
  <2>3. QED
    BY <2>1, <2>2
<1>3. ASSUME NEW p \in Procs, QuarantineRewrite(p) PROVE DiskType'
  <2> DEFINE now == files[handle[p]]
             kept == Intact(snapshot[p])
  <2>1. handle[p] \in 1..Len(files) /\ now \in Seq(Units) /\ kept \in Seq(Units)
    <3>1. handle[p] \in 1..Len(files)
      BY <1>3, LenProperties DEF TypeOK, DiskType, LocalType, QuarantineRewrite
    <3>2. now \in Seq(Units)
      BY <3>1, ElementOfSeq DEF TypeOK, DiskType
    <3>3. kept \in Seq(Units)
      BY IntactType DEF TypeOK, LocalType
    <3>4. QED
      BY <3>1, <3>2, <3>3
  <2>2. SubSeq(now, Len(kept) + 1, Len(now)) \in Seq(Units)
    BY <2>1, ElementOfSeq, LenProperties, SubSeqProperties
  <2>3. kept \o SubSeq(now, Len(kept) + 1, Len(now)) \in Seq(Units)
    BY <2>1, <2>2, ConcatProperties
  <2>4. QED
    BY <1>3, <2>1, <2>3, WriteType DEF TypeOK, DiskType, QuarantineRewrite
<1>4. ASSUME NEW p \in Procs, Rename(p) PROVE DiskType'
  <2>1. CASE active = 0
    BY <1>4, <2>1 DEF TypeOK, DiskType, Rename
  <2>2. CASE active # 0
    <3>1. /\ Len(files) \in Nat /\ active \in 1..Len(files)
          /\ Len(closed) \in Nat /\ candidate[p] \in Nat
      BY <2>2, LenProperties DEF TypeOK, DiskType, LocalType
    <3>2. Append(closed, active) \in Seq(1..Len(files))
      BY <3>1, AppendProperties DEF TypeOK, DiskType
    <3>3. candidate[p] \in 1..Len(closed) =>
            [closed EXCEPT ![candidate[p]] = active] \in Seq(1..Len(files))
      BY <3>1, ExceptSeq DEF TypeOK, DiskType
    <3>4. pc[p] = "rename" => candidate[p] # 0
      BY DEF TypeOK, LocalType
    <3>5. CASE candidate[p] <= Len(closed)
      <4>1. candidate[p] \in 1..Len(closed)
        BY <1>4, <3>1, <3>4, <3>5 DEF Rename
      <4>2. closed' \in Seq(1..Len(files)) /\ active' = 0 /\ files' = files
              /\ quarantine' = quarantine
        BY <1>4, <2>2, <3>3, <3>5, <4>1 DEF Rename
      <4>3. QED
        BY <3>1, <4>2 DEF TypeOK, DiskType
    <3>6. CASE ~(candidate[p] <= Len(closed))
      <4>1. closed' \in Seq(1..Len(files)) /\ active' = 0 /\ files' = files
              /\ quarantine' = quarantine
        BY <1>4, <2>2, <3>2, <3>6 DEF Rename
      <4>2. QED
        BY <3>1, <4>1 DEF TypeOK, DiskType
    <3>7. QED
      BY <3>5, <3>6
  <2>3. QED
    BY <2>1, <2>2
<1>5. ASSUME NEW p \in Procs, OpenAppend(p) PROVE DiskType'
  BY <1>5, NewFileType DEF TypeOK, DiskType, OpenAppend
<1>6. ASSUME NEW p \in Procs, WriteHead(p) PROVE DiskType'
  <2>1. handle[p] \in 1..Len(files) /\ files[handle[p]] \in Seq(Units)
    BY SMTT(60), <1>6, ElementOfSeq, LenProperties DEF TypeOK, DiskType, LocalType, WriteHead
  <2>2. HeadUnit(Record(p)) \in Units
    BY <1>6, RecordType DEF TypeOK, StepType, WriteHead, HeadUnit, Units
  <2>3. Append(files[handle[p]], HeadUnit(Record(p))) \in Seq(Units)
    BY <2>1, <2>2, AppendProperties
  <2>4. QED
    BY <1>6, <2>1, <2>3, WriteType DEF TypeOK, DiskType, WriteHead
<1>7. ASSUME NEW p \in Procs, WriteTail(p) PROVE DiskType'
  <2>1. handle[p] \in 1..Len(files) /\ files[handle[p]] \in Seq(Units)
    BY SMTT(60), <1>7, ElementOfSeq, LenProperties DEF TypeOK, DiskType, LocalType, WriteTail
  <2>2. TailUnit(Record(p)) \in Units
    BY <1>7, RecordType DEF TypeOK, StepType, WriteTail, TailUnit, Units
  <2>3. Append(files[handle[p]], TailUnit(Record(p))) \in Seq(Units)
    BY <2>1, <2>2, AppendProperties
  <2>4. QED
    BY <1>7, <2>1, <2>3, WriteType DEF TypeOK, DiskType, WriteTail
<1>8. ASSUME NEW p \in Procs,
             \/ Start(p) \/ OpenRead(p) \/ QuarantineFails(p) \/ Close(p)
             \/ BeginAppend(p) \/ TryLock(p) \/ StatLock(p) \/ BreakLock(p)
             \/ Measure(p) \/ Scan(p) \/ WriteFails(p) \/ Sync(p)
             \/ Release(p) \/ Crash(p) \/ Expire(p)
      PROVE  DiskType'
  <2>1. UNCHANGED disk
    BY <1>8 DEF Start, OpenRead, QuarantineFails, Close, BeginAppend, TryLock,
      StatLock, BreakLock, Measure, Scan, WriteFails, Sync, Release, Crash,
      Expire, Die, Finish
  <2>2. QED
    BY <2>1 DEF TypeOK, DiskType
<1>9. CASE Tick
  BY <1>9 DEF TypeOK, DiskType, Tick, NextAge, Bump, Future
<1>10. CASE UNCHANGED vars
  BY <1>10 DEF TypeOK, DiskType, vars
<1>11. QED
  BY <1>1, <1>2, <1>3, <1>4, <1>5, <1>6, <1>7, <1>8, <1>9, <1>10
  DEF Next, Work, Open, Acquire, Rotate, Write

\* The lock file, its age and the history of breaking keep their types.
LEMMA LockStep ==
    ASSUME TypeOK, [Next]_vars
    PROVE  LockType'
<1>1. ASSUME NEW p \in Procs, TryLock(p) PROVE LockType'
  <2>1. Record(p) \in Records
    BY <1>1, RecordType DEF TypeOK, StepType, TryLock
  <2>2. QED
    BY <1>1, <2>1, NumbersAssumption DEF TypeOK, LockType, TryLock, Future
<1>2. ASSUME NEW p \in Procs, StatLock(p) PROVE LockType'
  BY <1>2 DEF TypeOK, LockType, StatLock, Finish
<1>3. ASSUME NEW p \in Procs, BreakLock(p) PROVE LockType'
  BY <1>3 DEF TypeOK, LockType, BreakLock
<1>4. ASSUME NEW p \in Procs, Release(p) PROVE LockType'
  BY <1>4 DEF TypeOK, LockType, Release, Finish
<1>5. ASSUME NEW p \in Procs,
             \/ Start(p) \/ OpenRead(p) \/ QuarantineWrite(p) \/ QuarantineTruncate(p)
             \/ QuarantineRewrite(p) \/ QuarantineFails(p) \/ Close(p) \/ BeginAppend(p)
             \/ Measure(p) \/ Scan(p) \/ Rename(p) \/ OpenAppend(p)
             \/ WriteHead(p) \/ WriteTail(p) \/ WriteFails(p) \/ Sync(p)
             \/ Crash(p) \/ Expire(p)
      PROVE  LockType'
  <2>1. UNCHANGED lockVars
    BY <1>5 DEF Start, OpenRead, QuarantineWrite, QuarantineTruncate,
      QuarantineRewrite, QuarantineFails, Close, BeginAppend, Measure, Scan,
      Rename, OpenAppend, WriteHead, WriteTail, WriteFails, Sync, Crash,
      Expire, Die
  <2>2. QED
    BY <2>1 DEF TypeOK, LockType
<1>6. CASE Tick
  BY <1>6 DEF TypeOK, LockType, Tick, NextAge, Bump, Future
<1>7. CASE UNCHANGED vars
  BY <1>7 DEF TypeOK, LockType, vars
<1>8. QED
  BY <1>1, <1>2, <1>3, <1>4, <1>5, <1>6, <1>7
  DEF Next, Work, Open, Acquire, Rotate, Write

\* A process past its open sink has an append left to do, whatever step it is at.
LEMMA StepStep ==
    ASSUME TypeOK, [Next]_vars
    PROVE  StepType'
<1>1. ASSUME NEW p \in Procs, Start(p) PROVE StepType'
  BY <1>1 DEF TypeOK, StepType, Start
<1>2. ASSUME NEW p \in Procs, OpenRead(p) PROVE StepType'
  BY <1>2 DEF TypeOK, StepType, OpenRead
<1>3. ASSUME NEW p \in Procs, QuarantineWrite(p) PROVE StepType'
  BY <1>3 DEF TypeOK, StepType, QuarantineWrite
<1>4. ASSUME NEW p \in Procs, QuarantineTruncate(p) PROVE StepType'
  BY <1>4 DEF TypeOK, StepType, QuarantineTruncate
<1>5. ASSUME NEW p \in Procs, QuarantineRewrite(p) PROVE StepType'
  BY <1>5 DEF TypeOK, StepType, QuarantineRewrite
<1>6. ASSUME NEW p \in Procs, QuarantineFails(p) PROVE StepType'
  BY <1>6 DEF TypeOK, StepType, QuarantineFails
<1>7. ASSUME NEW p \in Procs, Close(p) PROVE StepType'
  BY <1>7 DEF TypeOK, StepType, Close
<1>8. ASSUME NEW p \in Procs, BeginAppend(p) PROVE StepType'
  BY <1>8 DEF TypeOK, StepType, BeginAppend
<1>9. ASSUME NEW p \in Procs, TryLock(p) PROVE StepType'
  BY <1>9 DEF TypeOK, StepType, TryLock
<1>10. ASSUME NEW p \in Procs, StatLock(p) PROVE StepType'
  BY <1>10 DEF TypeOK, StepType, StatLock, Finish
<1>11. ASSUME NEW p \in Procs, BreakLock(p) PROVE StepType'
  BY <1>11 DEF TypeOK, StepType, BreakLock
<1>12. ASSUME NEW p \in Procs, Measure(p) PROVE StepType'
  BY <1>12 DEF TypeOK, StepType, Measure
<1>13. ASSUME NEW p \in Procs, Scan(p) PROVE StepType'
  BY <1>13 DEF TypeOK, StepType, Scan
<1>14. ASSUME NEW p \in Procs, Rename(p) PROVE StepType'
  BY <1>14 DEF TypeOK, StepType, Rename
<1>15. ASSUME NEW p \in Procs, OpenAppend(p) PROVE StepType'
  BY <1>15 DEF TypeOK, StepType, OpenAppend
<1>16. ASSUME NEW p \in Procs, WriteHead(p) PROVE StepType'
  BY <1>16 DEF TypeOK, StepType, WriteHead
<1>17. ASSUME NEW p \in Procs, WriteTail(p) PROVE StepType'
  BY <1>17 DEF TypeOK, StepType, WriteTail
<1>18. ASSUME NEW p \in Procs, WriteFails(p) PROVE StepType'
  BY <1>18 DEF TypeOK, StepType, WriteFails
<1>19. ASSUME NEW p \in Procs, Sync(p) PROVE StepType'
  BY <1>19 DEF TypeOK, StepType, Sync
<1>20. ASSUME NEW p \in Procs, Release(p) PROVE StepType'
  BY <1>20 DEF TypeOK, StepType, Release, Finish
<1>21. ASSUME NEW p \in Procs, Crash(p) PROVE StepType'
  BY <1>21 DEF TypeOK, StepType, Crash, Die
<1>22. ASSUME NEW p \in Procs, Expire(p) PROVE StepType'
  BY <1>22 DEF TypeOK, StepType, Expire, Die
<1>23. CASE Tick
  BY <1>23 DEF TypeOK, StepType, Tick, NextAge, Bump, Future
<1>24. CASE UNCHANGED vars
  BY <1>24 DEF TypeOK, StepType, vars
<1>25. QED
  BY <1>1, <1>2, <1>3, <1>4, <1>5, <1>6, <1>7, <1>8, <1>9, <1>10, <1>11,
      <1>12, <1>13, <1>14, <1>15, <1>16, <1>17, <1>18, <1>19, <1>20, <1>21,
      <1>22, <1>23, <1>24
  DEF Next, Work, Open, Acquire, Rotate, Write

\* A process at a step that writes has a file open, and one that renames a target.
LEMMA LocalStep ==
    ASSUME TypeOK, [Next]_vars
    PROVE  LocalType'
<1>1. ASSUME NEW p \in Procs, Start(p) PROVE LocalType'
  BY <1>1 DEF TypeOK, LocalType, StepType, Start
<1>2. ASSUME NEW p \in Procs, OpenRead(p) PROVE LocalType'
  <2>1. Contents \in Seq(Units)
    BY EmptySeq, ElementOfSeq DEF TypeOK, DiskType, Contents
  <2>2. QED
    BY ZenonT(60), <1>2, <2>1 DEF TypeOK, StepType, LocalType, OpenRead
<1>3. ASSUME NEW p \in Procs, QuarantineWrite(p) PROVE LocalType'
  BY <1>3 DEF TypeOK, LocalType, StepType, QuarantineWrite
<1>4. ASSUME NEW p \in Procs, QuarantineTruncate(p) PROVE LocalType'
  <2>1. Len(files) \in Nat /\ active \in 0..Len(files)
    BY LenProperties DEF TypeOK, DiskType
  <2>2. \/ active = 0 /\ active' = Len(files) + 1 /\ Len(files') = Len(files) + 1
        \/ active # 0 /\ active' = active /\ Len(files') = Len(files)
    BY <1>4, <2>1, NewFileType, WriteType, EmptySeq DEF TypeOK, DiskType, QuarantineTruncate
  <2>3. /\ handle' \in [Procs -> 0..Len(files')]
        /\ handle'[p] # 0
        /\ \A q \in Procs \ {p} : handle'[q] = handle[q]
    BY SMTT(60), <1>4, <2>1, <2>2 DEF TypeOK, LocalType, QuarantineTruncate
  <2>4. QED
    BY <1>4, <2>3 DEF TypeOK, StepType, LocalType, QuarantineTruncate
<1>5. ASSUME NEW p \in Procs, QuarantineRewrite(p) PROVE LocalType'
  <2>1. Len(files') = Len(files)
    BY <1>5, DiskStep, LenProperties DEF TypeOK, DiskType, QuarantineRewrite
  <2>2. QED
    BY <1>5, <2>1, EmptySeq DEF TypeOK, StepType, LocalType, QuarantineRewrite
<1>6. ASSUME NEW p \in Procs, QuarantineFails(p) PROVE LocalType'
  BY <1>6 DEF TypeOK, LocalType, StepType, QuarantineFails
<1>7. ASSUME NEW p \in Procs, Close(p) PROVE LocalType'
  BY <1>7 DEF TypeOK, LocalType, StepType, Close
<1>8. ASSUME NEW p \in Procs, BeginAppend(p) PROVE LocalType'
  BY <1>8 DEF TypeOK, LocalType, StepType, BeginAppend
<1>9. ASSUME NEW p \in Procs, TryLock(p) PROVE LocalType'
  BY <1>9 DEF TypeOK, LocalType, StepType, TryLock
<1>10. ASSUME NEW p \in Procs, StatLock(p) PROVE LocalType'
  BY <1>10 DEF TypeOK, LocalType, StepType, StatLock, Finish
<1>11. ASSUME NEW p \in Procs, BreakLock(p) PROVE LocalType'
  BY <1>11 DEF TypeOK, LocalType, StepType, BreakLock
<1>12. ASSUME NEW p \in Procs, Measure(p) PROVE LocalType'
  BY <1>12 DEF TypeOK, LocalType, StepType, Measure
<1>13. ASSUME NEW p \in Procs, Scan(p) PROVE LocalType'
  <2>1. Len(closed) \in Nat
    BY LenProperties DEF TypeOK, DiskType
  <2>2. CASE UnusedIndex # {}
    <3>1. UNCHANGED <<files, snapshot, handle>>
      BY <1>13, <2>2 DEF Scan
    <3>2. PICK i \in UnusedIndex :
            /\ pc' = [pc EXCEPT ![p] = "rename"]
            /\ candidate' = [candidate EXCEPT ![p] = i]
      BY <1>13, <2>2 DEF Scan
    <3>3. i \in Nat \ {0}
      BY <2>1 DEF UnusedIndex
    <3>4. candidate' \in [Procs -> Nat] /\ candidate'[p] # 0
      BY <3>2, <3>3 DEF TypeOK, LocalType
    <3>5. QED
      BY <3>1, <3>2, <3>3, <3>4 DEF TypeOK, StepType, LocalType
  <2>3. CASE UnusedIndex = {}
    <3>1. UNCHANGED <<files, snapshot, handle, candidate>>
      BY <1>13, <2>3 DEF Scan
    <3>2. pc' = [pc EXCEPT ![p] = "release"]
      BY <1>13, <2>3 DEF Scan
    <3>3. QED
      BY <3>1, <3>2 DEF TypeOK, StepType, LocalType
  <2>4. QED
    BY <2>2, <2>3
<1>14. ASSUME NEW p \in Procs, Rename(p) PROVE LocalType'
  BY <1>14 DEF TypeOK, LocalType, StepType, Rename
<1>15. ASSUME NEW p \in Procs, OpenAppend(p) PROVE LocalType'
  <2>1. Len(files) \in Nat /\ active \in 0..Len(files)
    BY LenProperties DEF TypeOK, DiskType
  <2>2. \/ active = 0 /\ active' = Len(files) + 1 /\ Len(files') = Len(files) + 1
        \/ active # 0 /\ active' = active /\ Len(files') = Len(files)
    BY <1>15, <2>1, NewFileType DEF TypeOK, DiskType, OpenAppend
  <2>3. /\ handle' \in [Procs -> 0..Len(files')]
        /\ handle'[p] # 0
        /\ \A q \in Procs \ {p} : handle'[q] = handle[q]
    BY SMTT(60), <1>15, <2>1, <2>2 DEF TypeOK, LocalType, OpenAppend
  <2>4. QED
    BY <1>15, <2>3 DEF TypeOK, StepType, LocalType, OpenAppend
<1>16. ASSUME NEW p \in Procs, WriteHead(p) PROVE LocalType'
  <2>1. Len(files') = Len(files)
    BY <1>16, LenProperties DEF TypeOK, DiskType, WriteHead
  <2>2. QED
    BY <1>16, <2>1 DEF TypeOK, StepType, LocalType, WriteHead
<1>17. ASSUME NEW p \in Procs, WriteTail(p) PROVE LocalType'
  <2>1. Len(files') = Len(files)
    BY <1>17, LenProperties DEF TypeOK, DiskType, WriteTail
  <2>2. QED
    BY <1>17, <2>1 DEF TypeOK, StepType, LocalType, WriteTail
<1>18. ASSUME NEW p \in Procs, WriteFails(p) PROVE LocalType'
  BY <1>18 DEF TypeOK, LocalType, StepType, WriteFails
<1>19. ASSUME NEW p \in Procs, Sync(p) PROVE LocalType'
  BY <1>19 DEF TypeOK, LocalType, StepType, Sync
<1>20. ASSUME NEW p \in Procs, Release(p) PROVE LocalType'
  BY <1>20 DEF TypeOK, LocalType, StepType, Release, Finish
<1>21. ASSUME NEW p \in Procs, Crash(p) PROVE LocalType'
  BY <1>21 DEF TypeOK, LocalType, StepType, Crash, Die
<1>22. ASSUME NEW p \in Procs, Expire(p) PROVE LocalType'
  BY <1>22 DEF TypeOK, LocalType, StepType, Expire, Die
<1>23. CASE Tick
  BY <1>23 DEF TypeOK, LocalType, Tick, NextAge, Bump, Future
<1>24. CASE UNCHANGED vars
  BY <1>24 DEF TypeOK, LocalType, vars
<1>25. QED
  BY <1>1, <1>2, <1>3, <1>4, <1>5, <1>6, <1>7, <1>8, <1>9, <1>10, <1>11,
      <1>12, <1>13, <1>14, <1>15, <1>16, <1>17, <1>18, <1>19, <1>20, <1>21,
      <1>22, <1>23, <1>24
  DEF Next, Work, Open, Acquire, Rotate, Write

\* What a process reports, and what was acknowledged, keep their types.
LEMMA ReportStep ==
    ASSUME TypeOK, [Next]_vars
    PROVE  ReportType'
<1>1. ASSUME NEW p \in Procs, QuarantineRewrite(p) PROVE ReportType'
  BY <1>1 DEF TypeOK, ReportType, QuarantineRewrite
<1>2. ASSUME NEW p \in Procs, QuarantineFails(p) PROVE ReportType'
  BY <1>2 DEF TypeOK, ReportType, QuarantineFails
<1>3. ASSUME NEW p \in Procs, StatLock(p) PROVE ReportType'
  BY <1>3 DEF TypeOK, ReportType, StatLock, Finish
<1>4. ASSUME NEW p \in Procs, Scan(p) PROVE ReportType'
  BY <1>4 DEF TypeOK, ReportType, Scan
<1>5. ASSUME NEW p \in Procs, Rename(p) PROVE ReportType'
  BY <1>5 DEF TypeOK, ReportType, Rename
<1>6. ASSUME NEW p \in Procs, WriteFails(p) PROVE ReportType'
  BY <1>6 DEF TypeOK, ReportType, WriteFails
<1>7. ASSUME NEW p \in Procs, Sync(p) PROVE ReportType'
  BY <1>7 DEF TypeOK, ReportType, Sync
<1>8. ASSUME NEW p \in Procs, Release(p) PROVE ReportType'
  <2>1. Record(p) \in Records
    BY <1>8, RecordType DEF TypeOK, StepType, Release
  <2>2. QED
    BY <1>8, <2>1 DEF TypeOK, ReportType, Release, Finish
<1>9. ASSUME NEW p \in Procs,
             \/ Start(p) \/ OpenRead(p) \/ QuarantineWrite(p) \/ QuarantineTruncate(p)
             \/ Close(p) \/ BeginAppend(p) \/ TryLock(p) \/ BreakLock(p)
             \/ Measure(p) \/ OpenAppend(p) \/ WriteHead(p) \/ WriteTail(p)
             \/ Crash(p) \/ Expire(p)
      PROVE  ReportType'
  <2>1. UNCHANGED <<health, result, acked>>
    BY <1>9 DEF Start, OpenRead, QuarantineWrite, QuarantineTruncate, Close,
      BeginAppend, TryLock, BreakLock, Measure, OpenAppend, WriteHead,
      WriteTail, Crash, Expire, Die
  <2>2. QED
    BY <2>1 DEF TypeOK, ReportType
<1>10. CASE Tick
  BY <1>10 DEF TypeOK, ReportType, Tick, NextAge, Bump, Future
<1>11. CASE UNCHANGED vars
  BY <1>11 DEF TypeOK, ReportType, vars
<1>12. QED
  BY <1>1, <1>2, <1>3, <1>4, <1>5, <1>6, <1>7, <1>8, <1>9, <1>10, <1>11
  DEF Next, Work, Open, Acquire, Rotate, Write

\* Ages and budgets stay natural numbers.
LEMMA CounterStep ==
    ASSUME TypeOK, [Next]_vars
    PROVE  CounterType'
<1>1. ASSUME NEW p \in Procs, QuarantineFails(p) PROVE CounterType'
  BY <1>1 DEF TypeOK, CounterType, QuarantineFails
<1>2. ASSUME NEW p \in Procs, BeginAppend(p) PROVE CounterType'
  BY <1>2 DEF TypeOK, CounterType, BeginAppend
<1>3. ASSUME NEW p \in Procs, WriteFails(p) PROVE CounterType'
  BY <1>3 DEF TypeOK, CounterType, WriteFails
<1>4. ASSUME NEW p \in Procs, Crash(p) PROVE CounterType'
  BY <1>4 DEF TypeOK, CounterType, Crash, Die
<1>5. ASSUME NEW p \in Procs,
             \/ Start(p) \/ OpenRead(p) \/ QuarantineWrite(p) \/ QuarantineTruncate(p)
             \/ QuarantineRewrite(p) \/ Close(p) \/ TryLock(p) \/ StatLock(p)
             \/ BreakLock(p) \/ Measure(p) \/ Scan(p) \/ Rename(p)
             \/ OpenAppend(p) \/ WriteHead(p) \/ WriteTail(p) \/ Sync(p)
             \/ Expire(p)
      PROVE  CounterType'
  <2>1. UNCHANGED <<waited, lived, faults, crashes>>
    BY <1>5 DEF Start, OpenRead, QuarantineWrite, QuarantineTruncate,
      QuarantineRewrite, Close, TryLock, StatLock, BreakLock, Measure, Scan,
      Rename, OpenAppend, WriteHead, WriteTail, Sync, Expire, Die,
      Finish
  <2>2. QED
    BY <2>1 DEF TypeOK, CounterType
<1>6. ASSUME NEW p \in Procs, Release(p) PROVE CounterType'
  BY <1>6 DEF TypeOK, CounterType, Release, Finish
<1>7. CASE Tick
  BY <1>7 DEF TypeOK, CounterType, Tick, NextAge, Bump, Future
<1>8. CASE UNCHANGED vars
  BY <1>8 DEF TypeOK, CounterType, vars
<1>9. QED
  BY <1>1, <1>2, <1>3, <1>4, <1>5, <1>6, <1>7, <1>8
  DEF Next, Work, Open, Acquire, Rotate, Write

\* Type correctness: every value any step gives a variable is one the code can
\* give it; in particular no step writes through a handle that is not open.
THEOREM TypeCorrect == Spec => []TypeOK
<1>1. Init => TypeOK
  <2> SUFFICES ASSUME Init PROVE TypeOK
    OBVIOUS
  <2>1. /\ Len(<<>>) = 0
        /\ <<>> \in Seq(Units) /\ <<>> \in Seq(Seq(Units))
        /\ <<>> \in Seq(1..Len(<<>>))
    BY EmptySeq
  <2>2. DiskType /\ LocalType
    BY <2>1 DEF Init, DiskType, LocalType
  <2>3. LockType
    <3>1. lockAge \in 0..Future /\ lock \in Records \cup {Free}
      BY NumbersAssumption DEF Init, Future
    <3>2. /\ judged \in [Procs -> Records \cup {Free}]
          /\ usurped \in BOOLEAN /\ left \subseteq Records
      BY DEF Init
    <3>3. QED
      BY <3>1, <3>2 DEF LockType
  <2>4. StepType
    BY DEF Init, StepType
  <2>5. ReportType
    BY DEF Init, ReportType
  <2>6. CounterType
    BY DEF Init, CounterType
  <2>7. QED
    BY <2>2, <2>3, <2>4, <2>5, <2>6 DEF TypeOK
<1>2. TypeOK /\ [Next]_vars => TypeOK'
  BY DiskStep, LockStep, StepStep, LocalStep, ReportStep, CounterStep DEF TypeOK
<1>3. QED
  BY <1>1, <1>2, PTL DEF Spec

-----------------------------------------------------------------------------
\* The steps of Next by what they do to the lock: one process moves outside the
\* critical section, or inside it, or the step is one of those that matter.
Outside(p) ==
    /\ pc[p] \in {"idle", "opened"} \cup Opening
    /\ \E s \in {"opened", "done", "lock"} \cup Opening : pc' = [pc EXCEPT ![p] = s]
    /\ UNCHANGED <<lockVars, count, lived>>

Inside(p) ==
    /\ pc[p] \in Critical
    /\ \E s \in Critical : pc' = [pc EXCEPT ![p] = s]
    /\ UNCHANGED <<lockVars, count, lived>>

Killed(p) ==
    /\ pc[p] \in Running
    /\ pc' = [pc EXCEPT ![p] = "dead"]
    /\ UNCHANGED <<lockVars, count, lived>>

\* Every step is of one of these kinds.
LEMMA StepKinds ==
    ASSUME TypeOK, Next
    PROVE  \/ Tick
           \/ \E p \in Procs : \/ Outside(p) \/ Inside(p) \/ Killed(p)
                               \/ TryLock(p) \/ StatLock(p) \/ BreakLock(p)
                               \/ Release(p)
<1>1. ASSUME NEW p \in Procs, Start(p) \/ OpenRead(p) \/ QuarantineWrite(p)
      PROVE  Outside(p)
  BY <1>1 DEF Start, OpenRead, QuarantineWrite, Outside
<1>2. ASSUME NEW p \in Procs, QuarantineTruncate(p) \/ QuarantineRewrite(p)
      PROVE  Outside(p)
  BY <1>2 DEF QuarantineTruncate, QuarantineRewrite, Outside
<1>3. ASSUME NEW p \in Procs, QuarantineFails(p) \/ Close(p) \/ BeginAppend(p)
      PROVE  Outside(p)
  BY <1>3 DEF QuarantineFails, Close, BeginAppend, Outside
<1>4. ASSUME NEW p \in Procs, Measure(p) \/ Scan(p) \/ Rename(p)
      PROVE  Inside(p)
  BY <1>4 DEF Measure, Scan, Rename, Inside
<1>5. ASSUME NEW p \in Procs, OpenAppend(p) \/ WriteHead(p) \/ WriteTail(p)
      PROVE  Inside(p)
  BY <1>5 DEF OpenAppend, WriteHead, WriteTail, Inside
<1>6. ASSUME NEW p \in Procs, WriteFails(p) \/ Sync(p)
      PROVE  Inside(p)
  BY <1>6 DEF WriteFails, Sync, Inside
<1>7. ASSUME NEW p \in Procs, Crash(p) \/ Expire(p)
      PROVE  Killed(p)
  BY <1>7 DEF Crash, Expire, Die, Killed
<1>8. QED
  BY <1>1, <1>2, <1>3, <1>4, <1>5, <1>6, <1>7
  DEF Next, Work, Open, Acquire, Rotate, Write

\* Two processes never append the same record.
LEMMA RecordOwner ==
    ASSUME NEW p \in Procs, NEW q \in Procs, Record(p) = Record(q)
    PROVE  p = q
BY DEF Record

\* The lock file is the one the append under it created, until a breaker
\* removes the lock of a running writer.
LEMMA HolderStep ==
    ASSUME TypeOK, HolderInv, [Next]_vars
    PROVE  HolderInv'
<1> SUFFICES ASSUME ~usurped'
             PROVE  /\ \A p \in Procs : InCritical(p)' => lock' = Record(p)'
                    /\ lock' \notin left' \cup {Free} =>
                         \E p \in Procs : /\ lock' = Record(p)'
                                          /\ (InCritical(p)' \/ pc'[p] = "dead")
  BY DEF HolderInv, LockHasOwner
<1> USE DEF InCritical
<1>1. CASE UNCHANGED vars
  BY <1>1 DEF HolderInv, LockHasOwner, vars, Record
<1>2. CASE Tick
  BY <1>2 DEF HolderInv, LockHasOwner, Tick, Record
<1>3. ASSUME NEW p \in Procs, Outside(p) \/ Inside(p) \/ Killed(p)
      PROVE  /\ \A q \in Procs : InCritical(q)' => lock' = Record(q)'
             /\ lock' \notin left' \cup {Free} =>
                  \E q \in Procs : /\ lock' = Record(q)'
                                   /\ (InCritical(q)' \/ pc'[q] = "dead")
  <2>1. ~usurped /\ lock' = lock /\ count' = count /\ left' = left
    BY <1>3 DEF Outside, Inside, Killed
  <2>2. \A q \in Procs : Record(q)' = Record(q)
    BY <2>1 DEF Record
  <2>3. \A q \in Procs : InCritical(q)' => InCritical(q)
    BY <1>3 DEF TypeOK, StepType, Outside, Inside, Killed
  <2>4. \A q \in Procs : InCritical(q) \/ pc[q] = "dead" =>
                           InCritical(q)' \/ pc'[q] = "dead"
    BY <1>3 DEF TypeOK, StepType, Outside, Inside, Killed
  <2>5. QED
    BY <2>1, <2>2, <2>3, <2>4 DEF HolderInv, LockHasOwner
<1>4. ASSUME NEW p \in Procs, TryLock(p)
      PROVE  /\ \A q \in Procs : InCritical(q)' => lock' = Record(q)'
             /\ lock' \notin left' \cup {Free} =>
                  \E q \in Procs : /\ lock' = Record(q)'
                                   /\ (InCritical(q)' \/ pc'[q] = "dead")
  <2>1. ~usurped /\ left' = left /\ \A q \in Procs : Record(q)' = Record(q)
    BY <1>4 DEF TryLock, Record
  <2>2. CASE lock = Free
    <3>1. \A q \in Procs : ~InCritical(q)
      <4>1. \A q \in Procs : InCritical(q) => Record(q) \in Records
        BY RecordType DEF TypeOK, StepType
      <4>2. QED
        BY <2>1, <2>2, <4>1 DEF HolderInv, LockHasOwner
    <3>2. lock' = Record(p) /\ pc' = [pc EXCEPT ![p] = "measure"]
      BY <1>4, <2>2 DEF TryLock
    <3>3. QED
      BY <2>1, <3>1, <3>2 DEF TypeOK, StepType
  <2>3. CASE lock # Free
    <3>1. lock' = lock /\ pc' = [pc EXCEPT ![p] = "stat"] /\ pc[p] = "lock"
      BY <1>4, <2>3 DEF TryLock
    <3>2. QED
      BY <2>1, <3>1 DEF HolderInv, LockHasOwner, TypeOK, StepType
  <2>4. QED
    BY <2>2, <2>3
<1>5. ASSUME NEW p \in Procs, StatLock(p)
      PROVE  /\ \A q \in Procs : InCritical(q)' => lock' = Record(q)'
             /\ lock' \notin left' \cup {Free} =>
                  \E q \in Procs : /\ lock' = Record(q)'
                                   /\ (InCritical(q)' \/ pc'[q] = "dead")
  <2>1. ~usurped /\ lock' = lock /\ left' = left /\ pc[p] = "stat"
    BY <1>5 DEF StatLock
  <2>2. \E s \in {"break", "lock", "opened", "done"} : pc' = [pc EXCEPT ![p] = s]
    BY <1>5 DEF StatLock, Finish
  <2>3. \A q \in Procs : q # p => Record(q)' = Record(q)
    BY <1>5 DEF StatLock, Finish, Record, TypeOK, StepType
  <2>4. QED
    BY <2>1, <2>2, <2>3 DEF HolderInv, LockHasOwner, TypeOK, StepType
<1>6. ASSUME NEW p \in Procs, BreakLock(p)
      PROVE  /\ \A q \in Procs : InCritical(q)' => lock' = Record(q)'
             /\ lock' \notin left' \cup {Free} =>
                  \E q \in Procs : /\ lock' = Record(q)'
                                   /\ (InCritical(q)' \/ pc'[q] = "dead")
  <2>1. /\ ~usurped
        /\ lock' = lock \/ ~\E q \in Procs : InCritical(q) /\ lock = Record(q)
        /\ lock' \in {lock, Free}
        /\ left' = left
    BY <1>6 DEF BreakLock
  <2>2. pc[p] = "break" /\ pc' = [pc EXCEPT ![p] = "lock"]
    BY <1>6 DEF BreakLock
  <2>3. \A q \in Procs : Record(q)' = Record(q)
    BY <1>6 DEF BreakLock, Record
  <2>4. QED
    BY <2>1, <2>2, <2>3 DEF HolderInv, LockHasOwner, TypeOK, StepType
<1>7. ASSUME NEW p \in Procs, Release(p)
      PROVE  /\ \A q \in Procs : InCritical(q)' => lock' = Record(q)'
             /\ lock' \notin left' \cup {Free} =>
                  \E q \in Procs : /\ lock' = Record(q)'
                                   /\ (InCritical(q)' \/ pc'[q] = "dead")
  <2>1. ~usurped /\ lock' \in left' \cup {Free} /\ pc[p] = "release"
    BY <1>7 DEF Release
  <2>2. \E s \in {"opened", "done"} : pc' = [pc EXCEPT ![p] = s]
    BY <1>7 DEF Release, Finish
  <2>3. \A q \in Procs : InCritical(q) => q = p
    BY <2>1, RecordOwner DEF HolderInv, LockHasOwner
  <2>4. QED
    BY <2>1, <2>2, <2>3 DEF TypeOK, StepType
<1>8. QED
  BY <1>1, <1>2, <1>3, <1>4, <1>5, <1>6, <1>7, StepKinds

\* The inductive invariant holds throughout.
LEMMA HolderCorrect == Spec => []HolderInv
<1>1. Init => HolderInv
  BY DEF Init, HolderInv, LockHasOwner, InCritical
<1>2. TypeOK /\ HolderInv /\ [Next]_vars => HolderInv'
  BY HolderStep
<1>3. QED
  BY <1>1, <1>2, TypeCorrect, PTL DEF Spec

\* Exclusive append (sink.rs): for any number of processes, two of them are in
\* the critical section only after a running writer has lost its lock.
THEOREM ExclusiveAppend == Spec => []MutualExclusion
<1>1. HolderInv => MutualExclusion
  BY RecordOwner DEF HolderInv, LockHasOwner, MutualExclusion
<1>2. QED
  BY <1>1, HolderCorrect, PTL

\* A lock file without a running owner was left by a killed process or by a
\* drop that could not remove it (LockGuard::drop), and by nothing else: every
\* return from append, with an error or without, goes through the drop.
THEOREM LockNotLeaked == Spec => []LockHasOwner
<1>1. HolderInv => LockHasOwner
  BY DEF HolderInv
<1>2. QED
  BY <1>1, HolderCorrect, PTL

-----------------------------------------------------------------------------
\* Lock files and judged locks are records of the form <<process, number>>.
LEMMA RecordParts ==
    ASSUME NEW r \in Records
    PROVE  r[1] \in Procs /\ r[2] \in 1..MaxAppends
BY DEF Records

\* A lock file belongs to an append that is over, under way or cut short.
LEMMA UsedStep ==
    ASSUME TypeOK, LockUsed, [Next]_vars
    PROVE  LockUsed'
<1> SUFFICES ASSUME lock' # Free PROVE Used(lock)'
  BY DEF LockUsed
<1> USE DEF InCritical, Used
<1>1. CASE UNCHANGED vars
  BY <1>1 DEF LockUsed, vars
<1>2. CASE Tick
  BY <1>2 DEF LockUsed, Tick
<1>3. ASSUME NEW p \in Procs, Outside(p) \/ Inside(p) \/ Killed(p)
      PROVE  Used(lock)'
  <2>1. lock' = lock /\ count' = count /\ lock[1] \in Procs
    BY <1>3, RecordParts DEF Outside, Inside, Killed, TypeOK, LockType
  <2>2. InCritical(lock[1]) \/ pc[lock[1]] = "dead" =>
          InCritical(lock[1])' \/ pc'[lock[1]] = "dead"
    BY <1>3, <2>1 DEF TypeOK, StepType, Outside, Inside, Killed
  <2>3. QED
    BY <2>1, <2>2 DEF LockUsed
<1>4. ASSUME NEW p \in Procs, TryLock(p) PROVE Used(lock)'
  <2>1. CASE lock = Free
    BY <1>4, <2>1 DEF TryLock, Record, TypeOK, StepType
  <2>2. CASE lock # Free
    <3>1. lock[1] \in Procs /\ lock' = lock /\ count' = count
      BY <1>4, <2>2, RecordParts DEF TryLock, TypeOK, LockType
    <3>2. pc[p] = "lock" /\ pc' = [pc EXCEPT ![p] = "stat"]
      BY <1>4, <2>2 DEF TryLock
    <3>3. QED
      BY <2>2, <3>1, <3>2 DEF LockUsed, TypeOK, StepType
  <2>3. QED
    BY <2>1, <2>2
<1>5. ASSUME NEW p \in Procs, StatLock(p) PROVE Used(lock)'
  <2>1. lock' = lock /\ pc[p] = "stat" /\ lock[1] \in Procs /\ lock[2] \in Nat
    BY <1>5, RecordParts, NumbersAssumption DEF StatLock, TypeOK, LockType
  <2>2. \E s \in Steps : pc' = [pc EXCEPT ![p] = s]
    BY <1>5 DEF StatLock, Finish
  <2>3. count' = count \/ count' = [count EXCEPT ![p] = @ + 1]
    BY <1>5 DEF StatLock, Finish
  <2>4. QED
    BY <2>1, <2>2, <2>3 DEF LockUsed, TypeOK, StepType
<1>6. ASSUME NEW p \in Procs, BreakLock(p) PROVE Used(lock)'
  <2>1. lock' = lock /\ count' = count /\ lock[1] \in Procs
    BY <1>6, RecordParts DEF BreakLock, TypeOK, LockType
  <2>2. pc[p] = "break" /\ pc' = [pc EXCEPT ![p] = "lock"]
    BY <1>6 DEF BreakLock
  <2>3. QED
    BY <2>1, <2>2 DEF LockUsed, TypeOK, StepType
<1>7. ASSUME NEW p \in Procs, Release(p) PROVE Used(lock)'
  <2>1. lock' = lock /\ lock[1] \in Procs
    BY <1>7, RecordParts DEF Release, TypeOK, LockType
  <2>2. /\ pc[p] = "release" /\ count' = [count EXCEPT ![p] = @ + 1]
        /\ \E s \in {"opened", "done"} : pc' = [pc EXCEPT ![p] = s]
    BY <1>7 DEF Release, Finish
  <2>3. CASE lock[1] = p
    <3>1. Used(lock) /\ count[p] \in Nat /\ count'[p] = count[p] + 1
      BY <1>7, <2>1, <2>2 DEF LockUsed, TypeOK, StepType, Release
    <3>2. lock[2] \in Nat /\ lock[2] <= count[p] + 1
      BY <1>7, <2>3, <3>1, RecordParts DEF Release, TypeOK, LockType, StepType
    <3>3. QED
      BY <2>1, <2>3, <3>1, <3>2
  <2>4. CASE lock[1] # p
    BY <2>1, <2>2, <2>4 DEF LockUsed, TypeOK, StepType
  <2>5. QED
    BY <2>3, <2>4
<1>8. QED
  BY <1>1, <1>2, <1>3, <1>4, <1>5, <1>6, <1>7, StepKinds

\* With the watchdog armed, no process outlives its deadline, and the lock of
\* an append under way is no older than the process.
LEMMA YoungStep ==
    ASSUME TypeOK, LockYoung, Armed, [Next]_vars
    PROVE  LockYoung'
<1> SUFFICES ASSUME NEW q \in Procs
             PROVE  /\ lived'[q] <= Deadline
                    /\ InCritical(q)' /\ lock' = Record(q)' =>
                          lockAge' <= lived'[q] \/ lockAge' = Future
  BY DEF LockYoung
<1> USE DEF InCritical
<1>1. /\ lived[q] \in Nat /\ lockAge \in Nat /\ Deadline \in Nat
      /\ StaleAfter \in Nat /\ lived[q] <= Deadline
      /\ InCritical(q) /\ lock = Record(q) =>
           lockAge <= lived[q] \/ lockAge = Future
  BY DEF LockYoung, TypeOK, CounterType, LockType
<1>2. CASE UNCHANGED vars
  BY <1>1, <1>2 DEF vars, Record
<1>3. CASE Tick
  <2>1. UNCHANGED <<pc, lock, count>> /\ Record(q)' = Record(q)
    BY <1>3 DEF Tick, NextAge, Record
  <2>2. lived'[q] = IF pc[q] \in Running THEN lived[q] + 1 ELSE lived[q]
    BY <1>3 DEF Tick, NextAge
  <2>3. pc[q] \in Running => lived[q] < Deadline
    BY <1>3 DEF Tick, NextAge
  <2>4. /\ lockAge' <= lockAge + 1
        /\ lockAge = Future => lockAge' = Future
    BY <1>1, <1>3 DEF Tick, NextAge, Bump, Future
  <2>5. lockAge' \in Nat
    BY <1>1, <1>3 DEF Tick, NextAge, Bump, Future
  <2>6. pc[q] \in Critical => pc[q] \in Running
    OBVIOUS
  <2>7. QED
    BY <1>1, <2>1, <2>2, <2>3, <2>4, <2>5, <2>6
<1>4. ASSUME NEW p \in Procs, Outside(p) \/ Inside(p) \/ Killed(p)
      PROVE  /\ lived'[q] <= Deadline
             /\ InCritical(q)' /\ lock' = Record(q)' =>
                          lockAge' <= lived'[q] \/ lockAge' = Future
  <2>1. UNCHANGED <<lock, lockAge, count, lived>> /\ Record(q)' = Record(q)
    BY <1>4 DEF Outside, Inside, Killed, Record
  <2>2. InCritical(q)' => InCritical(q)
    BY <1>4 DEF TypeOK, StepType, Outside, Inside, Killed
  <2>3. QED
    BY <1>1, <2>1, <2>2
<1>5. ASSUME NEW p \in Procs, TryLock(p)
      PROVE  /\ lived'[q] <= Deadline
             /\ InCritical(q)' /\ lock' = Record(q)' =>
                          lockAge' <= lived'[q] \/ lockAge' = Future
  <2>1. UNCHANGED <<lived, count>> /\ Record(q)' = Record(q)
    BY <1>5 DEF TryLock, Record
  <2>2. CASE lock = Free
    <3>1. lockAge' = 0 \/ lockAge' = Future
      BY <1>5, <2>2 DEF TryLock, CreateNew
    <3>2. QED
      BY <1>1, <2>1, <3>1
  <2>3. CASE lock # Free
    <3>1. UNCHANGED <<lock, lockAge>> /\ pc' = [pc EXCEPT ![p] = "stat"]
      BY <1>5, <2>3 DEF TryLock
    <3>2. InCritical(q)' => InCritical(q)
      BY <3>1 DEF TypeOK, StepType
    <3>3. QED
      BY <1>1, <2>1, <3>1, <3>2
  <2>4. QED
    BY <2>2, <2>3
<1>6. ASSUME NEW p \in Procs, StatLock(p)
      PROVE  /\ lived'[q] <= Deadline
             /\ InCritical(q)' /\ lock' = Record(q)' =>
                          lockAge' <= lived'[q] \/ lockAge' = Future
  <2>1. UNCHANGED <<lived, lock, lockAge>> /\ pc[p] = "stat"
    BY <1>6 DEF StatLock
  <2>2. \E s \in {"break", "lock", "opened", "done"} : pc' = [pc EXCEPT ![p] = s]
    BY <1>6 DEF StatLock, Finish
  <2>3. InCritical(q)' => q # p /\ InCritical(q)
    BY <2>1, <2>2 DEF TypeOK, StepType
  <2>4. q # p => Record(q)' = Record(q)
    BY <1>6 DEF StatLock, Finish, Record, TypeOK, StepType
  <2>5. QED
    BY <1>1, <2>1, <2>3, <2>4
<1>7. ASSUME NEW p \in Procs, BreakLock(p)
      PROVE  /\ lived'[q] <= Deadline
             /\ InCritical(q)' /\ lock' = Record(q)' =>
                          lockAge' <= lived'[q] \/ lockAge' = Future
  <2>1. UNCHANGED <<lived, lockAge, count>> /\ Record(q)' = Record(q)
    BY <1>7 DEF BreakLock, Record
  <2>2. lock' \in {lock, Free} /\ pc' = [pc EXCEPT ![p] = "lock"]
    BY <1>7 DEF BreakLock
  <2>3. InCritical(q)' => InCritical(q) /\ Record(q) \in Records
    BY <2>2, RecordType DEF TypeOK, StepType
  <2>4. QED
    BY <1>1, <2>1, <2>2, <2>3
<1>8. ASSUME NEW p \in Procs, Release(p)
      PROVE  /\ lived'[q] <= Deadline
             /\ InCritical(q)' /\ lock' = Record(q)' =>
                          lockAge' <= lived'[q] \/ lockAge' = Future
  <2>1. lived' = lived /\ lockAge' = lockAge /\ lock' \in {lock, Free}
    BY <1>8 DEF Release
  <2>2. \E s \in {"opened", "done"} : pc' = [pc EXCEPT ![p] = s]
    BY <1>8 DEF Release, Finish
  <2>3. InCritical(q)' => q # p /\ InCritical(q) /\ Record(q) \in Records
    BY <2>2, RecordType DEF TypeOK, StepType
  <2>4. q # p => Record(q)' = Record(q)
    BY <1>8 DEF Release, Finish, Record, TypeOK, StepType
  <2>5. QED
    BY <1>1, <2>1, <2>3, <2>4
<1>9. QED
  BY <1>2, <1>3, <1>4, <1>5, <1>6, <1>7, <1>8, StepKinds

\* An append that is over stays over.
LEMMA OverStays ==
    ASSUME TypeOK, [Next]_vars, NEW r \in Records, Over(r)
    PROVE  Over(r)'
<1> USE DEF Over
<1>1. r[1] \in Procs /\ r[2] \in Nat /\ count[r[1]] \in Nat
  BY RecordParts DEF TypeOK, StepType
<1>2. CASE UNCHANGED vars
  BY <1>2 DEF vars
<1>3. CASE Tick
  BY <1>3 DEF Tick, NextAge
<1>4. ASSUME NEW p \in Procs, Outside(p) \/ Inside(p) \/ Killed(p)
      PROVE  Over(r)'
  BY <1>1, <1>4 DEF TypeOK, StepType, Outside, Inside, Killed
<1>5. ASSUME NEW p \in Procs, TryLock(p) \/ BreakLock(p) PROVE Over(r)'
  BY <1>1, <1>5 DEF TypeOK, StepType, TryLock, BreakLock
<1>6. ASSUME NEW p \in Procs, StatLock(p) \/ Release(p) PROVE Over(r)'
  <2>1. pc[p] # "dead" /\ \E s \in Steps : pc' = [pc EXCEPT ![p] = s]
    BY <1>6 DEF StatLock, Release, Finish
  <2>2. count' = count \/ count' = [count EXCEPT ![p] = @ + 1]
    BY <1>6 DEF StatLock, Release, Finish
  <2>3. QED
    BY <1>1, <2>1, <2>2 DEF TypeOK, StepType
<1>7. QED
  BY <1>2, <1>3, <1>4, <1>5, <1>6, StepKinds

\* The append that created a lock judged stale never runs again.
LEMMA JudgedStep ==
    ASSUME TypeOK, LockUsed, LockYoung, JudgedOver, Armed,
           Deadline <= StaleAfter, [Next]_vars
    PROVE  JudgedOver'
<1> SUFFICES ASSUME NEW q \in Procs, judged'[q] # Free PROVE Over(judged[q])'
  BY DEF JudgedOver
<1>1. CASE judged'[q] = judged[q]
  <2>1. judged[q] \in Records /\ Over(judged[q])
    BY <1>1 DEF JudgedOver, TypeOK, LockType
  <2>2. QED
    BY <1>1, <2>1, OverStays DEF Over
<1>2. CASE judged'[q] # judged[q]
  <2>1. StatLock(q) /\ LockIsStale /\ judged'[q] = lock
    <3>1. \A p \in Procs : Outside(p) \/ Inside(p) \/ Killed(p) \/ TryLock(p)
                             \/ BreakLock(p) \/ Release(p) => judged' = judged
      BY DEF Outside, Inside, Killed, TryLock, BreakLock, Release
    <3>2. Tick \/ UNCHANGED vars => judged' = judged
      BY DEF Tick, NextAge, vars
    <3>3. PICK p \in Procs : StatLock(p)
      BY <1>2, <3>1, <3>2, StepKinds
    <3>4. LockIsStale /\ judged' = [judged EXCEPT ![p] = lock]
      BY <1>2, <3>3 DEF StatLock
    <3>5. QED
      BY <1>2, <3>3, <3>4 DEF TypeOK, LockType
  <2>2. lock \in Records /\ lock[1] \in Procs /\ lock = <<lock[1], lock[2]>>
    BY <2>1 DEF LockIsStale, TypeOK, LockType, Records
  <2>3. Over(lock)
    <3>1. SUFFICES ASSUME InCritical(lock[1]), lock[2] = count[lock[1]] + 1
                   PROVE FALSE
      BY <2>1, <2>2 DEF LockUsed, Used, Over, LockIsStale
    <3>2. /\ lockAge <= lived[lock[1]] \/ lockAge = Future
          /\ lived[lock[1]] <= Deadline
      BY <2>2, <3>1 DEF LockYoung, Record
    <3>3. QED
      BY <2>1, <2>2, <3>2 DEF LockIsStale, TypeOK, LockType, CounterType
  <2>4. QED
    BY <2>1, <2>2, <2>3, OverStays DEF Over
<1>3. QED
  BY <1>1, <1>2

\* LOCK_STALE_AFTER is safe for the hook: with a watchdog whose deadline does
\* not exceed it, a lock judged stale never belongs to a running writer.
THEOREM StaleLocksAreDead == Spec => []LiveLockNotJudged
<1> DEFINE Hook == Armed /\ Deadline <= StaleAfter
           Inv == Hook => LockUsed /\ LockYoung /\ JudgedOver
<1>1. Init => Inv
  BY DEF Init, LockUsed, LockYoung, JudgedOver, InCritical
<1>2. TypeOK /\ Inv /\ [Next]_vars => Inv'
  BY UsedStep, YoungStep, JudgedStep
<1>3. TypeOK /\ Inv => LiveLockNotJudged
  <2> SUFFICES ASSUME TypeOK, Inv, Hook, NEW p \in Procs, NEW q \in Procs,
                      judged[p] = lock, lock = Record(q), InCritical(q)
               PROVE  FALSE
    BY DEF LiveLockNotJudged
  <2>1. Record(q) \in Records
    BY RecordType DEF TypeOK, StepType, InCritical
  <2>2. Over(Record(q))
    BY <2>1 DEF JudgedOver
  <2>3. QED
    BY <2>2 DEF Over, Record, InCritical, TypeOK, StepType
<1>4. QED
  BY <1>1, <1>2, <1>3, TypeCorrect, PTL DEF Spec

-----------------------------------------------------------------------------
\* Rotation renames to an index that is still unused when the rename happens:
\* nobody else rotates between the scan and the rename.
FreshIndex ==
    ~usurped => \A p \in Procs : pc[p] = "rename" => candidate[p] > Len(closed)

LEMMA FreshStep ==
    ASSUME TypeOK, HolderInv, FreshIndex, [Next]_vars
    PROVE  FreshIndex'
<1> SUFFICES ASSUME ~usurped', NEW q \in Procs, pc'[q] = "rename"
             PROVE  candidate'[q] > Len(closed')
  BY DEF FreshIndex
<1> USE DEF InCritical
<1>1. /\ Len(closed) \in Nat
      /\ candidate \in [Procs -> Nat]
      /\ pc \in [Procs -> Steps]
  BY LenProperties DEF TypeOK, DiskType, LocalType, StepType
<1>2. ~usurped
  <2>1. usurped \in BOOLEAN
    BY DEF TypeOK, LockType
  <2>2. QED
    BY ZenonT(60), <2>1 DEF Next, Work, Open, Acquire, Rotate, Write, vars, Tick, NextAge,
      Start, OpenRead, QuarantineWrite, QuarantineTruncate, QuarantineRewrite,
      QuarantineFails, Close, BeginAppend, TryLock, StatLock, BreakLock, Measure,
      Scan, Rename, OpenAppend, WriteHead, WriteTail, WriteFails, Sync, Release,
      Crash, Expire, Die
<1>3. ASSUME NEW p \in Procs, Scan(p) PROVE candidate'[q] > Len(closed')
  <2>1. closed' = closed
    BY <1>3 DEF Scan
  <2>2. CASE p = q
    <3>1. PICK i \in UnusedIndex : candidate' = [candidate EXCEPT ![p] = i]
      BY <1>1, <1>3, <2>2 DEF Scan
    <3>2. QED
      BY <1>1, <2>1, <2>2, <3>1 DEF UnusedIndex
  <2>3. CASE p # q
    BY <1>1, <1>2, <1>3, <2>1, <2>3 DEF Scan, FreshIndex
  <2>4. QED
    BY <2>2, <2>3
<1>4. ASSUME NEW p \in Procs, Rename(p) PROVE candidate'[q] > Len(closed')
  <2>1. pc[p] = "rename" /\ \E s \in {"release", "create"} : pc' = [pc EXCEPT ![p] = s]
    BY <1>4 DEF Rename
  <2>2. p # q /\ pc[q] = "rename"
    BY <1>1, <2>1
  <2>3. QED
    BY <1>2, <2>1, <2>2, RecordOwner DEF HolderInv
<1>5. ASSUME NEW p \in Procs,
             \/ Start(p) \/ OpenRead(p) \/ QuarantineWrite(p) \/ QuarantineTruncate(p)
             \/ QuarantineRewrite(p) \/ QuarantineFails(p) \/ Close(p)
             \/ BeginAppend(p) \/ TryLock(p) \/ BreakLock(p)
             \/ Measure(p) \/ OpenAppend(p) \/ WriteHead(p) \/ WriteTail(p)
             \/ WriteFails(p) \/ Sync(p) \/ Crash(p) \/ Expire(p)
      PROVE  candidate'[q] > Len(closed')
  <2>1. UNCHANGED <<closed, candidate>>
    BY <1>5 DEF Start, OpenRead, QuarantineWrite, QuarantineTruncate,
      QuarantineRewrite, QuarantineFails, Close, BeginAppend, TryLock,
      BreakLock, Measure, OpenAppend, WriteHead, WriteTail, WriteFails, Sync,
      Crash, Expire, Die
  <2>2. \E s \in Steps \ {"rename"} : pc' = [pc EXCEPT ![p] = s]
    BY <1>5 DEF Start, OpenRead, QuarantineWrite, QuarantineTruncate,
      QuarantineRewrite, QuarantineFails, Close, BeginAppend, TryLock,
      BreakLock, Measure, OpenAppend, WriteHead, WriteTail, WriteFails, Sync,
      Crash, Expire, Die
  <2>3. QED
    BY <1>1, <1>2, <2>1, <2>2 DEF FreshIndex
<1>6. ASSUME NEW p \in Procs, StatLock(p) \/ Release(p)
      PROVE  candidate'[q] > Len(closed')
  <2>1. UNCHANGED <<closed, candidate>>
    BY <1>6 DEF StatLock, Release
  <2>2. \E s \in Steps \ {"rename"} : pc' = [pc EXCEPT ![p] = s]
    BY <1>6 DEF StatLock, Release, Finish
  <2>3. QED
    BY <1>1, <1>2, <2>1, <2>2 DEF FreshIndex
<1>7. CASE Tick \/ UNCHANGED vars
  BY <1>2, <1>7 DEF FreshIndex, Tick, NextAge, vars
<1>8. QED
  BY <1>3, <1>4, <1>5, <1>6, <1>7 DEF Next, Work, Open, Acquire, Rotate, Write

\* The log grows: every file of it stays in it, and keeps what it has where it
\* is.
Grows ==
    \A f \in Linked :
        /\ f \in Linked'
        /\ Len(files[f]) <= Len(files'[f])
        /\ \A i \in 1..Len(files[f]) : files'[f][i] = files[f][i]

\* The names of a directory are names of its files, and these of units.
LEMMA NamesOfFiles ==
    ASSUME NEW fs \in Seq(Seq(Units)), NEW a \in 0..Len(fs),
           NEW cl \in Seq(1..Len(fs))
    PROVE  /\ Len(fs) \in Nat /\ Len(cl) \in Nat /\ cl \in [1..Len(cl) -> 1..Len(fs)]
           /\ {cl[i] : i \in 1..Len(cl)} \cup ({a} \ {0}) \subseteq 1..Len(fs)
           /\ \A f \in 1..Len(fs) : fs[f] \in Seq(Units) /\ Len(fs[f]) \in Nat
<1>1. Len(fs) \in Nat /\ Len(cl) \in Nat /\ cl \in [1..Len(cl) -> 1..Len(fs)]
  BY LenProperties
<1>2. \A f \in 1..Len(fs) : fs[f] \in Seq(Units)
  BY ElementOfSeq
<1>3. \A f \in 1..Len(fs) : Len(fs[f]) \in Nat
  BY <1>2, LenProperties
<1>4. \A i \in 1..Len(cl) : cl[i] \in 1..Len(fs)
  BY <1>1
<1>5. a # 0 => a \in 1..Len(fs)
  BY <1>1
<1>6. QED
  BY <1>1, <1>2, <1>3, <1>4, <1>5

\* A log that grows keeps its readable records.
LEMMA GrowthKeepsRecords ==
    ASSUME TypeOK, TypeOK', Grows
    PROVE  Readable \subseteq Readable'
<1> SUFFICES ASSUME NEW r \in Records, NEW f \in Linked,
                    NEW i \in 1..Len(files[f]),
                    WholeAt(files[f], i), files[f][i].rec = r
             PROVE  /\ f \in Linked' /\ i \in 1..Len(files'[f])
                    /\ WholeAt(files'[f], i) /\ files'[f][i].rec = r
  BY DEF Readable
<1>1. Len(files[f]) \in Nat
  <2>1. f \in 1..Len(files)
    BY NamesOfFiles DEF Linked, TypeOK, DiskType
  <2>2. QED
    BY <2>1, NamesOfFiles DEF TypeOK, DiskType
<1>2. f \in Linked' /\ Len(files'[f]) \in Nat
  <2>1. f \in Linked'
    BY DEF Grows
  <2>2. f \in 1..Len(files')
    BY <2>1, NamesOfFiles DEF Linked, TypeOK, DiskType
  <2>3. QED
    BY <2>1, <2>2, NamesOfFiles DEF TypeOK, DiskType
<1>3. Len(files[f]) <= Len(files'[f])
  BY DEF Grows
<1>4. \A j \in 1..Len(files[f]) : files'[f][j] = files[f][j]
  BY DEF Grows
<1>5. i > 1 /\ i - 1 \in 1..Len(files[f]) /\ (i # 2 => i - 2 \in 1..Len(files[f]))
  <2>1. i > 1
    BY DEF WholeAt
  <2>2. QED
    BY SMTT(60), <1>1, <2>1
<1>6. files'[f][i] = files[f][i] /\ files'[f][i - 1] = files[f][i - 1]
  BY <1>4, <1>5
<1>7. i # 2 => files'[f][i - 2] = files[f][i - 2]
  BY <1>4, <1>5
<1>8. WholeAt(files'[f], i)
  BY <1>5, <1>6, <1>7 DEF WholeAt
<1>9. i \in 1..Len(files'[f])
  BY <1>1, <1>2, <1>3
<1>10. QED
  BY <1>2, <1>6, <1>8, <1>9

\* A step of an append or a rotation under a lock that nobody has broken.
LEMMA AppendGrows ==
    ASSUME TypeOK, FreshIndex, ~usurped, NEW p \in Procs,
           Rename(p) \/ OpenAppend(p) \/ WriteHead(p) \/ WriteTail(p)
    PROVE  Grows
<1>1. /\ Len(files) \in Nat /\ Len(closed) \in Nat
      /\ closed \in [1..Len(closed) -> 1..Len(files)]
      /\ \A f \in 1..Len(files) : files[f] \in Seq(Units) /\ Len(files[f]) \in Nat
      /\ Linked \subseteq 1..Len(files)
  BY NamesOfFiles DEF TypeOK, DiskType, Linked
<1>2. CASE Rename(p)
  <2>1. files' = files
    BY <1>2 DEF Rename
  <2>2. Linked \subseteq Linked'
    <3>1. CASE active = 0
      BY <1>2, <3>1 DEF Rename, Linked
    <3>2. CASE active # 0
      <4>1. closed' = Append(closed, active)
        BY <1>1, <1>2, <3>2 DEF Rename, FreshIndex, TypeOK, LocalType
      <4>2. /\ Len(closed') = Len(closed) + 1
            /\ closed'[Len(closed) + 1] = active
            /\ \A i \in 1..Len(closed) : closed'[i] = closed[i]
        <5>1. active \in 1..Len(files)
          BY <1>1, <3>2 DEF TypeOK, DiskType
        <5>2. QED
          BY <4>1, <5>1, AppendProperties DEF TypeOK, DiskType
      <4>3. \A i \in 1..Len(closed) : i \in 1..Len(closed')
        BY <1>1, <4>2
      <4>4. Len(closed) + 1 \in 1..Len(closed')
        BY <1>1, <4>2
      <4>5. QED
        BY <4>2, <4>3, <4>4 DEF Linked
    <3>3. QED
      BY <3>1, <3>2
  <2>3. QED
    BY <1>1, <2>1, <2>2 DEF Grows
<1>3. CASE OpenAppend(p)
  <2>1. closed' = closed
    BY <1>3 DEF OpenAppend
  <2>2. CASE active = 0
    <3>1. files' = Append(files, <<>>)
      BY <1>3, <2>2 DEF OpenAppend
    <3>2. \A f \in 1..Len(files) : files'[f] = files[f]
      BY <3>1, EmptySeq, AppendProperties DEF TypeOK, DiskType
    <3>3. Linked \subseteq Linked'
      BY <2>1, <2>2 DEF Linked
    <3>4. QED
      BY SMTT(60), <1>1, <3>2, <3>3 DEF Grows
  <2>3. CASE active # 0
    BY <1>1, <1>3, <2>1, <2>3 DEF OpenAppend, Grows, Linked
  <2>4. QED
    BY <2>2, <2>3
<1>4. ASSUME NEW u \in Units, handle[p] \in 1..Len(files),
             UNCHANGED <<active, closed>>,
             files' = [files EXCEPT ![handle[p]] = Append(@, u)]
      PROVE  Grows
  <2>1. Linked' = Linked
    BY <1>4 DEF Linked
  <2>2. \A f \in 1..Len(files) :
           files'[f] = IF f = handle[p] THEN Append(files[f], u) ELSE files[f]
    <3>1. files \in [1..Len(files) -> Seq(Units)]
      BY LenProperties DEF TypeOK, DiskType
    <3>2. QED
      BY <1>4, <3>1
  <2>3. \A f \in 1..Len(files) :
           /\ Len(Append(files[f], u)) = Len(files[f]) + 1
           /\ \A i \in 1..Len(files[f]) : Append(files[f], u)[i] = files[f][i]
    BY <1>1, <1>4, AppendProperties
  <2>4. ASSUME NEW f \in Linked
        PROVE  /\ Len(files[f]) <= Len(files'[f])
               /\ \A i \in 1..Len(files[f]) : files'[f][i] = files[f][i]
    <3>1. f \in 1..Len(files) /\ Len(files[f]) \in Nat
      BY <1>1
    <3>2. CASE f = handle[p]
      <4>1. files'[f] = Append(files[f], u)
        BY <2>2, <3>1, <3>2
      <4>2. /\ Len(Append(files[f], u)) = Len(files[f]) + 1
            /\ \A i \in 1..Len(files[f]) : Append(files[f], u)[i] = files[f][i]
        BY <2>3, <3>1
      <4>3. QED
        BY <3>1, <4>1, <4>2
    <3>3. CASE f # handle[p]
      BY <2>2, <3>1, <3>3
    <3>4. QED
      BY <3>2, <3>3
  <2>5. QED
    BY <2>1, <2>4 DEF Grows
<1>5. ASSUME pc[p] \in {"head", "tail"}
      PROVE  /\ handle[p] \in 1..Len(files)
             /\ HeadUnit(Record(p)) \in Units /\ TailUnit(Record(p)) \in Units
  <2>1. Record(p) \in Records
    BY <1>5, RecordType DEF TypeOK, StepType
  <2>2. QED
    BY <1>1, <1>5, <2>1 DEF TypeOK, LocalType, Units, HeadUnit, TailUnit
<1>6. QED
  BY <1>2, <1>3, <1>4, <1>5 DEF WriteHead, WriteTail

\* sink.rs, append and rotate: for any number of processes, as long as no
\* running writer has lost its lock, the only step after which a record cannot
\* be read any more is an open that rewrites the active segment.
THEOREM AppendsOnlyAdd == Spec => AppendNeverErases
<1> DEFINE Keeps ==
      ~usurped =>
         \/ Readable \subseteq Readable'
         \/ \E p \in Procs : pc[p] \in {"truncate", "rewrite"} /\ pc'[p] # pc[p]
<1>1. Init => FreshIndex
  BY DEF Init, FreshIndex
<1>2. TypeOK /\ HolderInv /\ FreshIndex /\ [Next]_vars => FreshIndex'
  BY FreshStep
<1>3. TypeOK /\ TypeOK' /\ FreshIndex /\ [Next]_vars => [Keeps]_vars
  <2> SUFFICES ASSUME TypeOK, TypeOK', FreshIndex, Next, ~usurped PROVE Keeps
    BY DEF vars
  <2>1. ASSUME NEW p \in Procs,
               Rename(p) \/ OpenAppend(p) \/ WriteHead(p) \/ WriteTail(p)
        PROVE  Keeps
    BY <2>1, AppendGrows, GrowthKeepsRecords
  <2>2. ASSUME NEW p \in Procs, QuarantineTruncate(p) \/ QuarantineRewrite(p)
        PROVE  Keeps
    BY <2>2 DEF QuarantineTruncate, QuarantineRewrite, TypeOK, StepType
  <2>3. ASSUME UNCHANGED <<files, active, closed>> PROVE Keeps
    BY <2>3 DEF Readable, Linked
  <2>4. ASSUME NEW p \in Procs,
               \/ Start(p) \/ OpenRead(p) \/ QuarantineWrite(p)
               \/ QuarantineFails(p) \/ Close(p) \/ BeginAppend(p)
               \/ TryLock(p) \/ StatLock(p) \/ BreakLock(p) \/ Measure(p)
               \/ Scan(p) \/ WriteFails(p) \/ Sync(p) \/ Release(p)
               \/ Crash(p) \/ Expire(p)
        PROVE  UNCHANGED <<files, active, closed>>
    BY <2>4 DEF Start, OpenRead, QuarantineWrite, QuarantineFails, Close,
      BeginAppend, TryLock, StatLock, BreakLock, Measure, Scan, WriteFails,
      Sync, Release, Crash, Expire, Die
  <2>5. Tick => UNCHANGED <<files, active, closed>>
    BY DEF Tick
  <2>6. QED
    BY <2>1, <2>2, <2>3, <2>4, <2>5 DEF Next, Work, Open, Acquire, Rotate, Write
<1>4. QED
  BY <1>1, <1>2, <1>3, TypeCorrect, HolderCorrect, PTL DEF Spec, AppendNeverErases
-----------------------------------------------------------------------------
\* Induction over the natural numbers, as the least number principle.
LEMMA LeastNumber ==
    ASSUME NEW T \in SUBSET Nat, T # {}
    PROVE  \E n \in T : \A m \in T : n <= m
<1>1. \E R : IsWellFoundedOn(R, Nat) /\ \A x, y \in Nat : <<x, y>> \in R <=> x < y
  <2>1. \A x, y \in Nat : <<x, y>> \in OpToRel(<, Nat) <=> x < y
    BY DEF OpToRel
  <2>2. QED
    BY <2>1, NatLessThanWellFounded
<1>2. PICK R : IsWellFoundedOn(R, Nat) /\ \A x, y \in Nat : <<x, y>> \in R <=> x < y
  BY <1>1
<1>3. PICK n \in T : \A m \in T : ~ (<<m, n>> \in R)
  <2>1. IsWellFoundedOn(R, Nat)
    BY <1>2
  <2>2. QED
    BY <2>1, WFMin
<1>4. \A m \in T : ~ (m < n)
  BY <1>2, <1>3
<1>5. QED
  BY <1>4

\* The function that FlattenSeq is defined by: the first i pieces, joined.
JoinedFrom(pieces, joined, i) ==
    IF i = 1 THEN pieces[i] ELSE joined[i - 1] \o pieces[i]
Joined(pieces) ==
    LET joined[i \in 1..Len(pieces)] == JoinedFrom(pieces, joined, i) IN joined

LEMMA JoinedRecursion ==
    ASSUME NEW pieces, Len(pieces) \in Nat, NEW i \in 1..Len(pieces)
    PROVE  Joined(pieces)[i] = JoinedFrom(pieces, Joined(pieces), i)
<1> DEFINE I == 1..Len(pieces)
           R == {st \in I \X I : st[1] < st[2]}
           Def(joined, x) == JoinedFrom(pieces, joined, x)
           f[x \in I] == Def(f, x)
<1>1. \A x, y \in I : <<x, y>> \in R <=> x < y
  OBVIOUS
<1>2. IsWellFoundedOn(R, I)
  <2> HIDE DEF R
  <2>1. ASSUME NEW T \in SUBSET I, T # {}
        PROVE  \E x \in T : \A y \in T : ~ (<<y, x>> \in R)
    <3>1. T \in SUBSET Nat
      OBVIOUS
    <3>2. PICK n \in T : \A m \in T : n <= m
      BY <2>1, <3>1, LeastNumber
    <3>3. QED
      BY <1>1, <3>1, <3>2
  <2> HIDE DEF I
  <2>2. QED
    BY <2>1, MinWF
<1>3. WFDefOn(R, I, Def)
  <2> SUFFICES ASSUME NEW g, NEW h, NEW x \in I,
                      \A y \in SetLessThan(x, R, I) : g[y] = h[y]
               PROVE  Def(g, x) = Def(h, x)
    BY DEF WFDefOn
  <2>1. x # 1 => x - 1 \in SetLessThan(x, R, I)
    BY DEF SetLessThan
  <2>2. QED
    BY <2>1 DEF JoinedFrom
<1>4. Joined(pieces) = f
  BY DEF Joined, JoinedFrom
<1>5. OpDefinesFcn(f, I, Def)
  BY DEF OpDefinesFcn
<1> HIDE DEF f, R, Def
<1>6. WFInductiveDefines(f, I, Def)
  BY <1>2, <1>3, <1>5, WFInductiveDef
<1>7. f = [x \in I |-> Def(f, x)]
  BY <1>6 DEF WFInductiveDefines
<1>8. f[i] = Def(f, i)
  BY <1>7
<1>9. QED
  BY <1>4, <1>8 DEF Def

LEMMA FlattenIsJoined ==
    ASSUME NEW pieces, Len(pieces) \in Nat \ {0}
    PROVE  FlattenSeq(pieces) = Joined(pieces)[Len(pieces)]
BY DEF FlattenSeq, Joined, JoinedFrom

\* Joining sequences over S gives one.
LEMMA JoinedType ==
    ASSUME NEW S, NEW pieces \in Seq(Seq(S)), NEW i \in 1..Len(pieces)
    PROVE  Joined(pieces)[i] \in Seq(S)
<1> DEFINE T == {j \in 1..Len(pieces) : Joined(pieces)[j] \notin Seq(S)}
<1>1. Len(pieces) \in Nat /\ \A j \in 1..Len(pieces) : pieces[j] \in Seq(S)
  BY LenProperties, ElementOfSeq
<1>2. ASSUME T # {} PROVE FALSE
  <2>1. T \in SUBSET Nat
    BY <1>1
  <2> HIDE DEF T
  <2>2. PICK n \in T : \A m \in T : n <= m
    BY <1>2, <2>1, LeastNumber
  <2>3. n \in 1..Len(pieces) /\ Joined(pieces)[n] \notin Seq(S)
    BY <2>2 DEF T
  <2>4. Joined(pieces)[n] = JoinedFrom(pieces, Joined(pieces), n)
    BY <1>1, <2>3, JoinedRecursion
  <2>5. n # 1
    BY <1>1, <2>3, <2>4 DEF JoinedFrom
  <2>6. n - 1 \in 1..Len(pieces) /\ n - 1 \notin T
    BY <1>1, <2>1, <2>2, <2>3, <2>5
  <2>7. Joined(pieces)[n - 1] \in Seq(S)
    BY <2>6 DEF T
  <2>8. Joined(pieces)[n] = Joined(pieces)[n - 1] \o pieces[n]
    BY <2>4, <2>5 DEF JoinedFrom
  <2>9. QED
    BY <1>1, <2>3, <2>7, <2>8, ConcatProperties
<1>3. QED
  BY <1>2

\* Another piece does not change what is joined before it.
LEMMA JoinedBefore ==
    ASSUME NEW S, NEW pieces \in Seq(S), NEW x \in S, NEW i \in 1..Len(pieces)
    PROVE  Joined(Append(pieces, x))[i] = Joined(pieces)[i]
<1> DEFINE more == Append(pieces, x)
           T == {j \in 1..Len(pieces) : Joined(more)[j] # Joined(pieces)[j]}
<1>1. /\ Len(pieces) \in Nat /\ Len(more) = Len(pieces) + 1
      /\ \A j \in 1..Len(pieces) : more[j] = pieces[j]
  BY LenProperties, AppendProperties
<1> HIDE DEF more
<1>2. ASSUME T # {} PROVE FALSE
  <2>1. T \in SUBSET Nat
    BY <1>1
  <2> HIDE DEF T
  <2>2. PICK n \in T : \A m \in T : n <= m
    BY <1>2, <2>1, LeastNumber
  <2>3. n \in 1..Len(pieces) /\ Joined(more)[n] # Joined(pieces)[n]
    BY <2>2 DEF T
  <2>4. n \in 1..Len(more) /\ Len(more) \in Nat
    BY <1>1, <2>3
  <2>5. /\ Joined(pieces)[n] = JoinedFrom(pieces, Joined(pieces), n)
        /\ Joined(more)[n] = JoinedFrom(more, Joined(more), n)
    BY <1>1, <2>3, <2>4, JoinedRecursion
  <2>6. n # 1
    BY <1>1, <2>3, <2>5 DEF JoinedFrom
  <2>7. n - 1 \in 1..Len(pieces) /\ n - 1 \notin T
    BY <1>1, <2>1, <2>2, <2>3, <2>6
  <2>8. Joined(more)[n - 1] = Joined(pieces)[n - 1]
    BY <2>7 DEF T
  <2>9. QED
    BY <1>1, <2>3, <2>5, <2>8 DEF JoinedFrom
<1>3. QED
  BY <1>2 DEF more

\* Flattening one more piece appends it.
LEMMA FlattenAppend ==
    ASSUME NEW S, NEW pieces \in Seq(Seq(S)), NEW x \in Seq(S)
    PROVE  FlattenSeq(Append(pieces, x)) = FlattenSeq(pieces) \o x
<1> DEFINE more == Append(pieces, x)
<1>1. /\ Len(pieces) \in Nat /\ Len(more) = Len(pieces) + 1
      /\ more[Len(pieces) + 1] = x
  BY LenProperties, AppendProperties
<1>2. \A i \in 1..Len(pieces) : Joined(more)[i] = Joined(pieces)[i]
  BY JoinedBefore
<1> HIDE DEF more
<1>3. FlattenSeq(more) = Joined(more)[Len(more)]
  BY <1>1, FlattenIsJoined
<1>4. Joined(more)[Len(more)] = JoinedFrom(more, Joined(more), Len(more))
  BY <1>1, JoinedRecursion
<1>5. CASE Len(pieces) = 0
  <2>1. FlattenSeq(pieces) = pieces
    BY <1>5 DEF FlattenSeq
  <2>2. pieces = <<>>
    BY <1>5, EmptySeq
  <2>3. FlattenSeq(more) = x
    BY <1>1, <1>3, <1>4, <1>5 DEF JoinedFrom
  <2>4. <<>> \o x = x
    BY ConcatEmptySeq
  <2>5. QED
    BY <2>1, <2>2, <2>3, <2>4 DEF more
<1>6. CASE Len(pieces) # 0
  <2>1. FlattenSeq(pieces) = Joined(pieces)[Len(pieces)]
    BY <1>1, <1>6, FlattenIsJoined
  <2>2. Joined(more)[Len(more)] = Joined(more)[Len(more) - 1] \o more[Len(more)]
    <3>1. Len(more) # 1
      BY <1>1, <1>6
    <3>2. QED
      BY <1>4, <3>1 DEF JoinedFrom
  <2>3. Joined(more)[Len(more) - 1] = Joined(pieces)[Len(pieces)]
    BY <1>1, <1>2, <1>6
  <2>4. QED
    BY <1>1, <1>3, <2>1, <2>2, <2>3 DEF more
<1>7. QED
  BY <1>5, <1>6

LEMMA FlattenType ==
    ASSUME NEW S, NEW pieces \in Seq(Seq(S))
    PROVE  FlattenSeq(pieces) \in Seq(S)
<1>1. Len(pieces) \in Nat
  BY LenProperties
<1>2. CASE Len(pieces) = 0
  <2>1. FlattenSeq(pieces) = pieces /\ pieces = <<>>
    BY <1>2, EmptySeq DEF FlattenSeq
  <2>2. QED
    BY <2>1, EmptySeq
<1>3. CASE Len(pieces) # 0
  <2>1. FlattenSeq(pieces) = Joined(pieces)[Len(pieces)] /\ Len(pieces) \in 1..Len(pieces)
    BY <1>1, <1>3, FlattenIsJoined
  <2>2. QED
    BY <2>1, JoinedType
<1>4. QED
  BY <1>2, <1>3

\* Appending behind a sequence is appending behind what it ends.
LEMMA AppendBehind ==
    ASSUME NEW S, NEW c \in Seq(S), NEW d \in Seq(S), NEW x \in S
    PROVE  c \o Append(d, x) = Append(c \o d, x)
<1>1. <<x>> \in Seq(S) /\ c \o d \in Seq(S)
  BY ConcatProperties
<1>2. Append(d, x) = d \o <<x>> /\ Append(c \o d, x) = (c \o d) \o <<x>>
  BY <1>1, AppendIsConcat
<1>3. (c \o d) \o <<x>> = c \o (d \o <<x>>)
  BY SMTT(60), <1>1, ConcatAssociative
<1>4. QED
  BY <1>2, <1>3
-----------------------------------------------------------------------------
\* The lines of a file.
Pieces(c) == [i \in 1..Len(c) |-> IF WholeAt(c, i) THEN <<c[i].rec>> ELSE <<>>]

LEMMA UnitParts ==
    ASSUME NEW r \in Records
    PROVE  /\ HeadUnit(r) \in Units /\ HeadUnit(r).rec = r /\ ~HeadUnit(r).end
           /\ TailUnit(r) \in Units /\ TailUnit(r).rec = r /\ TailUnit(r).end
BY DEF HeadUnit, TailUnit, Units

LEMMA PiecesType ==
    ASSUME NEW c \in Seq(Units)
    PROVE  Pieces(c) \in Seq(Seq(Records)) /\ Len(Pieces(c)) = Len(c)
<1>1. Len(c) \in Nat /\ \A i \in 1..Len(c) : c[i].rec \in Records
  <2>1. Len(c) \in Nat /\ \A i \in 1..Len(c) : c[i] \in Units
    BY LenProperties, ElementOfSeq
  <2>2. QED
    BY <2>1 DEF Units
<1>2. \A i \in 1..Len(c) : Pieces(c)[i] \in Seq(Records)
  BY <1>1 DEF Pieces
<1>3. Pieces(c) \in [1..Len(c) -> Seq(Records)]
  BY <1>2 DEF Pieces
<1>4. QED
  BY <1>1, <1>3, IsASeq, LenProperties DEF Pieces

LEMMA LinesType ==
    ASSUME NEW c \in Seq(Units)
    PROVE  LinesOf(c) \in Seq(Records)
<1>1. LinesOf(c) = FlattenSeq(Pieces(c))
  BY DEF LinesOf, Pieces
<1>2. QED
  BY <1>1, PiecesType, FlattenType

LEMMA NoLines == LinesOf(<<>>) = <<>>
<1>1. <<>> \in Seq(Units) /\ Len(<<>>) = 0
  BY EmptySeq
<1>2. Pieces(<<>>) = <<>>
  <2>1. Pieces(<<>>) \in Seq(Seq(Records)) /\ Len(Pieces(<<>>)) = 0
    BY <1>1, PiecesType
  <2>2. QED
    BY <2>1, EmptySeq
<1>3. LinesOf(<<>>) = FlattenSeq(Pieces(<<>>))
  BY DEF LinesOf, Pieces
<1>4. QED
  BY <1>1, <1>2, <1>3 DEF FlattenSeq

\* A unit more at the end of a file is a line more, or none.
LEMMA LinesAppend ==
    ASSUME NEW c \in Seq(Units), NEW u \in Units
    PROVE  LinesOf(Append(c, u))
             = LinesOf(c) \o (IF WholeAt(Append(c, u), Len(c) + 1) THEN <<u.rec>> ELSE <<>>)
<1> DEFINE more == Append(c, u)
           piece == IF WholeAt(more, Len(c) + 1) THEN <<u.rec>> ELSE <<>>
<1>1. /\ Len(c) \in Nat /\ more \in Seq(Units) /\ Len(more) = Len(c) + 1
      /\ more[Len(c) + 1] = u /\ \A i \in 1..Len(c) : more[i] = c[i]
  BY LenProperties, AppendProperties
<1>2. piece \in Seq(Records)
  BY DEF Units
<1> HIDE DEF more, piece
<1>3. \A i \in 1..Len(c) : WholeAt(more, i) <=> WholeAt(c, i)
  <2> SUFFICES ASSUME NEW i \in 1..Len(c) PROVE WholeAt(more, i) <=> WholeAt(c, i)
    OBVIOUS
  <2>1. i > 1 => i - 1 \in 1..Len(c)
    BY <1>1
  <2>2. i > 2 => i - 2 \in 1..Len(c)
    BY <1>1
  <2>3. more[i] = c[i] /\ (i > 1 => more[i - 1] = c[i - 1])
    BY <1>1, <2>1
  <2>4. i > 2 => more[i - 2] = c[i - 2]
    BY <1>1, <2>2
  <2>5. i > 1 /\ i # 2 => i > 2
    BY <1>1
  <2>6. QED
    BY <2>3, <2>4, <2>5 DEF WholeAt
<1>4. Pieces(more) = Append(Pieces(c), piece)
  <2>1. /\ Pieces(c) \in Seq(Seq(Records)) /\ Len(Pieces(c)) = Len(c)
        /\ Pieces(more) \in Seq(Seq(Records)) /\ Len(Pieces(more)) = Len(c) + 1
    BY <1>1, PiecesType
  <2>2. /\ Append(Pieces(c), piece) \in Seq(Seq(Records))
        /\ Len(Append(Pieces(c), piece)) = Len(c) + 1
        /\ Append(Pieces(c), piece)[Len(c) + 1] = piece
        /\ \A i \in 1..Len(c) : Append(Pieces(c), piece)[i] = Pieces(c)[i]
    BY SMTT(60), <1>2, <2>1, AppendProperties
  <2>3. \A i \in 1..Len(c) : Pieces(more)[i] = Pieces(c)[i]
    BY <1>1, <1>3 DEF Pieces
  <2>4. Pieces(more)[Len(c) + 1] = piece
    BY <1>1 DEF Pieces, piece
  <2>5. \A i \in 1..(Len(c) + 1) : Pieces(more)[i] = Append(Pieces(c), piece)[i]
    BY <1>1, <2>2, <2>3, <2>4
  <2>6. QED
    BY <2>1, <2>2, <2>5, SeqEqual
<1>5. LinesOf(more) = FlattenSeq(Pieces(more)) /\ LinesOf(c) = FlattenSeq(Pieces(c))
  BY DEF LinesOf, Pieces
<1>6. FlattenSeq(Append(Pieces(c), piece)) = FlattenSeq(Pieces(c)) \o piece
  BY <1>2, PiecesType, FlattenAppend
<1>7. QED
  BY <1>4, <1>5, <1>6 DEF more, piece

\* The head of a line is not one, and its tail, behind the head, completes it.
LEMMA LinesHead ==
    ASSUME NEW c \in Seq(Units), NEW r \in Records
    PROVE  LinesOf(Append(c, HeadUnit(r))) = LinesOf(c)
<1>1. HeadUnit(r) \in Units /\ ~HeadUnit(r).end
  BY UnitParts
<1>2. Append(c, HeadUnit(r))[Len(c) + 1] = HeadUnit(r)
  BY <1>1, AppendProperties
<1>3. ~WholeAt(Append(c, HeadUnit(r)), Len(c) + 1)
  BY <1>1, <1>2 DEF WholeAt
<1>4. LinesOf(c) \o <<>> = LinesOf(c)
  BY LinesType, ConcatEmptySeq
<1>5. QED
  BY <1>1, <1>3, <1>4, LinesAppend

\* c ends in the head of r, and what is before it ends a line.
Unfinished(c, r) ==
    /\ c # <<>> /\ c[Len(c)] = HeadUnit(r)
    /\ Len(c) = 1 \/ c[Len(c) - 1].end

LEMMA LinesTail ==
    ASSUME NEW c \in Seq(Units), NEW r \in Records, Unfinished(c, r)
    PROVE  LinesOf(Append(c, TailUnit(r))) = Append(LinesOf(c), r)
<1>1. /\ TailUnit(r) \in Units /\ TailUnit(r).end /\ TailUnit(r).rec = r
  BY UnitParts
<1>2. /\ Append(c, TailUnit(r))[Len(c) + 1] = TailUnit(r)
      /\ \A i \in 1..Len(c) : Append(c, TailUnit(r))[i] = c[i]
  BY <1>1, AppendProperties
<1>3. Len(c) \in Nat /\ Len(c) > 0
  BY LenProperties, EmptySeq DEF Unfinished
<1>4. WholeAt(Append(c, TailUnit(r)), Len(c) + 1)
  BY SMTT(60), <1>1, <1>2, <1>3 DEF WholeAt, Unfinished
<1>5. LinesOf(c) \o <<r>> = Append(LinesOf(c), r)
  BY LinesType, AppendIsConcat
<1>6. QED
  BY <1>1, <1>4, <1>5, LinesAppend

\* What an open keeps of a file with an unfinished line, and what it cuts off.
LEMMA UnfinishedParts ==
    ASSUME NEW c \in Seq(Units), NEW r \in Records, Unfinished(c, r)
    PROVE  /\ Intact(c) \in Seq(Units) /\ Terminated(Intact(c)) /\ ~Terminated(c)
           /\ c = Append(Intact(c), HeadUnit(r))
           /\ Damaged(c) = {HeadUnit(r)}
<1>1. Len(c) \in Nat /\ Len(c) > 0
  BY LenProperties, EmptySeq DEF Unfinished
<1>2. HeadUnit(r) \in Units /\ ~HeadUnit(r).end
  BY UnitParts
<1>3. TornPart(c) = {Len(c)}
  <2>1. Len(c) \in TornPart(c)
    BY <1>1, <1>2 DEF TornPart, Unfinished
  <2>2. ASSUME NEW i \in 1..Len(c), i # Len(c) PROVE i \notin TornPart(c)
    <3>1. Len(c) - 1 \in i..Len(c) /\ Len(c) # 1
      <4>1. \A n \in Nat : \A j \in 1..n : j # n => n - 1 \in j..n /\ n # 1
        OBVIOUS
      <4>2. QED
        BY <1>1, <2>2, <4>1
    <3>2. c[Len(c) - 1].end
      BY <3>1 DEF Unfinished
    <3>3. QED
      BY <3>1, <3>2 DEF TornPart
  <2>3. QED
    BY <2>1, <2>2 DEF TornPart
<1>4. Cardinality(TornPart(c)) = 1
  BY <1>3, FS_Singleton
<1>5. Split(c) = Len(c) - 1
  BY <1>1, <1>4 DEF Split
<1>6. /\ Intact(c) \in Seq(Units) /\ Len(Intact(c)) = Len(c) - 1
      /\ \A i \in 1..(Len(c) - 1) : Intact(c)[i] = c[i]
  <2> DEFINE n == Len(c) - 1
  <2>1. Intact(c) = SubSeq(c, 1, n)
    BY <1>5 DEF Intact
  <2>2. \A i \in 1..n : c[i] \in Units
    BY <1>1, ElementOfSeq
  <2>3. n \in Nat /\ n - 1 + 1 = n
    BY <1>1
  <2> HIDE DEF n
  <2>4. /\ SubSeq(c, 1, n) \in Seq(Units)
        /\ Len(SubSeq(c, 1, n)) = IF 1 <= n THEN n - 1 + 1 ELSE 0
        /\ \A i \in 1..(n - 1 + 1) : SubSeq(c, 1, n)[i] = c[1 + i - 1]
    BY <2>2, <2>3, SubSeqProperties
  <2>5. Len(SubSeq(c, 1, n)) = n /\ \A i \in 1..n : SubSeq(c, 1, n)[i] = c[i]
    BY <2>3, <2>4
  <2>6. QED
    BY <2>1, <2>4, <2>5 DEF n
<1>7. c = Append(Intact(c), HeadUnit(r))
  <2>1. /\ Append(Intact(c), HeadUnit(r)) \in Seq(Units)
        /\ Len(Append(Intact(c), HeadUnit(r))) = Len(c)
        /\ Append(Intact(c), HeadUnit(r))[Len(c)] = HeadUnit(r)
        /\ \A i \in 1..(Len(c) - 1) : Append(Intact(c), HeadUnit(r))[i] = c[i]
    BY <1>1, <1>2, <1>6, AppendProperties
  <2>2. \A i \in 1..Len(c) : Append(Intact(c), HeadUnit(r))[i] = c[i]
    BY SMTT(60), <1>1, <2>1 DEF Unfinished
  <2>3. QED
    BY <2>1, <2>2, SeqEqual
<1>8. Terminated(Intact(c))
  <2>1. CASE Len(c) = 1
    BY <1>6, <2>1, EmptySeq DEF Terminated
  <2>2. CASE Len(c) # 1
    BY <1>1, <1>6, <2>2 DEF Terminated, Unfinished
  <2>3. QED
    BY <2>1, <2>2
<1>9. ~Terminated(c)
  BY <1>2 DEF Terminated, Unfinished
<1>10. Damaged(c) = {HeadUnit(r)}
  BY <1>3 DEF Damaged, Unfinished
<1>11. QED
  BY <1>6, <1>7, <1>8, <1>9, <1>10

LEMMA LinesIntact ==
    ASSUME NEW c \in Seq(Units), NEW r \in Records, Unfinished(c, r)
    PROVE  LinesOf(Intact(c)) = LinesOf(c)
BY UnfinishedParts, LinesHead

\* The head of a record behind whole lines is an unfinished line.
LEMMA HeadIsUnfinished ==
    ASSUME NEW c \in Seq(Units), NEW r \in Records, Terminated(c)
    PROVE  Unfinished(Append(c, HeadUnit(r)), r)
<1>1. HeadUnit(r) \in Units /\ Len(c) \in Nat
  BY UnitParts, LenProperties
<1>2. /\ Append(c, HeadUnit(r)) # <<>>
      /\ Len(Append(c, HeadUnit(r))) = Len(c) + 1
      /\ Append(c, HeadUnit(r))[Len(c) + 1] = HeadUnit(r)
      /\ \A i \in 1..Len(c) : Append(c, HeadUnit(r))[i] = c[i]
  BY <1>1, AppendProperties
<1>3. c # <<>> => Len(c) \in 1..Len(c)
  BY <1>1, EmptySeq
<1>4. c = <<>> => Len(c) = 0
  OBVIOUS
<1>5. QED
  BY <1>1, <1>2, <1>3, <1>4 DEF Unfinished, Terminated
-----------------------------------------------------------------------------
\* The sink as a trail.

Repairing == {"quarantine", "truncate", "rewrite"}

\* Nothing is repaired before the kill, and one process runs behind it.
KillInv ==
    /\ ~usurped
    /\ Dead = {} => \A p \in Procs : pc[p] \notin Repairing
    /\ Dead # {} =>
          \A p, q \in Procs : pc[p] \in Running /\ pc[q] \in Running => p = q

\* The active segment is none of the closed ones.
ClosedInv == \A i \in 1..Len(closed) : closed[i] # active \/ active = 0

\* The active segment ends in a newline, except while its last line is being
\* written, or was when its writer was killed, and while it is rewritten.
Whole ==
    /\ Terminated(Contents)
    /\ \A p \in Procs : pc[p] # "tail" /\ pc[p] \notin Repairing
Written(p) ==
    /\ pc[p] = "tail"
    /\ Unfinished(Contents, Record(p))
Torn ==
    /\ Dead # {}
    /\ \E r \in Records : Unfinished(Contents, r)
    /\ \A p \in Procs :
          pc[p] \in Running => pc[p] \in {"read", "quarantine", "truncate"}
Rewritten(p) ==
    /\ pc[p] = "rewrite"
    /\ handle[p] = active
    /\ Contents = <<>>
    /\ \E r \in Records : Unfinished(snapshot[p], r)

Segment ==
    \/ Whole
    \/ \E p \in Procs : Written(p)
    \/ Torn
    \/ \E p \in Procs : Rewritten(p)

\* A writer has the active segment open, and a repair what it holds.
Writer(p) ==
    /\ pc[p] \in {"head", "tail"} => handle[p] = active
    /\ pc[p] \in {"quarantine", "truncate"} => snapshot[p] = Contents
    /\ pc[p] \in {"truncate", "rewrite"} => Damaged(snapshot[p]) \subseteq quarantine

SegmentInv == Segment /\ \A p \in Procs : Writer(p)

\* A record is on the trail once its append is past the write, and not before.
Past(r) ==
    \/ r[2] <= count[r[1]]
    \/ r[2] = count[r[1]] + 1 /\ pc[r[1]] \in {"sync", "release", "dead"}
TrailInv ==
    /\ \A r \in Range(Trail) : Past(r)
    /\ \A p \in Procs :
          pc[p] = "sync" \/ (pc[p] = "release" /\ result[p] = "ok") =>
             Record(p) \in Range(Trail)
    /\ \A r \in acked : r[2] <= count[r[1]]

DiskInv == TypeOK /\ HolderInv /\ FreshIndex /\ KillInv /\ ClosedInv /\ SegmentInv

\* Who is in the critical section, or repairs, is there alone.
LEMMA Alone ==
    ASSUME HolderInv, KillInv, NEW p \in Procs, NEW q \in Procs
    PROVE  /\ pc[p] \in Critical /\ pc[q] \in Critical => p = q
           /\ pc[p] \in Repairing /\ pc[q] \in Running => Dead # {} /\ p = q
<1>1. pc[p] \in Critical /\ pc[q] \in Critical => p = q
  BY RecordOwner DEF HolderInv, KillInv, InCritical
<1>2. pc[p] \in Repairing => Dead # {} /\ pc[p] \in Running
  BY DEF KillInv, Repairing, Running, Opening
<1>3. QED
  BY <1>1, <1>2 DEF KillInv

\* A step that writes a line or takes a segment away finds it whole, and one
\* that completes a line or rewrites the segment finds it as it left it.
LEMMA SegmentOf ==
    ASSUME DiskInv, NEW p \in Procs
    PROVE  /\ pc[p] \in {"rename", "create", "head"} => Whole
           /\ pc[p] = "tail" => Written(p)
           /\ pc[p] = "truncate" => Torn
           /\ pc[p] = "rewrite" => Rewritten(p)
<1>1. Whole \/ (\E q \in Procs : Written(q)) \/ Torn \/ (\E q \in Procs : Rewritten(q))
  BY DEF DiskInv, SegmentInv, Segment
<1>2. ASSUME NEW q \in Procs, Written(q), pc[p] \in Critical \cup Repairing
      PROVE  p = q
  <2>1. pc[q] \in Critical /\ pc[q] \in Running
    BY <1>2 DEF Written, Critical, Running
  <2>2. QED
    BY <1>2, <2>1, Alone DEF DiskInv
<1>3. ASSUME NEW q \in Procs, Rewritten(q), pc[p] \in Running
      PROVE  p = q
  <2>1. pc[q] \in Repairing
    BY <1>3 DEF Rewritten, Repairing
  <2>2. QED
    BY <1>3, <2>1, Alone DEF DiskInv
<1>4. pc[p] \in {"rename", "create", "head", "tail"} => pc[p] \in Critical /\ pc[p] \in Running
  BY DEF Critical, Running
<1>5. pc[p] \in {"truncate", "rewrite"} => pc[p] \in Repairing /\ pc[p] \in Running
  BY DEF Repairing, Running, Opening
<1>6. pc[p] \in {"rename", "create", "head"} => Whole
  BY <1>1, <1>2, <1>3, <1>4 DEF Written, Torn, Rewritten
<1>7. pc[p] = "tail" => Written(p)
  BY <1>1, <1>2, <1>3, <1>4 DEF Whole, Torn, Rewritten
<1>8. pc[p] = "truncate" => Torn
  BY <1>1, <1>2, <1>3, <1>5 DEF Whole, Written, Rewritten, Repairing
<1>9. pc[p] = "rewrite" => Rewritten(p)
  BY <1>1, <1>2, <1>3, <1>5 DEF Whole, Written, Torn, Repairing
<1>10. QED
  BY <1>6, <1>7, <1>8, <1>9

\* What the active segment holds is a sequence of units, and it has the name.
LEMMA ContentsType ==
    ASSUME TypeOK
    PROVE  /\ Contents \in Seq(Units) /\ Len(files) \in Nat /\ Len(closed) \in Nat
           /\ active # 0 => active \in 1..Len(files) /\ Contents = files[active]
           /\ Contents # <<>> => active # 0
           /\ \A i \in 1..Len(closed) : closed[i] \in 1..Len(files)
           /\ \A f \in 1..Len(files) : files[f] \in Seq(Units)
<1>1. /\ Len(files) \in Nat /\ Len(closed) \in Nat
      /\ closed \in [1..Len(closed) -> 1..Len(files)]
      /\ \A f \in 1..Len(files) : files[f] \in Seq(Units)
  BY NamesOfFiles DEF TypeOK, DiskType
<1>2. active \in 0..Len(files)
  BY DEF TypeOK, DiskType
<1>3. <<>> \in Seq(Units)
  BY EmptySeq
<1>4. CASE active = 0
  BY <1>1, <1>3, <1>4 DEF Contents
<1>5. CASE active # 0
  <2>1. active \in 1..Len(files) /\ Contents = files[active]
    BY <1>1, <1>2, <1>5 DEF Contents
  <2>2. QED
    BY <1>1, <1>5, <2>1
<1>6. QED
  BY <1>4, <1>5

\* Writing to the active segment changes its contents and no closed segment.
LEMMA ActiveWritten ==
    ASSUME TypeOK, ClosedInv, active # 0, NEW c \in Seq(Units),
           files' = [files EXCEPT ![active] = c], UNCHANGED <<active, closed>>
    PROVE  /\ Contents' = c /\ ClosedInv'
           /\ \A i \in 1..Len(closed) : files'[closed[i]] = files[closed[i]]
<1>1. files \in [1..Len(files) -> Seq(Units)] /\ active \in 1..Len(files)
  BY ContentsType, LenProperties DEF TypeOK, DiskType
<1>2. files'[active] = c /\ \A f \in 1..Len(files) : f # active => files'[f] = files[f]
  BY <1>1
<1>3. QED
  BY <1>2, ContentsType DEF Contents, ClosedInv

\* So does a new file that gets the name.
LEMMA ActiveCreated ==
    ASSUME TypeOK, files' = Append(files, <<>>), active' = Len(files) + 1,
           UNCHANGED closed
    PROVE  /\ Contents' = <<>> /\ ClosedInv'
           /\ \A i \in 1..Len(closed) : files'[closed[i]] = files[closed[i]]
<1>1. /\ files'[Len(files) + 1] = <<>>
      /\ \A f \in 1..Len(files) : files'[f] = files[f]
  BY EmptySeq, AppendProperties DEF TypeOK, DiskType
<1>2. Len(files) \in Nat /\ \A i \in 1..Len(closed) : closed[i] \in 1..Len(files)
  BY ContentsType
<1>3. Contents' = <<>>
  BY <1>1, <1>2 DEF Contents
<1>4. ClosedInv'
  BY <1>2 DEF ClosedInv
<1>5. QED
  BY <1>1, <1>2, <1>3, <1>4

\* The steps that touch neither the segments nor what a repair has read.
Still(p) ==
    \/ Start(p) \/ OpenRead(p) \/ QuarantineWrite(p) \/ Close(p) \/ BeginAppend(p)
    \/ TryLock(p) \/ StatLock(p) \/ BreakLock(p) \/ Measure(p) \/ Scan(p)
    \/ Sync(p) \/ Release(p)
    \/ (Killed(p) /\ UNCHANGED <<disk, local, acked>>)
Moving(p) ==
    \/ QuarantineTruncate(p) \/ QuarantineRewrite(p) \/ Rename(p)
    \/ OpenAppend(p) \/ WriteHead(p) \/ WriteTail(p)

\* No write fails where none may.
LEMMA CalmKinds ==
    ASSUME TypeOK, MaxFaults = 0, Next
    PROVE  Tick \/ \E p \in Procs : Still(p) \/ Moving(p)
<1>1. ASSUME NEW p \in Procs PROVE ~QuarantineFails(p) /\ ~WriteFails(p)
  BY DEF QuarantineFails, WriteFails, TypeOK, CounterType
<1>2. ASSUME NEW p \in Procs, Crash(p) \/ Expire(p)
      PROVE  Killed(p) /\ UNCHANGED <<disk, local, acked>>
  BY <1>2 DEF Crash, Expire, Die, Killed, Goto, lockVars, time
<1>3. ASSUME NEW p \in Procs, Start(p) \/ Close(p) \/ BeginAppend(p) \/ Work(p)
      PROVE  Still(p) \/ Moving(p)
  BY <1>1, <1>3 DEF Work, Open, Acquire, Rotate, Write, Still, Moving
<1>4. ASSUME NEW p \in Procs, Crash(p) \/ Expire(p)
      PROVE  Still(p)
  BY <1>2, <1>4 DEF Still
<1>5. QED
  BY <1>3, <1>4 DEF Next

\* The moves of one process.
LEMMA StillMoves ==
    ASSUME TypeOK, NEW p \in Procs, Still(p)
    PROVE  /\ UNCHANGED <<files, active, closed, handle>>
           /\ quarantine \subseteq quarantine'
           /\ \E s \in Steps \ {"head", "tail", "rewrite"} : pc' = [pc EXCEPT ![p] = s]
           /\ \A q \in Procs : q # p => count'[q] = count[q] /\ result'[q] = result[q]
           /\ \A q \in Procs : q # p => snapshot'[q] = snapshot[q]
           /\ ~OpenRead(p) => snapshot' = snapshot
           /\ pc[p] \in Critical \ {"release"} => count' = count
<1>1. ASSUME \/ Start(p) \/ Close(p) \/ BeginAppend(p) \/ TryLock(p)
             \/ BreakLock(p) \/ Measure(p)
      PROVE  /\ UNCHANGED <<disk, local>>
             /\ \E s \in Steps \ {"head", "tail", "rewrite"} : pc' = [pc EXCEPT ![p] = s]
  BY <1>1 DEF Start, Close, BeginAppend, TryLock, BreakLock, Measure, Goto, Steps,
    Running, Opening, Acquiring, Critical, Stopped
<1>2. ASSUME OpenRead(p)
      PROVE  /\ UNCHANGED <<disk, count, handle, result>>
             /\ \E s \in Steps \ {"head", "tail", "rewrite"} : pc' = [pc EXCEPT ![p] = s]
             /\ \A q \in Procs : q # p => snapshot'[q] = snapshot[q]
  BY <1>2 DEF OpenRead, Goto, Steps, Running, Opening, Stopped, TypeOK, LocalType
<1>3. ASSUME QuarantineWrite(p)
      PROVE  /\ UNCHANGED <<files, active, closed, local>>
             /\ quarantine \subseteq quarantine'
             /\ \E s \in Steps \ {"head", "tail", "rewrite"} : pc' = [pc EXCEPT ![p] = s]
  BY <1>3 DEF QuarantineWrite, Goto, Steps, Running, Opening
<1>4. ASSUME StatLock(p)
      PROVE  /\ UNCHANGED <<disk, handle, snapshot>>
             /\ \E s \in Steps \ {"head", "tail", "rewrite"} : pc' = [pc EXCEPT ![p] = s]
             /\ \A q \in Procs : q # p => count'[q] = count[q] /\ result'[q] = result[q]
             /\ pc[p] = "stat"
  BY <1>4 DEF StatLock, Finish, Goto, Steps, Running, Acquiring, Stopped, TypeOK,
    StepType, ReportType
<1>5. ASSUME Scan(p) \/ Sync(p)
      PROVE  /\ UNCHANGED <<disk, handle, snapshot, count>>
             /\ \E s \in Steps \ {"head", "tail", "rewrite"} : pc' = [pc EXCEPT ![p] = s]
             /\ \A q \in Procs : q # p => result'[q] = result[q]
  BY <1>5 DEF Scan, Sync, Goto, Steps, Running, Critical, TypeOK, ReportType
<1>6. ASSUME Release(p)
      PROVE  /\ UNCHANGED <<disk, handle, snapshot>>
             /\ \E s \in Steps \ {"head", "tail", "rewrite"} : pc' = [pc EXCEPT ![p] = s]
             /\ \A q \in Procs : q # p => count'[q] = count[q] /\ result'[q] = result[q]
             /\ pc[p] = "release"
  BY <1>6 DEF Release, Finish, Goto, Steps, Running, Stopped, TypeOK,
    StepType, ReportType
<1>7. ASSUME Killed(p), UNCHANGED <<disk, local, acked>>
      PROVE  \E s \in Steps \ {"head", "tail", "rewrite"} : pc' = [pc EXCEPT ![p] = s]
  BY <1>7 DEF Killed, Steps, Stopped
<1>8. "stat" \notin Critical
  BY DEF Critical
<1>9. QED
  BY <1>1, <1>2, <1>3, <1>4, <1>5, <1>6, <1>7, <1>8 DEF Still, disk, local

\* The segment does not change when only a process moves.
LEMMA StillSegment ==
    ASSUME DiskInv, TypeOK', ~TornReads, Calm, NEW p \in Procs, Still(p)
    PROVE  SegmentInv' /\ ClosedInv' /\ KillInv'
<1>1. /\ UNCHANGED <<files, active, closed, handle>> /\ Contents' = Contents
      /\ quarantine \subseteq quarantine' /\ pc \in [Procs -> Steps]
  BY StillMoves DEF Contents, DiskInv, TypeOK, StepType
<1>2. PICK s \in Steps \ {"head", "tail", "rewrite"} : pc' = [pc EXCEPT ![p] = s]
  BY StillMoves DEF DiskInv
<1>3. /\ pc'[p] = s /\ \A q \in Procs : q # p => pc'[q] = pc[q]
      /\ \A q \in Procs : q # p => snapshot'[q] = snapshot[q]
      /\ \A q \in Procs : q # p => count'[q] = count[q]
  BY <1>1, <1>2, StillMoves DEF DiskInv
<1>4. pc[p] # "dead" /\ Dead \subseteq Dead'
  <2>1. pc[p] # "dead"
    BY DEF Still, Start, OpenRead, QuarantineWrite, Close, BeginAppend, TryLock,
      StatLock, BreakLock, Measure, Scan, Sync, Release, Killed, Running, Opening,
      Acquiring, Critical
  <2>2. QED
    BY <1>3, <2>1 DEF Dead
<1>5. s = "dead" => Killed(p) /\ Dead = {} /\ \A q \in Procs : pc'[q] \in Stopped
  <2>1. s = "dead" => Killed(p)
    BY <1>3 DEF Still, Start, OpenRead, QuarantineWrite, Close, BeginAppend, TryLock,
      StatLock, BreakLock, Measure, Scan, Sync, Release, Goto, Finish, DiskInv,
      TypeOK, StepType
  <2>2. s = "dead" => p \in Dead' \ Dead
    BY <1>3, <1>4 DEF Dead
  <2>3. QED
    BY <2>1, <2>2 DEF Calm
<1>6. s = "quarantine" =>
        OpenRead(p) /\ ~Terminated(Contents) /\ \A q \in Procs : pc[q] # "tail"
  <2>1. s = "quarantine" => OpenRead(p)
    BY <1>3 DEF Still, Start, QuarantineWrite, Close, BeginAppend, TryLock,
      StatLock, BreakLock, Measure, Scan, Sync, Release, Killed, Goto, Finish, DiskInv,
      TypeOK, StepType
  <2>2. QED
    BY <1>1, <1>3, <2>1 DEF OpenRead, Goto
<1>7. s = "truncate" => QuarantineWrite(p)
  BY <1>3 DEF Still, Start, OpenRead, Close, BeginAppend, TryLock,
      StatLock, BreakLock, Measure, Scan, Sync, Release, Killed, Goto, Finish, DiskInv,
      TypeOK, StepType
<1>8. pc[p] \in {"quarantine", "truncate", "rewrite", "tail"} =>
        s = "dead" \/ (s = "truncate" /\ pc[p] = "quarantine")
  BY <1>1, <1>3 DEF Still, Start, OpenRead, QuarantineWrite, Close, BeginAppend, TryLock,
      StatLock, BreakLock, Measure, Scan, Sync, Release, Killed, Goto
<1>9. KillInv'
  <2>1. ASSUME Dead' = {}, NEW q \in Procs, pc'[q] \in Repairing PROVE FALSE
    <3>1. Dead = {} /\ \A r \in Procs : pc[r] \notin Repairing
      BY <1>4, <2>1 DEF DiskInv, KillInv
    <3>2. q = p /\ s \in Repairing
      BY <1>3, <2>1, <3>1
    <3>3. s = "quarantine"
      BY <1>7, <3>1, <3>2 DEF Repairing, QuarantineWrite
    <3>4. ~Whole /\ ~Torn /\ \A r \in Procs : ~Written(r) /\ ~Rewritten(r)
      BY <1>6, <3>1, <3>3 DEF Whole, Torn, Written, Rewritten, Terminated
    <3>5. QED
      BY <3>4 DEF DiskInv, SegmentInv, Segment
  <2>2. QED
    BY <2>1 DEF KillInv, Calm
<1>10. ClosedInv'
  BY <1>1 DEF DiskInv, ClosedInv
<1>11. Segment'
  <2>1. CASE Whole
    <3>1. s \notin Repairing
      BY <1>6, <1>7, <2>1 DEF Whole, Repairing, QuarantineWrite
    <3>2. Whole'
      BY <1>1, <1>2, <1>3, <2>1, <3>1 DEF Whole, Terminated
    <3>3. QED
      BY <3>2 DEF Segment
  <2>2. ASSUME NEW q \in Procs, Written(q) PROVE Segment'
    <3>1. CASE p # q
      <4>1. Written(q)'
        BY <1>1, <1>3, <2>2, <3>1 DEF Written, Unfinished, Record
      <4>2. QED
        BY <4>1 DEF Segment
    <3>2. CASE p = q
      <4>1. s = "dead"
        BY <1>8, <2>2, <3>2 DEF Written
      <4>2. Dead' # {} /\ \A r \in Procs : pc'[r] \notin Running
        BY <1>3, <1>5, <4>1 DEF Dead, Stopped, Running, Opening, Acquiring, Critical
      <4>3. Record(q) \in Records
        <5>1. pc[q] \in Critical
          BY <2>2 DEF Written, Critical
        <5>2. QED
          BY <5>1, RecordType DEF DiskInv, TypeOK, StepType
      <4>4. \E r \in Records : Unfinished(Contents', r)
        BY <1>1, <2>2, <4>3 DEF Written
      <4>5. Torn'
        BY <4>2, <4>4 DEF Torn, Unfinished
      <4>6. QED
        BY <4>5 DEF Segment
    <3>3. QED
      BY <3>1, <3>2
  <2>3. CASE Torn
    <3>1. Dead' # {}
      BY <1>4, <2>3 DEF Torn
    <3>2. PICK r \in Records : Unfinished(Contents, r)
      BY <2>3 DEF Torn
    <3>3. ~Terminated(Contents)
      BY <3>2, ContentsType, UnfinishedParts DEF DiskInv
    <3>4. pc[p] \in {"idle", "read", "quarantine", "truncate"}
      <4>1. pc[p] = "idle" \/ pc[p] \in Running
        BY DEF Still, Start, OpenRead, QuarantineWrite, Close, BeginAppend, TryLock,
          StatLock, BreakLock, Measure, Scan, Sync, Release, Killed, Running, Opening,
          Acquiring, Critical
      <4>2. QED
        BY <2>3, <4>1 DEF Torn
    <3>5. s \in {"read", "quarantine", "truncate", "dead"}
      BY <1>3, <3>3, <3>4 DEF Still, Start, OpenRead, QuarantineWrite, Close, BeginAppend,
        TryLock, StatLock, BreakLock, Measure, Scan, Sync, Release, Killed, Goto, DiskInv,
        TypeOK, StepType
    <3>6. Torn'
      <4>1. \A q \in Procs : pc'[q] \in Running => pc'[q] \in {"read", "quarantine", "truncate"}
        BY <1>3, <2>3, <3>5 DEF Torn, Running, Opening, Acquiring, Critical
      <4>2. Unfinished(Contents', r)
        BY <1>1, <3>2
      <4>3. QED
        BY <3>1, <4>1, <4>2 DEF Torn, Unfinished
    <3>7. QED
      BY <3>6 DEF Segment
  <2>4. ASSUME NEW q \in Procs, Rewritten(q) PROVE Segment'
    <3>1. p # q
      <4>1. Dead # {}
        BY <2>4 DEF Rewritten, Repairing, DiskInv, KillInv
      <4>2. QED
        BY <1>5, <1>8, <2>4, <4>1 DEF Rewritten
    <3>2. Rewritten(q)'
      BY <1>1, <1>3, <2>4, <3>1 DEF Rewritten, Unfinished
    <3>3. QED
      BY <3>2 DEF Segment
  <2>5. QED
    BY <2>1, <2>2, <2>3, <2>4 DEF DiskInv, SegmentInv, Segment
<1>12. ASSUME NEW q \in Procs PROVE Writer(q)'
  <2>1. Writer(q)
    BY DEF DiskInv, SegmentInv
  <2>2. CASE p # q
    BY <1>1, <1>3, <2>1, <2>2 DEF Writer
  <2>3. CASE p = q
    <3>1. s = "quarantine" => snapshot'[p] = Contents
      BY <1>6 DEF OpenRead, Goto, DiskInv, TypeOK, LocalType
    <3>2. s = "truncate" =>
            snapshot'[p] = Contents /\ Damaged(snapshot'[p]) \subseteq quarantine'
      BY <1>7, <2>1, <2>3 DEF QuarantineWrite, Writer, local
    <3>3. QED
      BY ZenonT(60), <1>1, <1>2, <1>3, <2>3, <3>1, <3>2 DEF Writer, Damaged, TornPart
  <2>4. QED
    BY <2>2, <2>3
<1>13. QED
  BY <1>9, <1>10, <1>11, <1>12 DEF SegmentInv

\* Behind a step of an append or a repair the process is where that step leads.
LEMMA MovingMoves ==
    ASSUME TypeOK, NEW p \in Procs, Moving(p)
    PROVE  /\ UNCHANGED <<count, acked, quarantine>>
           /\ pc \in [Procs -> Steps]
           /\ \E s \in {"rewrite", "opened", "release", "create", "head", "tail", "sync"} :
                 pc' = [pc EXCEPT ![p] = s]
           /\ \A q \in Procs : q # p =>
                 /\ handle'[q] = handle[q] /\ snapshot'[q] = snapshot[q]
                 /\ result'[q] = result[q]
           /\ Dead' = Dead /\ Dead \subseteq Procs
<1>1. pc \in [Procs -> Steps] /\ pc[p] # "dead"
  BY DEF TypeOK, StepType, Moving, QuarantineTruncate, QuarantineRewrite, Rename,
    OpenAppend, WriteHead, WriteTail
<1>2. \E s \in {"rewrite", "opened", "release", "create", "head", "tail", "sync"} :
         pc' = [pc EXCEPT ![p] = s]
  BY DEF Moving, QuarantineTruncate, QuarantineRewrite, Rename,
    OpenAppend, WriteHead, WriteTail, Goto
<1>3. Dead' = Dead
  BY <1>1, <1>2 DEF Dead
<1>4. ASSUME NEW q \in Procs, q # p
      PROVE  /\ handle'[q] = handle[q] /\ snapshot'[q] = snapshot[q]
             /\ result'[q] = result[q]
  BY <1>4 DEF Moving, QuarantineTruncate, QuarantineRewrite, Rename,
    OpenAppend, WriteHead, WriteTail, TypeOK, LocalType, ReportType, local
<1>5. UNCHANGED <<count, acked, quarantine>>
  BY DEF Moving, QuarantineTruncate, QuarantineRewrite, Rename,
    OpenAppend, WriteHead, WriteTail, local, disk
<1>6. QED
  BY <1>1, <1>2, <1>3, <1>4, <1>5 DEF Dead

\* When a writer or a repair moves, nobody else writes or repairs.
LEMMA OthersElsewhere ==
    ASSUME DiskInv, NEW p \in Procs, Moving(p), NEW q \in Procs, q # p
    PROVE  pc[q] \notin Repairing /\ (pc[p] \in Critical => pc[q] \notin Critical)
           /\ (pc[p] \in Repairing => pc[q] \notin Running)
<1>1. pc[p] \in Critical \cup Repairing /\ pc[p] \in Running
  BY DEF Moving, QuarantineTruncate, QuarantineRewrite, Rename, OpenAppend, WriteHead,
    WriteTail, Critical, Repairing, Running, Opening
<1>2. QED
  BY <1>1, Alone DEF DiskInv

\* What an unfinished segment is a segment of.
LEMMA TornKept ==
    ASSUME DiskInv, NEW p \in Procs, QuarantineTruncate(p)
    PROVE  /\ active # 0 /\ snapshot[p] = Contents
           /\ files' = [files EXCEPT ![active] = <<>>] /\ UNCHANGED <<active, closed>>
           /\ \E r \in Records : Unfinished(snapshot[p], r)
<1>1. pc[p] = "truncate"
  BY DEF QuarantineTruncate
<1>2. PICK r \in Records : Unfinished(Contents, r)
  BY <1>1, SegmentOf DEF Torn
<1>3. active # 0
  BY <1>2, ContentsType DEF Unfinished, DiskInv
<1>4. snapshot[p] = Contents
  BY <1>1 DEF DiskInv, SegmentInv, Writer
<1>5. QED
  BY <1>2, <1>3, <1>4 DEF QuarantineTruncate

\* What rewriting an emptied segment leaves.
LEMMA RewrittenContents ==
    ASSUME DiskInv, NEW p \in Procs, QuarantineRewrite(p)
    PROVE  /\ active # 0 /\ Intact(snapshot[p]) \in Seq(Units)
           /\ files' = [files EXCEPT ![active] = Intact(snapshot[p])]
           /\ UNCHANGED <<active, closed>>
<1>1. pc[p] = "rewrite"
  BY DEF QuarantineRewrite
<1>2. handle[p] = active /\ Contents = <<>> /\ active # 0
  BY <1>1, SegmentOf DEF Rewritten, DiskInv, TypeOK, LocalType
<1>3. files[active] = <<>>
  BY <1>2 DEF Contents
<1>4. Intact(snapshot[p]) \in Seq(Units)
  BY IntactType DEF DiskInv, TypeOK, LocalType
<1>5. Intact(snapshot[p]) \o SubSeq(<<>>, Len(Intact(snapshot[p])) + 1, Len(<<>>))
        = Intact(snapshot[p])
  <2> DEFINE c == Intact(snapshot[p])
  <2>1. Len(c) \in Nat /\ Len(<<>>) = 0
    BY <1>4, LenProperties
  <2>2. SubSeq(<<>>, Len(c) + 1, 0) = <<>>
    BY <2>1, SubSeqEmpty
  <2>3. c \o <<>> = c
    BY <1>4, ConcatEmptySeq
  <2>4. QED
    BY <2>1, <2>2, <2>3
<1>6. QED
  BY <1>2, <1>3, <1>4, <1>5 DEF QuarantineRewrite

\* The segment as each step of an append or a repair leaves it.
LEMMA MovingSegment ==
    ASSUME DiskInv, Calm, NEW p \in Procs, Moving(p)
    PROVE  SegmentInv' /\ ClosedInv' /\ KillInv'
<1>1. /\ UNCHANGED <<count, acked, quarantine>> /\ pc \in [Procs -> Steps]
      /\ Dead' = Dead
      /\ \A q \in Procs : q # p => handle'[q] = handle[q] /\ snapshot'[q] = snapshot[q]
  BY MovingMoves DEF DiskInv
<1>2. PICK s \in {"rewrite", "opened", "release", "create", "head", "tail", "sync"} :
         pc' = [pc EXCEPT ![p] = s]
  BY MovingMoves DEF DiskInv
<1>3. pc'[p] = s /\ \A q \in Procs : q # p => pc'[q] = pc[q]
  BY <1>1, <1>2
<1>4. ASSUME NEW q \in Procs, q # p
      PROVE  /\ pc'[q] \notin Repairing /\ (pc[p] \in Critical => pc'[q] \notin Critical)
             /\ (pc[p] \in Repairing => pc'[q] \notin Running)
  BY <1>3, <1>4, OthersElsewhere
<1>5. s = "rewrite" <=> QuarantineTruncate(p)
  BY <1>3 DEF Moving, QuarantineTruncate, QuarantineRewrite, Rename, OpenAppend,
    WriteHead, WriteTail, Goto, DiskInv, TypeOK, StepType
<1>6. KillInv'
  <2>1. ASSUME Dead' = {}, NEW q \in Procs, pc'[q] \in Repairing PROVE FALSE
    <3>1. q = p /\ s = "rewrite"
      BY <1>3, <1>4, <2>1 DEF Repairing
    <3>2. pc[p] \in Repairing
      BY <1>5, <3>1 DEF QuarantineTruncate, Repairing
    <3>3. QED
      BY <1>1, <2>1, <3>2 DEF DiskInv, KillInv
  <2>2. QED
    BY <2>1 DEF KillInv, Calm
<1>7. ASSUME pc[p] \in Critical, NEW q \in Procs, q # p PROVE Writer(q)'
  BY <1>3, <1>4, <1>7 DEF Writer, Repairing, Critical
<1>8. ASSUME pc[p] \in Repairing, NEW q \in Procs, q # p PROVE Writer(q)'
  BY <1>3, <1>4, <1>8 DEF Writer, Running, Opening, Critical
<1>9. CASE QuarantineTruncate(p)
  <2>1. pc[p] \in Repairing /\ s = "rewrite" /\ UNCHANGED snapshot
    BY <1>5, <1>9 DEF QuarantineTruncate, Repairing
  <2>2. Contents' = <<>> /\ ClosedInv'
    BY <1>9, TornKept, ActiveWritten, EmptySeq DEF DiskInv
  <2>3. handle'[p] = active'
    BY <1>9 DEF QuarantineTruncate, DiskInv, TypeOK, LocalType
  <2>4. Rewritten(p)'
    BY <1>3, <1>9, <2>1, <2>2, <2>3, TornKept DEF Rewritten, Unfinished
  <2>5. Writer(p)'
    <3>1. Damaged(snapshot[p]) \subseteq quarantine
      BY <1>9 DEF DiskInv, SegmentInv, Writer, QuarantineTruncate
    <3>2. QED
      BY <1>1, <1>3, <2>1, <3>1 DEF Writer
  <2>6. QED
    BY <1>6, <1>8, <2>1, <2>2, <2>4, <2>5 DEF SegmentInv, Segment
<1>10. CASE QuarantineRewrite(p)
  <2>1. pc[p] = "rewrite" /\ pc[p] \in Repairing /\ s = "opened"
    BY <1>3, <1>10 DEF QuarantineRewrite, Repairing, Goto, DiskInv, TypeOK, StepType
  <2>2. Contents' = Intact(snapshot[p]) /\ ClosedInv'
    BY <1>10, RewrittenContents, ActiveWritten DEF DiskInv
  <2>3. Terminated(Intact(snapshot[p]))
    BY <2>1, SegmentOf, UnfinishedParts DEF Rewritten, DiskInv, TypeOK, LocalType
  <2>4. Whole'
    <3>1. \A q \in Procs : pc'[q] # "tail" /\ pc'[q] \notin Repairing
      BY <1>3, <1>4, <2>1 DEF Repairing, Running, Critical
    <3>2. QED
      BY <2>2, <2>3, <3>1 DEF Whole, Terminated
  <2>5. Writer(p)'
    BY <1>3, <2>1 DEF Writer
  <2>6. QED
    BY <1>6, <1>8, <2>1, <2>2, <2>4, <2>5 DEF SegmentInv, Segment
<1>11. CASE Rename(p)
  <2>1. pc[p] = "rename" /\ pc[p] \in Critical /\ s \in {"release", "create"}
    BY <1>3, <1>11 DEF Rename, Critical, Goto, DiskInv, TypeOK, StepType
  <2>2. Whole
    BY <2>1, SegmentOf
  <2>3. files' = files /\ active' = 0 /\ ClosedInv'
    BY <1>11 DEF Rename, ClosedInv
  <2>4. Contents' = <<>>
    BY <2>3 DEF Contents
  <2>5. Whole'
    BY <1>3, <2>1, <2>2, <2>4 DEF Whole, Terminated, Repairing
  <2>6. Writer(p)'
    BY <1>3, <2>1 DEF Writer
  <2>7. QED
    BY <1>6, <1>7, <2>1, <2>3, <2>5, <2>6 DEF SegmentInv, Segment
<1>12. CASE OpenAppend(p)
  <2>1. pc[p] = "create" /\ pc[p] \in Critical /\ s = "head"
    BY <1>3, <1>12 DEF OpenAppend, Critical, Goto, DiskInv, TypeOK, StepType
  <2>2. Whole
    BY <2>1, SegmentOf
  <2>3. ClosedInv' /\ Terminated(Contents')
    <3>1. CASE active = 0
      BY <1>12, <3>1, ActiveCreated DEF OpenAppend, DiskInv, Terminated
    <3>2. CASE active # 0
      <4>1. UNCHANGED <<files, active, closed>>
        BY <1>12, <3>2 DEF OpenAppend
      <4>2. Contents' = Contents
        BY <4>1 DEF Contents
      <4>3. QED
        BY <2>2, <4>1, <4>2 DEF DiskInv, ClosedInv, Whole
    <3>3. QED
      BY <3>1, <3>2
  <2>4. Whole'
    BY <1>3, <2>1, <2>2, <2>3 DEF Whole, Terminated, Repairing
  <2>5. Writer(p)'
    BY <1>3, <1>12, <2>1 DEF Writer, OpenAppend, DiskInv, TypeOK, LocalType
  <2>6. QED
    BY <1>6, <1>7, <2>1, <2>3, <2>4, <2>5 DEF SegmentInv, Segment
<1>13. ASSUME pc[p] \in {"head", "tail"}, NEW u \in Units,
              files' = [files EXCEPT ![handle[p]] = Append(@, u)],
              UNCHANGED <<active, closed>>
       PROVE  /\ Contents' = Append(Contents, u) /\ ClosedInv'
              /\ Append(Contents, u) \in Seq(Units)
  <2>1. handle[p] = active /\ active # 0
    BY <1>13 DEF DiskInv, SegmentInv, Writer, TypeOK, LocalType
  <2>2. Contents = files[active] /\ Contents \in Seq(Units)
    BY <2>1, ContentsType DEF DiskInv
  <2>3. Append(Contents, u) \in Seq(Units)
    BY <2>2, AppendProperties
  <2>4. files' = [files EXCEPT ![active] = Append(Contents, u)]
    BY <1>13, <2>1, <2>2
  <2>5. QED
    BY <1>13, <2>1, <2>3, <2>4, ActiveWritten DEF DiskInv
<1>14. pc[p] \in Critical => Record(p) \in Records /\ Record(p)' = Record(p)
  BY <1>1, RecordType DEF Record, DiskInv, TypeOK, StepType
<1>15. CASE WriteHead(p)
  <2>1. /\ pc[p] = "head" /\ pc[p] \in Critical /\ s = "tail"
        /\ UNCHANGED <<active, closed, handle>>
    BY <1>3, <1>15 DEF WriteHead, Critical, Goto, DiskInv, TypeOK, StepType, local
  <2>2. Contents' = Append(Contents, HeadUnit(Record(p))) /\ ClosedInv'
    BY <1>13, <1>14, <1>15, <2>1, UnitParts DEF WriteHead
  <2>3. Unfinished(Append(Contents, HeadUnit(Record(p))), Record(p))
    BY <1>14, <2>1, SegmentOf, HeadIsUnfinished, ContentsType DEF Whole, DiskInv
  <2>4. Written(p)'
    BY <1>3, <1>14, <2>1, <2>2, <2>3 DEF Written, Unfinished
  <2>5. Writer(p)'
    BY <1>3, <2>1 DEF Writer, DiskInv, SegmentInv
  <2>6. QED
    BY <1>6, <1>7, <2>1, <2>2, <2>4, <2>5 DEF SegmentInv, Segment
<1>16. CASE WriteTail(p)
  <2>1. /\ pc[p] = "tail" /\ pc[p] \in Critical /\ s = "sync"
        /\ UNCHANGED <<active, closed, handle>>
    BY <1>3, <1>16 DEF WriteTail, Critical, Goto, DiskInv, TypeOK, StepType, local
  <2>2. Contents' = Append(Contents, TailUnit(Record(p))) /\ ClosedInv'
    BY <1>13, <1>14, <1>16, <2>1, UnitParts DEF WriteTail
  <2>3. Terminated(Append(Contents, TailUnit(Record(p))))
    <3>1. Contents \in Seq(Units) /\ TailUnit(Record(p)) \in Units /\ TailUnit(Record(p)).end
      BY <1>14, <2>1, ContentsType, UnitParts DEF DiskInv
    <3>2. /\ Len(Append(Contents, TailUnit(Record(p)))) = Len(Contents) + 1
          /\ Append(Contents, TailUnit(Record(p)))[Len(Contents) + 1] = TailUnit(Record(p))
      BY <3>1, AppendProperties
    <3>3. QED
      BY <3>1, <3>2 DEF Terminated
  <2>4. Whole'
    <3>1. \A q \in Procs : pc'[q] # "tail" /\ pc'[q] \notin Repairing
      BY <1>3, <1>4, <2>1 DEF Repairing, Critical
    <3>2. QED
      BY <2>2, <2>3, <3>1 DEF Whole, Terminated
  <2>5. Writer(p)'
    BY <1>3, <2>1 DEF Writer
  <2>6. QED
    BY <1>6, <1>7, <2>1, <2>2, <2>4, <2>5 DEF SegmentInv, Segment
<1>17. QED
  BY <1>9, <1>10, <1>11, <1>12, <1>15, <1>16 DEF Moving

\* A step that moves no file and no process.
LEMMA QuietSegment ==
    ASSUME DiskInv, UNCHANGED <<disk, pc, local, usurped>>
    PROVE  SegmentInv' /\ ClosedInv' /\ KillInv'
<1>1. Contents' = Contents
  BY DEF Contents
<1>2. UNCHANGED <<files, active, closed, quarantine, pc, count, snapshot, handle, usurped>>
  BY DEF disk, local
<1>3. Dead' = Dead
  BY DEF Dead
<1>4. KillInv' /\ ClosedInv'
  BY <1>2, <1>3 DEF DiskInv, KillInv, ClosedInv
<1>5. \A p \in Procs : Writer(p)'
  BY <1>1, <1>2 DEF DiskInv, SegmentInv, Writer, Damaged, TornPart
<1>6. (Whole => Whole') /\ (Torn => Torn')
  BY <1>1, <1>2, <1>3 DEF Whole, Torn, Terminated, Unfinished
<1>7. \A p \in Procs : (Written(p) => Written(p)') /\ (Rewritten(p) => Rewritten(p)')
  BY <1>1, <1>2 DEF Written, Rewritten, Unfinished, Record
<1>8. Segment'
  BY <1>6, <1>7 DEF DiskInv, SegmentInv, Segment
<1>9. QED
  BY <1>4, <1>5, <1>8 DEF SegmentInv

\* The steps of a calm directory.
CalmNext == Next /\ Calm

LEMMA DiskInvStep ==
    ASSUME ~TornReads, MaxFaults = 0, DiskInv, [CalmNext]_vars
    PROVE  DiskInv'
<1>1. [Next]_vars /\ TypeOK
  BY DEF CalmNext, DiskInv
<1>2. TypeOK'
  BY <1>1, DiskStep, LockStep, StepStep, LocalStep, ReportStep, CounterStep DEF TypeOK
<1>3. HolderInv' /\ FreshIndex'
  BY <1>1, HolderStep, FreshStep DEF DiskInv
<1>4. CASE UNCHANGED vars
  <2>1. UNCHANGED <<disk, pc, local, usurped>>
    BY <1>4 DEF vars
  <2>2. QED
    BY <1>2, <1>3, <2>1, QuietSegment DEF DiskInv
<1>5. CASE Tick
  <2>1. UNCHANGED <<disk, pc, local, usurped>>
    BY <1>5 DEF Tick
  <2>2. QED
    BY <1>2, <1>3, <2>1, QuietSegment DEF DiskInv
<1>6. CASE Calm /\ \E p \in Procs : Still(p) \/ Moving(p)
  <2>1. SegmentInv' /\ ClosedInv' /\ KillInv'
    BY <1>2, <1>6, StillSegment, MovingSegment
  <2>2. QED
    BY <1>2, <1>3, <2>1 DEF DiskInv
<1>7. QED
  BY <1>1, <1>4, <1>5, <1>6, CalmKinds DEF CalmNext

LEMMA DiskInvInit == Init /\ TypeOK => DiskInv
<1> SUFFICES ASSUME Init, TypeOK PROVE DiskInv
  OBVIOUS
<1>1. Contents = <<>>
  BY DEF Init, Contents
<1>2. HolderInv /\ FreshIndex
  BY DEF Init, HolderInv, LockHasOwner, FreshIndex, InCritical
<1>3. \A p \in Procs : pc[p] = "idle"
  BY DEF Init
<1>4. KillInv
  BY <1>3 DEF Init, KillInv, Dead, Repairing
<1>5. ClosedInv
  BY DEF Init, ClosedInv
<1>6. Whole /\ \A p \in Procs : Writer(p)
  BY <1>1, <1>3 DEF Whole, Terminated, Repairing, Writer
<1>7. QED
  BY <1>2, <1>4, <1>5, <1>6 DEF DiskInv, SegmentInv, Segment

\* A calm directory is an audit directory.
LEMMA CalmIsSpec == CalmSpec => Spec
BY PTL DEF CalmSpec, Spec
-----------------------------------------------------------------------------
\* The trail: the lines of the closed segments and those of the active one.
ClosedPieces == [i \in 1..Len(closed) |-> LinesOf(files[closed[i]])]
ClosedLines == FlattenSeq(ClosedPieces)

LEMMA TrailParts == Trail = ClosedLines \o ActiveLines
BY DEF Trail, ClosedLines, ClosedPieces

\* The active segment's lines, by whether an open is rewriting it.
ActiveIs ==
    /\ (\A p \in Procs : pc[p] # "rewrite") => ActiveLines = LinesOf(Contents)
    /\ \A p \in Procs :
          pc[p] = "rewrite" => ActiveLines = LinesOf(Intact(snapshot[p]))

LEMMA ActiveAre == DiskInv => ActiveIs
<1> SUFFICES ASSUME DiskInv PROVE ActiveIs
  OBVIOUS
<1> DEFINE w == CHOOSE p \in Procs : pc[p] = "rewrite"
<1>1. ASSUME NEW p \in Procs, pc[p] = "rewrite"
      PROVE  ActiveLines = LinesOf(Intact(snapshot[p]))
  <2>1. w \in Procs /\ pc[w] = "rewrite"
    BY <1>1
  <2> HIDE DEF w
  <2>2. w = p
    BY <1>1, <2>1, Alone DEF DiskInv, Repairing, Running, Opening
  <2>3. QED
    BY <1>1, <2>2 DEF ActiveLines, w
<1>2. (\A p \in Procs : pc[p] # "rewrite") => ActiveLines = LinesOf(Contents)
  BY DEF ActiveLines
<1>3. QED
  BY <1>1, <1>2 DEF ActiveIs

\* The trail is a sequence of records.
LEMMA TrailType ==
    ASSUME TypeOK
    PROVE  /\ ClosedPieces \in Seq(Seq(Records)) /\ Len(ClosedPieces) = Len(closed)
           /\ ClosedLines \in Seq(Records) /\ ActiveLines \in Seq(Records)
           /\ Trail \in Seq(Records)
<1>1. /\ Contents \in Seq(Units) /\ Len(closed) \in Nat
      /\ \A i \in 1..Len(closed) : files[closed[i]] \in Seq(Units)
  BY ContentsType
<1>2. \A i \in 1..Len(closed) : LinesOf(files[closed[i]]) \in Seq(Records)
  BY <1>1, LinesType
<1>3. ClosedPieces \in [1..Len(closed) -> Seq(Records)]
  BY <1>2 DEF ClosedPieces
<1>4. ClosedPieces \in Seq(Seq(Records)) /\ Len(ClosedPieces) = Len(closed)
  BY <1>1, <1>3, IsASeq, LenProperties DEF ClosedPieces
<1>5. ClosedLines \in Seq(Records)
  BY <1>4, FlattenType DEF ClosedLines
<1>6. ActiveLines \in Seq(Records)
  <2> DEFINE w == CHOOSE p \in Procs : pc[p] = "rewrite"
  <2>1. CASE \E p \in Procs : pc[p] = "rewrite"
    <3>1. w \in Procs
      BY <2>1
    <3>2. snapshot[w] \in Seq(Units)
      BY <3>1 DEF TypeOK, LocalType
    <3>3. LinesOf(Intact(snapshot[w])) \in Seq(Records)
      BY <3>2, IntactType, LinesType
    <3>4. QED
      BY <2>1, <3>3 DEF ActiveLines
  <2>2. CASE ~\E p \in Procs : pc[p] = "rewrite"
    BY <1>1, <2>2, LinesType DEF ActiveLines
  <2>3. QED
    BY <2>1, <2>2
<1>7. QED
  BY <1>4, <1>5, <1>6, TrailParts, ConcatProperties

\* Closed segments whose files stay as they are keep their lines.
LEMMA ClosedKept ==
    ASSUME UNCHANGED closed,
           \A i \in 1..Len(closed) : files'[closed[i]] = files[closed[i]]
    PROVE  ClosedLines' = ClosedLines
<1>1. ClosedPieces' = ClosedPieces
  BY DEF ClosedPieces
<1>2. QED
  BY <1>1 DEF ClosedLines

\* Where no open rewrites and the contents have the same lines, the trail is
\* the same.
LEMMA SameTrail ==
    ASSUME ActiveIs, ActiveIs', ClosedLines' = ClosedLines,
           LinesOf(Contents') = LinesOf(Contents),
           \A q \in Procs : pc[q] # "rewrite" /\ pc'[q] # "rewrite"
    PROVE  Trail' = Trail
<1>1. ActiveLines = LinesOf(Contents)
  BY DEF ActiveIs
<1>2. ActiveLines' = LinesOf(Contents')
  BY DEF ActiveIs, LinesOf, WholeAt
<1>3. QED
  BY <1>1, <1>2, TrailParts DEF Trail, ClosedLines, ClosedPieces

\* A step that touches no segment leaves the trail.
LEMMA StillTrail ==
    ASSUME DiskInv, DiskInv', ActiveIs, ActiveIs', Calm, NEW p \in Procs, Still(p)
    PROVE  Trail' = Trail
<1>1. UNCHANGED <<files, active, closed>> /\ pc \in [Procs -> Steps]
  BY StillMoves DEF DiskInv, TypeOK, StepType
<1>2. Contents' = Contents /\ ClosedLines' = ClosedLines
  BY <1>1, ClosedKept DEF Contents
<1>3. PICK s \in Steps \ {"head", "tail", "rewrite"} : pc' = [pc EXCEPT ![p] = s]
  BY StillMoves DEF DiskInv
<1>4. pc[p] # "rewrite"
  <2>1. SUFFICES ASSUME pc[p] = "rewrite" PROVE FALSE
    OBVIOUS
  <2>2. Killed(p) /\ Dead # {}
    BY <2>1 DEF Still, Start, OpenRead, QuarantineWrite, Close, BeginAppend, TryLock,
      StatLock, BreakLock, Measure, Scan, Sync, Release, DiskInv, KillInv, Repairing
  <2>3. p \in Dead' /\ p \notin Dead
    BY <1>1, <2>1, <2>2 DEF Killed, Dead
  <2>4. QED
    BY <2>2, <2>3 DEF Calm
<1>5. \A q \in Procs : pc'[q] = "rewrite" <=> pc[q] = "rewrite"
  BY <1>1, <1>3, <1>4
<1>6. CASE \A q \in Procs : pc[q] # "rewrite"
  BY <1>2, <1>5, <1>6, SameTrail
<1>7. ASSUME NEW q \in Procs, pc[q] = "rewrite" PROVE Trail' = Trail
  <2>1. snapshot'[q] = snapshot[q]
    BY <1>4, <1>7, StillMoves DEF DiskInv
  <2>2. ActiveLines = LinesOf(Intact(snapshot[q]))
    BY <1>7 DEF ActiveIs
  <2>3. ActiveLines' = LinesOf(Intact(snapshot'[q]))
    BY <1>5, <1>7 DEF ActiveIs, LinesOf, WholeAt, Intact, Split, TornPart
  <2>4. QED
    BY <1>2, <2>1, <2>2, <2>3, TrailParts DEF Trail, ClosedLines, ClosedPieces
<1>8. QED
  BY <1>6, <1>7

\* A unit that a writer adds is added to the contents of the active segment.
LEMMA LineWritten ==
    ASSUME DiskInv, NEW p \in Procs, pc[p] \in {"head", "tail"}, NEW u \in Units,
           files' = [files EXCEPT ![handle[p]] = Append(@, u)],
           UNCHANGED <<active, closed>>
    PROVE  /\ Contents' = Append(Contents, u) /\ ClosedInv'
           /\ \A i \in 1..Len(closed) : files'[closed[i]] = files[closed[i]]
           /\ Append(Contents, u) \in Seq(Units) /\ Contents \in Seq(Units)
<1>1. handle[p] = active /\ active # 0
  BY DEF DiskInv, SegmentInv, Writer, TypeOK, LocalType
<1>2. Contents = files[active] /\ Contents \in Seq(Units)
  BY <1>1, ContentsType DEF DiskInv
<1>3. Append(Contents, u) \in Seq(Units)
  BY <1>2, AppendProperties
<1>4. files' = [files EXCEPT ![active] = Append(Contents, u)]
  BY <1>1, <1>2
<1>5. QED
  BY <1>1, <1>2, <1>3, <1>4, ActiveWritten DEF DiskInv

ClosedSeq == ClosedPieces \in Seq(Seq(Records)) /\ Len(ClosedPieces) = Len(closed)

LEMMA ClosedIsSeq == TypeOK => ClosedSeq
BY TrailType DEF ClosedSeq

\* Repairing and rotating leave the trail, and so does the head of a line.
LEMMA MovingTrail ==
    ASSUME DiskInv, DiskInv', ActiveIs, ActiveIs', NEW p \in Procs, Moving(p),
           ~WriteTail(p)
    PROVE  Trail' = Trail
<1>1. /\ pc \in [Procs -> Steps]
      /\ \A q \in Procs : q # p => snapshot'[q] = snapshot[q]
  BY MovingMoves DEF DiskInv
<1>2. PICK s \in {"rewrite", "opened", "release", "create", "head", "tail", "sync"} :
         pc' = [pc EXCEPT ![p] = s]
  BY MovingMoves DEF DiskInv
<1>3. pc'[p] = s /\ \A q \in Procs : q # p => pc'[q] = pc[q] /\ pc[q] # "rewrite"
  BY <1>1, <1>2, OthersElsewhere DEF Repairing
<1>4. CASE QuarantineTruncate(p)
  <2>1. pc[p] = "truncate" /\ s = "rewrite" /\ snapshot' = snapshot
    BY <1>3, <1>4 DEF QuarantineTruncate, Goto, DiskInv, TypeOK, StepType
  <2>2. PICK r \in Records : Unfinished(snapshot[p], r)
    BY <1>4, TornKept
  <2>3. snapshot[p] = Contents /\ Contents \in Seq(Units)
    BY <1>4, TornKept, ContentsType DEF DiskInv
  <2>4. LinesOf(Intact(snapshot[p])) = LinesOf(Contents)
    BY <2>2, <2>3, LinesIntact
  <2>5. ActiveLines = LinesOf(Contents)
    BY <1>3, <2>1 DEF ActiveIs
  <2>6. ActiveLines' = LinesOf(Intact(snapshot'[p]))
    <3>1. pc'[p] = "rewrite"
      BY <1>3, <2>1
    <3>2. QED
      BY <3>1 DEF ActiveIs, LinesOf, WholeAt, Intact, Split, TornPart
  <2>7. ClosedLines' = ClosedLines
    BY <1>4, TornKept, ActiveWritten, EmptySeq, ClosedKept DEF DiskInv
  <2>8. QED
    BY <2>1, <2>4, <2>5, <2>6, <2>7, TrailParts DEF Trail, ClosedLines, ClosedPieces
<1>5. CASE QuarantineRewrite(p)
  <2>1. pc[p] = "rewrite" /\ s = "opened"
    BY <1>3, <1>5 DEF QuarantineRewrite, Goto, DiskInv, TypeOK, StepType
  <2>2. Contents' = Intact(snapshot[p]) /\ ClosedLines' = ClosedLines
    BY <1>5, RewrittenContents, ActiveWritten, ClosedKept DEF DiskInv
  <2>3. ActiveLines = LinesOf(Intact(snapshot[p]))
    BY <2>1 DEF ActiveIs
  <2>4. ActiveLines' = LinesOf(Contents')
    BY <1>3, <2>1 DEF ActiveIs, LinesOf, WholeAt
  <2>5. QED
    BY <2>2, <2>3, <2>4, TrailParts DEF Trail, ClosedLines, ClosedPieces
<1>6. ASSUME pc[p] # "rewrite", s # "rewrite", NEW q \in Procs
      PROVE  pc[q] # "rewrite" /\ pc'[q] # "rewrite"
  BY <1>3, <1>6
<1>7. CASE Rename(p)
  <2>1. pc[p] = "rename" /\ s # "rewrite" /\ files' = files /\ active' = 0
    BY <1>3, <1>7 DEF Rename, Goto, DiskInv, TypeOK, StepType
  <2>2. Contents' = <<>>
    BY <2>1 DEF Contents
  <2>3. CASE active = 0
    <3>1. closed' = closed /\ Contents = <<>>
      BY <1>7, <2>3 DEF Rename, Contents
    <3>2. ClosedLines' = ClosedLines
      BY <2>1, <3>1, ClosedKept
    <3>3. QED
      BY <1>6, <2>1, <2>2, <3>1, <3>2, SameTrail
  <2>4. CASE active # 0
    <3>1. closed' = Append(closed, active)
      <4>1. candidate[p] > Len(closed)
        BY <2>1 DEF DiskInv, FreshIndex, KillInv
      <4>2. candidate[p] \in Nat /\ Len(closed) \in Nat
        BY ContentsType DEF DiskInv, TypeOK, LocalType
      <4>3. QED
        BY <1>7, <2>4, <4>1, <4>2 DEF Rename
    <3>2. /\ active \in 1..Len(files) /\ Contents = files[active]
          /\ Contents \in Seq(Units) /\ Len(closed) \in Nat
      BY <2>4, ContentsType DEF DiskInv
    <3>3. /\ Len(closed') = Len(closed) + 1 /\ closed'[Len(closed) + 1] = active
          /\ \A i \in 1..Len(closed) : closed'[i] = closed[i]
      BY <3>1, <3>2, AppendProperties DEF DiskInv, TypeOK, DiskType
    <3>4. ClosedPieces' = Append(ClosedPieces, LinesOf(Contents))
      <4>1. /\ ClosedPieces \in Seq(Seq(Records)) /\ Len(ClosedPieces) = Len(closed)
            /\ LinesOf(Contents) \in Seq(Records)
        BY <3>2, TrailType, LinesType DEF DiskInv
      <4>2. /\ Append(ClosedPieces, LinesOf(Contents)) \in Seq(Seq(Records))
            /\ Len(Append(ClosedPieces, LinesOf(Contents))) = Len(closed) + 1
            /\ Append(ClosedPieces, LinesOf(Contents))[Len(closed) + 1] = LinesOf(Contents)
            /\ \A i \in 1..Len(closed) :
                  Append(ClosedPieces, LinesOf(Contents))[i] = ClosedPieces[i]
        BY <4>1, AppendProperties
      <4>3. ClosedPieces' = [i \in 1..Len(closed') |-> LinesOf(files'[closed'[i]])]
        BY DEF ClosedPieces, LinesOf, WholeAt
      <4>4. /\ Len(ClosedPieces') = Len(closed) + 1
            /\ ClosedPieces' \in Seq(Seq(Records))
        <5>1. (TypeOK => ClosedSeq)'
          BY ClosedIsSeq, PTL
        <5>2. QED
          BY <3>3, <5>1 DEF DiskInv, ClosedSeq
      <4>5. \A i \in 1..(Len(closed) + 1) :
               ClosedPieces'[i] = Append(ClosedPieces, LinesOf(Contents))[i]
        <5>1. \A i \in 1..Len(closed) : ClosedPieces'[i] = ClosedPieces[i]
          BY SMTT(60), <2>1, <3>2, <3>3, <4>3 DEF ClosedPieces
        <5>2. ClosedPieces'[Len(closed) + 1] = LinesOf(Contents)
          BY <2>1, <3>2, <3>3, <4>3
        <5>3. QED
          BY SMTT(60), <3>2, <4>2, <5>1, <5>2
      <4>6. QED
        BY <4>2, <4>4, <4>5, SeqEqual
    <3>5. ClosedLines' = ClosedLines \o LinesOf(Contents)
      BY <3>2, <3>4, TrailType, LinesType, FlattenAppend DEF ClosedLines, DiskInv
    <3>6. ActiveLines = LinesOf(Contents)
      BY <1>6, <2>1 DEF ActiveIs
    <3>7. ActiveLines' = <<>>
      <4>1. ActiveLines' = LinesOf(Contents')
        BY <1>6, <2>1 DEF ActiveIs, LinesOf, WholeAt
      <4>2. QED
        BY <2>2, <4>1, NoLines
    <3>8. Trail' = ClosedLines' \o ActiveLines' /\ Trail = ClosedLines \o ActiveLines
      BY TrailParts DEF Trail, ClosedLines, ClosedPieces
    <3>9. QED
      BY <3>5, <3>6, <3>7, <3>8, TrailType, ConcatEmptySeq DEF DiskInv
  <2>5. QED
    BY <2>3, <2>4
<1>8. CASE OpenAppend(p)
  <2>1. pc[p] = "create" /\ s # "rewrite"
    BY <1>3, <1>8 DEF OpenAppend, Goto, DiskInv, TypeOK, StepType
  <2>2. Contents' = Contents /\ ClosedLines' = ClosedLines
    <3>1. CASE active = 0
      <4>1. Contents = <<>>
        BY <3>1 DEF Contents
      <4>2. QED
        BY <1>8, <3>1, <4>1, ActiveCreated, ClosedKept DEF OpenAppend, DiskInv
    <3>2. CASE active # 0
      <4>1. UNCHANGED <<files, active, closed>>
        BY <1>8, <3>2 DEF OpenAppend
      <4>2. QED
        BY <4>1, ClosedKept DEF Contents
    <3>3. QED
      BY <3>1, <3>2
  <2>3. QED
    BY <1>6, <2>1, <2>2, SameTrail
<1>9. CASE WriteHead(p)
  <2>1. pc[p] = "head" /\ s # "rewrite" /\ Record(p) \in Records
    BY <1>3, <1>9, RecordType DEF WriteHead, Goto, DiskInv, TypeOK, StepType, Critical
  <2>2. HeadUnit(Record(p)) \in Units
    BY <2>1, UnitParts
  <2>3. /\ Contents' = Append(Contents, HeadUnit(Record(p))) /\ Contents \in Seq(Units)
        /\ ClosedLines' = ClosedLines
    BY <1>9, <2>1, <2>2, LineWritten, ClosedKept DEF WriteHead
  <2>4. LinesOf(Contents') = LinesOf(Contents)
    BY <2>1, <2>3, LinesHead
  <2>5. QED
    BY <1>6, <2>1, <2>3, <2>4, SameTrail
<1>10. QED
  BY <1>4, <1>5, <1>7, <1>8, <1>9 DEF Moving

\* The tail of a line puts its record at the end of the trail.
LEMMA TailTrail ==
    ASSUME DiskInv, DiskInv', ActiveIs, ActiveIs', NEW p \in Procs, WriteTail(p)
    PROVE  Record(p) \in Records /\ Trail' = Append(Trail, Record(p))
<1>1. pc[p] = "tail" /\ Record(p) \in Records /\ pc' = [pc EXCEPT ![p] = "sync"]
  BY RecordType DEF WriteTail, Goto, DiskInv, TypeOK, StepType, Critical
<1>2. \A q \in Procs : pc[q] # "rewrite" /\ pc'[q] # "rewrite"
  BY <1>1, OthersElsewhere DEF Moving, Repairing, DiskInv, TypeOK, StepType
<1>3. TailUnit(Record(p)) \in Units
  BY <1>1, UnitParts
<1>4. /\ Contents' = Append(Contents, TailUnit(Record(p))) /\ Contents \in Seq(Units)
      /\ ClosedLines' = ClosedLines
  BY <1>1, <1>3, LineWritten, ClosedKept DEF WriteTail
<1>5. LinesOf(Contents') = Append(LinesOf(Contents), Record(p))
  BY <1>1, <1>4, SegmentOf, LinesTail DEF Written
<1>6. ActiveLines = LinesOf(Contents) /\ ActiveLines \in Seq(Records)
  BY <1>2, TrailType DEF ActiveIs, DiskInv
<1>7. ActiveLines' = LinesOf(Contents')
  BY <1>2 DEF ActiveIs, LinesOf, WholeAt
<1>8. ActiveLines' = Append(ActiveLines, Record(p))
  BY <1>5, <1>6, <1>7
<1>9. Trail' = ClosedLines' \o ActiveLines' /\ Trail = ClosedLines \o ActiveLines
  BY TrailParts DEF Trail, ClosedLines, ClosedPieces
<1>10. ClosedLines \o Append(ActiveLines, Record(p))
         = Append(ClosedLines \o ActiveLines, Record(p))
  BY SMTT(60), <1>1, <1>6, TrailType, AppendBehind DEF DiskInv
<1>11. QED
  BY <1>1, <1>4, <1>8, <1>9, <1>10

\* What is on a trail, and what one more record adds.
LEMMA OnTrail ==
    ASSUME NEW t \in Seq(Records), NEW r \in Records
    PROVE  Range(Append(t, r)) = Range(t) \cup {r} /\ Range(t) \subseteq Records
<1>1. /\ Len(t) \in Nat /\ DOMAIN t = 1..Len(t)
      /\ DOMAIN Append(t, r) = 1..(Len(t) + 1)
      /\ \A i \in 1..Len(t) : t[i] \in Records /\ Append(t, r)[i] = t[i]
      /\ Append(t, r)[Len(t) + 1] = r
  BY LenProperties, AppendProperties, ElementOfSeq
<1>2. \A i \in 1..(Len(t) + 1) : i = Len(t) + 1 \/ i \in 1..Len(t)
  BY <1>1
<1>3. Len(t) + 1 \in 1..(Len(t) + 1) /\ \A i \in 1..Len(t) : i \in 1..(Len(t) + 1)
  BY <1>1
<1>4. QED
  BY <1>1, <1>2, <1>3 DEF Range

\* How each step moves what TrailInv speaks of: the process that moves, and
\* the records that are past their write.
LEMMA CountMoves ==
    ASSUME TypeOK, NEW p \in Procs, Still(p) \/ Moving(p)
    PROVE  /\ \A q \in Procs : q # p =>
                 count'[q] = count[q] /\ pc'[q] = pc[q] /\ result'[q] = result[q]
           /\ pc[p] \notin {"stat", "release"} => count' = count
           /\ count'[p] \in {count[p], count[p] + 1}
           /\ pc[p] \in {"sync", "release", "dead"} =>
                 \/ count'[p] = count[p] /\ pc'[p] \in {"release", "dead"}
                 \/ count'[p] = count[p] + 1
           /\ pc[p] # "release" => acked' = acked
<1>1. /\ pc \in [Procs -> Steps] /\ count \in [Procs -> 0..MaxAppends]
      /\ result \in [Procs -> Results]
  BY DEF TypeOK, StepType, ReportType
<1>2. CASE Moving(p)
  <2>1. UNCHANGED <<count, acked>>
    BY SMTT(60), <1>2, MovingMoves
  <2>2. /\ \A q \in Procs : q # p => pc'[q] = pc[q] /\ result'[q] = result[q]
        /\ pc[p] \notin {"sync", "release", "dead"}
    BY ZenonT(60), <1>1, <1>2, MovingMoves DEF Moving, QuarantineTruncate, QuarantineRewrite,
      Rename, OpenAppend, WriteHead, WriteTail
  <2>3. QED
    BY <2>1, <2>2
<1>3. CASE Still(p)
  <2>1. \A q \in Procs : q # p =>
           count'[q] = count[q] /\ pc'[q] = pc[q] /\ result'[q] = result[q]
    BY <1>1, <1>3, StillMoves
  <2>2. CASE StatLock(p)
    BY <1>1, <2>1, <2>2 DEF StatLock, Finish, Goto
  <2>3. CASE Release(p)
    BY <1>1, <2>1, <2>3 DEF Release, Finish, Goto
  <2>4. CASE ~StatLock(p) /\ ~Release(p)
    <3>1. UNCHANGED <<count, acked>>
      BY <1>3, <2>4 DEF Still, Start, OpenRead, QuarantineWrite, Close, BeginAppend,
        TryLock, BreakLock, Measure, Scan, Sync, local
    <3>2. pc[p] \in {"sync", "release", "dead"} => pc'[p] \in {"release", "dead"}
      BY <1>1, <1>3, <2>4 DEF Still, Start, OpenRead, QuarantineWrite, Close, BeginAppend,
        TryLock, BreakLock, Measure, Scan, Sync, Killed, Goto
    <3>3. QED
      BY <2>1, <3>1, <3>2
  <2>5. QED
    BY <2>2, <2>3, <2>4
<1>4. QED
  BY <1>2, <1>3

\* A record that is past its write stays so.
LEMMA PastStays ==
    ASSUME TypeOK, NEW p \in Procs, Still(p) \/ Moving(p), NEW r \in Records, Past(r)
    PROVE  Past(r)'
<1>1. r[1] \in Procs /\ r[2] \in Nat
  BY DEF Records
<1>2. count \in [Procs -> 0..MaxAppends]
  BY DEF TypeOK, StepType
<1>3. CASE r[1] # p
  <2>1. count'[r[1]] = count[r[1]] /\ pc'[r[1]] = pc[r[1]]
    BY <1>1, <1>3, CountMoves
  <2>2. QED
    BY <2>1 DEF Past
<1>4. CASE r[1] = p
  <2>1. /\ count'[p] \in {count[p], count[p] + 1} /\ count[p] \in Nat
        /\ pc[p] \in {"sync", "release", "dead"} =>
              \/ count'[p] = count[p] /\ pc'[p] \in {"release", "dead"}
              \/ count'[p] = count[p] + 1
    BY <1>2, CountMoves
  <2>2. QED
    BY <1>1, <1>4, <2>1 DEF Past
<1>5. QED
  BY <1>3, <1>4

\* What the steps do to the trail, and that its invariant holds behind them.
LEMMA TrailSteps ==
    ASSUME DiskInv, DiskInv', ActiveIs, ActiveIs', MaxFaults = 0, [CalmNext]_vars
    PROVE  \/ Trail' = Trail /\ \A p \in Procs : ~WriteTail(p)
           \/ \E p \in Procs : /\ WriteTail(p) /\ Record(p) \in Records
                               /\ Trail' = Append(Trail, Record(p))
<1>1. CASE Tick \/ UNCHANGED vars
  <2>1. UNCHANGED <<disk, pc, local>>
    BY <1>1 DEF Tick, vars
  <2>2. UNCHANGED <<files, active, closed, pc, snapshot>>
    BY <2>1 DEF disk, local
  <2>3. Trail' = Trail
    BY <2>2 DEF Trail, ActiveLines, Contents
  <2>4. \A p \in Procs : ~WriteTail(p)
    BY <2>2 DEF WriteTail, Goto, DiskInv, TypeOK, StepType
  <2>5. QED
    BY <2>3, <2>4
<1>2. ASSUME NEW p \in Procs, WriteTail(p)
      PROVE  Record(p) \in Records /\ Trail' = Append(Trail, Record(p))
  BY <1>2, TailTrail
<1>3. CASE Calm /\ \E p \in Procs : Still(p) \/ Moving(p)
  <2>1. PICK p \in Procs : Still(p) \/ Moving(p)
    BY <1>3
  <2>2. CASE \E q \in Procs : WriteTail(q)
    BY <1>2, <2>2
  <2>3. CASE \A q \in Procs : ~WriteTail(q)
    BY <1>3, <2>1, <2>3, StillTrail, MovingTrail
  <2>4. QED
    BY <2>2, <2>3
<1>4. QED
  BY <1>1, <1>3, CalmKinds DEF CalmNext, DiskInv

LEMMA TrailInvStep ==
    ASSUME DiskInv, DiskInv', ActiveIs, ActiveIs', MaxFaults = 0, TrailInv, [CalmNext]_vars
    PROVE  TrailInv'
<1>1. Trail \in Seq(Records)
  BY TrailType DEF DiskInv
<1>2. Range(Trail) \subseteq Range(Trail') /\ Range(Trail) \subseteq Records
  <2>1. Range(Trail) \subseteq Records
    BY <1>1, LenProperties, ElementOfSeq DEF Range
  <2>2. CASE Trail' = Trail
    BY <2>1, <2>2 DEF Range
  <2>3. ASSUME NEW p \in Procs, Record(p) \in Records, Trail' = Append(Trail, Record(p))
        PROVE  Range(Trail) \subseteq Range(Trail')
    BY <1>1, <2>3, OnTrail
  <2>4. QED
    BY <2>1, <2>2, <2>3, TrailSteps
<1>3. CASE Tick \/ UNCHANGED vars
  <2>1. UNCHANGED <<disk, pc, local, acked>>
    BY <1>3 DEF Tick, vars
  <2>2. UNCHANGED <<files, active, closed, pc, snapshot, count, result, acked>>
    BY <2>1 DEF disk, local
  <2>3. Trail' = Trail
    BY <2>2 DEF Trail, ActiveLines, Contents
  <2>4. QED
    BY <2>2, <2>3 DEF TrailInv, Past, Record, Range
<1>4. ASSUME Calm, NEW p \in Procs, Still(p) \/ Moving(p)
      PROVE  TrailInv'
  <2>0. /\ pc \in [Procs -> Steps] /\ result \in [Procs -> Results]
        /\ count \in [Procs -> 0..MaxAppends] /\ acked \subseteq Records
    BY DEF DiskInv, TypeOK, StepType, ReportType
  <2>1. ASSUME NEW r \in Range(Trail') PROVE Past(r)'
    <3>1. CASE r \in Range(Trail)
      BY <1>2, <1>4, <3>1, PastStays DEF TrailInv, DiskInv
    <3>2. CASE r \notin Range(Trail)
      <4>1. PICK q \in Procs : WriteTail(q) /\ r = Record(q)
        <5>1. Trail' # Trail
          BY <2>1, <3>2 DEF Range
        <5>2. PICK q \in Procs : /\ WriteTail(q) /\ Record(q) \in Records
                                 /\ Trail' = Append(Trail, Record(q))
          BY <5>1, TrailSteps
        <5>3. r \in Range(Append(Trail, Record(q)))
          BY <2>1, <5>2
        <5>4. Range(Append(Trail, Record(q))) = Range(Trail) \cup {Record(q)}
          BY <1>1, <5>2, OnTrail
        <5>5. QED
          BY <3>2, <5>2, <5>3, <5>4
      <4>2. count' = count /\ pc'[q] = "sync"
        BY <2>0, <4>1 DEF WriteTail, Goto, local
      <4>3. QED
        BY <4>1, <4>2 DEF Past, Record
    <3>3. QED
      BY <3>1, <3>2
  <2>2. ASSUME NEW q \in Procs, pc'[q] = "sync" \/ (pc'[q] = "release" /\ result'[q] = "ok")
        PROVE  Record(q)' \in Range(Trail')
    <3>1. CASE q # p
      <4>1. count'[q] = count[q] /\ pc'[q] = pc[q] /\ result'[q] = result[q]
        BY <1>4, <3>1, CountMoves DEF DiskInv
      <4>2. Record(q)' = Record(q)
        BY <4>1 DEF Record
      <4>3. QED
        BY <1>2, <2>2, <4>1, <4>2 DEF TrailInv
    <3>2. CASE q = p
      <4>1. WriteTail(p) \/ Sync(p)
        BY <1>4, <2>0, <2>2, <3>2 DEF Still, Moving, Start, OpenRead, QuarantineWrite,
          Close, BeginAppend, TryLock, StatLock, BreakLock, Measure, Scan, Sync, Release,
          Killed, QuarantineTruncate, QuarantineRewrite, Rename, OpenAppend, WriteHead,
          WriteTail, Goto, Finish, local
      <4>2. CASE WriteTail(p)
        <5>1. Record(q)' = Record(q)
          BY <4>2 DEF WriteTail, Record, local
        <5>2. PICK x \in Procs : /\ WriteTail(x) /\ Record(x) \in Records
                                 /\ Trail' = Append(Trail, Record(x))
          BY <4>2, TrailSteps
        <5>3. x = p
          BY <2>0, <4>2, <5>2 DEF WriteTail, Goto
        <5>4. QED
          BY <1>1, <3>2, <5>1, <5>2, <5>3, OnTrail
      <4>3. CASE Sync(p)
        <5>1. Record(q)' = Record(q) /\ pc[q] = "sync"
          BY <3>2, <4>3 DEF Sync, Record, local
        <5>2. QED
          BY <1>2, <5>1 DEF TrailInv
      <4>4. QED
        BY <4>1, <4>2, <4>3
    <3>3. QED
      BY <3>1, <3>2
  <2>3. ASSUME NEW r \in acked' PROVE r[2] <= count'[r[1]]
    <3>1. CASE r \in acked
      <4>1. r[1] \in Procs /\ r[2] \in Nat /\ r[2] <= count[r[1]]
        BY <2>0, <3>1 DEF TrailInv, Records
      <4>2. count[r[1]] \in Nat /\ count'[r[1]] \in {count[r[1]], count[r[1]] + 1}
        BY <1>4, <2>0, <4>1, CountMoves DEF DiskInv
      <4>3. QED
        BY <4>1, <4>2
    <3>2. CASE r \notin acked
      <4>1. Release(p) /\ r = Record(p)
        <5>1. pc[p] = "release"
          BY <1>4, <2>3, <3>2, CountMoves DEF DiskInv
        <5>2. Release(p) \/ acked' = acked
          BY <1>4, <5>1 DEF Still, Moving, Start, OpenRead, QuarantineWrite,
            Close, BeginAppend, TryLock, StatLock, BreakLock, Measure, Scan, Sync, 
            QuarantineTruncate, QuarantineRewrite, Rename, OpenAppend, WriteHead, WriteTail
        <5>3. QED
          BY <2>3, <3>2, <5>2 DEF Release
      <4>2. count'[p] = count[p] + 1 /\ count[p] \in Nat
        BY <2>0, <4>1 DEF Release, Finish
      <4>3. QED
        BY <4>1, <4>2 DEF Record
    <3>3. QED
      BY <3>1, <3>2
  <2>4. QED
    BY <2>1, <2>2, <2>3 DEF TrailInv, Past, Record, Range
<1>5. QED
  BY <1>3, <1>4, CalmKinds DEF CalmNext, DiskInv

\* What holds of a calm directory, and of the trail in it.
CalmInv == DiskInv /\ ActiveIs /\ TrailInv

LEMMA CalmInvInit == Init /\ TypeOK => CalmInv
<1> SUFFICES ASSUME Init, TypeOK PROVE CalmInv
  OBVIOUS
<1>1. DiskInv /\ ActiveIs
  BY DiskInvInit, ActiveAre
<1>2. Trail = <<>>
  <2>1. ClosedPieces \in Seq(Seq(Records)) /\ Len(ClosedPieces) = 0
    BY TrailType DEF Init
  <2>2. ClosedPieces = <<>>
    BY <2>1, EmptySeq
  <2>3. ClosedLines = <<>>
    BY <2>2 DEF ClosedLines, FlattenSeq
  <2>4. ActiveLines = <<>>
    BY <1>1, NoLines DEF Init, ActiveIs, Contents
  <2>5. QED
    BY <2>3, <2>4, TrailParts, EmptySeq, ConcatEmptySeq
<1>3. TrailInv
  BY <1>2 DEF Init, TrailInv, Range
<1>4. QED
  BY <1>1, <1>3 DEF CalmInv

LEMMA CalmInvStep ==
    (~TornReads /\ MaxFaults = 0) /\ CalmInv /\ [CalmNext]_vars => CalmInv'
<1>1. (DiskInv => ActiveIs)'
  BY ActiveAre, PTL
<1>2. QED
  BY <1>1, DiskInvStep, TrailInvStep DEF CalmInv

LEMMA CalmCorrect ==
    ASSUME ~TornReads, MaxFaults = 0
    PROVE  CalmSpec => []CalmInv
<1>1. Init /\ TypeOK => CalmInv
  BY CalmInvInit
<1>2. CalmInv /\ [Next /\ Calm]_vars => CalmInv'
  BY CalmInvStep DEF CalmNext
<1>3. Spec => []TypeOK
  BY TypeCorrect
<1>4. CalmSpec => Spec
  BY CalmIsSpec
<1>5. QED
  BY <1>1, <1>2, <1>3, <1>4, PTL DEF CalmSpec

\* The trail as the module AuditTrail takes it: the tail of a line makes its
\* record readable, and the return of an append acknowledges it.
LEMMA StepImplements ==
    ASSUME MaxFaults = 0, CalmInv, CalmInv', [CalmNext]_vars
    PROVE  [AT!Next]_(AT!vars)
<1>1. /\ Trail \in Seq(Records) /\ DiskInv /\ DiskInv' /\ ActiveIs /\ ActiveIs'
      /\ pc \in [Procs -> Steps] /\ count \in [Procs -> 0..MaxAppends]
  BY TrailType DEF CalmInv, DiskInv, TypeOK, StepType
<1>2. ASSUME NEW p \in Procs, WriteTail(p) PROVE AT!Next
  <2>1. Record(p) \in Records /\ Trail' = Append(Trail, Record(p))
    BY <1>1, <1>2, TailTrail
  <2>2. Record(p) \notin Range(Trail)
    <3>1. ~Past(Record(p))
      BY <1>1, <1>2 DEF Past, Record, WriteTail
    <3>2. QED
      BY <3>1 DEF CalmInv, TrailInv
  <2>3. acked' = acked
    BY <1>2 DEF WriteTail
  <2>4. AT!Persist(Record(p))
    BY <2>1, <2>2, <2>3 DEF AT!Persist, AT!Range, Range
  <2>5. QED
    BY <2>1, <2>4 DEF AT!Next
<1>3. CASE Trail' = Trail /\ acked' = acked
  BY <1>3 DEF AT!vars
<1>4. ASSUME Trail' = Trail, acked' # acked PROVE AT!Next
  <2>1. PICK p \in Procs : Release(p) /\ result[p] = "ok" /\ acked' = acked \cup {Record(p)}
    <3>1. ~(Tick \/ UNCHANGED vars)
      BY <1>4 DEF Tick, vars
    <3>2. PICK p \in Procs : Still(p) \/ Moving(p)
      BY <1>1, <3>1, CalmKinds DEF CalmNext, DiskInv
    <3>3. Release(p)
      <4>1. pc[p] = "release"
        BY <1>1, <1>4, <3>2, CountMoves DEF DiskInv
      <4>2. QED
        BY <1>4, <3>2, <4>1 DEF Still, Moving, Start, OpenRead, QuarantineWrite,
          Close, BeginAppend, TryLock, StatLock, BreakLock, Measure, Scan, Sync,
          QuarantineTruncate, QuarantineRewrite, Rename, OpenAppend, WriteHead, WriteTail
    <3>4. QED
      BY <1>4, <3>3 DEF Release
  <2>2. Record(p) \in Records
    BY <1>1, <2>1, RecordType DEF Release, DiskInv, TypeOK, StepType, Critical
  <2>3. Record(p) \in Range(Trail)
    BY <2>1 DEF Release, CalmInv, TrailInv
  <2>4. Record(p) \notin acked
    BY <1>4, <2>1
  <2>5. AT!Acknowledge(Record(p))
    BY <1>4, <2>1, <2>3, <2>4 DEF AT!Acknowledge, AT!Range, Range
  <2>6. QED
    BY <2>2, <2>5 DEF AT!Next
<1>5. QED
  BY <1>1, <1>2, <1>3, <1>4, TrailSteps

\* sink.rs, "Append-only" and "Acknowledge only what is durable": for any
\* number of processes, appends and segments, as long as no write fails and in
\* the circumstances that Calm names, the directory is the trail of whole
\* records that the sink promises.
THEOREM SinkIsTrail ==
    ASSUME ~TornReads, MaxFaults = 0
    PROVE  CalmSpec => ImplementsTrail
<1>1. Init /\ CalmInv => AT!Init
  <2> SUFFICES ASSUME Init, CalmInv PROVE AT!Init
    OBVIOUS
  <2>1. Range(Trail) = {}
    <3>1. ASSUME NEW r \in Range(Trail) PROVE FALSE
      <4>1. Past(r) /\ r \in Records
        BY OnTrail, TrailType, LenProperties, ElementOfSeq
        DEF CalmInv, TrailInv, DiskInv, Range
      <4>2. r[1] \in Procs /\ r[2] \in 1..MaxAppends
        BY <4>1 DEF Records
      <4>3. QED
        BY <4>1, <4>2 DEF Past, Init
    <3>2. QED
      BY <3>1
  <2>2. Trail \in Seq(Records) /\ Len(Trail) \in Nat
    BY TrailType, LenProperties DEF CalmInv, DiskInv
  <2>3. Len(Trail) = 0
    <3>1. DOMAIN Trail = 1..Len(Trail)
      BY <2>2, LenProperties
    <3>2. Len(Trail) # 0 => 1 \in DOMAIN Trail
      BY <2>2, <3>1
    <3>3. \A x \in DOMAIN Trail : Trail[x] \in Range(Trail)
      BY DEF Range
    <3>4. QED
      BY <2>1, <3>2, <3>3
  <2>4. Trail = <<>>
    BY <2>2, <2>3, EmptySeq
  <2>5. QED
    BY <2>4 DEF AT!Init, Init
<1>2. CalmInv /\ CalmInv' /\ [Next /\ Calm]_vars => [AT!Next]_(AT!vars)
  BY StepImplements DEF CalmNext
<1>3. CalmSpec => []CalmInv
  BY CalmCorrect
<1>4. QED
  BY <1>1, <1>2, <1>3, PTL DEF CalmSpec, ImplementsTrail, AT!Spec

\* quarantine_partial_record: for any number of processes, in the same
\* circumstances, the bytes of an unfinished line leave the log only after
\* they were written to a quarantine file.
THEOREM DamageKept ==
    ASSUME ~TornReads, MaxFaults = 0
    PROVE  CalmSpec => DamageQuarantinedFirst
<1> DEFINE Stays ==
      \A f \in Linked : \A u \in Damaged(files[f]) :
         \/ u \in quarantine'
         \/ \E i \in 1..Len(files'[f]) : files'[f][i] = u
<1>1. CalmInv /\ CalmInv' /\ [Next /\ Calm]_vars => [Stays]_vars
  <2> SUFFICES ASSUME CalmInv, Next PROVE Stays
    BY DEF vars
  <2>0. /\ DiskInv /\ TypeOK /\ Len(files) \in Nat /\ ~usurped
        /\ files \in [1..Len(files) -> Seq(Units)]
        /\ \A f \in 1..Len(files) : Len(files[f]) \in Nat
        /\ Linked \subseteq 1..Len(files)
    BY NamesOfFiles, LenProperties
    DEF CalmInv, DiskInv, TypeOK, DiskType, Linked, KillInv
  <2>1. ASSUME Grows PROVE Stays
    <3> SUFFICES ASSUME NEW f \in Linked, NEW i \in TornPart(files[f])
                 PROVE  \E j \in 1..Len(files'[f]) : files'[f][j] = files[f][i]
      BY DEF Damaged
    <3>1. i \in 1..Len(files[f])
      BY DEF TornPart
    <3>2. Len(files'[f]) >= Len(files[f]) /\ files'[f][i] = files[f][i]
      BY <2>1, <3>1 DEF Grows
    <3>3. QED
      BY <2>0, <3>1, <3>2
  <2>2. ASSUME UNCHANGED files PROVE Stays
    BY <2>2 DEF Damaged, TornPart
  <2>3. ASSUME NEW p \in Procs, QuarantineTruncate(p) PROVE Stays
    <3>1. /\ active # 0 /\ snapshot[p] = files[active]
          /\ files' = [files EXCEPT ![active] = <<>>]
      BY <2>0, <2>3, TornKept DEF Contents
    <3>2. Damaged(files[active]) \subseteq quarantine /\ quarantine' = quarantine
      BY <2>0, <2>3, <3>1 DEF DiskInv, SegmentInv, Writer, QuarantineTruncate
    <3>3. \A f \in Linked : f # active => files'[f] = files[f]
      BY <2>0, <3>1
    <3>4. \A f \in Linked : f # active =>
             \A u \in Damaged(files[f]) : \E i \in 1..Len(files'[f]) : files'[f][i] = u
      BY <3>3 DEF Damaged, TornPart
    <3>5. QED
      BY <3>2, <3>4
  <2>4. ASSUME NEW p \in Procs, QuarantineRewrite(p) PROVE Stays
    <3>1. files' = [files EXCEPT ![active] = Intact(snapshot[p])]
      BY <2>0, <2>4, RewrittenContents
    <3>2. active # 0 /\ files[active] = <<>>
      BY <2>0, <2>4, SegmentOf, RewrittenContents DEF Rewritten, QuarantineRewrite, Contents
    <3>3. Damaged(files[active]) = {}
      BY <3>2 DEF Damaged, TornPart
    <3>4. \A f \in Linked : f # active => files'[f] = files[f]
      BY <2>0, <3>1
    <3>5. \A f \in Linked : f # active =>
             \A u \in Damaged(files[f]) : \E i \in 1..Len(files'[f]) : files'[f][i] = u
      BY <3>4 DEF Damaged, TornPart
    <3>6. QED
      BY <3>3, <3>5
  <2>5. ASSUME NEW p \in Procs,
               Rename(p) \/ OpenAppend(p) \/ WriteHead(p) \/ WriteTail(p)
        PROVE  Stays
    BY <2>0, <2>1, <2>5, AppendGrows DEF DiskInv
  <2>6. ASSUME NEW p \in Procs,
               \/ Start(p) \/ OpenRead(p) \/ QuarantineWrite(p)
               \/ QuarantineFails(p) \/ Close(p) \/ BeginAppend(p)
               \/ TryLock(p) \/ StatLock(p) \/ BreakLock(p) \/ Measure(p)
               \/ Scan(p) \/ WriteFails(p) \/ Sync(p) \/ Release(p)
               \/ Crash(p) \/ Expire(p)
        PROVE  UNCHANGED files
    BY <2>6 DEF Start, OpenRead, QuarantineWrite, QuarantineFails, Close,
      BeginAppend, TryLock, StatLock, BreakLock, Measure, Scan, WriteFails,
      Sync, Release, Crash, Expire, Die
  <2>7. Tick => UNCHANGED files
    BY DEF Tick
  <2>8. QED
    BY <2>2, <2>3, <2>4, <2>5, <2>6, <2>7 DEF Next, Work, Open, Acquire, Rotate, Write
<1>2. CalmSpec => []CalmInv
  BY CalmCorrect
<1>3. QED
  BY <1>1, <1>2, PTL DEF CalmSpec, DamageQuarantinedFirst
=============================================================================
