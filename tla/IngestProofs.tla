---------------------------- MODULE IngestProofs ----------------------------
(***************************************************************************)
(* Type correctness of the refresh pipeline, the arithmetic of offsets and *)
(* lines that the other proofs cite, and the trust in checkpoint rows.     *)
(***************************************************************************)
EXTENDS IngestInvariant, FiniteSetTheorems, TLAPS

\* More bytes never hold fewer lines.
LEMMA NumLinesMonotone ==
    ASSUME NEW a \in Nat, NEW b \in Nat
    PROVE  /\ NumLines(a) \in Nat /\ NumLines(b) \in Nat
           /\ a <= b => NumLines(a) <= NumLines(b)
  BY DEF NumLines

\* Reading stops at a line boundary, at or after where it started and never
\* past the end of the file.
LEMMA ReadEndFacts ==
    ASSUME NEW start \in Nat, NEW size \in Nat, NEW d
    PROVE  /\ ReadEnd(start, size, d) \in Nat
           /\ start <= ReadEnd(start, size, d)
           /\ start <= size => ReadEnd(start, size, d) <= size
           /\ start % 3 # 1 => ReadEnd(start, size, d) % 3 # 1
  BY DEF ReadEnd, Larger

\* Resuming steps back over a torn line and stays inside the file.
LEMMA ResumeOffsetFacts ==
    ASSUME NEW offset \in Nat, NEW size \in Nat
    PROVE  /\ ResumeOffset(offset, size) \in Nat
           /\ ResumeOffset(offset, size) % 3 # 1
           /\ offset <= size /\ offset % 3 # 1 => ResumeOffset(offset, size) = offset
  BY DEF ResumeOffset, Smaller

\* The records that stand for "none" are records.
LEMMA NoneTyped ==
    /\ NoRow \in Row /\ NoTask \in Task /\ NoIntent \in Intent
    /\ [p \in Paths |-> NoRow] \in [Paths -> Row]
    /\ [p \in Paths |-> NoTask] \in [Paths -> Task]
  BY DEF NoRow, NoTask, NoIntent, Row, Task, Intent, Changes

\* A finite index has finitely many records of a path, so they can be counted.
LEMMA OfFinite ==
    ASSUME NEW recs, NEW p, IsFiniteSet(recs)
    PROVE  Cardinality(Of(recs, p)) \in Nat
  BY FS_Subset, FS_CardinalityType DEF Of

\* Discovery produces well-typed tasks.
LEMMA PrepareTyped ==
    ASSUME NEW p \in Paths, TypeOK
    PROVE  PrepareFileTask(fs[p], sess[p]) \in Task
  <1>1. ClassifyFile(fs[p], sess[p]) \in Changes
    BY DEF ClassifyFile, Changes
  <1> QED
    BY <1>1, NoneTyped DEF PrepareFileTask, TypeOK, Row, Task

\* What a parser reports, offsets, lines and the row, is well typed.
LEMMA ParseTyped ==
    ASSUME NEW p \in Paths, TypeOK
    PROVE  /\ ParseStart(p) \in Nat
           /\ ParseEnd(p) \in Nat
           /\ NumLines(ParseStart(p)) \in Nat
           /\ NumLines(ParseEnd(p)) \in Nat
           /\ NumLines(ParseStart(p)) <= NumLines(ParseEnd(p))
           /\ CompletedFileState(p) \in Row
  <1>1. tasks[p] \in Task /\ fs[p].size \in Nat /\ version \in Nat
    BY DEF TypeOK
  <1>2. ParseStart(p) \in Nat
    BY <1>1, ResumeOffsetFacts DEF ParseStart, Task
  <1>3. Smaller(tasks[p].size, fs[p].size) \in Nat
    BY <1>1 DEF Smaller, Task
  <1>4. ParseEnd(p) \in Nat /\ ParseStart(p) <= ParseEnd(p)
    <2>1. CASE p \in Bounded
      BY <1>2, <1>3, <2>1, ReadEndFacts DEF ParseEnd
    <2>2. CASE p \notin Bounded
      BY <1>1, <1>2, <2>2, ReadEndFacts DEF ParseEnd
    <2> QED
      BY <2>1, <2>2
  <1>5. CompletedFileState(p) \in Row
    BY <1>1, <1>4 DEF CompletedFileState, Row, Task
  <1> QED
    BY <1>2, <1>4, <1>5 DEF NumLines

\* A parser hands over finitely many well-typed records.
LEMMA ParsedRecordsTyped ==
    ASSUME NEW p \in Paths, TypeOK
    PROVE  ParsedRecords(p) \subseteq Record /\ IsFiniteSet(ParsedRecords(p))
  <1> DEFINE lo == NumLines(ParseStart(p))
             hi == NumLines(ParseEnd(p)) - 1
             rec(l) == [path |-> p, gen |-> fs[p].gen, line |-> l,
                        ver |-> version, doc |-> next + (l - lo)]
  <1>1. lo \in Nat /\ hi \in Int
    BY ParseTyped
  <1>2. ParsedRecords(p) = {rec(l) : l \in lo..hi}
    BY DEF ParsedRecords, ParsedLines
  <1>3. \A l \in lo..hi : rec(l) \in Record
    BY <1>1 DEF TypeOK, Record
  <1>4. IsFiniteSet(lo..hi)
    BY <1>1, FS_Interval
  <1> HIDE DEF lo, hi, rec
  <1>5. [l \in lo..hi |-> rec(l)] \in Surjection(lo..hi, {rec(l) : l \in lo..hi})
    BY DEF Surjection
  <1>6. IsFiniteSet({rec(l) : l \in lo..hi})
    BY <1>4, <1>5, FS_Surjection
  <1> QED
    BY <1>2, <1>3, <1>6

\* Every step keeps the types: a parser never yields a negative offset or line.
LEMMA TypeStep ==
    TypeOK /\ [Next]_vars => TypeOK'
  <1> SUFFICES ASSUME TypeOK, [Next]_vars PROVE TypeOK'
    OBVIOUS
  <1> USE IngestAssumption DEF TypeOK, disk, store, published, prepared, parsing, bounds
  <1>1. ASSUME NEW p \in Paths, FileAppend(p) PROVE TypeOK'
    BY <1>1 DEF FileAppend
  <1>2. ASSUME NEW p \in Paths, FileReplace(p) PROVE TypeOK'
    BY <1>2 DEF FileReplace
  <1>3. ASSUME NEW p \in Paths, FileDelete(p) PROVE TypeOK'
    BY <1>3 DEF FileDelete
  <1>4. ASSUME NEW p \in Paths, FileHide(p) PROVE TypeOK'
    BY <1>4 DEF FileHide
  <1>5. ASSUME NEW p \in Paths, FileUnhide(p) PROVE TypeOK'
    BY <1>5 DEF FileUnhide
  <1>6. ASSUME NEW p \in Paths, FileRestore(p) PROVE TypeOK'
    BY <1>6 DEF FileRestore
  <1>7. CASE Upgrade
    BY <1>7 DEF Upgrade
  <1>8. CASE ResetCheckpoint
    <2>1. rows' \in [Paths -> Row] /\ pending' \in Intent
      BY <1>8, NoneTyped DEF ResetCheckpoint
    <2>2. /\ authority' = FALSE /\ nextDoc' = 1 /\ pc' = "reset_index"
          /\ resets' \in Nat
          /\ UNCHANGED <<disk, published, prepared, parsing, faults>>
      BY <1>8 DEF ResetCheckpoint
    <2> QED
      BY ZenonT(60), <2>1, <2>2
  <1>9. CASE ResetIndex
    BY <1>9, FS_EmptySet DEF ResetIndex
  <1>10. CASE ResetVectors
    BY ZenonT(60), <1>10 DEF ResetVectors
  <1>11. CASE ResetAnalytics
    BY ZenonT(60), <1>11 DEF ResetAnalytics
  <1>12. ASSUME NEW o \in BOOLEAN, RecoverCheckpoint(o) PROVE TypeOK'
    BY <1>12, NoneTyped DEF RecoverCheckpoint, SurvivingRows, FirstFreeDoc, Larger, Intent
  <1>13. CASE RefuseCheckpoint
    BY <1>13 DEF RefuseCheckpoint, vars
  <1>14. CASE ObserveAll
    BY <1>14, PrepareTyped, NoneTyped DEF ObserveAll, Observe
  <1>15. ASSUME NEW dirty \in SUBSET Paths, ObserveDirty(dirty) PROVE TypeOK'
    BY ZenonT(60), <1>15, PrepareTyped, NoneTyped DEF ObserveDirty, Observe
  <1>16. CASE Sweep
    BY <1>16, NoneTyped DEF Sweep, DeleteFirst, Intent, RecoverEmbeddings
  <1>17. CASE DecideRefresh
    BY <1>17 DEF DecideRefresh, TaskPaths, PathsWith, NeedsBackfill, Recovering
  <1>18. ASSUME NEW p \in Paths, Parse(p) PROVE TypeOK'
    <2>1. staged' \subseteq Record /\ IsFiniteSet(staged')
      BY <1>18, ParsedRecordsTyped, FS_Union DEF Parse
    <2>2. next' \in Nat /\ updates' \in [Paths -> Row] /\ todo' \subseteq Paths
      BY <1>18, ParseTyped DEF Parse, Larger
    <2> QED
      BY <1>18, <2>1, <2>2 DEF Parse
  <1>19. ASSUME NEW p \in Paths, ParseSkip(p) PROVE TypeOK'
    BY <1>19 DEF ParseSkip
  <1>20. ASSUME NEW p \in Paths, ParseFail(p) PROVE TypeOK'
    BY <1>20 DEF ParseFail
  <1>21. CASE CommitIntent
    <2>1. pending' \in Intent
      BY <1>21 DEF CommitIntent, PendingIngest, Intent, TaskPaths, PathsWith,
                   VectorPublication
    <2>2. CASE failed
      <3>1. EndRun /\ UNCHANGED <<authority, rows, nextDoc, faults>>
        BY <1>21, <2>2 DEF CommitIntent
      <3>2. /\ sess' \in [Paths -> Row] /\ updates' \in [Paths -> Row]
            /\ tasks' \in [Paths -> Task] /\ IsFiniteSet(staged')
        BY <3>1, NoneTyped, FS_EmptySet DEF EndRun
      <3> QED
        BY <2>1, <3>1, <3>2 DEF EndRun
    <2>3. CASE ~failed
      BY <1>21, <2>1, <2>3 DEF CommitIntent
    <2> QED
      BY <2>2, <2>3
  <1>22. CASE PublishAnalytics
    <2>1. counts' \in [Paths -> Nat]
      BY <1>22, OfFinite DEF PublishAnalytics
    <2> QED
      BY <1>22, <2>1 DEF PublishAnalytics
  <1>23. CASE PublishGeneration
    <2>1. NewGeneration \subseteq Record
      BY DEF NewGeneration
    <2>2. IsFiniteSet(NewGeneration)
      BY FS_Subset, FS_Union DEF NewGeneration
    <2>3. NewVectors \subseteq Record
      BY <2>1 DEF NewVectors, BackfillEmbeddings
    <2> QED
      BY <1>23, <2>1, <2>2, <2>3 DEF PublishGeneration
  <1>24. CASE PublishVectors
    BY <1>24 DEF PublishVectors
  <1>25. CASE BackfillClear
    BY ZenonT(60), <1>25 DEF BackfillClear
  <1>26. CASE BackfillFlush
    <2>1. counts' \in [Paths -> Nat]
      BY <1>26, OfFinite DEF BackfillFlush
    <2> QED
      BY <1>26, <2>1 DEF BackfillFlush
  <1>27. CASE MarkComplete
    BY <1>27 DEF MarkComplete
  <1>28. CASE CommitFinal
    BY <1>28, NoneTyped, FS_EmptySet DEF CommitFinal, EndRun
  <1>29. CASE Abort
    <2>1. /\ sess' \in [Paths -> Row] /\ updates' \in [Paths -> Row]
          /\ tasks' \in [Paths -> Task] /\ IsFiniteSet(staged')
      BY <1>29, NoneTyped, FS_EmptySet DEF Abort, EndRun
    <2>2. EndRun /\ UNCHANGED store /\ faults' \in Nat
      BY <1>29 DEF Abort
    <2> QED
      BY <2>1, <2>2 DEF EndRun
  <1>30. CASE UNCHANGED vars
    BY <1>30 DEF vars
  <1> QED
    BY <1>1, <1>2, <1>3, <1>4, <1>5, <1>6, <1>7, <1>8, <1>9, <1>10, <1>11,
       <1>12, <1>13, <1>14, <1>15, <1>16, <1>17, <1>18, <1>19, <1>20, <1>21,
       <1>22, <1>23, <1>24, <1>25, <1>26, <1>27, <1>28, <1>29, <1>30
    DEF Next, Environment, Reset, Step

\* The state of the refresh pipeline stays well typed in every behaviour.
THEOREM TypeCorrect == Spec => []TypeOK
  <1>1. Init => TypeOK
    <2> SUFFICES ASSUME Init PROVE TypeOK
      OBVIOUS
    <2>1. /\ rows \in [Paths -> Row] /\ sess \in [Paths -> Row]
          /\ updates \in [Paths -> Row] /\ tasks \in [Paths -> Task]
          /\ pending \in Intent
          /\ IsFiniteSet(index) /\ IsFiniteSet(staged)
      BY NoneTyped, FS_EmptySet DEF Init, NoRun
    <2> QED
      BY <2>1 DEF Init, NoRun, TypeOK
  <1> QED
    BY <1>1, TypeStep, PTL DEF Spec

-----------------------------------------------------------------------------
(* RefreshInv is inductive, so a row that a refresh resumes from is always *)
(* trusted.  One lemma per action of the refresh; the environment's steps  *)
(* share one, because all they can do to a file is FileMove.               *)

\* The absence of a row satisfies every bound and is never resumed from.
LEMMA NoRowOK ==
    ASSUME TypeOK, version > 0, NEW p \in Paths
    PROVE  RowOK(p, NoRow) /\ Stale(p, NoRow)
  BY DEF RowOK, Stale, NoRow, TypeOK

\* After a refresh ended only the checkpoint and the index matter.
LEMMA EndRunInv ==
    ASSUME TypeOK', version' > 0, EndRun
    PROVE  (FreshInv /\ DocInv /\ SessInv /\ IntentInv /\ TaskInv /\ UpdateInv
            /\ DoneInv)'
  <1>1. pc' = "idle" /\ deletes' = {} /\ staged' = {} /\ todo' = {} /\ migrate' = FALSE
    BY DEF EndRun
  <1>2. /\ sess' = [p \in Paths |-> NoRow] /\ updates' = [p \in Paths |-> NoRow]
        /\ tasks' = [p \in Paths |-> NoTask]
    BY DEF EndRun
  <1>3. \A p \in Paths : RowOK(p, NoRow)'
    BY DEF RowOK, NoRow, TypeOK
  <1>4. FreshInv'
    BY <1>1, <1>2 DEF FreshInv, Idle, Observing
  <1>5. DocInv' /\ IntentInv' /\ DoneInv'
    BY <1>1 DEF DocInv, IntentInv, DoneInv, Observing, Done
  <1>6. SessInv'
    BY <1>1, <1>2, <1>3 DEF SessInv, Observing, Prepared, RowOK
  <1>7. TaskInv'
    BY <1>2 DEF TaskInv, TaskOK
  <1>8. UpdateInv'
    BY <1>1, <1>2, <1>3 DEF UpdateInv, Prepared, RowOK
  <1> QED
    BY <1>4, <1>5, <1>6, <1>7, <1>8

\* An installation without a checkpoint satisfies RefreshInv.
LEMMA InitInv == Init => RefreshInv
  <1> SUFFICES ASSUME Init PROVE RefreshInv
    OBVIOUS
  <1>1. \A p \in Paths : RowOK(p, NoRow)
    BY DEF Init, RowOK, NoRow
  <1>2. StoreInv
    BY <1>1 DEF Init, NoRun, StoreInv, Idle
  <1>3. FreshInv /\ DocInv /\ IntentInv /\ DoneInv /\ TaskInv
    BY DEF Init, NoRun, FreshInv, DocInv, IntentInv, DoneInv, TaskInv, TaskOK,
           Idle, Observing, Done
  <1>4. SessInv
    BY <1>1 DEF Init, NoRun, SessInv, Observing, Prepared
  <1>5. UpdateInv
    BY <1>1 DEF Init, NoRun, UpdateInv, Observing, Prepared
  <1> QED
    BY <1>2, <1>3, <1>4, <1>5 DEF RefreshInv

\* What the environment may do to a file: another incarnation, or more bytes
\* of the same one, and a missing file only comes back as another one.
FileMove(p) ==
    \/ fs'[p].gen > fs[p].gen
    \/ /\ fs'[p].gen = fs[p].gen
       /\ fs'[p].size >= fs[p].size /\ fs'[p].ctime = fs[p].ctime
       /\ fs[p].where = "absent" => fs'[p].where = "absent"

\* Every step of the environment is a FileMove of every path.
LEMMA EnvironmentMoves ==
    ASSUME TypeOK, Restorable = {}, NEW q \in Paths, NEW p \in Paths,
           \/ FileAppend(q) \/ FileReplace(q) \/ FileDelete(q)
           \/ FileHide(q) \/ FileUnhide(q) \/ FileRestore(q)
    PROVE  FileMove(p)
  <1> USE DEF TypeOK, FileMove
  <1>1. CASE FileAppend(q)
    BY <1>1 DEF FileAppend
  <1>2. CASE FileReplace(q)
    BY <1>2 DEF FileReplace
  <1>3. CASE FileDelete(q)
    BY <1>3 DEF FileDelete
  <1>4. CASE FileHide(q)
    BY <1>4 DEF FileHide
  <1>5. CASE FileUnhide(q)
    BY <1>5 DEF FileUnhide
  <1>6. CASE FileRestore(q)
    BY <1>6 DEF FileRestore
  <1> QED
    BY <1>1, <1>2, <1>3, <1>4, <1>5, <1>6

\* A FileMove keeps a row within its bounds, and keeps it stale if it was.
LEMMA MoveRow ==
    ASSUME TypeOK, TypeOK', NEW p \in Paths, FileMove(p), version' = version,
           NEW row \in Row, RowOK(p, row)
    PROVE  /\ row.gen <= fs'[p].gen /\ row.ver <= version' /\ row.offset % 3 # 1
           /\ row.gen = fs'[p].gen =>
                 /\ row.gen = fs[p].gen
                 /\ row.size <= fs'[p].size /\ row.offset <= fs'[p].size
                 /\ row # NoRow => row.ctime = fs'[p].ctime
           /\ Stale(p, row) => row.gen < fs'[p].gen \/ row.ver < version'
  BY DEF TypeOK, FileMove, RowOK, Stale, Row

\* What RefreshInv reads, apart from the files.
others == <<version, authority, rows, nextDoc, pending, index, pc, sess, next,
            tasks, deletes, embed, migrate, todo, staged, updates>>

\* A row that was trusted stays trusted when the file moves on.
LEMMA MoveTrusted ==
    ASSUME TypeOK, TypeOK', NEW p \in Paths, FileMove(p),
           version' = version, index' = index,
           NEW row \in Row, RowOK(p, row), Trusted(p, row)
    PROVE  IF row = NoRow THEN Of(index', p) = {}
           ELSE row.gen = fs'[p].gen /\ row.ver = version' =>
                  /\ row.offset <= fs'[p].size
                  /\ LinesExactly(Of(index', p), 0..(NumLines(row.offset) - 1),
                                  row.gen, row.ver)
  BY MoveRow DEF Trusted, Indexed

\* No step of the environment disturbs a refresh in progress.
LEMMA MoveInv ==
    ASSUME TypeOK, TypeOK', RefreshInv, UNCHANGED others,
           \A p \in Paths : FileMove(p)
    PROVE  RefreshInv'
  <1>1. /\ version' = version /\ index' = index /\ pc' = pc /\ sess' = sess
        /\ rows' = rows /\ updates' = updates /\ tasks' = tasks
        /\ deletes' = deletes /\ staged' = staged /\ todo' = todo
        /\ pending' = pending /\ authority' = authority /\ next' = next
        /\ nextDoc' = nextDoc /\ migrate' = migrate /\ embed' = embed
    BY DEF others
  <1>2. /\ rows \in [Paths -> Row] /\ sess \in [Paths -> Row]
        /\ updates \in [Paths -> Row] /\ tasks \in [Paths -> Task]
    BY DEF TypeOK
  <1>3. \A p \in Paths, row \in Row : RowOK(p, row) =>
            /\ RowOK(p, row)'
            /\ Stale(p, row) => Stale(p, row)'
            /\ Trusted(p, row) => Trusted(p, row)'
    <2> SUFFICES ASSUME NEW p \in Paths, NEW row \in Row, RowOK(p, row)
                 PROVE  /\ RowOK(p, row)'
                        /\ Stale(p, row) => Stale(p, row)'
                        /\ Trusted(p, row) => Trusted(p, row)'
      OBVIOUS
    <2>1. RowOK(p, row)' /\ (Stale(p, row) => Stale(p, row)')
      BY <1>1, MoveRow DEF RowOK, Stale
    <2>2. Trusted(p, row) => Trusted(p, row)'
      BY <1>1, MoveTrusted DEF Trusted, Indexed
    <2> QED
      BY <2>1, <2>2
  <1>4. StoreInv'
    BY <1>1, <1>2, <1>3 DEF RefreshInv, StoreInv, RowOK, Trusted
  <1>5. FreshInv' /\ DocInv' /\ IntentInv'
    BY <1>1 DEF RefreshInv, FreshInv, DocInv, IntentInv, FirstFreeDoc, TaskPaths,
                PathsWith
  <1>6. SessInv'
    <2>1. \A p \in Paths : RowOK(p, sess[p])'
      BY <1>1, <1>2, <1>3 DEF RefreshInv, SessInv, RowOK
    <2>2. ASSUME NEW p \in Paths, pc \in Observing
          PROVE  IF p \in pending.paths THEN sess[p] = NoRow
                 ELSE Trusted(p, sess[p])'
      BY <1>1, <1>2, <1>3, <2>2 DEF RefreshInv, SessInv, Trusted
    <2>3. ASSUME NEW p \in Paths, pc \in Prepared
          PROVE  IF p \in deletes THEN Stale(p, sess[p])' ELSE Trusted(p, sess[p])'
      BY <1>1, <1>2, <1>3, <2>3 DEF RefreshInv, SessInv, Trusted, Stale
    <2> QED
      BY <1>1, <2>1, <2>2, <2>3 DEF SessInv
  <1>7. TaskInv'
    <2> SUFFICES ASSUME NEW p \in Paths PROVE TaskOK(p)'
      BY DEF TaskInv
    <2>1. TaskOK(p) /\ FileMove(p) /\ RowOK(p, sess[p])
      BY DEF RefreshInv, TaskInv, SessInv
    <2>2. Stale(p, sess[p]) => Stale(p, sess[p])'
      BY <1>1, <1>2, <1>3, <2>1 DEF Stale
    <2> QED
      BY <1>1, <1>2, <2>1, <2>2 DEF TaskOK, FileMove, TypeOK, Task
  <1>8. UpdateInv'
    <2>1. \A p \in Paths : RowOK(p, updates[p])'
      BY <1>1, <1>2, <1>3 DEF RefreshInv, UpdateInv, RowOK
    <2>2. ASSUME NEW p \in Paths, pc \in Prepared PROVE UpdateOK(p)'
      <3>1. UpdateOK(p) /\ FileMove(p) /\ RowOK(p, updates[p])
        BY <2>2 DEF RefreshInv, UpdateInv
      <3>2. updates[p].gen = fs'[p].gen => updates[p].gen = fs[p].gen
        BY <1>1, <1>2, <3>1, MoveRow
      <3>3. updates[p].gen < fs[p].gen => updates[p].gen < fs'[p].gen
        BY <1>2, <3>1 DEF FileMove, TypeOK, Row
      <3> QED
        BY <1>1, <3>1, <3>2, <3>3 DEF UpdateOK
    <2> QED
      BY <1>1, <2>1, <2>2 DEF RefreshInv, UpdateInv
  <1>9. DoneInv'
    <2> SUFFICES ASSUME NEW p \in Paths, pc \in Done PROVE Trusted(p, FinalRow(p))'
      BY <1>1 DEF DoneInv
    <2>1. FinalRow(p) \in Row /\ RowOK(p, FinalRow(p)) /\ Trusted(p, FinalRow(p))
      BY <1>2 DEF RefreshInv, DoneInv, FinalRow, SessInv, UpdateInv
    <2>2. FinalRow(p)' = FinalRow(p)
      BY <1>1 DEF FinalRow
    <2> QED
      BY <1>3, <2>1, <2>2 DEF Trusted, Indexed
  <1> QED
    BY <1>4, <1>5, <1>6, <1>7, <1>8, <1>9 DEF RefreshInv

\* Outside a refresh only StoreInv says anything.
LEMMA IdleInv ==
    ASSUME TypeOK', version' > 0, pc' \in Idle, pc \in Idle, RefreshInv,
           UNCHANGED <<fs, sess, tasks, deletes, todo, staged, updates, migrate, embed>>,
           version <= version', TypeOK
    PROVE  (FreshInv /\ DocInv /\ SessInv /\ IntentInv /\ TaskInv /\ UpdateInv
            /\ DoneInv)'
  <1>1. FreshInv'
    BY DEF RefreshInv, FreshInv, Idle, Observing
  <1>2. DocInv' /\ IntentInv' /\ DoneInv'
    BY DEF DocInv, IntentInv, DoneInv, Idle, Observing, Done
  <1>3. SessInv'
    BY DEF RefreshInv, SessInv, Idle, Observing, Prepared, RowOK, TypeOK, Row
  <1>4. TaskInv'
    BY DEF RefreshInv, FreshInv, TaskInv, TaskOK
  <1>5. UpdateInv'
    BY DEF RefreshInv, FreshInv, UpdateInv, Idle, Prepared, RowOK, TypeOK, Row
  <1> QED
    BY <1>1, <1>2, <1>3, <1>4, <1>5

\* An upgraded binary makes every row stale instead of wrong.
LEMMA UpgradeInv ==
    ASSUME TypeOK, TypeOK', RefreshInv, Upgrade
    PROVE  RefreshInv'
  <1> USE DEF store, published, prepared, parsing, bounds
  <1>1. StoreInv'
    <2>1. /\ pc' = pc /\ pc = "idle" /\ version' = version + 1 /\ version \in Nat
          /\ UNCHANGED <<fs, authority, rows, pending, index>>
      BY DEF Upgrade, TypeOK
    <2>2. StoreInv /\ \A p \in Paths : rows[p] \in Row
      BY DEF RefreshInv, TypeOK
    <2>3. \A p \in Paths : RowOK(p, rows[p])'
      BY <2>1, <2>2 DEF StoreInv, RowOK, Row
    <2>4. ASSUME NEW p \in Paths, Trusted(p, rows[p]) PROVE Trusted(p, rows[p])'
      <3>1. rows[p].ver # version'
        BY <2>1, <2>2 DEF StoreInv, RowOK, Row
      <3> QED
        BY <2>1, <2>4, <3>1 DEF Trusted
    <2> QED
      BY <2>1, <2>2, <2>3, <2>4 DEF StoreInv, Idle
  <1>2. version' > 0 /\ version <= version' /\ pc \in Idle /\ pc' \in Idle
    BY <1>1 DEF Upgrade, StoreInv, Idle, TypeOK
  <1> QED
    BY <1>1, <1>2, IdleInv DEF RefreshInv, Upgrade

\* `index --rebuild` takes the checkpoint away before what it describes.
LEMMA ResetInv ==
    ASSUME TypeOK, TypeOK', RefreshInv, Reset
    PROVE  RefreshInv'
  <1> USE DEF disk, store, published, prepared, parsing, bounds
  <1>1. /\ pc \in Idle /\ pc' \in Idle /\ version' = version /\ version > 0
        /\ UNCHANGED <<fs, sess, tasks, deletes, todo, staged, updates, migrate, embed>>
    BY DEF Reset, ResetCheckpoint, ResetIndex, ResetVectors, ResetAnalytics, Idle,
           RefreshInv, StoreInv
  <1>2. StoreInv'
    <2>1. CASE ResetCheckpoint
      BY <1>1, <2>1 DEF ResetCheckpoint, StoreInv, RowOK, NoRow, TypeOK
    <2>2. CASE ResetIndex
      BY <1>1, <2>2 DEF ResetIndex, RefreshInv, StoreInv, RowOK, Idle
    <2>3. CASE ResetVectors \/ ResetAnalytics
      BY <1>1, <2>3 DEF ResetVectors, ResetAnalytics, RefreshInv, StoreInv, RowOK,
                        Idle
    <2> QED
      BY <2>1, <2>2, <2>3 DEF Reset
  <1> QED
    BY <1>1, <1>2, IdleInv DEF RefreshInv, TypeOK

\* Recovery starts a session from trusted rows and the first free id.
LEMMA RecoverInv ==
    ASSUME TypeOK, TypeOK', RefreshInv, NEW o \in BOOLEAN, RecoverCheckpoint(o)
    PROVE  RefreshInv'
  <1> USE DEF disk, store, published, prepared, parsing, bounds
  <1>1. /\ pc \in Idle /\ pc' = "observe" /\ authority' /\ next' = FirstFreeDoc
        /\ UNCHANGED <<fs, version, rows, nextDoc, pending, index, tasks, deletes,
                       todo, staged, updates, migrate, embed>>
    BY DEF RecoverCheckpoint, Idle
  <1>2. StoreInv
    BY DEF RefreshInv
  <1>3. \A p \in Paths : p \notin pending.paths => Trusted(p, rows[p])
    BY <1>2 DEF StoreInv, RecoverCheckpoint, Trusted, Of
  <1>4. StoreInv'
    BY <1>1, <1>2, <1>3 DEF StoreInv, RowOK, Trusted, Indexed, Idle
  <1>5. \A p \in Paths : /\ sess'[p] \in {NoRow, rows[p]}
                         /\ p \in pending.paths => sess'[p] = NoRow
                         /\ sess'[p] # rows[p] /\ p \notin pending.paths => index = {}
    BY DEF RecoverCheckpoint, SurvivingRows, TypeOK
  <1>6. SessInv'
    <2>1. \A p \in Paths : RowOK(p, sess[p])'
      BY <1>1, <1>2, <1>5, NoRowOK DEF StoreInv, RowOK
    <2>2. ASSUME NEW p \in Paths, p \notin pending.paths PROVE Trusted(p, sess[p])'
      BY <1>1, <1>3, <1>5, <2>2 DEF Trusted, Indexed, Of
    <2> QED
      BY <1>1, <1>5, <2>1, <2>2 DEF SessInv, Observing, Prepared
  <1>7. FreshInv' /\ DocInv' /\ IntentInv' /\ DoneInv'
    BY <1>1 DEF RefreshInv, FreshInv, DocInv, IntentInv, DoneInv, FirstFreeDoc,
                Idle, Observing, Done
  <1>8. TaskInv'
    BY <1>1 DEF RefreshInv, FreshInv, TaskInv, TaskOK
  <1>9. UpdateInv'
    BY <1>1 DEF RefreshInv, FreshInv, UpdateInv, RowOK, Idle, Prepared
  <1> QED
    BY <1>4, <1>6, <1>7, <1>8, <1>9 DEF RefreshInv

\* How a task relates to the row it was prepared from.
LEMMA PreparedTask ==
    ASSUME TypeOK, NEW p \in Paths, version > 0, RowOK(p, sess[p]),
           NEW t, t = PrepareFileTask(fs[p], sess[p]), t # NoTask
    PROVE  /\ t.change # "None"
           /\ t.gen = fs[p].gen /\ t.size = fs[p].size /\ t.ctime = fs[p].ctime
           /\ t.offset % 3 # 1
           /\ t.change # "Append" => t.offset = 0
           /\ t.change = "New" => sess[p] = NoRow
           /\ t.change \in {"Replaced", "ParserChanged"} => Stale(p, sess[p])
           /\ t.change = "Append" =>
                 /\ sess[p] # NoRow /\ sess[p].ver = version
                 /\ sess[p].gen = t.gen /\ sess[p].offset = t.offset
  <1> DEFINE c == ClassifyFile(fs[p], sess[p])
  <1>1. sess[p] \in Row /\ fs[p].gen \in Nat /\ fs[p].size \in Nat /\ version \in Nat
    BY DEF TypeOK
  <1>2. /\ c # "None"
        /\ t = [gen |-> fs[p].gen, size |-> fs[p].size, ctime |-> fs[p].ctime,
                change |-> c,
                offset |-> IF c = "Append" THEN sess[p].offset ELSE 0]
    BY DEF PrepareFileTask
  <1>3. c = "New" => sess[p] = NoRow
    BY DEF ClassifyFile
  <1>4. c \in {"Replaced", "ParserChanged"} => Stale(p, sess[p])
    BY <1>1 DEF ClassifyFile, Rewritten, Stale, RowOK, Row
  <1>5. c = "Append" => /\ sess[p] # NoRow /\ sess[p].ver = version
                        /\ sess[p].gen = fs[p].gen
    BY <1>1 DEF ClassifyFile, Rewritten, RowOK, Row
  <1> HIDE DEF c
  <1> QED
    BY <1>1, <1>2, <1>3, <1>4, <1>5 DEF RowOK, Row

\* Discovery prepares tasks that fit the session, whatever was selected.
LEMMA ObserveInv ==
    ASSUME TypeOK, TypeOK', RefreshInv, NEW selected \in SUBSET Paths, Observe(selected)
    PROVE  RefreshInv'
  <1> USE DEF disk, store, published, parsing, bounds
  <1>1. /\ pc = "observe" /\ pc' = "sweep"
        /\ UNCHANGED <<fs, version, authority, rows, nextDoc, pending, index, sess,
                       next, deletes, embed, migrate, todo, staged, updates>>
    BY DEF Observe
  <1>2. StoreInv'
    BY <1>1 DEF RefreshInv, StoreInv, RowOK, Trusted, Indexed, Idle
  <1>3. FreshInv' /\ DocInv' /\ IntentInv' /\ DoneInv'
    BY <1>1 DEF RefreshInv, FreshInv, DocInv, IntentInv, DoneInv, FirstFreeDoc,
                Idle, Observing, Done
  <1>4. SessInv'
    BY <1>1 DEF RefreshInv, SessInv, Observing, Prepared, RowOK, Trusted, Indexed
  <1>5. TaskInv'
    <2> SUFFICES ASSUME NEW p \in Paths, tasks'[p] # NoTask PROVE TaskOK(p)'
      BY DEF TaskInv, TaskOK
    <2>1. tasks'[p] = PrepareFileTask(fs[p], sess[p])
      BY DEF Observe
    <2>2. RowOK(p, sess[p]) /\ version > 0 /\ deletes = {} /\ fs[p].gen \in Nat
          /\ fs[p].size \in Nat
      BY <1>1 DEF RefreshInv, SessInv, StoreInv, FreshInv, Observing, TypeOK
    <2> QED
      BY <1>1, <2>1, <2>2, PreparedTask DEF TaskOK, Stale, Prepared
  <1>6. UpdateInv'
    BY <1>1 DEF RefreshInv, FreshInv, UpdateInv, RowOK, Observing, Prepared
  <1> QED
    BY <1>2, <1>3, <1>4, <1>5, <1>6 DEF RefreshInv

\* The tombstone sweep forgets the rows of missing files and deletes their
\* records; a path it drops cannot be resumed from any more.
LEMMA SweepInv ==
    ASSUME TypeOK, TypeOK', RefreshInv, Sweep
    PROVE  RefreshInv'
  <1> USE DEF disk, store, published, parsing, bounds
  <1> DEFINE missing == IF full THEN {p \in Paths : sess[p] # NoRow
                                                    /\ fs[p].where = "absent"}
                        ELSE {}
             replaced == {p \in Paths : DeleteFirst(p)}
  <1>1. /\ pc = "sweep" /\ pc' = "decide"
        /\ UNCHANGED <<fs, version, authority, rows, nextDoc, pending, index, tasks,
                       next, todo, staged, updates>>
        /\ migrate' => embed'
    BY DEF Sweep, TypeOK
  <1>2. /\ deletes' = pending.paths \cup missing \cup replaced
        /\ sess' = [p \in Paths |-> IF p \in missing THEN NoRow ELSE sess[p]]
    BY DEF Sweep
  <1>3. \A p \in missing : fs[p].where = "absent"
    OBVIOUS
  <1>4. \A p \in Paths : p \in replaced
                         <=> tasks[p].change \in {"Replaced", "ParserChanged"}
    BY DEF DeleteFirst
  <1> HIDE DEF missing, replaced
  <1>5. /\ deletes = {} /\ staged = {} /\ todo = {} /\ next = FirstFreeDoc
        /\ updates = [p \in Paths |-> NoRow] /\ version > 0
    BY <1>1 DEF RefreshInv, FreshInv, DocInv, StoreInv, Observing
  <1>6. \A p \in Paths : RowOK(p, NoRow) /\ Stale(p, NoRow)
    BY <1>5, NoRowOK
  <1>7. StoreInv'
    BY <1>1 DEF RefreshInv, StoreInv, RowOK, Trusted, Indexed, Idle
  <1>8. FreshInv' /\ DocInv' /\ IntentInv' /\ DoneInv'
    BY <1>1, <1>2, <1>5 DEF FreshInv, DocInv, IntentInv, DoneInv, FirstFreeDoc,
                Larger, TypeOK, Intent, Idle, Observing, Done
  <1>9. SessInv'
    <2>1. \A p \in Paths : RowOK(p, sess[p])'
      BY <1>1, <1>2, <1>6 DEF RefreshInv, SessInv, RowOK
    <2>2. ASSUME NEW p \in Paths, p \in deletes' PROVE Stale(p, sess[p])'
      BY <1>1, <1>2, <1>4, <1>6, <2>2 DEF RefreshInv, SessInv, TaskInv, TaskOK, Stale,
                                     Observing, NoTask
    <2>3. ASSUME NEW p \in Paths, p \notin deletes' PROVE Trusted(p, sess[p])'
      BY <1>1, <1>2, <2>3 DEF RefreshInv, SessInv, Trusted, Indexed, Observing
    <2> QED
      BY <1>1, <2>1, <2>2, <2>3 DEF SessInv, Observing, Prepared
  <1>10. TaskInv'
    <2> SUFFICES ASSUME NEW p \in Paths, tasks[p] # NoTask PROVE TaskOK(p)'
      BY <1>1 DEF TaskInv, TaskOK
    <2>1. TaskOK(p) /\ p \notin deletes
      BY <1>5 DEF RefreshInv, TaskInv
    <2>2. /\ p \in deletes' /\ tasks[p].change = "Append" => fs[p].where = "absent"
      BY <1>1, <1>2, <1>3, <1>4, <2>1 DEF RefreshInv, SessInv, TaskOK, Observing
    <2>3. sess'[p] \in {NoRow, sess[p]} /\ (p \notin deletes' => sess'[p] = sess[p])
      BY <1>2
    <2>4. p \in replaced => p \in deletes'
      BY <1>2
    <2>5. Stale(p, sess[p]) => Stale(p, sess[p])'
      BY <1>1, <1>6, <2>3 DEF Stale
    <2> QED
      BY <1>1, <1>4, <2>1, <2>2, <2>3, <2>4, <2>5 DEF TaskOK
  <1>11. UpdateInv'
    BY <1>1, <1>5 DEF RefreshInv, UpdateInv, UpdateOK, RowOK, Of
  <1> QED
    BY <1>7, <1>8, <1>9, <1>10, <1>11 DEF RefreshInv

\* Deciding what to do leaves everything but pc and todo alone, and nothing is
\* to be deleted when the refresh skips the writer.
LEMMA DecideInv ==
    ASSUME TypeOK, TypeOK', RefreshInv, DecideRefresh
    PROVE  RefreshInv'
  <1> USE DEF disk, store, bounds
  <1>1. /\ pc = "decide" /\ pc' \in {"parse", "backfill", "finalize"}
        /\ UNCHANGED <<fs, version, authority, rows, nextDoc, pending, index, sess,
                       next, tasks, deletes, embed, migrate, staged, updates>>
        /\ todo' \in {todo, TaskPaths}
        /\ pc' # "parse" => TaskPaths = {} /\ deletes = {}
    BY DEF DecideRefresh, SourceChanges
  <1>2. staged = {} /\ todo = {} /\ updates = [p \in Paths |-> NoRow]
    BY <1>1 DEF RefreshInv, FreshInv
  <1>3. StoreInv'
    BY <1>1 DEF RefreshInv, StoreInv, RowOK, Trusted, Indexed, Idle
  <1>4. FreshInv' /\ DocInv' /\ IntentInv'
    BY <1>1, <1>2 DEF RefreshInv, FreshInv, DocInv, IntentInv, FirstFreeDoc,
                Idle, Observing, Done
  <1>5. SessInv'
    BY <1>1 DEF RefreshInv, SessInv, Observing, Prepared, RowOK, Trusted, Indexed, Stale
  <1>6. TaskInv'
    BY <1>1 DEF RefreshInv, TaskInv, TaskOK, Stale, Prepared
  <1>7. UpdateInv'
    BY <1>1, <1>2 DEF RefreshInv, UpdateInv, UpdateOK, RowOK, TaskPaths, PathsWith, Of
  <1>8. DoneInv'
    <2> SUFFICES ASSUME NEW p \in Paths, pc' \in Done PROVE Trusted(p, FinalRow(p))'
      BY DEF DoneInv
    <2>1. Trusted(p, sess[p])
      BY <1>1 DEF RefreshInv, SessInv, Prepared, Done
    <2> QED
      BY <1>1, <1>2, <2>1 DEF FinalRow, Trusted, Indexed
  <1> QED
    BY <1>3, <1>4, <1>5, <1>6, <1>7, <1>8 DEF RefreshInv

\* What a parser hands over for the file it found.
LEMMA ParsedFacts ==
    ASSUME TypeOK, NEW p \in Paths, tasks[p] # NoTask, TaskOK(p),
           RowOK(p, sess[p]), p \notin deletes => Trusted(p, sess[p]),
           fs[p].where = "present"
    PROVE  /\ ParseEnd(p) % 3 # 1
           /\ tasks[p].gen = fs[p].gen =>
                 /\ ParseStart(p) = tasks[p].offset
                 /\ tasks[p].offset <= ParseEnd(p)
                 /\ ParseEnd(p) <= fs[p].size
  <1>1. tasks[p] \in Task /\ fs[p].size \in Nat /\ fs[p].gen \in Nat
    BY DEF TypeOK
  <1>2. tasks[p].offset \in Nat /\ tasks[p].size \in Nat /\ tasks[p].offset % 3 # 1
    BY <1>1 DEF TaskOK, Task
  <1>3. tasks[p].gen = fs[p].gen =>
            tasks[p].offset <= fs[p].size /\ tasks[p].size <= fs[p].size
    BY <1>1, <1>2 DEF TaskOK, RowOK, Task
  <1>4. ParseStart(p) \in Nat /\ ParseStart(p) % 3 # 1
    BY <1>1, <1>2, ResumeOffsetFacts DEF ParseStart
  <1>5. tasks[p].gen = fs[p].gen => ParseStart(p) = tasks[p].offset
    BY <1>1, <1>2, <1>3, ResumeOffsetFacts DEF ParseStart
  <1>6. CASE p \notin Bounded
    BY <1>1, <1>3, <1>4, <1>5, <1>6 DEF ParseEnd, ReadEnd, Larger
  <1>7. CASE p \in Bounded
    <2>1. Smaller(tasks[p].size, fs[p].size) \in Nat
      BY <1>1, <1>2 DEF Smaller
    <2>2. /\ ParseEnd(p) % 3 # 1 /\ ParseStart(p) <= ParseEnd(p)
          /\ ParseEnd(p) \in Nat
      BY <1>4, <1>7, <2>1, ReadEndFacts DEF ParseEnd
    <2>3. tasks[p].gen = fs[p].gen => ParseEnd(p) <= fs[p].size
      BY <1>1, <1>2, <1>3, <1>4, <1>5, <1>7 DEF ParseEnd, ReadEnd, Larger, Smaller
    <2> QED
      BY <1>5, <2>2, <2>3
  <1> QED
    BY <1>6, <1>7

\* The records a parser stages are exactly the lines between the offsets.
LEMMA ParsedExactly ==
    ASSUME TypeOK, NEW p \in Paths
    PROVE  /\ LinesExactly(ParsedRecords(p),
                           NumLines(ParseStart(p))..(NumLines(ParseEnd(p)) - 1),
                           fs[p].gen, version)
           /\ \A r \in ParsedRecords(p) : r.path = p
           /\ ParsedRecords(p) # {} =>
                 NumLines(ParseStart(p)) < NumLines(ParseEnd(p))
  <1> DEFINE lo == NumLines(ParseStart(p))
             hi == NumLines(ParseEnd(p)) - 1
             rec(l) == [path |-> p, gen |-> fs[p].gen, line |-> l,
                        ver |-> version, doc |-> next + (l - lo)]
  <1>1. lo \in Nat /\ hi \in Int /\ NumLines(ParseEnd(p)) = hi + 1
    BY ParseTyped
  <1>2. ParsedRecords(p) = {rec(l) : l \in lo..hi}
    BY DEF ParsedRecords, ParsedLines
  <1>3. \A l : /\ rec(l).path = p /\ rec(l).gen = fs[p].gen /\ rec(l).line = l
               /\ rec(l).ver = version
    OBVIOUS
  <1> HIDE DEF rec, lo, hi
  <1>4. LinesExactly(ParsedRecords(p), lo..hi, fs[p].gen, version)
    BY <1>2, <1>3 DEF LinesExactly
  <1>5. \A r \in ParsedRecords(p) : r.path = p
    BY <1>2, <1>3
  <1>6. ParsedRecords(p) # {} => lo < hi + 1
    BY <1>1, <1>2
  <1> QED
    BY <1>1, <1>4, <1>5, <1>6 DEF lo, hi

\* A parser that found its file hands over an update that fits its task.
LEMMA ParseInv ==
    ASSUME TypeOK, TypeOK', RefreshInv, NEW p \in Paths, Parse(p)
    PROVE  RefreshInv'
  <1> USE DEF disk, store, published, prepared, bounds
  <1>1. /\ pc = "parse" /\ pc' = "parse" /\ p \in todo /\ fs[p].where = "present"
        /\ UNCHANGED <<fs, version, authority, rows, nextDoc, pending, index, sess,
                       tasks, deletes, embed, migrate>>
        /\ staged' = staged \cup ParsedRecords(p)
        /\ updates' = [updates EXCEPT ![p] = CompletedFileState(p)]
        /\ todo' = todo \ {p}
        /\ next' = Larger(next, next + (NumLines(ParseEnd(p)) - NumLines(ParseStart(p))))
    BY DEF Parse
  <1>2. /\ updates[p] = NoRow /\ tasks[p] # NoTask /\ TaskOK(p) /\ UpdateOK(p)
        /\ RowOK(p, sess[p]) /\ (p \notin deletes => Trusted(p, sess[p]))
        /\ version > 0
    BY <1>1 DEF RefreshInv, UpdateInv, TaskInv, SessInv, Prepared, StoreInv
  <1>3. StoreInv'
    BY <1>1 DEF RefreshInv, StoreInv, RowOK, Trusted, Indexed, Idle
  <1>4. FreshInv' /\ IntentInv' /\ DoneInv'
    BY <1>1 DEF RefreshInv, FreshInv, IntentInv, DoneInv, Idle, Observing, Done,
                TaskPaths, PathsWith
  <1>5. DocInv'
    <2>1. next >= FirstFreeDoc /\ (staged # {} => next > FirstFreeDoc)
      BY <1>1 DEF RefreshInv, DocInv
    <2>2. next \in Nat /\ FirstFreeDoc \in Nat
      BY DEF TypeOK, Intent, FirstFreeDoc, Larger
    <2>3. next' >= next /\ (ParsedRecords(p) # {} => next' > next)
      BY <1>1, <2>2, ParseTyped, ParsedExactly DEF Larger
    <2>4. FirstFreeDoc' = FirstFreeDoc
      BY <1>1 DEF FirstFreeDoc
    <2>5. next' \in Nat
      BY DEF TypeOK
    <2> QED
      BY <1>1, <2>1, <2>2, <2>3, <2>4, <2>5 DEF DocInv, Observing
  <1>6. SessInv'
    BY <1>1 DEF RefreshInv, SessInv, Observing, Prepared, RowOK, Trusted, Indexed, Stale
  <1>7. TaskInv'
    BY <1>1 DEF RefreshInv, TaskInv, TaskOK, Stale, Prepared
  <1>8. UpdateInv'
    <2> DEFINE u == CompletedFileState(p)
    <2>1. /\ u \in Row /\ u # NoRow /\ u.gen = tasks[p].gen /\ u.ver = version
          /\ u.size = tasks[p].size /\ u.ctime = tasks[p].ctime /\ u.offset = ParseEnd(p)
      <3>1. /\ u.gen = tasks[p].gen /\ u.ver = version
            /\ u.size = tasks[p].size /\ u.ctime = tasks[p].ctime
            /\ u.offset = ParseEnd(p)
        BY DEF CompletedFileState
      <3>2. u \in Row
        BY ParseTyped
      <3>3. NoRow.ver = 0 /\ version # 0
        BY <1>2 DEF NoRow, TypeOK
      <3> QED
        BY <3>1, <3>2, <3>3
    <2>2. updates'[p] = u /\ \A q \in Paths : q # p => updates'[q] = updates[q]
      BY <1>1 DEF TypeOK
    <2> HIDE DEF u
    <2>3. /\ ParseEnd(p) % 3 # 1
          /\ tasks[p].gen = fs[p].gen =>
                /\ ParseStart(p) = tasks[p].offset
                /\ tasks[p].offset <= ParseEnd(p)
                /\ ParseEnd(p) <= fs[p].size
      BY <1>1, <1>2, ParsedFacts
    <2>4. /\ tasks[p].gen <= fs[p].gen
          /\ tasks[p].gen = fs[p].gen =>
                tasks[p].size <= fs[p].size /\ tasks[p].ctime = fs[p].ctime
          /\ p \in deletes /\ tasks[p].change = "Append" => tasks[p].gen < fs[p].gen
      BY <1>1, <1>2 DEF TaskOK
    <2>5. version <= version
      BY DEF TypeOK
    <2>6. RowOK(p, u)
      BY <2>1, <2>3, <2>4, <2>5 DEF RowOK
    <2>7. Of(staged', p) = ParsedRecords(p)
      BY <1>1, <1>2, ParsedExactly DEF Of, UpdateOK
    <2>8. \A q \in Paths : q # p => Of(staged', q) = Of(staged, q)
      BY <1>1, ParsedExactly DEF Of
    <2>9. UpdateOK(p)'
      <3>1. u.gen = fs[p].gen =>
              LinesExactly(ParsedRecords(p),
                           NumLines(tasks[p].offset)..(NumLines(u.offset) - 1),
                           u.gen, u.ver)
        BY <2>1, <2>3, ParsedExactly
      <3> QED
        BY <1>1, <1>2, <2>1, <2>2, <2>3, <2>4, <2>7, <3>1 DEF UpdateOK
    <2>10. ASSUME NEW q \in Paths, q # p PROVE UpdateOK(q)'
      BY <1>1, <2>2, <2>8, <2>10 DEF RefreshInv, UpdateInv, UpdateOK, Prepared
    <2>11. \A q \in Paths : RowOK(q, updates[q])'
      BY <1>1, <2>2, <2>6 DEF RefreshInv, UpdateInv, RowOK
    <2>12. \A q \in todo' : updates'[q] = NoRow /\ tasks'[q] # NoTask
      BY <1>1, <2>2 DEF RefreshInv, UpdateInv, TypeOK
    <2> QED
      BY <2>9, <2>10, <2>11, <2>12 DEF UpdateInv
  <1> QED
    BY <1>3, <1>4, <1>5, <1>6, <1>7, <1>8 DEF RefreshInv

\* A parser that was skipped or failed hands over nothing.
LEMMA ParseNothingInv ==
    ASSUME TypeOK, TypeOK', RefreshInv, NEW p \in Paths, ParseSkip(p) \/ ParseFail(p)
    PROVE  RefreshInv'
  <1> USE DEF disk, store, published, prepared, bounds
  <1>1. /\ pc = "parse" /\ pc' = "parse" /\ todo' \subseteq todo /\ next' >= next
        /\ UNCHANGED <<fs, version, authority, rows, nextDoc, pending, index, sess,
                       tasks, deletes, embed, migrate, staged, updates>>
    BY DEF ParseSkip, ParseFail, TypeOK
  <1>2. StoreInv'
    BY <1>1 DEF RefreshInv, StoreInv, RowOK, Trusted, Indexed, Idle
  <1>3. FreshInv' /\ IntentInv' /\ DoneInv'
    BY <1>1 DEF RefreshInv, FreshInv, IntentInv, DoneInv, Idle, Observing, Done,
                TaskPaths, PathsWith
  <1>4. DocInv'
    BY <1>1 DEF RefreshInv, DocInv, FirstFreeDoc, Larger, TypeOK, Intent, Observing
  <1>5. SessInv'
    BY <1>1 DEF RefreshInv, SessInv, Observing, Prepared, RowOK, Trusted, Indexed, Stale
  <1>6. TaskInv'
    BY <1>1 DEF RefreshInv, TaskInv, TaskOK, Stale, Prepared
  <1>7. UpdateInv'
    BY <1>1 DEF RefreshInv, UpdateInv, UpdateOK, RowOK
  <1> QED
    BY <1>2, <1>3, <1>4, <1>5, <1>6, <1>7 DEF RefreshInv

\* Consecutive runs of lines make one run.
LEMMA LinesJoin ==
    ASSUME NEW a \in Nat, NEW b \in Nat, a <= b, NEW R, NEW S, NEW gen, NEW ver,
           LinesExactly(R, 0..(a - 1), gen, ver), LinesExactly(S, a..(b - 1), gen, ver)
    PROVE  LinesExactly(R \cup S, 0..(b - 1), gen, ver)
  <1>1. {r.line : r \in R \cup S} = 0..(b - 1)
    <2>1. {r.line : r \in R \cup S} = (0..(a - 1)) \cup (a..(b - 1))
      BY DEF LinesExactly
    <2> QED
      BY <2>1
  <1>2. \A r \in R : r.line \in 0..(a - 1)
    BY DEF LinesExactly
  <1>3. \A r \in S : r.line \in a..(b - 1)
    BY DEF LinesExactly
  <1>4. \A r \in R, q \in S : r.line # q.line
    BY <1>2, <1>3
  <1>5. \A r, q \in R \cup S : r.line = q.line => r = q
    BY <1>4 DEF LinesExactly
  <1> QED
    BY <1>1, <1>5 DEF LinesExactly

\* The generation about to be published agrees with the rows about to be
\* committed, whatever combination of deletion and resumption a path met.
LEMMA PublishTrusted ==
    ASSUME TypeOK, RefreshInv, pc \in Prepared, NEW p \in Paths
    PROVE  IF FinalRow(p) = NoRow THEN Of(NewGeneration, p) = {}
           ELSE FinalRow(p).gen = fs[p].gen /\ FinalRow(p).ver = version =>
                  /\ FinalRow(p).offset <= fs[p].size
                  /\ LinesExactly(Of(NewGeneration, p),
                                  0..(NumLines(FinalRow(p).offset) - 1),
                                  FinalRow(p).gen, FinalRow(p).ver)
  <1> DEFINE old == IF p \in deletes THEN {} ELSE Of(index, p)
  <1>1. Of(NewGeneration, p) = old \cup Of(staged, p)
    BY DEF Of, NewGeneration
  <1>2. /\ UpdateOK(p) /\ TaskOK(p) /\ RowOK(p, sess[p]) /\ RowOK(p, updates[p])
        /\ IF p \in deletes THEN Stale(p, sess[p]) ELSE Trusted(p, sess[p])
    BY DEF RefreshInv, UpdateInv, TaskInv, SessInv
  <1>3. /\ sess[p] \in Row /\ updates[p] \in Row /\ fs[p].gen \in Nat
        /\ tasks[p] \in Task /\ version \in Nat
    BY DEF TypeOK
  <1>4. CASE updates[p] = NoRow
    <2>1. FinalRow(p) = sess[p] /\ Of(NewGeneration, p) = old
      BY <1>1, <1>2, <1>4 DEF FinalRow, UpdateOK
    <2>2. CASE p \in deletes
      BY <1>2, <1>3, <2>1, <2>2 DEF Stale, Row
    <2>3. CASE p \notin deletes
      BY <1>2, <2>1, <2>3 DEF Trusted, Indexed
    <2> QED
      BY <2>2, <2>3
  <1>5. CASE updates[p] # NoRow
    <2> DEFINE u == updates[p]
               t == tasks[p]
    <2> SUFFICES ASSUME u.gen = fs[p].gen, u.ver = version
                 PROVE  /\ u.offset <= fs[p].size
                        /\ LinesExactly(old \cup Of(staged, p),
                                        0..(NumLines(u.offset) - 1), u.gen, u.ver)
      BY <1>1, <1>5 DEF FinalRow
    <2>1. /\ t # NoTask /\ u.gen = t.gen /\ t.offset <= u.offset
          /\ LinesExactly(Of(staged, p), NumLines(t.offset)..(NumLines(u.offset) - 1),
                          u.gen, u.ver)
      BY <1>2, <1>5 DEF UpdateOK
    <2>2. u.offset <= fs[p].size
      BY <1>2 DEF RowOK
    <2>3. /\ NumLines(t.offset) \in Nat /\ NumLines(u.offset) \in Nat
          /\ NumLines(t.offset) <= NumLines(u.offset)
      <3>1. t.offset \in Nat /\ u.offset \in Nat
        BY <1>3 DEF Task, Row
      <3> QED
        BY <2>1, <3>1, NumLinesMonotone
    <2>4. LinesExactly(old, 0..(NumLines(t.offset) - 1), u.gen, u.ver)
      <3>1. CASE t.change = "Append"
        <4>1. p \notin deletes
          BY <1>2, <1>3, <1>5, <2>1, <3>1 DEF UpdateOK, Row
        <4>2. /\ sess[p] # NoRow /\ sess[p].ver = version
              /\ sess[p].gen = t.gen /\ sess[p].offset = t.offset
          BY <1>2, <2>1, <3>1, <4>1 DEF TaskOK
        <4> QED
          BY <1>2, <2>1, <4>1, <4>2 DEF Trusted, Indexed
      <3>2. CASE t.change # "Append"
        <4>1. t.offset = 0
          BY <1>2, <2>1, <3>2 DEF TaskOK
        <4>2. NumLines(0) = 0 /\ 0..(0 - 1) = {}
          BY DEF NumLines
        <4>3. old = {}
          <5>1. t.change \in {"New", "Replaced", "ParserChanged"}
            BY <1>2, <1>3, <2>1, <3>2 DEF TaskOK, Task, Changes
          <5> QED
            BY <1>2, <2>1, <5>1 DEF TaskOK, Trusted
        <4> QED
          BY <4>1, <4>2, <4>3 DEF LinesExactly
      <3> QED
        BY <3>1, <3>2
    <2> QED
      BY <2>1, <2>2, <2>3, <2>4, LinesJoin
  <1> QED
    BY <1>4, <1>5

\* The intent covers what is about to change; without one nothing changes and
\* the rows already describe the index.
LEMMA CommitIntentInv ==
    ASSUME TypeOK, TypeOK', RefreshInv, CommitIntent
    PROVE  RefreshInv'
  <1> USE DEF disk, store, published, prepared, parsing, bounds
  <1>1. /\ pc = "parse" /\ todo = {}
        /\ pending' = IF NeedsPublication THEN PendingIngest ELSE pending
        /\ UNCHANGED <<fs, version, index, authority, rows, nextDoc>>
    BY DEF CommitIntent, EndRun
  <1>2. StoreInv /\ pending.paths \subseteq deletes /\ authority
    BY <1>1 DEF RefreshInv, IntentInv, StoreInv, Idle
  <1>3. pending.paths \subseteq pending'.paths
    BY <1>1, <1>2 DEF PendingIngest
  <1>4. \A p \in Paths : RowOK(p, rows[p])' /\ (Trusted(p, rows[p]) => Trusted(p, rows[p])')
    BY <1>1 DEF RefreshInv, StoreInv, RowOK, Trusted, Indexed
  <1>5. StoreInv' \/ pc' \in Idle \ {"idle"}
    BY <1>1, <1>2, <1>3, <1>4 DEF StoreInv
  <1>6. CASE failed
    <2>1. EndRun
      BY <1>6 DEF CommitIntent
    <2>2. version' > 0 /\ StoreInv'
      BY <1>1, <1>2, <1>5, <2>1 DEF StoreInv, EndRun
    <2> QED
      BY <2>1, <2>2, EndRunInv DEF RefreshInv
  <1>7. CASE ~failed
    <2>1. /\ UNCHANGED <<sess, next, tasks, deletes, embed, migrate, todo, staged, updates>>
          /\ pc' = IF CheckpointsOnly
                   THEN IF backfill THEN "backfill" ELSE "mark_complete"
                   ELSE "analytics"
      BY <1>7 DEF CommitIntent
    <2>2. StoreInv' /\ pc' \notin Idle \cup Observing \cup {"decide", "parse"}
      BY <1>5, <2>1 DEF Idle, Observing
    <2>3. FreshInv' /\ DocInv'
      BY <2>1, <2>2 DEF RefreshInv, FreshInv, DocInv
    <2>4. SessInv'
      BY <1>1, <2>1, <2>2 DEF RefreshInv, SessInv, Prepared, RowOK, Trusted, Indexed, Stale
    <2>5. TaskInv'
      BY <1>1, <2>1 DEF RefreshInv, TaskInv, TaskOK, Stale, Prepared
    <2>6. UpdateInv'
      BY <1>1, <2>1 DEF RefreshInv, UpdateInv, UpdateOK, RowOK, Prepared
    <2>7. CASE CheckpointsOnly
      <3>1. pc' \in Done /\ staged = {} /\ deletes = {}
        BY <2>1, <2>7 DEF Done, CheckpointsOnly
      <3>2. NewGeneration = index
        BY <3>1 DEF NewGeneration
      <3>3. ASSUME NEW p \in Paths PROVE Trusted(p, FinalRow(p))'
        <4>1. FinalRow(p)' = FinalRow(p)
          BY <2>1 DEF FinalRow
        <4>2. pc \in Prepared
          BY <1>1 DEF Prepared
        <4> QED
          BY <1>1, <3>2, <4>1, <4>2, PublishTrusted DEF Trusted, Indexed
      <3>4. IntentInv' /\ DoneInv'
        BY <3>1, <3>3 DEF IntentInv, DoneInv, Done
      <3> QED
        BY <2>2, <2>3, <2>4, <2>5, <2>6, <3>4 DEF RefreshInv
    <2>8. CASE ~CheckpointsOnly
      <3>1. pc' = "analytics"
        BY <2>1, <2>8
      <3>2. NeedsPublication
        <4> SUFFICES ASSUME ~NeedsPublication PROVE FALSE
          OBVIOUS
        <4>1. deletes = {} /\ ~embed /\ ~reconcile /\ next = FirstFreeDoc
          BY DEF NeedsPublication
        <4>2. ~migrate
          BY <4>1 DEF RefreshInv, FreshInv
        <4>3. staged = {}
          BY <1>1, <4>1 DEF RefreshInv, DocInv, TypeOK
        <4> QED
          BY <2>8, <4>1, <4>2, <4>3 DEF CheckpointsOnly, FastPathNeedsVectors,
             DoBackfillEmbeddings
      <3>3. IntentInv'
        BY <1>1, <2>1, <3>1, <3>2 DEF IntentInv, PendingIngest, TaskPaths, PathsWith
      <3>4. DoneInv'
        BY <3>1 DEF DoneInv, Done
      <3> QED
        BY <2>2, <2>3, <2>4, <2>5, <2>6, <3>3, <3>4 DEF RefreshInv
    <2> QED
      BY <2>7, <2>8
  <1> QED
    BY <1>6, <1>7

\* The analytics transaction touches nothing RefreshInv reads but pc.
LEMMA PublishAnalyticsInv ==
    ASSUME TypeOK, TypeOK', RefreshInv, PublishAnalytics
    PROVE  RefreshInv'
  <1> USE DEF disk, store, published, prepared, parsing, bounds
  <1>1. pc = "analytics" /\ pc' = "lexical"
    BY DEF PublishAnalytics
  <1>2. UNCHANGED <<fs, version, authority, rows, nextDoc, pending, index, sess,
                    next, tasks, deletes, embed, migrate, todo, staged, updates>>
    BY DEF PublishAnalytics
  <1>3. StoreInv'
    BY <1>1, <1>2 DEF RefreshInv, StoreInv, RowOK, Trusted, Indexed, Idle
  <1>4. FreshInv' /\ DocInv' /\ IntentInv' /\ DoneInv'
    BY <1>1, <1>2 DEF RefreshInv, FreshInv, DocInv, IntentInv, DoneInv, TaskPaths,
                PathsWith, Idle, Observing, Done
  <1>5. SessInv'
    BY <1>1, <1>2 DEF RefreshInv, SessInv, Observing, Prepared, RowOK, Trusted,
                      Indexed, Stale
  <1>6. TaskInv'
    BY <1>1, <1>2 DEF RefreshInv, TaskInv, TaskOK, Stale, Prepared
  <1>7. UpdateInv'
    BY <1>1, <1>2 DEF RefreshInv, UpdateInv, UpdateOK, RowOK, Prepared
  <1> QED
    BY <1>3, <1>4, <1>5, <1>6, <1>7 DEF RefreshInv

\* Publication makes the rows to be committed describe the index.
LEMMA PublishGenerationInv ==
    ASSUME TypeOK, TypeOK', RefreshInv, PublishGeneration
    PROVE  RefreshInv'
  <1> USE DEF disk, store, prepared, bounds
  <1>1. /\ pc = "lexical" /\ pc' \in {"vectors", "backfill", "mark_complete"}
        /\ index' = NewGeneration
    BY DEF PublishGeneration
  <1>2. UNCHANGED <<fs, version, authority, rows, nextDoc, pending, sess,
                    next, tasks, deletes, embed, migrate, todo, staged, updates>>
    BY DEF PublishGeneration
  <1>3. pc \in Prepared /\ pending.paths = deletes \cup TaskPaths
    BY <1>1 DEF RefreshInv, IntentInv, Prepared
  <1>4. StoreInv'
    <2>1. ASSUME NEW p \in Paths, p \notin pending.paths
          PROVE  Of(index', p) = Of(index, p)
      <3>1. p \notin deletes /\ tasks[p] = NoTask
        BY <1>3, <2>1 DEF TaskPaths, PathsWith
      <3>2. Of(staged, p) = {}
        BY <1>3, <3>1 DEF RefreshInv, UpdateInv, UpdateOK
      <3> QED
        BY <1>1, <3>1, <3>2 DEF NewGeneration, Of
    <2>2. \A p \in Paths : p \notin pending.paths =>
              (Trusted(p, rows[p]) => Trusted(p, rows[p])')
      BY <1>2, <2>1 DEF Trusted, Indexed
    <2> QED
      BY <1>1, <1>2, <2>2 DEF RefreshInv, StoreInv, RowOK, Idle
  <1>5. FreshInv' /\ DocInv' /\ IntentInv'
    BY <1>1, <1>2 DEF RefreshInv, FreshInv, DocInv, IntentInv, Idle, Observing
  <1>6. SessInv'
    BY <1>1, <1>2 DEF RefreshInv, SessInv, Observing, Prepared, RowOK
  <1>7. TaskInv'
    BY <1>1, <1>2 DEF RefreshInv, TaskInv, TaskOK, Stale, Prepared
  <1>8. UpdateInv'
    BY <1>1, <1>2 DEF RefreshInv, UpdateInv, RowOK, Prepared
  <1>9. DoneInv'
    <2> SUFFICES ASSUME NEW p \in Paths PROVE Trusted(p, FinalRow(p))'
      BY DEF DoneInv
    <2>1. FinalRow(p)' = FinalRow(p)
      BY <1>2 DEF FinalRow
    <2> QED
      BY <1>1, <1>2, <1>3, <2>1, PublishTrusted DEF Trusted, Indexed
  <1> QED
    BY <1>4, <1>5, <1>6, <1>7, <1>8, <1>9 DEF RefreshInv

\* The vector generation, the analytics flag and the backfill touch nothing
\* the checkpoint depends on.
LEMMA TailInv ==
    ASSUME TypeOK, TypeOK', RefreshInv,
           PublishVectors \/ BackfillClear \/ BackfillFlush \/ MarkComplete
    PROVE  RefreshInv'
  <1> USE DEF disk, store, published, prepared, parsing, bounds
  <1>1. pc \in Done /\ pc' \in Done
    BY DEF PublishVectors, BackfillClear, BackfillFlush, MarkComplete, Done
  <1>2. UNCHANGED <<fs, version, authority, rows, nextDoc, pending, index, sess,
                    next, tasks, deletes, embed, migrate, todo, staged, updates>>
    BY DEF PublishVectors, BackfillClear, BackfillFlush, MarkComplete
  <1>3. Done \cap (Idle \cup Observing \cup Prepared) = {}
    BY DEF Done, Idle, Observing, Prepared
  <1>4. StoreInv'
    BY <1>1, <1>2, <1>3 DEF RefreshInv, StoreInv, RowOK, Trusted, Indexed
  <1>5. FreshInv' /\ DocInv' /\ IntentInv'
    BY <1>1, <1>2 DEF RefreshInv, FreshInv, DocInv, IntentInv, Idle, Observing, Done
  <1>6. SessInv'
    BY <1>1, <1>2, <1>3 DEF RefreshInv, SessInv, RowOK
  <1>7. TaskInv'
    BY <1>1, <1>2, <1>3 DEF RefreshInv, TaskInv, TaskOK, Stale
  <1>8. UpdateInv'
    BY <1>1, <1>2, <1>3 DEF RefreshInv, UpdateInv, RowOK
  <1>9. DoneInv'
    BY <1>1, <1>2 DEF RefreshInv, DoneInv, FinalRow, Trusted, Indexed
  <1> QED
    BY <1>4, <1>5, <1>6, <1>7, <1>8, <1>9 DEF RefreshInv

\* The final transaction moves trust from the session to the checkpoint.
LEMMA CommitFinalInv ==
    ASSUME TypeOK, TypeOK', RefreshInv, CommitFinal
    PROVE  RefreshInv'
  <1> USE DEF disk, published
  <1>1. /\ pc = "finalize" /\ EndRun /\ pc' = "idle" /\ authority' = authority
        /\ rows' = [p \in Paths |-> FinalRow(p)] /\ pending' = NoIntent
        /\ UNCHANGED <<fs, version, index>>
    BY DEF CommitFinal, EndRun, FinalRow
  <1>2. authority /\ version > 0
    BY <1>1 DEF RefreshInv, StoreInv, Idle
  <1>3. \A p \in Paths : Trusted(p, FinalRow(p)) /\ RowOK(p, FinalRow(p))
    BY <1>1 DEF RefreshInv, DoneInv, Done, SessInv, UpdateInv, FinalRow
  <1>4. \A p \in Paths : rows'[p] = FinalRow(p)
    BY <1>1
  <1>5. \A p \in Paths : RowOK(p, rows[p])' /\ Trusted(p, rows[p])'
    BY <1>1, <1>3, <1>4 DEF RowOK, Trusted, Indexed
  <1>6. StoreInv'
    BY <1>1, <1>2, <1>5 DEF StoreInv, Idle
  <1> QED
    BY <1>1, <1>2, <1>6, EndRunInv DEF RefreshInv

\* A crash loses the session; the checkpoint and its intent still explain the
\* index.
LEMMA AbortInv ==
    ASSUME TypeOK, TypeOK', RefreshInv, Abort
    PROVE  RefreshInv'
  <1> USE DEF disk, store, published
  <1>1. /\ EndRun /\ pc' = "idle"
        /\ UNCHANGED <<fs, version, index, authority, rows, nextDoc, pending>>
    BY DEF Abort, EndRun
  <1>2. StoreInv'
    BY <1>1 DEF RefreshInv, StoreInv, RowOK, Trusted, Indexed, Idle
  <1>3. version' > 0
    BY <1>2 DEF StoreInv
  <1> QED
    BY <1>1, <1>2, <1>3, EndRunInv DEF RefreshInv

\* Every step keeps the invariant, the environment's included.
LEMMA RefreshStep ==
    ASSUME Restorable = {}, TypeOK, TypeOK', RefreshInv, [Next]_vars
    PROVE  RefreshInv'
  <1>1. ASSUME NEW q \in Paths,
               \/ FileAppend(q) \/ FileReplace(q) \/ FileDelete(q)
               \/ FileHide(q) \/ FileUnhide(q) \/ FileRestore(q)
        PROVE  RefreshInv'
    <2>1. UNCHANGED others
      BY <1>1 DEF others, FileAppend, FileReplace, FileDelete, FileHide, FileUnhide,
                  FileRestore, store, published, prepared, parsing
    <2> QED
      BY <1>1, <2>1, EnvironmentMoves, MoveInv
  <1>2. CASE UNCHANGED vars \/ RefuseCheckpoint
    <2>1. UNCHANGED others /\ fs' = fs
      BY <1>2 DEF RefuseCheckpoint, vars, others, disk, store, published, prepared, parsing
    <2>2. \A p \in Paths : FileMove(p)
      BY <2>1 DEF FileMove, TypeOK
    <2> QED
      BY <2>1, <2>2, MoveInv
  <1>3. CASE ObserveAll
    BY <1>3, ObserveInv DEF ObserveAll, PresentPaths
  <1>4. ASSUME NEW dirty \in SUBSET Paths, ObserveDirty(dirty) PROVE RefreshInv'
    BY <1>4, ObserveInv DEF ObserveDirty
  <1>5. CASE Step
    BY <1>5, SweepInv, DecideInv, CommitIntentInv, PublishAnalyticsInv,
       PublishGenerationInv, TailInv, CommitFinalInv, ParseInv, ParseNothingInv
    DEF Step
  <1> QED
    BY <1>1, <1>2, <1>3, <1>4, <1>5, UpgradeInv, ResetInv, RecoverInv,
       ParseNothingInv, AbortInv
    DEF Next, Environment

\* RefreshInv holds in every behaviour, for any paths, bounds and embedder
\* options, provided no transcript is renamed away and back mid-refresh.
THEOREM RefreshInvariant == Restorable = {} /\ Spec => []RefreshInv
  <1> SUFFICES ASSUME Restorable = {} PROVE Spec => []RefreshInv
    OBVIOUS
  <1>1. Init => RefreshInv
    BY InitInv
  <1>2. TypeOK /\ TypeOK' /\ RefreshInv /\ [Next]_vars => RefreshInv'
    BY RefreshStep
  <1> QED
    BY <1>1, <1>2, TypeCorrect, PTL DEF Spec

\* A row that a refresh resumes from describes exactly what is indexed.
THEOREM RowsAreTrusted == Restorable = {} /\ Spec => []TrustedRows
  <1>1. TypeOK /\ RefreshInv => TrustedRows
    <2> SUFFICES ASSUME TypeOK, RefreshInv, authority, NEW p \in Paths \ pending.paths
                 PROVE  IF rows[p] = NoRow THEN Of(index, p) = {}
                        ELSE ClassifyFile(fs[p], rows[p]) \in {"None", "Append"}
                                => Indexed(p, rows[p])
      BY DEF TrustedRows
    <2>1. Trusted(p, rows[p])
      BY DEF RefreshInv, StoreInv
    <2>2. ASSUME rows[p] # NoRow, ClassifyFile(fs[p], rows[p]) \in {"None", "Append"}
          PROVE  rows[p].gen = fs[p].gen /\ rows[p].ver = version
      BY <2>2 DEF ClassifyFile
    <2> QED
      BY <2>1, <2>2 DEF Trusted
  <1> QED
    BY <1>1, RefreshInvariant, TypeCorrect, PTL

=============================================================================
