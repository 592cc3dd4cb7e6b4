---------------------------- MODULE IngestStores ----------------------------
(***************************************************************************)
(* What the four stores of a refresh say of one another, for any paths,    *)
(* parsers, bounds and embedder options, files renamed away and back       *)
(* included.  Unlike the trust in rows (IngestProofs) nothing here needs   *)
(* to know what a file contains.  In order:                                *)
(*   - the intent is a write-ahead log (LogInv);                           *)
(*   - document ids are drawn upwards (LeaseInv, IdsInv);                  *)
(*   - the catalogue counts the index (CountInv);                          *)
(*   - an id names one record among the vectors too (VectorIdsInv);        *)
(*   - the embedder leaves no record without a vector (EmbedInv);          *)
(*   - every line is indexed once (LinesInv).                              *)
(***************************************************************************)
EXTENDS IngestProofs

\* The part of the state LogInv reads.
logged == <<pc, pending, nextDoc, next, tasks, deletes, vdel, embed, migrate,
            staged, todo>>

\* LogInv only depends on logged.
LEMMA LogFrame ==
    ASSUME LogInv, UNCHANGED logged
    PROVE  LogInv'
  BY DEF LogInv, logged, FirstFreeDoc, TaskPaths, PathsWith

\* A refresh that ended leaves nothing LogInv could object to.
LEMMA LogEndRun ==
    ASSUME EndRun
    PROVE  LogInv'
  BY DEF EndRun, LogInv, Idle, Observing

\* A parser that finds its file numbers its records above every id drawn so far.
LEMMA LogParse ==
    ASSUME TypeOK, LogInv, NEW p \in Paths, Parse(p)
    PROVE  LogInv'
  <1> USE DEF disk, store, published, prepared, bounds
  <1>1. /\ pc = "parse" /\ p \in todo /\ todo' = todo \ {p}
        /\ staged' = staged \cup ParsedRecords(p)
        /\ next' = Larger(next, next + (NumLines(ParseEnd(p)) - NumLines(ParseStart(p))))
        /\ UNCHANGED <<pc, pending, nextDoc, tasks, deletes, vdel, embed, migrate>>
    BY DEF Parse
  <1>2. NumLines(ParseStart(p)) \in Nat /\ NumLines(ParseEnd(p)) \in Nat /\ next \in Nat
    BY <1>1, ParseTyped DEF TypeOK, Parse
  <1>3. next' >= next
    BY <1>1, <1>2 DEF Larger
  <1>4. ParsedRecords(p) # {} => next' > next
    <2> SUFFICES ASSUME ParsedRecords(p) # {} PROVE next' > next
      OBVIOUS
    <2>1. PICK l \in ParsedLines(p) : TRUE
      BY DEF ParsedRecords
    <2>2. NumLines(ParseStart(p)) < NumLines(ParseEnd(p))
      BY <1>2, <2>1 DEF ParsedLines
    <2> QED
      BY <1>1, <1>2, <2>2 DEF Larger
  <1>5. \A r \in ParsedRecords(p) : r.path = p
    BY DEF ParsedRecords
  <1>6. tasks[p] # NoTask
    BY <1>1 DEF LogInv
  <1>7. FirstFreeDoc \in Nat /\ FirstFreeDoc' = FirstFreeDoc
    BY <1>1 DEF FirstFreeDoc, Larger, TypeOK, Intent
  <1>8. \A r \in staged' : tasks'[r.path] # NoTask
    BY <1>1, <1>5, <1>6 DEF LogInv
  <1>9. next' \in Nat
    BY <1>1, <1>2 DEF Larger
  <1>10. next' >= FirstFreeDoc /\ (staged' # {} => next' > FirstFreeDoc)
    BY <1>1, <1>2, <1>3, <1>4, <1>7, <1>9 DEF LogInv
  <1> QED
    BY <1>1, <1>7, <1>8, <1>10 DEF LogInv, Idle, Observing

\* A skipped or failed parser draws ids at most.
LEMMA LogParseNothing ==
    ASSUME TypeOK, LogInv, NEW p \in Paths, ParseSkip(p) \/ ParseFail(p)
    PROVE  LogInv'
  <1> USE DEF disk, store, published, prepared
  <1>1. /\ pc = "parse" /\ todo' \subseteq todo /\ next' \in Nat /\ next' >= next
        /\ UNCHANGED <<pc, pending, nextDoc, tasks, deletes, vdel, embed, migrate,
                       staged>>
    BY DEF ParseSkip, ParseFail, TypeOK
  <1>2. FirstFreeDoc \in Nat /\ FirstFreeDoc' = FirstFreeDoc /\ next \in Nat
    BY <1>1 DEF FirstFreeDoc, Larger, TypeOK, Intent
  <1> QED
    BY <1>1, <1>2 DEF LogInv, Idle, Observing

\* What is about to be published has been announced: writer_loop never returns
\* early with ids drawn, so commit_intent wrote the next free one.
LEMMA PublicationNeedsIntent ==
    ASSUME TypeOK, LogInv, pc = "parse", ~CheckpointsOnly
    PROVE  NeedsPublication
  BY DEF CheckpointsOnly, FastPathNeedsVectors, DoBackfillEmbeddings,
         NeedsPublication, LogInv, TypeOK, FirstFreeDoc, Larger, Intent

\* CommitIntent writes the intent whenever anything is left to publish.
LEMMA LogCommitIntent ==
    ASSUME TypeOK, LogInv, CommitIntent
    PROVE  LogInv'
  <1> USE DEF disk, store, published, prepared, parsing, bounds
  <1>1. CASE failed
    BY <1>1, LogEndRun DEF CommitIntent
  <1>2. CASE ~failed
    <2>1. /\ pc = "parse"
          /\ pc' \in {"backfill", "mark_complete", "analytics"}
          /\ pc' = "analytics" => ~CheckpointsOnly
          /\ pending' = IF NeedsPublication THEN PendingIngest ELSE pending
          /\ UNCHANGED <<tasks, deletes, vdel, embed, migrate, staged, todo, next>>
      BY <1>2 DEF CommitIntent
    <2>2. pc' = "analytics" => NeedsPublication
      BY <2>1, PublicationNeedsIntent
    <2>3. pc' = "analytics" => (deletes \cup TaskPaths)' \subseteq pending'.paths
      BY <2>1, <2>2 DEF PendingIngest, TaskPaths, PathsWith
    <2> QED
      BY <2>1, <2>3 DEF LogInv, Idle, Observing
  <1> QED
    BY <1>1, <1>2

\* Every step keeps LogInv.
LEMMA LogStep ==
    ASSUME TypeOK, TypeOK', LogInv, [Next]_vars
    PROVE  LogInv'
  <1> USE DEF disk, store, published, prepared, parsing, bounds
  <1>1. CASE Environment \/ RefuseCheckpoint \/ UNCHANGED vars
    <2>1. UNCHANGED logged
      BY <1>1 DEF Environment, FileAppend, FileReplace, FileDelete, FileHide,
                  FileUnhide, FileRestore, Upgrade, RefuseCheckpoint, vars, logged
    <2> QED
      BY <2>1, LogFrame
  <1>2. CASE Reset
    BY <1>2 DEF Reset, ResetCheckpoint, ResetIndex, ResetVectors, ResetAnalytics,
                LogInv, Idle, Observing
  <1>3. ASSUME NEW o \in BOOLEAN, RecoverCheckpoint(o) PROVE LogInv'
    BY <1>3 DEF RecoverCheckpoint, LogInv, Idle, Observing, FirstFreeDoc
  <1>4. ASSUME NEW selected \in SUBSET Paths, Observe(selected) PROVE LogInv'
    BY <1>4 DEF Observe, LogInv, Idle, Observing, FirstFreeDoc
  <1>5. CASE Sweep
    <2>1. /\ pc = "sweep" /\ pc' = "decide"
          /\ pending'.paths \subseteq deletes' /\ pending'.vdel \subseteq vdel'
          /\ migrate' => embed'
          /\ UNCHANGED <<pending, nextDoc, next, tasks, staged, todo>>
      BY <1>5 DEF Sweep
    <2>2. FirstFreeDoc \in Nat /\ FirstFreeDoc' = FirstFreeDoc
      BY <2>1 DEF FirstFreeDoc, Larger, TypeOK, Intent
    <2> QED
      BY <2>1, <2>2 DEF LogInv, Idle, Observing
  <1>6. CASE DecideRefresh
    <2>1. /\ pc = "decide" /\ pc' \in {"parse", "backfill", "finalize"}
          /\ todo' \in {todo, TaskPaths}
          /\ UNCHANGED <<pending, nextDoc, next, tasks, deletes, vdel, embed,
                         migrate, staged>>
      BY <1>6 DEF DecideRefresh
    <2> QED
      BY <2>1 DEF LogInv, Idle, Observing, FirstFreeDoc, TaskPaths, PathsWith
  <1>7. CASE PublishAnalytics \/ PublishGeneration \/ PublishVectors
             \/ BackfillClear \/ BackfillFlush \/ MarkComplete
    <2>1. /\ pc \in {"analytics", "lexical", "vectors", "backfill",
                     "backfill_flush", "mark_complete"}
          /\ pc' \in {"lexical", "vectors", "backfill", "backfill_flush",
                      "mark_complete", "finalize"}
          /\ pc' = "lexical" => pc = "analytics"
          /\ UNCHANGED <<pending, nextDoc, next, tasks, deletes, vdel, embed,
                         migrate, staged, todo>>
      BY <1>7 DEF PublishAnalytics, PublishGeneration, PublishVectors, BackfillClear,
                  BackfillFlush, MarkComplete
    <2> QED
      BY <2>1 DEF LogInv, Idle, Observing, FirstFreeDoc, TaskPaths, PathsWith
  <1>8. CASE CommitFinal \/ Abort
    BY <1>8, LogEndRun DEF CommitFinal, Abort
  <1> QED
    BY <1>1, <1>2, <1>3, <1>4, <1>5, <1>6, <1>7, <1>8, LogParse, LogParseNothing,
       LogCommitIntent
    DEF Next, Step, ObserveAll, ObserveDirty, PresentPaths

\* LogInv holds in every behaviour of execute_refresh, whatever the clients do.
THEOREM LogInvariant == Spec => []LogInv
  <1>1. Init => LogInv
    BY DEF Init, NoRun, LogInv, Idle, Observing
  <1>2. TypeOK /\ TypeOK' /\ LogInv /\ [Next]_vars => LogInv'
    BY LogStep
  <1> QED
    BY <1>1, <1>2, TypeCorrect, PTL DEF Spec

\* Records of the index change only under a durable intent that names their path:
\* commit_intent precedes publish_generation on every route to it.
THEOREM IndexIsWrittenAhead == Spec => WriteAhead
  <1> USE DEF disk, store, published, prepared, parsing, bounds
  <1>1. TypeOK /\ LogInv /\ [Next]_vars =>
          [pc # "reset_index" =>
             \A r \in (index \ index') \cup (index' \ index) :
                r.path \in pending.paths]_vars
    <2> SUFFICES ASSUME TypeOK, LogInv, Next, pc # "reset_index",
                        NEW r \in (index \ index') \cup (index' \ index)
                 PROVE  r.path \in pending.paths
      BY DEF vars
    <2>1. CASE PublishGeneration
      <3>1. r.path \in deletes \/ r \in staged
        BY <2>1 DEF PublishGeneration, NewGeneration
      <3>2. r \in staged => r.path \in TaskPaths
        BY DEF LogInv, TaskPaths, PathsWith, TypeOK, Record
      <3> QED
        BY <2>1, <3>1, <3>2 DEF PublishGeneration, LogInv
    <2>2. CASE ~PublishGeneration
      <3>1. index' = index
        BY <2>2 DEF Next, Environment, Reset, Step, FileAppend, FileReplace,
             FileDelete, FileHide, FileUnhide, FileRestore, Upgrade,
             ResetCheckpoint, ResetIndex, ResetVectors, ResetAnalytics,
             RecoverCheckpoint, RefuseCheckpoint, ObserveAll, ObserveDirty,
             Observe, Sweep, DecideRefresh, CommitIntent, PublishAnalytics,
             PublishVectors, BackfillClear, BackfillFlush, MarkComplete,
             CommitFinal, Parse, ParseSkip, ParseFail, Abort, EndRun, vars
      <3> QED
        BY <3>1
    <2> QED
      BY <2>1, <2>2
  <1> QED
    BY <1>1, TypeCorrect, LogInvariant, PTL DEF Spec, WriteAhead

\* What an intent says must be replayed is only ever dropped by commit_final of a
\* refresh that replayed it.
THEOREM IntentIsRetained == Spec => IntentRetained
  <1> USE DEF disk, store, published, prepared, parsing, bounds
  <1>1. TypeOK /\ LogInv /\ [Next]_vars =>
          [pending.set /\ pc \notin {"idle", "finalize"} =>
             /\ pending'.set
             /\ pending.paths \subseteq pending'.paths
             /\ pending.vdel \subseteq pending'.vdel
             /\ pending.next <= pending'.next]_vars
    <2> SUFFICES ASSUME TypeOK, LogInv, Next, pending.set,
                        pc \notin {"idle", "finalize"}
                 PROVE  /\ pending'.set
                        /\ pending.paths \subseteq pending'.paths
                        /\ pending.vdel \subseteq pending'.vdel
                        /\ pending.next <= pending'.next
      BY DEF vars
    <2>1. pending.next \in Nat /\ nextDoc \in Nat /\ next \in Nat
      BY DEF TypeOK, Intent
    <2>2. CASE CommitIntent
      <3>1. next >= pending.next
        BY <2>1, <2>2 DEF CommitIntent, LogInv, FirstFreeDoc, Larger
      <3> QED
        BY <2>1, <2>2, <3>1 DEF CommitIntent, LogInv, PendingIngest
    <2>3. CASE ~CommitIntent
      <3>1. pending' = pending
        BY <2>3 DEF Next, Environment, Reset, Step, FileAppend, FileReplace,
             FileDelete, FileHide, FileUnhide, FileRestore, Upgrade,
             ResetCheckpoint, ResetIndex, ResetVectors, ResetAnalytics,
             RecoverCheckpoint, RefuseCheckpoint, ObserveAll, ObserveDirty,
             Observe, Sweep, DecideRefresh, PublishAnalytics, PublishGeneration,
             PublishVectors, BackfillClear, BackfillFlush, MarkComplete,
             CommitFinal, Parse, ParseSkip, ParseFail, Abort, EndRun, vars
      <3> QED
        BY <2>1, <3>1
    <2> QED
      BY <2>2, <2>3
  <1> QED
    BY <1>1, TypeCorrect, LogInvariant, PTL DEF Spec, IntentRetained

-----------------------------------------------------------------------------
\* The part of the state LeaseInv and IdsInv read.
drawn == <<pc, authority, pending, nextDoc, next, index, staged>>

\* LeaseInv and IdsInv only depend on drawn.
LEMMA IdsFrame ==
    ASSUME LeaseInv, IdsInv, UNCHANGED drawn
    PROVE  LeaseInv' /\ IdsInv'
  BY DEF LeaseInv, IdsInv, drawn, FirstFreeDoc

\* A refresh that ended leaves the index and the checkpoint to the next one.
LEMMA IdsEndRun ==
    ASSUME TypeOK, LeaseInv, IdsInv, EndRun, authority' = authority,
           authority => \A r \in index : r.doc < FirstFreeDoc'
    PROVE  LeaseInv' /\ IdsInv'
  <1>1. pc' = "idle" /\ staged' = {} /\ index' = index
    BY DEF EndRun, published
  <1> QED
    BY <1>1 DEF LeaseInv, IdsInv, Idle

\* A parser numbers its records consecutively from the ids drawn so far.
LEMMA ParsedDocs ==
    ASSUME TypeOK, NEW p \in Paths,
           next' = Larger(next, next + (NumLines(ParseEnd(p)) - NumLines(ParseStart(p))))
    PROVE  /\ next' \in Nat /\ next <= next'
           /\ \A r \in ParsedRecords(p) : r.doc \in Nat /\ next <= r.doc /\ r.doc < next'
           /\ \A r, q \in ParsedRecords(p) : r.doc = q.doc => r = q
  <1> DEFINE lo == NumLines(ParseStart(p))
             hi == NumLines(ParseEnd(p))
  <1>1. lo \in Nat /\ hi \in Nat /\ lo <= hi /\ next \in Nat
    BY ParseTyped DEF TypeOK
  <1>2. next' = next + (hi - lo)
    BY <1>1 DEF Larger
  <1>3. ASSUME NEW r \in ParsedRecords(p)
        PROVE  /\ r.line \in lo..(hi - 1) /\ r.doc = next + (r.line - lo)
               /\ r = [path |-> p, gen |-> fs[p].gen, line |-> r.line, ver |-> version,
                       doc |-> next + (r.line - lo)]
    BY <1>3 DEF ParsedRecords, ParsedLines
  <1> HIDE DEF lo, hi
  <1>4. ASSUME NEW r \in ParsedRecords(p), NEW q \in ParsedRecords(p), r.doc = q.doc
        PROVE  r = q
    <2>1. r.line \in Int /\ q.line \in Int
      BY <1>1, <1>3
    <2>2. r.doc = next + (r.line - lo) /\ q.doc = next + (q.line - lo)
      BY <1>3
    <2>3. next + (r.line - lo) = next + (q.line - lo)
      BY <1>4, <2>2
    <2>4. \A a, b, n, l \in Int : n + (a - l) = n + (b - l) => a = b
      OBVIOUS
    <2>5. r.line = q.line
      BY <1>1, <2>1, <2>3, <2>4
    <2> QED
      BY <1>3, <2>5
  <1> QED
    BY <1>1, <1>2, <1>3, <1>4

\* Parsers never draw an id that is in the index or was drawn before.
LEMMA IdsParse ==
    ASSUME TypeOK, TypeOK', LeaseInv, IdsInv, NEW p \in Paths, Parse(p)
    PROVE  LeaseInv' /\ IdsInv'
  <1> USE DEF disk, store, published, prepared, bounds
  <1>1. /\ pc = "parse" /\ staged' = staged \cup ParsedRecords(p)
        /\ next' = Larger(next, next + (NumLines(ParseEnd(p)) - NumLines(ParseStart(p))))
        /\ UNCHANGED <<pc, authority, pending, nextDoc, index>>
    BY DEF Parse
  <1>2. /\ next' \in Nat /\ next <= next'
        /\ \A r \in ParsedRecords(p) : r.doc \in Nat /\ next <= r.doc /\ r.doc < next'
        /\ \A r, q \in ParsedRecords(p) : r.doc = q.doc => r = q
    BY <1>1, ParsedDocs
  <1>3. /\ \A r \in index : r.doc \in Nat /\ r.doc < next
        /\ \A s \in staged : s.doc \in Nat /\ s.doc < next /\ \A r \in index : r.doc < s.doc
        /\ \A r, q \in staged : r.doc = q.doc => r = q
        /\ next \in Nat
    BY <1>1 DEF IdsInv, Idle, TypeOK, Record
  <1>4. \A r \in index : r.doc < next'
    BY <1>2, <1>3
  <1>5. \A s \in staged' : s.doc < next' /\ \A r \in index : r.doc < s.doc
    <2>1. \A s \in staged : s.doc < next' /\ \A r \in index : r.doc < s.doc
      BY <1>2, <1>3
    <2>2. \A s \in ParsedRecords(p) : s.doc < next' /\ \A r \in index : r.doc < s.doc
      BY <1>2, <1>3
    <2> QED
      BY <1>1, <2>1, <2>2
  <1>6. \A r, q \in staged' : r.doc = q.doc => r = q
    <2>1. ASSUME NEW r \in staged, NEW q \in ParsedRecords(p) PROVE r.doc # q.doc
      <3>1. r.doc < next /\ next <= q.doc /\ r.doc \in Nat /\ q.doc \in Nat
        BY <1>2, <1>3
      <3> QED
        BY <1>3, <3>1
    <2> QED
      BY <1>1, <1>2, <1>3, <2>1
  <1>7. LeaseInv'
    BY <1>1 DEF LeaseInv
  <1>8. FirstFreeDoc' = FirstFreeDoc
    BY <1>1 DEF FirstFreeDoc
  <1> QED
    BY <1>1, <1>4, <1>5, <1>6, <1>7, <1>8 DEF IdsInv, Idle

\* A refresh announces the ids it drew before it publishes them.
LEMMA IdsCommitIntent ==
    ASSUME TypeOK, TypeOK', LogInv, LeaseInv, IdsInv, CommitIntent
    PROVE  LeaseInv' /\ IdsInv'
  <1> USE DEF disk, store, published, prepared, parsing, bounds
  <1>1. /\ pc = "parse" /\ authority
        /\ pending' = IF NeedsPublication THEN PendingIngest ELSE pending
        /\ UNCHANGED <<authority, nextDoc, index>>
    BY DEF CommitIntent, EndRun, LeaseInv, Idle
  <1>2. \A r \in index : r.doc \in Nat /\ r.doc < FirstFreeDoc /\ r.doc < next
    BY <1>1 DEF IdsInv, Idle, TypeOK, Record
  <1>3. \A r \in index : r.doc < FirstFreeDoc'
    <2>1. CASE NeedsPublication
      <3>1. pending'.next = next /\ next \in Nat /\ nextDoc \in Nat
        BY <1>1, <2>1 DEF PendingIngest, TypeOK
      <3> QED
        BY <1>1, <1>2, <3>1 DEF FirstFreeDoc, Larger
    <2>2. CASE ~NeedsPublication
      BY <1>1, <1>2, <2>2 DEF FirstFreeDoc
    <2> QED
      BY <2>1, <2>2
  <1>4. CASE failed
    <2>1. EndRun
      BY <1>4 DEF CommitIntent
    <2> QED
      BY <1>1, <1>3, <2>1, IdsEndRun
  <1>5. CASE ~failed
    <2>1. /\ pc' \in {"backfill", "mark_complete", "analytics"}
          /\ pc' = "analytics" => ~CheckpointsOnly
          /\ UNCHANGED <<staged, next>>
      BY <1>5 DEF CommitIntent
    <2>2. pc' = "analytics" => pending'.set /\ pending'.next = next
      BY <1>1, <2>1, PublicationNeedsIntent DEF PendingIngest
    <2>3. LeaseInv'
      BY <1>1, <2>1 DEF LeaseInv, Idle
    <2> QED
      BY <1>1, <1>2, <1>3, <2>1, <2>2, <2>3 DEF IdsInv, Idle
  <1> QED
    BY <1>4, <1>5

\* The new generation holds ids below the announced one, each of one record.
LEMMA IdsPublish ==
    ASSUME TypeOK, TypeOK', LeaseInv, IdsInv, PublishGeneration
    PROVE  LeaseInv' /\ IdsInv'
  <1> USE DEF disk, store, prepared, bounds
  <1>1. /\ pc = "lexical" /\ pc' \in {"vectors", "backfill", "mark_complete"}
        /\ index' = NewGeneration /\ index' \subseteq index \cup staged
        /\ UNCHANGED <<authority, pending, nextDoc, next, staged>>
    BY DEF PublishGeneration, NewGeneration
  <1>2. authority /\ pending.set /\ pending.next = next
    BY <1>1 DEF LeaseInv, IdsInv, Idle
  <1>3. /\ \A r \in index : r.doc \in Nat /\ r.doc < next
        /\ \A s \in staged : s.doc \in Nat /\ s.doc < next /\ \A r \in index : r.doc < s.doc
        /\ next \in Nat /\ nextDoc \in Nat
    BY <1>1 DEF IdsInv, Idle, TypeOK, Record
  <1>4. \A r, q \in index' : r.doc = q.doc => r = q
    <2>1. ASSUME NEW r \in index, NEW q \in staged PROVE r.doc # q.doc
      BY <1>3
    <2> QED
      BY <1>1, <2>1 DEF IdsInv
  <1>5. \A r \in index' : r.doc < next'
    BY <1>1, <1>3
  <1>6. \A r \in index' : r.doc < FirstFreeDoc'
    <2>1. next <= FirstFreeDoc' /\ FirstFreeDoc' \in Nat
      BY <1>1, <1>2, <1>3 DEF FirstFreeDoc, Larger
    <2> QED
      BY <1>1, <1>3, <2>1
  <1>7. LeaseInv'
    BY <1>1, <1>2 DEF LeaseInv, Idle
  <1> QED
    BY <1>1, <1>2, <1>4, <1>5, <1>6, <1>7 DEF IdsInv, Idle

\* Every step keeps the lease and the ids in order.
LEMMA IdsStep ==
    ASSUME TypeOK, TypeOK', LogInv, LeaseInv, IdsInv, [Next]_vars
    PROVE  LeaseInv' /\ IdsInv'
  <1> USE DEF disk, store, published, prepared, parsing, bounds
  <1>1. CASE Environment \/ RefuseCheckpoint \/ UNCHANGED vars
    <2>1. UNCHANGED drawn
      BY <1>1 DEF Environment, FileAppend, FileReplace, FileDelete, FileHide,
                  FileUnhide, FileRestore, Upgrade, RefuseCheckpoint, vars, drawn
    <2> QED
      BY <2>1, IdsFrame
  <1>2. CASE Reset
    <2>1. /\ pc \in Idle /\ pc' \in Idle \ {"idle"} /\ ~authority'
          /\ index' \in {index, {}} /\ staged' = staged
      BY <1>2 DEF Reset, ResetCheckpoint, ResetIndex, ResetVectors, ResetAnalytics,
                  Idle, LeaseInv
    <2> QED
      BY <2>1 DEF LeaseInv, IdsInv, Idle
  <1>3. ASSUME NEW o \in BOOLEAN, RecoverCheckpoint(o) PROVE LeaseInv' /\ IdsInv'
    <2>1. /\ authority' /\ pc' = "observe" /\ next' = FirstFreeDoc
          /\ authority \/ index = {}
          /\ UNCHANGED <<pending, nextDoc, index, staged>>
      BY <1>3 DEF RecoverCheckpoint
    <2>2. \A r \in index : r.doc < FirstFreeDoc
      BY <2>1 DEF IdsInv
    <2>3. FirstFreeDoc' = FirstFreeDoc
      BY <2>1 DEF FirstFreeDoc
    <2> QED
      BY <2>1, <2>2, <2>3 DEF LeaseInv, IdsInv, Idle
  <1>4. ASSUME NEW selected \in SUBSET Paths, Observe(selected) PROVE LeaseInv' /\ IdsInv'
    BY <1>4 DEF Observe, LeaseInv, IdsInv, Idle, FirstFreeDoc
  <1>5. CASE Sweep
    BY <1>5 DEF Sweep, LeaseInv, IdsInv, Idle, FirstFreeDoc
  <1>6. CASE DecideRefresh
    <2>1. /\ pc = "decide" /\ pc' \in {"parse", "backfill", "finalize"} /\ staged = {}
          /\ UNCHANGED <<authority, pending, nextDoc, next, index, staged>>
      BY <1>6 DEF DecideRefresh, LogInv
    <2> QED
      BY <2>1 DEF LeaseInv, IdsInv, Idle, FirstFreeDoc
  <1>7. ASSUME NEW p \in Paths, ParseSkip(p) \/ ParseFail(p) PROVE LeaseInv' /\ IdsInv'
    <2>1. /\ pc = "parse" /\ next' \in Nat /\ next <= next' /\ next \in Nat
          /\ UNCHANGED <<pc, authority, pending, nextDoc, index, staged>>
      BY <1>7 DEF ParseSkip, ParseFail, TypeOK
    <2>2. /\ \A r \in index : r.doc \in Nat /\ r.doc < next
          /\ \A s \in staged : s.doc \in Nat /\ s.doc < next
      BY <2>1 DEF IdsInv, Idle, TypeOK, Record
    <2>3. (\A r \in index : r.doc < next') /\ \A s \in staged : s.doc < next'
      BY <2>1, <2>2
    <2> QED
      BY <2>1, <2>3 DEF LeaseInv, IdsInv, Idle, FirstFreeDoc
  <1>8. CASE PublishAnalytics \/ PublishVectors \/ BackfillClear \/ BackfillFlush
             \/ MarkComplete
    <2>1. /\ pc \in {"analytics", "vectors", "backfill", "backfill_flush", "mark_complete"}
          /\ pc' \in {"lexical", "backfill", "backfill_flush", "mark_complete", "finalize"}
          /\ pc' = "lexical" => pc = "analytics"
          /\ UNCHANGED <<authority, pending, nextDoc, next, index, staged>>
      BY <1>8 DEF PublishAnalytics, PublishVectors, BackfillClear, BackfillFlush,
                  MarkComplete
    <2> QED
      BY <2>1 DEF LeaseInv, IdsInv, Idle, FirstFreeDoc
  <1>9. CASE CommitFinal
    <2>1. /\ pc = "finalize" /\ EndRun /\ authority' = authority
          /\ nextDoc' = next /\ pending' = NoIntent
      BY <1>9 DEF CommitFinal
    <2>2. FirstFreeDoc' = next
      BY <2>1 DEF FirstFreeDoc, Larger, NoIntent, TypeOK
    <2>3. \A r \in index : r.doc < FirstFreeDoc'
      BY <2>1, <2>2 DEF IdsInv, Idle
    <2> QED
      BY <2>1, <2>3, IdsEndRun
  <1>10. CASE Abort
    <2>1. EndRun /\ UNCHANGED <<authority, pending, nextDoc>>
      BY <1>10 DEF Abort
    <2>2. FirstFreeDoc' = FirstFreeDoc
      BY <2>1 DEF FirstFreeDoc
    <2> QED
      BY <2>1, <2>2, IdsEndRun DEF IdsInv
  <1> QED
    BY <1>1, <1>2, <1>3, <1>4, <1>5, <1>6, <1>7, <1>8, <1>9, <1>10, IdsParse,
       IdsCommitIntent, IdsPublish
    DEF Next, Step, ObserveAll, ObserveDirty, PresentPaths

\* Ids are drawn upwards in every behaviour, whoever crashes or resets.
THEOREM IdsInvariant == Spec => [](LeaseInv /\ IdsInv)
  <1>1. Init => LeaseInv /\ IdsInv
    BY DEF Init, NoRun, LeaseInv, IdsInv, Idle
  <1>2. TypeOK /\ TypeOK' /\ LogInv /\ LeaseInv /\ IdsInv /\ [Next]_vars
          => LeaseInv' /\ IdsInv'
    BY IdsStep
  <1> QED
    BY <1>1, <1>2, TypeCorrect, LogInvariant, PTL DEF Spec

-----------------------------------------------------------------------------
\* The part of the state CountInv reads.
counted == <<pc, authority, complete, pending, index, counts, backfill, staged, deletes>>

\* CountInv only depends on counted.
LEMMA CountFrame ==
    ASSUME CountInv, UNCHANGED counted
    PROVE  CountInv'
  BY DEF CountInv, Counted, counted, NewGeneration, Of

\* An empty index has nothing to count.
LEMMA NothingToCount ==
    ASSUME index = {}, \A p \in Paths : counts[p] = 0
    PROVE  Counted
  <1>1. \A p \in Paths : Of(index, p) = {}
    BY DEF Of
  <1> QED
    BY <1>1, FS_EmptySet DEF Counted

\* When needs_backfill says no, the catalogue counts what is indexed.
LEMMA TrustedCounts ==
    ASSUME TypeOK, LeaseInv, CountInv, pc = "decide", ~NeedsBackfill
    PROVE  Counted
  <1>1. CASE index = {}
    <2>1. \A p \in Paths : counts[p] = 0
      BY <1>1 DEF NeedsBackfill, TypeOK
    <2> QED
      BY <1>1, <2>1, NothingToCount
  <1>2. CASE index # {}
    BY <1>2 DEF NeedsBackfill, Recovering, LeaseInv, Idle, CountInv
  <1> QED
    BY <1>1, <1>2

\* What publish_generation is about to add is not indexed yet, so the counts
\* add up.
LEMMA CountsAddUp ==
    ASSUME TypeOK, IdsInv, pc = "analytics", NEW p \in Paths
    PROVE  Cardinality(Of(NewGeneration, p)) =
             (IF p \in deletes THEN 0 ELSE Cardinality(Of(index, p)))
             + Cardinality(Of(staged, p))
  <1> DEFINE old == IF p \in deletes THEN {} ELSE Of(index, p)
             new == Of(staged, p)
  <1>1. Of(NewGeneration, p) = old \cup new
    BY DEF NewGeneration, Of
  <1>2. old \subseteq index /\ new \subseteq staged /\ IsFiniteSet(index) /\ IsFiniteSet(staged)
    BY DEF Of, TypeOK
  <1>3. IsFiniteSet(old) /\ IsFiniteSet(new)
    BY <1>2, FS_Subset
  <1>4. old \cap new = {}
    <2>1. ASSUME NEW r \in index, NEW s \in staged PROVE r # s
      <3>1. r.doc < s.doc /\ r.doc \in Nat /\ s.doc \in Nat
        BY DEF IdsInv, TypeOK, Record
      <3> QED
        BY <3>1
    <2> QED
      BY <1>2, <2>1
  <1>5. Cardinality(old) = IF p \in deletes THEN 0 ELSE Cardinality(Of(index, p))
    BY FS_EmptySet
  <1> HIDE DEF old, new
  <1>6. Cardinality(old) \in Nat /\ Cardinality(new) \in Nat
    BY <1>3, FS_CardinalityType
  <1>7. Cardinality(old \cup new) =
          Cardinality(old) + Cardinality(new) - Cardinality(old \cap new)
    BY <1>3, FS_Union
  <1>8. Cardinality(old \cup new) = Cardinality(old) + Cardinality(new)
    BY <1>4, <1>6, <1>7, FS_EmptySet
  <1> QED
    BY <1>1, <1>5, <1>8 DEF new


\* Every step keeps CountInv.
LEMMA CountStep ==
    ASSUME TypeOK, TypeOK', LogInv, LeaseInv, IdsInv, CountInv, [Next]_vars
    PROVE  CountInv'
  <1> USE DEF disk, store, published, prepared, parsing, bounds
  <1>1. CASE Environment \/ RefuseCheckpoint \/ UNCHANGED vars
    <2>1. UNCHANGED counted
      BY <1>1 DEF Environment, FileAppend, FileReplace, FileDelete, FileHide,
                  FileUnhide, FileRestore, Upgrade, RefuseCheckpoint, vars, counted
    <2> QED
      BY <2>1, CountFrame
  <1>2. CASE Reset
    <2>1. pc' \in Idle /\ ~authority'
      BY <1>2 DEF Reset, ResetCheckpoint, ResetIndex, ResetVectors, ResetAnalytics,
                  Idle, LeaseInv
    <2> QED
      BY <2>1 DEF CountInv, Idle
  <1>3. ASSUME NEW o \in BOOLEAN, RecoverCheckpoint(o) PROVE CountInv'
    BY <1>3 DEF RecoverCheckpoint, CountInv, Counted
  <1>4. ASSUME NEW selected \in SUBSET Paths, Observe(selected) PROVE CountInv'
    BY <1>4 DEF Observe, CountInv, Counted
  <1>5. CASE Sweep
    BY <1>5 DEF Sweep, CountInv, Counted
  <1>6. CASE DecideRefresh
    <2>1. /\ pc = "decide" /\ pc' \in {"parse", "backfill", "finalize"}
          /\ backfill' = NeedsBackfill /\ complete' = (complete /\ ~NeedsBackfill)
          /\ pc' = "backfill" => NeedsBackfill
          /\ pc' = "finalize" => ~NeedsBackfill
          /\ UNCHANGED <<authority, pending, index, counts>>
      BY <1>6 DEF DecideRefresh
    <2>2. ~NeedsBackfill => Counted
      BY <2>1, TrustedCounts
    <2>3. Counted <=> Counted'
      BY <2>1 DEF Counted
    <2> QED
      BY <2>1, <2>2, <2>3 DEF CountInv
  <1>7. ASSUME NEW p \in Paths, Parse(p) \/ ParseSkip(p) \/ ParseFail(p) PROVE CountInv'
    BY <1>7 DEF Parse, ParseSkip, ParseFail, CountInv, Counted
  <1>8. CASE CommitIntent
    <2>1. /\ pc = "parse" /\ (pending.set => pending'.set)
          /\ UNCHANGED <<authority, index, counts, complete>>
      BY <1>8 DEF CommitIntent, EndRun, PendingIngest
    <2>2. CASE failed
      <3>1. pc' = "idle"
        BY <1>8, <2>2 DEF CommitIntent, EndRun
      <3> QED
        BY <2>1, <3>1 DEF CountInv, Counted
    <2>3. CASE ~failed
      <3>1. /\ pc' \in {"backfill", "mark_complete", "analytics"}
            /\ pc' = "backfill" => backfill
            /\ pc' = "mark_complete" => ~backfill
            /\ UNCHANGED backfill
        BY <1>8, <2>3 DEF CommitIntent
      <3> QED
        BY <2>1, <3>1 DEF CountInv, Counted
    <2> QED
      BY <2>2, <2>3
  <1>9. CASE PublishAnalytics
    <2>1. /\ pc = "analytics" /\ pc' = "lexical" /\ pending.set
          /\ counts' = [p \in Paths |-> (IF p \in deletes THEN 0 ELSE counts[p])
                                        + Cardinality(Of(staged, p))]
          /\ UNCHANGED <<authority, pending, index, complete, backfill, staged, deletes>>
      BY <1>9 DEF PublishAnalytics, IdsInv
    <2>2. ~backfill => \A p \in Paths : counts'[p] = Cardinality(Of(NewGeneration, p))
      BY <2>1, CountsAddUp DEF CountInv, Counted
    <2>3. NewGeneration' = NewGeneration
      BY <2>1 DEF NewGeneration
    <2>4. ~backfill' => \A p \in Paths : counts'[p] = Cardinality(Of(NewGeneration', p))
      BY <2>1, <2>2, <2>3
    <2>5. backfill' => ~complete'
      BY <2>1 DEF CountInv
    <2> QED
      BY <2>1, <2>4, <2>5 DEF CountInv, Of
  <1>10. CASE PublishGeneration
    <2>1. /\ pc = "lexical" /\ pc' \in {"vectors", "backfill", "mark_complete"}
          /\ pc' = "backfill" => backfill
          /\ pc' = "mark_complete" => ~backfill
          /\ index' = NewGeneration /\ pending.set
          /\ UNCHANGED <<authority, pending, counts, complete, backfill>>
      BY <1>10 DEF PublishGeneration, IdsInv
    <2>2. ~backfill => Counted'
      BY <2>1 DEF CountInv, Counted
    <2>3. backfill => ~complete
      BY <2>1 DEF CountInv
    <2> QED
      BY <2>1, <2>2, <2>3 DEF CountInv
  <1>11. CASE PublishVectors
    BY <1>11 DEF PublishVectors, CountInv, Counted
  <1>12. CASE BackfillClear
    BY <1>12 DEF BackfillClear, CountInv
  <1>13. CASE BackfillFlush
    <2>1. /\ pc = "backfill_flush" /\ pc' = "mark_complete" /\ ~complete'
          /\ counts' = [p \in Paths |-> counts[p] + Cardinality(Of(index, p))]
          /\ \A p \in Paths : counts[p] = 0
          /\ index' = index
      BY <1>13 DEF BackfillFlush, CountInv
    <2>2. \A p \in Paths : Cardinality(Of(index, p)) \in Nat
      BY OfFinite DEF TypeOK
    <2>3. Counted'
      BY <2>1, <2>2 DEF Counted
    <2> QED
      BY <2>1, <2>3 DEF CountInv
  <1>14. CASE MarkComplete
    BY <1>14 DEF MarkComplete, CountInv, Counted
  <1>15. CASE CommitFinal
    <2>1. pc = "finalize" /\ EndRun
      BY <1>15 DEF CommitFinal
    <2>2. pc' = "idle" /\ UNCHANGED <<index, counts, complete>> /\ Counted
      BY <2>1 DEF EndRun, CountInv
    <2> QED
      BY <2>2 DEF CountInv, Counted
  <1>16. CASE Abort
    <2>1. pc' = "idle" /\ UNCHANGED <<authority, pending, index, counts, complete>>
      BY <1>16 DEF Abort, EndRun
    <2> QED
      BY <2>1 DEF CountInv, Counted
  <1> QED
    BY <1>1, <1>2, <1>3, <1>4, <1>5, <1>6, <1>7, <1>8, <1>9, <1>10, <1>11, <1>12,
       <1>13, <1>14, <1>15, <1>16
    DEF Next, Step, ObserveAll, ObserveDirty, PresentPaths

\* A catalogue that claims to be complete counts what is indexed.
THEOREM AnalyticsAlwaysAgree == Spec => []AnalyticsAgree
  <1>1. Init => CountInv
    BY DEF Init, NoRun, CountInv
  <1>2. TypeOK /\ TypeOK' /\ LogInv /\ LeaseInv /\ IdsInv /\ CountInv /\ [Next]_vars
          => CountInv'
    BY CountStep
  <1>3. CountInv => AnalyticsAgree
    BY DEF CountInv, Counted, AnalyticsAgree
  <1> QED
    BY <1>1, <1>2, <1>3, TypeCorrect, LogInvariant, IdsInvariant, PTL DEF Spec

-----------------------------------------------------------------------------
\* The part of the state VectorIdsInv reads.
named == <<pc, authority, pending, nextDoc, next, index, staged, vectors, vstaged>>

\* VectorIdsInv only depends on named.
LEMMA NamedFrame ==
    ASSUME VectorIdsInv, UNCHANGED named
    PROVE  VectorIdsInv'
  BY DEF VectorIdsInv, DocIdsName, named, FirstFreeDoc

\* A refresh that ended leaves the vectors to the next one.
LEMMA NamedEndRun ==
    ASSUME VectorIdsInv, LeaseInv, pc \notin Idle \/ pc = "idle", EndRun,
           authority' = authority,
           authority => \A v \in vectors : v.doc < FirstFreeDoc'
    PROVE  VectorIdsInv'
  <1>1. pc' = "idle" /\ staged' = {} /\ UNCHANGED <<index, vectors>>
    BY DEF EndRun, published
  <1> QED
    BY <1>1 DEF VectorIdsInv, DocIdsName, Idle

\* Parsers never draw an id that a vector has.
LEMMA NamedParse ==
    ASSUME TypeOK, TypeOK', LeaseInv, IdsInv, VectorIdsInv, NEW p \in Paths, Parse(p)
    PROVE  VectorIdsInv'
  <1> USE DEF disk, store, published, prepared, bounds
  <1>1. /\ pc = "parse" /\ authority /\ staged' = staged \cup ParsedRecords(p)
        /\ next' = Larger(next, next + (NumLines(ParseEnd(p)) - NumLines(ParseStart(p))))
        /\ UNCHANGED <<pc, authority, pending, nextDoc, index, vectors>>
    BY DEF Parse, LeaseInv, Idle
  <1>2. /\ next' \in Nat /\ next <= next'
        /\ \A r \in ParsedRecords(p) : r.doc \in Nat /\ next <= r.doc /\ r.doc < next'
    BY <1>1, ParsedDocs
  <1>3. /\ \A v \in vectors : v.doc \in Nat /\ v.doc < next
        /\ \A s \in staged : \A v \in vectors : v.doc < s.doc
        /\ next \in Nat
    BY <1>1 DEF VectorIdsInv, Idle, TypeOK, Record
  <1>4. \A v \in vectors : v.doc < next'
    BY <1>2, <1>3
  <1>5. \A s \in staged', v \in vectors : v.doc < s.doc
    BY <1>1, <1>2, <1>3
  <1>6. FirstFreeDoc' = FirstFreeDoc
    BY <1>1 DEF FirstFreeDoc
  <1> QED
    BY <1>1, <1>4, <1>5, <1>6 DEF VectorIdsInv, DocIdsName, Idle

\* The ids of the vectors stay below the one the intent announces.
LEMMA NamedCommitIntent ==
    ASSUME TypeOK, TypeOK', LeaseInv, VectorIdsInv, CommitIntent
    PROVE  VectorIdsInv'
  <1> USE DEF disk, store, published, prepared, parsing, bounds
  <1>1. /\ pc = "parse" /\ authority
        /\ pending' = IF NeedsPublication THEN PendingIngest ELSE pending
        /\ UNCHANGED <<authority, nextDoc, index, vectors>>
    BY DEF CommitIntent, EndRun, LeaseInv, Idle
  <1>2. \A v \in vectors : v.doc \in Nat /\ v.doc < FirstFreeDoc /\ v.doc < next
    BY <1>1 DEF VectorIdsInv, Idle, TypeOK, Record
  <1>3. \A v \in vectors : v.doc < FirstFreeDoc'
    <2>1. CASE NeedsPublication
      <3>1. pending'.next = next /\ next \in Nat /\ nextDoc \in Nat
        BY <1>1, <2>1 DEF PendingIngest, TypeOK
      <3> QED
        BY <1>1, <1>2, <3>1 DEF FirstFreeDoc, Larger
    <2>2. CASE ~NeedsPublication
      BY <1>1, <1>2, <2>2 DEF FirstFreeDoc
    <2> QED
      BY <2>1, <2>2
  <1>4. CASE failed
    <2>1. EndRun
      BY <1>4 DEF CommitIntent
    <2> QED
      BY <1>1, <1>3, <2>1, NamedEndRun DEF Idle
  <1>5. CASE ~failed
    <2>1. /\ pc' \in {"backfill", "mark_complete", "analytics"}
          /\ UNCHANGED <<staged, next>>
      BY <1>5 DEF CommitIntent
    <2> QED
      BY <1>1, <1>2, <1>3, <2>1 DEF VectorIdsInv, DocIdsName, Idle
  <1> QED
    BY <1>4, <1>5

\* Publishing the generation gives no id of a vector to another record.
LEMMA NamedPublish ==
    ASSUME TypeOK, TypeOK', LeaseInv, IdsInv, VectorIdsInv, PublishGeneration
    PROVE  VectorIdsInv'
  <1> USE DEF disk, store, prepared, bounds
  <1>1. /\ pc = "lexical" /\ pc' \in {"vectors", "backfill", "mark_complete"}
        /\ index' = NewGeneration /\ index' \subseteq index \cup staged
        /\ vstaged' = NewVectors /\ authority
        /\ UNCHANGED <<authority, pending, nextDoc, next, staged, vectors>>
    BY DEF PublishGeneration, NewGeneration, LeaseInv, Idle
  <1>2. vstaged' \subseteq vectors \cup index'
    BY <1>1 DEF NewVectors, BackfillEmbeddings
  <1>3. ASSUME NEW s \in staged, NEW r \in index \cup vectors PROVE r.doc # s.doc
    <2>1. r.doc < s.doc /\ r.doc \in Nat /\ s.doc \in Nat
      BY <1>1 DEF IdsInv, VectorIdsInv, TypeOK, Record
    <2> QED
      BY <2>1
  <1>4. \A r, q \in staged : r.doc = q.doc => r = q
    BY DEF IdsInv
  <1>5. DocIdsName'
    BY <1>1, <1>3, <1>4 DEF VectorIdsInv, DocIdsName
  <1>6. FirstFreeDoc' = FirstFreeDoc
    BY <1>1 DEF FirstFreeDoc
  <1>7. \A v \in vectors : v.doc < next /\ v.doc < FirstFreeDoc
    BY <1>1 DEF VectorIdsInv, Idle
  <1> QED
    BY <1>1, <1>2, <1>5, <1>6, <1>7 DEF VectorIdsInv

\* Every step keeps ids unambiguous as long as the checkpoint, and with it the
\* next free id, is never deleted.
LEMMA NamedStep ==
    ASSUME TypeOK, TypeOK', LogInv, LeaseInv, IdsInv, VectorIdsInv, MaxResets = 0,
           [Next]_vars
    PROVE  VectorIdsInv'
  <1> USE DEF disk, store, published, prepared, parsing, bounds
  <1>1. CASE Environment \/ RefuseCheckpoint \/ UNCHANGED vars
    <2>1. UNCHANGED named
      BY <1>1 DEF Environment, FileAppend, FileReplace, FileDelete, FileHide,
                  FileUnhide, FileRestore, Upgrade, RefuseCheckpoint, vars, named
    <2> QED
      BY <2>1, NamedFrame
  <1>2. CASE Reset
    <2>1. ~ResetCheckpoint
      BY DEF ResetCheckpoint, TypeOK
    <2>2. pc \in Idle \ {"idle"}
      BY <1>2, <2>1 DEF Reset, ResetIndex, ResetVectors, ResetAnalytics, Idle
    <2> QED
      BY <2>2 DEF LeaseInv, VectorIdsInv
  <1>3. ASSUME NEW o \in BOOLEAN, RecoverCheckpoint(o) PROVE VectorIdsInv'
    <2>1. /\ authority' /\ pc' = "observe" /\ next' = FirstFreeDoc
          /\ vectors' \subseteq vectors
          /\ UNCHANGED <<pending, nextDoc, index, staged>>
      BY <1>3 DEF RecoverCheckpoint
    <2>2. \A v \in vectors' : v.doc < FirstFreeDoc
      BY <2>1 DEF VectorIdsInv
    <2>3. FirstFreeDoc' = FirstFreeDoc
      BY <2>1 DEF FirstFreeDoc
    <2>4. DocIdsName'
      BY <2>1 DEF VectorIdsInv, DocIdsName
    <2> QED
      BY <2>1, <2>2, <2>3, <2>4 DEF VectorIdsInv, Idle
  <1>4. ASSUME NEW selected \in SUBSET Paths, Observe(selected) PROVE VectorIdsInv'
    BY <1>4 DEF Observe, LeaseInv, VectorIdsInv, DocIdsName, Idle, FirstFreeDoc
  <1>5. CASE Sweep
    BY <1>5 DEF Sweep, LeaseInv, VectorIdsInv, DocIdsName, Idle, FirstFreeDoc
  <1>6. CASE DecideRefresh
    <2>1. /\ pc = "decide" /\ pc' \in {"parse", "backfill", "finalize"} /\ staged = {}
          /\ authority
          /\ UNCHANGED <<authority, pending, nextDoc, next, index, vectors, staged>>
      BY <1>6 DEF DecideRefresh, LogInv, LeaseInv, Idle
    <2> QED
      BY <2>1 DEF VectorIdsInv, DocIdsName, Idle, FirstFreeDoc
  <1>7. ASSUME NEW p \in Paths, ParseSkip(p) \/ ParseFail(p) PROVE VectorIdsInv'
    <2>1. /\ pc = "parse" /\ next' \in Nat /\ next <= next' /\ next \in Nat
          /\ authority
          /\ UNCHANGED <<pc, authority, pending, nextDoc, index, vectors, staged>>
      BY <1>7 DEF ParseSkip, ParseFail, TypeOK, LeaseInv, Idle
    <2>2. \A v \in vectors : v.doc \in Nat /\ v.doc < next
      BY <2>1 DEF VectorIdsInv, Idle, TypeOK, Record
    <2>3. \A v \in vectors : v.doc < next'
      BY <2>1, <2>2
    <2> QED
      BY <2>1, <2>3 DEF VectorIdsInv, DocIdsName, Idle, FirstFreeDoc
  <1>8. CASE PublishVectors
    <2>1. /\ pc = "vectors" /\ pc' \in {"backfill", "mark_complete"} /\ authority
          /\ vectors' = vstaged /\ vstaged \subseteq vectors \cup index
          /\ UNCHANGED <<authority, pending, nextDoc, next, index, staged>>
      BY <1>8 DEF PublishVectors, VectorIdsInv, LeaseInv, Idle
    <2>2. \A v \in vectors \cup index : v.doc < next /\ v.doc < FirstFreeDoc
      BY <2>1 DEF VectorIdsInv, IdsInv, Idle
    <2>3. DocIdsName'
      BY <2>1 DEF VectorIdsInv, DocIdsName
    <2>4. FirstFreeDoc' = FirstFreeDoc
      BY <2>1 DEF FirstFreeDoc
    <2> QED
      BY <2>1, <2>2, <2>3, <2>4 DEF VectorIdsInv
  <1>9. CASE PublishAnalytics \/ BackfillClear \/ BackfillFlush \/ MarkComplete
    <2>1. /\ pc \in {"analytics", "backfill", "backfill_flush", "mark_complete"}
          /\ pc' \in {"lexical", "backfill_flush", "mark_complete", "finalize"}
          /\ pc' = "lexical" => pc = "analytics"
          /\ authority
          /\ UNCHANGED <<authority, pending, nextDoc, next, index, vectors, staged>>
      BY <1>9 DEF PublishAnalytics, BackfillClear, BackfillFlush, MarkComplete,
                  LeaseInv, Idle
    <2> QED
      BY <2>1 DEF VectorIdsInv, DocIdsName, Idle, FirstFreeDoc
  <1>10. CASE CommitFinal
    <2>1. /\ pc = "finalize" /\ EndRun /\ authority' = authority
          /\ nextDoc' = next /\ pending' = NoIntent
      BY <1>10 DEF CommitFinal
    <2>2. FirstFreeDoc' = next
      BY <2>1 DEF FirstFreeDoc, Larger, NoIntent, TypeOK
    <2>3. \A v \in vectors : v.doc < FirstFreeDoc'
      BY <2>1, <2>2 DEF VectorIdsInv, Idle
    <2> QED
      BY <2>1, <2>3, NamedEndRun DEF Idle
  <1>11. CASE Abort
    <2>1. EndRun /\ UNCHANGED <<authority, pending, nextDoc>>
      BY <1>11 DEF Abort
    <2>2. FirstFreeDoc' = FirstFreeDoc
      BY <2>1 DEF FirstFreeDoc
    <2>3. pc \notin Idle \/ pc = "idle"
      BY DEF VectorIdsInv, LeaseInv, Idle
    <2> QED
      BY <2>1, <2>2, <2>3, NamedEndRun DEF VectorIdsInv
  <1> QED
    BY <1>1, <1>2, <1>3, <1>4, <1>5, <1>6, <1>7, <1>8, <1>9, <1>10, <1>11, NamedParse,
       NamedCommitIntent, NamedPublish
    DEF Next, Step, ObserveAll, ObserveDirty, PresentPaths

\* A document id names one record, in the index and among the vectors, as long
\* as nobody asks for `index --rebuild`.
THEOREM DocIdsAlwaysName == MaxResets = 0 /\ Spec => []DocIdsName
  <1> SUFFICES ASSUME MaxResets = 0 PROVE Spec => []DocIdsName
    OBVIOUS
  <1>1. Init => VectorIdsInv
    BY DEF Init, NoRun, VectorIdsInv, DocIdsName, Idle
  <1>2. TypeOK /\ TypeOK' /\ LogInv /\ LeaseInv /\ IdsInv /\ VectorIdsInv /\ [Next]_vars
          => VectorIdsInv'
    BY NamedStep
  <1>3. VectorIdsInv => DocIdsName
    BY DEF VectorIdsInv
  <1> QED
    BY <1>1, <1>2, <1>3, TypeCorrect, LogInvariant, IdsInvariant, PTL DEF Spec

-----------------------------------------------------------------------------
\* The part of the state EmbedInv reads.
embedding == <<pc, pending, vstore, tasks, opt, full, embed, migrate, index, vectors,
               vstaged>>

\* EmbedInv only depends on embedding.
LEMMA EmbedFrame ==
    ASSUME EmbedInv, UNCHANGED embedding
    PROVE  EmbedInv'
  BY DEF EmbedInv, embedding, RecoverEmbeddings, Covers, Docs, TaskPaths, PathsWith

\* A refresh that ended, or has not reached the vectors, owes nothing.
LEMMA EmbedElsewhere ==
    ASSUME pc' \notin {"decide", "vectors", "backfill", "backfill_flush", "mark_complete",
                       "finalize"}
    PROVE  EmbedInv'
  BY DEF EmbedInv

\* Every step keeps EmbedInv: whoever skips the vectors found them complete.
LEMMA EmbedStep ==
    ASSUME TypeOK, EmbedInv, [Next]_vars
    PROVE  EmbedInv'
  <1> USE DEF disk, store, published, prepared, parsing, bounds
  <1>1. CASE Environment \/ RefuseCheckpoint \/ UNCHANGED vars
    <2>1. UNCHANGED embedding
      BY <1>1 DEF Environment, FileAppend, FileReplace, FileDelete, FileHide,
                  FileUnhide, FileRestore, Upgrade, RefuseCheckpoint, vars, embedding
    <2> QED
      BY <2>1, EmbedFrame
  <1>2. CASE Reset
    BY <1>2, EmbedElsewhere DEF Reset, ResetCheckpoint, ResetIndex, ResetVectors,
                                ResetAnalytics
  <1>3. ASSUME NEW o \in BOOLEAN, RecoverCheckpoint(o) PROVE EmbedInv'
    BY <1>3, EmbedElsewhere DEF RecoverCheckpoint
  <1>4. ASSUME NEW selected \in SUBSET Paths, Observe(selected) PROVE EmbedInv'
    BY <1>4, EmbedElsewhere DEF Observe
  <1>5. CASE Sweep
    <2>1. /\ pc' = "decide"
          /\ migrate' => \E p \in Paths : tasks[p].change = "ParserChanged"
          /\ embed' => opt \/ migrate' \/ RecoverEmbeddings
          /\ UNCHANGED <<pending, vstore, tasks, opt>>
      BY <1>5 DEF Sweep
    <2>2. migrate' => TaskPaths # {}
      BY <2>1 DEF TaskPaths, PathsWith, NoTask
    <2> QED
      BY <2>1, <2>2 DEF EmbedInv, RecoverEmbeddings, TaskPaths, PathsWith
  <1>6. CASE DecideRefresh
    <2>1. CASE SourceChanges \/ VectorWork
      BY <1>6, <2>1, EmbedElsewhere DEF DecideRefresh
    <2>2. CASE ~(SourceChanges \/ VectorWork)
      <3>1. /\ pc = "decide" /\ pc' \in {"backfill", "finalize"}
            /\ UNCHANGED <<opt, full, embed, vectors, index>>
        BY <1>6, <2>2 DEF DecideRefresh
      <3>2. embed /\ (full \/ ~opt) => Covers(vectors, index)
        BY <2>2, <3>1 DEF EmbedInv, SourceChanges, VectorWork
      <3> QED
        BY <3>1, <3>2 DEF EmbedInv, Covers, Docs
    <2> QED
      BY <2>1, <2>2
  <1>7. ASSUME NEW p \in Paths, Parse(p) \/ ParseSkip(p) \/ ParseFail(p) PROVE EmbedInv'
    BY <1>7, EmbedElsewhere DEF Parse, ParseSkip, ParseFail
  <1>8. CASE CommitIntent
    <2>1. CASE failed \/ ~CheckpointsOnly
      BY <1>8, <2>1, EmbedElsewhere DEF CommitIntent, EndRun
    <2>2. CASE ~failed /\ CheckpointsOnly
      <3>1. /\ pc' \in {"backfill", "mark_complete"}
            /\ UNCHANGED <<opt, full, embed, vectors, index>>
        BY <1>8, <2>2 DEF CommitIntent
      <3>2. embed => Covers(vectors, index)
        BY <2>2 DEF CheckpointsOnly, FastPathNeedsVectors, Covers, Docs
      <3> QED
        BY <3>1, <3>2 DEF EmbedInv, Covers, Docs
    <2> QED
      BY <2>1, <2>2
  <1>9. CASE PublishAnalytics
    BY <1>9, EmbedElsewhere DEF PublishAnalytics
  <1>10. CASE PublishGeneration
    <2>1. /\ index' = NewGeneration /\ vstaged' = NewVectors /\ embed' = embed
          /\ pc' \in {"vectors", "backfill", "mark_complete"}
          /\ embed => pc' = "vectors"
      BY <1>10 DEF PublishGeneration, OpensVectors
    <2>2. embed => Covers(NewVectors, NewGeneration)
      <3> DEFINE opened == IF migrate THEN {} ELSE {v \in vectors : v.doc \notin ScopedDocs}
                 kept == IF reconcile
                         THEN {v \in opened : v.doc \in Docs(NewGeneration)} ELSE opened
      <3>1. NewVectors = kept \cup IF embed THEN BackfillEmbeddings(kept) ELSE {}
        BY DEF NewVectors
      <3> HIDE DEF kept
      <3> QED
        BY <3>1 DEF Covers, Docs, BackfillEmbeddings
    <2> QED
      BY <2>1, <2>2 DEF EmbedInv, Covers, Docs
  <1>11. CASE PublishVectors
    BY <1>11 DEF PublishVectors, EmbedInv, Covers, Docs
  <1>12. CASE BackfillClear \/ BackfillFlush \/ MarkComplete
    BY <1>12 DEF BackfillClear, BackfillFlush, MarkComplete, EmbedInv, Covers, Docs
  <1>13. CASE CommitFinal \/ Abort
    BY <1>13, EmbedElsewhere DEF CommitFinal, Abort, EndRun
  <1> QED
    BY <1>1, <1>2, <1>3, <1>4, <1>5, <1>6, <1>7, <1>8, <1>9, <1>10, <1>11, <1>12, <1>13
    DEF Next, Step, ObserveAll, ObserveDirty, PresentPaths

\* A refresh that ran the embedder leaves no indexed record without a vector.
THEOREM EmbeddingAlwaysCovers == Spec => []EmbeddingCovers
  <1>1. Init => EmbedInv
    BY DEF Init, NoRun, EmbedInv
  <1>2. TypeOK /\ EmbedInv /\ [Next]_vars => EmbedInv'
    BY EmbedStep
  <1>3. EmbedInv => EmbeddingCovers
    BY DEF EmbedInv, EmbeddingCovers
  <1> QED
    BY <1>1, <1>2, <1>3, TypeCorrect, PTL DEF Spec

-----------------------------------------------------------------------------
\* A path's file is replaced by a later incarnation or keeps its bytes.
FileGrows(p) ==
    \/ fs'[p].gen > fs[p].gen
    \/ fs'[p].gen = fs[p].gen /\ fs'[p].size >= fs[p].size

\* Every step of the environment lets every file grow, a rename back included.
LEMMA EnvironmentGrows ==
    ASSUME TypeOK, NEW q \in Paths, NEW p \in Paths,
           \/ FileAppend(q) \/ FileReplace(q) \/ FileDelete(q)
           \/ FileHide(q) \/ FileUnhide(q) \/ FileRestore(q)
    PROVE  FileGrows(p)
  <1> USE DEF TypeOK, FileGrows
  <1>1. CASE FileAppend(q)
    BY <1>1 DEF FileAppend
  <1>2. CASE FileReplace(q)
    BY <1>2 DEF FileReplace
  <1>3. CASE FileDelete(q)
    BY <1>3 DEF FileDelete
  <1>4. CASE FileHide(q)
    BY <1>4 DEF FileHide
  <1>5. CASE FileUnhide(q)
    BY <1>5 DEF FileUnhide
  <1>6. CASE FileRestore(q)
    BY <1>6 DEF FileRestore
  <1> QED
    BY <1>1, <1>2, <1>3, <1>4, <1>5, <1>6

\* "No row" is within every bound.
LEMMA NoRowBound ==
    ASSUME TypeOK, NEW p \in Paths
    PROVE  Bound(p, NoRow)
  BY DEF Bound, NoRow, TypeOK

\* A row stays within its bounds, and above the records it was above, while files
\* grow and the binary is upgraded.
LEMMA RowGrows ==
    ASSUME TypeOK, TypeOK', NEW p \in Paths, FileGrows(p), version <= version',
           index' = index, NEW row \in Row, Bound(p, row)
    PROVE  Bound(p, row)' /\ (Low(p, row) => Low(p, row)')
  <1>1. /\ row.gen \in Nat /\ row.ver \in Nat /\ version \in Nat /\ version' \in Nat
        /\ fs[p].gen \in Nat /\ fs'[p].gen \in Nat
    BY DEF TypeOK, Row
  <1>2. Bound(p, row)'
    BY <1>1 DEF Bound, FileGrows
  <1>3. row.gen = fs'[p].gen /\ row.ver = version' => row.gen = fs[p].gen /\ row.ver = version
    BY <1>1 DEF Bound, FileGrows
  <1> QED
    BY <1>2, <1>3 DEF Low, Of

\* What LinesInv reads, apart from the files and the parser version.
lined == <<pc, authority, pending, rows, sess, updates, tasks, deletes, todo, staged,
           index>>

\* No step of the environment makes a task or a row reach below an indexed line.
LEMMA LinesGrow ==
    ASSUME TypeOK, TypeOK', LinesInv, UNCHANGED lined, \A p \in Paths : FileGrows(p),
           version <= version'
    PROVE  LinesInv'
  <1>1. /\ pc' = pc /\ authority' = authority /\ pending' = pending /\ rows' = rows
        /\ sess' = sess /\ updates' = updates /\ tasks' = tasks /\ deletes' = deletes
        /\ todo' = todo /\ staged' = staged /\ index' = index
    BY DEF lined
  <1>2. /\ rows \in [Paths -> Row] /\ sess \in [Paths -> Row]
        /\ updates \in [Paths -> Row] /\ tasks \in [Paths -> Task]
        /\ version \in Nat /\ version' \in Nat
    BY DEF TypeOK
  <1>3. \A p \in Paths, row \in Row : Bound(p, row) =>
            Bound(p, row)' /\ (Low(p, row) => Low(p, row)')
    BY <1>1, RowGrows
  <1>4. RowsLow'
    <2>1. /\ version > 0 /\ \A p \in Paths : rows[p] \in Row /\ Bound(p, rows[p])
          /\ ~authority => pending = NoIntent /\ \A p \in Paths : rows[p] = NoRow
          /\ authority => \A p \in Paths \ pending.paths : Low(p, rows[p])
      BY <1>2 DEF LinesInv, RowsLow
    <2>2. \A p \in Paths : Bound(p, rows[p])' /\ (Low(p, rows[p]) => Low(p, rows[p])')
      BY <1>1, <1>3, <2>1 DEF Bound, Low
    <2> QED
      BY <1>1, <1>2, <2>1, <2>2 DEF RowsLow
  <1>5. Untouched'
    BY <1>1 DEF LinesInv, Untouched
  <1>6. SessLow'
    <2>1. /\ \A p \in Paths : sess[p] \in Row /\ Bound(p, sess[p])
          /\ pc \in Observing => \A p \in Paths :
                IF p \in pending.paths THEN sess[p] = NoRow ELSE Low(p, sess[p])
          /\ pc \in Prepared => \A p \in Paths \ deletes : Low(p, sess[p])
      BY <1>2 DEF LinesInv, SessLow
    <2>2. \A p \in Paths : Bound(p, sess[p])' /\ (Low(p, sess[p]) => Low(p, sess[p])')
      BY <1>1, <1>3, <2>1 DEF Bound, Low
    <2> QED
      BY <1>1, <2>1, <2>2 DEF SessLow
  <1>7. ASSUME NEW p \in Paths PROVE TaskLow(p)'
    <2>1. tasks[p] \in Task /\ fs[p].gen \in Nat /\ fs'[p].gen \in Nat
          /\ fs[p].size \in Nat /\ fs'[p].size \in Nat
      BY <1>2 DEF TypeOK
    <2>2. TaskLow(p) /\ FileGrows(p)
      BY DEF LinesInv
    <2> QED
      BY <1>1, <2>1, <2>2 DEF TaskLow, FileGrows, Task, Of, DeleteFirst
  <1>8. \A p \in Paths : Bound(p, updates[p])'
                         /\ (Low(p, updates[p]) => Low(p, updates[p])')
    <2>1. \A p \in Paths : updates[p] \in Row /\ Bound(p, updates[p])
      BY <1>2 DEF LinesInv
    <2> QED
      BY <1>1, <1>3, <2>1 DEF Bound, Low
  <1>9. pc' \in Prepared => \A p \in Paths : UpdateLow(p)'
    <2> SUFFICES ASSUME pc' \in Prepared, NEW p \in Paths PROVE UpdateLow(p)'
      OBVIOUS
    <2>1. /\ updates[p] \in Row /\ fs[p].gen \in Nat /\ fs'[p].gen \in Nat
          /\ Bound(p, updates[p]) /\ FileGrows(p) /\ UpdateLow(p)
      BY <1>1, <1>2 DEF TypeOK, LinesInv
    <2>2. updates[p].gen = fs'[p].gen => updates[p].gen = fs[p].gen
      BY <2>1 DEF Bound, FileGrows, Row
    <2> QED
      BY <1>1, <2>1, <2>2 DEF UpdateLow, Of
  <1>10. pc' \in Done => \A p \in Paths : Low(p, FinalRow(p))'
    <2> SUFFICES ASSUME pc' \in Done, NEW p \in Paths PROVE Low(p, FinalRow(p))'
      OBVIOUS
    <2>1. Low(p, FinalRow(p)) /\ FinalRow(p)' = FinalRow(p)
      BY <1>1 DEF LinesInv, FinalRow
    <2>2. FinalRow(p) \in Row /\ Bound(p, FinalRow(p))
      BY <1>2 DEF LinesInv, SessLow, FinalRow
    <2>3. \A row \in Row : Bound(p, row) /\ Low(p, row) => Low(p, row)'
      BY <1>3
    <2> QED
      BY <2>1, <2>2, <2>3 DEF Low
  <1>11. NoDuplicates'
    BY <1>1 DEF LinesInv, NoDuplicates
  <1> QED
    BY <1>4, <1>5, <1>6, <1>7, <1>8, <1>9, <1>10, <1>11 DEF LinesInv

\* Between refreshes only the checkpoint and the index count.
LEMMA LinesIdle ==
    ASSUME TypeOK, TypeOK', RowsLow', NoDuplicates', pc' \in Idle,
           \A p \in Paths : Bound(p, sess[p])', todo' = {}, staged' = {}, deletes' = {},
           \A p \in Paths : tasks'[p] = NoTask /\ updates'[p] = NoRow
    PROVE  LinesInv'
  <1>1. \A p \in Paths : Bound(p, updates[p])'
    BY DEF Bound, NoRow, TypeOK
  <1>2. Untouched' /\ SessLow' /\ \A p \in Paths : TaskLow(p)'
    BY DEF Untouched, SessLow, TaskLow, Idle, Observing, Prepared
  <1> QED
    BY <1>1, <1>2 DEF LinesInv, Idle, Prepared, Done

\* A refresh that ended leaves its checkpoint to the next one.
LEMMA LinesEndRun ==
    ASSUME TypeOK, TypeOK', LinesInv, EndRun, RowsLow'
    PROVE  LinesInv'
  <1>1. /\ pc' = "idle" /\ todo' = {} /\ staged' = {} /\ deletes' = {} /\ index' = index
        /\ \A p \in Paths : sess'[p] = NoRow /\ tasks'[p] = NoTask /\ updates'[p] = NoRow
    BY DEF EndRun, published
  <1>2. NoDuplicates'
    BY <1>1 DEF LinesInv, NoDuplicates
  <1>3. \A p \in Paths : Bound(p, sess[p])'
    BY <1>1 DEF Bound, NoRow, TypeOK
  <1> QED
    BY <1>1, <1>2, <1>3, LinesIdle DEF Idle

\* The checkpoint's rows stay above the index while neither changes, whatever
\* the intent covers in addition.
LEMMA RowsKept ==
    ASSUME RowsLow, UNCHANGED <<fs, version, authority, rows, index>>,
           pending' = pending \/ (authority /\ pending.paths \subseteq pending'.paths)
    PROVE  RowsLow'
  <1>1. \A p \in Paths : /\ Bound(p, rows[p])' <=> Bound(p, rows[p])
                         /\ Low(p, rows[p])' <=> Low(p, rows[p])
    BY DEF Bound, Low, Of
  <1> QED
    BY <1>1 DEF RowsLow

\* `index --rebuild` leaves no row that could be resumed.
LEMMA LinesReset ==
    ASSUME TypeOK, TypeOK', LogInv, LeaseInv, LinesInv, Reset
    PROVE  LinesInv'
  <1> USE DEF disk, store, published, prepared, parsing, bounds
  <1>1. /\ pc \in Idle /\ pc' \in Idle /\ ~authority'
        /\ index' \in {index, {}}
        /\ UNCHANGED <<fs, version, sess, tasks, deletes, updates, todo, staged>>
    BY DEF Reset, ResetCheckpoint, ResetIndex, ResetVectors, ResetAnalytics, Idle,
           LeaseInv
  <1>2. pending' = NoIntent /\ \A p \in Paths : rows'[p] = NoRow
    BY <1>1 DEF Reset, ResetCheckpoint, ResetIndex, ResetVectors, ResetAnalytics, LinesInv,
           RowsLow, LeaseInv, Idle
  <1>3. RowsLow'
    <2>1. \A p \in Paths : Bound(p, rows[p])'
      BY <1>2 DEF Bound, NoRow, TypeOK
    <2> QED
      BY <1>1, <1>2, <2>1 DEF LinesInv, RowsLow
  <1>4. NoDuplicates'
    BY <1>1 DEF LinesInv, NoDuplicates
  <1>5. \A p \in Paths : Bound(p, sess[p])'
    BY <1>1 DEF LinesInv, SessLow, Bound
  <1>6. /\ todo' = {} /\ staged' = {} /\ deletes' = {}
        /\ \A p \in Paths : tasks'[p] = NoTask /\ updates'[p] = NoRow
    BY <1>1 DEF LogInv, LinesInv, Untouched
  <1> QED
    BY <1>1, <1>3, <1>4, <1>5, <1>6, LinesIdle

\* recover_checkpoint takes over rows that are above the index, or none.
LEMMA LinesRecover ==
    ASSUME TypeOK, TypeOK', LogInv, LeaseInv, LinesInv, NEW o, RecoverCheckpoint(o)
    PROVE  LinesInv'
  <1> USE DEF disk, store, published, prepared, parsing, bounds
  <1>1. /\ pc \in Idle /\ pc' = "observe" /\ authority'
        /\ authority \/ index = {}
        /\ rebuild' => index = {}
        /\ sess' = IF rebuild' THEN [p \in Paths |-> NoRow] ELSE SurvivingRows
        /\ UNCHANGED <<fs, version, rows, pending, index, tasks, deletes, updates, todo,
                       staged>>
    BY DEF RecoverCheckpoint, Idle
  <1>2. \A p \in Paths \ pending.paths : Low(p, rows[p])
    <2>1. CASE authority
      BY <2>1 DEF LinesInv, RowsLow
    <2>2. CASE ~authority
      BY <1>1, <2>2 DEF LinesInv, RowsLow, Low, Of
    <2> QED
      BY <2>1, <2>2
  <1>3. RowsLow'
    <2>1. \A p \in Paths : Bound(p, rows[p])
      BY DEF LinesInv, RowsLow
    <2>2. \A p \in Paths : Bound(p, rows[p])' /\ (Low(p, rows[p]) => Low(p, rows[p])')
      BY <1>1, <2>1 DEF Bound, Low, Of
    <2> QED
      BY <1>1, <1>2, <2>2 DEF LinesInv, RowsLow
  <1>4. ASSUME NEW p \in Paths
        PROVE  /\ Bound(p, sess[p])'
               /\ IF p \in pending.paths THEN sess'[p] = NoRow ELSE Low(p, sess[p])'
    <2>1. CASE rebuild'
      <3>1. sess'[p] = NoRow /\ Of(index', p) = {}
        BY <1>1, <2>1 DEF Of
      <3> QED
        BY <3>1 DEF Low, Bound, NoRow, TypeOK
    <2>2. CASE ~rebuild'
      <3>1. sess'[p] = IF p \in pending.paths THEN NoRow ELSE rows[p]
        BY <1>1, <2>2 DEF SurvivingRows
      <3>2. Bound(p, rows[p]) /\ Bound(p, NoRow)
        BY NoRowBound DEF LinesInv, RowsLow
      <3>3. Bound(p, sess[p])'
        BY <1>1, <3>1, <3>2 DEF Bound
      <3>4. p \notin pending.paths => Low(p, sess[p])'
        BY <1>1, <1>2, <3>1 DEF Low, Of
      <3> QED
        BY <3>1, <3>3, <3>4
    <2> QED
      BY <2>1, <2>2
  <1>5. SessLow'
    BY <1>1, <1>4 DEF SessLow, Observing, Prepared
  <1>6. Untouched' /\ \A p \in Paths : TaskLow(p)'
    BY <1>1 DEF LinesInv, Untouched, TaskLow, Observing
  <1>7. \A p \in Paths : Bound(p, updates[p])'
    BY <1>1 DEF LinesInv, Bound
  <1>8. NoDuplicates'
    BY <1>1 DEF LinesInv, NoDuplicates
  <1> QED
    BY <1>1, <1>3, <1>5, <1>6, <1>7, <1>8 DEF LinesInv, Prepared, Done

\* A task resumes from a row only if the row is the file's, and then above every
\* record that is indexed.
LEMMA LowTask ==
    ASSUME TypeOK, NEW p \in Paths, Bound(p, sess[p]), NEW t,
           t = PrepareFileTask(fs[p], sess[p]), t # NoTask
    PROVE  /\ t.gen = fs[p].gen /\ t.offset % 3 # 1
           /\ t.offset <= fs[p].size
           /\ t.change \notin {"Replaced", "ParserChanged"} /\ Low(p, sess[p]) =>
                 \A r \in Of(index, p) : r.line < NumLines(t.offset)
  <1> DEFINE change == ClassifyFile(fs[p], sess[p])
  <1>1. /\ change # "None"
        /\ t.gen = fs[p].gen /\ t.change = change
        /\ t.offset = IF change = "Append" THEN sess[p].offset ELSE 0
    BY DEF PrepareFileTask
  <1>2. /\ sess[p] \in Row /\ fs[p].size \in Nat /\ fs[p].gen \in Nat /\ version \in Nat
        /\ sess[p].offset \in Nat /\ sess[p].size \in Nat
    BY DEF TypeOK, Row
  <1>3. change \in {"New", "Replaced", "ParserChanged", "Append"}
    BY <1>1 DEF ClassifyFile
  <1>4. change = "New" => sess[p] = NoRow
    BY DEF ClassifyFile
  <1>5. change = "Append" => /\ sess[p] # NoRow /\ sess[p].ver = version
                             /\ sess[p].gen = fs[p].gen
                             /\ sess[p].offset <= fs[p].size
    BY <1>2 DEF ClassifyFile
  <1> HIDE DEF change
  <1>6. t.offset % 3 # 1 /\ t.offset <= fs[p].size
    <2>1. CASE change = "Append"
      BY <1>1, <1>5, <2>1 DEF Bound
    <2>2. CASE change # "Append"
      BY <1>1, <1>2, <2>2
    <2> QED
      BY <2>1, <2>2
  <1> QED
    BY <1>1, <1>3, <1>4, <1>5, <1>6 DEF Low

\* Discovery prepares tasks above the index.
LEMMA LinesObserve ==
    ASSUME TypeOK, TypeOK', LogInv, LinesInv, NEW selected \in SUBSET Paths,
           Observe(selected)
    PROVE  LinesInv'
  <1> USE DEF disk, store, published, prepared, parsing, bounds
  <1>1. /\ pc = "observe" /\ pc' = "sweep"
        /\ tasks' = [p \in Paths |-> IF p \in selected THEN PrepareFileTask(fs[p], sess[p])
                                     ELSE NoTask]
        /\ UNCHANGED <<fs, version, authority, rows, pending, index, sess, deletes,
                       updates, todo, staged>>
    BY DEF Observe
  <1>2. RowsLow'
    BY <1>1, RowsKept DEF LinesInv
  <1>3. Untouched'
    BY <1>1 DEF LinesInv, Untouched, Idle, Observing
  <1>4. \A p \in Paths : /\ Bound(p, sess[p])
                         /\ IF p \in pending.paths THEN sess[p] = NoRow ELSE Low(p, sess[p])
    BY <1>1 DEF LinesInv, SessLow, Observing
  <1>5. SessLow'
    BY <1>1, <1>4 DEF SessLow, Bound, Low, Of, Observing, Prepared
  <1>6. ASSUME NEW p \in Paths PROVE TaskLow(p)'
    <2> DEFINE t == PrepareFileTask(fs[p], sess[p])
    <2>1. tasks'[p] \in {t, NoTask}
      BY <1>1
    <2>2. t # NoTask =>
            /\ t.gen = fs[p].gen /\ t.offset % 3 # 1 /\ t.offset <= fs[p].size
            /\ t.change \notin {"Replaced", "ParserChanged"} /\ Low(p, sess[p]) =>
                 \A r \in Of(index, p) : r.line < NumLines(t.offset)
      BY <1>4, LowTask
    <2>3. fs[p].gen \in Nat
      BY DEF TypeOK
    <2>4. p \notin pending.paths => Low(p, sess[p])
      BY <1>4
    <2> HIDE DEF t
    <2> QED
      BY <1>1, <2>1, <2>2, <2>3, <2>4 DEF TaskLow, DeleteFirst, Of, Prepared
  <1>7. \A p \in Paths : Bound(p, updates[p])'
    BY <1>1 DEF LinesInv, Bound
  <1>8. NoDuplicates'
    BY <1>1 DEF LinesInv, NoDuplicates
  <1> QED
    BY <1>1, <1>2, <1>3, <1>5, <1>6, <1>7, <1>8 DEF LinesInv, Prepared, Done

\* The sweep deletes the records of every path it will not resume.
LEMMA LinesSweep ==
    ASSUME TypeOK, TypeOK', LogInv, LinesInv, Sweep
    PROVE  LinesInv'
  <1> USE DEF disk, store, published, prepared, parsing, bounds
  <1>1. PICK missing \in SUBSET Paths :
           /\ sess' = [p \in Paths |-> IF p \in missing THEN NoRow ELSE sess[p]]
           /\ deletes' = pending.paths \cup missing \cup {p \in Paths : DeleteFirst(p)}
    <2> DEFINE gone == IF full THEN {p \in Paths : sess[p] # NoRow /\ fs[p].where = "absent"}
                       ELSE {}
    <2>1. gone \in SUBSET Paths
      OBVIOUS
    <2> QED
      BY <2>1 DEF Sweep
  <1>2. /\ pc = "sweep" /\ pc' = "decide"
        /\ UNCHANGED <<fs, version, authority, rows, pending, index, tasks, updates, todo,
                       staged>>
    BY DEF Sweep
  <1>3. RowsLow'
    BY <1>2, RowsKept DEF LinesInv
  <1>4. Untouched'
    BY <1>2 DEF LinesInv, Untouched, Idle, Observing
  <1>5. \A p \in Paths : /\ Bound(p, sess[p])
                         /\ IF p \in pending.paths THEN sess[p] = NoRow ELSE Low(p, sess[p])
    BY <1>2 DEF LinesInv, SessLow, Observing
  <1>6. \A p \in Paths : Bound(p, sess[p])'
    <2>1. \A p \in Paths : Bound(p, NoRow)
      BY NoRowBound
    <2> QED
      BY <1>1, <1>2, <1>5, <2>1 DEF Bound
  <1>7. \A p \in Paths \ deletes' : Low(p, sess[p])'
    <2> SUFFICES ASSUME NEW p \in Paths, p \notin deletes' PROVE Low(p, sess[p])'
      OBVIOUS
    <2>1. sess'[p] = sess[p] /\ Low(p, sess[p])
      BY <1>1, <1>5
    <2> QED
      BY <1>2, <2>1 DEF Low, Of
  <1>8. SessLow'
    BY <1>2, <1>6, <1>7 DEF SessLow, Observing, Prepared
  <1>9. ASSUME NEW p \in Paths PROVE TaskLow(p)'
    <2>1. TaskLow(p)
      BY DEF LinesInv
    <2>2. p \notin deletes' => p \notin pending.paths /\ ~DeleteFirst(p)
      BY <1>1
    <2> QED
      BY <1>2, <2>1, <2>2 DEF TaskLow, Of
  <1>10. \A p \in Paths : Bound(p, updates[p])' /\ UpdateLow(p)'
    BY <1>2 DEF LinesInv, Bound, UpdateLow, Untouched, Observing
  <1>11. NoDuplicates'
    BY <1>2 DEF LinesInv, NoDuplicates
  <1> QED
    BY <1>2, <1>3, <1>4, <1>8, <1>9, <1>10, <1>11 DEF LinesInv, Prepared, Done

\* A refresh that finds nothing to do finalizes the session's rows.
LEMMA LinesDecide ==
    ASSUME TypeOK, TypeOK', LogInv, LinesInv, DecideRefresh
    PROVE  LinesInv'
  <1> USE DEF disk, store, published, prepared, parsing, bounds
  <1>1. /\ pc = "decide" /\ pc' \in {"parse", "backfill", "finalize"}
        /\ pc' # "parse" => deletes = {}
        /\ todo' \subseteq Paths
        /\ UNCHANGED <<fs, version, authority, rows, pending, index, sess, tasks, deletes,
                       updates, staged>>
    BY DEF DecideRefresh, SourceChanges, TaskPaths, PathsWith, TypeOK
  <1>2. RowsLow'
    BY <1>1, RowsKept DEF LinesInv
  <1>3. \A p \in Paths : updates[p] = NoRow
    BY <1>1 DEF LinesInv, Untouched
  <1>4. Untouched'
    BY <1>1, <1>3 DEF LinesInv, Untouched, Idle, Observing
  <1>5. \A p \in Paths : Bound(p, sess[p]) /\ (p \notin deletes => Low(p, sess[p]))
    BY <1>1 DEF LinesInv, SessLow, Prepared
  <1>6. SessLow'
    BY <1>1, <1>5 DEF SessLow, Bound, Low, Of, Observing, Prepared
  <1>7. ASSUME NEW p \in Paths PROVE TaskLow(p)'
    <2>1. TaskLow(p)
      BY DEF LinesInv
    <2> QED
      BY <1>1, <2>1 DEF TaskLow, Of, Prepared
  <1>8. \A p \in Paths : Bound(p, updates[p])' /\ UpdateLow(p)'
    BY <1>1, <1>3 DEF LinesInv, Bound, UpdateLow
  <1>9. pc' \in Done => \A p \in Paths : Low(p, FinalRow(p))'
    BY <1>1, <1>3, <1>5 DEF Low, FinalRow, Of, Done
  <1>10. NoDuplicates'
    BY <1>1 DEF LinesInv, NoDuplicates
  <1> QED
    BY <1>1, <1>2, <1>4, <1>6, <1>7, <1>8, <1>9, <1>10 DEF LinesInv

\* A parser never goes back below its task's offset: in a file that shrank it
\* reads nothing.
LEMMA ParsedAbove ==
    ASSUME TypeOK, NEW p \in Paths, tasks[p].offset % 3 # 1
    PROVE  /\ ParseEnd(p) % 3 # 1
           /\ tasks[p].offset <= fs[p].size => tasks[p].offset <= ParseEnd(p)
           /\ \A l \in ParsedLines(p) : /\ l \in Nat
                                        /\ NumLines(tasks[p].offset) <= l
                                        /\ l < NumLines(ParseEnd(p))
  <1> DEFINE off == tasks[p].offset
             size == fs[p].size
             start == ParseStart(p)
             end == ParseEnd(p)
  <1>1. /\ off \in Nat /\ size \in Nat /\ tasks[p].size \in Nat /\ off % 3 # 1
        /\ start \in Nat /\ end \in Nat /\ NumLines(start) \in Nat /\ NumLines(end) \in Nat
    BY ParseTyped DEF TypeOK, Task
  <1>2. start % 3 # 1
    BY <1>1, ResumeOffsetFacts DEF ParseStart
  <1>3. start <= end /\ end % 3 # 1
    <2>1. CASE p \in Bounded
      <3>1. Smaller(tasks[p].size, fs[p].size) \in Nat
        BY <1>1 DEF Smaller
      <3> QED
        BY <1>1, <1>2, <2>1, <3>1, ReadEndFacts DEF ParseEnd
    <2>2. CASE p \notin Bounded
      BY <1>1, <1>2, <2>2, ReadEndFacts DEF ParseEnd
    <2> QED
      BY <2>1, <2>2
  <1>4. off <= size \/ p \in Bounded => start = off
    BY <1>1, ResumeOffsetFacts DEF ParseStart
  <1>5. off > size /\ p \notin Bounded => start = end
    BY <1>1 DEF ParseStart, ParseEnd, ResumeOffset, ReadEnd, Smaller, Larger
  <1>6. ParsedLines(p) = NumLines(start)..(NumLines(end) - 1)
    BY DEF ParsedLines
  <1>7. start = off \/ ParsedLines(p) = {}
    <2>1. CASE start = end
      BY <1>1, <1>6, <2>1
    <2> QED
      BY <1>1, <1>4, <1>5, <2>1
  <1>8. \A l \in ParsedLines(p) : l \in Nat /\ NumLines(start) <= l /\ l < NumLines(end)
    BY <1>1, <1>6
  <1> HIDE DEF start, end, off
  <1>9. \A l \in ParsedLines(p) : NumLines(off) <= l
    BY <1>7, <1>8
  <1> QED
    BY <1>3, <1>4, <1>8, <1>9 DEF start, end, off

\* What a parser hands over fits above the records that stay.
LEMMA LinesParse ==
    ASSUME TypeOK, TypeOK', LogInv, LinesInv, NEW p \in Paths, Parse(p)
    PROVE  LinesInv'
  <1> USE DEF disk, store, published, prepared, parsing, bounds
  <1>1. /\ pc = "parse" /\ p \in todo /\ staged' = staged \cup ParsedRecords(p)
        /\ updates' = [updates EXCEPT ![p] = CompletedFileState(p)]
        /\ todo' = todo \ {p}
        /\ UNCHANGED <<pc, fs, version, authority, rows, pending, index, sess, tasks,
                       deletes>>
    BY DEF Parse
  <1>2. /\ updates \in [Paths -> Row] /\ tasks[p] \in Task /\ fs[p].gen \in Nat
        /\ fs[p].size \in Nat /\ version \in Nat /\ version > 0
    BY DEF TypeOK, LinesInv, RowsLow
  <1>3. tasks[p] # NoTask /\ updates[p] = NoRow /\ Of(staged, p) = {}
    BY <1>1 DEF LogInv, LinesInv, Untouched, Of
  <1>4. /\ tasks[p].gen <= fs[p].gen /\ tasks[p].offset % 3 # 1
        /\ tasks[p].gen = fs[p].gen => tasks[p].offset <= fs[p].size
    BY <1>3 DEF LinesInv, TaskLow
  <1>5. /\ ParseEnd(p) % 3 # 1
        /\ tasks[p].offset <= fs[p].size => tasks[p].offset <= ParseEnd(p)
        /\ \A l \in ParsedLines(p) : /\ l \in Nat
                                     /\ NumLines(tasks[p].offset) <= l
                                     /\ l < NumLines(ParseEnd(p))
    BY <1>4, ParsedAbove
  <1>6. /\ updates'[p].gen = tasks[p].gen /\ updates'[p].offset = ParseEnd(p)
        /\ updates'[p].ver = version /\ updates'[p] # NoRow
    BY <1>1, <1>2 DEF CompletedFileState, NoRow
  <1>7. \A q \in Paths \ {p} : updates'[q] = updates[q] /\ Of(staged', q) = Of(staged, q)
    BY <1>1, <1>2 DEF ParsedRecords, Of
  <1>8. Of(staged', p) = ParsedRecords(p)
    <2>1. \A r \in ParsedRecords(p) : r.path = p
      BY DEF ParsedRecords
    <2> QED
      BY <1>1, <1>3, <2>1 DEF Of
  <1>9. \A r \in ParsedRecords(p) :
          /\ r.line \in ParsedLines(p)
          /\ r = [path |-> p, gen |-> fs[p].gen, line |-> r.line, ver |-> version,
                  doc |-> next + (r.line - NumLines(ParseStart(p)))]
    BY DEF ParsedRecords
  <1>10. RowsLow'
    BY <1>1, RowsKept DEF LinesInv
  <1>11. Untouched'
    <2>1. \A q \in todo' : updates'[q] = NoRow
      BY <1>1, <1>7 DEF LinesInv, Untouched, TypeOK
    <2>2. \A s \in staged' : updates'[s.path] # NoRow
      <3> SUFFICES ASSUME NEW s \in staged' PROVE updates'[s.path] # NoRow
        OBVIOUS
      <3>1. CASE s.path = p
        BY <1>6, <3>1
      <3>2. CASE s.path # p
        <4>1. s \in staged /\ s.path \in Paths \ {p}
          BY <1>1, <1>9, <3>2 DEF TypeOK, Record, ParsedRecords
        <4> QED
          BY <1>7, <4>1 DEF LinesInv, Untouched
      <3> QED
        BY <3>1, <3>2
    <2> QED
      BY <1>1, <2>1, <2>2 DEF Untouched, Idle, Observing
  <1>12. SessLow'
    BY <1>1 DEF LinesInv, SessLow, Bound, Low, Of, Observing
  <1>13. ASSUME NEW q \in Paths PROVE TaskLow(q)'
    <2>1. TaskLow(q)
      BY DEF LinesInv
    <2> QED
      BY <1>1, <2>1 DEF TaskLow, Of, DeleteFirst
  <1>14. ASSUME NEW q \in Paths PROVE Bound(q, updates[q])'
    <2>1. CASE q = p
      BY <1>1, <1>2, <1>4, <1>5, <1>6, <2>1 DEF Bound
    <2>2. CASE q # p
      BY <1>1, <1>7, <2>2 DEF LinesInv, Bound
    <2> QED
      BY <2>1, <2>2
  <1>15. ASSUME NEW q \in Paths PROVE UpdateLow(q)'
    <2>1. CASE q = p
      <3>1. updates'[p].gen = fs[p].gen => tasks[p].offset <= updates'[p].offset
        BY <1>4, <1>5, <1>6
      <3>2. \A s \in ParsedRecords(p) : NumLines(tasks[p].offset) <= s.line
                                        /\ s.line < NumLines(updates'[p].offset)
        BY <1>5, <1>6, <1>9
      <3>3. \A s, r \in ParsedRecords(p) : s.line = r.line => s = r
        BY <1>9
      <3> QED
        BY <1>1, <1>3, <1>6, <1>8, <2>1, <3>1, <3>2, <3>3 DEF UpdateLow
    <2>2. CASE q # p
      <3>1. UpdateLow(q)
        BY <1>1 DEF LinesInv, Prepared
      <3> QED
        BY <1>1, <1>7, <2>2, <3>1 DEF UpdateLow
    <2> QED
      BY <2>1, <2>2
  <1>16. NoDuplicates'
    BY <1>1 DEF LinesInv, NoDuplicates
  <1> QED
    BY <1>1, <1>10, <1>11, <1>12, <1>13, <1>14, <1>15, <1>16 DEF LinesInv, Prepared, Done

\* A skipped or failed parser adds nothing.
LEMMA LinesParseNothing ==
    ASSUME TypeOK, TypeOK', LogInv, LinesInv, NEW p \in Paths, ParseSkip(p) \/ ParseFail(p)
    PROVE  LinesInv'
  <1> USE DEF disk, store, published, prepared, parsing, bounds
  <1>1. /\ pc = "parse" /\ todo' \subseteq todo
        /\ UNCHANGED <<pc, fs, version, authority, rows, pending, index, sess, tasks,
                       deletes, updates, staged>>
    BY DEF ParseSkip, ParseFail
  <1>2. RowsLow'
    BY <1>1, RowsKept DEF LinesInv
  <1>3. Untouched'
    BY <1>1 DEF LinesInv, Untouched
  <1>4. SessLow'
    BY <1>1 DEF LinesInv, SessLow, Bound, Low, Of
  <1>5. ASSUME NEW q \in Paths
        PROVE  TaskLow(q)' /\ Bound(q, updates[q])' /\ UpdateLow(q)'
    <2>1. TaskLow(q) /\ Bound(q, updates[q]) /\ UpdateLow(q)
      BY <1>1 DEF LinesInv, Prepared
    <2> QED
      BY <1>1, <2>1 DEF TaskLow, Bound, UpdateLow, Of, DeleteFirst
  <1>6. NoDuplicates'
    BY <1>1 DEF LinesInv, NoDuplicates
  <1> QED
    BY <1>1, <1>2, <1>3, <1>4, <1>5, <1>6 DEF LinesInv, Prepared, Done

\* The row a refresh is about to commit is above what stays and what it adds.
LEMMA FinalRowLow ==
    ASSUME TypeOK, LogInv, LinesInv, pc \in Prepared, NEW p \in Paths,
           NEW recs, recs \subseteq Of(index, p) \cup Of(staged, p),
           p \in deletes => recs \cap Of(index, p) \subseteq Of(staged, p)
    PROVE  IF FinalRow(p) = NoRow THEN recs = {}
           ELSE FinalRow(p).gen = fs[p].gen /\ FinalRow(p).ver = version =>
                  \A r \in recs : r.line < NumLines(FinalRow(p).offset)
  <1>1. /\ UpdateLow(p) /\ TaskLow(p) /\ (p \notin deletes => Low(p, sess[p]))
        /\ updates[p] = NoRow => Of(staged, p) = {}
    BY DEF LinesInv, SessLow, Untouched, Of
  <1>2. CASE updates[p] = NoRow
    <2>1. FinalRow(p) = sess[p] /\ Of(staged, p) = {}
      BY <1>1, <1>2 DEF FinalRow
    <2>2. CASE p \in deletes
      <3>1. recs = {}
        BY <2>1, <2>2
      <3> QED
        BY <3>1
    <2>3. CASE p \notin deletes
      BY <1>1, <2>1, <2>3 DEF Low
    <2> QED
      BY <2>2, <2>3
  <1>3. CASE updates[p] # NoRow
    <2>1. FinalRow(p) = updates[p] /\ updates[p] # NoRow
      BY <1>3 DEF FinalRow
    <2>2. ASSUME updates[p].gen = fs[p].gen, NEW r \in recs
          PROVE  r.line < NumLines(updates[p].offset)
      <3>1. CASE r \in Of(staged, p)
        BY <1>1, <1>3, <3>1 DEF UpdateLow
      <3>2. CASE r \notin Of(staged, p)
        <4>1. r \in Of(index, p) /\ p \notin deletes
          BY <3>2
        <4>2. r.line < NumLines(tasks[p].offset) /\ tasks[p].offset <= updates[p].offset
          BY <1>1, <1>3, <2>2, <4>1 DEF UpdateLow, TaskLow
        <4>3. tasks[p].offset \in Nat /\ updates[p].offset \in Nat /\ r.line \in Nat
          BY <4>1 DEF TypeOK, Task, Row, Record, Of
        <4>4. NumLines(tasks[p].offset) <= NumLines(updates[p].offset)
              /\ NumLines(tasks[p].offset) \in Nat /\ NumLines(updates[p].offset) \in Nat
          BY <4>2, <4>3, NumLinesMonotone
        <4> QED
          BY <4>2, <4>3, <4>4
      <3> QED
        BY <3>1, <3>2
    <2> QED
      BY <2>1, <2>2
  <1> QED
    BY <1>2, <1>3

\* commit_intent only widens what recovery will forget; without anything to
\* publish the rows to be committed are above the index as it is.
LEMMA LinesCommitIntent ==
    ASSUME TypeOK, TypeOK', LogInv, LeaseInv, LinesInv, CommitIntent
    PROVE  LinesInv'
  <1> USE DEF disk, store, published, prepared, parsing, bounds
  <1>1. /\ pc = "parse" /\ authority
        /\ pending' = IF NeedsPublication THEN PendingIngest ELSE pending
        /\ UNCHANGED <<fs, version, authority, rows, index>>
    BY DEF CommitIntent, EndRun, LeaseInv, Idle
  <1>2. pending.paths \subseteq pending'.paths
    BY <1>1 DEF LogInv, PendingIngest
  <1>3. RowsLow'
    BY <1>1, <1>2, RowsKept DEF LinesInv
  <1>4. CASE failed
    BY <1>3, <1>4, LinesEndRun DEF CommitIntent
  <1>5. CASE ~failed
    <2>1. /\ pc' \in {"backfill", "mark_complete", "analytics"}
          /\ pc' # "analytics" => staged = {} /\ deletes = {}
          /\ UNCHANGED <<sess, tasks, deletes, updates, todo, staged>>
      BY <1>5 DEF CommitIntent, CheckpointsOnly
    <2>2. Untouched'
      BY <2>1 DEF LinesInv, Untouched, Idle, Observing
    <2>3. SessLow'
      BY <1>1, <2>1 DEF LinesInv, SessLow, Bound, Low, Of, Observing, Prepared
    <2>4. ASSUME NEW q \in Paths
          PROVE  TaskLow(q)' /\ Bound(q, updates[q])' /\ UpdateLow(q)'
      <3>1. TaskLow(q) /\ Bound(q, updates[q]) /\ UpdateLow(q)
        BY <1>1 DEF LinesInv, Prepared
      <3> QED
        BY <1>1, <2>1, <3>1 DEF TaskLow, Bound, UpdateLow, Of, Prepared
    <2>5. ASSUME pc' \in Done, NEW q \in Paths PROVE Low(q, FinalRow(q))'
      <3>1. q \notin deletes /\ FinalRow(q)' = FinalRow(q) /\ pc \in Prepared
        BY <1>1, <2>1, <2>5 DEF FinalRow, Done, Prepared
      <3>2. IF FinalRow(q) = NoRow THEN Of(index, q) = {}
            ELSE FinalRow(q).gen = fs[q].gen /\ FinalRow(q).ver = version =>
                   \A r \in Of(index, q) : r.line < NumLines(FinalRow(q).offset)
        BY <3>1, FinalRowLow
      <3> QED
        BY <1>1, <3>1, <3>2 DEF Low, Of
    <2>6. NoDuplicates'
      BY <1>1 DEF LinesInv, NoDuplicates
    <2> QED
      BY <1>3, <2>2, <2>3, <2>4, <2>5, <2>6 DEF LinesInv
  <1> QED
    BY <1>4, <1>5

\* The analytics transaction touches neither rows nor records.
LEMMA LinesAnalytics ==
    ASSUME TypeOK, TypeOK', LinesInv, PublishAnalytics
    PROVE  LinesInv'
  <1> USE DEF disk, store, published, prepared, parsing, bounds
  <1>1. /\ pc = "analytics" /\ pc' = "lexical"
        /\ UNCHANGED <<fs, version, authority, rows, pending, index, sess, tasks, deletes,
                       updates, todo, staged>>
    BY DEF PublishAnalytics
  <1>2. RowsLow'
    BY <1>1, RowsKept DEF LinesInv
  <1>3. Untouched'
    BY <1>1 DEF LinesInv, Untouched, Idle, Observing
  <1>4. SessLow'
    BY <1>1 DEF LinesInv, SessLow, Bound, Low, Of, Observing, Prepared
  <1>5. ASSUME NEW q \in Paths
        PROVE  TaskLow(q)' /\ Bound(q, updates[q])' /\ UpdateLow(q)'
    <2>1. TaskLow(q) /\ Bound(q, updates[q]) /\ UpdateLow(q)
      BY <1>1 DEF LinesInv, Prepared
    <2> QED
      BY <1>1, <2>1 DEF TaskLow, Bound, UpdateLow, Of, Prepared
  <1>6. NoDuplicates'
    BY <1>1 DEF LinesInv, NoDuplicates
  <1> QED
    BY <1>1, <1>2, <1>3, <1>4, <1>5, <1>6 DEF LinesInv, Done

\* The new generation holds every line once: what it adds lies above what stays.
LEMMA NewGenerationOnce ==
    ASSUME TypeOK, LogInv, LinesInv, pc = "lexical",
           NEW r \in NewGeneration, NEW q \in NewGeneration,
           r.path = q.path, r.line = q.line
    PROVE  r = q
  <1>1. ASSUME NEW a \in index, a.path \notin deletes, NEW b \in staged, a.path = b.path
        PROVE  a.line # b.line
    <2> DEFINE p == a.path
    <2>1. p \in Paths /\ a.line \in Nat /\ b.line \in Nat
      BY DEF TypeOK, Record
    <2>2. updates[p] # NoRow /\ a \in Of(index, p) /\ b \in Of(staged, p)
      BY <1>1 DEF LinesInv, Untouched, Of
    <2>3. UpdateLow(p) /\ TaskLow(p)
      BY <2>1 DEF LinesInv, Prepared
    <2>4. tasks[p] # NoTask /\ NumLines(tasks[p].offset) <= b.line
      BY <2>2, <2>3 DEF UpdateLow
    <2>5. a.line < NumLines(tasks[p].offset)
      BY <1>1, <2>2, <2>3, <2>4 DEF TaskLow, Prepared
    <2>6. NumLines(tasks[p].offset) \in Nat
      BY <2>1, NumLinesMonotone DEF TypeOK, Task
    <2> QED
      BY <2>1, <2>4, <2>5, <2>6
  <1>2. ASSUME NEW a \in staged, NEW b \in staged, a.path = b.path, a.line = b.line
        PROVE  a = b
    <2>1. a.path \in Paths /\ updates[a.path] # NoRow
      BY DEF TypeOK, Record, LinesInv, Untouched
    <2>2. UpdateLow(a.path)
      BY <2>1 DEF LinesInv, Prepared
    <2> QED
      BY <1>2, <2>1, <2>2 DEF UpdateLow, Of
  <1>3. \A a, b \in index : a.path = b.path /\ a.line = b.line => a = b
    BY DEF LinesInv, NoDuplicates
  <1>4. /\ r \in staged \/ (r \in index /\ r.path \notin deletes)
        /\ q \in staged \/ (q \in index /\ q.path \notin deletes)
    BY DEF NewGeneration
  <1>5. CASE r \in staged /\ q \in staged
    BY <1>2, <1>5
  <1>6. CASE r \in index /\ q \in index
    BY <1>3, <1>6
  <1>7. CASE r \in staged /\ q \in index /\ q.path \notin deletes
    BY <1>1, <1>7
  <1>8. CASE q \in staged /\ r \in index /\ r.path \notin deletes
    BY <1>1, <1>8
  <1> QED
    BY <1>4, <1>5, <1>6, <1>7, <1>8

\* Publishing keeps the committed rows above the index wherever the intent does
\* not say otherwise, and the rows to be committed everywhere.
LEMMA LinesPublish ==
    ASSUME TypeOK, TypeOK', LogInv, LeaseInv, LinesInv, PublishGeneration
    PROVE  LinesInv'
  <1> USE DEF disk, store, published, prepared, parsing, bounds
  <1>1. /\ pc = "lexical" /\ pc' \in {"vectors", "backfill", "mark_complete"}
        /\ index' = NewGeneration
        /\ UNCHANGED <<fs, version, authority, rows, pending, sess, tasks, deletes,
                       updates, todo, staged>>
    BY DEF PublishGeneration
  <1>2. ASSUME NEW p \in Paths
        PROVE  /\ Of(index', p) \subseteq Of(index, p) \cup Of(staged, p)
               /\ p \in deletes => Of(index', p) \subseteq Of(staged, p)
               /\ p \notin deletes => Of(index', p) = Of(index, p) \cup Of(staged, p)
    BY <1>1 DEF NewGeneration, Of
  <1>3. RowsLow'
    <2>1. ASSUME NEW p \in Paths \ pending.paths PROVE Of(index', p) = Of(index, p)
      <3>1. p \notin deletes /\ tasks[p] = NoTask
        BY <1>1 DEF LogInv, TaskPaths, PathsWith
      <3>2. Of(staged, p) = {}
        BY <3>1 DEF LogInv, Of
      <3> QED
        BY <1>2, <3>1, <3>2
    <2>2. \A p \in Paths : Bound(p, rows[p])
      BY DEF LinesInv, RowsLow
    <2>3. \A p \in Paths : Bound(p, rows[p])'
      BY <1>1, <2>2 DEF Bound
    <2>4. authority => \A p \in Paths \ pending.paths : Low(p, rows[p])'
      BY <1>1, <2>1 DEF LinesInv, RowsLow, Low
    <2> QED
      BY <1>1, <2>3, <2>4 DEF LinesInv, RowsLow
  <1>4. Untouched'
    BY <1>1 DEF LinesInv, Untouched, Idle, Observing
  <1>5. SessLow'
    BY <1>1 DEF LinesInv, SessLow, Bound, Observing, Prepared
  <1>6. ASSUME NEW q \in Paths
        PROVE  TaskLow(q)' /\ Bound(q, updates[q])'
    <2>1. TaskLow(q) /\ Bound(q, updates[q])
      BY DEF LinesInv
    <2> QED
      BY <1>1, <2>1 DEF TaskLow, Bound, Prepared
  <1>7. ASSUME NEW q \in Paths PROVE Low(q, FinalRow(q))'
    <2>1. FinalRow(q)' = FinalRow(q) /\ pc \in Prepared
      BY <1>1 DEF FinalRow, Prepared
    <2>2. IF FinalRow(q) = NoRow THEN Of(index', q) = {}
          ELSE FinalRow(q).gen = fs[q].gen /\ FinalRow(q).ver = version =>
                 \A r \in Of(index', q) : r.line < NumLines(FinalRow(q).offset)
      BY <1>2, <2>1, FinalRowLow
    <2> QED
      BY <1>1, <2>1, <2>2 DEF Low
  <1>8. NoDuplicates'
    BY <1>1, NewGenerationOnce DEF NoDuplicates
  <1> QED
    BY <1>1, <1>3, <1>4, <1>5, <1>6, <1>7, <1>8 DEF LinesInv, Prepared

\* The steps after publication touch neither rows nor records.
LEMMA LinesTail ==
    ASSUME TypeOK, TypeOK', LinesInv,
           PublishVectors \/ BackfillClear \/ BackfillFlush \/ MarkComplete
    PROVE  LinesInv'
  <1> USE DEF disk, store, published, prepared, parsing, bounds
  <1>1. /\ pc \in Done /\ pc' \in Done
        /\ UNCHANGED <<fs, version, authority, rows, pending, index, sess, tasks, deletes,
                       updates, todo, staged>>
    BY DEF PublishVectors, BackfillClear, BackfillFlush, MarkComplete, Done
  <1>2. RowsLow'
    BY <1>1, RowsKept DEF LinesInv
  <1>3. Untouched' /\ pc' \notin Prepared
    BY <1>1 DEF LinesInv, Untouched, Idle, Observing, Done, Prepared
  <1>4. SessLow'
    BY <1>1 DEF LinesInv, SessLow, Bound, Observing, Prepared, Done
  <1>5. ASSUME NEW q \in Paths
        PROVE  TaskLow(q)' /\ Bound(q, updates[q])' /\ Low(q, FinalRow(q))'
    <2>1. TaskLow(q) /\ Bound(q, updates[q]) /\ Low(q, FinalRow(q))
      BY <1>1 DEF LinesInv
    <2> QED
      BY <1>1, <2>1 DEF TaskLow, Bound, Low, FinalRow, Of, Prepared, Done
  <1>6. NoDuplicates'
    BY <1>1 DEF LinesInv, NoDuplicates
  <1> QED
    BY <1>2, <1>3, <1>4, <1>5, <1>6 DEF LinesInv

\* commit_final writes rows that are above the index.
LEMMA LinesCommitFinal ==
    ASSUME TypeOK, TypeOK', LeaseInv, LinesInv, CommitFinal
    PROVE  LinesInv'
  <1> USE DEF disk, store, published, prepared, parsing, bounds
  <1>1. /\ pc = "finalize" /\ authority /\ EndRun
        /\ rows' = [p \in Paths |-> FinalRow(p)] /\ pending' = NoIntent
        /\ UNCHANGED <<fs, version, authority, index>>
    BY DEF CommitFinal, EndRun, FinalRow, LeaseInv, Idle
  <1>2. \A p \in Paths : Low(p, FinalRow(p)) /\ Bound(p, FinalRow(p))
    BY <1>1 DEF LinesInv, SessLow, Done, FinalRow
  <1>3. \A p \in Paths : Low(p, rows[p])' /\ Bound(p, rows[p])'
    BY <1>1, <1>2 DEF Low, Bound, Of
  <1>4. RowsLow'
    BY <1>1, <1>3 DEF LinesInv, RowsLow
  <1> QED
    BY <1>1, <1>4, LinesEndRun

\* Every step keeps LinesInv.
LEMMA LinesStep ==
    ASSUME TypeOK, TypeOK', LogInv, LeaseInv, LinesInv, [Next]_vars
    PROVE  LinesInv'
  <1> USE DEF disk, store, published, prepared, parsing, bounds
  <1>1. ASSUME NEW q \in Paths,
               \/ FileAppend(q) \/ FileReplace(q) \/ FileDelete(q)
               \/ FileHide(q) \/ FileUnhide(q) \/ FileRestore(q)
        PROVE  LinesInv'
    <2>1. UNCHANGED lined /\ version' = version
      BY <1>1 DEF FileAppend, FileReplace, FileDelete, FileHide, FileUnhide, FileRestore,
                  lined
    <2>2. \A p \in Paths : FileGrows(p)
      BY <1>1, EnvironmentGrows
    <2>3. version <= version'
      BY <2>1 DEF TypeOK
    <2> QED
      BY <2>1, <2>2, <2>3, LinesGrow
  <1>2. CASE Upgrade \/ RefuseCheckpoint \/ UNCHANGED vars
    <2>1. UNCHANGED lined /\ fs' = fs /\ version <= version'
      BY <1>2 DEF Upgrade, RefuseCheckpoint, vars, lined, TypeOK
    <2>2. \A p \in Paths : FileGrows(p)
      BY <2>1 DEF FileGrows, TypeOK
    <2> QED
      BY <2>1, <2>2, LinesGrow
  <1>3. CASE Abort
    <2>1. EndRun /\ UNCHANGED <<fs, version, authority, rows, pending, index>>
      BY <1>3 DEF Abort, EndRun
    <2>2. RowsLow'
      BY <2>1, RowsKept DEF LinesInv
    <2> QED
      BY <2>1, <2>2, LinesEndRun
  <1> QED
    BY <1>1, <1>2, <1>3, LinesReset, LinesRecover, LinesObserve, LinesSweep, LinesDecide,
       LinesParse, LinesParseNothing, LinesCommitIntent, LinesAnalytics, LinesPublish,
       LinesTail, LinesCommitFinal
    DEF Next, Environment, Step, ObserveAll, ObserveDirty, PresentPaths

\* Two indexed records never describe one line, for any paths, parsers and bounds,
\* also when files are renamed away and back and when indexes are rebuilt.
THEOREM NeverDuplicated == Spec => []NoDuplicates
  <1>1. Init => LinesInv
    <2> SUFFICES ASSUME Init PROVE LinesInv
      OBVIOUS
    <2>1. /\ pc = "idle" /\ ~authority /\ pending = NoIntent /\ index = {} /\ version = 1
          /\ deletes = {} /\ todo = {} /\ staged = {}
          /\ \A p \in Paths : /\ rows[p] = NoRow /\ sess[p] = NoRow /\ updates[p] = NoRow
                              /\ tasks[p] = NoTask /\ fs[p].gen = 0
      BY DEF Init, NoRun
    <2>2. \A p \in Paths : Bound(p, NoRow)
      BY <2>1 DEF Bound, NoRow
    <2>3. RowsLow /\ Untouched /\ SessLow
      BY <2>1, <2>2 DEF RowsLow, Untouched, SessLow, Observing, Prepared
    <2>4. NoDuplicates
      BY <2>1 DEF NoDuplicates
    <2> QED
      BY <2>1, <2>2, <2>3, <2>4 DEF LinesInv, TaskLow, Prepared, Done
  <1>2. TypeOK /\ TypeOK' /\ LogInv /\ LeaseInv /\ LinesInv /\ [Next]_vars => LinesInv'
    BY LinesStep
  <1>3. LinesInv => NoDuplicates
    BY DEF LinesInv
  <1> QED
    BY <1>1, <1>2, <1>3, TypeCorrect, LogInvariant, IdsInvariant, PTL DEF Spec

=============================================================================
