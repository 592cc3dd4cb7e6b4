------------------------------- MODULE Ingest -------------------------------
(***************************************************************************)
(* The refresh pipeline of memex: transcripts that agents append to,       *)
(* rotate and delete are turned into records of the lexical index, rows of *)
(* the analytics catalogue and embedding vectors, and the checkpoint       *)
(* remembers how far each transcript was read.                             *)
(*                                                                         *)
(* Four stores change one after the other (checkpoint, analytics, lexical  *)
(* generation, vector generation).  None of them shares a transaction with *)
(* another, so a refresh writes an intent first (PendingIngest), publishes *)
(* store by store, and clears the intent in the transaction that advances  *)
(* the file rows.  A process killed anywhere in between is recovered by    *)
(* the next refresh, which replays every path the intent names.            *)
(*                                                                         *)
(* Sources: src/ingest/{mod,plan,discovery,execution,publication,          *)
(* checkpoint,selection}.rs, src/state/checkpoint.rs, src/analytics.rs,    *)
(* src/vector.rs, src/sources/{jsonl,claude}.rs, src/cli.rs.               *)
(***************************************************************************)
EXTENDS Integers, FiniteSets

CONSTANTS
    Paths,         \* transcript paths
    Bounded,       \* paths whose parser stops at the size discovery saw (Claude)
    Restorable,    \* paths a client may rename away and back, identity intact
    MaxGen,        \* bound: incarnations of one path
    MaxSize,       \* bound: chunks in one file
    MaxVersion,    \* bound: parser versions (binary upgrades)
    MaxFaults,     \* bound: crashes, failed parses, unreachable roots, restored files
    MaxResets,     \* bound: `memex index --rebuild` requests
    EmbedOptions   \* the values options.embeddings takes

ASSUME IngestAssumption ==
    /\ Bounded \subseteq Paths
    /\ Restorable \subseteq Paths
    /\ MaxGen \in Nat /\ MaxSize \in Nat /\ MaxVersion \in Nat
    /\ MaxFaults \in Nat /\ MaxResets \in Nat
    /\ EmbedOptions \subseteq BOOLEAN

VARIABLES
    fs,         \* the file system: what is at each path right now
    version,    \* parser version of the installed binary
    authority,  \* the checkpoint exists
    rows,       \* checkpoint: one FileState per path
    nextDoc,    \* checkpoint: next_doc_id
    pending,    \* checkpoint: the publication intent
    index,      \* records of the current lexical generation
    counts,     \* analytics: message_count per path (additive)
    complete,   \* analytics: the analytics_complete flag
    vectors,    \* records embedded in the current vector generation
    vstore,     \* VectorIndex::exists
    pc,         \* where the refresh that holds the ingest lease is
    opt,        \* options.embeddings
    rebuild,    \* empty_index_rebuild
    full,       \* full_scan
    sess,       \* the CheckpointSession's view of the rows
    next,       \* the AtomicU64 that parsers draw document ids from
    tasks,      \* one FileTask per changed path
    deletes,    \* delete_paths
    vdel,       \* vector_delete_paths
    embed,      \* embeddings: this refresh runs the embedder
    migrate,    \* reset_vector_store
    reconcile,  \* reconcile_vector_ids
    backfill,   \* analytics_needs_backfill
    todo,       \* tasks no parser has finished
    staged,     \* records in the private generation
    vstaged,    \* the staged vector generation
    updates,    \* FileUpdates received from the parsers
    failed,     \* a parser returned an error
    faults,     \* faults so far
    resets      \* rebuild requests so far

disk == <<fs, version>>
store == <<authority, rows, nextDoc, pending>>
published == <<index, counts, complete, vectors, vstore>>
prepared == <<opt, rebuild, full, sess, tasks, deletes, vdel, embed, migrate,
              reconcile, backfill>>
parsing == <<next, todo, staged, vstaged, updates, failed>>
bounds == <<faults, resets>>
vars == <<disk, store, published, pc, prepared, parsing, bounds>>

-----------------------------------------------------------------------------
(* Data.  A transcript is a sequence of three-chunk lines: the opening of a *)
(* JSON object, its end, and the newline.  A size of 3n+1 is a torn line,   *)
(* 3n+2 a complete object without its newline, 3n a newline-terminated file.*)
(* Generation 0 stands for "none": no row, no task.  The change time of a   *)
(* file is compared only where its size is the same, so that it counts the  *)
(* changes that leave the size alone: how often the file was renamed.       *)

Row == [gen : Nat, size : Nat, ctime : Nat, offset : Nat, ver : Nat]
NoRow == [gen |-> 0, size |-> 0, ctime |-> 0, offset |-> 0, ver |-> 0]

Changes == {"None", "New", "Append", "Replaced", "ParserChanged"}
Task == [gen : Nat, size : Nat, ctime : Nat, offset : Nat, change : Changes]
NoTask == [gen |-> 0, size |-> 0, ctime |-> 0, offset |-> 0, change |-> "None"]

Intent == [set : BOOLEAN, paths : SUBSET Paths, next : Nat,
           vdel : SUBSET Paths, vec : BOOLEAN, emb : BOOLEAN]
NoIntent == [set |-> FALSE, paths |-> {}, next |-> 0, vdel |-> {},
             vec |-> FALSE, emb |-> FALSE]

Record == [path : Paths, gen : Nat, line : Nat, ver : Nat, doc : Nat]

Larger(a, b) == IF a < b THEN b ELSE a
Smaller(a, b) == IF a < b THEN a ELSE b

\* Lines wholly below a byte offset that a parser stops at.
NumLines(o) == (o + 1) \div 3

\* Mutant: the last byte is taken for a newline, even of an empty file.
ReadEndOffByOne(start, size, deferTail) == IF size % 3 = 2 THEN size ELSE size - 1

\* Where reading stops: complete JSON is consumed without its newline unless
\* the file already grew past the boundary, and a torn tail never is.
ReadEnd(start, size, deferTail) ==
    LET stop == IF size % 3 = 2 /\ ~deferTail THEN size ELSE 3 * (size \div 3)
    IN  Larger(start, stop)

\* jsonl::resume_offset: clamp to the file, step back over a torn line.
ResumeOffset(offset, size) ==
    LET o == Smaller(offset, size) IN IF o % 3 = 1 THEN o - 1 ELSE o

Docs(recs) == {r.doc : r \in recs}
Of(recs, p) == {r \in recs : r.path = p}
Recovering == pending.set
PathsWith(f, none) == {p \in Paths : f[p] # none}

-----------------------------------------------------------------------------
NoRun ==
    /\ pc = "idle"
    /\ opt = FALSE /\ rebuild = FALSE /\ full = FALSE
    /\ sess = [p \in Paths |-> NoRow]
    /\ next = 0
    /\ tasks = [p \in Paths |-> NoTask]
    /\ deletes = {} /\ vdel = {}
    /\ embed = FALSE /\ migrate = FALSE /\ reconcile = FALSE
    /\ backfill = FALSE
    /\ todo = {} /\ staged = {} /\ vstaged = {}
    /\ updates = [p \in Paths |-> NoRow]
    /\ failed = FALSE

Init ==
    /\ fs = [p \in Paths |-> [where |-> "absent", gen |-> 0, size |-> 0, ctime |-> 0]]
    /\ version = 1
    /\ authority = FALSE
    /\ rows = [p \in Paths |-> NoRow]
    /\ nextDoc = 1
    /\ pending = NoIntent
    /\ index = {} /\ vectors = {} /\ vstore = FALSE
    /\ counts = [p \in Paths |-> 0]
    /\ complete = FALSE
    /\ NoRun
    /\ faults = 0 /\ resets = 0

-----------------------------------------------------------------------------
(* The environment: clients write transcripts without asking anybody.      *)

FileAppend(p) ==
    /\ fs[p].where = "present" /\ fs[p].size < MaxSize
    /\ fs' = [fs EXCEPT ![p].size = @ + 1]
    /\ UNCHANGED <<version, store, published, pc, prepared, parsing, bounds>>

\* A new file at the path: first creation, rotation, truncation, rewrite.
FileReplace(p) ==
    /\ fs[p].where # "hidden" /\ fs[p].gen < MaxGen
    /\ \E s \in 0..MaxSize :
          fs' = [fs EXCEPT ![p] = [where |-> "present", gen |-> @.gen + 1,
                                   size |-> s, ctime |-> 0]]
    /\ UNCHANGED <<version, store, published, pc, prepared, parsing, bounds>>

FileDelete(p) ==
    /\ fs[p].where = "present"
    /\ fs' = [fs EXCEPT ![p].where = "absent"]
    /\ UNCHANGED <<version, store, published, pc, prepared, parsing, bounds>>

\* The directory above the file becomes unreachable, and comes back.
FileHide(p) ==
    /\ fs[p].where = "present" /\ faults < MaxFaults
    /\ fs' = [fs EXCEPT ![p].where = "hidden"]
    /\ faults' = faults + 1
    /\ UNCHANGED <<version, store, published, pc, prepared, parsing, resets>>

FileUnhide(p) ==
    /\ fs[p].where = "hidden"
    /\ fs' = [fs EXCEPT ![p].where = "present"]
    /\ UNCHANGED <<version, store, published, pc, prepared, parsing, bounds>>

\* The file that was renamed away is renamed back: the same device, inode and
\* contents, and a new change time.
FileRestore(p) ==
    /\ p \in Restorable /\ faults < MaxFaults
    /\ fs[p].where = "absent" /\ fs[p].gen > 0
    /\ fs' = [fs EXCEPT ![p].where = "present", ![p].ctime = @ + 1]
    /\ faults' = faults + 1
    /\ UNCHANGED <<version, store, published, pc, prepared, parsing, resets>>

Upgrade ==
    /\ pc = "idle" /\ version < MaxVersion
    /\ version' = version + 1
    /\ UNCHANGED <<fs, store, published, pc, prepared, parsing, bounds>>

-----------------------------------------------------------------------------
(* `memex index --rebuild`: artifacts go one by one, the checkpoint first. *)

ResetCheckpoint ==
    /\ pc = "idle" /\ resets < MaxResets
    /\ resets' = resets + 1
    /\ authority' = FALSE
    /\ rows' = [p \in Paths |-> NoRow]
    /\ nextDoc' = 1
    /\ pending' = NoIntent
    /\ pc' = "reset_index"
    /\ UNCHANGED <<disk, published, prepared, parsing, faults>>

ResetIndex ==
    /\ pc = "reset_index"
    /\ index' = {}
    /\ pc' = "reset_vectors"
    /\ UNCHANGED <<disk, store, counts, complete, vectors, vstore, prepared,
                   parsing, bounds>>

ResetVectors ==
    /\ pc = "reset_vectors"
    /\ vectors' = {} /\ vstore' = FALSE
    /\ pc' = "reset_analytics"
    /\ UNCHANGED <<disk, store, index, counts, complete, prepared, parsing,
                   bounds>>

ResetAnalytics ==
    /\ pc = "reset_analytics"
    /\ counts' = [p \in Paths |-> 0] /\ complete' = FALSE
    /\ pc' = "reset"
    /\ UNCHANGED <<disk, store, index, vectors, vstore, prepared, parsing,
                   bounds>>

-----------------------------------------------------------------------------
(* recover_checkpoint: open the checkpoint under the lease, forget the rows *)
(* an interrupted refresh was about to change, and never draw an id twice.  *)

\* Mutant: recovery resumes from the rows the intent names.
SurvivingRowsKeepAll == rows

SurvivingRows == [p \in Paths |-> IF p \in pending.paths THEN NoRow ELSE rows[p]]

\* Mutant: recovery forgets the ids the interrupted refresh drew.
FirstFreeDocNoIntent == nextDoc

FirstFreeDoc == Larger(nextDoc, pending.next)

\* Mutant: a populated index without a checkpoint is adopted.
RecoverCheckpointAdopt(o) ==
    /\ pc \in {"idle", "reset"}
    /\ o \in EmbedOptions
    /\ authority' = TRUE
    /\ opt' = o
    /\ rebuild' = FALSE
    /\ sess' = SurvivingRows
    /\ next' = FirstFreeDoc
    /\ pc' = "observe"
    /\ UNCHANGED <<disk, rows, nextDoc, pending, published, full, tasks, deletes,
                   vdel, embed, migrate, reconcile, backfill, todo, staged,
                   vstaged, updates, failed, bounds>>

RecoverCheckpoint(o) ==
    /\ pc \in {"idle", "reset"}
    /\ o \in EmbedOptions
    /\ authority \/ index = {}
    /\ authority' = TRUE
    /\ opt' = o
    /\ rebuild' = (index = {} /\ PathsWith(SurvivingRows, NoRow) # {})
    /\ sess' = IF rebuild' THEN [p \in Paths |-> NoRow] ELSE SurvivingRows
    /\ vectors' = IF rebuild' THEN {} ELSE vectors
    /\ vstore' = (vstore /\ ~rebuild')
    /\ next' = FirstFreeDoc
    /\ pc' = "observe"
    /\ UNCHANGED <<disk, rows, nextDoc, pending, index, counts, complete, full,
                   tasks, deletes, vdel, embed, migrate, reconcile, backfill,
                   todo, staged, vstaged, updates, failed, bounds>>

\* A populated index without a checkpoint or an intent is refused.
RefuseCheckpoint ==
    /\ pc = "idle" /\ ~authority /\ index # {}
    /\ UNCHANGED vars

-----------------------------------------------------------------------------
(* prepare_refresh: stat every selected path and classify it.              *)

\* A changed file of the same size is taken for another one.
Rewritten(file, row) == file.size = row.size /\ file.ctime # row.ctime

ClassifyFile(file, row) ==
    CASE row = NoRow -> "New"
      [] row # NoRow /\ row.ver # version -> "ParserChanged"
      [] row # NoRow /\ row.ver = version
         /\ (\/ file.size < row.size \/ file.size < row.offset
             \/ file.gen # row.gen \/ Rewritten(file, row)) -> "Replaced"
      [] row # NoRow /\ row.ver = version /\ file.gen = row.gen
         /\ file.size = row.size /\ file.ctime = row.ctime
         /\ row.offset <= file.size -> "None"
      [] OTHER -> "Append"

PrepareFileTask(file, row) ==
    LET change == ClassifyFile(file, row)
    IN  IF change = "None" THEN NoTask
        ELSE [gen |-> file.gen, size |-> file.size, ctime |-> file.ctime,
              change |-> change,
              offset |-> IF change = "Append" THEN row.offset ELSE 0]

PresentPaths == {p \in Paths : fs[p].where = "present"}

Observe(selected) ==
    /\ pc = "observe"
    /\ tasks' = [p \in Paths |->
                    IF p \in selected THEN PrepareFileTask(fs[p], sess[p])
                    ELSE NoTask]
    /\ pc' = "sweep"
    /\ UNCHANGED <<disk, store, published, opt, rebuild, sess, deletes, vdel,
                   embed, migrate, reconcile, backfill, parsing, bounds>>

ObserveAll == full' = TRUE /\ Observe(PresentPaths)

\* A refresh narrowed to event hints.  A hint that is gone, an intent to
\* recover or an index to rebuild widens it to everything.
ObserveDirty(dirty) ==
    /\ ~Recovering /\ ~rebuild /\ dirty \subseteq PresentPaths
    /\ full' = FALSE
    /\ Observe(dirty)

\* Mutant: the records of a replaced incarnation stay.
DeleteFirstParserOnly(p) == tasks[p].change = "ParserChanged"

DeleteFirst(p) == tasks[p].change \in {"Replaced", "ParserChanged"}

TaskPaths == PathsWith(tasks, NoTask)

\* recover_embeddings
RecoverEmbeddings ==
    \/ pending.emb
    \/ pending.vec /\ vstore /\ TaskPaths \cap (pending.paths \ pending.vdel) # {}

\* The tombstone sweep stats every tracked path again, then the refresh fixes
\* what it will delete and which vector work it owes.
Sweep ==
    /\ pc = "sweep"
    /\ LET missing == IF full THEN {p \in Paths : sess[p] # NoRow
                                                  /\ fs[p].where = "absent"}
                      ELSE {}
           replaced == {p \in Paths : DeleteFirst(p)}
       IN  /\ sess' = [p \in Paths |-> IF p \in missing THEN NoRow ELSE sess[p]]
           /\ deletes' = pending.paths \cup missing \cup replaced
           /\ vdel' = pending.vdel \cup missing \cup replaced
    /\ migrate' = (vstore /\ \E p \in Paths : tasks[p].change = "ParserChanged")
    /\ embed' = (opt \/ migrate' \/ RecoverEmbeddings)
    /\ reconcile' = pending.vec
    /\ pc' = "decide"
    /\ UNCHANGED <<disk, store, published, opt, rebuild, full, tasks, backfill,
                   parsing, bounds>>

-----------------------------------------------------------------------------
(* execute_refresh up to the parsers.                                      *)

Covers(vecs, recs) == Docs(recs) \subseteq Docs(vecs)

SourceChanges == TaskPaths # {} \/ deletes # {}

VectorWork ==
    \/ RecoverEmbeddings
    \/ reconcile
    \/ full /\ ~SourceChanges /\ opt /\ ~(vstore /\ Covers(vectors, index))

\* Mutant: a flag that survived a crash is believed.
NeedsBackfillTrustFlag == ~complete /\ index # {}

NeedsBackfill ==
    \/ rebuild
    \/ Recovering
    \/ IF index = {} THEN \E p \in Paths : counts[p] > 0 ELSE ~complete

DecideRefresh ==
    /\ pc = "decide"
    /\ backfill' = NeedsBackfill
    /\ complete' = (complete /\ ~NeedsBackfill)
    /\ \/ /\ SourceChanges \/ VectorWork
          /\ pc' = "parse"
          /\ todo' = TaskPaths
       \/ /\ ~(SourceChanges \/ VectorWork)
          /\ pc' = IF NeedsBackfill THEN "backfill" ELSE "finalize"
          /\ UNCHANGED todo
    /\ UNCHANGED <<disk, store, index, counts, vectors, vstore, opt, rebuild,
                   full, sess, tasks, deletes, vdel, embed, migrate, reconcile,
                   next, staged, vstaged, updates, failed, bounds>>

\* What a parser reads from the file it opens: it may have grown, or be
\* another incarnation, since discovery.
ParseStart(p) ==
    IF p \in Bounded THEN tasks[p].offset
    ELSE ResumeOffset(tasks[p].offset, fs[p].size)

ParseEnd(p) ==
    IF p \in Bounded
    THEN ReadEnd(ParseStart(p), Smaller(tasks[p].size, fs[p].size),
                 tasks[p].size < fs[p].size)
    ELSE ReadEnd(ParseStart(p), fs[p].size, FALSE)

ParsedLines(p) == NumLines(ParseStart(p))..(NumLines(ParseEnd(p)) - 1)

ParsedRecords(p) ==
    {[path |-> p, gen |-> fs[p].gen, line |-> l, ver |-> version,
      doc |-> next + (l - NumLines(ParseStart(p)))] : l \in ParsedLines(p)}

\* Mutants: the row describes the file as it is now, not as discovered.
CompletedFileStateIdentityNow(p) ==
    [gen |-> fs[p].gen, size |-> tasks[p].size, ctime |-> tasks[p].ctime,
     offset |-> ParseEnd(p), ver |-> version]
CompletedFileStateSizeNow(p) ==
    [gen |-> tasks[p].gen, size |-> fs[p].size, ctime |-> tasks[p].ctime,
     offset |-> ParseEnd(p), ver |-> version]

CompletedFileState(p) ==
    [gen |-> tasks[p].gen, size |-> tasks[p].size, ctime |-> tasks[p].ctime,
     offset |-> ParseEnd(p), ver |-> version]

Parse(p) ==
    /\ pc = "parse" /\ p \in todo /\ fs[p].where = "present"
    /\ staged' = staged \cup ParsedRecords(p)
    /\ next' = Larger(next, next + (NumLines(ParseEnd(p)) - NumLines(ParseStart(p))))
    /\ updates' = [updates EXCEPT ![p] = CompletedFileState(p)]
    /\ todo' = todo \ {p}
    /\ UNCHANGED <<disk, store, published, pc, prepared, vstaged, failed, bounds>>

\* NotFound: the transcript went away after discovery and is skipped.
ParseSkip(p) ==
    /\ pc = "parse" /\ p \in todo /\ fs[p].where # "present"
    /\ todo' = todo \ {p}
    /\ UNCHANGED <<disk, store, published, pc, prepared, next, staged, vstaged,
                   updates, failed, bounds>>

\* Any other error stops the pool; records may have been numbered already.
ParseFail(p) ==
    /\ pc = "parse" /\ p \in todo /\ faults < MaxFaults
    /\ \E ids \in 0..1 : next' = next + ids
    /\ todo' = {}
    /\ failed' = TRUE
    /\ faults' = faults + 1
    /\ UNCHANGED <<disk, store, published, pc, prepared, staged, vstaged,
                   updates, resets>>

-----------------------------------------------------------------------------
(* The intent, then the writer's decision.                                 *)

VectorPublication == embed \/ reconcile \/ (vdel # {} /\ vstore)

NeedsPublication == deletes # {} \/ embed \/ reconcile \/ next # FirstFreeDoc

\* Mutant: the intent names what will be written, not what will be deleted.
PendingIngestTasksOnly ==
    [set |-> TRUE, paths |-> TaskPaths, next |-> next,
     vdel |-> vdel, vec |-> VectorPublication, emb |-> embed]

PendingIngest ==
    [set |-> TRUE, paths |-> deletes \cup TaskPaths, next |-> next,
     vdel |-> vdel, vec |-> VectorPublication, emb |-> embed]

\* do_backfill_embeddings, which recovering embeddings implies
DoBackfillEmbeddings == migrate \/ (embed /\ VectorWork)

\* writer_fast_path_needs_vectors: the embedder owes vectors for what is indexed.
FastPathNeedsVectors == embed /\ IF vstore THEN ~Covers(vectors, index) ELSE index # {}

\* writer_loop's early return: nothing to add, delete or embed.
CheckpointsOnly ==
    /\ staged = {} /\ deletes = {} /\ ~DoBackfillEmbeddings /\ ~reconcile
    /\ ~FastPathNeedsVectors

EndRun ==
    /\ pc' = "idle"
    /\ opt' = FALSE /\ rebuild' = FALSE /\ full' = FALSE
    /\ sess' = [p \in Paths |-> NoRow]
    /\ next' = 0
    /\ tasks' = [p \in Paths |-> NoTask]
    /\ deletes' = {} /\ vdel' = {}
    /\ embed' = FALSE /\ migrate' = FALSE /\ reconcile' = FALSE
    /\ backfill' = FALSE
    /\ todo' = {} /\ staged' = {} /\ vstaged' = {}
    /\ updates' = [p \in Paths |-> NoRow]
    /\ failed' = FALSE
    /\ UNCHANGED <<disk, published, resets>>

CommitIntent ==
    /\ pc = "parse" /\ todo = {}
    /\ pending' = IF NeedsPublication THEN PendingIngest ELSE pending
    /\ UNCHANGED <<authority, rows, nextDoc>>
    /\ \/ /\ failed
          /\ EndRun
          /\ UNCHANGED faults
       \/ /\ ~failed
          /\ pc' = IF CheckpointsOnly
                   THEN IF backfill THEN "backfill" ELSE "mark_complete"
                   ELSE "analytics"
          /\ UNCHANGED <<disk, published, prepared, parsing, bounds>>

-----------------------------------------------------------------------------
(* writer_loop after Commit: analytics, lexical generation, vectors.       *)

\* Mutant: counts are added without dropping those of deleted paths.
PublishAnalyticsAddOnly ==
    /\ pc = "analytics"
    /\ counts' = [p \in Paths |-> counts[p] + Cardinality(Of(staged, p))]
    /\ pc' = "lexical"
    /\ UNCHANGED <<disk, store, index, complete, vectors, vstore, prepared,
                   parsing, bounds>>

PublishAnalytics ==
    /\ pc = "analytics"
    /\ counts' = [p \in Paths |-> (IF p \in deletes THEN 0 ELSE counts[p])
                                  + Cardinality(Of(staged, p))]
    /\ pc' = "lexical"
    /\ UNCHANGED <<disk, store, index, complete, vectors, vstore, prepared,
                   parsing, bounds>>

NewGeneration == {r \in index : r.path \notin deletes} \cup staged

\* The vector generation is staged from the generation about to be published:
\* scoped ids go, ids that are no longer live go when reconciling, and with an
\* embedder every live record without a vector under its id gets one.
ScopedDocs == Docs({r \in index : r.path \in deletes \cap vdel})

\* backfill_embeddings: a vector for every live record whose id has none.
BackfillEmbeddings(vecs) == {r \in NewGeneration : r.doc \notin Docs(vecs)}

\* Mutant: only the records of this refresh are embedded.
NewVectorsStagedOnly ==
    LET opened == IF migrate THEN {} ELSE {v \in vectors : v.doc \notin ScopedDocs}
    IN  opened \cup IF embed THEN staged ELSE {}

NewVectors ==
    LET opened == IF migrate THEN {} ELSE {v \in vectors : v.doc \notin ScopedDocs}
        kept == IF reconcile
                THEN {v \in opened : v.doc \in Docs(NewGeneration)}
                ELSE opened
    IN  kept \cup IF embed THEN BackfillEmbeddings(kept) ELSE {}

OpensVectors == embed \/ ((reconcile \/ ScopedDocs # {}) /\ vstore)

PublishGeneration ==
    /\ pc = "lexical"
    /\ index' = NewGeneration
    /\ vstaged' = NewVectors
    /\ pc' = IF OpensVectors THEN "vectors"
             ELSE IF backfill THEN "backfill" ELSE "mark_complete"
    /\ UNCHANGED <<disk, store, counts, complete, vectors, vstore, prepared,
                   next, todo, staged, updates, failed, bounds>>

PublishVectors ==
    /\ pc = "vectors"
    /\ vectors' = vstaged /\ vstore' = TRUE
    /\ pc' = IF backfill THEN "backfill" ELSE "mark_complete"
    /\ UNCHANGED <<disk, store, index, counts, complete, prepared, parsing,
                   bounds>>

-----------------------------------------------------------------------------
(* Analytics completion and the final transaction.                         *)

BackfillClear ==
    /\ pc = "backfill"
    /\ complete' = FALSE
    /\ counts' = [p \in Paths |-> 0]
    /\ pc' = "backfill_flush"
    /\ UNCHANGED <<disk, store, index, vectors, vstore, prepared, parsing, bounds>>

BackfillFlush ==
    /\ pc = "backfill_flush"
    /\ counts' = [p \in Paths |-> counts[p] + Cardinality(Of(index, p))]
    /\ pc' = "mark_complete"
    /\ UNCHANGED <<disk, store, index, complete, vectors, vstore, prepared,
                   parsing, bounds>>

MarkComplete ==
    /\ pc = "mark_complete"
    /\ complete' = TRUE
    /\ pc' = "finalize"
    /\ UNCHANGED <<disk, store, index, counts, vectors, vstore, prepared,
                   parsing, bounds>>

CommitFinal ==
    /\ pc = "finalize"
    /\ rows' = [p \in Paths |-> IF updates[p] # NoRow THEN updates[p] ELSE sess[p]]
    /\ nextDoc' = next
    /\ pending' = NoIntent
    /\ UNCHANGED <<authority, faults>>
    /\ EndRun

\* A crash, a kill or an I/O error: what was only in memory is gone.
Abort ==
    /\ pc # "idle" /\ faults < MaxFaults
    /\ faults' = faults + 1
    /\ UNCHANGED store
    /\ EndRun

-----------------------------------------------------------------------------
Environment ==
    \/ \E p \in Paths : \/ FileAppend(p) \/ FileReplace(p) \/ FileDelete(p)
                        \/ FileHide(p) \/ FileUnhide(p) \/ FileRestore(p)
    \/ Upgrade

Reset == ResetCheckpoint \/ ResetIndex \/ ResetVectors \/ ResetAnalytics

Step ==
    \/ Sweep \/ DecideRefresh \/ CommitIntent
    \/ PublishAnalytics \/ PublishGeneration \/ PublishVectors
    \/ BackfillClear \/ BackfillFlush \/ MarkComplete \/ CommitFinal
    \/ \E p \in Paths : Parse(p) \/ ParseSkip(p)

Next ==
    \/ Environment
    \/ Reset
    \/ \E o \in BOOLEAN : RecoverCheckpoint(o)
    \/ RefuseCheckpoint
    \/ ObserveAll
    \/ \E dirty \in SUBSET Paths : ObserveDirty(dirty)
    \/ Step
    \/ \E p \in Paths : ParseFail(p)
    \/ Abort

Spec == Init /\ [][Next]_vars

\* A step of a live process eventually happens; somebody keeps asking for
\* refreshes; and the resync deadline, which narrowed refreshes never move,
\* makes a full scan come round again and again.
Fairness ==
    /\ WF_vars(Step)
    /\ WF_vars(\E o \in BOOLEAN : RecoverCheckpoint(o))
    /\ SF_vars(ObserveAll)

FairSpec == Spec /\ Fairness

-----------------------------------------------------------------------------
\* Every store and every piece of a refresh stays well typed: offsets, lines and
\* document ids never go negative, whatever a parser finds when it opens a file
\* that shrank, grew or was replaced since discovery (finish_file_task), and the
\* message counts of analytics stay natural.
TypeOK ==
    /\ fs \in [Paths -> [where : {"present", "absent", "hidden"},
                         gen : Nat, size : Nat, ctime : Nat]]
    /\ version \in Nat
    /\ authority \in BOOLEAN
    /\ rows \in [Paths -> Row] /\ sess \in [Paths -> Row]
    /\ updates \in [Paths -> Row]
    /\ nextDoc \in Nat /\ next \in Nat
    /\ pending \in Intent
    /\ index \subseteq Record /\ staged \subseteq Record
    /\ vectors \subseteq Record /\ vstaged \subseteq Record
    /\ IsFiniteSet(index) /\ IsFiniteSet(staged)
    /\ counts \in [Paths -> Nat]
    /\ complete \in BOOLEAN /\ vstore \in BOOLEAN
    /\ opt \in BOOLEAN /\ rebuild \in BOOLEAN /\ full \in BOOLEAN
    /\ embed \in BOOLEAN /\ migrate \in BOOLEAN /\ reconcile \in BOOLEAN
    /\ backfill \in BOOLEAN /\ failed \in BOOLEAN
    /\ tasks \in [Paths -> Task]
    /\ deletes \subseteq Paths /\ vdel \subseteq Paths /\ todo \subseteq Paths
    /\ faults \in Nat /\ resets \in Nat
    /\ pc \in {"idle", "reset_index", "reset_vectors", "reset_analytics", "reset",
              "observe", "sweep", "decide", "parse", "analytics", "lexical",
              "vectors", "backfill", "backfill_flush", "mark_complete",
              "finalize"}

\* The lines of p that a reader of the index sees, and that they are the lines
\* below the row's offset, of its incarnation, parsed by its parser version.
LinesExactly(recs, lines, gen, ver) ==
    /\ {r.line : r \in recs} = lines
    /\ \A r \in recs : r.gen = gen /\ r.ver = ver
    /\ \A r, q \in recs : r.line = q.line => r = q

Indexed(p, row) ==
    /\ row.offset <= fs[p].size
    /\ LinesExactly(Of(index, p), 0..(NumLines(row.offset) - 1), row.gen, row.ver)

\* A row that classify_file would resume from, or take for the file as it is,
\* describes exactly what is indexed:
\* no line below its offset is missing, duplicated, torn or from another
\* incarnation, whatever crashed and whatever the clients wrote during the
\* refresh.  Rows that an intent covers are forgotten by recover_checkpoint and
\* replayed instead.
TrustedRows ==
    authority =>
        \A p \in Paths \ pending.paths :
            IF rows[p] = NoRow THEN Of(index, p) = {}
            ELSE ClassifyFile(fs[p], rows[p]) \in {"None", "Append"}
                    => Indexed(p, rows[p])

\* Two indexed records never describe one line: every path that writer_loop adds
\* records for again, after a crash, a rotation or a parser upgrade, is first
\* deleted (finalized_pending_ingest, delete_first), also when the checkpoint or
\* the index is reset in between.
NoDuplicates ==
    \A r, q \in index : r.path = q.path /\ r.line = q.line => r = q

\* A document id names one record, in the index and among the vectors: a
\* vector hit is never resolved to another record's text, because
\* recover_checkpoint never draws an id an interrupted refresh may have published.
DocIdsName ==
    \A r, q \in index \cup vectors : r.doc = q.doc => r = q

\* A catalogue that claims to be complete counts what is indexed, although its
\* counts are added in a transaction before the index is published: whoever
\* crashed in between, needs-backfill recounts before the flag is set again.
AnalyticsAgree ==
    authority /\ complete /\ ~pending.set /\ index # {} =>
        \A p \in Paths : counts[p] = Cardinality(Of(index, p))

\* publish_generation changes records only under a durable intent that names
\* their path (commit_intent comes first); `index --rebuild` alone is exempt.
WriteAhead ==
    [][pc # "reset_index" =>
         \A r \in (index \ index') \cup (index' \ index) : r.path \in pending.paths]_vars

\* An interrupted refresh stays on record until a refresh that finished clears
\* it (commit_final): cancelling, failing or crashing again in a later refresh
\* never narrows what must be replayed (replace_pending).
IntentRetained ==
    [][pending.set /\ pc \notin {"idle", "finalize"} =>
         /\ pending'.set
         /\ pending.paths \subseteq pending'.paths
         /\ pending.vdel \subseteq pending'.vdel
         /\ pending.next <= pending'.next]_vars

\* A refresh that ran the embedder leaves no indexed record without a vector
\* (backfill_embeddings), also for records published while embeddings were off
\* or by a refresh that died between the index and the vectors.  A narrowed
\* refresh that only has the option set may find nothing to do and returns
\* before it looks at the vectors (can_skip_noop_index is asked of full scans).
EmbeddingCovers ==
    pc = "finalize" /\ embed /\ (full \/ ~opt) => Covers(vectors, index)

Converged(p) ==
    /\ fs[p].where = "present" =>
          LinesExactly(Of(index, p), 0..(NumLines(ReadEnd(0, fs[p].size, FALSE)) - 1),
                       fs[p].gen, version)
    /\ fs[p].where = "absent" => Of(index, p) = {}

\* Once the clients pause, the refreshes bring the index to every complete line
\* on disk and nothing else, whatever crashed before: no row that looks
\* unchanged to unchanged_file_metadata hides lines that were never read.
EventuallyConverged == <>[](\A p \in Paths : Converged(p))

=============================================================================
