--------------------------- MODULE IngestInvariant ---------------------------
(***************************************************************************)
(* Why the properties of the refresh pipeline hold: their inductive        *)
(* invariants.  RefreshInv, behind TrustedRows, has one conjunct per thing *)
(* a refresh carries from one phase to the next; everything in it is       *)
(* relative to the file as it is now, which only gets a larger generation, *)
(* or more bytes at the same generation, whatever the refresh is doing.    *)
(* The others, behind the intent, the ids, the catalogue, the vectors and  *)
(* the single record of a line, need less of the files.                    *)
(***************************************************************************)
EXTENDS Ingest

Idle == {"idle", "reset_index", "reset_vectors", "reset_analytics", "reset"}
Observing == {"observe", "sweep"}
Prepared == {"decide", "parse", "analytics", "lexical"}
Done == {"vectors", "backfill", "backfill_flush", "mark_complete", "finalize"}

\* What no discovered or stored row can outrun.
RowOK(p, row) ==
    /\ row.gen <= fs[p].gen
    /\ row.ver <= version
    /\ row.offset % 3 # 1
    /\ row.gen = fs[p].gen => row.size <= fs[p].size /\ row.offset <= fs[p].size
    /\ row.gen = fs[p].gen /\ row # NoRow => row.ctime = fs[p].ctime

\* A row the next scan is certain to re-read from the start.
Stale(p, row) == row.gen < fs[p].gen \/ row.ver < version

Trusted(p, row) ==
    IF row = NoRow THEN Of(index, p) = {}
    ELSE row.gen = fs[p].gen /\ row.ver = version => Indexed(p, row)

FinalRow(p) == IF updates[p] # NoRow THEN updates[p] ELSE sess[p]

\* The checkpoint by itself: what a crash leaves behind.
StoreInv ==
    /\ version > 0
    /\ \A p \in Paths : RowOK(p, rows[p])
    /\ ~authority => rows = [p \in Paths |-> NoRow] /\ pending = NoIntent
    /\ authority => \A p \in Paths \ pending.paths : Trusted(p, rows[p])
    /\ pc \notin Idle => authority
    /\ pc \in Idle \ {"idle"} => ~authority

\* What a phase has not touched yet.
FreshInv ==
    /\ pc \in Idle \cup Observing => deletes = {}
    /\ pc \in Idle \cup Observing \cup {"decide"} =>
          staged = {} /\ todo = {} /\ updates = [p \in Paths |-> NoRow]
    /\ pc \in Idle \cup {"observe"} => tasks = [p \in Paths |-> NoTask]
    /\ migrate => embed

\* Ids tell whether a parser produced records.
DocInv ==
    /\ pc \in Observing => next = FirstFreeDoc
    /\ pc \in {"decide", "parse"} =>
          /\ next >= FirstFreeDoc
          /\ staged # {} => next > FirstFreeDoc

\* The session's rows: trusted, or their records are about to be deleted.
SessInv ==
    /\ \A p \in Paths : RowOK(p, sess[p])
    /\ pc \in Observing =>
          \A p \in Paths : IF p \in pending.paths THEN sess[p] = NoRow
                           ELSE Trusted(p, sess[p])
    /\ pc \in Prepared =>
          \A p \in Paths : IF p \in deletes THEN Stale(p, sess[p])
                           ELSE Trusted(p, sess[p])

\* The intent covers what will be deleted and, once written, what is added.
IntentInv ==
    /\ pc \in {"decide", "parse"} => pending.paths \subseteq deletes
    /\ pc \in {"analytics", "lexical"} => pending.paths = deletes \cup TaskPaths

\* A task resumes only from a session row whose records stay.
TaskOK(p) ==
    LET t == tasks[p] IN
    t # NoTask =>
       /\ t.change # "None"
       /\ t.gen <= fs[p].gen
       /\ t.gen = fs[p].gen => t.size <= fs[p].size /\ t.ctime = fs[p].ctime
       /\ t.offset % 3 # 1
       /\ t.change # "Append" => t.offset = 0
       /\ t.change = "New" => sess[p] = NoRow
       /\ t.change \in {"Replaced", "ParserChanged"} =>
             /\ Stale(p, sess[p])
             /\ pc \in Prepared => p \in deletes
       /\ t.change = "Append" =>
             IF p \in deletes
             THEN fs[p].where = "absent" \/ t.gen < fs[p].gen
             ELSE /\ sess[p] # NoRow /\ sess[p].ver = version
                  /\ sess[p].gen = t.gen /\ sess[p].offset = t.offset

TaskInv == \A p \in Paths : TaskOK(p)

\* What a parser handed over: the lines from the task's offset to the row's.
UpdateOK(p) ==
    LET t == tasks[p]
        u == updates[p]
    IN  IF u = NoRow THEN Of(staged, p) = {}
        ELSE /\ t # NoTask
             /\ u.gen = t.gen /\ u.ver = version
             /\ p \in deletes /\ t.change = "Append" => u.gen < fs[p].gen
             /\ u.gen = fs[p].gen =>
                   /\ t.offset <= u.offset
                   /\ LinesExactly(Of(staged, p),
                                   NumLines(t.offset)..(NumLines(u.offset) - 1),
                                   u.gen, u.ver)

UpdateInv ==
    /\ \A p \in Paths : RowOK(p, updates[p])
    /\ pc \in Prepared => \A p \in Paths : UpdateOK(p)
    /\ \A p \in todo : updates[p] = NoRow /\ tasks[p] # NoTask

\* After publication the rows to be committed describe the index.
DoneInv == pc \in Done => \A p \in Paths : Trusted(p, FinalRow(p))

\* What execute_refresh relies on between its phases: the session's rows, the
\* tasks, the parsers' updates and the intent fit together so that the rows
\* commit_final writes are trusted.  Inductive as long as no file is renamed away
\* and back.
RefreshInv ==
    /\ StoreInv
    /\ FreshInv
    /\ DocInv
    /\ SessInv
    /\ IntentInv
    /\ TaskInv
    /\ UpdateInv
    /\ DoneInv

-----------------------------------------------------------------------------
\* Why the intent is a write-ahead log, files renamed back and forth included:
\* what an earlier intent named is carried into deletes and vdel, ids are only
\* drawn upwards, and nothing is staged for a path without a task.
LogInv ==
    /\ migrate => embed
    /\ pc \in Idle \cup Observing \cup {"decide"} => staged = {} /\ todo = {}
    /\ \A r \in staged : tasks[r.path] # NoTask
    /\ \A p \in todo : tasks[p] # NoTask
    /\ pc \in Observing => next = FirstFreeDoc
    /\ pc \in {"decide", "parse"} =>
          /\ pending.paths \subseteq deletes
          /\ pending.vdel \subseteq vdel
          /\ next >= FirstFreeDoc
          /\ staged # {} => next > FirstFreeDoc
    /\ pc \in {"analytics", "lexical"} => deletes \cup TaskPaths \subseteq pending.paths

-----------------------------------------------------------------------------
\* Who may hold the lease: a refresh runs on a checkpoint, a reset without one.
LeaseInv ==
    /\ pc \notin Idle => authority
    /\ pc \in Idle \ {"idle"} => ~authority

\* Ids are drawn upwards from what the checkpoint and the intent allow, so no
\* two records of the index, or of it and the refresh, share one.
IdsInv ==
    /\ authority => \A r \in index : r.doc < FirstFreeDoc
    /\ pc \notin Idle => \A r \in index : r.doc < next
    /\ pc \in {"parse", "analytics", "lexical"} =>
          \A s \in staged : s.doc < next /\ \A r \in index : r.doc < s.doc
    /\ pc \in {"analytics", "lexical", "vectors"} => pending.set /\ pending.next = next
    /\ \A r, q \in index : r.doc = q.doc => r = q
    /\ \A r, q \in staged : r.doc = q.doc => r = q

Counted == \A p \in Paths : counts[p] = Cardinality(Of(index, p))

\* When the catalogue's counts are those of the index: unless the refresh has
\* decided to count again, and then the flag is down.
CountInv ==
    /\ authority /\ complete /\ ~pending.set /\ index # {} => Counted
    /\ pc \in {"parse", "analytics", "vectors"} /\ ~backfill => Counted
    /\ pc = "lexical" /\ ~backfill =>
          \A p \in Paths : counts[p] = Cardinality(Of(NewGeneration, p))
    /\ pc = "backfill_flush" => \A p \in Paths : counts[p] = 0
    /\ pc \in {"mark_complete", "finalize"} => Counted
    /\ pc \in {"parse", "analytics", "lexical", "vectors"} /\ backfill => ~complete
    /\ pc \in {"backfill", "backfill_flush"} => ~complete

\* What the embedder owes at each phase.
EmbedInv ==
    /\ pc = "decide" => /\ embed => opt \/ migrate \/ RecoverEmbeddings
                        /\ migrate => TaskPaths # {}
    /\ pc = "vectors" /\ embed => Covers(vstaged, index)
    /\ pc \in {"backfill", "backfill_flush", "mark_complete", "finalize"}
       /\ embed /\ (full \/ ~opt) => Covers(vectors, index)

\* Ids name records among the vectors too, as long as nobody resets.
VectorIdsInv ==
    /\ ~authority => index = {} /\ vectors = {} /\ pc = "idle"
    /\ authority => \A v \in vectors : v.doc < FirstFreeDoc
    /\ pc \notin Idle => \A v \in vectors : v.doc < next
    /\ pc \in {"parse", "analytics", "lexical"} =>
          \A s \in staged, v \in vectors : v.doc < s.doc
    /\ pc = "vectors" => vstaged \subseteq vectors \cup index
    /\ DocIdsName

\* No record of p lies at or above the offset of a row that will be resumed.
Low(p, row) ==
    IF row = NoRow THEN Of(index, p) = {}
    ELSE row.gen = fs[p].gen /\ row.ver = version =>
             \A r \in Of(index, p) : r.line < NumLines(row.offset)

\* What no row of any phase can outrun.
Bound(p, row) == row.gen <= fs[p].gen /\ row.ver <= version /\ row.offset % 3 # 1

\* The checkpoint by itself, for LinesInv.
RowsLow ==
    /\ version > 0
    /\ \A p \in Paths : Bound(p, rows[p])
    /\ ~authority => pending = NoIntent /\ \A p \in Paths : rows[p] = NoRow
    /\ authority => \A p \in Paths \ pending.paths : Low(p, rows[p])

\* What a phase has not touched yet.
Untouched ==
    /\ pc \in Idle \cup {"observe"} => \A p \in Paths : tasks[p] = NoTask
    /\ pc \in Idle \cup Observing => deletes = {}
    /\ pc \in Idle \cup Observing \cup {"decide"} => \A p \in Paths : updates[p] = NoRow
    /\ \A p \in todo : updates[p] = NoRow
    /\ \A s \in staged : updates[s.path] # NoRow

\* The rows the refresh goes by, unless their records are about to be deleted.
SessLow ==
    /\ \A p \in Paths : Bound(p, sess[p])
    /\ pc \in Observing =>
          \A p \in Paths : IF p \in pending.paths THEN sess[p] = NoRow ELSE Low(p, sess[p])
    /\ pc \in Prepared => \A p \in Paths \ deletes : Low(p, sess[p])

\* A task resumes above the records that stay.
TaskLow(p) ==
    LET t == tasks[p]
        below == \A r \in Of(index, p) : r.line < NumLines(t.offset)
    IN  t # NoTask =>
          /\ t.gen <= fs[p].gen /\ t.offset % 3 # 1
          /\ t.gen = fs[p].gen => t.offset <= fs[p].size
          /\ pc = "sweep" /\ p \notin pending.paths /\ ~DeleteFirst(p) => below
          /\ pc \in Prepared /\ p \notin deletes => below

\* A parser adds records at or above the task's offset, and one per line.
UpdateLow(p) ==
    LET t == tasks[p]
        u == updates[p]
    IN  u # NoRow =>
          /\ t # NoTask /\ u.gen = t.gen
          /\ u.gen = fs[p].gen => t.offset <= u.offset
          /\ \A s \in Of(staged, p) : NumLines(t.offset) <= s.line
                                      /\ s.line < NumLines(u.offset)
          /\ \A s, q \in Of(staged, p) : s.line = q.line => s = q

\* Why one line is indexed once: records are added above those that stay.
\* Unlike RefreshInv this bears files that are renamed away and back.
LinesInv ==
    /\ RowsLow
    /\ Untouched
    /\ SessLow
    /\ \A p \in Paths : TaskLow(p)
    /\ \A p \in Paths : Bound(p, updates[p])
    /\ pc \in Prepared => \A p \in Paths : UpdateLow(p)
    /\ pc \in Done => \A p \in Paths : Low(p, FinalRow(p))
    /\ NoDuplicates

=============================================================================
