# Verification of memex

memex indexes the transcripts that coding agents (Claude Code, Codex, OpenCode and
others) write to disk, and serves search over them from the command line, a web
server, an MCP server and desktop front ends. This directory holds TLA+ models of
its concurrent and crash-sensitive core, TLC configurations that check them on
small instances, and TLAPS proofs for every size of instance. Paths below are
relative to the repository root (`src/` in `PROJECT.json`).

## 1. Inventory

| Component | State it keeps | Operations | Hard behaviour |
|---|---|---|---|
| Refresh pipeline (`src/ingest/*.rs`) | session view of the checkpoint, tasks, deletions, staged records | discover, classify, sweep, parse in a pool, publish four stores, finalize | four stores without a common transaction; files change between stat and read; a kill anywhere |
| Checkpoint (`src/state/checkpoint.rs`) | one row per transcript, `next_doc_id`, `PendingIngest`, stamps, journal cursor | `commit_intent`, `commit_final`, recovery | the intent must cover everything a crash can leave half done |
| Checkpoint lifecycle (`src/state/checkpoint/lifecycle.rs`) | authority marker, database, sidecars, bootstrap receipt | open, migrate, activate, reset | files change one at a time; two processes open at once |
| Lexical index generations (`src/index.rs`, `src/index/storage.rs`) | `CURRENT`, generation directories, shared segment files | stage, adopt, seal, publish, prune, collect, open for reading | lock-free readers; removal entry by entry; crash anywhere |
| Leases (`src/lease.rs`) | flocks of the ingest lease and the compaction lock | acquire with timeout, release with the process | who may publish while somebody merges |
| Compaction (`src/cli.rs`, `run_index_compact`) | a stage and the base it started from | stage, merge without a lease, re-acquire, publish or abandon | a refresh overtakes the merge |
| Rebuild (`src/cli.rs`, `reset_reindex_artifacts`) | none of its own | remove checkpoint, index, vectors, analytics | dies between two of them |
| Analytics catalogue (`src/analytics.rs`) | additive counts, `analytics_complete` | add, delete by path, clear, backfill | counts are added before the index is published |
| Vector store (`src/vector.rs`) | vectors by document id | stage, scoped removal, reconcile, reset | ids must never name two records |
| Parsers (`src/sources/*.rs`) | parser state in the row | resume, read complete lines | torn lines, bounded reads, shrinking files |
| Watch scheduler (`src/watch.rs`) | event queue, dirty set, deadlines | drain, debounce, resync, mark complete | overflow, lost events, failing ingests |
| Directory stamps and event journal (`src/ingest/directories.rs`, `journal.rs`) | stamps, cursor | skip unchanged directories, replay | timestamp granularity, truncated journals |
| OpenCode and Bob databases (`src/ingest/discovery.rs`, `src/sources/opencode.rs`, `bob.rs`) | ownership of sessions, cursors | snapshot, scope, defer | ownership moves between files and databases |
| Usage cache (`src/usage/*.rs`) | parsed files, facts, digests, a sync row with a generation | refresh under a lock, validate, answer | many transactions per refresh; queries take no lock |
| Memory documents (`src/memory.rs`, `memory_search.rs`) | one published snapshot | discover, read consistently, publish, check a read for freshness | files written while they are read; directories that cannot be listed |
| OAuth store (`src/mcp/oauth.rs`) | codes, grants, access and refresh tokens | approve, exchange, rotate, revoke, prune | two requests with one token; the clock is read before the lock |
| Access token (`src/web_auth.rs`) | one file | create at first use | several processes, kills |
| Daemon runtime (`src/daemon_runtime.rs`) | lock with a token, state file | start, become ready, stop; read | two files, lock probed by taking it |
| Terminal interface (`src/tui.rs`) | the list, the preview, request ids | keys, workers, answers | late and coalesced answers |
| Bounded reads (`src/read_budget.rs`, `src/machine.rs`) | none; offsets are the client's | pages, cut fields | sessions grow between pages |
| Machine federation (`src/machine.rs`) | none of its own | query peers over ssh, merge | deadlines, partial answers |
| Other user interfaces, ranking, pricing, format conversion, profiling | none that another part relies on | presentation and arithmetic | none of a protocol kind |

How they interact. Clients write transcripts without coordination. The watcher, a
search with auto-index, `memex index` and the daemon all start the same refresh,
one at a time under the ingest lease. A refresh reads the checkpoint, publishes
analytics, then a lexical generation, then a vector generation, and last commits
the checkpoint. Compaction takes the lease only to stage and to publish. Readers
take no lease but the per-generation flock. `index --rebuild` holds the ingest
lease and runs a refresh at its end.

What makes each part correct: a checkpoint row never hides lines that are not
indexed; no line is indexed twice; an id names one record; a complete catalogue
counts what is indexed; an interrupted refresh stays on record until it is
replayed; the index converges once clients pause; `CURRENT` is always complete;
pinned files stay; readers always open; a compaction loses nothing; the checkpoint's
files always add up to one register; a change below a watched root stays announced
until a refresh has read it; a stamp or a cursor never hides a transcript; answers
from a cache are those of the files; a token or secret has one line of owners; what
is shown is what was last asked for.
The `hazards` of `PROJECT.json` list where each of these could go wrong, line by
line, with the property that would catch it, or why none does yet.

## 2. Modules

| Module | Role |
|---|---|
| `Ingest` | the refresh pipeline with the checkpoint, analytics, vectors, rebuild, clients and crashes |
| `IngestInvariant` | the inductive invariants of the proofs about `Ingest` |
| `IngestProofs` | type correctness; `RefreshInv` is inductive and implies `TrustedRows` |
| `IngestStores` | what the four stores say of one another: `WriteAhead`, `IntentRetained`, `AnalyticsAgree`, `DocIdsName`, `EmbeddingCovers`, `NoDuplicates` |
| `Generations` | lexical generations: writers, compaction, pruning, collection, readers |
| `GenerationsProofs` | `CurrentComplete`, `PinnedFilesStay`, `ReadersOpen`, `PublicationsCompose` |
| `Watch` | the daemon's event loop: queue, dirty set, deadlines, roots, the refresh it runs |
| `WatchProofs` | `NoLostHint` |
| `Discovery` | what a refresh looks at: the stamped walk, the journal's replay, their commit |
| `DiscoveryProofs` | `NothingHidden`, `QuietRefreshExact`, `JournalCovers`; of `Bob`: `TasksSurvive`; of `OpenCode`: `OneHome` |
| `OpenCode` | which database or JSON file an OpenCode session is indexed from |
| `Bob` | the tasks in Bob's databases: replacement, failure and replay |
| `Checkpoint` | the files behind the checkpoint: authority, migration, activation, reset, readers |
| `Register` | what the checkpoint promises; `Checkpoint` implements it |
| `CheckpointProofs` | `NeverWedged`, `ReadersPinned`, and `Checkpoint` implements `Register` |
| `Usage` | the usage cache: refreshes in many transactions, queries beside them |
| `Memory` | memory documents: discovery, consistent reads, publication, freshness of a read |
| `OAuth` | codes, grants and tokens of the MCP server |
| `WebAuth` | the access token at first use |
| `DaemonRuntime` | how a process learns which daemon runs |
| `Tui` | list and preview of the terminal interface with their workers |
| `Paging` | bounded reads in pages |
| `StoresProofs` | proofs about the parts of `MCStores`: `OneSecret`, `NoEarlierDaemon`, `OneLine`, `ReuseRevokes`, `EvidenceKept`, `FreshIsCurrent`, `DocumentsOutliveErrors`, `NewestIsListed`, `SelectionIsPreviewed`, `FactsFollowBlobs`, `AnswersAreCurrent`, `StoresTypeOK` |
| `PagingProofs` | of `Paging`: `WholeIsRead` |
| `MCIngest`, `MCGenerations`, `MCWatch`, `MCDiscovery`, `MCStores` | what TLC loads |

How they compose. `Ingest` is a refresh as the stores see it, `Discovery` the first
phase of the same refresh in detail (which paths it looks at; a row is a version
there), `OpenCode` and `Bob` the same phase for sessions and tasks kept in databases,
followed to the final commit, `Watch` the loop that starts it (a path is stale or not there), `Checkpoint`
the files behind the rows and the intent that `Ingest` treats as one atomic store,
which is what `Register` says and `IsRegister` justifies. `Watch` also justifies
the strong fairness `Ingest` assumes of full scans (`FullScansRecur`). The other
modules share no state with these or with each other.

Definitions with a comment starting "Mutant:" are deliberately wrong
variants of the definition below them. Nothing uses them; each shows, when put in
place of the right one, that a property notices.

### Ingest

One process holds the ingest lease at a time, so a refresh is one program counter
`pc` and its local state; the interleaving is with clients (`FileAppend`,
`FileReplace`, `FileDelete`, `FileHide`, `FileUnhide`, `FileRestore`), with the
parser pool (`Parse(p)` in any order) and with kills (`Abort`, between any two
steps). The phases are those of the code:

`RecoverCheckpoint` (`recover_checkpoint`, `prepare_refresh` up to discovery) ->
`ObserveAll`/`ObserveDirty` (`collect_*` and `prepare_file_task`) -> `Sweep` (the
second stat, `delete_paths`, the vector decisions) -> `DecideRefresh` ->
`Parse`/`ParseSkip`/`ParseFail` -> `CommitIntent` -> `PublishAnalytics` ->
`PublishGeneration` -> `PublishVectors` -> `BackfillClear`, `BackfillFlush` ->
`MarkComplete` -> `CommitFinal`.

Abstractions:

- A line is three chunks (opening, end, newline), so a file's size tells a torn
  line, a complete object without newline and a terminated file apart, which is all
  `jsonl.rs` distinguishes. One line is one record, embeddable, and a session is its
  path in the catalogue.
- A file's identity is an exact incarnation number. The code's `FileIdentity` is a
  device, an inode and fingerprints; how well that heuristic tells files apart
  is not modelled. Beside it a file has a change time, which a rename moves and by which
  `Rewritten` tells apart two files of one size (`plan.rs:43-54`). Growth moves it too,
  but it is only compared when the sizes are equal; a modification time adds nothing.
- An index without a checkpoint is always refused. The code accepts it when a pending
  file of the older layout names every indexed record (`publication.rs:429-445`); it
  still reads that file, and no longer writes it.
- The stats of one discovery phase are one step. A client's step between two of
  them concerns one path and so commutes with the stats of the others. The two
  stat phases (discovery and sweep) are separate steps, and parsing is a third.
- The ids of a file are a contiguous block. In the code the parsers draw from one
  atomic counter, so blocks of different files interleave; properties only compare
  ids for equality.
- The checkpoint's two transactions are atomic (SQLite); its files are the subject
  of `Checkpoint`.
- Left out: the scan-cache time-to-live that skips a refresh altogether, excluded and
  superseded paths, `legacy_turn_id`, database scopes and Bob's aborting on an unreadable
  database (modelled in `OpenCode` and `Bob`), Claude's background reclassification (it reparses a file as
  `Replaced` does), and `options.backfill_embeddings`, which every caller leaves
  false.

Bounds: incarnations (`MaxGen`), chunks (`MaxSize`), binary upgrades
(`MaxVersion`), faults (`MaxFaults`: kills, failed parses, unreachable parents,
files renamed back) and rebuilds (`MaxResets`). Every bound is a guard, so the
specification is the same for the proofs, where the bounds are arbitrary.

### Generations

Writers are refreshers and compactors, readers are searches. A generation directory
is a set of entries (`.lease`, `.storage-format`, `.segments.json`) and the
references of its manifest. A generation creates at most one segment file, named
after it, and `content` records which updates that file holds; so the set of updates
visible through `CURRENT` can be compared before and after a publication.

- Staging runs under the store lock and is one step, with `StageCrash` for every
  prefix that a kill can leave; the manifest rewrite and the rename of a publication
  are one step (`Seal`), because no other process looks at the stage between them.
- `remove_dir_all` unlinks one entry at a time in any order, with everybody else
  running in between (`Unlink`, `RemoveDir`, `DropDone`).
- A reader's blocked flock is a step that is not enabled yet. A reader that finds
  `.lease` missing opens unpinned, as the code does for generations from before
  leases.
- The compaction lock is a guard of `AcquireLease`: no other compactor is active.
- Left out: offline garbage collection, the flat layout from before generations,
  macOS durability barriers and the compaction-pending note.

### Watch

The callback (`Deliver`, `Enqueue`) runs at any time and drops an event when the
queue is full, leaving only `queue_overflow`. `Receive` is one `try_recv` of a
drain, so events arrive in the middle of it; `FireCause` is `fire_decision` with its
order of tests; `StartRefresh` to `MarkComplete` is the body of `run_event_loop`,
with the skip check of a narrowed refresh (`CheckFinds`, `CheckSkips`) and its
failures. Deadlines are flags that time raises (`SpacingPasses`, `ResyncFallsDue`,
`BatchAges`, `BatchSettles`), because only their order matters. The operating
system may coalesce, delay and lose events (`LoseEvent`); roots appear, vanish and
are added to the configuration. `HotSweep` is the macOS sweep of databases that
change without events; that a tracked database is reported once without a change
after a restart is left out.

### Discovery

The walk visits one directory at a time; `Capture` takes the stamp before `Enumerate`
reads the entries, and the tree changes between the two. `Reuse` takes entries from
the committed rows and stamps. A replay (`StartReplay`) is a cursor and either the
paths logged since the committed one or no hints at all; what makes hints unusable
(budget, foreign volume, dropped events) is one choice. The process that started a
replay may wait for the lease while others commit or rebuild. Files disappear with
their directory (`away`), which is how an unmounted root looks to `metadata`. The sweep
of a full scan stats each tracked file (`StatFile`) and, when that says not found, its
directory (`StatParent`), and the directory may leave or return in between: a row can be
dropped although its file exists. `NothingHidden` says that no stamp keeps later walks
from finding it. `quiet` is history: a full refresh since whose start nothing changed,
failed or was read in vain. `QuietRefreshExact` is what such a refresh promises, after
whatever the disturbed ones before it have left.

### OpenCode

`Plan` is the planning snapshot of one database, `Hydrate` the later reading of its
dirty sessions over a second connection; the client writes, deletes, locks and moves
databases between any two of them. `Claimants` and `Owns` are the ownership rule,
`ScopeTargets`, `LostDatabases`, `LegacyDeletes` and `LegacyTasks` what follows from
it, and `CommitScopes`, `PublishScopes`, `CommitOwners` the three commits of the
refresh. A scope whose database failed is deferred in the intent (`Deferred`).
A content is the number of the change that made it. Rowid and event-id cursors are one
comparison with the last planning snapshot: an event log that was truncated is not
told apart from one that names every change. All databases and JSON files share one
data root, the JSON files no longer change, and a root that cannot be listed (which
fails the refresh) is left out. `EarlyLoss` and `NoV1` are about two traces listed
below.

### Bob

A task is a file of its own with a fingerprint instead of a stamp. `DiscoverBob` is one
turn of the loop of `discover_bob`, `Changed`, `MissingPaths` and `DeletePaths` what
`prepare_refresh` makes of it, `AbortReplay` the early return for a pending intent whose
database cannot be read. Tasks are parsed one by one, later and over connections of
their own: a task that cannot be read any more is skipped when it is new and fails the
refresh when its records are about to be replaced (`SkipTask`, `FailTask`), with the
intent committed. Bob writes, and the database is locked, deleted, unmounted or restored,
between any two steps. `vanished` is history: the tasks that were not there at some
moment of the refresh, which `TasksSurvive` compares with the records that go. A
fingerprint tells every two contents apart; excluded paths and an aliased database are
left out, and `DiscoverBob` takes the stats of a database and of its directory
(`discovery.rs:665-670`) as one.

### Checkpoint and Register

One step per effect on disk: a kill (`Crash`) between any two leaves the marker,
the database, the receipt and the two sidecars as they are, and the next `open_writer`
takes it from there. Initial states are what each released version leaves: nothing,
a legacy document, a v1 marker, with and without sidecars. Readers read the marker
first and lock afterwards. The refinement reads `rows` and `pending` off the files
as `open_active` would, and `retained` off the sidecar.

### Usage, Memory, OAuth, WebAuth, DaemonRuntime, Tui, Paging

Each header says what is abstracted. In common: a file's content and metadata are a
version number; a SQLite transaction is one step and everything outside one is
several; a process may be killed between two steps where the code has to cope with
it; what is shown, ranked, priced or rendered is not told apart from what it was
computed from. `Usage` stamps the inputs when a refresh starts; a refresh that
follows a failed cold lookup reuses the fingerprint of that lookup
(`snapshot.rs:289-307`), which is older.

## 3. What is checked

| Run | Instance | Shows |
|---|---|---|
| `ingest_core` | 2 paths, one of them read only up to the discovered size, 1 incarnation, 2 chunks, 1 fault | `TypeOK`, `AnalyticsAgree`, `RefreshInv` (and with it `TrustedRows`), `WriteAhead`, `IntentRetained` |
| `ingest_rotation` | 1 path, 2 incarnations, 5 chunks, 1 fault, fair | `TrustedRows`, `NoDuplicates`, `EventuallyConverged` |
| `ingest_vectors` | 1 path, 2 incarnations, 2 chunks, 2 parser versions, embeddings on and off, 1 fault | `DocIdsName`, `EmbeddingCovers` |
| `ingest_rebuild` | 1 path, 3 chunks, 2 faults, 1 rebuild, files renamed back | `NoDuplicates`, `AnalyticsAgree` |
| `generations` | 1 refresher, 1 compactor, 1 reader, 4 generations, 1 kill | `CurrentComplete`, `PinnedFilesStay`, `ReadersOpen`, `PublicationsCompose` |
| `watch` | 2 paths below 1 root that is not configured at first, one of them without a row, queue and dirty set of 1, 2 changes, 1 fault, fair | `NoLostHint`, `FullScansRecur`, `Converges` |
| `discovery` | 1 file, 3 nested directories of which 1 moves, 2 processes, 3 changes, 1 fault; or 1 OpenCode session, 2 databases, JSON files, 3 changes, 1 kill; or 2 Bob databases with a task each, 2 changes or losses, 1 kill | `NothingHidden`, `JournalCovers`, `QuietRefreshExact`; `OneHome`; `TasksSurvive` |
| `stores` | the eight parts of `MCStores`, one per behaviour | `StoresTypeOK`, `NeverWedged`, `ReadersPinned`, `IsRegister`; `FactsFollowBlobs`, `AnswersAreCurrent`; `FreshIsCurrent`, `DocumentsOutliveErrors`; `OneLine`, `ReuseRevokes`, `EvidenceKept`; `OneSecret`; `NoEarlierDaemon`; `NewestIsListed`, `SelectionIsPreviewed`; `WholeIsRead` |
| `ingest_rename`, `ingest_rebuild_ids`, `generations_removal`, `discovery_cursor` | as small as the trace needs | four disagreements, below |

Why the bounds are enough. Two paths are what a deletion set that names too little
or a row of another file needs; they are checked with one incarnation because the
other runs rotate. Five chunks give a complete line, a torn and an unterminated
one after it, so every residue occurs at both the old and the new offset. Two
incarnations make a row stale once, and one fault puts a kill at every step, with
the full recovery after it; in the rebuild run the recovery can fail as well, and
for the rows and the intent the proofs cover any number of failed recoveries. Four generations are two publications that give a
compaction something to fold, its own stage and one that overtakes it. What larger
instances could still show for the rows and the intent is excluded by the proofs.

`watch`: a queue and a dirty set of one overflow as soon as a second path changes;
the second change comes before, during or after the refresh for the first, and the
fault is a failed refresh, a failed check, a lost event or a restart. `discovery`:
three nested directories give a stamp with a stamped ancestor and a descendant,
which `forget_ancestors` is about; three changes are one that is committed, one that
is seen by only one of two replays and one in the middle of a walk or of a sweep. For `OneHome` two
databases and the JSON files are the three kinds of owner a session moves between,
and three changes a database that fails, a write meanwhile and its return; two
sessions were checked with one change. For `TasksSurvive` two changes are one that
makes a task a replacement and a loss of its database, or of the other one, which may
end at any time; three of each were checked once. `stores`: each
part is the smallest in which its hazards occur: three contents and three kills for
the checkpoint (an upgrade cut short twice and a reset after it), two logs so that a
query confirms one while the other moves, two threads and one more token than a
family may keep, two daemons and two readers, two sessions and two views, records
with empty and with several fields under budgets that end inside, between and after
them. `which` is fixed in the initial state, so the eight state spaces add up; the
parts share no variable, and a property of one says nothing when another moves.

Fairness in `ingest_rotation`. `WF(Step)`: a running process takes its next
step. `WF(RecoverCheckpoint)`: the watch loop and every auto-indexing search keep
starting refreshes. `SF(ObserveAll)`: a narrowed refresh does not move the resync
deadline (`mark_complete` in `src/watch.rs`), so among infinitely many refreshes
infinitely many are full scans. Clients and faults get no fairness and are bounded,
which is what "once the clients pause" means.

Fairness in `watch`: `WF(Loop)`, the loop takes its next step whenever it can; and
`WF` of `SpacingPasses` and `ResyncFallsDue`, the two deadlines that are fixed when
they are set. Nothing is assumed of the watcher (events may stay in flight for ever),
of the debounce and settle times, which new events move, or of the hot sweep.
`Converges` therefore rests on full refreshes alone, as the code's comment on
`resync_due` has it.

Deadlock is checked in every run. A finished `Ingest` instance always has another
refresh to start, or one to refuse (`RefuseCheckpoint`). In the `generations` instance a writer that would need a fifth
name waits in `stage`, and the readers go on. `discovery` and `stores` turn the
check off: once the bounded changes are used up and the last request is answered
their parts rest.

### Disagreements with the code's own documents

1. `ingest_rename`: the sweep stats a path again after its `Append` task was
   prepared (`src/ingest/discovery.rs:1493`). When a file is away for that stat and
   back for its parser, its records are deleted and only the tail from the old offset
   is read. The committed row has the size and the change time discovery saw. If the
   file still has that size, its change time differs and the next scan reads all of it
   again (`Rewritten`). In the trace it has grown, so that the next scan takes it for
   `Append` and resumes above the lines that are no longer indexed.
   `docs/event-driven-indexing-spec.md` promises that no record is missed. The proof
   of `TrustedRows` assumes `Restorable = {}`, exactly the absence of this.
2. `ingest_rebuild_ids`: a rebuild killed between the index and the vectors
   (`src/cli.rs:2433`) restarts ids at 1 next to the old vectors, since
   `recover_checkpoint` resets vectors only if the checkpoint still has rows.
   `docs/checkpoint-storage.md` says the vector-recovery requirements apply.
3. `generations_removal`: a collection that reads an abandoned stage while its owner
   removes it fails the publication after `CURRENT` has moved
   (`src/index/storage.rs:46`), although the comment and a test say removal without
   the lock is harmless. The same cause leaves, after a kill in the middle of a
   removal, a work directory that every later collection trips over.
4. `discovery_cursor`: a directory that cannot be read once (`src/ingest/directories.rs:159`)
   loses its stamps, so that the next walk returns to it, but the journal's cursor is
   committed all the same. Refreshes narrowed by the journal start behind the event
   and never return; the comment in `src/ingest/journal.rs` says a replay from the
   committed cursor names every change since. `JournalCovers`, which holds, is the
   same statement for refreshes in which no read failed. The same trace exists without a
   failing read when a rebuild runs between another process's replay and its lease
   (`src/machine.rs:2833`, `src/tui.rs:1181`) and fails.

Counterexamples that contradict no document, so that no run records them; each is
one constant away from a run:

- `Discovery` with `IndexLoss`: an index found empty clears the rows
  (`publication.rs:453`), the walk then loads no stamps, and `commit_delta`
  deletes only stamps that were loaded; the old ones stay and hide their
  directories from the next walk.
- `Discovery` with `LateRenames`: a directory that leaves after the walk listed a file
  below it and returns after the file was looked for is committed as seen. Without the
  constant a directory moves between refreshes, during the walk as long as nothing below
  it was found, and during the sweep as long as the walk stamped nothing from it down.
- `OpenCode` with `EarlyLoss`: a refresh that publishes the sessions of a new database
  and is killed before its final commit leaves scopes in the intent and no state of
  the database. If the database is gone when the next refresh recovers, its scopes are
  neither replaced nor deferred (`discovery.rs:1018`) and no state names it, so its
  records stay in the index for good.
- `OpenCode` with `NoV1`: a scope in the intent whose session was deleted meanwhile is
  looked up in the older tables (`execution.rs:970`); in an event-sourced database
  whose sessions are in `session_v2` and that has no table `session` the query fails,
  the database counts as failed and the scope is deferred, at every refresh from then
  on. `OneHome` holds, because the intent stays and no refresh is undisturbed.
- `Usage` with `Restores`: a log that returns with the size and mtime it had before
  is answered from facts of the version in between. Facts of a log that was parsed
  but not cached and then vanished stay in answers until a refresh from the blobs.
- `Checkpoint`: a sidecar that survives an interrupted cleanup becomes the intent
  again when a reset follows and is killed after the marker is gone. `Register` has
  this as `Reset`.
- `DaemonRuntime`: a reader that probes between a new daemon's lock and its
  truncation of the token returns the state of a killed predecessor; and the probe
  holds the lock for an instant, in which a starting daemon is refused.
- `Tui`: leaving a search field with Esc, changing the source in the timeline or a
  project in the detail view leaves the home list or the charts of the query before.

## 4. What is proved

Every theorem holds for every number of paths, processes, databases, tokens and so on
and for every value of the bounds. The assumptions are the named `ASSUME`s on
constants, which TLC evaluates in the runs: `IngestAssumption`, `GenerationsAssumption`,
`WatchConstants`, `CheckpointAssumption`, `StoresConstants`, `DiscoveryConstants`,
`TasksHaveDatabases`, `DatabasesAreNumbers` (types and finiteness of the parameters, and limits, page sizes
and budgets of at least one, as the code has or checks them; `Nobody`, `Absent`, `Idle`
and the like are none of the things whose lack they stand for) and `DirectoriesFormTree`
(every directory is below the root, as an induction principle). A hypothesis beyond these is written into the theorem. Each
inductive invariant was checked by TLC on the instances of the runs before it was proved;
`RefreshInv` is still an invariant of a run.

**Ingest: types and trust.**

- `IngestProofs!TypeCorrect`: `Spec => []TypeOK`. Not only a formality: it contains
  that no offset, line number, id or count goes negative, whatever a parser meets,
  and that the index stays finite, which the counts rest on.
- `IngestProofs!RefreshInvariant` and `IngestProofs!RowsAreTrusted`: if
  `Restorable = {}` then `Spec => []RefreshInv` and `Spec => []TrustedRows`.
  `TrustedRows` speaks of the checkpoint and is not inductive: the rows that
  `CommitFinal` writes were assembled over seven phases. `RefreshInv` says what each
  phase hands to the next. `StoreInv` is what a crash leaves; `SessInv` says a session
  row is trusted or its records are about to be deleted; `TaskInv` that a task
  resumes only from a session row whose records stay; `UpdateInv` that a parser
  handed over exactly the lines from the task's offset to the row's; `IntentInv` and
  `DocInv` that skipping the intent means nothing was staged; `DoneInv` that the
  rows to be committed describe the published index. Everything is relative to the
  file as it is now, which only moves to a larger incarnation or to more bytes of the
  same one. The assumption is needed: `ingest_rename` is its counterexample.

**Ingest: the four stores** (`IngestStores`). None of this mentions file contents, so
files may be renamed away and back.

- `LogInvariant`, `IndexIsWrittenAhead`, `IntentIsRetained`: the index changes only
  under a durable intent that names the changed paths, and no interrupted refresh
  narrows an intent.
- `IdsInvariant`: ids are drawn upwards. `LeaseInv` says that without a refresh nothing
  is staged; `IdsInv` that every id in the index, in a batch or in an intent is below
  the next one a refresh draws, and that no two records share one.
- `AnalyticsAlwaysAgree`: `Spec => []AnalyticsAgree`. The counts are wrong between
  `PublishAnalytics` and `PublishGeneration`; `CountInv` says by what (`Counted`), and
  that the flag is down whenever a crash there could leave them so.
- `DocIdsAlwaysName`: `MaxResets = 0 /\ Spec => []DocIdsName`. `VectorIdsInv` adds that
  a vector's id was drawn by a refresh whose intent is pending or done. With rebuilds it
  is false (`ingest_rebuild_ids`).
- `EmbeddingAlwaysCovers`: `EmbedInv` follows what the embedder still owes from
  `DecideRefresh` to `CommitFinal`.
- `NeverDuplicated`: `Spec => []NoDuplicates`, with resets and renames. `LinesInv` bounds
  the lines a path has in the index by the offset of its row (`RowsLow`, `SessLow`), so
  that a task that resumes starts above them (`TaskLow`, `UpdateLow`), and says that a
  path whose lines are not bounded is deleted first.

**Generations** (`GenerationsProofs`). `GenInv`: who holds which lock (`LockInv`), names
are used once (`NameInv`), a stage is its writer's own (`StageInv`), what a prune removes
is nobody's (`TargetInv`), a lease keeps its directory (`LeaseInv`), and the step that
matters, `FileInv`: a directory that can be opened has its files, and a collection under
way has read it or still has it on its list. `CurrentComplete`, `PinnedFilesStay` and
`ReadersOpen` follow. `PublicationsCompose` needs `ComposeInv`: a compaction that gets to
publish still has the base it merged, and the contents of its stage are those of `CURRENT`.

**Checkpoint** (`CheckpointProofs`). `LifecycleInv`: a marker names the database that is
there; without one there is no database or the receipt explains it; whoever may replace
either has the lock alone. `NeverWedged` and `ReadersPinned` follow, and
`CheckpointIsRegister`: `Spec => Reg!Spec`, the initial states are initial states of
`Register` and every step of the lifecycle is a step of the register or none.

**Watch** (`WatchProofs`). `WatchInv` adds `ScanInv` to `NoLostHint`: while a refresh
runs, a path that is owed is still to be read, was read as it is, or its event is yet
to come. That is what makes it safe to clear the dirty set when a refresh ends.

**Discovery** (`DiscoveryProofs`), under `~LateRenames /\ ~IndexLoss`.

- `WalkInvariant`: `WalkInv` is inductive by itself. `StampsCertify` says that a
  committed stamp that is current vouches for rows and stamps below (for directories out
  of reach too, which `NothingHidden` does not say and the induction needs);
  `WalkCertifies` says the same of the walk's own stamps and what it has found and has yet
  to visit. It survives failures because a directory that loses its stamp loses those of
  all directories above it (`ForgetClosed`). `NothingIsHidden` follows.
- `QuietRefreshIsExact`: `QuietInv`, relative to `WalkInv`. While a refresh is undisturbed,
  a file in reach has been found or a directory above it is still to be read
  (`WalkCovers`, where a skipped directory relies on `StampsCertify`); what was found is
  parsed as it is or has its row (`FoundCovers`, `WorkExact`); and a row whose file is
  gone is given up or still to be checked (`SweepCovers`).
- `JournalAlwaysCovers`: `EventsInv`, relative to `WalkInv`. A refresh began before some
  event k (`BegunAt`): it has not lost what is quiet since k, a replay another process
  started later has every event from k on, and a narrowed refresh parses what is stale
  and quiet since the cursor it will store. The k is needed because the cursor that is
  committed is older than the refresh.
- `TasksAlwaysSurvive`, of `Bob`, without the two hypotheses: `BobInv` says that a task
  that is missing now was missing during the refresh, and so was one the refresh has not
  seen; that whatever a refresh replaces it has parsed; and that the rows speak for the
  records of every task the pending intent does not name.
- `OneHomeHolds`, of `OpenCode`, under `~EarlyLoss` instead. `HomeInv`: the committed
  owners of a session are one (`OwnersApart`), and apart from what the pending intent
  names the index has of each source what its state says, once (`Settled`). A refresh
  starts from that (`ChatSession`), reads every session that is new to a database or
  that the intent names (`ChatOutcomes`), and publishes exactly what the owners it will
  commit say, but for the scopes of databases that failed, which stay in the intent
  (`ChatPublished`, lemma `PublishedHolds`). `ChatAbsent` is where `~EarlyLoss` is used:
  a database that was not listed and has no state has no records that an intent names.
  The second half of `OneHome` needs `ChatCalm`: an undisturbed refresh has read every
  database there is as it is, so that the owner is the first that has the session.

**Stores** (`StoresProofs`). The parts of `MCStores` share no variables; every step of
`StoresNext` is a step of the part or leaves it alone. `SecretsInv`: whoever is past its
link knows the published secret. `DaemonInv`: the lock file has no token or that of the
last daemon that announced itself. `OAuthInv`: forms and threads; codes are exchanged once
(`CodesOnce`); one token of each kind per family (`OneEach`); what reuse ended stays
ended (`Ended`); a used token of a live grant is kept (`Evidence`). `MemoryInv`: a
document, published or prepared, tells the truth for as long as its stamp is the file's
(`DocumentsTrack`), and so does what a refresh has seen of the file it is reading
(`RefreshSights`): a stamp between two contents that is the file's again at the end
belongs to the second one. `ReaderSights` says that a reader has only seen contents
from after it was asked, `RefreshKeeps` that what a refresh has neither found nor failed
to list was absent. Stamps only grow, so a write makes every earlier sighting void. The
assumption that `Absent` is not itself a document keeps a stale copy from passing for
none. `TuiInv`: of a queue, its worker and the answers not handled yet at most one has the
active request, and nothing was asked for after it (`OneActive`); the list or the preview
is loading exactly while that request exists (`ListInv`, `PreviewInv`); away from the home
screen every request that is not old is for the selection (`ShownInv`).

`FactsAlwaysFollowBlobs` and `AnswersAlwaysCurrent` have the hypothesis `~Restores`.
`UsageInv`: whatever is known of a file is not newer than the file, unless it is gone
(`VersionsPassed`), so a file that is as it was seen has not changed since; a refresh has
the events of every blob that is as new as its scan (`RefreshFollows`); and what a query
has established, or a report in memory was made from, stands as long as there is a sync row
of its generation (`Stands`, `HeldFollow`, `QueriesFollow`), because a blob is written
without a sync row and facts with the next generation (`Written`).

`StoresTyped`: `StoresSpec => []StoresTypeOK`, the type invariants of all eight parts. Three
of them say more than types and need an argument of their own. `OAuthAlwaysTyped` is about
the limits: at `MAX_GRANTS` some grant was revoked, because fewer than the limit are
active, so `Room` finds one to drop; a full list of requests has an oldest one; and a
family is counted before a token is added, with the pruned rows gone (`RoomForOne`,
`AuthorizeLimits`, `RotateLimits`). It assumes what the code's constants satisfy: limits
of at least one, and no lifetime longer than a refresh token's. `UsageTyped` says
that a refresh which has yet to write its sync row has a generation left for it. In the
terminal interface no queue outgrows its capacity (`ListTyped`, `PreviewTyped`).

**Bounded reads** (`PagingProofs`). `WholeAlwaysRead`: `StoresSpec => []WholeIsRead`, for
any shapes of records, limits, budgets and growth. The budget that is left after each
record of a page is a recursive function, and what a page sends is a sum over its records.
The provers have no induction over data, but they know that the natural numbers are
well-founded (`WFMin`, `NatLessThanWellFounded`), and from that, for sets instead of
predicates, lemma `Induct`: a set of numbers with 0 and the successor of each of its members
is all of them. With it: what is left only falls, so the records a page takes are a
prefix of its candidates; and the characters of the first n of them are as many as the
budget has lost after n. `PagingInv` says that a cut is of a record that was read, before
its end, and the only one of its field (`CutsAreRead`); that the client has of each record
up to the offset what is not owed (`ReadIsCovered`) and nothing of the others
(`RestIsUnread`); and that it was sent as many characters as it has (`AllIsCounted`), so
none came twice.

**Only model-checked.** `EventuallyConverged`, `FullScansRecur` and `Converges`: liveness
is outside the prover. Every invariant and every action property of the passing runs is
the subject of a theorem.

## 5. Plan

A module is written so that it can be proved about (no recursive operators, named
assumptions, invariants as named conjuncts). What is left, in this order:

1. `Ingest` against an abstract specification in which a refresh replaces the records
   of a path atomically.
2. Binary replacement of the daemon; queries of peers under a deadline.

## 6. Not modelled

- How well device, inode and fingerprints identify a file (`plan.rs`): `Ingest` uses
  exact incarnations.
- Hermes and Antigravity databases, and what a line or a row means to each parser.
- Client registration and rate limits of `oauth.rs`; bootstrap tokens and routes of
  `web.rs`.
- Memory vectors and lexical memory search; two writes to one memory file within a step
  of the clock; links.
- Offline garbage collection, the flat index layout, the compaction-pending note.
- Peers: ssh processes, deadlines, validation and merging of answers.
- User interfaces other than the list and preview of the terminal; ranking, embedding,
  pricing, session transfer, configuration, profiling: presentation, arithmetic and
  one-shot conversion, with no state that another actor relies on.
