-------------------------------- MODULE Usage --------------------------------
(***************************************************************************)
(* The usage cache of one source.  Beside the events parsed from each file *)
(* (the blobs, with the file's metadata) it keeps the canonical facts that *)
(* reports are answered from, one digest per file, and a sync row: the     *)
(* fingerprint of the files the facts describe, under a generation of its  *)
(* own.  Triggers in the database tie the three together, because a        *)
(* refresh is many transactions and may die between any two.               *)
(*                                                                         *)
(* Refreshes take turns (the refresh lock); queries do not: they compare   *)
(* files, sync row and blobs one after the other and rely on the           *)
(* generation to notice a refresh in between.                              *)
(*                                                                         *)
(* The model covers sources without reconciliation across files.  A file's *)
(* version stands for its size, mtime and dependencies.                    *)
(*                                                                         *)
(* Sources: src/usage/cache.rs, src/usage/snapshot.rs, src/usage/scan.rs,  *)
(* src/usage/query.rs.                                                     *)
(***************************************************************************)
EXTENDS Naturals

CONSTANTS
    Logs,         \* the files of the source
    Users,        \* processes that ask for reports
    OneShot,      \* those of them that end with the refresh they needed
    Restores,     \* a file may come back with the metadata it had before
    MaxEdits,     \* bound: changes of files
    MaxRefreshes, \* bound: generations
    MaxFailures   \* bound: failed parses, failed writes and crashes

None == {}   \* no sync row

VARIABLES
    on_disk,      \* each file's version, 0 when there is no file
    edits,        \* changes of files so far
    blob_meta,    \* usage_file_cache: the metadata of each row, 0 for no row
    blob_events,  \* usage_file_cache: the version the events were parsed from
    facts,        \* usage_facts: the version each file's rows were made from
    digest,       \* usage_fact_files: the version the digest is of
    sync,         \* usage_fact_sync: the fingerprint, None without a row
    generation,   \* usage_fact_sync.generation
    lock,         \* who holds the refresh lock
    stage,        \* what the refresh is doing
    fingerprint,  \* the metadata the facts will be filed under, 0 for no file
    observed,     \* the metadata the scan saw
    missing,      \* files still to be parsed
    unsaved,      \* parsed files whose blobs are not saved yet
    events,       \* the events the refresh has for each file
    removed,      \* files whose facts are to be replaced
    held,         \* each process's retained partition: generation, inputs, events
    qpc,          \* what each query is doing
    asked,        \* each query's generation, observed metadata and events
    failures

disk == <<on_disk, edits>>
blobs == <<blob_meta, blob_events>>
canon == <<facts, digest, sync, generation>>
turn == <<lock, stage, fingerprint, observed>>
refresh == <<turn, missing, unsaved, events, removed>>
queries == <<held, qpc, asked>>
vars == <<disk, blobs, canon, refresh, queries, failures>>

Zero == [f \in Logs |-> 0]
Nobody == "nobody"
Empty == [generation |-> 0, observed |-> Zero, events |-> Zero]

Init ==
    /\ on_disk \in [Logs -> {0, 1}] /\ edits = 0
    /\ blob_meta = Zero /\ blob_events = Zero
    /\ facts = Zero /\ digest = Zero /\ sync = None /\ generation = 0
    /\ lock = Nobody /\ stage = "idle" /\ fingerprint = Zero /\ observed = Zero
    /\ missing = {} /\ unsaved = {} /\ removed = {} /\ events = Zero
    /\ held = [p \in Users |-> Empty] /\ qpc = [p \in Users |-> "out"]
    /\ asked = [p \in Users |-> Empty]
    /\ failures = 0

Versions == 0..(MaxEdits + 1)

TypeOK ==
    /\ on_disk \in [Logs -> Versions] /\ edits \in 0..MaxEdits
    /\ blob_meta \in [Logs -> Versions] /\ blob_events \in [Logs -> Versions]
    /\ ~Restores => \A f \in Logs : blob_events[f] >= blob_meta[f]
    /\ facts \in [Logs -> Versions] /\ digest \in [Logs -> Versions]
    /\ \A stamps \in sync : stamps \in [Logs -> Versions]
    /\ generation \in 0..MaxRefreshes
    /\ lock \in Users \cup {Nobody}
    /\ stage \in {"idle", "facts", "stamped", "legacy", "commit"}
    /\ (stage = "idle") <=> (lock = Nobody)
    /\ fingerprint \in [Logs -> Versions]
    /\ observed \in [Logs -> Versions] /\ events \in [Logs -> Versions]
    /\ missing \subseteq Logs
    /\ unsaved \subseteq Logs /\ removed \subseteq Logs
    /\ held \in [Users -> [generation : 0..MaxRefreshes, observed : [Logs -> Versions],
                           events : [Logs -> Versions]]]
    /\ asked \in [Users -> [generation : 0..MaxRefreshes, observed : [Logs -> Versions],
                            events : [Logs -> Versions]]]
    /\ qpc \in [Users -> {"out", "stat", "sync", "rows", "read", "confirm", "answered"}]
    /\ failures \in 0..MaxFailures

-----------------------------------------------------------------------------
(* A file is created, grows, or goes away; with Restores an earlier one    *)
(* comes back.                                                             *)
Change(f, v) ==
    /\ edits < MaxEdits /\ edits' = edits + 1
    /\ v # on_disk[f]
    /\ v \in {0, edits + 2} \/ (Restores /\ v <= edits + 1)
    /\ on_disk' = [on_disk EXCEPT ![f] = v]
    /\ UNCHANGED <<blobs, canon, refresh, queries, failures>>

-----------------------------------------------------------------------------
(* A mutant of TouchBlobs: no triggers on the blob table.                  *)
TouchBlobsUntriggered(changed) == sync' = sync

(* The triggers on usage_file_cache: any change of a row takes the sync    *)
(* row along.                                                              *)
TouchBlobs(changed) == sync' = IF changed = {} THEN sync ELSE None

(* A blob is valid while the file is as it was when it was parsed.         *)
Hit(f, seen) == seen[f] # 0 /\ blob_meta[f] = seen[f]

(* The part both kinds of refresh have in common: list and stat the files, *)
(* drop the rows of files that are gone.                                   *)
Split(to, served) ==
    LET gone == {f \in Logs : blob_meta[f] # 0 /\ on_disk[f] = 0} IN
    /\ stage' = to /\ observed' = on_disk
    /\ missing' = {f \in Logs : on_disk[f] # 0 /\ ~Hit(f, on_disk)}
    /\ events' = [f \in Logs |-> IF Hit(f, on_disk) THEN served[f] ELSE 0]
    /\ blob_meta' = [f \in Logs |-> IF f \in gone THEN 0 ELSE blob_meta[f]]
    /\ blob_events' = [f \in Logs |-> IF f \in gone THEN 0 ELSE blob_events[f]]
    /\ TouchBlobs(gone)
    /\ unsaved' = {} /\ removed' = gone
    /\ UNCHANGED <<disk, facts, digest, generation, queries, failures>>

MayRefresh(p) == lock = Nobody /\ qpc[p] = "out" /\ generation < MaxRefreshes

(* rebuild_partition under the refresh lock: from the facts when there is  *)
(* a sync row ...                                                          *)
StartFacts(p) ==
    /\ MayRefresh(p) /\ sync # None
    /\ lock' = p /\ fingerprint' = on_disk
    /\ Split("facts", facts)

(* ... else from the blobs: the inputs are stamped before the scan stats   *)
(* them again.                                                             *)
StartLegacy(p) ==
    /\ MayRefresh(p) /\ sync = None
    /\ lock' = p /\ stage' = "stamped" /\ fingerprint' = on_disk
    /\ UNCHANGED <<disk, blobs, canon, observed, missing, unsaved, events, removed,
                   queries, failures>>

ScanLegacy ==
    /\ stage = "stamped"
    /\ Split("legacy", blob_events)
    /\ UNCHANGED <<lock, fingerprint>>

(* parse_missing_usage_files: what is read may be newer than what was      *)
(* statted.                                                                *)
Parse(f) ==
    /\ stage \in {"facts", "legacy"} /\ f \in missing /\ on_disk[f] # 0
    /\ missing' = missing \ {f} /\ unsaved' = unsaved \cup {f}
    /\ events' = [events EXCEPT ![f] = on_disk[f]]
    /\ removed' = removed \cup {f}
    /\ UNCHANGED <<disk, blobs, canon, turn, queries, failures>>

(* A parse whose inputs moved meanwhile is used and not cached.            *)
ParseUncached(f) ==
    /\ stage \in {"facts", "legacy"} /\ f \in missing /\ on_disk[f] # 0
    /\ failures < MaxFailures /\ failures' = failures + 1
    /\ missing' = missing \ {f}
    /\ events' = [events EXCEPT ![f] = on_disk[f]]
    /\ removed' = removed \cup {f}
    /\ UNCHANGED <<disk, blobs, canon, turn, unsaved, queries>>

(* A file that cannot be parsed contributes nothing; its blob stays.       *)
ParseFails(f) ==
    /\ stage \in {"facts", "legacy"} /\ f \in missing
    /\ IF on_disk[f] = 0 THEN UNCHANGED failures
       ELSE failures < MaxFailures /\ failures' = failures + 1
    /\ missing' = missing \ {f} /\ removed' = removed \cup {f}
    /\ UNCHANGED <<disk, blobs, canon, turn, unsaved, events, queries>>

(* save_batch: one chunk, one transaction.                                 *)
SaveBatch ==
    /\ stage \in {"facts", "legacy"} /\ unsaved # {}
    /\ blob_meta' = [f \in Logs |-> IF f \in unsaved THEN observed[f] ELSE blob_meta[f]]
    /\ blob_events' = [f \in Logs |-> IF f \in unsaved THEN events[f] ELSE blob_events[f]]
    /\ TouchBlobs(unsaved) /\ unsaved' = {}
    /\ UNCHANGED <<disk, facts, digest, generation, turn, missing,
                   events, removed, queries, failures>>

(* A failed save only warns.                                               *)
SaveFails ==
    /\ stage \in {"facts", "legacy"} /\ unsaved # {}
    /\ failures < MaxFailures /\ failures' = failures + 1
    /\ unsaved' = {}
    /\ UNCHANGED <<disk, blobs, canon, turn, missing, events, removed,
                   queries>>

Scanned == missing = {} /\ unsaved = {}

(* write_fact_sync: a generation no one has seen before.                   *)
WriteSync ==
    /\ sync' = {fingerprint} /\ generation' = generation + 1

Keep(p, gen) ==
    held' = [q \in Users |->
                IF q # p \/ q \in OneShot THEN held[q]
                ELSE [generation |-> gen, observed |-> fingerprint, events |-> events]]

Unlock ==
    /\ lock' = Nobody /\ stage' = "idle"
    /\ fingerprint' = Zero /\ observed' = Zero /\ events' = Zero
    /\ missing' = {} /\ unsaved' = {} /\ removed' = {}

(* The triggers on usage_facts: a digest goes with the rows it was of.     *)
DropDigests(touched) == digest' = [f \in Logs |-> IF f \in touched THEN 0 ELSE digest[f]]

(* upsert_file_facts in one transaction: the rows of changed, vanished and *)
(* unparsed files are replaced, with the fingerprint.                      *)
UpsertFacts ==
    /\ stage = "facts" /\ Scanned /\ removed # {}
    /\ facts' = [f \in Logs |-> IF f \in removed THEN events[f] ELSE facts[f]]
    /\ DropDigests({f \in removed : facts[f] # 0 \/ events[f] # 0})
    /\ WriteSync /\ Keep(lock, generation + 1) /\ Unlock
    /\ UNCHANGED <<disk, blobs, qpc, asked, failures>>

(* Nothing to replace: the facts stand as they are.                        *)
FactsStand ==
    /\ stage = "facts" /\ Scanned /\ removed = {}
    /\ Keep(lock, IF sync = None THEN 0 ELSE generation) /\ Unlock
    /\ UNCHANGED <<disk, blobs, canon, qpc, asked, failures>>

(* Any error on the way falls back to a scan from the blobs.               *)
FactsFail ==
    /\ stage = "facts" /\ Scanned
    /\ failures < MaxFailures /\ failures' = failures + 1
    /\ stage' = "stamped" /\ fingerprint' = on_disk
    /\ observed' = Zero /\ events' = Zero /\ removed' = {}
    /\ UNCHANGED <<disk, blobs, canon, lock, missing, unsaved, queries>>

(* replace_partition_facts in one transaction: rows whose digest is the    *)
(* one of the new contribution stay.                                       *)
ReplaceFacts ==
    LET same == {f \in Logs : facts[f] # 0 /\ events[f] # 0 /\ digest[f] = events[f]}
        changed == {f \in Logs : events[f] # 0 \/ facts[f] # 0} \ same IN
    /\ stage = "legacy" /\ Scanned
    /\ facts' = [f \in Logs |-> IF f \in changed THEN events[f] ELSE facts[f]]
    /\ digest' = [f \in Logs |-> IF f \in changed THEN events[f] ELSE digest[f]]
    /\ WriteSync /\ stage' = "commit"
    /\ UNCHANGED <<disk, blobs, lock, fingerprint, observed, missing, unsaved, events,
                   removed, queries, failures>>

(* The transaction fails and leaves everything; invalidating what is there *)
(* may fail as well.                                                       *)
ReplaceFails ==
    /\ stage = "legacy" /\ Scanned
    /\ failures < MaxFailures /\ failures' = failures + 1
    /\ sync' \in {sync, None}
    /\ Keep(lock, IF sync' = None THEN 0 ELSE generation) /\ Unlock
    /\ UNCHANGED <<disk, blobs, facts, digest, generation, qpc, asked>>

StillObserved == fingerprint = on_disk

(* legacy_refresh_partition: a source that changed during the scan loses   *)
(* its sync row again.                                                     *)
LegacyDone ==
    /\ stage = "commit"
    /\ sync' = IF StillObserved THEN sync ELSE None
    /\ Keep(lock, IF sync' = None THEN 0 ELSE generation) /\ Unlock
    /\ UNCHANGED <<disk, blobs, facts, digest, generation, qpc, asked, failures>>

Crash ==
    /\ lock # Nobody /\ failures < MaxFailures /\ failures' = failures + 1
    /\ held' = [held EXCEPT ![lock] = Empty] /\ Unlock
    /\ UNCHANGED <<disk, blobs, canon, qpc, asked>>

-----------------------------------------------------------------------------
QueryStep(p, from, to) ==
    /\ qpc[p] = from /\ qpc' = [qpc EXCEPT ![p] = to]
    /\ UNCHANGED <<disk, blobs, canon, refresh, held, failures>>

(* With a partition in memory the generation to compare is the one it was  *)
(* made of; a cold query takes the present one before it looks.            *)
Ask(p) ==
    /\ lock # p /\ p \notin OneShot
    /\ held[p].generation # 0 \/ (sync # None /\ held[p] = Empty)
    /\ asked' = [asked EXCEPT ![p] =
           IF held[p].generation # 0 THEN held[p]
           ELSE [Empty EXCEPT !.generation = generation]]
    /\ QueryStep(p, "out", "stat")

(* validate_partition: stat every file.  A retained partition must have    *)
(* been made from the same ones.                                           *)
StatFiles(p) ==
    /\ held[p].generation # 0 => held[p].observed = on_disk
    /\ asked' = [asked EXCEPT ![p].observed = on_disk]
    /\ QueryStep(p, "stat", "sync")

SyncMatches(p) ==
    /\ sync = {asked[p].observed}
    /\ QueryStep(p, "sync", "rows") /\ UNCHANGED asked

RowsMatch(p) ==
    /\ \A f \in Logs : asked[p].observed[f] # 0 => Hit(f, asked[p].observed)
    /\ QueryStep(p, "rows", "read") /\ UNCHANGED asked

(* A cold query reads the facts; a warm one has its events.                *)
ReadFacts(p) ==
    /\ asked' = [asked EXCEPT ![p].events =
           IF held[p].generation # 0 THEN asked[p].events ELSE facts]
    /\ QueryStep(p, "read", "confirm")

(* A mutant of SameGeneration: the facts are not confirmed.                *)
SameGenerationAlways(p) == TRUE

(* generations_current: no refresh has committed in between.               *)
SameGeneration(p) == sync # None /\ generation = asked[p].generation

Confirm(p) ==
    /\ SameGeneration(p)
    /\ QueryStep(p, "confirm", "answered") /\ UNCHANGED asked

(* Any doubt ends in a refresh.                                            *)
Doubt(p) ==
    /\ \/ qpc[p] = "stat" /\ held[p].generation # 0 /\ held[p].observed # on_disk
       \/ qpc[p] = "sync" /\ sync # {asked[p].observed}
       \/ qpc[p] = "rows"
          /\ \E f \in Logs : asked[p].observed[f] # 0 /\ ~Hit(f, asked[p].observed)
       \/ qpc[p] = "confirm" /\ ~SameGeneration(p)
    /\ qpc' = [qpc EXCEPT ![p] = "out"] /\ asked' = [asked EXCEPT ![p] = Empty]
    /\ held' = [held EXCEPT ![p] = Empty]
    /\ UNCHANGED <<disk, blobs, canon, refresh, failures>>

(* The answer is given; a cold query has filled the memory from the facts. *)
Answer(p) ==
    /\ qpc[p] = "answered"
    /\ held' = [held EXCEPT ![p] = asked[p]]
    /\ qpc' = [qpc EXCEPT ![p] = "out"] /\ asked' = [asked EXCEPT ![p] = Empty]
    /\ UNCHANGED <<disk, blobs, canon, refresh, failures>>

Next ==
    \/ \E f \in Logs, v \in Versions : Change(f, v)
    \/ \E p \in Users : StartFacts(p) \/ StartLegacy(p)
    \/ ScanLegacy
    \/ \E f \in Logs : Parse(f) \/ ParseUncached(f) \/ ParseFails(f)
    \/ SaveBatch \/ SaveFails \/ UpsertFacts \/ FactsStand \/ FactsFail
    \/ ReplaceFacts \/ ReplaceFails \/ LegacyDone \/ Crash
    \/ \E p \in Users :
           \/ Ask(p) \/ StatFiles(p) \/ SyncMatches(p) \/ RowsMatch(p) \/ ReadFacts(p)
           \/ Confirm(p) \/ Doubt(p) \/ Answer(p)

Spec == Init /\ [][Next]_vars

-----------------------------------------------------------------------------
(* While there is a sync row, the facts of a file whose blob is valid are  *)
(* the ones of the blob: a refresh that takes the one for the other        *)
(* reports what a parse would.  And a digest is of the rows that are       *)
(* there, or a refresh would leave rows that are not what it computed.     *)
FactsFollowBlobs ==
    \A f \in Logs :
        /\ sync # None /\ Hit(f, on_disk) => facts[f] = blob_events[f]
        /\ digest[f] # 0 => digest[f] = facts[f]

(* A query that is answered without a refresh, from memory or from the     *)
(* facts, reports each file there is as it was when the query looked at    *)
(* it.                                                                     *)
AnswersAreCurrent ==
    \A p \in Users : qpc[p] = "answered" =>
        \A f \in Logs : asked[p].observed[f] # 0 => asked[p].events[f] = asked[p].observed[f]

=============================================================================
