------------------------------ MODULE Checkpoint ------------------------------
(***************************************************************************)
(* Where the checkpoint lives.  ingest.json is the authority: a legacy     *)
(* document, or a marker that names a database by identity and format.     *)
(* Beside it are the database, two legacy sidecars and the lifecycle lock, *)
(* which doubles as the receipt of an unfinished first initialization.     *)
(*                                                                         *)
(* One writer at a time (it holds the ingest lease) opens the checkpoint,  *)
(* upgrading whatever an older version left, and may be killed between any *)
(* two effects on disk.  Readers ask for nothing but a shared lock.        *)
(*                                                                         *)
(* Sources: src/state/checkpoint.rs, src/state/checkpoint/lifecycle.rs.    *)
(***************************************************************************)
EXTENDS Naturals, FiniteSets

CONSTANTS
    Readers,     \* processes that read the checkpoint
    MaxVersion,  \* bound: contents of the rows, and intents, told apart
    Ids,         \* store identities: random, drawn anew for every store
    NoId,        \* no identity
    MaxCrashes   \* bound: killed writers and failed steps

Versions == 0..MaxVersion    \* 0 stands for no rows and for no intent
Nothing == 0

ASSUME CheckpointAssumption ==
    MaxVersion \in Nat /\ MaxCrashes \in Nat /\ NoId \notin Ids

VARIABLES
    authority,      \* ingest.json: missing, legacy or marker
    marker,         \* the format version a marker names
    store_id,       \* the identity a marker names
    legacy,         \* the rows of a legacy document
    format,         \* checkpoints.sqlite: absent, empty (no tables), v1, v2
    db_id,          \* metadata.store_id
    origin,         \* metadata.origin: bootstrap or legacy
    files,          \* the rows in the database
    pending_json,   \* metadata.pending_json
    pending_file,   \* ingest.pending.json
    cache_file,     \* scan_cache.json exists
    receipt,        \* the identity in the lifecycle lock
    wpc,            \* where the writer is
    wid,            \* the identity it is about to import under
    rpc,            \* where each reader is
    rauth,          \* the authority each reader saw
    resetting,      \* a reset began and neither ended nor was superseded
    crashes         \* crashes so far

auth == <<authority, marker, store_id, legacy>>
database == <<format, db_id, origin, files, pending_json>>
sidecars == <<pending_file, cache_file>>
writer == <<wpc, wid>>
reader == <<rpc, rauth>>
vars == <<auth, database, sidecars, receipt, writer, reader, resetting, crashes>>

Exclusive == {"locked", "named", "created", "imported", "cleanup", "cleanup_cache",
              "reset_database", "reset_pending", "reset_cache"}

NoOneReads == \A r \in Readers : rpc[r] # "open"

-----------------------------------------------------------------------------
(* What every version of the program can have left behind: nothing, with   *)
(* or without an intent from a first refresh; a legacy document; a v1      *)
(* store with its sidecars; a v2 store.                                    *)
Init ==
    /\ \/ /\ authority = "missing" /\ format = "absent" /\ legacy = 0
          /\ marker = 2 /\ store_id = NoId /\ db_id = NoId /\ files = 0 /\ pending_json = 0
       \/ /\ authority = "legacy" /\ format = "absent" /\ legacy \in Versions
          /\ marker = 2 /\ store_id = NoId /\ db_id = NoId /\ files = 0 /\ pending_json = 0
       \/ /\ authority = "marker" /\ format = "v1" /\ legacy = 0
          /\ marker = 1 /\ store_id \in Ids /\ db_id = store_id
          /\ files \in Versions /\ pending_json = 0
       \/ /\ authority = "marker" /\ format = "v2" /\ legacy = 0
          /\ marker = 2 /\ store_id \in Ids /\ db_id = store_id
          /\ files \in Versions /\ pending_json \in Versions
    /\ pending_file \in IF format = "v2" THEN {0} ELSE Versions
    /\ cache_file \in IF format = "v2" THEN {FALSE} ELSE BOOLEAN
    /\ origin = "legacy" /\ receipt = NoId
    /\ wpc = "out" /\ wid = NoId
    /\ rpc = [r \in Readers |-> "out"]
    /\ rauth = [r \in Readers |-> <<"missing", 2, NoId>>]
    /\ resetting = FALSE /\ crashes = 0

-----------------------------------------------------------------------------
(* validate: the database is the one the marker names, in a format the     *)
(* marker allows.                                                          *)
Valid(id, version) ==
    /\ format \in {"v1", "v2"} /\ (version = 2 => format = "v2")
    /\ db_id = id

(* A mutant of ValidBootstrap: imported sidecars are never explained.      *)
ValidBootstrapIfNull ==
    /\ receipt # NoId
    /\ \/ format = "empty"
       \/ /\ format \in {"v1", "v2"} /\ db_id = receipt
          /\ origin = "bootstrap" /\ files = 0
          /\ format = "v2" => pending_json = 0

(* validate_bootstrap: without an authority a database is only accepted as *)
(* the unfinished work of the initialization the receipt names.            *)
ValidBootstrap ==
    /\ receipt # NoId
    /\ \/ format = "empty"
       \/ /\ format \in {"v1", "v2"} /\ db_id = receipt
          /\ origin = "bootstrap" /\ files = 0
          /\ format = "v2" => pending_json \in {0, pending_file}

SidecarsExist == pending_file # 0 \/ cache_file

(* open_writer, the usual case: a v2 marker and nothing to clean.          *)
OpenActive ==
    /\ wpc \in {"out", "reopen"}
    /\ wpc = "out" => ~SidecarsExist
    /\ authority = "marker" /\ marker = 2 /\ Valid(store_id, 2) /\ format = "v2"
    /\ wpc' = "open"
    /\ UNCHANGED <<auth, database, sidecars, receipt, wid, reader, resetting, crashes>>

(* The other cases need the lifecycle lock for themselves.  Without an     *)
(* authority the caller must have allowed the initialization.              *)
LockExclusive ==
    /\ wpc = "out" /\ NoOneReads
    /\ ~(authority = "marker" /\ marker = 2 /\ ~SidecarsExist)
    /\ CASE authority = "marker"  -> Valid(store_id, marker)
         [] authority = "missing" -> format = "absent" \/ ValidBootstrap
         [] OTHER                 -> TRUE
    /\ wpc' = "locked"
    /\ UNCHANGED <<auth, database, sidecars, receipt, wid, reader, resetting, crashes>>

(* A v1 store: one transaction adds the columns, imports the sidecars and  *)
(* raises the version.                                                     *)
ImportV1 ==
    /\ wpc = "locked" /\ authority = "marker" /\ format = "v1"
    /\ format' = "v2" /\ pending_json' = pending_file
    /\ wpc' = "imported"
    /\ UNCHANGED <<auth, db_id, origin, files, sidecars, receipt, wid, reader,
                   resetting, crashes>>

(* A mutant of SkipImport: an upgrade that was cut short imports again.    *)
SkipImportNot ==
    /\ wpc = "locked" /\ authority = "marker" /\ format = "v2"
    /\ pending_json' = pending_file
    /\ wpc' = IF marker = 1 THEN "imported" ELSE "cleanup"
    /\ UNCHANGED <<auth, format, db_id, origin, files, sidecars, receipt, wid, reader,
                   resetting, crashes>>

(* A v2 store is never imported into again.                                *)
SkipImport ==
    /\ wpc = "locked" /\ authority = "marker" /\ format = "v2"
    /\ wpc' = IF marker = 1 THEN "imported" ELSE "cleanup"
    /\ UNCHANGED <<auth, database, sidecars, receipt, wid, reader, resetting, crashes>>

NewIdentities ==
    Ids \ ({store_id, db_id, receipt} \cup {rauth[r][3] : r \in Readers})

NameLegacy ==
    /\ wpc = "locked" /\ authority = "legacy"
    /\ wid' \in NewIdentities
    /\ wpc' = "named"
    /\ UNCHANGED <<auth, database, sidecars, receipt, reader, resetting, crashes>>

(* A first initialization writes its receipt before the database exists.   *)
WriteReceipt ==
    /\ wpc = "locked" /\ authority = "missing" /\ format = "absent"
    /\ wid' \in NewIdentities /\ receipt' = wid'
    /\ wpc' = "named"
    /\ UNCHANGED <<auth, database, sidecars, reader, resetting, crashes>>

ReuseReceipt ==
    /\ wpc = "locked" /\ authority = "missing" /\ format # "absent" /\ ValidBootstrap
    /\ wid' = receipt
    /\ wpc' = "named"
    /\ UNCHANGED <<auth, database, sidecars, receipt, reader, resetting, crashes>>

CreateDatabase ==
    /\ wpc = "named"
    /\ format' = IF format = "absent" THEN "empty" ELSE format
    /\ wpc' = "created"
    /\ UNCHANGED <<auth, db_id, origin, files, pending_json, sidecars, receipt,
                   wid, reader, resetting, crashes>>

(* The import of a legacy document, or of nothing, replaces whatever an    *)
(* earlier attempt committed.                                              *)
Import ==
    /\ wpc = "created"
    /\ format' = "v2" /\ db_id' = wid
    /\ origin' = IF authority = "legacy" THEN "legacy" ELSE "bootstrap"
    /\ files' = IF authority = "legacy" THEN legacy ELSE 0
    /\ pending_json' = pending_file
    /\ wpc' = "imported"
    /\ UNCHANGED <<auth, sidecars, receipt, wid, reader, resetting, crashes>>

(* A mutant of Activate: the marker's version is raised instead of set.    *)
ActivateRaised ==
    /\ wpc = "imported"
    /\ authority' = "marker" /\ marker' = marker + 1 /\ store_id' = db_id /\ legacy' = 0
    /\ resetting' = FALSE
    /\ wpc' = "cleanup"
    /\ UNCHANGED <<database, sidecars, receipt, wid, reader, crashes>>

(* activate: the write-ahead log is folded in and synchronized, then the   *)
(* marker replaces the authority in one rename.                            *)
Activate ==
    /\ wpc = "imported"
    /\ authority' = "marker" /\ marker' = 2 /\ store_id' = db_id /\ legacy' = 0
    /\ resetting' = FALSE
    /\ wpc' = "cleanup"
    /\ UNCHANGED <<database, sidecars, receipt, wid, reader, crashes>>

(* cleanup_sidecars: the intent first, then the cache.                     *)
CleanPending ==
    /\ wpc = "cleanup"
    /\ pending_file' = 0
    /\ wpc' = "cleanup_cache"
    /\ UNCHANGED <<auth, database, cache_file, receipt, wid, reader, resetting, crashes>>

CleanCache ==
    /\ wpc = "cleanup_cache"
    /\ cache_file' = FALSE
    /\ wpc' = "reopen"
    /\ UNCHANGED <<auth, database, pending_file, receipt, wid, reader, resetting, crashes>>

(* The open writer: an intent of its own, or rows and intent in one        *)
(* transaction; then it is dropped.                                        *)
CommitIntent ==
    /\ wpc = "open"
    /\ pending_json' \in Versions \ {0, pending_json}
    /\ UNCHANGED <<auth, format, db_id, origin, files, sidecars, receipt, writer,
                   reader, resetting, crashes>>

CommitDelta ==
    /\ wpc = "open"
    /\ files' \in Versions /\ pending_json' \in {0, pending_json}
    /\ UNCHANGED <<auth, format, db_id, origin, sidecars, receipt, writer, reader,
                   resetting, crashes>>

Close ==
    /\ wpc = "open"
    /\ wpc' = "out"
    /\ UNCHANGED <<auth, database, sidecars, receipt, wid, reader, resetting, crashes>>

(* A mutant of ResetAuthority: the reset takes no exclusive lock.          *)
ResetUnlocked ==
    /\ wpc = "out"
    /\ authority' = "missing" /\ marker' = 2 /\ store_id' = NoId /\ legacy' = 0
    /\ resetting' = TRUE
    /\ wpc' = "reset_database"
    /\ UNCHANGED <<database, sidecars, receipt, wid, reader, crashes>>

(* reset, one file after the other, the authority first.                   *)
ResetAuthority ==
    /\ wpc = "out" /\ NoOneReads
    /\ authority' = "missing" /\ marker' = 2 /\ store_id' = NoId /\ legacy' = 0
    /\ resetting' = TRUE
    /\ wpc' = "reset_database"
    /\ UNCHANGED <<database, sidecars, receipt, wid, reader, crashes>>

ResetDatabase ==
    /\ wpc = "reset_database"
    /\ format' = "absent" /\ db_id' = NoId /\ files' = 0 /\ pending_json' = 0
    /\ wpc' = "reset_pending"
    /\ UNCHANGED <<auth, origin, sidecars, receipt, wid, reader, resetting, crashes>>

ResetPending ==
    /\ wpc = "reset_pending"
    /\ pending_file' = 0
    /\ wpc' = "reset_cache"
    /\ UNCHANGED <<auth, database, cache_file, receipt, wid, reader, resetting, crashes>>

ResetCache ==
    /\ wpc = "reset_cache"
    /\ cache_file' = FALSE
    /\ resetting' = FALSE
    /\ wpc' = "out"
    /\ UNCHANGED <<auth, database, pending_file, receipt, wid, reader, crashes>>

(* The writer is killed, or a step fails and the error is returned: its    *)
(* locks go, what it did stays.                                            *)
Crash ==
    /\ wpc # "out" /\ crashes < MaxCrashes
    /\ crashes' = crashes + 1
    /\ wpc' = "out"
    /\ UNCHANGED <<auth, database, sidecars, receipt, wid, reader, resetting>>

-----------------------------------------------------------------------------
(* open_reader looks at the authority without any lock ...                 *)
ReadAuthority(r) ==
    /\ rpc[r] = "out" /\ authority = "marker"
    /\ rauth' = [rauth EXCEPT ![r] = <<authority, marker, store_id>>]
    /\ rpc' = [rpc EXCEPT ![r] = "found"]
    /\ UNCHANGED <<auth, database, sidecars, receipt, writer, resetting, crashes>>

(* ... and again under the shared lock: it must not have changed, and the  *)
(* database must be the one it names.                                      *)
LockShared(r) ==
    /\ rpc[r] = "found" /\ wpc \notin Exclusive
    /\ rpc' = [rpc EXCEPT ![r] =
                 IF /\ rauth[r] = <<authority, marker, store_id>>
                    /\ Valid(store_id, marker)
                 THEN "open" ELSE "out"]
    /\ UNCHANGED <<auth, database, sidecars, receipt, writer, rauth, resetting, crashes>>

(* The reader is done, or the lock stayed busy.                            *)
ReaderLeaves(r) ==
    /\ rpc[r] # "out"
    /\ rpc' = [rpc EXCEPT ![r] = "out"]
    /\ rauth' = [rauth EXCEPT ![r] = <<"missing", 2, NoId>>]
    /\ UNCHANGED <<auth, database, sidecars, receipt, writer, resetting, crashes>>

-----------------------------------------------------------------------------
Next ==
    \/ OpenActive \/ LockExclusive
    \/ ImportV1 \/ SkipImport
    \/ NameLegacy \/ WriteReceipt \/ ReuseReceipt \/ CreateDatabase \/ Import
    \/ Activate \/ CleanPending \/ CleanCache
    \/ CommitIntent \/ CommitDelta \/ Close
    \/ ResetAuthority \/ ResetDatabase \/ ResetPending \/ ResetCache
    \/ Crash
    \/ \E r \in Readers : ReadAuthority(r) \/ LockShared(r) \/ ReaderLeaves(r)

Spec == Init /\ [][Next]_vars

-----------------------------------------------------------------------------
(* Type invariant. *)
TypeOK ==
    /\ authority \in {"missing", "legacy", "marker"} /\ marker \in {1, 2}
    /\ store_id \in Ids \cup {NoId} /\ legacy \in Versions
    /\ format \in {"absent", "empty", "v1", "v2"} /\ db_id \in Ids \cup {NoId}
    /\ origin \in {"bootstrap", "legacy"}
    /\ files \in Versions /\ pending_json \in Versions
    /\ pending_file \in Versions /\ cache_file \in BOOLEAN
    /\ receipt \in Ids \cup {NoId}
    /\ wpc \in {"out", "reopen", "open"} \cup Exclusive /\ wid \in Ids \cup {NoId}
    /\ rpc \in [Readers -> {"out", "found", "open"}]
    /\ rauth \in [Readers -> {"missing", "legacy", "marker"} \X {1, 2} \X (Ids \cup {NoId})]
    /\ resetting \in BOOLEAN /\ crashes \in Nat

(* What load_files and export_pending_json answer for the files as they    *)
(* are: a v2 database under a marker owns the intent, the sidecar does     *)
(* everywhere else.                                                        *)
DatabaseOwns == authority = "marker" /\ format = "v2"

RowsNow ==
    CASE authority = "legacy" -> legacy
      [] authority = "marker" -> files
      [] OTHER                -> 0

PendingNow == IF DatabaseOwns THEN pending_json ELSE pending_file

Reg == INSTANCE Register WITH
    Rows <- Versions, NoRows <- Nothing, Intents <- Versions, NoIntent <- Nothing,
    rows <- RowsNow, pending <- PendingNow,
    retained <- pending_file,
    writing <- wpc = "open", resetting <- resetting

(* Through every upgrade, crash, retry and reset the checkpoint is one     *)
(* register: rows and intent only change when a writer commits them, an    *)
(* intent is never lost by moving from the sidecar into the database, and  *)
(* a copy that was left behind never comes back over a newer one.          *)
IsRegister == Reg!Spec

(* No crash wedges the checkpoint: as long as no reset was cut short, a    *)
(* writer that starts anew finds something open_writer accepts.            *)
NeverWedged ==
    wpc = "out" /\ ~resetting =>
        CASE authority = "marker"  -> Valid(store_id, marker)
          [] authority = "missing" -> format = "absent" \/ ValidBootstrap
          [] OTHER                 -> TRUE

(* The database a reader has open is not replaced or removed under it:     *)
(* until it leaves, the authority keeps naming that database.              *)
ReadersPinned ==
    \A r \in Readers :
        rpc[r] = "open" =>
            /\ authority = "marker" /\ rauth[r] = <<authority, marker, store_id>>
            /\ Valid(store_id, marker)

=============================================================================
