--------------------------- MODULE CheckpointProofs ---------------------------
(***************************************************************************)
(* What the lifecycle of the checkpoint keeps, for any number of readers,  *)
(* contents, identities and crashes, and that it is the register of module *)
(* Register.                                                               *)
(*                                                                         *)
(* LifecycleInv is inductive.  A marker always names the database that is  *)
(* there; a database without an authority is explained by the receipt,     *)
(* unless a reset was cut short; a writer that may replace the authority   *)
(* or the database has the lifecycle lock for itself, and knows what an    *)
(* import under way has to bring into the register.                        *)
(***************************************************************************)
EXTENDS Checkpoint, TLAPS

Initializing == {"named", "created"}
Cleaning == {"cleanup", "cleanup_cache", "reopen", "open"}
Resetting == {"reset_database", "reset_pending", "reset_cache"}

\* A marker names the database that is there; without an authority there is no
\* database, or the receipt explains it.
AuthorityInv ==
    /\ authority = "marker" => Valid(store_id, marker)
    /\ authority = "missing" /\ ~resetting => format = "absent" \/ ValidBootstrap

\* Where the writer is says what it has done so far.
WriterInv ==
    /\ wpc \in Initializing =>
          /\ authority # "marker" /\ wid # NoId
          /\ authority = "missing" => receipt = wid
    /\ wpc = "imported" =>
          /\ format = "v2"
          /\ authority # "marker" => files = RowsNow /\ pending_json = pending_file
    /\ wpc \in Cleaning => authority = "marker" /\ marker = 2 /\ format = "v2"
    /\ wpc \in Resetting => authority = "missing" /\ resetting
    /\ wpc \in {"reset_pending", "reset_cache"} => format = "absent"

\* The lifecycle lock is shared by readers or exclusive.
LockInv == wpc \in Exclusive => NoOneReads

\* What a reader found before it asked for the lock was a marker.
FoundInv == \A r \in Readers : rpc[r] = "found" => rauth[r][1] = "marker"

LifecycleInv ==
    TypeOK /\ AuthorityInv /\ WriterInv /\ LockInv /\ FoundInv /\ ReadersPinned

\* What any version of the program left behind satisfies the invariant.
LEMMA LifecycleInit == Init => LifecycleInv
  <1> SUFFICES ASSUME Init PROVE LifecycleInv
    OBVIOUS
  <1>1. TypeOK
    <2>1. /\ 0 \in Versions
          /\ rauth \in [Readers -> {"missing", "legacy", "marker"} \X {1, 2} \X (Ids \cup {NoId})]
          /\ rpc \in [Readers -> {"out", "found", "open"}]
      BY CheckpointAssumption DEF Init, Versions
    <2> QED
      BY <2>1 DEF Init, TypeOK
  <1>2. AuthorityInv
    BY DEF Init, AuthorityInv, Valid
  <1>3. WriterInv /\ LockInv /\ FoundInv /\ ReadersPinned
    BY DEF Init, WriterInv, LockInv, FoundInv, ReadersPinned, Exclusive, Initializing, Cleaning,
       Resetting
  <1> QED
    BY <1>1, <1>2, <1>3 DEF LifecycleInv

\* Opening an active store changes nothing on disk.
LEMMA OpenActiveKeeps ==
    ASSUME LifecycleInv, OpenActive
    PROVE  LifecycleInv'
  <1> USE DEF LifecycleInv, auth, database, sidecars, writer, reader
  <1>1. TypeOK'
    BY DEF OpenActive, TypeOK
  <1>2. AuthorityInv'
    BY DEF OpenActive, AuthorityInv, Valid, ValidBootstrap
  <1>3. WriterInv'
    BY DEF OpenActive, WriterInv, Initializing, Cleaning, Resetting, RowsNow
  <1>4. LockInv'
    BY DEF OpenActive, LockInv, Exclusive
  <1>5. FoundInv'
    BY DEF OpenActive, FoundInv
  <1>6. ReadersPinned'
    BY DEF OpenActive, ReadersPinned, LockInv, Exclusive, NoOneReads, Valid
  <1> QED
    BY <1>1, <1>2, <1>3, <1>4, <1>5, <1>6

\* The lock is taken only when no reader has it.
LEMMA LockExclusiveKeeps ==
    ASSUME LifecycleInv, LockExclusive
    PROVE  LifecycleInv'
  <1> USE DEF LifecycleInv, auth, database, sidecars, writer, reader
  <1>1. TypeOK'
    BY CheckpointAssumption DEF LockExclusive, TypeOK, Exclusive, NewIdentities,
       Versions
  <1>2. AuthorityInv'
    BY DEF LockExclusive, AuthorityInv, Valid, ValidBootstrap
  <1>3. WriterInv'
    BY DEF LockExclusive, WriterInv, Initializing, Cleaning, Resetting, RowsNow
  <1>4. LockInv'
    BY DEF LockExclusive, LockInv, Exclusive, NoOneReads, TypeOK
  <1>5. FoundInv'
    BY DEF LockExclusive, FoundInv
  <1>6. ReadersPinned'
    BY DEF LockExclusive, ReadersPinned, LockInv, Exclusive, NoOneReads, Valid
  <1> QED
    BY <1>1, <1>2, <1>3, <1>4, <1>5, <1>6

\* The upgrade of a v1 store brings the sidecar's intent into the database.
LEMMA ImportV1Keeps ==
    ASSUME LifecycleInv, ImportV1
    PROVE  LifecycleInv'
  <1> USE DEF LifecycleInv, auth, database, sidecars, writer, reader
  <1>1. TypeOK'
    BY CheckpointAssumption DEF ImportV1, TypeOK, Exclusive, NewIdentities, Versions
  <1>2. AuthorityInv'
    BY DEF ImportV1, AuthorityInv, Valid, ValidBootstrap
  <1>3. WriterInv'
    BY DEF ImportV1, WriterInv, Initializing, Cleaning, Resetting, RowsNow
  <1>4. LockInv'
    BY DEF ImportV1, LockInv, Exclusive, NoOneReads, TypeOK
  <1>5. FoundInv'
    BY DEF ImportV1, FoundInv
  <1>6. ReadersPinned'
    BY DEF ImportV1, ReadersPinned, LockInv, Exclusive, NoOneReads, Valid
  <1> QED
    BY <1>1, <1>2, <1>3, <1>4, <1>5, <1>6

\* A v2 store is as good as imported.
LEMMA SkipImportKeeps ==
    ASSUME LifecycleInv, SkipImport
    PROVE  LifecycleInv'
  <1> USE DEF LifecycleInv, auth, database, sidecars, writer, reader
  <1>1. TypeOK'
    BY CheckpointAssumption DEF SkipImport, TypeOK, Exclusive, NewIdentities, Versions
  <1>2. AuthorityInv'
    BY DEF SkipImport, AuthorityInv, Valid, ValidBootstrap
  <1>3. WriterInv'
    BY CheckpointAssumption DEF SkipImport, WriterInv, TypeOK, Initializing, Cleaning,
       Resetting, RowsNow, NewIdentities, AuthorityInv, Valid, Versions
  <1>4. LockInv'
    BY DEF SkipImport, LockInv, Exclusive, NoOneReads, TypeOK
  <1>5. FoundInv'
    BY DEF SkipImport, FoundInv
  <1>6. ReadersPinned'
    BY DEF SkipImport, ReadersPinned, LockInv, Exclusive, NoOneReads, Valid
  <1> QED
    BY <1>1, <1>2, <1>3, <1>4, <1>5, <1>6

\* A legacy document gets an identity nobody knows.
LEMMA NameLegacyKeeps ==
    ASSUME LifecycleInv, NameLegacy
    PROVE  LifecycleInv'
  <1> USE DEF LifecycleInv, auth, database, sidecars, writer, reader
  <1>1. TypeOK'
    BY CheckpointAssumption DEF NameLegacy, TypeOK, Exclusive, NewIdentities, Versions
  <1>2. AuthorityInv'
    BY DEF NameLegacy, AuthorityInv, Valid, ValidBootstrap
  <1>3. WriterInv'
    BY CheckpointAssumption DEF NameLegacy, WriterInv, TypeOK, Initializing, Cleaning,
       Resetting, RowsNow, NewIdentities, AuthorityInv, Valid, Versions
  <1>4. LockInv'
    BY DEF NameLegacy, LockInv, Exclusive, NoOneReads, TypeOK
  <1>5. FoundInv'
    BY DEF NameLegacy, FoundInv
  <1>6. ReadersPinned'
    BY DEF NameLegacy, ReadersPinned
  <1> QED
    BY <1>1, <1>2, <1>3, <1>4, <1>5, <1>6

\* The receipt names the store before there is a database.
LEMMA WriteReceiptKeeps ==
    ASSUME LifecycleInv, WriteReceipt
    PROVE  LifecycleInv'
  <1> USE DEF LifecycleInv, auth, database, sidecars, writer, reader
  <1>1. TypeOK'
    BY CheckpointAssumption DEF WriteReceipt, TypeOK, Exclusive, NewIdentities, Versions
  <1>2. AuthorityInv'
    BY DEF WriteReceipt, AuthorityInv, Valid, ValidBootstrap
  <1>3. WriterInv'
    BY CheckpointAssumption DEF WriteReceipt, WriterInv, TypeOK, Initializing, Cleaning,
       Resetting, RowsNow, NewIdentities, AuthorityInv, Valid, Versions
  <1>4. LockInv'
    BY DEF WriteReceipt, LockInv, Exclusive, NoOneReads, TypeOK
  <1>5. FoundInv'
    BY DEF WriteReceipt, FoundInv
  <1>6. ReadersPinned'
    BY DEF WriteReceipt, ReadersPinned
  <1> QED
    BY <1>1, <1>2, <1>3, <1>4, <1>5, <1>6

\* A second attempt goes on under the identity of the receipt.
LEMMA ReuseReceiptKeeps ==
    ASSUME LifecycleInv, ReuseReceipt
    PROVE  LifecycleInv'
  <1> USE DEF LifecycleInv, auth, database, sidecars, writer, reader
  <1>1. TypeOK'
    BY CheckpointAssumption DEF ReuseReceipt, TypeOK, Exclusive, NewIdentities, Versions
  <1>2. AuthorityInv'
    BY DEF ReuseReceipt, AuthorityInv, Valid, ValidBootstrap
  <1>3. WriterInv'
    BY DEF ReuseReceipt, ValidBootstrap, WriterInv, Initializing, Cleaning, Resetting
  <1>4. LockInv'
    BY DEF ReuseReceipt, LockInv, Exclusive, NoOneReads, TypeOK
  <1>5. FoundInv'
    BY DEF ReuseReceipt, FoundInv
  <1>6. ReadersPinned'
    BY DEF ReuseReceipt, ReadersPinned
  <1> QED
    BY <1>1, <1>2, <1>3, <1>4, <1>5, <1>6

\* An empty database is explained by the receipt.
LEMMA CreateDatabaseKeeps ==
    ASSUME LifecycleInv, CreateDatabase
    PROVE  LifecycleInv'
  <1> USE DEF LifecycleInv, auth, database, sidecars, writer, reader
  <1>1. TypeOK'
    BY CheckpointAssumption DEF CreateDatabase, TypeOK, Exclusive, NewIdentities,
       Versions
  <1>2. AuthorityInv'
    BY DEF CreateDatabase, AuthorityInv, Valid, ValidBootstrap, WriterInv, Cleaning,
       Initializing
  <1>3. WriterInv'
    BY DEF CreateDatabase, WriterInv, Initializing, Cleaning, Resetting, RowsNow
  <1>4. LockInv'
    BY DEF CreateDatabase, LockInv, Exclusive, NoOneReads, TypeOK
  <1>5. FoundInv'
    BY DEF CreateDatabase, FoundInv
  <1>6. ReadersPinned'
    BY DEF CreateDatabase, ReadersPinned, LockInv, Exclusive, NoOneReads, Valid
  <1> QED
    BY <1>1, <1>2, <1>3, <1>4, <1>5, <1>6

\* What is imported is what the authority and the sidecar hold.
LEMMA ImportKeeps ==
    ASSUME LifecycleInv, Import
    PROVE  LifecycleInv'
  <1> USE DEF LifecycleInv, auth, database, sidecars, writer, reader
  <1>1. TypeOK'
    BY CheckpointAssumption DEF Import, TypeOK, Exclusive, NewIdentities, Versions
  <1>2. AuthorityInv'
    BY DEF Import, AuthorityInv, Valid, ValidBootstrap, WriterInv, Cleaning,
       Initializing
  <1>3. WriterInv'
    BY DEF Import, WriterInv, Initializing, Cleaning, Resetting, RowsNow
  <1>4. LockInv'
    BY DEF Import, LockInv, Exclusive, NoOneReads, TypeOK
  <1>5. FoundInv'
    BY DEF Import, FoundInv
  <1>6. ReadersPinned'
    BY DEF Import, ReadersPinned, LockInv, Exclusive, NoOneReads, Valid
  <1> QED
    BY <1>1, <1>2, <1>3, <1>4, <1>5, <1>6

\* The new marker names the database that was imported.
LEMMA ActivateKeeps ==
    ASSUME LifecycleInv, Activate
    PROVE  LifecycleInv'
  <1> USE DEF LifecycleInv, auth, database, sidecars, writer, reader
  <1>1. TypeOK'
    <2>1. wpc' \in {"out", "reopen", "open"} \cup Exclusive
      BY DEF Activate, Exclusive
    <2>2. authority' \in {"missing", "legacy", "marker"} /\ marker' \in {1, 2} /\ resetting' \in BOOLEAN
      BY DEF Activate
    <2>3. store_id' \in Ids \cup {NoId} /\ legacy' \in Versions
      BY CheckpointAssumption DEF Activate, TypeOK, Versions
    <2> QED
      BY <2>1, <2>2, <2>3 DEF Activate, TypeOK
  <1>2. AuthorityInv'
    BY DEF Activate, AuthorityInv, Valid, ValidBootstrap, WriterInv, Cleaning,
       Initializing
  <1>3. WriterInv'
    BY DEF Activate, WriterInv, Initializing, Cleaning, Resetting, RowsNow
  <1>4. LockInv'
    BY DEF Activate, LockInv, Exclusive, NoOneReads, TypeOK
  <1>5. FoundInv'
    BY DEF Activate, FoundInv
  <1>6. ReadersPinned'
    BY DEF Activate, ReadersPinned, LockInv, Exclusive, NoOneReads, Valid
  <1> QED
    BY <1>1, <1>2, <1>3, <1>4, <1>5, <1>6

\* The sidecar goes only below a marker, whose database owns the intent.
LEMMA CleanPendingKeeps ==
    ASSUME LifecycleInv, CleanPending
    PROVE  LifecycleInv'
  <1> USE DEF LifecycleInv, auth, database, sidecars, writer, reader
  <1>1. TypeOK'
    BY CheckpointAssumption DEF CleanPending, TypeOK, Exclusive, NewIdentities, Versions
  <1>2. AuthorityInv'
    BY DEF CleanPending, AuthorityInv, Valid, ValidBootstrap, WriterInv, Cleaning,
       Initializing
  <1>3. WriterInv'
    BY DEF CleanPending, WriterInv, Initializing, Cleaning, Resetting, RowsNow
  <1>4. LockInv'
    BY DEF CleanPending, LockInv, Exclusive, NoOneReads, TypeOK
  <1>5. FoundInv'
    BY DEF CleanPending, FoundInv
  <1>6. ReadersPinned'
    BY DEF CleanPending, ReadersPinned, LockInv, Exclusive, NoOneReads, Valid
  <1> QED
    BY <1>1, <1>2, <1>3, <1>4, <1>5, <1>6

\* The cache is nobody's state.
LEMMA CleanCacheKeeps ==
    ASSUME LifecycleInv, CleanCache
    PROVE  LifecycleInv'
  <1> USE DEF LifecycleInv, auth, database, sidecars, writer, reader
  <1>1. TypeOK'
    BY ZenonT(60) DEF CleanCache, TypeOK
  <1>2. AuthorityInv'
    BY DEF CleanCache, AuthorityInv, Valid, ValidBootstrap
  <1>3. WriterInv'
    BY DEF CleanCache, WriterInv, Initializing, Cleaning, Resetting, RowsNow
  <1>4. LockInv'
    BY DEF CleanCache, LockInv, Exclusive
  <1>5. FoundInv'
    BY DEF CleanCache, FoundInv
  <1>6. ReadersPinned'
    BY DEF CleanCache, ReadersPinned, LockInv, Exclusive, NoOneReads, Valid
  <1> QED
    BY <1>1, <1>2, <1>3, <1>4, <1>5, <1>6

\* A commit keeps the database the marker names.
LEMMA CommitIntentKeeps ==
    ASSUME LifecycleInv, CommitIntent
    PROVE  LifecycleInv'
  <1> USE DEF LifecycleInv, auth, database, sidecars, writer, reader
  <1>1. TypeOK'
    BY DEF CommitIntent, TypeOK
  <1>2. AuthorityInv'
    BY DEF CommitIntent, AuthorityInv, Valid, ValidBootstrap, WriterInv, Cleaning,
       Initializing
  <1>3. WriterInv'
    BY DEF CommitIntent, WriterInv, Initializing, Cleaning, Resetting, RowsNow
  <1>4. LockInv'
    BY DEF CommitIntent, LockInv, Exclusive
  <1>5. FoundInv'
    BY DEF CommitIntent, FoundInv
  <1>6. ReadersPinned'
    BY DEF CommitIntent, ReadersPinned, LockInv, Exclusive, NoOneReads, Valid
  <1> QED
    BY <1>1, <1>2, <1>3, <1>4, <1>5, <1>6

\* A commit keeps the database the marker names.
LEMMA CommitDeltaKeeps ==
    ASSUME LifecycleInv, CommitDelta
    PROVE  LifecycleInv'
  <1> USE DEF LifecycleInv, auth, database, sidecars, writer, reader
  <1>1. TypeOK'
    BY CheckpointAssumption DEF CommitDelta, TypeOK, Exclusive, NewIdentities, Versions
  <1>2. AuthorityInv'
    BY DEF CommitDelta, AuthorityInv, Valid, ValidBootstrap, WriterInv, Cleaning,
       Initializing
  <1>3. WriterInv'
    BY DEF CommitDelta, WriterInv, Initializing, Cleaning, Resetting, RowsNow
  <1>4. LockInv'
    BY DEF CommitDelta, LockInv, Exclusive
  <1>5. FoundInv'
    BY DEF CommitDelta, FoundInv
  <1>6. ReadersPinned'
    BY DEF CommitDelta, ReadersPinned, LockInv, Exclusive, NoOneReads, Valid
  <1> QED
    BY <1>1, <1>2, <1>3, <1>4, <1>5, <1>6

\* Closing leaves everything as it is.
LEMMA CloseKeeps ==
    ASSUME LifecycleInv, Close
    PROVE  LifecycleInv'
  <1> USE DEF LifecycleInv, auth, database, sidecars, writer, reader
  <1>1. TypeOK'
    BY DEF Close, TypeOK
  <1>2. AuthorityInv'
    BY DEF Close, AuthorityInv, Valid, ValidBootstrap
  <1>3. WriterInv'
    BY DEF Close, WriterInv, Initializing, Cleaning, Resetting, RowsNow
  <1>4. LockInv'
    BY DEF Close, LockInv, Exclusive
  <1>5. FoundInv'
    BY DEF Close, FoundInv
  <1>6. ReadersPinned'
    BY DEF Close, ReadersPinned, LockInv, Exclusive, NoOneReads, Valid
  <1> QED
    BY <1>1, <1>2, <1>3, <1>4, <1>5, <1>6

\* The authority goes when no reader has the database open.
LEMMA ResetAuthorityKeeps ==
    ASSUME LifecycleInv, ResetAuthority
    PROVE  LifecycleInv'
  <1> USE DEF LifecycleInv, auth, database, sidecars, writer, reader
  <1>1. TypeOK'
    BY CheckpointAssumption DEF ResetAuthority, TypeOK, Exclusive, NewIdentities,
       Versions
  <1>2. AuthorityInv'
    BY DEF ResetAuthority, AuthorityInv, Valid, ValidBootstrap
  <1>3. WriterInv'
    BY DEF ResetAuthority, WriterInv, Initializing, Cleaning, Resetting, RowsNow
  <1>4. LockInv'
    BY DEF ResetAuthority, LockInv, Exclusive, NoOneReads, TypeOK
  <1>5. FoundInv'
    BY DEF ResetAuthority, FoundInv
  <1>6. ReadersPinned'
    BY DEF ResetAuthority, ReadersPinned, LockInv, Exclusive, NoOneReads, Valid
  <1> QED
    BY <1>1, <1>2, <1>3, <1>4, <1>5, <1>6

\* A reset that began explains a missing database.
LEMMA ResetDatabaseKeeps ==
    ASSUME LifecycleInv, ResetDatabase
    PROVE  LifecycleInv'
  <1> USE DEF LifecycleInv, auth, database, sidecars, writer, reader
  <1>1. TypeOK'
    BY CheckpointAssumption DEF ResetDatabase, TypeOK, Exclusive, NewIdentities,
       Versions
  <1>2. AuthorityInv'
    BY CheckpointAssumption DEF ResetDatabase, AuthorityInv, Valid, ValidBootstrap,
       TypeOK, WriterInv, Initializing, Cleaning, Resetting, Versions
  <1>3. WriterInv'
    BY DEF ResetDatabase, WriterInv, Initializing, Cleaning, Resetting, RowsNow
  <1>4. LockInv'
    BY DEF ResetDatabase, LockInv, Exclusive, NoOneReads, TypeOK
  <1>5. FoundInv'
    BY DEF ResetDatabase, FoundInv
  <1>6. ReadersPinned'
    BY DEF ResetDatabase, ReadersPinned, LockInv, Exclusive, NoOneReads, Valid
  <1> QED
    BY <1>1, <1>2, <1>3, <1>4, <1>5, <1>6

\* A reset that began explains a missing intent.
LEMMA ResetPendingKeeps ==
    ASSUME LifecycleInv, ResetPending
    PROVE  LifecycleInv'
  <1> USE DEF LifecycleInv, auth, database, sidecars, writer, reader
  <1>1. TypeOK'
    BY CheckpointAssumption DEF ResetPending, TypeOK, Exclusive, NewIdentities, Versions
  <1>2. AuthorityInv'
    BY DEF ResetPending, AuthorityInv, Valid, ValidBootstrap, WriterInv, Cleaning,
       Initializing
  <1>3. WriterInv'
    BY DEF ResetPending, WriterInv, Initializing, Cleaning, Resetting, RowsNow
  <1>4. LockInv'
    BY DEF ResetPending, LockInv, Exclusive, NoOneReads, TypeOK
  <1>5. FoundInv'
    BY DEF ResetPending, FoundInv
  <1>6. ReadersPinned'
    BY DEF ResetPending, ReadersPinned, LockInv, Exclusive, NoOneReads, Valid
  <1> QED
    BY <1>1, <1>2, <1>3, <1>4, <1>5, <1>6

\* When the reset ends there is no database left to explain.
LEMMA ResetCacheKeeps ==
    ASSUME LifecycleInv, ResetCache
    PROVE  LifecycleInv'
  <1> USE DEF LifecycleInv, auth, database, sidecars, writer, reader
  <1>1. TypeOK'
    BY DEF ResetCache, TypeOK
  <1>2. AuthorityInv'
    BY DEF ResetCache, AuthorityInv, Valid, ValidBootstrap, WriterInv, Cleaning,
       Initializing
  <1>3. WriterInv'
    BY DEF ResetCache, WriterInv, Initializing, Cleaning, Resetting, RowsNow
  <1>4. LockInv'
    BY DEF ResetCache, LockInv, Exclusive
  <1>5. FoundInv'
    BY DEF ResetCache, FoundInv
  <1>6. ReadersPinned'
    BY DEF ResetCache, ReadersPinned, LockInv, Exclusive, NoOneReads, Valid
  <1> QED
    BY <1>1, <1>2, <1>3, <1>4, <1>5, <1>6

\* A killed writer leaves what it did.
LEMMA CrashKeeps ==
    ASSUME LifecycleInv, Crash
    PROVE  LifecycleInv'
  <1> USE DEF LifecycleInv, auth, database, sidecars, writer, reader
  <1>1. TypeOK'
    BY DEF Crash, TypeOK
  <1>2. AuthorityInv'
    BY DEF Crash, AuthorityInv, Valid, ValidBootstrap
  <1>3. WriterInv'
    BY DEF Crash, WriterInv, Initializing, Cleaning, Resetting, RowsNow
  <1>4. LockInv'
    BY DEF Crash, LockInv, Exclusive
  <1>5. FoundInv'
    BY DEF Crash, FoundInv
  <1>6. ReadersPinned'
    BY DEF Crash, ReadersPinned, LockInv, Exclusive, NoOneReads, Valid
  <1> QED
    BY <1>1, <1>2, <1>3, <1>4, <1>5, <1>6

\* What a reader finds is a marker.
LEMMA ReadAuthorityKeeps ==
    ASSUME NEW r \in Readers, LifecycleInv, ReadAuthority(r)
    PROVE  LifecycleInv'
  <1> USE DEF LifecycleInv, auth, database, sidecars, writer, reader
  <1>1. TypeOK'
    BY DEF ReadAuthority, TypeOK
  <1>2. AuthorityInv'
    BY DEF ReadAuthority, AuthorityInv, Valid, ValidBootstrap
  <1>3. WriterInv'
    BY DEF ReadAuthority, WriterInv, Initializing, Cleaning, Resetting, RowsNow
  <1>4. LockInv'
    BY DEF ReadAuthority, LockInv, Exclusive, NoOneReads, TypeOK
  <1>5. FoundInv'
    BY DEF ReadAuthority, FoundInv, TypeOK
  <1>6. ReadersPinned'
    BY DEF ReadAuthority, ReadersPinned, LockInv, Exclusive, NoOneReads, Valid
  <1> QED
    BY <1>1, <1>2, <1>3, <1>4, <1>5, <1>6

\* A reader opens only what the marker it found still names.
LEMMA LockSharedKeeps ==
    ASSUME NEW r \in Readers, LifecycleInv, LockShared(r)
    PROVE  LifecycleInv'
  <1> USE DEF LifecycleInv, auth, database, sidecars, writer, reader
  <1>1. TypeOK'
    BY DEF LockShared, TypeOK
  <1>2. AuthorityInv'
    BY DEF LockShared, AuthorityInv, Valid, ValidBootstrap
  <1>3. WriterInv'
    BY DEF LockShared, WriterInv, Initializing, Cleaning, Resetting, RowsNow
  <1>4. LockInv'
    BY DEF LockShared, LockInv, Exclusive
  <1>5. FoundInv'
    BY DEF LockShared, FoundInv
  <1>6. ReadersPinned'
    <2>1. /\ UNCHANGED <<authority, marker, store_id, format, db_id, rauth>>
          /\ \A s \in Readers : s # r => rpc'[s] = rpc[s]
          /\ rpc'[r] = "open" =>
                /\ rauth[r] = <<authority, marker, store_id>>
                /\ Valid(store_id, marker)
      BY DEF LockShared, TypeOK
    <2>2. rpc'[r] = "open" => authority = "marker"
      BY <2>1 DEF LockShared, FoundInv
    <2> QED
      BY <2>1, <2>2 DEF ReadersPinned, Valid
  <1> QED
    BY <1>1, <1>2, <1>3, <1>4, <1>5, <1>6

\* A reader that leaves pins nothing.
LEMMA ReaderLeavesKeeps ==
    ASSUME NEW r \in Readers, LifecycleInv, ReaderLeaves(r)
    PROVE  LifecycleInv'
  <1> USE DEF LifecycleInv, auth, database, sidecars, writer, reader
  <1>1. TypeOK'
    BY DEF ReaderLeaves, TypeOK
  <1>2. AuthorityInv'
    BY DEF ReaderLeaves, AuthorityInv, Valid, ValidBootstrap
  <1>3. WriterInv'
    BY DEF ReaderLeaves, WriterInv, Initializing, Cleaning, Resetting, RowsNow
  <1>4. LockInv'
    BY DEF ReaderLeaves, LockInv, Exclusive, NoOneReads, TypeOK
  <1>5. FoundInv'
    BY DEF ReaderLeaves, FoundInv, TypeOK
  <1>6. ReadersPinned'
    BY DEF ReaderLeaves, ReadersPinned, LockInv, Exclusive, NoOneReads, Valid, WriterInv,
       TypeOK
  <1> QED
    BY <1>1, <1>2, <1>3, <1>4, <1>5, <1>6

\* Every step of the writer and of the readers keeps the invariant.
LEMMA LifecycleNext == LifecycleInv /\ [Next]_vars => LifecycleInv'
  <1> SUFFICES ASSUME LifecycleInv, [Next]_vars PROVE LifecycleInv'
    OBVIOUS
  <1>1. CASE UNCHANGED vars
    BY <1>1 DEF vars, auth, database, sidecars, writer, reader, LifecycleInv, TypeOK,
       AuthorityInv, WriterInv, LockInv, FoundInv, ReadersPinned, Valid, ValidBootstrap,
       NoOneReads, RowsNow
  <1>2. ASSUME NEW r \in Readers, ReadAuthority(r) \/ LockShared(r) \/ ReaderLeaves(r)
        PROVE  LifecycleInv'
    BY <1>2, ReadAuthorityKeeps, LockSharedKeeps, ReaderLeavesKeeps
  <1> QED
    BY <1>1, <1>2, OpenActiveKeeps, LockExclusiveKeeps, ImportV1Keeps, SkipImportKeeps,
       NameLegacyKeeps, WriteReceiptKeeps, ReuseReceiptKeeps, CreateDatabaseKeeps, ImportKeeps,
       ActivateKeeps, CleanPendingKeeps, CleanCacheKeeps, CommitIntentKeeps, CommitDeltaKeeps,
       CloseKeeps, ResetAuthorityKeeps, ResetDatabaseKeeps, ResetPendingKeeps, ResetCacheKeeps,
       CrashKeeps DEF Next

\* The lifecycle's invariant holds in every state.
LEMMA LifecycleAlways == Spec => []LifecycleInv
  BY LifecycleInit, LifecycleNext, PTL DEF Spec

\* What the checkpoint directory and its lock hold is well typed (src/state/checkpoint.rs).
THEOREM CheckpointTyped == Spec => []TypeOK
  BY LifecycleAlways, PTL DEF LifecycleInv

\* No crash wedges the checkpoint: as long as no reset was cut short, a writer that starts
\* anew finds something open_writer accepts.
THEOREM NeverEverWedged == Spec => []NeverWedged
  <1>1. LifecycleInv => NeverWedged
    BY DEF LifecycleInv, AuthorityInv, NeverWedged
  <1> QED
    BY <1>1, LifecycleAlways, PTL

\* The database a reader has open is not replaced or removed under it (open_reader,
\* reset): whoever would needs the lock the reader shares.
THEOREM ReadersAlwaysPinned == Spec => []ReadersPinned
  BY LifecycleAlways, PTL DEF LifecycleInv

-----------------------------------------------------------------------------
(* The checkpoint is the register of module Register, step by step.         *)

\* Every start is a start of the register.
LEMMA RegisterInit == Init => Reg!Init
  BY CheckpointAssumption DEF Init, Reg!Init, RowsNow, PendingNow, DatabaseOwns, Versions

\* A step that leaves what the register shows alone.
Stutters == UNCHANGED <<RowsNow, PendingNow, pending_file, wpc = "open", resetting>>

\* The steps of the upgrade, of the cleaning of the cache and of the readers do not show:
\* an import brings into the database what the authority and the sidecar hold.
LEMMA StepsThatDoNotShow ==
    ASSUME LifecycleInv,
           \/ LockExclusive \/ ImportV1 \/ SkipImport \/ NameLegacy \/ WriteReceipt
           \/ ReuseReceipt \/ CreateDatabase \/ Import \/ CleanCache \/ ResetDatabase
           \/ \E r \in Readers : ReadAuthority(r) \/ LockShared(r) \/ ReaderLeaves(r)
    PROVE  UNCHANGED Reg!registers
  <1> USE DEF LifecycleInv, auth, database, sidecars, writer, reader, RowsNow, PendingNow,
              DatabaseOwns, Reg!registers
  <1>1. CASE \/ LockExclusive \/ SkipImport \/ NameLegacy \/ WriteReceipt \/ ReuseReceipt
    BY <1>1 DEF LockExclusive, SkipImport, NameLegacy, WriteReceipt, ReuseReceipt
  <1>2. CASE ImportV1
    BY <1>2 DEF ImportV1
  <1>3. CASE CreateDatabase \/ Import
    BY <1>3 DEF CreateDatabase, Import, WriterInv, Initializing
  <1>4. CASE CleanCache
    BY <1>4 DEF CleanCache
  <1>5. CASE ResetDatabase
    BY <1>5 DEF ResetDatabase, WriterInv, Resetting
  <1>6. CASE \E r \in Readers : ReadAuthority(r) \/ LockShared(r) \/ ReaderLeaves(r)
    BY <1>6 DEF ReadAuthority, LockShared, ReaderLeaves
  <1> QED
    BY <1>1, <1>2, <1>3, <1>4, <1>5, <1>6

\* The others are steps of the register.
LEMMA StepsThatShow ==
    ASSUME LifecycleInv,
           \/ OpenActive \/ Activate \/ CleanPending \/ CommitIntent \/ CommitDelta \/ Close
           \/ ResetAuthority \/ ResetPending \/ ResetCache \/ Crash
    PROVE  Reg!Next \/ UNCHANGED Reg!registers
  <1> USE DEF LifecycleInv, auth, database, sidecars, writer, reader, RowsNow, PendingNow,
              DatabaseOwns, Reg!registers
  <1>1. CASE OpenActive
    <2>1. Reg!Open
      BY <1>1 DEF OpenActive, Reg!Open
    <2> QED
      BY <2>1 DEF Reg!Next
  <1>2. CASE Activate
    \* The rows and the intent are now those of the database, which the import made those
    \* of the authority and the sidecar.
    <2>1. RowsNow' = RowsNow /\ PendingNow' = PendingNow
      BY <1>2 DEF Activate, WriterInv, AuthorityInv, Valid, TypeOK
    <2>2. Reg!ResetEnds
      BY <1>2, <2>1 DEF Activate, Reg!ResetEnds
    <2> QED
      BY <2>2 DEF Reg!Next
  <1>3. CASE CleanPending
    <2>1. Reg!Clean
      BY <1>3 DEF CleanPending, WriterInv, Cleaning, Reg!Clean, Nothing
    <2> QED
      BY <2>1 DEF Reg!Next
  <1>4. CASE CommitIntent
    <2>1. Reg!WriteIntent
      BY <1>4 DEF CommitIntent, WriterInv, Cleaning, Reg!WriteIntent
    <2> QED
      BY <2>1 DEF Reg!Next
  <1>5. CASE CommitDelta
    <2>1. Reg!Publish
      BY <1>5, CheckpointAssumption DEF CommitDelta, WriterInv, Cleaning, TypeOK, Versions, Reg!Publish
    <2> QED
      BY <2>1 DEF Reg!Next
  <1>6. CASE Close \/ (Crash /\ wpc = "open")
    <2>1. Reg!Close
      BY <1>6 DEF Close, Crash, Reg!Close
    <2> QED
      BY <2>1 DEF Reg!Next
  <1>7. CASE Crash /\ wpc # "open"
    BY <1>7 DEF Crash
  <1>8. CASE ResetAuthority
    <2>1. Reg!Reset
      BY <1>8 DEF ResetAuthority, Reg!Reset, Nothing
    <2> QED
      BY <2>1 DEF Reg!Next
  <1>9. CASE ResetPending
    <2>1. Reg!Forget
      BY <1>9 DEF ResetPending, WriterInv, Resetting, Reg!Forget, Nothing
    <2> QED
      BY <2>1 DEF Reg!Next
  <1>10. CASE ResetCache
    <2>1. Reg!ResetEnds
      BY <1>10 DEF ResetCache, Reg!ResetEnds
    <2> QED
      BY <2>1 DEF Reg!Next
  <1> QED
    BY <1>1, <1>2, <1>3, <1>4, <1>5, <1>6, <1>7, <1>8, <1>9, <1>10

\* Every step of the checkpoint is a step of the register or does not show.
LEMMA RegisterNext == LifecycleInv /\ [Next]_vars => [Reg!Next]_(Reg!registers)
  <1> SUFFICES ASSUME LifecycleInv, [Next]_vars PROVE [Reg!Next]_(Reg!registers)
    OBVIOUS
  <1>1. CASE UNCHANGED vars
    BY <1>1 DEF vars, auth, database, sidecars, writer, reader, RowsNow, PendingNow,
       DatabaseOwns, Reg!registers
  <1>2. CASE Next
    BY <1>2, StepsThatDoNotShow, StepsThatShow DEF Next
  <1> QED
    BY <1>1, <1>2

\* Through every upgrade, crash, retry and reset the checkpoint implements one register:
\* rows and intent only change when a writer commits them, and a copy that was left behind
\* never comes back over a newer one (open_writer, activate, reset).
THEOREM CheckpointIsRegister == Spec => IsRegister
  BY RegisterInit, RegisterNext, LifecycleAlways, PTL DEF Spec, IsRegister, Reg!Spec

===============================================================================
