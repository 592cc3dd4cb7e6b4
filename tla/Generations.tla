----------------------------- MODULE Generations -----------------------------
(***************************************************************************)
(* The lexical index on disk: a CURRENT pointer, one directory per         *)
(* generation that references immutable segment files by creating          *)
(* generation, and a shared store that holds those files.                  *)
(*                                                                         *)
(* Refreshes and the detached compaction stage a private generation and    *)
(* publish it; readers open whatever CURRENT names without asking anybody. *)
(* Four locks meet here: the ingest lease (one writer decides and          *)
(* publishes), the store lock (staging, publication, reclamation), and one *)
(* flock per generation directory, shared by its readers and its writer,   *)
(* exclusive for whoever prunes it.                                        *)
(*                                                                         *)
(* Sources: src/index.rs, src/index/storage.rs, src/lease.rs, src/cli.rs.  *)
(***************************************************************************)
EXTENDS Naturals, FiniteSets

CONSTANTS
    Refreshers,   \* processes that run refreshes
    Compactors,   \* processes that run `memex index compact`
    Readers,      \* processes that search
    MaxGens,      \* bound: generations ever named
    MaxFaults     \* bound: killed writers and failed refreshes

Writers == Refreshers \cup Compactors
Nobody == "nobody"

ASSUME GenerationsAssumption ==
    /\ Refreshers \cap Compactors = {}
    /\ Nobody \notin Writers
    /\ MaxGens \in Nat /\ MaxFaults \in Nat

VARIABLES
    current,   \* the generation CURRENT names, 0 for none
    dirs,      \* generations/: one directory per generation ever named
    segments,  \* the shared store; a generation creates at most one file
    content,   \* the updates recorded in the file a generation created
    named,     \* generations named so far
    ingest,    \* holder of the ingest lease
    guard,     \* holder of the store lock
    wpc,       \* where each writer is
    wgen,      \* the generation a writer staged
    base,      \* the generation a compaction started from
    replaced,  \* the inherited segments a writer's own one stands for
    listed,    \* directory entries a cleanup loop has not visited
    target,    \* the directory a writer is removing
    reach,     \* references a collection has gathered
    rpc,       \* where each reader is
    rgen,      \* the generation a reader resolved
    leased,    \* the reader holds that generation's lease
    rrefs,     \* the segment files an open reader will read
    faults     \* faults so far

disk == <<current, dirs, segments, content, named>>
locks == <<ingest, guard>>
writer == <<wpc, wgen, base, replaced, listed, target, reach>>
reader == <<rpc, rgen, leased, rrefs>>
vars == <<disk, locks, writer, reader, faults>>

Gens == 1..MaxGens

\* What a generation directory holds besides its payload: .lease, .segments.json
\* and .storage-format.  meta.json is not told apart from the format marker: a
\* directory without either cannot be opened.
Entries == {"lease", "format", "manifest"}

NoDir == [kind |-> "none", entries |-> {}, refs |-> {}]

Init ==
    /\ current = 0
    /\ dirs = [g \in Gens |-> NoDir]
    /\ segments = {}
    /\ content = [g \in Gens |-> {}]
    /\ named = 0
    /\ ingest = Nobody /\ guard = Nobody
    /\ wpc = [w \in Writers |-> "idle"]
    /\ wgen = [w \in Writers |-> 0]
    /\ base = [w \in Writers |-> 0]
    /\ replaced = [w \in Writers |-> {}]
    /\ listed = [w \in Writers |-> {}]
    /\ target = [w \in Writers |-> 0]
    /\ reach = [w \in Writers |-> {}]
    /\ rpc = [r \in Readers |-> "closed"]
    /\ rgen = [r \in Readers |-> 0]
    /\ leased = [r \in Readers |-> FALSE]
    /\ rrefs = [r \in Readers |-> {}]
    /\ faults = 0

Existing == {g \in Gens : dirs[g].kind # "none"}
Refs(g) == dirs[g].refs

\* A writer holds its generation's lease from staging until it forgets it.
Pinned(g) ==
    \/ \E r \in Readers : leased[r] /\ rgen[r] = g
    \/ \E w \in Writers : wgen[w] = g

Go(w, to) == wpc' = [wpc EXCEPT ![w] = to]

-----------------------------------------------------------------------------
(* Staging.  open_or_create_for_ingest_with_merge_policy runs under the     *)
(* store lock; a refresh keeps the ingest lease, a compaction gives it back.*)

AcquireLease(w) ==
    /\ wpc[w] = "idle" /\ ingest = Nobody
    /\ w \in Compactors => current # 0
                           /\ \A v \in Compactors \ {w} : wpc[v] = "idle"
    /\ ingest' = w
    /\ Go(w, "stage")
    /\ UNCHANGED <<disk, guard, wgen, base, replaced, listed, target, reach,
                   reader, faults>>

Inherited == IF current = 0 THEN {} ELSE Refs(current)

Stage(w) ==
    /\ wpc[w] = "stage" /\ guard = Nobody /\ named < MaxGens
    /\ named' = named + 1
    /\ dirs' = [dirs EXCEPT ![named + 1] =
                   [kind |-> "staging", entries |-> Entries, refs |-> Inherited]]
    /\ wgen' = [wgen EXCEPT ![w] = named + 1]
    /\ base' = [base EXCEPT ![w] = current]
    /\ ingest' = IF w \in Compactors THEN Nobody ELSE ingest
    /\ Go(w, IF w \in Compactors THEN "merge" ELSE "write")
    /\ UNCHANGED <<current, segments, content, guard, replaced, listed, target,
                   reach, reader, faults>>

\* Killed while staging: the directory, then the lease and the manifest, and the
\* format marker last.
StageCrash(w) ==
    /\ wpc[w] = "stage" /\ guard = Nobody /\ named < MaxGens
    /\ faults < MaxFaults
    /\ faults' = faults + 1
    /\ named' = named + 1
    /\ \E left \in {{}, {"lease"}, {"lease", "manifest"}} :
          dirs' = [dirs EXCEPT ![named + 1] =
                      [kind |-> "staging", entries |-> left, refs |-> Inherited]]
    /\ ingest' = Nobody
    /\ Go(w, "idle")
    /\ UNCHANGED <<current, segments, content, guard, wgen, base, replaced, listed,
                   target, reach, reader>>

\* A refresh adds one segment with its records and deletes those of replaced
\* sources, which may empty inherited segments; or it fails and drops the stage.
Write(w) ==
    /\ wpc[w] = "write"
    /\ content' = [content EXCEPT ![wgen[w]] = {wgen[w]}]
    /\ \E some \in SUBSET Refs(wgen[w]) :
          replaced' = [replaced EXCEPT ![w] = some]
    /\ Go(w, "publish")
    /\ UNCHANGED <<current, dirs, segments, named, locks, wgen, base, listed,
                   target, reach, reader, faults>>

WriteFail(w) ==
    /\ wpc[w] = "write" /\ faults < MaxFaults
    /\ faults' = faults + 1
    /\ Go(w, "drop")
    /\ UNCHANGED <<disk, locks, wgen, base, replaced, listed, target, reach, reader>>

\* compact_small_segments, without any lease: two or more inherited segments
\* become one, or there is nothing to fold.
Merge(w) ==
    /\ wpc[w] = "merge"
    /\ \E some \in SUBSET Refs(wgen[w]) :
          \/ /\ Cardinality(some) >= 2
             /\ replaced' = [replaced EXCEPT ![w] = some]
             /\ content' = [content EXCEPT ![wgen[w]] =
                               UNION {content[f] : f \in some}]
             /\ Go(w, "reacquire")
          \/ /\ some = {}
             /\ Go(w, "drop")
             /\ UNCHANGED <<replaced, content>>
    /\ UNCHANGED <<current, dirs, segments, named, locks, wgen, base, listed,
                   target, reach, reader, faults>>

\* Mutant: the merge is published over whatever came in between.
UnmovedAlways(w) == TRUE

\* current == base, compared under the ingest lease.
Unmoved(w) == current = base[w]

Reacquire(w) ==
    /\ wpc[w] = "reacquire" /\ ingest = Nobody
    /\ IF Unmoved(w) THEN ingest' = w /\ Go(w, "publish")
       ELSE ingest' = Nobody /\ Go(w, "drop")
    /\ UNCHANGED <<disk, guard, wgen, base, replaced, listed, target, reach,
                   reader, faults>>

\* INGEST_LEASE_TIMEOUT passed while another writer held the lease.
ReacquireTimeout(w) ==
    /\ wpc[w] = "reacquire" /\ ingest # Nobody
    /\ Go(w, "drop")
    /\ UNCHANGED <<disk, locks, wgen, base, replaced, listed, target, reach,
                   reader, faults>>

-----------------------------------------------------------------------------
(* publish_generation, under the store lock.                               *)

\* Mutant: CURRENT moves before the generation is in place.
AdoptFlippingFirst(w) ==
    /\ wpc[w] = "publish" /\ guard = Nobody
    /\ guard' = w
    /\ segments' = segments \cup {wgen[w]}
    /\ current' = wgen[w]
    /\ Go(w, "seal")
    /\ UNCHANGED <<dirs, content, named, ingest, wgen, base, replaced, listed,
                   target, reach, reader, faults>>

\* prepare_publication, first half: the new file enters the shared store.
Adopt(w) ==
    /\ wpc[w] = "publish" /\ guard = Nobody
    /\ guard' = w
    /\ segments' = segments \cup {wgen[w]}
    /\ Go(w, "seal")
    /\ UNCHANGED <<current, dirs, content, named, ingest, wgen, base, replaced,
                   listed, target, reach, reader, faults>>

\* The manifest is replaced by the committed file set and the directory gets
\* its published name.
Seal(w) ==
    /\ wpc[w] = "seal"
    /\ dirs' = [dirs EXCEPT ![wgen[w]].kind = "final",
                            ![wgen[w]].refs = (@ \ replaced[w]) \cup {wgen[w]}]
    /\ Go(w, "flip")
    /\ UNCHANGED <<current, segments, content, named, locks, wgen, base, replaced,
                   listed, target, reach, reader, faults>>

\* atomic_write_current, then the listing that pruning walks.
Flip(w) ==
    /\ wpc[w] = "flip"
    /\ current' = wgen[w]
    /\ listed' = [listed EXCEPT ![w] = Existing \ {wgen[w]}]
    /\ Go(w, "prune")
    /\ UNCHANGED <<dirs, segments, content, named, locks, wgen, base, replaced,
                   target, reach, reader, faults>>

\* Mutant: a superseded generation goes whoever reads it.
PrunableUnlocked(g) ==
    IF dirs[g].kind = "final" THEN TRUE
    ELSE "lease" \in dirs[g].entries /\ ~Pinned(g)

\* A leased directory must yield its lock; an unleased one is taken if it was
\* published and kept if it is somebody's work directory.
Prunable(g) ==
    IF "lease" \in dirs[g].entries THEN ~Pinned(g) ELSE dirs[g].kind = "final"

Prune(w) ==
    /\ wpc[w] = "prune" /\ target[w] = 0
    /\ \E g \in listed[w] :
          /\ listed' = [listed EXCEPT ![w] = @ \ {g}]
          /\ target' = [target EXCEPT ![w] = IF Prunable(g) THEN g ELSE 0]
    /\ UNCHANGED <<disk, locks, wpc, wgen, base, replaced, reach, reader, faults>>

\* remove_dir_all unlinks one entry after the other, then the directory.
Unlink(w) ==
    /\ wpc[w] \in {"prune", "drop"} /\ target[w] # 0
    /\ \E e \in dirs[target[w]].entries :
          dirs' = [dirs EXCEPT ![target[w]].entries = @ \ {e}]
    /\ UNCHANGED <<current, segments, content, named, locks, writer, reader, faults>>

RemoveDir(w) ==
    /\ wpc[w] = "prune" /\ target[w] # 0 /\ dirs[target[w]].entries = {}
    /\ dirs' = [dirs EXCEPT ![target[w]] = NoDir]
    /\ target' = [target EXCEPT ![w] = 0]
    /\ UNCHANGED <<current, segments, content, named, locks, wpc, wgen, base,
                   replaced, listed, reach, reader, faults>>

\* Mutant: only published generations are asked for their references.
ManifestsPublished == {g \in Existing : dirs[g].kind = "final"}

Manifests == Existing

Collect(w) ==
    /\ wpc[w] = "prune" /\ target[w] = 0 /\ listed[w] = {}
    /\ listed' = [listed EXCEPT ![w] = Manifests]
    /\ reach' = [reach EXCEPT ![w] = {}]
    /\ Go(w, "collect")
    /\ UNCHANGED <<disk, locks, wgen, base, replaced, target, reader, faults>>

\* Manifest::read of a directory that may be disappearing: its references, none
\* if neither file is there, an error if only one is.
Marks(g) == dirs[g].entries \cap {"format", "manifest"}

CollectRead(w) ==
    /\ wpc[w] = "collect"
    /\ \E g \in listed[w] :
          /\ Cardinality(Marks(g)) # 1
          /\ listed' = [listed EXCEPT ![w] = @ \ {g}]
          /\ reach' = [reach EXCEPT ![w] = @ \cup IF Marks(g) = {} THEN {}
                                                  ELSE Refs(g)]
    /\ UNCHANGED <<disk, locks, wpc, wgen, base, replaced, target, reader, faults>>

\* The publication reports an error although CURRENT has moved.
CollectFail(w) ==
    /\ wpc[w] = "collect"
    /\ \E g \in listed[w] : Cardinality(Marks(g)) = 1
    /\ guard' = Nobody
    /\ Go(w, "failed")
    /\ UNCHANGED <<disk, ingest, wgen, base, replaced, listed, target, reach,
                   reader, faults>>

CollectDone(w) ==
    /\ wpc[w] = "collect" /\ listed[w] = {}
    /\ segments' = segments \cap reach[w]
    /\ guard' = Nobody
    /\ Go(w, "done")
    /\ UNCHANGED <<current, dirs, content, named, ingest, wgen, base, replaced,
                   listed, target, reach, reader, faults>>

-----------------------------------------------------------------------------
(* The end of a writer.                                                    *)

Forget(w) ==
    /\ Go(w, "idle")
    /\ wgen' = [wgen EXCEPT ![w] = 0]
    /\ base' = [base EXCEPT ![w] = 0]
    /\ replaced' = [replaced EXCEPT ![w] = {}]
    /\ listed' = [listed EXCEPT ![w] = {}]
    /\ target' = [target EXCEPT ![w] = 0]
    /\ reach' = [reach EXCEPT ![w] = {}]
    /\ ingest' = IF ingest = w THEN Nobody ELSE ingest
    /\ guard' = IF guard = w THEN Nobody ELSE guard

Finish(w) ==
    /\ wpc[w] \in {"done", "failed"}
    /\ Forget(w)
    /\ UNCHANGED <<disk, reader, faults>>

\* PendingGeneration::drop removes the unpublished stage without the store lock.
Drop(w) ==
    /\ wpc[w] = "drop" /\ target[w] = 0
    /\ target' = [target EXCEPT ![w] = wgen[w]]
    /\ UNCHANGED <<disk, locks, wpc, wgen, base, replaced, listed, reach, reader,
                   faults>>

DropDone(w) ==
    /\ wpc[w] = "drop" /\ target[w] # 0 /\ dirs[target[w]].entries = {}
    /\ dirs' = [dirs EXCEPT ![target[w]] = NoDir]
    /\ Forget(w)
    /\ UNCHANGED <<current, segments, content, named, reader, faults>>

\* Killed: the locks go with the process, the directories stay as they are.
Crash(w) ==
    /\ wpc[w] # "idle" /\ faults < MaxFaults
    /\ faults' = faults + 1
    /\ Forget(w)
    /\ UNCHANGED <<disk, reader>>

-----------------------------------------------------------------------------
(* open_or_create and open_sealed_generation: resolve CURRENT, lease the    *)
(* generation, read its metadata; start over if CURRENT moved meanwhile.    *)

Resolve(r) ==
    /\ rpc[r] = "closed" /\ current # 0
    /\ rgen' = [rgen EXCEPT ![r] = current]
    /\ rpc' = [rpc EXCEPT ![r] = "lease"]
    /\ UNCHANGED <<disk, locks, writer, leased, rrefs, faults>>

\* A missing lease file stands for a generation from before leases.
Lease(r) ==
    /\ rpc[r] = "lease"
    /\ LET present == "lease" \in dirs[rgen[r]].entries IN
          /\ present => \A w \in Writers : wpc[w] = "prune" => target[w] # rgen[r]
          /\ leased' = [leased EXCEPT ![r] = present]
    /\ rpc' = [rpc EXCEPT ![r] = "read"]
    /\ UNCHANGED <<disk, locks, writer, rgen, rrefs, faults>>

\* Without its manifest the directory is read as one from before sharing,
\* whose payload went with the rest.
Readable(g) ==
    /\ {"format", "manifest"} \subseteq dirs[g].entries
    /\ Refs(g) \subseteq segments

Open(r) ==
    /\ rpc[r] = "read" /\ Readable(rgen[r])
    /\ rrefs' = [rrefs EXCEPT ![r] = Refs(rgen[r])]
    /\ rpc' = [rpc EXCEPT ![r] = "open"]
    /\ UNCHANGED <<disk, locks, writer, rgen, leased, faults>>

\* Mutant: the retry looks at the lease instead of at CURRENT.
RetriesLeased(r) == leased[r]

Retries(r) == current # rgen[r]

OpenFail(r) ==
    /\ rpc[r] = "read" /\ ~Readable(rgen[r])
    /\ rpc' = [rpc EXCEPT ![r] = IF Retries(r) THEN "closed" ELSE "error"]
    /\ rgen' = [rgen EXCEPT ![r] = 0]
    /\ leased' = [leased EXCEPT ![r] = FALSE]
    /\ UNCHANGED <<disk, locks, writer, rrefs, faults>>

Close(r) ==
    /\ rpc[r] = "open"
    /\ rpc' = [rpc EXCEPT ![r] = "closed"]
    /\ rgen' = [rgen EXCEPT ![r] = 0]
    /\ leased' = [leased EXCEPT ![r] = FALSE]
    /\ rrefs' = [rrefs EXCEPT ![r] = {}]
    /\ UNCHANGED <<disk, locks, writer, faults>>

-----------------------------------------------------------------------------
Staging(w) ==
    AcquireLease(w) \/ Stage(w) \/ StageCrash(w) \/ Write(w) \/ WriteFail(w)
    \/ Merge(w) \/ Reacquire(w) \/ ReacquireTimeout(w)

Publishing(w) ==
    Adopt(w) \/ Seal(w) \/ Flip(w) \/ Prune(w) \/ Unlink(w) \/ RemoveDir(w)
    \/ Collect(w) \/ CollectRead(w) \/ CollectFail(w) \/ CollectDone(w)

Ending(w) == Finish(w) \/ Drop(w) \/ DropDone(w) \/ Crash(w)

Reading(r) == Resolve(r) \/ Lease(r) \/ Open(r) \/ OpenFail(r) \/ Close(r)

Next ==
    \/ \E w \in Writers : Staging(w) \/ Publishing(w) \/ Ending(w)
    \/ \E r \in Readers : Reading(r)

Spec == Init /\ [][Next]_vars

-----------------------------------------------------------------------------
\* What the publication protocol of src/index.rs keeps in memory and on disk is
\* well typed; in particular CURRENT names a generation that was named before.
TypeOK ==
    /\ current \in 0..named
    /\ dirs \in [Gens -> [kind : {"none", "staging", "final"},
                          entries : SUBSET Entries, refs : SUBSET Gens]]
    /\ segments \subseteq Gens
    /\ content \in [Gens -> SUBSET Gens]
    /\ named \in 0..MaxGens
    /\ ingest \in Writers \cup {Nobody} /\ guard \in Writers \cup {Nobody}
    /\ wpc \in [Writers -> {"idle", "stage", "write", "merge", "reacquire",
                            "publish", "seal", "flip", "prune", "collect",
                            "done", "failed", "drop"}]
    /\ wgen \in [Writers -> 0..MaxGens] /\ base \in [Writers -> 0..MaxGens]
    /\ replaced \in [Writers -> SUBSET Gens] /\ listed \in [Writers -> SUBSET Gens]
    /\ target \in [Writers -> 0..MaxGens] /\ reach \in [Writers -> SUBSET Gens]
    /\ rpc \in [Readers -> {"closed", "lease", "read", "open", "error"}]
    /\ rgen \in [Readers -> 0..MaxGens] /\ leased \in [Readers -> BOOLEAN]
    /\ rrefs \in [Readers -> SUBSET Gens]
    /\ faults \in Nat

\* CURRENT names a complete published generation whose every segment file is in
\* the shared store, through any crash of publish_generation and any pruning.
CurrentComplete ==
    current # 0 => /\ dirs[current].kind = "final"
                   /\ dirs[current].entries = Entries
                   /\ Refs(current) \subseteq segments

\* A reader that got its lease, and a writer whose stage is alive, find every
\* file they reference, however many publications collect meanwhile
\* (prune_superseded_generations, collect_unreachable).
PinnedFilesStay ==
    /\ \A r \in Readers : rpc[r] = "open" /\ leased[r] => rrefs[r] \subseteq segments
    /\ \A w \in Writers : wpc[w] \in {"write", "merge", "reacquire", "publish", "seal"}
                             => Refs(wgen[w]) \subseteq segments

\* open_or_create never gives up: a generation that cannot be opened is one that
\* CURRENT has left, and the loop resolves again.
ReadersOpen == \A r \in Readers : rpc[r] # "error"

Updates(g) == IF g = 0 THEN {} ELSE UNION {content[f] : f \in Refs(g)}

\* Every publication is applied to the latest one: a refresh adds its records to
\* what CURRENT showed less what it replaced, and a compaction, which merged
\* without the lease, loses and resurrects nothing (run_index_compact).
PublicationsCompose ==
    [][current' # current =>
         \E w \in Writers :
            /\ wgen[w] = current'
            /\ Updates(current)' =
                  IF w \in Compactors THEN Updates(current)
                  ELSE (Updates(current) \ UNION {content[f] : f \in replaced[w]})
                       \cup {current'}]_vars

\* A generation that another process removes while a collection reads the
\* manifests never fails the publication (removed_concurrently).
RemovalTolerated == \A w \in Writers : wpc[w] # "failed"

=============================================================================
