-------------------------- MODULE GenerationsProofs --------------------------
(***************************************************************************)
(* What the generation store keeps, for any number of refreshes,           *)
(* compactions, readers, generations and faults.                           *)
(*                                                                         *)
(* GenInv is inductive.  It says who holds which lock, that a generation   *)
(* number is used once, that a stage is its writer's own until CURRENT     *)
(* names it, that what a prune removes is nobody's, that a leased          *)
(* directory keeps its lease, and that every directory that can be opened  *)
(* has its files in the store, a collection under way having either read   *)
(* or still listed it.  CurrentComplete, PinnedFilesStay and ReadersOpen   *)
(* follow; PublicationsCompose needs ComposeInv on top.                    *)
(***************************************************************************)
EXTENDS Generations, TLAPS

Staged == {"write", "merge", "reacquire", "publish", "seal"}   \* a stage that is filled
Unpublished == Staged \cup {"flip", "drop"}                    \* CURRENT never named it
Guarding == {"seal", "flip", "prune", "collect"}
Leading == {"stage", "write", "publish", "done", "failed"} \cup Guarding

Sharing == {"format", "manifest"}

\* Who holds which lock.
LockInv ==
    \A w \in Writers :
       /\ wpc[w] \in Guarding => guard = w
       /\ wpc[w] \in Leading => ingest = w
       /\ w \in Refreshers => wpc[w] \notin {"merge", "reacquire"}
       /\ w \in Compactors => wpc[w] # "write"

\* Names are used once.
NameInv ==
    /\ \A g \in Gens : g > named => dirs[g] = NoDir
    /\ \A g \in Gens : dirs[g].kind = "none" => dirs[g] = NoDir
    /\ \A g \in Gens : \A f \in Refs(g) : f <= named
    /\ \A g \in Gens : \A f \in content[g] : f <= named
    /\ \A w \in Writers :
          /\ wgen[w] <= named /\ base[w] <= named /\ target[w] <= named
          /\ \A g \in listed[w] : g <= named
          /\ wgen[w] = 0 <=> wpc[w] \in {"idle", "stage"}
          /\ \A v \in Writers : wgen[v] = wgen[w] /\ wgen[w] # 0 => v = w
    /\ \A r \in Readers :
          /\ rgen[r] <= named
          /\ rgen[r] = 0 <=> rpc[r] \in {"closed", "error"}

\* A stage is its writer's own until CURRENT names it.
StageInv ==
    \A w \in Writers :
       /\ wpc[w] \in Unpublished =>
             /\ wgen[w] # current
             /\ \A r \in Readers : rgen[r] # wgen[w]
             /\ \A v \in Writers : base[v] # wgen[w]
       /\ wpc[w] \in Staged \cup {"drop"} => dirs[wgen[w]].kind = "staging"
       /\ wpc[w] \in Staged \cup {"flip"} => dirs[wgen[w]].entries = Entries
       /\ wpc[w] = "seal" => wgen[w] \in segments
       /\ wpc[w] = "flip" => dirs[wgen[w]].kind = "final"
       /\ wpc[w] \in {"prune", "collect"} => current = wgen[w]

\* What is being removed is nobody's.
TargetInv ==
    \A w \in Writers :
       /\ target[w] # 0 => wpc[w] \in {"prune", "drop"}
       /\ wpc[w] = "drop" /\ target[w] # 0 => target[w] = wgen[w]
       /\ wpc[w] = "prune" => wgen[w] \notin listed[w]
       /\ wpc[w] = "prune" /\ target[w] # 0 =>
             /\ \A v \in Writers : wgen[v] # target[w]
             /\ \A r \in Readers : leased[r] => rgen[r] # target[w]

\* A lease keeps the directory it was taken in.
LeaseInv ==
    \A r \in Readers :
       /\ leased[r] => rpc[r] \in {"read", "open"} /\ "lease" \in dirs[rgen[r]].entries
       /\ rpc[r] = "open" /\ leased[r] =>
             /\ Sharing \subseteq dirs[rgen[r]].entries
             /\ rrefs[r] = Refs(rgen[r])

\* A directory that can be opened has its files, and a collection knows them.
FileInv ==
    /\ current # 0 => dirs[current].kind = "final" /\ dirs[current].entries = Entries
    /\ \A g \in Gens : Sharing \subseteq dirs[g].entries => Refs(g) \subseteq segments
    /\ \A w \in Writers : wpc[w] = "collect" =>
          \A g \in Gens : Sharing \subseteq dirs[g].entries =>
                             g \in listed[w] \/ Refs(g) \subseteq reach[w]

\* The inductive invariant.
GenInv == TypeOK /\ LockInv /\ NameInv /\ StageInv /\ TargetInv /\ LeaseInv /\ FileInv

\* One entry of generations/.
Directory == [kind : {"none", "staging", "final"}, entries : SUBSET Entries, refs : SUBSET Gens]

\* Where the numbers of the model lie: every generation a variable names is 0 or one of Gens.
LEMMA Ranges ==
    ASSUME TypeOK
    PROVE  /\ named \in Nat /\ Gens \subseteq Nat
           /\ current \in Nat /\ (current # 0 => current \in Gens)
           /\ \A w \in Writers :
                 /\ wgen[w] \in Nat /\ (wgen[w] # 0 => wgen[w] \in Gens)
                 /\ base[w] \in Nat /\ (base[w] # 0 => base[w] \in Gens)
                 /\ target[w] \in Nat /\ (target[w] # 0 => target[w] \in Gens)
                 /\ listed[w] \subseteq Gens /\ replaced[w] \subseteq Gens
           /\ \A r \in Readers : rgen[r] \in Nat /\ (rgen[r] # 0 => rgen[r] \in Gens)
           /\ \A g \in Gens :
                 /\ dirs[g] \in Directory
                 /\ Refs(g) \subseteq Gens /\ content[g] \subseteq Gens
  BY GenerationsAssumption DEF TypeOK, Gens, Refs, Directory

\* A writer past staging has a generation that was named.
LEMMA WriterGen ==
    ASSUME TypeOK, NameInv, NEW w \in Writers, wpc[w] \notin {"idle", "stage"}
    PROVE  wgen[w] \in Gens /\ wgen[w] <= named
  BY Ranges DEF NameInv

\* What sealing does to a directory record: the name changes, the rest stays.
LEMMA Renamed ==
    ASSUME NEW d \in Directory, NEW e, e = [d EXCEPT !.kind = "final"]
    PROVE  e \in Directory /\ e.kind = "final" /\ e.entries = d.entries /\ e.refs = d.refs
  BY DEF Directory

\* What unlinking does to a directory record.
LEMMA Unlinked ==
    ASSUME NEW d \in Directory, NEW X \in SUBSET Entries
    PROVE  LET e == [d EXCEPT !.entries = X]
           IN  /\ e \in Directory /\ e.kind = d.kind /\ e.entries = X /\ e.refs = d.refs
  BY DEF Directory

\* What Seal does to the directories: only the writer's own one changes.
LEMMA SealedDir ==
    ASSUME TypeOK, NameInv, NEW w \in Writers, Seal(w)
    PROVE  /\ wgen[w] \in Gens
           /\ dirs' \in [Gens -> Directory]
           /\ \A g \in Gens : g # wgen[w] => dirs'[g] = dirs[g]
           /\ dirs'[wgen[w]].kind = "final"
           /\ dirs'[wgen[w]].entries = dirs[wgen[w]].entries
           /\ dirs'[wgen[w]].refs = (dirs[wgen[w]].refs \ replaced[w]) \cup {wgen[w]}
  <1> DEFINE X == (dirs[wgen[w]].refs \ replaced[w]) \cup {wgen[w]}
             mid == [dirs EXCEPT ![wgen[w]].kind = "final"]
  <1>1. wgen[w] \in Gens
    BY WriterGen DEF Seal
  <1>2. dirs[wgen[w]] \in Directory /\ X \in SUBSET Gens
    BY <1>1, Ranges DEF Refs
  <1>3. /\ mid \in [Gens -> Directory]
        /\ \A g \in Gens : g # wgen[w] => mid[g] = dirs[g]
        /\ mid[wgen[w]].kind = "final" /\ mid[wgen[w]].entries = dirs[wgen[w]].entries
        /\ mid[wgen[w]].refs = dirs[wgen[w]].refs
    <2>1. /\ mid[wgen[w]] = [dirs[wgen[w]] EXCEPT !.kind = "final"]
          /\ \A g \in Gens : g # wgen[w] => mid[g] = dirs[g]
          /\ mid = [g \in Gens |-> mid[g]]
      BY <1>1 DEF TypeOK
    <2> HIDE DEF mid
    <2>2. /\ mid[wgen[w]] \in Directory
          /\ mid[wgen[w]].kind = "final" /\ mid[wgen[w]].entries = dirs[wgen[w]].entries
          /\ mid[wgen[w]].refs = dirs[wgen[w]].refs
      BY <1>2, <2>1, Renamed
    <2>3. \A g \in Gens : mid[g] \in Directory
      BY <2>1, <2>2, Ranges
    <2> QED
      BY <2>1, <2>2, <2>3
  <1>4. dirs' = [mid EXCEPT ![wgen[w]].refs = (@ \ replaced[w]) \cup {wgen[w]}]
    BY DEF Seal
  <1> HIDE DEF mid
  <1>5. dirs' = [mid EXCEPT ![wgen[w]].refs = X]
    BY <1>1, <1>3, <1>4
  <1> HIDE DEF X
  <1>6. dirs' \in [Gens -> Directory]
    BY <1>1, <1>2, <1>3, <1>5 DEF Directory
  <1>7. /\ \A g \in Gens : g # wgen[w] => dirs'[g] = mid[g]
        /\ dirs'[wgen[w]].kind = mid[wgen[w]].kind
        /\ dirs'[wgen[w]].entries = mid[wgen[w]].entries
        /\ dirs'[wgen[w]].refs = X
    BY <1>1, <1>3, <1>5 DEF Directory
  <1> QED
    BY <1>1, <1>3, <1>6, <1>7 DEF X

\* What Unlink does to the directories: only the target loses an entry.
LEMMA UnlinkedDir ==
    ASSUME TypeOK, NEW w \in Writers, Unlink(w)
    PROVE  /\ target[w] \in Gens
           /\ dirs' \in [Gens -> Directory]
           /\ \A g \in Gens : g # target[w] => dirs'[g] = dirs[g]
           /\ \A g \in Gens : /\ dirs'[g].kind = dirs[g].kind
                               /\ dirs'[g].refs = dirs[g].refs
                               /\ dirs'[g].entries \subseteq dirs[g].entries
           /\ dirs[target[w]].entries # {}
  <1>1. target[w] \in Gens
    BY Ranges DEF Unlink
  <1>2. PICK e \in dirs[target[w]].entries : dirs' = [dirs EXCEPT ![target[w]].entries = @ \ {e}]
    BY DEF Unlink
  <1> DEFINE X == dirs[target[w]].entries \ {e}
  <1>3. dirs[target[w]] \in Directory /\ X \in SUBSET Entries
    BY <1>1, Ranges DEF Directory
  <1>4. /\ dirs'[target[w]] = [dirs[target[w]] EXCEPT !.entries = X]
        /\ \A g \in Gens : g # target[w] => dirs'[g] = dirs[g]
        /\ dirs' = [g \in Gens |-> dirs'[g]]
    BY <1>1, <1>2 DEF TypeOK
  <1>5. X \subseteq dirs[target[w]].entries
    OBVIOUS
  <1> HIDE DEF X
  <1>6. /\ dirs'[target[w]] \in Directory /\ dirs'[target[w]].kind = dirs[target[w]].kind
        /\ dirs'[target[w]].entries = X /\ dirs'[target[w]].refs = dirs[target[w]].refs
    BY SMTT(60), <1>3, <1>4, Unlinked
  <1>7. \A g \in Gens : dirs'[g] \in Directory
    BY <1>4, <1>6, Ranges
  <1> QED
    BY <1>1, <1>2, <1>4, <1>5, <1>6, <1>7

\* The new directory takes the first unused name and inherits the references of the
\* generation CURRENT names, whose files are in the store; no collection is under way.
LEMMA StagingNames ==
    ASSUME NEW w \in Writers, GenInv, Stage(w) \/ StageCrash(w)
    PROVE  NameInv' /\ FileInv'
  <1> USE DEF GenInv, disk, locks, writer, reader
  <1>1. PICK left \in SUBSET Entries :
           dirs' = [dirs EXCEPT ![named + 1] =
                      [kind |-> "staging", entries |-> left, refs |-> Inherited]]
    BY DEF Stage, StageCrash, Entries
  <1>2. /\ named' = named + 1 /\ named + 1 \in Gens /\ named \in Nat
        /\ guard = Nobody
        /\ UNCHANGED <<current, segments, content, listed, target, reach, rgen, rpc>>
    BY GenerationsAssumption DEF Stage, StageCrash, TypeOK, Gens
  <1>3. /\ Inherited \subseteq segments
        /\ \A f \in Inherited : f \in Nat /\ f <= named
    BY Ranges DEF Inherited, FileInv, NameInv, Sharing, Entries
  <1>4. \A g \in Gens : g # named + 1 => dirs'[g] = dirs[g]
    BY <1>1, <1>2 DEF TypeOK
  <1>5. dirs'[named + 1] = [kind |-> "staging", entries |-> left, refs |-> Inherited]
    BY <1>1, <1>2 DEF TypeOK
  <1>6. NameInv'
    <2>1. \A g \in Gens : g > named' => dirs'[g] = NoDir
      BY <1>2, <1>4 DEF NameInv, Gens
    <2>2. \A g \in Gens : dirs'[g].kind = "none" => dirs'[g] = NoDir
      BY <1>2, <1>4, <1>5 DEF NameInv
    <2>3. \A g \in Gens : \A f \in Refs(g)' : f <= named'
      <3>1. \A g \in Gens : \A f \in dirs'[g].refs : f \in Nat /\ f <= named
        BY <1>3, <1>4, <1>5, Ranges DEF NameInv, Refs
      <3> QED
        BY <1>2, <3>1 DEF Refs
    <2>4. \A g \in Gens : \A f \in content'[g] : f <= named'
      BY <1>2 DEF NameInv, TypeOK, Gens
    <2>5. \A v \in Writers :
             /\ wgen'[v] <= named' /\ base'[v] <= named' /\ target'[v] <= named'
             /\ \A g \in listed'[v] : g <= named'
             /\ wgen'[v] = 0 <=> wpc'[v] \in {"idle", "stage"}
      <3> SUFFICES ASSUME NEW v \in Writers
                   PROVE  /\ wgen'[v] <= named + 1 /\ base'[v] <= named + 1
                          /\ target[v] <= named + 1 /\ (\A g \in listed[v] : g <= named + 1)
                          /\ wgen'[v] = 0 <=> wpc'[v] \in {"idle", "stage"}
        BY <1>2
      <3>1. /\ wgen'[v] \in {wgen[v], named + 1} /\ base'[v] \in {base[v], current}
            /\ current <= named
            /\ wgen'[v] = 0 <=> wpc'[v] \in {"idle", "stage"}
        BY <1>2 DEF Stage, StageCrash, Go, NameInv, TypeOK
      <3> QED
        BY <1>2, <3>1, Ranges DEF NameInv
    <2>6. \A v, u \in Writers : wgen'[v] = wgen'[u] /\ wgen'[u] # 0 => v = u
      BY <1>2 DEF NameInv, TypeOK, Stage, StageCrash
    <2>7. \A r \in Readers : /\ rgen'[r] <= named'
                             /\ rgen'[r] = 0 <=> rpc'[r] \in {"closed", "error"}
      BY <1>2 DEF NameInv, TypeOK
    <2> QED
      BY <2>1, <2>2, <2>3, <2>4, <2>5, <2>6, <2>7 DEF NameInv
  <1>7. FileInv'
    <2>1. current' # 0 => dirs'[current'].kind = "final" /\ dirs'[current'].entries = Entries
      <3>1. current # 0 => current \in Gens /\ current # named + 1
        BY <1>2, Ranges DEF TypeOK
      <3> QED
        BY <1>2, <1>4, <3>1 DEF FileInv
    <2>2. \A g \in Gens : Sharing \subseteq dirs'[g].entries => Refs(g)' \subseteq segments'
      BY <1>2, <1>3, <1>4, <1>5 DEF FileInv, Refs
    <2>3. \A v \in Writers : wpc'[v] # "collect"
      BY <1>2, GenerationsAssumption DEF LockInv, Guarding, Stage, StageCrash, Go, TypeOK
    <2> QED
      BY <2>1, <2>2, <2>3 DEF FileInv
  <1> QED
    BY <1>6, <1>7

\* A name whose directory is removed stays used.
LEMMA RemovalNames ==
    ASSUME NEW w \in Writers, GenInv, RemoveDir(w) \/ DropDone(w)
    PROVE  NameInv'
  <1> USE DEF GenInv, disk, locks, writer, reader
  <1>1. target[w] \in Gens
    BY GenerationsAssumption DEF RemoveDir, DropDone, TypeOK, Gens
  <1>2. /\ \A g \in Gens : g # target[w] => dirs'[g] = dirs[g]
        /\ dirs'[target[w]] = NoDir
    BY <1>1 DEF RemoveDir, DropDone, TypeOK
  <1>3. /\ \A g \in Gens : g > named => dirs'[g] = NoDir
        /\ \A g \in Gens : dirs'[g].kind = "none" => dirs'[g] = NoDir
        /\ \A g \in Gens : \A f \in Refs(g)' : f <= named
    BY <1>2 DEF NameInv, Refs, NoDir
  <1>4. /\ named' = named /\ content' = content /\ rgen' = rgen /\ rpc' = rpc /\ named \in Nat
        /\ \A v \in Writers :
              /\ wgen'[v] \in {wgen[v], 0} /\ base'[v] \in {base[v], 0} /\ target'[v] \in {target[v], 0}
              /\ listed'[v] \subseteq listed[v]
              /\ wgen'[v] = 0 <=> wpc'[v] \in {"idle", "stage"}
    BY DEF RemoveDir, DropDone, Forget, Go, NameInv, TypeOK
  <1> QED
    BY <1>3, <1>4 DEF NameInv

\* A reader that lets go of a generation disturbs no name and no stage.
LEMMA LeavingNames ==
    ASSUME NEW r \in Readers, GenInv, OpenFail(r) \/ Close(r)
    PROVE  NameInv' /\ StageInv'
  <1> USE DEF GenInv, disk, locks, writer, reader
  <1>1. /\ rgen' = [rgen EXCEPT ![r] = 0]
        /\ \E s \in {"closed", "error"} : rpc' = [rpc EXCEPT ![r] = s]
        /\ UNCHANGED <<disk, locks, writer>>
    BY DEF OpenFail, Close
  <1>2. NameInv'
    BY <1>1 DEF NameInv, TypeOK, Refs
  <1>3. \A v \in Writers : wpc[v] \in Unpublished => wgen[v] # 0
    BY DEF NameInv, Unpublished, Staged
  <1>4. StageInv'
    BY <1>1, <1>3 DEF StageInv, TypeOK
  <1> QED
    BY <1>2, <1>4

\* A directory that yields its lock has no reader with a lease and no live stage; one
\* without a lease file is removed only if it was published, and then no live stage is
\* in it either.
LEMMA PruneTarget ==
    ASSUME NEW w \in Writers, GenInv, Prune(w)
    PROVE TargetInv'
  <1> USE DEF GenInv, disk, locks, writer, reader
  <1>1. PICK g \in listed[w] :
           /\ listed' = [listed EXCEPT ![w] = @ \ {g}]
           /\ target' = [target EXCEPT ![w] = IF Prunable(g) THEN g ELSE 0]
    BY DEF Prune
  <1>2. wpc[w] = "prune" /\ wgen[w] # g /\ g \in Gens
    BY <1>1 DEF Prune, TargetInv, TypeOK
  <1>3. ASSUME Prunable(g), NEW v \in Writers PROVE wgen[v] # g
    <2> SUFFICES ASSUME wgen[v] = g PROVE FALSE
      OBVIOUS
    <2>1. v # w /\ wpc[v] \notin {"idle", "stage"}
      BY <1>2 DEF NameInv, Gens
    <2>2. wpc[v] \notin Leading \ {"write", "publish"}
      BY <1>2, <2>1 DEF LockInv, Leading, Guarding
    <2>3. wpc[v] \in Staged \cup {"drop"}
      BY <2>1, <2>2 DEF Leading, Guarding, Staged, TypeOK
    <2>4. "lease" \notin dirs[g].entries /\ dirs[g].kind = "final"
      BY <1>3 DEF Prunable, Pinned
    <2> QED
      BY <2>3, <2>4 DEF StageInv
  <1>4. ASSUME Prunable(g), NEW r \in Readers, leased[r] PROVE rgen[r] # g
    BY <1>3, <1>4 DEF Prunable, Pinned, LeaseInv
  <1> QED
    BY <1>1, <1>2, <1>3, <1>4 DEF Prune, TargetInv, TypeOK

\* Taking the ingest lease moves nothing but the holder: it was free.
LEMMA AcquireLeaseKeeps ==
    ASSUME NEW w \in Writers, GenInv, AcquireLease(w)
    PROVE  GenInv'
  <1> USE DEF GenInv, disk, locks, writer, reader
  <1>1. TypeOK'
    BY DEF AcquireLease, Go, TypeOK
  <1>2. LockInv'
    BY GenerationsAssumption DEF AcquireLease, Go, LockInv, Guarding, Leading, TypeOK
  <1>3. NameInv'
    BY DEF AcquireLease, Go, NameInv, TypeOK, Gens, Refs
  <1>4. StageInv'
    BY DEF AcquireLease, Go, StageInv, Unpublished, Staged, TypeOK
  <1>5. TargetInv'
    BY DEF AcquireLease, Go, TargetInv, TypeOK
  <1>6. LeaseInv'
    BY DEF AcquireLease, Go, LeaseInv, TypeOK, Refs, Sharing
  <1>7. FileInv'
    BY DEF AcquireLease, Go, FileInv, TypeOK, Sharing, Refs
  <1> QED
    BY <1>1, <1>2, <1>3, <1>4, <1>5, <1>6, <1>7

\* Staging takes a name nobody used, so the new directory is nobody else's, and its
\* references are those of CURRENT, whose files are in the store.
LEMMA StageKeeps ==
    ASSUME NEW w \in Writers, GenInv, Stage(w)
    PROVE  GenInv'
  <1> USE DEF GenInv, disk, locks, writer, reader
  <1>1. TypeOK'
    BY SMTT(60), GenerationsAssumption DEF Stage, Go, TypeOK, Gens, Entries, NoDir, Inherited,
           Refs
  <1>2. LockInv'
    BY GenerationsAssumption DEF Stage, Go, LockInv, Guarding, Leading, TypeOK,
           Inherited, Refs
  <1>3. NameInv'
    BY StagingNames
  <1>4. StageInv'
    BY GenerationsAssumption DEF Stage, Go, StageInv, Unpublished, Staged, TypeOK,
           LockInv, NameInv, Guarding, Leading, Gens, TargetInv, Inherited, Refs
  <1>5. TargetInv'
    BY GenerationsAssumption DEF Stage, Go, TargetInv, Prunable, Pinned, StageInv,
           NameInv, LockInv, LeaseInv, TypeOK, Unpublished, Staged, Guarding, Leading,
           Entries, Gens, Existing, Inherited, Refs
  <1>6. LeaseInv'
    BY GenerationsAssumption DEF Stage, Go, LeaseInv, TypeOK, NameInv, TargetInv,
           StageInv, Unpublished, Staged, Refs, Sharing, Readable, Gens, Inherited
  <1>7. FileInv'
    BY StagingNames
  <1> QED
    BY <1>1, <1>2, <1>3, <1>4, <1>5, <1>6, <1>7

\* A stage that is left half made is in nobody's hands and cannot be opened.
LEMMA StageCrashKeeps ==
    ASSUME NEW w \in Writers, GenInv, StageCrash(w)
    PROVE  GenInv'
  <1> USE DEF GenInv, disk, locks, writer, reader
  <1>1. TypeOK'
    BY GenerationsAssumption DEF StageCrash, Go, TypeOK, Gens, Entries, NoDir,
           Inherited, Refs
  <1>2. LockInv'
    BY DEF StageCrash, Go, LockInv, Guarding, Leading, TypeOK
  <1>3. NameInv'
    BY StagingNames
  <1>4. StageInv'
    BY GenerationsAssumption DEF StageCrash, Go, StageInv, Unpublished, Staged, TypeOK,
           LockInv, NameInv, Guarding, Leading, Gens, TargetInv, Inherited, Refs
  <1>5. TargetInv'
    BY DEF StageCrash, Go, TargetInv, TypeOK
  <1>6. LeaseInv'
    BY GenerationsAssumption DEF StageCrash, Go, LeaseInv, TypeOK, NameInv, TargetInv,
           StageInv, Unpublished, Staged, Refs, Sharing, Readable, Gens, Inherited
  <1>7. FileInv'
    BY StagingNames
  <1> QED
    BY <1>1, <1>2, <1>3, <1>4, <1>5, <1>6, <1>7

\* A refresh fills its own segment file.
LEMMA WriteKeeps ==
    ASSUME NEW w \in Writers, GenInv, Write(w)
    PROVE  GenInv'
  <1> USE DEF GenInv, disk, locks, writer, reader
  <1>1. TypeOK'
    BY WriterGen DEF Write, Go, TypeOK, Refs
  <1>2. LockInv'
    BY DEF Write, Go, LockInv, Guarding, Leading, TypeOK
  <1>3. NameInv'
    BY DEF Write, Go, NameInv, TypeOK, Gens, Refs
  <1>4. StageInv'
    BY DEF Write, Go, StageInv, Unpublished, Staged, TypeOK
  <1>5. TargetInv'
    BY DEF Write, Go, TargetInv, TypeOK
  <1>6. LeaseInv'
    BY DEF Write, Go, LeaseInv, TypeOK, Refs, Sharing
  <1>7. FileInv'
    BY DEF Write, Go, FileInv, TypeOK, Sharing, Refs
  <1> QED
    BY <1>1, <1>2, <1>3, <1>4, <1>5, <1>6, <1>7

\* A failed refresh only goes on to drop its stage.
LEMMA WriteFailKeeps ==
    ASSUME NEW w \in Writers, GenInv, WriteFail(w)
    PROVE  GenInv'
  <1> USE DEF GenInv, disk, locks, writer, reader
  <1>1. TypeOK'
    BY DEF WriteFail, Go, TypeOK
  <1>2. LockInv'
    BY DEF WriteFail, Go, LockInv, Guarding, Leading, TypeOK
  <1>3. NameInv'
    BY DEF WriteFail, Go, NameInv, TypeOK, Gens, Refs
  <1>4. StageInv'
    BY DEF WriteFail, Go, StageInv, Unpublished, Staged, TypeOK
  <1>5. TargetInv'
    BY DEF WriteFail, Go, TargetInv, TypeOK
  <1>6. LeaseInv'
    BY DEF WriteFail, Go, LeaseInv, TypeOK, Refs, Sharing
  <1>7. FileInv'
    BY DEF WriteFail, Go, FileInv, TypeOK, Sharing, Refs
  <1> QED
    BY <1>1, <1>2, <1>3, <1>4, <1>5, <1>6, <1>7

\* A compaction fills its own segment file, or finds nothing to fold.
LEMMA MergeKeeps ==
    ASSUME NEW w \in Writers, GenInv, Merge(w)
    PROVE  GenInv'
  <1> USE DEF GenInv, disk, locks, writer, reader
  <1>1. TypeOK'
    <2>1. wgen[w] \in Gens
      BY WriterGen DEF Merge
    <2>2. PICK some \in SUBSET Refs(wgen[w]) :
             \/ /\ replaced' = [replaced EXCEPT ![w] = some]
                /\ content' = [content EXCEPT ![wgen[w]] = UNION {content[f] : f \in some}]
                /\ Go(w, "reacquire")
             \/ Go(w, "drop") /\ UNCHANGED <<replaced, content>>
      BY DEF Merge
    <2>3. some \subseteq Gens /\ UNION {content[f] : f \in some} \subseteq Gens
      BY <2>1, <2>2, Ranges
    <2> DEFINE all == UNION {content[f] : f \in some}
    <2>4. content' = content \/ content' = [content EXCEPT ![wgen[w]] = all]
      BY <2>2
    <2> HIDE DEF all
    <2>5. all \in SUBSET Gens
      BY <2>3 DEF all
    <2>6. content' \in [Gens -> SUBSET Gens]
      BY <2>1, <2>4, <2>5 DEF TypeOK
    <2>7. replaced' = replaced \/ replaced' = [replaced EXCEPT ![w] = some]
      BY <2>2
    <2>8. replaced' \in [Writers -> SUBSET Gens]
      BY <2>3, <2>7 DEF TypeOK
    <2>9. replaced' \in [Writers -> SUBSET Gens] /\ content' \in [Gens -> SUBSET Gens]
      BY <2>6, <2>8
    <2>10. wpc' = [wpc EXCEPT ![w] = "reacquire"] \/ wpc' = [wpc EXCEPT ![w] = "drop"]
      BY <2>2 DEF Go
    <2> QED
      BY <2>9, <2>10 DEF Merge, TypeOK
  <1>2. LockInv'
    BY DEF Merge, Go, LockInv, Guarding, Leading, TypeOK
  <1>3. NameInv'
    <2>1. wgen[w] \in Gens
      BY WriterGen DEF Merge
    <2>2. PICK some \in SUBSET Refs(wgen[w]) :
             \/ /\ replaced' = [replaced EXCEPT ![w] = some]
                /\ content' = [content EXCEPT ![wgen[w]] = UNION {content[f] : f \in some}]
                /\ Go(w, "reacquire")
             \/ Go(w, "drop") /\ UNCHANGED <<replaced, content>>
      BY DEF Merge
    <2>3. \A f \in UNION {content[g] : g \in some} : f <= named
      BY <2>1, <2>2 DEF TypeOK, NameInv, Refs
    <2>4. \A g \in Gens : \A f \in content'[g] : f <= named'
      BY ZenonT(60), <2>1, <2>2, <2>3 DEF Merge, NameInv, TypeOK
    <2> QED
      BY <2>2, <2>4 DEF Merge, Go, NameInv, TypeOK, Refs
  <1>4. StageInv'
    BY DEF Merge, Go, StageInv, Unpublished, Staged, TypeOK
  <1>5. TargetInv'
    BY DEF Merge, Go, TargetInv, TypeOK
  <1>6. LeaseInv'
    BY DEF Merge, Go, LeaseInv, TypeOK, Refs, Sharing
  <1>7. FileInv'
    BY DEF Merge, Go, FileInv, TypeOK, Sharing, Refs
  <1> QED
    BY <1>1, <1>2, <1>3, <1>4, <1>5, <1>6, <1>7

\* The lease comes back only when nobody has it.
LEMMA ReacquireKeeps ==
    ASSUME NEW w \in Writers, GenInv, Reacquire(w)
    PROVE  GenInv'
  <1> USE DEF GenInv, disk, locks, writer, reader
  <1>1. TypeOK'
    BY DEF Reacquire, Go, TypeOK
  <1>2. LockInv'
    BY GenerationsAssumption DEF Reacquire, Go, LockInv, Guarding, Leading, TypeOK
  <1>3. NameInv'
    BY DEF Reacquire, Go, NameInv, TypeOK, Gens, Refs
  <1>4. StageInv'
    BY DEF Reacquire, Go, StageInv, Unpublished, Staged, TypeOK
  <1>5. TargetInv'
    BY DEF Reacquire, Go, TargetInv, TypeOK
  <1>6. LeaseInv'
    BY DEF Reacquire, Go, LeaseInv, TypeOK, Refs, Sharing
  <1>7. FileInv'
    BY DEF Reacquire, Go, FileInv, TypeOK, Sharing, Refs
  <1> QED
    BY <1>1, <1>2, <1>3, <1>4, <1>5, <1>6, <1>7

\* A compaction that waited too long goes on to drop its stage.
LEMMA ReacquireTimeoutKeeps ==
    ASSUME NEW w \in Writers, GenInv, ReacquireTimeout(w)
    PROVE  GenInv'
  <1> USE DEF GenInv, disk, locks, writer, reader
  <1>1. TypeOK'
    BY DEF ReacquireTimeout, Go, TypeOK
  <1>2. LockInv'
    BY DEF ReacquireTimeout, Go, LockInv, Guarding, Leading, TypeOK
  <1>3. NameInv'
    BY DEF ReacquireTimeout, Go, NameInv, TypeOK, Gens, Refs
  <1>4. StageInv'
    BY DEF ReacquireTimeout, Go, StageInv, Unpublished, Staged, TypeOK
  <1>5. TargetInv'
    BY DEF ReacquireTimeout, Go, TargetInv, TypeOK
  <1>6. LeaseInv'
    BY DEF ReacquireTimeout, Go, LeaseInv, TypeOK, Refs, Sharing
  <1>7. FileInv'
    BY DEF ReacquireTimeout, Go, FileInv, TypeOK, Sharing, Refs
  <1> QED
    BY <1>1, <1>2, <1>3, <1>4, <1>5, <1>6, <1>7

\* The store lock was free, and the store only grows.
LEMMA AdoptKeeps ==
    ASSUME NEW w \in Writers, GenInv, Adopt(w)
    PROVE  GenInv'
  <1> USE DEF GenInv, disk, locks, writer, reader
  <1>1. TypeOK'
    BY WriterGen DEF Adopt, Go, TypeOK
  <1>2. LockInv'
    BY DEF Adopt, Go, LockInv, Guarding, Leading, TypeOK
  <1>3. NameInv'
    BY DEF Adopt, Go, NameInv, TypeOK, Gens, Refs
  <1>4. StageInv'
    BY DEF Adopt, Go, StageInv, Unpublished, Staged, TypeOK
  <1>5. TargetInv'
    BY DEF Adopt, Go, TargetInv, TypeOK
  <1>6. LeaseInv'
    BY DEF Adopt, Go, LeaseInv, TypeOK, Refs, Sharing
  <1>7. FileInv'
    BY DEF Adopt, Go, FileInv, TypeOK, Sharing, Refs
  <1> QED
    BY <1>1, <1>2, <1>3, <1>4, <1>5, <1>6, <1>7

\* The sealed directory is still its writer's own: no reader can have leased it, and
\* its new reference is the file that Adopt put into the store.
LEMMA SealKeeps ==
    ASSUME NEW w \in Writers, GenInv, Seal(w)
    PROVE  GenInv'
  <1> USE DEF GenInv, disk, locks, writer, reader
  <1>1. TypeOK'
    BY SealedDir DEF Seal, Go, TypeOK, Directory
  <1>2. LockInv'
    BY DEF Seal, Go, LockInv, Guarding, Leading, TypeOK
  <1>3. NameInv'
    BY SMTT(60) DEF Seal, Go, NameInv, TypeOK, Gens, Refs
  <1>4. StageInv'
    BY GenerationsAssumption DEF Seal, Go, StageInv, Unpublished, Staged, TypeOK,
           LockInv, NameInv, Guarding, Leading, Gens, TargetInv
  <1>5. TargetInv'
    BY DEF Seal, Go, TargetInv, TypeOK
  <1>6. LeaseInv'
    <2>1. wgen[w] \in Gens
      BY WriterGen DEF Seal
    <2>2. \A g \in Gens : g # wgen[w] => dirs'[g] = dirs[g]
      BY <2>1 DEF Seal, TypeOK
    <2>3. \A r \in Readers : leased[r] => rgen[r] \in Gens /\ rgen[r] # wgen[w]
      BY Ranges DEF Seal, LeaseInv, NameInv, StageInv, Unpublished, Staged
    <2> QED
      BY ZenonT(60), <2>2, <2>3 DEF Seal, LeaseInv, Refs
  <1>7. FileInv'
    BY GenerationsAssumption DEF Seal, Go, FileInv, TypeOK, LockInv, NameInv, StageInv,
           TargetInv, Sharing, Refs, Gens, Entries, Inherited, Unpublished, Staged,
           Guarding, Leading, Existing, Manifests, NoDir
  <1> QED
    BY <1>1, <1>2, <1>3, <1>4, <1>5, <1>6, <1>7

\* CURRENT moves to a directory that is complete, by the writer that holds both locks.
LEMMA FlipKeeps ==
    ASSUME NEW w \in Writers, GenInv, Flip(w)
    PROVE  GenInv'
  <1> USE DEF GenInv, disk, locks, writer, reader
  <1>1. TypeOK'
    <2>1. wgen[w] \in Nat /\ wgen[w] <= named /\ named \in Nat
      BY WriterGen, Ranges DEF Flip
    <2>2. wgen[w] \in 0..named
      BY <2>1
    <2> QED
      BY <2>2 DEF Flip, Go, TypeOK, Existing
  <1>2. LockInv'
    BY DEF Flip, Go, LockInv, Guarding, Leading, TypeOK
  <1>3. NameInv'
    BY SMTT(60), GenerationsAssumption DEF Flip, Go, NameInv, TypeOK, Gens, NoDir, Refs,
           Inherited, Existing, Manifests
  <1>4. StageInv'
    BY GenerationsAssumption DEF Flip, Go, StageInv, Unpublished, Staged, TypeOK,
           LockInv, NameInv, Guarding, Leading, Gens, TargetInv, Existing
  <1>5. TargetInv'
    BY DEF Flip, Go, TargetInv, TypeOK
  <1>6. LeaseInv'
    BY DEF Flip, Go, LeaseInv, TypeOK, Refs, Sharing
  <1>7. FileInv'
    BY GenerationsAssumption DEF Flip, Go, FileInv, TypeOK, LockInv, NameInv, StageInv,
           TargetInv, Sharing, Refs, Gens, Entries, Inherited, Unpublished, Staged,
           Guarding, Leading, Existing, Manifests, NoDir
  <1> QED
    BY <1>1, <1>2, <1>3, <1>4, <1>5, <1>6, <1>7

\* What a prune takes is leased by no reader and staged by no writer.
LEMMA PruneKeeps ==
    ASSUME NEW w \in Writers, GenInv, Prune(w)
    PROVE  GenInv'
  <1> USE DEF GenInv, disk, locks, writer, reader
  <1>1. TypeOK'
    BY GenerationsAssumption DEF Prune, Go, TypeOK, Gens, Entries, NoDir
  <1>2. LockInv'
    BY DEF Prune, Go, LockInv, Guarding, Leading, TypeOK
  <1>3. NameInv'
    BY DEF Prune, Go, NameInv, TypeOK, Gens, Refs
  <1>4. StageInv'
    BY DEF Prune, Go, StageInv, Unpublished, Staged, TypeOK
  <1>5. TargetInv'
    BY PruneTarget
  <1>6. LeaseInv'
    BY DEF Prune, Go, LeaseInv, TypeOK, Refs, Sharing
  <1>7. FileInv'
    BY DEF Prune, Go, FileInv, TypeOK, Sharing, Refs
  <1> QED
    BY <1>1, <1>2, <1>3, <1>4, <1>5, <1>6, <1>7

\* Unlinking disturbs only the directory that is being removed.
LEMMA UnlinkKeeps ==
    ASSUME NEW w \in Writers, GenInv, Unlink(w)
    PROVE  GenInv'
  <1> USE DEF GenInv, disk, locks, writer, reader
  <1>1. TypeOK'
    BY UnlinkedDir DEF Unlink, TypeOK, Directory
  <1>2. LockInv'
    BY DEF Unlink, Go, LockInv, Guarding, Leading, TypeOK
  <1>3. NameInv'
    <2>1. target[w] \in Gens
      BY GenerationsAssumption DEF Unlink, TypeOK, Gens
    <2>2. PICK e \in dirs[target[w]].entries :
             dirs' = [dirs EXCEPT ![target[w]].entries = @ \ {e}]
      BY DEF Unlink
    <2>3. \A g \in Gens : /\ dirs'[g].kind = dirs[g].kind /\ Refs(g)' = Refs(g)
                          /\ g # target[w] => dirs'[g] = dirs[g]
      BY <2>1, <2>2 DEF TypeOK, Refs
    <2>4. /\ dirs[target[w]].kind # "none"
          /\ target[w] <= named /\ target[w] \in Nat /\ named \in Nat
      BY <2>1, <2>2, Ranges DEF NameInv, NoDir
    <2> QED
      BY <2>1, <2>3, <2>4 DEF Unlink, NameInv, TypeOK, Gens
  <1>4. StageInv'
    BY GenerationsAssumption DEF Unlink, Go, StageInv, Unpublished, Staged, TypeOK,
           LockInv, NameInv, Guarding, Leading, Gens, TargetInv
  <1>5. TargetInv'
    BY DEF Unlink, Go, TargetInv, TypeOK
  <1>6. LeaseInv'
    BY GenerationsAssumption DEF Unlink, Go, LeaseInv, TypeOK, NameInv, TargetInv,
           StageInv, Unpublished, Staged, Refs, Sharing, Readable, Gens
  <1>7. FileInv'
    BY GenerationsAssumption DEF Unlink, Go, FileInv, TypeOK, LockInv, NameInv,
           StageInv, TargetInv, Sharing, Refs, Gens, Entries, Inherited, Unpublished,
           Staged, Guarding, Leading, Existing, Manifests, NoDir
  <1> QED
    BY <1>1, <1>2, <1>3, <1>4, <1>5, <1>6, <1>7

\* An emptied directory is nobody's.
LEMMA RemoveDirKeeps ==
    ASSUME NEW w \in Writers, GenInv, RemoveDir(w)
    PROVE  GenInv'
  <1> USE DEF GenInv, disk, locks, writer, reader
  <1>1. TypeOK'
    BY SMTT(60), GenerationsAssumption DEF RemoveDir, Go, TypeOK, Gens, Entries, NoDir
  <1>2. LockInv'
    BY DEF RemoveDir, Go, LockInv, Guarding, Leading, TypeOK
  <1>3. NameInv'
    BY RemovalNames
  <1>4. StageInv'
    BY GenerationsAssumption DEF RemoveDir, Go, StageInv, Unpublished, Staged, TypeOK,
           LockInv, NameInv, Guarding, Leading, Gens, TargetInv
  <1>5. TargetInv'
    BY DEF RemoveDir, Go, TargetInv, TypeOK
  <1>6. LeaseInv'
    BY DEF RemoveDir, Go, LeaseInv, TypeOK, Refs, Sharing
  <1>7. FileInv'
    BY GenerationsAssumption DEF RemoveDir, Go, FileInv, TypeOK, LockInv, NameInv,
           StageInv, TargetInv, Sharing, Refs, Gens, Entries, Inherited, Unpublished,
           Staged, Guarding, Leading, Existing, Manifests, NoDir
  <1> QED
    BY <1>1, <1>2, <1>3, <1>4, <1>5, <1>6, <1>7

\* A collection starts from every directory there is.
LEMMA CollectKeeps ==
    ASSUME NEW w \in Writers, GenInv, Collect(w)
    PROVE  GenInv'
  <1> USE DEF GenInv, disk, locks, writer, reader
  <1>1. TypeOK'
    BY GenerationsAssumption DEF Collect, Go, TypeOK, Gens, Entries, NoDir, Manifests,
           Existing
  <1>2. LockInv'
    BY DEF Collect, Go, LockInv, Guarding, Leading, TypeOK
  <1>3. NameInv'
    BY SMTT(60), GenerationsAssumption DEF Collect, Go, NameInv, TypeOK, Gens, NoDir, Refs,
           Inherited, Existing, Manifests
  <1>4. StageInv'
    BY DEF Collect, Go, StageInv, Unpublished, Staged, TypeOK
  <1>5. TargetInv'
    BY DEF Collect, Go, TargetInv, TypeOK
  <1>6. LeaseInv'
    BY DEF Collect, Go, LeaseInv, TypeOK, Refs, Sharing
  <1>7. FileInv'
    BY GenerationsAssumption DEF Collect, Go, FileInv, TypeOK, LockInv, NameInv,
           StageInv, TargetInv, Sharing, Refs, Gens, Entries, Inherited, Unpublished,
           Staged, Guarding, Leading, Existing, Manifests, NoDir
  <1> QED
    BY <1>1, <1>2, <1>3, <1>4, <1>5, <1>6, <1>7

\* A manifest that is read is in the reach from then on; one that is skipped belongs to
\* a directory that cannot be opened.
LEMMA CollectReadKeeps ==
    ASSUME NEW w \in Writers, GenInv, CollectRead(w)
    PROVE  GenInv'
  <1> USE DEF GenInv, disk, locks, writer, reader
  <1>1. TypeOK'
    BY SMTT(60), GenerationsAssumption DEF CollectRead, Go, TypeOK, Gens, Entries, NoDir, Refs,
           Marks
  <1>2. LockInv'
    BY DEF CollectRead, Go, LockInv, Guarding, Leading, TypeOK
  <1>3. NameInv'
    BY DEF CollectRead, Go, NameInv, TypeOK, Gens, Refs
  <1>4. StageInv'
    BY DEF CollectRead, Go, StageInv, Unpublished, Staged, TypeOK
  <1>5. TargetInv'
    BY DEF CollectRead, Go, TargetInv, TypeOK
  <1>6. LeaseInv'
    BY DEF CollectRead, Go, LeaseInv, TypeOK, Refs, Sharing
  <1>7. FileInv'
    BY GenerationsAssumption DEF CollectRead, Go, FileInv, TypeOK, LockInv, NameInv,
           StageInv, TargetInv, Sharing, Refs, Gens, Entries, Inherited, Unpublished,
           Staged, Guarding, Leading, Existing, Manifests, NoDir, Marks
  <1> QED
    BY <1>1, <1>2, <1>3, <1>4, <1>5, <1>6, <1>7

\* A collection that fails gives the store lock back and removes nothing.
LEMMA CollectFailKeeps ==
    ASSUME NEW w \in Writers, GenInv, CollectFail(w)
    PROVE  GenInv'
  <1> USE DEF GenInv, disk, locks, writer, reader
  <1>1. TypeOK'
    BY DEF CollectFail, Go, TypeOK
  <1>2. LockInv'
    BY DEF CollectFail, Go, LockInv, Guarding, Leading, TypeOK
  <1>3. NameInv'
    BY DEF CollectFail, Go, NameInv, TypeOK, Gens, Refs
  <1>4. StageInv'
    BY DEF CollectFail, Go, StageInv, Unpublished, Staged, TypeOK
  <1>5. TargetInv'
    BY DEF CollectFail, Go, TargetInv, TypeOK
  <1>6. LeaseInv'
    BY DEF CollectFail, Go, LeaseInv, TypeOK, Refs, Sharing
  <1>7. FileInv'
    BY DEF CollectFail, Go, FileInv, TypeOK, Sharing, Refs
  <1> QED
    BY <1>1, <1>2, <1>3, <1>4, <1>5, <1>6, <1>7

\* Once every directory is read, what is removed is referenced by none that can be
\* opened.
LEMMA CollectDoneKeeps ==
    ASSUME NEW w \in Writers, GenInv, CollectDone(w)
    PROVE  GenInv'
  <1> USE DEF GenInv, disk, locks, writer, reader
  <1>1. TypeOK'
    BY DEF CollectDone, Go, TypeOK
  <1>2. LockInv'
    BY DEF CollectDone, Go, LockInv, Guarding, Leading, TypeOK
  <1>3. NameInv'
    BY DEF CollectDone, Go, NameInv, TypeOK, Gens, Refs
  <1>4. StageInv'
    BY GenerationsAssumption DEF CollectDone, Go, StageInv, Unpublished, Staged,
           TypeOK, LockInv, NameInv, Guarding, Leading, Gens, TargetInv
  <1>5. TargetInv'
    BY DEF CollectDone, Go, TargetInv, TypeOK
  <1>6. LeaseInv'
    BY DEF CollectDone, Go, LeaseInv, TypeOK, Refs, Sharing
  <1>7. FileInv'
    BY DEF CollectDone, Go, FileInv, TypeOK, Sharing, Refs
  <1> QED
    BY <1>1, <1>2, <1>3, <1>4, <1>5, <1>6, <1>7

\* A writer that is done gives back what it holds.
LEMMA FinishKeeps ==
    ASSUME NEW w \in Writers, GenInv, Finish(w)
    PROVE  GenInv'
  <1> USE DEF GenInv, disk, locks, writer, reader
  <1>1. TypeOK'
    BY GenerationsAssumption DEF Finish, Go, TypeOK, Gens, Entries, NoDir, Forget
  <1>2. LockInv'
    BY DEF Finish, Go, LockInv, Guarding, Leading, TypeOK, Forget
  <1>3. NameInv'
    BY DEF Finish, Go, NameInv, TypeOK, Gens, Refs, Forget
  <1>4. StageInv'
    BY GenerationsAssumption DEF Finish, Go, StageInv, Unpublished, Staged, TypeOK,
           LockInv, NameInv, Guarding, Leading, Gens, TargetInv, Forget
  <1>5. TargetInv'
    BY DEF Finish, Go, TargetInv, TypeOK, Forget
  <1>6. LeaseInv'
    BY DEF Finish, Go, LeaseInv, TypeOK, Refs, Sharing, Forget
  <1>7. FileInv'
    BY DEF Finish, Go, FileInv, TypeOK, Sharing, Refs, Forget
  <1> QED
    BY <1>1, <1>2, <1>3, <1>4, <1>5, <1>6, <1>7

\* What a drop removes is the writer's own stage.
LEMMA DropKeeps ==
    ASSUME NEW w \in Writers, GenInv, Drop(w)
    PROVE  GenInv'
  <1> USE DEF GenInv, disk, locks, writer, reader
  <1>1. TypeOK'
    BY DEF Drop, Go, TypeOK
  <1>2. LockInv'
    BY DEF Drop, Go, LockInv, Guarding, Leading, TypeOK
  <1>3. NameInv'
    BY DEF Drop, Go, NameInv, TypeOK, Gens, Refs
  <1>4. StageInv'
    BY DEF Drop, Go, StageInv, Unpublished, Staged, TypeOK
  <1>5. TargetInv'
    BY DEF Drop, Go, TargetInv, TypeOK
  <1>6. LeaseInv'
    BY DEF Drop, Go, LeaseInv, TypeOK, Refs, Sharing
  <1>7. FileInv'
    BY DEF Drop, Go, FileInv, TypeOK, Sharing, Refs
  <1> QED
    BY <1>1, <1>2, <1>3, <1>4, <1>5, <1>6, <1>7

\* The dropped stage was nobody else's.
LEMMA DropDoneKeeps ==
    ASSUME NEW w \in Writers, GenInv, DropDone(w)
    PROVE  GenInv'
  <1> USE DEF GenInv, disk, locks, writer, reader
  <1>1. TypeOK'
    BY GenerationsAssumption DEF DropDone, Go, TypeOK, Gens, Entries, NoDir, Forget
  <1>2. LockInv'
    BY DEF DropDone, Go, LockInv, Guarding, Leading, TypeOK, Forget
  <1>3. NameInv'
    BY RemovalNames
  <1>4. StageInv'
    BY GenerationsAssumption DEF DropDone, Go, StageInv, Unpublished, Staged, TypeOK,
           LockInv, NameInv, Guarding, Leading, Gens, TargetInv, Forget
  <1>5. TargetInv'
    BY DEF DropDone, Go, TargetInv, TypeOK, Forget
  <1>6. LeaseInv'
    BY DEF DropDone, Go, LeaseInv, TypeOK, Refs, Sharing, Forget
  <1>7. FileInv'
    BY GenerationsAssumption DEF DropDone, Go, FileInv, TypeOK, LockInv, NameInv,
           StageInv, TargetInv, Sharing, Refs, Gens, Entries, Inherited, Unpublished,
           Staged, Guarding, Leading, Existing, Manifests, NoDir, Forget
  <1> QED
    BY <1>1, <1>2, <1>3, <1>4, <1>5, <1>6, <1>7

\* A killed writer leaves the directories as they are and nobody's.
LEMMA CrashKeeps ==
    ASSUME NEW w \in Writers, GenInv, Crash(w)
    PROVE  GenInv'
  <1> USE DEF GenInv, disk, locks, writer, reader
  <1>1. TypeOK'
    BY SMTT(60), GenerationsAssumption DEF Crash, Go, TypeOK, Gens, Entries, NoDir, Forget
  <1>2. LockInv'
    BY DEF Crash, Go, LockInv, Guarding, Leading, TypeOK, Forget
  <1>3. NameInv'
    BY DEF Crash, Go, NameInv, TypeOK, Gens, Refs, Forget
  <1>4. StageInv'
    BY GenerationsAssumption DEF Crash, Go, StageInv, Unpublished, Staged, TypeOK,
           LockInv, NameInv, Guarding, Leading, Gens, TargetInv, Forget
  <1>5. TargetInv'
    BY DEF Crash, Go, TargetInv, TypeOK, Forget
  <1>6. LeaseInv'
    BY DEF Crash, Go, LeaseInv, TypeOK, Refs, Sharing, Forget
  <1>7. FileInv'
    BY DEF Crash, Go, FileInv, TypeOK, Sharing, Refs, Forget
  <1> QED
    BY <1>1, <1>2, <1>3, <1>4, <1>5, <1>6, <1>7

\* What CURRENT names is no writer's unpublished stage.
LEMMA ResolveKeeps ==
    ASSUME NEW r \in Readers, GenInv, Resolve(r)
    PROVE  GenInv'
  <1> USE DEF GenInv, disk, locks, writer, reader
  <1>1. TypeOK'
    BY GenerationsAssumption DEF Resolve, Go, TypeOK, Gens, Entries, NoDir
  <1>2. LockInv'
    BY DEF Resolve, Go, LockInv, Guarding, Leading, TypeOK
  <1>3. NameInv'
    BY DEF Resolve, Go, NameInv, TypeOK, Gens, Refs
  <1>4. StageInv'
    BY DEF Resolve, Go, StageInv, Unpublished, Staged, TypeOK
  <1>5. TargetInv'
    BY GenerationsAssumption DEF Resolve, Go, TargetInv, Prunable, Pinned, StageInv,
           NameInv, LockInv, LeaseInv, TypeOK, Unpublished, Staged, Guarding, Leading,
           Entries, Gens, Existing
  <1>6. LeaseInv'
    BY DEF Resolve, Go, LeaseInv, TypeOK, Refs, Sharing
  <1>7. FileInv'
    BY DEF Resolve, Go, FileInv, TypeOK, Sharing, Refs
  <1> QED
    BY <1>1, <1>2, <1>3, <1>4, <1>5, <1>6, <1>7

\* A lease is granted only where no prune holds the directory.
LEMMA LeaseKeeps ==
    ASSUME NEW r \in Readers, GenInv, Lease(r)
    PROVE  GenInv'
  <1> USE DEF GenInv, disk, locks, writer, reader
  <1>1. TypeOK'
    BY DEF Lease, Go, TypeOK
  <1>2. LockInv'
    BY DEF Lease, Go, LockInv, Guarding, Leading, TypeOK
  <1>3. NameInv'
    BY DEF Lease, Go, NameInv, TypeOK, Gens, Refs
  <1>4. StageInv'
    BY DEF Lease, Go, StageInv, Unpublished, Staged, TypeOK
  <1>5. TargetInv'
    BY DEF Lease, Go, TargetInv, TypeOK
  <1>6. LeaseInv'
    BY DEF Lease, Go, LeaseInv, TypeOK, Refs, Sharing
  <1>7. FileInv'
    BY DEF Lease, Go, FileInv, TypeOK, Sharing, Refs
  <1> QED
    BY <1>1, <1>2, <1>3, <1>4, <1>5, <1>6, <1>7

\* An open reader holds the references of the directory it leased.
LEMMA OpenKeeps ==
    ASSUME NEW r \in Readers, GenInv, Open(r)
    PROVE  GenInv'
  <1> USE DEF GenInv, disk, locks, writer, reader
  <1>1. TypeOK'
    <2>1. rgen[r] \in Gens
      BY Ranges DEF Open, NameInv
    <2> QED
      BY <2>1 DEF Open, TypeOK, Refs
  <1>2. LockInv'
    BY DEF Open, Go, LockInv, Guarding, Leading, TypeOK
  <1>3. NameInv'
    BY DEF Open, Go, NameInv, TypeOK, Gens, Refs
  <1>4. StageInv'
    BY DEF Open, Go, StageInv, Unpublished, Staged, TypeOK
  <1>5. TargetInv'
    BY DEF Open, Go, TargetInv, TypeOK
  <1>6. LeaseInv'
    BY GenerationsAssumption DEF Open, Go, LeaseInv, TypeOK, NameInv, TargetInv,
           StageInv, Unpublished, Staged, Refs, Sharing, Readable, Gens
  <1>7. FileInv'
    BY DEF Open, Go, FileInv, TypeOK, Sharing, Refs
  <1> QED
    BY <1>1, <1>2, <1>3, <1>4, <1>5, <1>6, <1>7

\* A reader that could not open lets go of the generation.
LEMMA OpenFailKeeps ==
    ASSUME NEW r \in Readers, GenInv, OpenFail(r)
    PROVE  GenInv'
  <1> USE DEF GenInv, disk, locks, writer, reader
  <1>1. TypeOK'
    BY GenerationsAssumption DEF OpenFail, Go, TypeOK, Gens, Entries, NoDir
  <1>2. LockInv'
    BY DEF OpenFail, Go, LockInv, Guarding, Leading, TypeOK
  <1>3. NameInv'
    BY LeavingNames
  <1>4. StageInv'
    BY LeavingNames
  <1>5. TargetInv'
    BY DEF OpenFail, Go, TargetInv, TypeOK
  <1>6. LeaseInv'
    BY DEF OpenFail, Go, LeaseInv, TypeOK, Refs, Sharing
  <1>7. FileInv'
    BY DEF OpenFail, Go, FileInv, TypeOK, Sharing, Refs
  <1> QED
    BY <1>1, <1>2, <1>3, <1>4, <1>5, <1>6, <1>7

\* A reader that closes lets go of the generation.
LEMMA CloseKeeps ==
    ASSUME NEW r \in Readers, GenInv, Close(r)
    PROVE  GenInv'
  <1> USE DEF GenInv, disk, locks, writer, reader
  <1>1. TypeOK'
    BY SMTT(60), GenerationsAssumption DEF Close, Go, TypeOK, Gens, Entries, NoDir
  <1>2. LockInv'
    BY DEF Close, Go, LockInv, Guarding, Leading, TypeOK
  <1>3. NameInv'
    BY DEF Close, Go, NameInv, TypeOK, Gens, Refs
  <1>4. StageInv'
    BY LeavingNames
  <1>5. TargetInv'
    BY DEF Close, Go, TargetInv, TypeOK
  <1>6. LeaseInv'
    BY DEF Close, Go, LeaseInv, TypeOK, Refs, Sharing
  <1>7. FileInv'
    BY DEF Close, Go, FileInv, TypeOK, Sharing, Refs
  <1> QED
    BY <1>1, <1>2, <1>3, <1>4, <1>5, <1>6, <1>7


\* The first state: no directory, no writer, no reader.
LEMMA GenInit == Init => GenInv
  BY GenerationsAssumption DEF Init, GenInv, TypeOK, LockInv, NameInv, StageInv, TargetInv,
     LeaseInv, FileInv, Gens, Entries, NoDir, Refs, Sharing, Guarding, Leading, Staged,
     Unpublished

\* Every step of every process keeps the invariant.
LEMMA GenNext == GenInv /\ [Next]_vars => GenInv'
  <1> SUFFICES ASSUME GenInv, [Next]_vars PROVE GenInv'
    OBVIOUS
  <1>1. ASSUME NEW w \in Writers, Staging(w) PROVE GenInv'
    BY <1>1, AcquireLeaseKeeps, StageKeeps, StageCrashKeeps, WriteKeeps, WriteFailKeeps,
       MergeKeeps, ReacquireKeeps, ReacquireTimeoutKeeps DEF Staging
  <1>2. ASSUME NEW w \in Writers, Publishing(w) PROVE GenInv'
    BY <1>2, AdoptKeeps, SealKeeps, FlipKeeps, PruneKeeps, UnlinkKeeps, RemoveDirKeeps,
       CollectKeeps, CollectReadKeeps, CollectFailKeeps, CollectDoneKeeps DEF Publishing
  <1>3. ASSUME NEW w \in Writers, Ending(w) PROVE GenInv'
    BY <1>3, FinishKeeps, DropKeeps, DropDoneKeeps, CrashKeeps DEF Ending
  <1>4. ASSUME NEW r \in Readers, Reading(r) PROVE GenInv'
    BY <1>4, ResolveKeeps, LeaseKeeps, OpenKeeps, OpenFailKeeps, CloseKeeps DEF Reading
  <1>5. ASSUME UNCHANGED vars PROVE GenInv'
    BY SMTT(60), <1>5 DEF vars, disk, locks, writer, reader, GenInv, TypeOK, LockInv, NameInv,
       StageInv, TargetInv, LeaseInv, FileInv, Refs
  <1> QED
    BY <1>1, <1>2, <1>3, <1>4, <1>5 DEF Next

\* The store's invariant holds in every state the writers and readers can reach.
LEMMA GenAlways == Spec => []GenInv
  BY GenInit, GenNext, PTL DEF Spec

\* What the publication protocol of src/index.rs keeps is well typed, and CURRENT names a
\* generation that was named before (publish_generation).
THEOREM GenerationsTyped == Spec => []TypeOK
  BY GenAlways, PTL DEF GenInv

\* CURRENT names a complete published generation whose every segment file is in the
\* shared store, through any crash of publish_generation, any prune
\* (prune_superseded_generations) and any collection (collect_unreachable): CURRENT is
\* one of the directories FileInv speaks of.
THEOREM CurrentAlwaysComplete == Spec => []CurrentComplete
  <1>1. GenInv => CurrentComplete
    BY Ranges DEF GenInv, FileInv, CurrentComplete, Entries, Sharing
  <1> QED
    BY <1>1, GenAlways, PTL

\* An open reader with its lease, and a live stage, find every file they reference,
\* however many publications collect meanwhile (collect_unreachable): a lease keeps the
\* directory (LeaseInv), and a directory that can be opened keeps its files (FileInv).
THEOREM PinnedFilesAlwaysStay == Spec => []PinnedFilesStay
  <1>1. ASSUME GenInv PROVE PinnedFilesStay
    <2> USE <1>1 DEF GenInv
    <2>1. ASSUME NEW r \in Readers, rpc[r] = "open", leased[r] PROVE rrefs[r] \subseteq segments
      BY <2>1, Ranges DEF LeaseInv, FileInv, NameInv
    <2>2. ASSUME NEW w \in Writers, wpc[w] \in Staged PROVE Refs(wgen[w]) \subseteq segments
      BY <2>2, WriterGen DEF Staged, StageInv, FileInv, Entries, Sharing
    <2> QED
      BY <2>1, <2>2 DEF PinnedFilesStay, Staged
  <1> QED
    BY <1>1, GenAlways, PTL

\* A reader gives up only on a generation that cannot be opened and that CURRENT still
\* names, and there is none.
LEMMA NobodyGivesUp == GenInv /\ ReadersOpen /\ [Next]_vars => ReadersOpen'
  <1> SUFFICES ASSUME GenInv, ReadersOpen, [Next]_vars, NEW r \in Readers PROVE rpc'[r] # "error"
    BY DEF ReadersOpen
  <1> USE DEF GenInv, ReadersOpen, TypeOK
  <1>1. ASSUME NEW s \in Readers, OpenFail(s) PROVE rpc'[r] # "error"
    <2>1. rgen[s] # 0 /\ ~Readable(rgen[s])
      BY <1>1 DEF OpenFail, NameInv
    <2>2. current = rgen[s] => Readable(rgen[s])
      BY <2>1, Ranges DEF FileInv, Readable, Entries, Sharing
    <2> QED
      BY <1>1, <2>1, <2>2 DEF OpenFail, Retries
  <1>2. ASSUME NEW s \in Readers, Resolve(s) \/ Lease(s) \/ Open(s) \/ Close(s)
        PROVE  rpc'[r] # "error"
    BY <1>2 DEF Resolve, Lease, Open, Close
  <1>3. ASSUME NEW w \in Writers, Staging(w) \/ Publishing(w) \/ Ending(w) PROVE rpc' = rpc
    <2>1. CASE Staging(w)
      BY <2>1 DEF Staging, AcquireLease, Stage, StageCrash, Write, WriteFail, Merge, Reacquire,
         ReacquireTimeout, reader
    <2>2. CASE Publishing(w)
      BY <2>2 DEF Publishing, Adopt, Seal, Flip, Prune, Unlink, RemoveDir, Collect,
         CollectRead, CollectFail, CollectDone, reader
    <2>3. CASE Ending(w)
      BY <2>3 DEF Ending, Finish, Drop, DropDone, Crash, reader
    <2> QED
      BY <1>3, <2>1, <2>2, <2>3
  <1> QED
    BY <1>1, <1>2, <1>3 DEF Next, Reading, vars, reader

\* open_or_create never gives up: a generation that cannot be opened is one that CURRENT
\* has left, so its loop resolves again.
THEOREM ReadersAlwaysOpen == Spec => []ReadersOpen
  <1>1. Init => ReadersOpen
    BY DEF Init, ReadersOpen
  <1> QED
    BY <1>1, GenAlways, NobodyGivesUp, PTL DEF Spec

-----------------------------------------------------------------------------
(* Publications compose.  The writer that moves CURRENT staged from what    *)
(* CURRENT still names, so that what it publishes is what CURRENT showed    *)
(* with its own change applied.                                            *)

Decided(w) == wpc[w] \in {"publish", "seal", "flip"} \/ (w \in Refreshers /\ wpc[w] = "write")
Merged == {"reacquire", "publish", "seal", "flip"}

\* A writer that decided to publish has the generation CURRENT names as its base, a
\* stage whose base CURRENT still names has its references, and no other directory
\* refers to the file of an unpublished generation.
BaseOf(w) ==
    /\ Decided(w) => base[w] = current
    /\ wpc[w] \in Staged /\ base[w] = current => Refs(wgen[w]) = Inherited
    /\ wpc[w] \in Unpublished => \A g \in Gens \ {wgen[w]} : wgen[w] \notin Refs(g)
    /\ wpc[w] \in Staged => wgen[w] \notin Refs(wgen[w])
    /\ wpc[w] \in Merged \ {"flip"} => replaced[w] \subseteq Refs(wgen[w])
    /\ wpc[w] = "flip" => /\ replaced[w] \subseteq Inherited
                          /\ Refs(wgen[w]) = (Inherited \ replaced[w]) \cup {wgen[w]}

BaseInv == \A w \in Writers : BaseOf(w)

\* The file of a refresh holds its own update, which is in no other file, and the file
\* of a merge holds what it stands for.
ContentOf(w) ==
    /\ w \in Refreshers /\ wpc[w] \in Unpublished =>
          \A h \in Gens \ {wgen[w]} : wgen[w] \notin content[h]
    /\ w \in Refreshers /\ wpc[w] \in {"publish", "seal", "flip"} =>
          content[wgen[w]] = {wgen[w]}
    /\ w \in Compactors /\ wpc[w] \in Merged =>
          content[wgen[w]] = UNION {content[f] : f \in replaced[w]}

\* Files of one generation share no update.
Disjoint == \A g \in Gens : \A f, h \in Refs(g) : f # h => content[f] \cap content[h] = {}

ContentInv == Disjoint /\ \A w \in Writers : ContentOf(w)

\* What publications rest on, on top of the invariant of the store.
ComposeInv == BaseInv /\ ContentInv

\* The file of a stage is referenced by no directory and stands in no merge.
LEMMA OwnFileUnread ==
    ASSUME GenInv, BaseInv, NEW w \in Writers, wpc[w] \in Staged
    PROVE  /\ wgen[w] \in Gens
           /\ \A g \in Gens : wgen[w] \notin Refs(g)
           /\ \A v \in Writers : wpc[v] \in Merged => wgen[w] \notin replaced[v]
  <1>1. wgen[w] \in Gens
    BY WriterGen DEF GenInv, Staged
  <1>2. \A g \in Gens : wgen[w] \notin Refs(g)
    BY <1>1 DEF BaseInv, BaseOf, Unpublished
  <1>3. wgen[w] \notin Inherited
    BY <1>2, Ranges DEF Inherited, GenInv
  <1>4. ASSUME NEW v \in Writers, wpc[v] \in Merged PROVE wgen[w] \notin replaced[v]
    <2>1. CASE wpc[v] = "flip"
      BY <2>1, <1>3 DEF BaseInv, BaseOf
    <2>2. CASE wpc[v] # "flip"
      <3>1. wgen[v] \in Gens
        BY <1>4, WriterGen DEF GenInv, Merged
      <3> QED
        BY <1>2, <1>4, <2>2, <3>1 DEF BaseInv, BaseOf
    <2> QED
      BY <2>1, <2>2
  <1> QED
    BY <1>1, <1>2, <1>4

\* What the removal of a directory does to the references: those of the live stages and
\* of CURRENT stay.
LEMMA RemovalRefs ==
    ASSUME GenInv, NEW w \in Writers, RemoveDir(w) \/ DropDone(w)
    PROVE  /\ current' = current /\ content' = content
           /\ \A g \in Gens : Refs(g)' \subseteq Refs(g)
           /\ Inherited' = Inherited
           /\ \A v \in Writers :
                 \/ /\ wpc'[v] = wpc[v] /\ wgen'[v] = wgen[v] /\ base'[v] = base[v]
                    /\ replaced'[v] = replaced[v]
                    /\ wgen[v] \in Gens => Refs(wgen[v])' = Refs(wgen[v])
                 \/ wpc'[v] = "idle"
  <1> USE DEF GenInv
  <1>1. target[w] \in Gens /\ target[w] # 0
    BY Ranges DEF RemoveDir, DropDone
  <1>2. /\ \A g \in Gens : g # target[w] => dirs'[g] = dirs[g]
        /\ dirs'[target[w]] = NoDir
        /\ current' = current /\ content' = content
    BY <1>1 DEF RemoveDir, DropDone, TypeOK
  <1>3. \A g \in Gens : Refs(g)' \subseteq Refs(g)
    BY <1>2 DEF Refs, NoDir
  <1>4. current # target[w]
    BY <1>1 DEF RemoveDir, DropDone, StageInv, TargetInv, Unpublished
  <1>5. Inherited' = Inherited
    BY <1>2, <1>4, Ranges DEF Inherited, Refs
  <1>6. ASSUME NEW v \in Writers, wpc'[v] # "idle"
        PROVE  /\ wpc'[v] = wpc[v] /\ wgen'[v] = wgen[v] /\ base'[v] = base[v]
               /\ replaced'[v] = replaced[v] /\ wgen[v] # target[w]
    <2>1. CASE RemoveDir(w)
      BY <2>1 DEF RemoveDir, TargetInv
    <2>2. CASE DropDone(w)
      BY <1>1, <1>6, <2>2 DEF DropDone, Forget, Go, TypeOK, TargetInv, NameInv
    <2> QED
      BY <2>1, <2>2
  <1> QED
    BY <1>2, <1>3, <1>5, <1>6 DEF Refs

\* A removed directory takes no reference away from a stage or from CURRENT.
LEMMA RemovalComposes ==
    ASSUME GenInv, ComposeInv, NEW w \in Writers, RemoveDir(w) \/ DropDone(w)
    PROVE  ComposeInv'
  <1> USE DEF ComposeInv
  <1>1. ASSUME NEW v \in Writers PROVE BaseOf(v)' /\ ContentOf(v)'
    <2>1. CASE wpc'[v] = "idle"
      BY <2>1 DEF BaseOf, ContentOf, Decided, Merged, Unpublished, Staged
    <2>2. CASE wpc'[v] # "idle"
      <3>1. /\ wpc'[v] = wpc[v] /\ wgen'[v] = wgen[v] /\ base'[v] = base[v]
            /\ replaced'[v] = replaced[v] /\ current' = current /\ Inherited' = Inherited
            /\ \A g \in Gens : Refs(g)' \subseteq Refs(g)
            /\ content' = content
            /\ wgen[v] \in Gens => Refs(wgen[v])' = Refs(wgen[v])
        BY <2>2, RemovalRefs
      <3>2. wpc[v] \in Unpublished \cup Merged \cup Staged => wgen[v] \in Gens
        BY WriterGen DEF Unpublished, Merged, Staged, GenInv
      <3>3. Decided(v)' = Decided(v)
        BY <3>1 DEF Decided
      <3>4. BaseOf(v)'
        BY <3>1, <3>2, <3>3 DEF BaseInv, BaseOf, Refs, Merged
      <3>5. ContentOf(v)'
        BY <3>1 DEF ContentInv, ContentOf
      <3> QED
        BY <3>4, <3>5
    <2> QED
      BY <2>1, <2>2
  <1>2. Disjoint'
    BY RemovalRefs DEF ContentInv, Disjoint
  <1> QED
    BY <1>1, <1>2 DEF BaseInv, ContentInv

\* A new stage has CURRENT as its base and CURRENT's references as its own, and its
\* number is in no file and no manifest yet.
LEMMA StageComposes ==
    ASSUME GenInv, ComposeInv, NEW w \in Writers, Stage(w) \/ StageCrash(w)
    PROVE  ComposeInv'
  <1> USE DEF GenInv, ComposeInv
  <1>1. PICK n \in Gens : n = named + 1
    BY GenerationsAssumption DEF Stage, StageCrash, TypeOK, Gens
  <1>2. PICK left \in SUBSET Entries :
           dirs' = [dirs EXCEPT ![n] = [kind |-> "staging", entries |-> left, refs |-> Inherited]]
    BY <1>1 DEF Stage, StageCrash, Entries
  <1>3. UNCHANGED <<current, content, replaced>> /\ named \in Nat
    BY DEF Stage, StageCrash, TypeOK
  <1>4. \A g \in Gens : g # n => Refs(g)' = Refs(g)
    BY <1>2 DEF TypeOK, Refs
  <1>5. Refs(n)' = Inherited
    BY <1>2 DEF TypeOK, Refs
  <1>6. /\ \A g \in Gens : n \notin Refs(g) /\ n \notin content[g]
        /\ current # n
    BY <1>1, <1>3, Ranges DEF NameInv, TypeOK
  <1>7. Inherited' = Inherited
    BY <1>3, <1>4, <1>6, Ranges DEF Inherited
  <1>8. ASSUME NEW x, \A g \in Gens : g # x => x \notin Refs(g), x # current PROVE x \notin Inherited
    BY <1>8, Ranges DEF Inherited
  <1>9. ASSUME NEW v \in Writers, v # w PROVE BaseOf(v)' /\ ContentOf(v)'
    <2>1. wpc'[v] = wpc[v] /\ wgen'[v] = wgen[v] /\ base'[v] = base[v] /\ replaced'[v] = replaced[v]
      BY <1>9 DEF Stage, StageCrash, Go, TypeOK
    <2>2. wpc[v] \in Unpublished \cup Merged \cup Staged => wgen[v] \in Gens /\ wgen[v] # n
      BY <1>1, <1>3, WriterGen, Ranges DEF Unpublished, Merged, Staged
    <2>3. wpc[v] \in Unpublished => wgen[v] \notin Inherited
      BY <1>8 DEF BaseInv, BaseOf, StageInv
    <2>4. Decided(v)' = Decided(v) /\ current' = current
      BY <1>3, <2>1 DEF Decided
    <2>5. wpc[v] \in Unpublished \cup Merged \cup Staged => Refs(wgen[v])' = Refs(wgen[v])
      BY <1>4, <2>1, <2>2 DEF Refs
    <2>6. wpc[v] \in Unpublished => \A g \in Gens \ {wgen[v]} : wgen[v] \notin Refs(g)'
      BY <1>4, <1>5, <2>3 DEF BaseInv, BaseOf, Refs
    <2>7. BaseOf(v)'
      BY <1>7, <2>1, <2>4, <2>5, <2>6 DEF BaseInv, BaseOf, Refs, Merged
    <2>8. ContentOf(v)'
      BY <1>3, <2>1 DEF ContentInv, ContentOf
    <2> QED
      BY <2>7, <2>8
  <1>10. BaseOf(w)' /\ ContentOf(w)'
    <2>1. CASE StageCrash(w)
      BY <2>1 DEF StageCrash, Go, TypeOK, BaseOf, ContentOf, Decided, Merged, Unpublished, Staged
    <2>2. CASE Stage(w)
      <3>1. /\ wgen'[w] = n /\ base'[w] = current /\ current' = current /\ content' = content
            /\ wpc'[w] = IF w \in Compactors THEN "merge" ELSE "write"
        BY <1>1, <2>2 DEF Stage, Go, TypeOK
      <3>2. \A g \in Gens : n \notin Refs(g)'
        BY <1>4, <1>5, <1>6, Ranges DEF Inherited, Refs
      <3>3. BaseOf(w)'
        <4>1. Refs(wgen[w])' = Inherited'
          BY <1>5, <1>7, <3>1 DEF Refs
        <4>2. n \notin Refs(wgen[w])'
          BY <1>3, <3>1, <3>2 DEF Refs
        <4> QED
          BY <3>1, <3>2, <4>1, <4>2 DEF BaseOf, Decided, Merged
      <3>4. ContentOf(w)'
        BY <1>6, <3>1, GenerationsAssumption DEF ContentOf, Merged
      <3> QED
        BY <3>3, <3>4
    <2> QED
      BY <2>1, <2>2
  <1>11. Disjoint'
    <2>1. \A f, h \in Inherited : f # h => content[f] \cap content[h] = {}
      BY Ranges DEF Inherited, ContentInv, Disjoint
    <2> QED
      BY <1>3, <1>4, <1>5, <2>1 DEF ContentInv, Disjoint, Refs
  <1> QED
    BY <1>9, <1>10, <1>11 DEF BaseInv, ContentInv

\* A file that is written belongs to one stage: nobody refers to it yet.
LEMMA WriteComposes ==
    ASSUME GenInv, ComposeInv, NEW w \in Writers, Write(w)
    PROVE  ComposeInv'
  <1> USE DEF GenInv, ComposeInv
  <1>1. wpc[w] \in Staged /\ wpc[w] = "write" /\ w \in Refreshers /\ w \notin Compactors
    BY GenerationsAssumption DEF Write, Staged, LockInv, Writers
  <1>2. /\ wgen[w] \in Gens
        /\ \A g \in Gens : wgen[w] \notin Refs(g)
        /\ \A v \in Writers : wpc[v] \in Merged => wgen[w] \notin replaced[v]
    BY <1>1, OwnFileUnread
  <1>3. /\ content'[wgen[w]] = {wgen[w]}
        /\ \A f \in Gens : f # wgen[w] => content'[f] = content[f]
        /\ UNCHANGED <<current, dirs, wgen, base>>
        /\ wpc'[w] = "publish" /\ replaced'[w] \subseteq Refs(wgen[w])
        /\ \A v \in Writers : v # w => wpc'[v] = wpc[v] /\ replaced'[v] = replaced[v]
    BY <1>2 DEF Write, Go, TypeOK
  <1>4. Inherited' = Inherited /\ \A g : Refs(g)' = Refs(g)
    BY <1>3 DEF Inherited, Refs
  <1>5. ASSUME NEW v \in Writers PROVE BaseOf(v)'
    <2>1. CASE v = w
      BY <1>1, <1>3, <2>1 DEF BaseInv, BaseOf, Decided, Merged, Refs, Inherited, Staged, Unpublished
    <2>2. CASE v # w
      BY <1>3, <2>2 DEF BaseInv, BaseOf, Decided, Refs, Inherited
    <2> QED
      BY <2>1, <2>2
  <1>6. ASSUME NEW v \in Writers PROVE ContentOf(v)'
    <2>1. CASE v = w
      BY <1>1, <1>3, <2>1 DEF ContentInv, ContentOf, Unpublished
    <2>2. CASE v # w
      <3>1. wpc[v] \in Unpublished \cup Merged => wgen[v] \in Gens /\ wgen[v] # wgen[w]
        BY <1>2, <2>2, WriterGen DEF NameInv, Unpublished, Merged, Staged, Gens
      <3>2. wpc[v] \in Merged =>
               UNION {content'[f] : f \in replaced[v]} = UNION {content[f] : f \in replaced[v]}
        <4>1. wpc[v] \in Merged => \A f \in replaced[v] : content'[f] = content[f]
          BY <1>2, <1>3 DEF TypeOK
        <4> QED
          BY <4>1
      <3> QED
        BY <1>3, <2>2, <3>1, <3>2 DEF ContentInv, ContentOf, Merged, Unpublished
    <2> QED
      BY <2>1, <2>2
  <1>7. Disjoint'
    BY <1>2, <1>3, Ranges DEF ContentInv, Disjoint, Refs
  <1> QED
    BY <1>5, <1>6, <1>7 DEF BaseInv, ContentInv

\* A merge holds the updates of the files it stands for, and its own file is none of them.
LEMMA MergeComposes ==
    ASSUME GenInv, ComposeInv, NEW w \in Writers, Merge(w)
    PROVE  ComposeInv'
  <1> USE DEF GenInv, ComposeInv
  <1>1. wpc[w] \in Staged /\ wpc[w] = "merge" /\ w \in Compactors /\ w \notin Refreshers
    BY GenerationsAssumption DEF Merge, Staged, LockInv, Writers
  <1>2. /\ wgen[w] \in Gens
        /\ \A g \in Gens : wgen[w] \notin Refs(g)
        /\ \A v \in Writers : wpc[v] \in Merged => wgen[w] \notin replaced[v]
    BY <1>1, OwnFileUnread
  <1>3. PICK some \in SUBSET Refs(wgen[w]) :
           \/ /\ replaced' = [replaced EXCEPT ![w] = some]
              /\ content' = [content EXCEPT ![wgen[w]] = UNION {content[f] : f \in some}]
              /\ Go(w, "reacquire")
           \/ Go(w, "drop") /\ UNCHANGED <<replaced, content>>
    BY DEF Merge
  <1>4. /\ \A f \in Gens : f # wgen[w] => content'[f] = content[f]
        /\ UNCHANGED <<current, dirs, wgen, base>>
        /\ wpc'[w] \in {"reacquire", "drop"}
        /\ wpc'[w] = "reacquire" =>
              /\ replaced'[w] = some
              /\ content'[wgen[w]] = UNION {content[f] : f \in some}
        /\ \A v \in Writers : v # w => wpc'[v] = wpc[v] /\ replaced'[v] = replaced[v]
        /\ content'[wgen[w]] \in {content[wgen[w]], UNION {content[f] : f \in some}}
    BY <1>2, <1>3 DEF Merge, Go, TypeOK
  <1>5. ASSUME NEW v \in Writers PROVE BaseOf(v)'
    <2>1. CASE v = w
      BY <1>1, <1>4, <2>1 DEF BaseInv, BaseOf, Decided, Merged, Refs, Inherited, Staged, Unpublished
    <2>2. CASE v # w
      BY <1>4, <2>2 DEF BaseInv, BaseOf, Decided, Refs, Inherited
    <2> QED
      BY <2>1, <2>2
  <1>6. \A f \in some : content'[f] = content[f] /\ f \in Gens
    BY <1>2, <1>4, Ranges
  <1>7. ASSUME NEW v \in Writers PROVE ContentOf(v)'
    <2>1. CASE v = w
      <3>1. UNION {content'[f] : f \in some} = UNION {content[f] : f \in some}
        BY <1>6
      <3> QED
        BY <1>1, <1>4, <2>1, <3>1 DEF ContentOf, Merged
    <2>2. CASE v # w
      <3>1. wpc[v] \in Unpublished \cup Merged => wgen[v] \in Gens /\ wgen[v] # wgen[w]
        BY <1>2, <2>2, WriterGen DEF NameInv, Unpublished, Merged, Staged, Gens
      <3>2. wpc[v] \in Merged =>
               UNION {content'[f] : f \in replaced[v]} = UNION {content[f] : f \in replaced[v]}
        <4>1. wpc[v] \in Merged => \A f \in replaced[v] : content'[f] = content[f]
          BY <1>2, <1>4 DEF TypeOK
        <4> QED
          BY <4>1
      <3>3. ASSUME v \in Refreshers, wpc[v] \in Unpublished, NEW h \in Gens \ {wgen[v]}
            PROVE  wgen[v] \notin content'[h]
        <4>1. wgen[v] \notin content[h]
          BY <3>3 DEF ContentInv, ContentOf
        <4>2. \A f \in some : f # wgen[v]
          BY <1>2, <3>1, <3>3 DEF BaseInv, BaseOf
        <4>3. wgen[v] \notin UNION {content[f] : f \in some}
          BY <1>6, <3>3, <4>2 DEF ContentInv, ContentOf
        <4> QED
          BY <1>4, <4>1, <4>3
      <3> QED
        BY <1>4, <2>2, <3>1, <3>2, <3>3 DEF ContentInv, ContentOf, Merged, Unpublished
    <2> QED
      BY <2>1, <2>2
  <1>8. Disjoint'
    BY <1>2, <1>4, Ranges DEF ContentInv, Disjoint, Refs
  <1> QED
    BY <1>5, <1>7, <1>8 DEF BaseInv, ContentInv

\* The merge goes on only when CURRENT still names the base it started from.
LEMMA ReacquireComposes ==
    ASSUME GenInv, ComposeInv, NEW w \in Writers, Reacquire(w)
    PROVE  ComposeInv'
  <1> USE DEF GenInv, ComposeInv
  <1>1. w \in Compactors /\ w \notin Refreshers /\ wpc[w] = "reacquire"
    BY GenerationsAssumption DEF Reacquire, LockInv, Writers
  <1>2. /\ UNCHANGED <<current, dirs, content, wgen, base, replaced>>
        /\ \/ wpc'[w] = "publish" /\ current = base[w]
           \/ wpc'[w] = "drop"
        /\ \A v \in Writers : v # w => wpc'[v] = wpc[v]
    <2>1. /\ UNCHANGED <<current, dirs, content, wgen, base, replaced>>
          /\ \/ Go(w, "publish") /\ Unmoved(w)
             \/ Go(w, "drop")
      BY DEF Reacquire, disk
    <2> QED
      BY <2>1 DEF Unmoved, Go, TypeOK
  <1>3. ASSUME NEW v \in Writers PROVE BaseOf(v)' /\ ContentOf(v)'
    <2>1. CASE v = w
      BY <1>1, <1>2, <2>1 DEF BaseInv, BaseOf, ContentInv, ContentOf, Decided, Merged, Refs,
         Inherited, Staged, Unpublished
    <2>2. CASE v # w
      BY <1>2, <2>2 DEF BaseInv, BaseOf, ContentInv, ContentOf, Decided, Refs, Inherited
    <2> QED
      BY <2>1, <2>2
  <1>4. Disjoint'
    BY <1>2 DEF ContentInv, Disjoint, Refs
  <1> QED
    BY <1>3, <1>4 DEF BaseInv, ContentInv

\* What the sealed generation refers to shares no update: its own file is new, or holds
\* what it stands for.
LEMMA SealComposes ==
    ASSUME GenInv, ComposeInv, NEW w \in Writers, Seal(w)
    PROVE  ComposeInv'
  <1> USE DEF GenInv, ComposeInv
  <1>1. /\ wpc[w] = "seal" /\ wpc'[w] = "flip"
        /\ UNCHANGED <<current, content, wgen, base, replaced>>
        /\ \A v \in Writers : v # w => wpc'[v] = wpc[v]
    BY DEF Seal, Go, TypeOK
  <1>2. /\ wgen[w] \in Gens
        /\ \A g \in Gens : g # wgen[w] => Refs(g)' = Refs(g)
        /\ dirs'[wgen[w]].refs = (Refs(wgen[w]) \ replaced[w]) \cup {wgen[w]}
    BY SealedDir DEF Refs
  <1>3. /\ replaced[w] \subseteq Refs(wgen[w]) /\ Refs(wgen[w]) = Inherited
        /\ wgen[w] # current
        /\ \A g \in Gens : wgen[w] \notin Refs(g)
    BY <1>1, <1>2 DEF BaseInv, BaseOf, Decided, Staged, Merged, Unpublished, StageInv
  <1>4. Inherited' = Inherited
    BY <1>1, <1>2, <1>3, Ranges DEF Inherited
  <1>5. ASSUME NEW v \in Writers PROVE BaseOf(v)'
    <2>1. CASE v = w
      BY <1>1, <1>2, <1>3, <1>4, <2>1 DEF BaseInv, BaseOf, Decided, Staged, Merged, Unpublished, Refs
    <2>2. CASE v # w
      <3>1. wpc[v] \in Unpublished \cup Merged \cup Staged => wgen[v] \in Gens /\ wgen[v] # wgen[w]
        BY <1>2, <2>2, WriterGen DEF NameInv, Unpublished, Merged, Staged, Gens
      <3>2. wpc[v] \in Unpublished => \A g \in Gens \ {wgen[v]} : wgen[v] \notin Refs(g)'
        BY <1>2, <3>1 DEF BaseInv, BaseOf, Refs
      <3>3. Decided(v)' = Decided(v)
        BY <1>1, <2>2 DEF Decided
      <3> QED
        BY <1>1, <1>2, <1>4, <2>2, <3>1, <3>2, <3>3 DEF BaseInv, BaseOf, Refs, Merged
    <2> QED
      BY <2>1, <2>2
  <1>6. ASSUME NEW v \in Writers PROVE ContentOf(v)'
    BY <1>1 DEF ContentInv, ContentOf, Unpublished, Staged, Merged
  <1>7. Disjoint'
    <2>1. \A f \in Refs(wgen[w]) \ replaced[w] : content[f] \cap content[wgen[w]] = {}
      <3> SUFFICES ASSUME NEW f \in Refs(wgen[w]) \ replaced[w]
                   PROVE  content[f] \cap content[wgen[w]] = {}
        OBVIOUS
      <3>1. f \in Gens /\ f # wgen[w]
        BY <1>2, <1>3, Ranges
      <3>2. CASE w \in Refreshers
        <4>1. content[wgen[w]] = {wgen[w]} /\ wgen[w] \notin content[f]
          BY <1>1, <3>1, <3>2 DEF ContentInv, ContentOf, Unpublished, Staged
        <4> QED
          BY <4>1
      <3>3. CASE w \in Compactors
        <4>1. content[wgen[w]] = UNION {content[h] : h \in replaced[w]}
          BY <1>1, <3>3 DEF ContentInv, ContentOf, Merged
        <4>2. \A h \in replaced[w] : content[f] \cap content[h] = {}
          BY <1>2, <1>3 DEF ContentInv, Disjoint
        <4> QED
          BY <4>1, <4>2
      <3> QED
        BY <3>2, <3>3 DEF Writers
    <2>2. \A f, h \in dirs'[wgen[w]].refs : f # h => content[f] \cap content[h] = {}
      BY <1>2, <2>1 DEF ContentInv, Disjoint
    <2> QED
      BY <1>1, <1>2, <2>2 DEF ContentInv, Disjoint, Refs
  <1> QED
    BY <1>5, <1>6, <1>7 DEF BaseInv, ContentInv

-----------------------------------------------------------------------------
\* The first state composes: nobody staged anything.
LEMMA ComposeInit == Init => ComposeInv
  BY DEF Init, ComposeInv, BaseInv, BaseOf, ContentInv, ContentOf, Disjoint, Decided, Merged,
     Unpublished, Staged, Refs, NoDir, Gens

\* Every step keeps it.
LEMMA ComposeNext == GenInv /\ ComposeInv /\ [Next]_vars => ComposeInv'
  <1> SUFFICES ASSUME GenInv, ComposeInv, [Next]_vars PROVE ComposeInv'
    OBVIOUS
  <1>1. ASSUME NEW w \in Writers, Staging(w) PROVE ComposeInv'
    <2> USE DEF GenInv, ComposeInv, disk, locks, writer, reader
    <2>1. CASE AcquireLease(w)
      <3>1. BaseInv'
        BY <2>1, GenerationsAssumption DEF AcquireLease, Go, BaseInv, BaseOf, Decided,
           Merged, Staged, Unpublished, TypeOK, Refs, Inherited, LockInv, Leading,
           Guarding, NameInv, StageInv
      <3>2. ContentInv'
        BY <2>1 DEF AcquireLease, Go, ContentInv, ContentOf, Disjoint, Merged,
           Unpublished, Staged, TypeOK, Refs
      <3> QED
        BY <3>1, <3>2
    <2>2. CASE WriteFail(w)
      <3>1. BaseInv'
        BY <2>2, GenerationsAssumption DEF WriteFail, Go, BaseInv, BaseOf, Decided,
           Merged, Staged, Unpublished, TypeOK, Refs, Inherited, LockInv, Leading,
           Guarding, NameInv, StageInv
      <3>2. ContentInv'
        BY <2>2 DEF WriteFail, Go, ContentInv, ContentOf, Disjoint, Merged, Unpublished,
           Staged, TypeOK, Refs
      <3> QED
        BY <3>1, <3>2
    <2>3. CASE ReacquireTimeout(w)
      <3>1. BaseInv'
        BY <2>3, GenerationsAssumption DEF ReacquireTimeout, Go, BaseInv, BaseOf,
           Decided, Merged, Staged, Unpublished, TypeOK, Refs, Inherited, LockInv,
           Leading, Guarding, NameInv, StageInv
      <3>2. ContentInv'
        BY <2>3 DEF ReacquireTimeout, Go, ContentInv, ContentOf, Disjoint, Merged,
           Unpublished, Staged, TypeOK, Refs
      <3> QED
        BY <3>1, <3>2
    <2> QED
      BY <1>1, <2>1, <2>2, <2>3, StageComposes, WriteComposes, MergeComposes,
         ReacquireComposes DEF Staging
  <1>2. ASSUME NEW w \in Writers, Publishing(w) PROVE ComposeInv'
    <2> USE DEF GenInv, ComposeInv, disk, locks, writer, reader
    <2>1. CASE Adopt(w)
      <3>1. BaseInv'
        BY <2>1, GenerationsAssumption DEF Adopt, Go, BaseInv, BaseOf, Decided, Merged,
           Staged, Unpublished, TypeOK, Refs, Inherited, LockInv, Leading, Guarding,
           NameInv, StageInv
      <3>2. ContentInv'
        BY <2>1 DEF Adopt, Go, ContentInv, ContentOf, Disjoint, Merged, Unpublished,
           Staged, TypeOK, Refs
      <3> QED
        BY <3>1, <3>2
    <2>2. CASE Flip(w)
      <3>1. BaseInv'
        BY <2>2, GenerationsAssumption DEF Flip, Go, BaseInv, BaseOf, Decided, Merged,
           Staged, Unpublished, TypeOK, Refs, Inherited, LockInv, Leading, Guarding,
           NameInv, StageInv
      <3>2. ContentInv'
        BY <2>2 DEF Flip, Go, ContentInv, ContentOf, Disjoint, Merged, Unpublished,
           Staged, TypeOK, Refs
      <3> QED
        BY <3>1, <3>2
    <2>3. CASE Prune(w)
      <3>1. BaseInv'
        BY <2>3, GenerationsAssumption DEF Prune, Go, BaseInv, BaseOf, Decided, Merged,
           Staged, Unpublished, TypeOK, Refs, Inherited, LockInv, Leading, Guarding,
           NameInv, StageInv
      <3>2. ContentInv'
        BY <2>3 DEF Prune, Go, ContentInv, ContentOf, Disjoint, Merged, Unpublished,
           Staged, TypeOK, Refs
      <3> QED
        BY <3>1, <3>2
    <2>4. CASE Unlink(w)
      <3>1. BaseInv'
        BY <2>4, GenerationsAssumption DEF Unlink, Go, BaseInv, BaseOf, Decided, Merged,
           Staged, Unpublished, TypeOK, Refs, Inherited, LockInv, Leading, Guarding,
           NameInv, StageInv
      <3>2. ContentInv'
        BY <2>4 DEF Unlink, Go, ContentInv, ContentOf, Disjoint, Merged, Unpublished,
           Staged, TypeOK, Refs
      <3> QED
        BY <3>1, <3>2
    <2>5. CASE Collect(w)
      <3>1. BaseInv'
        BY <2>5, GenerationsAssumption DEF Collect, Go, BaseInv, BaseOf, Decided, Merged,
           Staged, Unpublished, TypeOK, Refs, Inherited, LockInv, Leading, Guarding,
           NameInv, StageInv
      <3>2. ContentInv'
        BY <2>5 DEF Collect, Go, ContentInv, ContentOf, Disjoint, Merged, Unpublished,
           Staged, TypeOK, Refs
      <3> QED
        BY <3>1, <3>2
    <2>6. CASE CollectRead(w)
      <3>1. BaseInv'
        BY <2>6, GenerationsAssumption DEF CollectRead, Go, BaseInv, BaseOf, Decided,
           Merged, Staged, Unpublished, TypeOK, Refs, Inherited, LockInv, Leading,
           Guarding, NameInv, StageInv
      <3>2. ContentInv'
        BY <2>6 DEF CollectRead, Go, ContentInv, ContentOf, Disjoint, Merged,
           Unpublished, Staged, TypeOK, Refs
      <3> QED
        BY <3>1, <3>2
    <2>7. CASE CollectFail(w)
      <3>1. BaseInv'
        BY <2>7, GenerationsAssumption DEF CollectFail, Go, BaseInv, BaseOf, Decided,
           Merged, Staged, Unpublished, TypeOK, Refs, Inherited, LockInv, Leading,
           Guarding, NameInv, StageInv
      <3>2. ContentInv'
        BY <2>7 DEF CollectFail, Go, ContentInv, ContentOf, Disjoint, Merged,
           Unpublished, Staged, TypeOK, Refs
      <3> QED
        BY <3>1, <3>2
    <2>8. CASE CollectDone(w)
      <3>1. BaseInv'
        BY <2>8, GenerationsAssumption DEF CollectDone, Go, BaseInv, BaseOf, Decided,
           Merged, Staged, Unpublished, TypeOK, Refs, Inherited, LockInv, Leading,
           Guarding, NameInv, StageInv
      <3>2. ContentInv'
        BY <2>8 DEF CollectDone, Go, ContentInv, ContentOf, Disjoint, Merged,
           Unpublished, Staged, TypeOK, Refs
      <3> QED
        BY <3>1, <3>2
    <2> QED
      BY <1>2, <2>1, <2>2, <2>3, <2>4, <2>5, <2>6, <2>7, <2>8, SealComposes,
         RemovalComposes DEF Publishing
  <1>3. ASSUME NEW w \in Writers, Ending(w) PROVE ComposeInv'
    <2> USE DEF GenInv, ComposeInv, disk, locks, writer, reader
    <2>1. CASE Finish(w)
      <3>1. BaseInv'
        BY <2>1, GenerationsAssumption DEF Finish, Go, Forget, BaseInv, BaseOf, Decided,
           Merged, Staged, Unpublished, TypeOK, Refs, Inherited, LockInv, Leading,
           Guarding, NameInv, StageInv
      <3>2. ContentInv'
        BY <2>1 DEF Finish, Go, Forget, ContentInv, ContentOf, Disjoint, Merged,
           Unpublished, Staged, TypeOK, Refs
      <3> QED
        BY <3>1, <3>2
    <2>2. CASE Drop(w)
      <3>1. BaseInv'
        BY <2>2, GenerationsAssumption DEF Drop, Go, BaseInv, BaseOf, Decided, Merged,
           Staged, Unpublished, TypeOK, Refs, Inherited, LockInv, Leading, Guarding,
           NameInv, StageInv
      <3>2. ContentInv'
        BY <2>2 DEF Drop, Go, ContentInv, ContentOf, Disjoint, Merged, Unpublished,
           Staged, TypeOK, Refs
      <3> QED
        BY <3>1, <3>2
    <2>3. CASE Crash(w)
      <3>1. BaseInv'
        BY <2>3, GenerationsAssumption DEF Crash, Go, Forget, BaseInv, BaseOf, Decided,
           Merged, Staged, Unpublished, TypeOK, Refs, Inherited, LockInv, Leading,
           Guarding, NameInv, StageInv
      <3>2. ContentInv'
        BY <2>3 DEF Crash, Go, Forget, ContentInv, ContentOf, Disjoint, Merged,
           Unpublished, Staged, TypeOK, Refs
      <3> QED
        BY <3>1, <3>2
    <2> QED
      BY <1>3, <2>1, <2>2, <2>3, RemovalComposes DEF Ending
  <1>4. ASSUME NEW r \in Readers, Reading(r) PROVE ComposeInv'
    <2> USE DEF GenInv, ComposeInv, disk, locks, writer, reader
    <2>1. CASE Resolve(r)
      <3>1. BaseInv'
        BY <2>1, GenerationsAssumption DEF Resolve, Go, BaseInv, BaseOf, Decided, Merged,
           Staged, Unpublished, TypeOK, Refs, Inherited, LockInv, Leading, Guarding,
           NameInv, StageInv
      <3>2. ContentInv'
        BY <2>1 DEF Resolve, Go, ContentInv, ContentOf, Disjoint, Merged, Unpublished,
           Staged, TypeOK, Refs
      <3> QED
        BY <3>1, <3>2
    <2>2. CASE Lease(r)
      <3>1. BaseInv'
        BY <2>2, GenerationsAssumption DEF Lease, Go, BaseInv, BaseOf, Decided, Merged,
           Staged, Unpublished, TypeOK, Refs, Inherited, LockInv, Leading, Guarding,
           NameInv, StageInv
      <3>2. ContentInv'
        BY <2>2 DEF Lease, Go, ContentInv, ContentOf, Disjoint, Merged, Unpublished,
           Staged, TypeOK, Refs
      <3> QED
        BY <3>1, <3>2
    <2>3. CASE Open(r)
      <3>1. BaseInv'
        BY <2>3, GenerationsAssumption DEF Open, Go, BaseInv, BaseOf, Decided, Merged,
           Staged, Unpublished, TypeOK, Refs, Inherited, LockInv, Leading, Guarding,
           NameInv, StageInv
      <3>2. ContentInv'
        BY <2>3 DEF Open, Go, ContentInv, ContentOf, Disjoint, Merged, Unpublished,
           Staged, TypeOK, Refs
      <3> QED
        BY <3>1, <3>2
    <2>4. CASE OpenFail(r)
      <3>1. BaseInv'
        BY <2>4, GenerationsAssumption DEF OpenFail, Go, BaseInv, BaseOf, Decided,
           Merged, Staged, Unpublished, TypeOK, Refs, Inherited, LockInv, Leading,
           Guarding, NameInv, StageInv
      <3>2. ContentInv'
        BY <2>4 DEF OpenFail, Go, ContentInv, ContentOf, Disjoint, Merged, Unpublished,
           Staged, TypeOK, Refs
      <3> QED
        BY <3>1, <3>2
    <2>5. CASE Close(r)
      <3>1. BaseInv'
        BY <2>5, GenerationsAssumption DEF Close, Go, BaseInv, BaseOf, Decided, Merged,
           Staged, Unpublished, TypeOK, Refs, Inherited, LockInv, Leading, Guarding,
           NameInv, StageInv
      <3>2. ContentInv'
        BY <2>5 DEF Close, Go, ContentInv, ContentOf, Disjoint, Merged, Unpublished,
           Staged, TypeOK, Refs
      <3> QED
        BY <3>1, <3>2
    <2> QED
      BY <1>4, <2>1, <2>2, <2>3, <2>4, <2>5 DEF Reading
  <1>5. ASSUME UNCHANGED vars PROVE ComposeInv'
    BY <1>5 DEF vars, disk, locks, writer, reader, ComposeInv, BaseInv, BaseOf, ContentInv,
       ContentOf, Disjoint, Decided, Refs, Inherited
  <1> QED
    BY <1>1, <1>2, <1>3, <1>4, <1>5 DEF Next

\* What publications rest on holds in every state.
LEMMA ComposeAlways == Spec => []ComposeInv
  BY ComposeInit, ComposeNext, GenAlways, PTL DEF Spec

\* The updates a set of files records.
UpdatesOf(files) == UNION {content[f] : f \in files}

\* An update is recorded when one of the files records it.
LEMMA UpdatesMember ==
    ASSUME NEW files, NEW u
    PROVE  u \in UpdatesOf(files) <=> \E f \in files : u \in content[f]
  BY DEF UpdatesOf

\* Of pairwise disjoint files those kept record what all record less what those left out do.
LEMMA UpdatesLess ==
    ASSUME NEW S, NEW X \in SUBSET S,
           \A f, h \in S : f # h => content[f] \cap content[h] = {}
    PROVE  UpdatesOf(S \ X) = UpdatesOf(S) \ UpdatesOf(X)
  <1>1. ASSUME NEW u
        PROVE  u \in UpdatesOf(S \ X) <=> u \in UpdatesOf(S) /\ u \notin UpdatesOf(X)
    <2>1. (\E f \in S \ X : u \in content[f])
             <=> (\E f \in S : u \in content[f]) /\ ~(\E f \in X : u \in content[f])
      OBVIOUS
    <2> QED
      BY <2>1, UpdatesMember
  <1> QED
    BY <1>1

\* One more file adds what it records.
LEMMA UpdatesPlus ==
    ASSUME NEW S, NEW g
    PROVE  UpdatesOf(S \cup {g}) = UpdatesOf(S) \cup content[g]
  <1>1. ASSUME NEW u
        PROVE  u \in UpdatesOf(S \cup {g}) <=> u \in UpdatesOf(S) \/ u \in content[g]
    BY UpdatesMember
  <1> QED
    BY <1>1

\* CURRENT moves only by a Flip, which is by a writer whose base it still is.
LEMMA FlipComposes ==
    ASSUME GenInv, ComposeInv, NEW w \in Writers, Flip(w)
    PROVE  /\ wgen[w] = current'
           /\ Updates(current)' =
                 IF w \in Compactors THEN Updates(current)
                 ELSE (Updates(current) \ UNION {content[f] : f \in replaced[w]})
                      \cup {current'}
  <1> USE DEF GenInv, ComposeInv
  <1>1. /\ wpc[w] = "flip" /\ current' = wgen[w] /\ dirs' = dirs /\ content' = content
        /\ wgen[w] \in Gens /\ wgen[w] # 0
    BY WriterGen, GenerationsAssumption DEF Flip, Gens
  <1> DEFINE old == Inherited
             X == replaced[w]
  <1>2. X \subseteq old /\ Refs(wgen[w]) = (old \ X) \cup {wgen[w]}
    BY <1>1 DEF BaseInv, BaseOf
  <1>3. Updates(current) = UpdatesOf(old)
    BY DEF Updates, UpdatesOf, Inherited
  <1>4. Updates(current)' = UpdatesOf((old \ X) \cup {wgen[w]})
    <2>1. Updates(current)' = UpdatesOf(Refs(wgen[w]))
      BY <1>1 DEF Updates, UpdatesOf, Refs
    <2> QED
      BY <1>2, <2>1
  <1>5. \A f, h \in old : f # h => content[f] \cap content[h] = {}
    BY Ranges DEF Inherited, ContentInv, Disjoint
  <1>6. UNION {content[f] : f \in replaced[w]} = UpdatesOf(X)
    BY DEF UpdatesOf
  <1> HIDE DEF old, X
  <1>7. Updates(current)' = (Updates(current) \ UpdatesOf(X)) \cup content[wgen[w]]
    <2>1. UpdatesOf(old \ X) = UpdatesOf(old) \ UpdatesOf(X)
      BY <1>2, <1>5, UpdatesLess
    <2>2. UpdatesOf((old \ X) \cup {wgen[w]}) = UpdatesOf(old \ X) \cup content[wgen[w]]
      BY UpdatesPlus
    <2> QED
      BY <1>3, <1>4, <2>1, <2>2
  <1>8. CASE w \in Compactors
    <2>1. content[wgen[w]] = UpdatesOf(X)
      BY <1>1, <1>6, <1>8 DEF ContentInv, ContentOf, Merged
    <2>2. UpdatesOf(X) \subseteq UpdatesOf(old)
      BY <1>2, UpdatesMember
    <2> QED
      BY <1>1, <1>3, <1>7, <1>8, <2>1, <2>2
  <1>9. CASE w \notin Compactors
    <2>1. content[wgen[w]] = {wgen[w]}
      BY <1>1, <1>9 DEF ContentInv, ContentOf, Writers
    <2> QED
      BY <1>1, <1>6, <1>7, <1>9, <2>1
  <1> QED
    BY <1>8, <1>9

\* Every publication is applied to the latest one: a refresh adds its records to what
\* CURRENT showed less what it replaced, and a compaction, which merged without the
\* lease, loses and resurrects nothing (run_index_compact, publish_generation).
THEOREM PublicationsAlwaysCompose == Spec => PublicationsCompose
  <1> DEFINE Composes ==
        current' # current =>
          \E w \in Writers :
             /\ wgen[w] = current'
             /\ Updates(current)' =
                   IF w \in Compactors THEN Updates(current)
                   ELSE (Updates(current) \ UNION {content[f] : f \in replaced[w]})
                        \cup {current'}
  <1>1. ASSUME NEW w \in Writers, Staging(w) \/ Ending(w) PROVE current' = current
    <2>1. CASE Staging(w)
      BY <2>1 DEF Staging, AcquireLease, Stage, StageCrash, Write, WriteFail, Merge, Reacquire,
         ReacquireTimeout, disk
    <2>2. CASE Ending(w)
      BY <2>2 DEF Ending, Finish, Drop, DropDone, Crash, disk
    <2> QED
      BY <1>1, <2>1, <2>2
  <1>2. ASSUME NEW w \in Writers, Publishing(w) PROVE Flip(w) \/ current' = current
    BY <1>2 DEF Publishing, Adopt, Seal, Prune, Unlink, RemoveDir, Collect, CollectRead,
       CollectFail, CollectDone, disk
  <1>3. ASSUME NEW r \in Readers, Reading(r) PROVE current' = current
    BY <1>3 DEF Reading, Resolve, Lease, Open, OpenFail, Close, disk
  <1>4. GenInv /\ ComposeInv /\ [Next]_vars => [Composes]_vars
    <2> SUFFICES ASSUME GenInv, ComposeInv, Next, current' # current PROVE Composes
      BY DEF vars, disk
    <2>1. PICK w \in Writers : Flip(w)
      BY <1>1, <1>2, <1>3 DEF Next
    <2> QED
      BY <2>1, FlipComposes
  <1> QED
    BY <1>4, GenAlways, ComposeAlways, PTL DEF Spec, PublicationsCompose

=============================================================================
