--------------------------- MODULE DiscoveryProofs ---------------------------
(***************************************************************************)
(* Proofs about the walk and the journal (module Discovery), for any tree  *)
(* of directories, any number of files and processes, and any bounds, as   *)
(* long as a directory is not moved between the file or the stamp found    *)
(* below it and the commit (~LateRenames) and the index is not lost beside its rows     *)
(* (~IndexLoss): with either the properties fail.                          *)
(*                                                                         *)
(*   WalkInvariant         WalkInv, inductive by itself: what a stamp,     *)
(*                         committed or of the walk, vouches for           *)
(*   NothingIsHidden       a directory that will not be read hides nothing *)
(*   JournalAlwaysCovers   below certified directories the events since    *)
(*                         the cursor name whatever is stale; by EventsInv,*)
(*                         which is inductive relative to WalkInv          *)
(*   QuietRefreshIsExact   an undisturbed refresh leaves the rows of what  *)
(*                         is within reach exact and the others alone; by  *)
(*                         QuietInv, inductive relative to WalkInv         *)
(*                                                                         *)
(* And about the tasks of Bob, for any databases, changes and kills:       *)
(*                                                                         *)
(*   TasksAlwaysSurvive    records go only with their task, and rows speak *)
(*                         for records; by BobInv, which is inductive      *)
(*                                                                         *)
(* And about the sessions of OpenCode, for any databases, sessions,        *)
(* changes and kills, as long as a database stays until the first refresh  *)
(* that saw it has ended (~EarlyLoss):                                     *)
(*                                                                         *)
(*   OneHomeHolds          a session has one source and one content; by    *)
(*                         HomeInv, which is inductive                     *)
(***************************************************************************)
EXTENDS MCDiscovery, TLAPS

\* The phases of a refresh.
Phases == {"idle", "walk", "examine", "sweep", "parse"}

\* Every variable of discovery holds what it is for.
WalkTypeOK ==
    /\ version \in [Files -> Nat] /\ away \subseteq Dirs \ {Root}
    /\ stamp \in [Dirs -> Nat \ {0}] /\ log \in Seq(Files \cup Dirs)
    /\ rows \in [Files -> Nat] /\ stamps \in [Dirs -> Nat] /\ cursor \in Nat
    /\ journal \in [Procs -> [next : Nat, usable : BOOLEAN,
                              hints : SUBSET (Files \cup Dirs)]]
    /\ lease \in Procs \cup {NoProc} /\ pc \in Phases
    /\ full \in BOOLEAN /\ clears \in BOOLEAN
    /\ pending \subseteq Dirs /\ captured \in [dir : Dirs, stamp : Nat]
    /\ next_stamps \in [Dirs -> Nat]
    /\ found \subseteq Files /\ tasks \in [Files -> Nat]
    /\ sweep \subseteq Files /\ doubted \subseteq Files /\ dropped \subseteq Files
    /\ next_cursor \in Nat /\ quiet \in BOOLEAN /\ changes \in Nat /\ faults \in Nat

\* Directories the walk still has to read.
Active == pending \cup IF captured # None THEN {captured.dir} ELSE {}

\* What a phase has not touched yet, or has dealt with.
PhaseInv ==
    /\ pc = "idle" <=> lease = NoProc
    /\ pc = "idle" => next_cursor = 0
    /\ pc = "idle" => ~full
    /\ pc \in {"walk", "sweep"} => full
    /\ pc # "walk" => Active = {} /\ captured = None
    /\ pc \in {"idle", "walk"} => tasks = NoRows
    /\ pc # "sweep" => doubted = {}
    /\ \A x, y \in doubted : x = y
    /\ pc \notin {"sweep", "parse"} => dropped = {}
    /\ pc \notin {"walk", "examine"} => found = {}
    /\ ~full => next_stamps = NoStamps /\ dropped = {}
    /\ captured # None => captured.stamp # 0
    /\ ~clears

\* Stamps are of the past.
StampInv ==
    /\ \A a \in Dirs : stamps[a] <= stamp[a] /\ next_stamps[a] <= stamp[a]
    /\ captured.stamp <= stamp[captured.dir]

\* What a stamp of the walk vouches for stays within reach.
ReachInv ==
    \A x \in Files : version[x] # 0 /\ next_stamps[Home[x]] = stamp[Home[x]] =>
        Reachable(Home[x]) /\ (pc = "walk" => x \in found)

\* The stamps that are committed certify the rows and the stamps below.
StampsCertify ==
    \A a \in Dirs : stamps[a] = stamp[a] =>
        /\ \A x \in Files : Home[x] = a /\ version[x] # 0 => rows[x] # 0
        /\ \A c \in Dirs \ {Root} : Parent[c] = a /\ c \notin away => stamps[c] # 0

\* The stamps of the walk certify what it has found and has still to read.
WalkCertifies ==
    \A a \in Dirs : next_stamps[a] = stamp[a] =>
        /\ \A x \in Files : Home[x] = a /\ version[x] # 0 =>
              x \notin doubted \cup dropped /\ (x \in found \/ tasks[x] # 0 \/ rows[x] # 0)
        /\ \A c \in Dirs \ {Root} : Parent[c] = a /\ c \notin away =>
              next_stamps[c] # 0 \/ c \in Active

\* The invariant of the walk.
WalkInv ==
    WalkTypeOK /\ PhaseInv /\ StampInv /\ ReachInv /\ StampsCertify /\ WalkCertifies

\* A walk has found x or has still to read a directory above it.
WalkCovers ==
    pc = "walk" => \A x \in Files : Visible(x) => x \in found \/ Above[Home[x]] \cap Active # {}

\* What has been found is looked at, parsed or as its row says.
FoundCovers ==
    pc # "walk" => \A x \in Files : Visible(x) =>
        x \in found \/ tasks[x] = version[x] \/ rows[x] = version[x]

\* What is parsed is as it was found, and what is given up is gone.
WorkExact ==
    /\ \A x \in Files : tasks[x] # 0 => Visible(x) /\ tasks[x] = version[x]
    /\ \A x \in doubted : ~Visible(x)
    /\ \A x \in dropped : ~Visible(x) /\ Reachable(Home[x])

\* The row of a file that is gone is given up or has still to be checked.
SweepCovers ==
    pc \in {"sweep", "parse"} => \A x \in Files :
        rows[x] # 0 /\ ~Visible(x) /\ Reachable(Home[x]) =>
            x \in dropped \/ (pc = "sweep" /\ x \in sweep \cup doubted)

\* The invariant of a refresh that nothing has disturbed.
QuietInv == quiet => full /\ WalkCovers /\ FoundCovers /\ WorkExact /\ SweepCovers

\* No event from the k-th on is about x.
Quiet(x, k) ==
    \A i \in k..Len(log) : log[i] # x /\ log[i] \notin Above[Home[x]]

\* Every directory above x has a committed stamp.
Certified(x) == \A a \in Above[Home[x]] : stamps[a] # 0

\* Cursors, stored and captured, are of the past; events are numbered from 1.
CursorInv ==
    /\ cursor <= Len(log) + 1
    /\ \A p \in Procs : /\ journal[p].next <= Len(log) + 1
                        /\ journal[p].usable => journal[p].next # 0

\* The events a process has replayed name what is stale and was so then.
HintsInv ==
    \A p \in Procs : journal[p].usable =>
        \A x \in Files :
            Stale(x) /\ Certified(x) /\ Quiet(x, journal[p].next) =>
                x \in journal[p].hints \/ Above[Home[x]] \cap journal[p].hints # {}

\* The refresh has not lost x: where it certifies the directory of x it has still to
\* look at x, parses what x is now, or has its row.
LooksAt(x) ==
    /\ x \notin doubted \cup dropped
    /\ tasks[x] \in {0, version[x]}
    /\ full /\ next_stamps[Home[x]] # 0 =>
          x \in found \/ tasks[x] = version[x] \/ rows[x] = version[x]

\* A refresh that began when k was the number of the next event: it has not lost what
\* is quiet since, a replay that started later has all the events between, and a
\* narrowed refresh parses whatever is stale and quiet since the cursor it stores.
BegunAt(k) ==
    /\ cursor <= k /\ next_cursor <= k /\ k <= Len(log) + 1
    /\ \A x \in Files : Visible(x) /\ Quiet(x, k) => LooksAt(x)
    /\ \A p \in Procs : journal[p].usable /\ k < journal[p].next =>
          \A i \in k..(journal[p].next - 1) : log[i] \in journal[p].hints
    /\ ~full /\ next_cursor # 0 =>
          \A x \in Files : Stale(x) /\ Certified(x) /\ Quiet(x, next_cursor) =>
              x \in found \/ tasks[x] = version[x]

\* The invariant of the journal.
EventsInv ==
    /\ CursorInv /\ HintsInv /\ JournalCovers
    /\ pc # "idle" => \E k \in Nat \ {0} : BegunAt(k)

-----------------------------------------------------------------------------
\* Above is what its definition says: the least set closed upwards exists.
LEMMA AboveUnfolds ==
    \A a \in Dirs : Above[a] = IF a = Root THEN {a} ELSE {a} \cup Above[Parent[a]]
  <1> USE DiscoveryConstants
  <1> DEFINE Closed(S) == \A y \in S \ {Root} : Parent[y] \in S
             up(a) == {x \in Dirs : \A S \in SUBSET Dirs : a \in S /\ Closed(S) => x \in S}
             witness == [a \in Dirs |-> up(a)]
  <1>1. up(Root) = {Root}
    <2>1. Root \in up(Root)
      OBVIOUS
    <2>2. {Root} \in SUBSET Dirs /\ Closed({Root})
      OBVIOUS
    <2>3. ASSUME NEW x \in up(Root) PROVE x \in {Root}
      <3>1. \A S \in SUBSET Dirs : Root \in S /\ Closed(S) => x \in S
        BY <2>3
      <3> HIDE DEF Closed
      <3> QED
        BY <2>2, <3>1
    <2> QED
      BY <2>1, <2>3
  <1>2. ASSUME NEW a \in Dirs PROVE a \in up(a) /\ up(a) \in SUBSET Dirs /\ Closed(up(a))
    OBVIOUS
  <1>3. ASSUME NEW a \in Dirs \ {Root} PROVE up(a) = {a} \cup up(Parent[a])
    <2>1. Parent[a] \in Dirs
      OBVIOUS
    <2>2. up(a) \subseteq {a} \cup up(Parent[a])
      <3> DEFINE S == {a} \cup up(Parent[a])
      <3>1. S \in SUBSET Dirs /\ Closed(S) /\ a \in S
        BY <1>2, <2>1
      <3> QED
        BY <3>1
    <2>3. {a} \cup up(Parent[a]) \subseteq up(a)
      BY <1>2, <2>1
    <2> QED
      BY <2>2, <2>3
  <1>4. witness = [a \in Dirs |-> IF a = Root THEN {a} ELSE {a} \cup witness[Parent[a]]]
    <2> SUFFICES ASSUME NEW a \in Dirs
                 PROVE  witness[a] = IF a = Root THEN {a} ELSE {a} \cup witness[Parent[a]]
      OBVIOUS
    <2>1. a # Root => Parent[a] \in Dirs
      OBVIOUS
    <2> HIDE DEF up
    <2> QED
      BY <1>1, <1>3, <2>1
  <1> HIDE DEF witness
  <1>5. Above = [a \in Dirs |-> IF a = Root THEN {a} ELSE {a} \cup Above[Parent[a]]]
    BY <1>4 DEF Above
  <1> QED
    BY <1>5

\* A directory is one of those above it, and so is what is above its parent.
LEMMA AboveFacts ==
    /\ Above[Root] = {Root}
    /\ \A a \in Dirs : a \in Above[a]
    /\ \A a \in Dirs \ {Root} : Parent[a] \in Dirs /\ Above[a] = {a} \cup Above[Parent[a]]
  BY ZenonT(60), AboveUnfolds, DiscoveryConstants

\* What is above a directory are directories, and closed upwards.
LEMMA AboveClosed ==
    ASSUME NEW a \in Dirs
    PROVE  /\ Above[a] \subseteq Dirs
           /\ \A b \in Above[a] : Above[b] \subseteq Above[a]
           /\ \A b \in Above[a] \ {Root} : Parent[b] \in Above[a]
  <1> USE DiscoveryConstants
  <1> DEFINE S == {y \in Dirs : /\ Above[y] \subseteq Dirs
                                /\ \A b \in Above[y] : Above[b] \subseteq Above[y]
                                /\ \A b \in Above[y] \ {Root} : Parent[b] \in Above[y]}
  <1>1. Root \in S
    BY AboveFacts
  <1>2. ASSUME NEW c \in Dirs \ {Root}, Parent[c] \in S PROVE c \in S
    <2>1. Parent[c] \in Dirs /\ Above[c] = {c} \cup Above[Parent[c]]
          /\ Parent[c] \in Above[Parent[c]]
      BY AboveFacts
    <2> QED
      BY <1>2, <2>1
  <1>3. S = Dirs
    BY <1>1, <1>2, DirectoriesFormTree
  <1> QED
    BY <1>3

\* No directory is above its parent.
LEMMA AboveAcyclic ==
    ASSUME NEW a \in Dirs \ {Root}
    PROVE  a \notin Above[Parent[a]]
  <1> USE DiscoveryConstants
  <1> DEFINE S == {y \in Dirs : \A c \in Dirs \ {Root} : Parent[c] = y => c \notin Above[y]}
  <1>1. Root \in S
    BY AboveFacts
  <1>2. ASSUME NEW y \in Dirs \ {Root}, Parent[y] \in S PROVE y \in S
    <2> SUFFICES ASSUME NEW c \in Dirs \ {Root}, Parent[c] = y, c \in Above[y] PROVE FALSE
      OBVIOUS
    <2>1. y \notin Above[Parent[y]]
      BY <1>2
    <2>2. Above[y] = {y} \cup Above[Parent[y]] /\ y \in Above[y] /\ Parent[y] \in Dirs
      BY AboveFacts
    <2>3. CASE c = y
      BY <2>1, <2>2, <2>3, AboveFacts
    <2>4. CASE c # y
      <3>1. c \in Above[Parent[y]] \ {Root}
        BY <2>2, <2>4
      <3>2. Parent[c] \in Above[Parent[y]]
        BY <2>2, <3>1, AboveClosed
      <3> QED
        BY <2>1, <3>2
    <2> QED
      BY <2>3, <2>4
  <1>3. S = Dirs
    BY <1>1, <1>2, DirectoriesFormTree
  <1> QED
    BY <1>3

\* Between a directory and another below it there is a child of the first.
LEMMA AboveChild ==
    ASSUME NEW a \in Dirs, NEW b \in Above[a], b # a
    PROVE  \E c \in Dirs \ {Root} : Parent[c] = b /\ c \in Above[a]
  <1> USE DiscoveryConstants
  <1> DEFINE S == {y \in Dirs : \A z \in Above[y] : z # y =>
                      \E c \in Dirs \ {Root} : Parent[c] = z /\ c \in Above[y]}
  <1>1. Root \in S
    BY AboveFacts
  <1>2. ASSUME NEW y \in Dirs \ {Root}, Parent[y] \in S PROVE y \in S
    <2> SUFFICES ASSUME NEW z \in Above[y], z # y
                 PROVE  \E c \in Dirs \ {Root} : Parent[c] = z /\ c \in Above[y]
      OBVIOUS
    <2>1. Above[y] = {y} \cup Above[Parent[y]] /\ y \in Above[y]
      BY AboveFacts
    <2>2. CASE z = Parent[y]
      BY <2>1, <2>2
    <2>3. CASE z # Parent[y]
      BY <1>2, <2>1, <2>3
    <2> QED
      BY <2>2, <2>3
  <1>3. S = Dirs
    BY <1>1, <1>2, DirectoriesFormTree
  <1> QED
    BY <1>3

\* The root is above every directory.
LEMMA RootAbove == \A a \in Dirs : Root \in Above[a]
  <1> DEFINE S == {y \in Dirs : Root \in Above[y]}
  <1>1. Root \in S
    BY AboveFacts, DiscoveryConstants
  <1>2. ASSUME NEW c \in Dirs \ {Root}, Parent[c] \in S PROVE c \in S
    BY <1>2, AboveFacts
  <1>3. S = Dirs
    BY <1>1, <1>2, DirectoriesFormTree
  <1> QED
    BY <1>3

\* What stands for nothing has its type.
LEMMA NonesTyped ==
    /\ None \in [dir : Dirs, stamp : Nat] /\ None.stamp = 0
    /\ NoReplay \in [next : Nat, usable : BOOLEAN, hints : SUBSET (Files \cup Dirs)]
    /\ NoReplay.next = 0 /\ ~NoReplay.usable
    /\ NoRows \in [Files -> Nat] /\ NoStamps \in [Dirs -> Nat]
  BY DiscoveryConstants DEF None, NoReplay, NoRows, NoStamps

\* Before the first refresh nothing is certified.
LEMMA InitWalk == Init => WalkInv
  <1> SUFFICES ASSUME Init PROVE WalkInv
    OBVIOUS
  <1> USE DEF Init
  <1>1. WalkTypeOK
    <2>1. log \in Seq(Files \cup Dirs) /\ stamp \in [Dirs -> Nat \ {0}]
      OBVIOUS
    <2>2. journal \in [Procs -> [next : Nat, usable : BOOLEAN, hints : SUBSET (Files \cup Dirs)]]
      BY NonesTyped
    <2> QED
      BY <2>1, <2>2, NonesTyped, DiscoveryConstants DEF WalkTypeOK, Phases
  <1>2. PhaseInv
    BY NonesTyped, DiscoveryConstants DEF PhaseInv, Active
  <1>3. StampInv
    BY NonesTyped, DiscoveryConstants DEF StampInv, NoStamps
  <1>4. ReachInv
    BY DEF ReachInv, NoRows
  <1>5. StampsCertify /\ WalkCertifies
    BY DEF StampsCertify, WalkCertifies, NoStamps
  <1> QED
    BY <1>1, <1>2, <1>3, <1>4, <1>5 DEF WalkInv

\* Every step leaves every variable with what it is for.
LEMMA TypeStep ==
    ASSUME WalkTypeOK, Next
    PROVE  WalkTypeOK'
  <1> USE DEF WalkTypeOK
  <1> DEFINE Replay == [next : Nat, usable : BOOLEAN, hints : SUBSET (Files \cup Dirs)]
  <1>1. ASSUME NEW x \in Files, Write(x) \/ Create(x) \/ Remove(x) PROVE WalkTypeOK'
    <2>1. changes' \in Nat /\ changes' = changes + 1
      BY SMTT(60), <1>1 DEF Write, Create, Remove, Changes
    <2>2. Home[x] \in Dirs /\ x \in Files \cup Dirs
      BY DiscoveryConstants
    <2>3. log' \in Seq(Files \cup Dirs)
      <3>1. log' = Append(log, x)
        BY <1>1 DEF Write, Create, Remove, Changes
      <3> QED
        BY <2>2, <3>1
    <2>4. stamp' \in [Dirs -> Nat \ {0}]
      <3>1. stamp[Home[x]] + 1 \in Nat \ {0}
        BY SMTT(60), <2>2
      <3>2. stamp' = stamp \/ stamp' = [stamp EXCEPT ![Home[x]] = stamp[Home[x]] + 1]
        BY <1>1 DEF Write, Create, Remove
      <3> QED
        BY <2>2, <3>1, <3>2
    <2>5. version' \in [Files -> Nat]
      <3>1. version' = [version EXCEPT ![x] = changes'] \/ version' = [version EXCEPT ![x] = 0]
        BY <1>1 DEF Write, Create, Remove
      <3>2. changes' \in Nat /\ 0 \in Nat
        BY <2>1
      <3> QED
        BY <3>1, <3>2
    <2> QED
      BY <1>1, <2>1, <2>3, <2>4, <2>5 DEF Write, Create, Remove, Changes, checkpoint, walk, work
  <1>2. ASSUME NEW a \in Movable, Rename(a) PROVE WalkTypeOK'
    <2>1. changes' \in Nat
      BY <1>2 DEF Rename, Changes
    <2>2. a \in Dirs \ {Root} /\ Parent[a] \in Dirs
      BY DiscoveryConstants
    <2>3. log' \in Seq(Files \cup Dirs)
      BY <1>2, <2>2 DEF Rename, Changes
    <2>4. away' \subseteq Dirs \ {Root}
      BY <1>2, <2>2 DEF Rename
    <2>5. stamp' \in [Dirs -> Nat \ {0}]
      <3>1. stamp[Parent[a]] + 1 \in Nat \ {0}
        BY SMTT(60), <2>2
      <3>2. stamp' = [stamp EXCEPT ![Parent[a]] = stamp[Parent[a]] + 1]
        BY <1>2 DEF Rename
      <3> QED
        BY <2>2, <3>1, <3>2
    <2> QED
      BY <1>2, <2>1, <2>3, <2>4, <2>5 DEF Rename, Changes, checkpoint, walk, work
  <1>3. ASSUME NEW p \in Procs, StartReplay(p) PROVE WalkTypeOK'
    <2>1. Len(log) + 1 \in Nat /\ (cursor # 0 => ReplayHints \in SUBSET (Files \cup Dirs))
      <3>1. Len(log) \in Nat
        OBVIOUS
      <3>2. ASSUME cursor # 0, NEW i \in cursor..Len(log) PROVE log[i] \in Files \cup Dirs
        BY <3>1, <3>2
      <3> QED
        BY <3>1, <3>2 DEF ReplayHints
    <2>2. journal' \in [Procs -> Replay]
      BY <1>3, <2>1 DEF StartReplay
    <2> QED
      BY <1>3, <2>2 DEF StartReplay, tree, checkpoint, walk, work
  <1>4. ASSUME NEW p \in Procs, Refresh(p) PROVE WalkTypeOK'
    <2>1. journal' \in [Procs -> Replay]
      BY <1>4, NonesTyped DEF Refresh
    <2>2. journal[p].next \in Nat
      OBVIOUS
    <2>3. next_cursor' \in Nat
      BY <1>4, <2>2 DEF Refresh, CursorOf
    <2>4. pc' \in Phases /\ full' \in BOOLEAN /\ clears' \in BOOLEAN
      BY <1>4, DiscoveryConstants DEF Refresh, Phases
    <2>5. pending' \subseteq Dirs /\ found' \subseteq Files
      BY <1>4, DiscoveryConstants DEF Refresh
    <2> QED
      BY <1>4, <2>1, <2>3, <2>4, <2>5 DEF Refresh, tree, checkpoint
  <1>5. ASSUME NEW p \in Procs, Rebuild(p) PROVE WalkTypeOK'
    BY <1>5, NonesTyped, DiscoveryConstants DEF Rebuild, tree, Phases
  <1>6. ASSUME NEW a \in Dirs PROVE Forget(a) \in [Dirs -> Nat]
    BY DEF Forget
  <1>7. ASSUME NEW a \in Dirs, VisitMissing(a) \/ Reuse(a) \/ Capture(a) PROVE WalkTypeOK'
    <2>1. CASE VisitMissing(a)
      BY <1>6, <2>1 DEF VisitMissing, tree, checkpoint, work
    <2>2. CASE Reuse(a)
      BY <2>2 DEF Reuse, tree, checkpoint, work
    <2>3. CASE Capture(a)
      BY <2>3 DEF Capture, tree, checkpoint, work
    <2> QED
      BY <1>7, <2>1, <2>2, <2>3
  <1>8. ASSUME Enumerate \/ EnumerateFails \/ WalkDone PROVE WalkTypeOK'
    <2>1. CASE Enumerate
      BY <2>1, NonesTyped DEF Enumerate, FilesIn, DirsIn, tree, checkpoint, work
    <2>2. CASE EnumerateFails
      <3>1. captured.dir \in Dirs
        OBVIOUS
      <3>2. found' \subseteq Files /\ pending' \subseteq Dirs /\ faults' \in Nat
        BY <2>2 DEF EnumerateFails, FilesIn, DirsIn
      <3> QED
        BY <1>6, <2>2, <3>1, <3>2, NonesTyped DEF EnumerateFails, tree, checkpoint, work
    <2>3. CASE WalkDone
      BY <2>3 DEF WalkDone, tree, checkpoint, work, walk, Phases
    <2> QED
      BY <1>8, <2>1, <2>2, <2>3
  <1>9. ASSUME NEW x \in Files, Examine(x) \/ StatFile(x) \/ StatParent(x) \/ Skip(x)
        PROVE  WalkTypeOK'
    <2>1. CASE Examine(x)
      BY <2>1 DEF Examine, tree, checkpoint, walk
    <2>2. CASE StatFile(x)
      BY <2>2 DEF StatFile, tree, checkpoint, walk
    <2>3. CASE StatParent(x)
      BY <2>3 DEF StatParent, tree, checkpoint, walk
    <2>4. CASE Skip(x)
      BY <2>4 DEF Skip, tree, checkpoint, walk
    <2> QED
      BY <1>9, <2>1, <2>2, <2>3, <2>4
  <1>10. ASSUME Examined \/ Swept PROVE WalkTypeOK'
    BY <1>10 DEF Examined, Swept, tree, checkpoint, walk, work, Phases
  <1>11. CASE Commit
    BY <1>11, NonesTyped, DiscoveryConstants DEF Commit, KeptStamps, Clear, tree, Phases
  <1>12. CASE Abort
    <2>1. faults' \in Nat /\ Clear
      BY <1>12 DEF Abort
    <2>2. UNCHANGED <<version, away, stamp, log, rows, stamps, cursor, journal, changes>>
      BY <1>12 DEF Abort, tree, checkpoint
    <2> QED
      BY <2>1, <2>2, NonesTyped, DiscoveryConstants DEF Clear, Phases
  <1> QED
    BY <1>1, <1>2, <1>3, <1>4, <1>5, <1>7, <1>8, <1>9, <1>10, <1>11, <1>12 DEF Next

\* What a change to the tree leaves alone.
LEMMA TreeFrame ==
    ASSUME \/ \E x \in Files : Write(x) \/ Create(x) \/ Remove(x)
           \/ \E a \in Movable : Rename(a)
    PROVE  UNCHANGED <<rows, stamps, cursor, journal, pc, pending, captured, next_stamps, found,
                       lease, full, clears, tasks, sweep, doubted, dropped, next_cursor, faults>>
  BY DEF Write, Create, Remove, Rename, Changes, checkpoint, walk, work

\* The phases follow each other.
LEMMA PhaseStep ==
    ASSUME ~IndexLoss, WalkTypeOK, PhaseInv, Next
    PROVE  PhaseInv'
  <1> USE DEF PhaseInv, Active
  <1>1. ASSUME \/ \E x \in Files : Write(x) \/ Create(x) \/ Remove(x)
               \/ \E a \in Movable : Rename(a)
        PROVE  PhaseInv'
    BY <1>1, TreeFrame
  <1>2. ASSUME NEW p \in Procs, StartReplay(p) PROVE PhaseInv'
    BY <1>2 DEF StartReplay, walk, work
  <1>3. ASSUME NEW p \in Procs, Refresh(p) PROVE PhaseInv'
    <2>1. p # NoProc /\ lease' = p /\ lease = NoProc
      BY <1>3, DiscoveryConstants DEF Refresh
    <2>2. pc = "idle" /\ ~full /\ next_stamps = NoStamps /\ tasks = NoRows /\ dropped = {}
          /\ pending = {} /\ captured = None /\ doubted = {}
      BY <2>1
    <2>3. UNCHANGED <<captured, next_stamps, tasks, doubted, dropped>> /\ ~clears'
      BY <1>3 DEF Refresh
    <2>4. \/ pc' = "examine" /\ full' = FALSE /\ pending' = pending
          \/ pc' = "walk" /\ full' = TRUE
      BY <1>3 DEF Refresh
    <2> QED
      BY <2>1, <2>2, <2>3, <2>4
  <1>4. ASSUME NEW p \in Procs, Rebuild(p) PROVE PhaseInv'
    <2>1. p # NoProc
      BY DiscoveryConstants
    <2> QED
      BY <1>4, <2>1 DEF Rebuild
  <1>5. ASSUME NEW a \in Dirs, VisitMissing(a) \/ Reuse(a) \/ Capture(a) PROVE PhaseInv'
    <2>1. pc = "walk" /\ full /\ captured = None
      BY <1>5 DEF VisitMissing, Reuse, Capture, Visiting
    <2>2. UNCHANGED <<pc, lease, full, clears, tasks, doubted, dropped, next_cursor>>
      BY <1>5 DEF VisitMissing, Reuse, Capture, work
    <2>3. captured' # None => captured'.stamp # 0
      BY <1>5, <2>1 DEF VisitMissing, Reuse, Capture, WalkTypeOK
    <2> QED
      BY <2>1, <2>2, <2>3
  <1>6. ASSUME Enumerate \/ EnumerateFails PROVE PhaseInv'
    <2>1. pc = "walk" /\ full /\ captured' = None
      BY <1>6 DEF Enumerate, EnumerateFails
    <2>2. UNCHANGED <<pc, lease, full, clears, tasks, doubted, dropped, next_cursor>>
      BY <1>6 DEF Enumerate, EnumerateFails, work
    <2> QED
      BY <2>1, <2>2
  <1>7. ASSUME WalkDone \/ Examined \/ Swept PROVE PhaseInv'
    <2>1. CASE WalkDone
      BY <2>1 DEF WalkDone, walk, work
    <2>2. CASE Examined
      BY <2>2 DEF Examined, walk, work
    <2>3. CASE Swept
      BY <2>3 DEF Swept, walk, work
    <2> QED
      BY <1>7, <2>1, <2>2, <2>3
  <1>8. ASSUME NEW x \in Files, Examine(x) \/ StatFile(x) \/ StatParent(x) \/ Skip(x)
        PROVE  PhaseInv'
    <2>1. CASE Examine(x)
      BY <2>1 DEF Examine, walk
    <2>2. CASE StatFile(x)
      BY <2>2 DEF StatFile, walk
    <2>3. CASE StatParent(x)
      BY <2>3 DEF StatParent, walk
    <2>4. CASE Skip(x)
      BY <2>4 DEF Skip, walk
    <2> QED
      BY <1>8, <2>1, <2>2, <2>3, <2>4
  <1>9. ASSUME Commit \/ Abort PROVE PhaseInv'
    <2>1. Clear
      BY <1>9 DEF Commit, Abort
    <2> QED
      BY <2>1, NonesTyped DEF Clear
  <1> QED
    BY <1>1, <1>2, <1>3, <1>4, <1>5, <1>6, <1>7, <1>8, <1>9 DEF Next

\* Stamps only grow, so that what was captured of one is of the past.
LEMMA StampStep ==
    ASSUME WalkTypeOK, StampInv, Next
    PROVE  StampInv'
  <1> USE DEF StampInv, WalkTypeOK
  <1>1. ASSUME \/ \E x \in Files : Write(x) \/ Create(x) \/ Remove(x)
               \/ \E a \in Movable : Rename(a)
        PROVE  StampInv'
    <2>1. ASSUME NEW a \in Dirs PROVE stamp'[a] >= stamp[a] /\ stamp'[a] \in Nat
      <3>1. \A x \in Files : Home[x] \in Dirs
        BY DiscoveryConstants
      <3>2. \A b \in Movable : Parent[b] \in Dirs
        BY DiscoveryConstants
      <3>3. stamp' = stamp \/ \E b \in Dirs : stamp' = [stamp EXCEPT ![b] = stamp[b] + 1]
        BY <1>1, <3>1, <3>2 DEF Write, Create, Remove, Rename
      <3>4. stamp[a] \in Nat
        OBVIOUS
      <3>5. stamp'[a] = stamp[a] \/ stamp'[a] = stamp[a] + 1
        BY <3>3
      <3> QED
        BY <3>4, <3>5
    <2>2. UNCHANGED <<stamps, next_stamps, captured>>
      BY <1>1, TreeFrame
    <2> QED
      BY <2>1, <2>2
  <1>2. ASSUME UNCHANGED <<stamp, stamps, next_stamps, captured>> PROVE StampInv'
    BY <1>2
  <1>3. ASSUME NEW p \in Procs, StartReplay(p) \/ Refresh(p) PROVE StampInv'
    BY <1>2, <1>3 DEF StartReplay, Refresh, tree, checkpoint, walk
  <1>4. ASSUME NEW p \in Procs, Rebuild(p) PROVE StampInv'
    BY <1>4 DEF Rebuild, tree, NoStamps
  <1>5. ASSUME NEW a \in Dirs PROVE \A b \in Dirs : Forget(a)[b] <= stamp[b]
    BY DEF Forget
  <1>6. ASSUME NEW a \in Dirs, VisitMissing(a) \/ Reuse(a) \/ Capture(a) PROVE StampInv'
    <2>1. CASE VisitMissing(a)
      BY <1>5, <2>1 DEF VisitMissing, tree, checkpoint
    <2>2. CASE Reuse(a)
      BY <2>2 DEF Reuse, tree, checkpoint
    <2>3. CASE Capture(a)
      BY <2>3 DEF Capture, tree, checkpoint
    <2> QED
      BY <1>6, <2>1, <2>2, <2>3
  <1>7. ASSUME Enumerate \/ EnumerateFails PROVE StampInv'
    <2>1. captured.dir \in Dirs /\ None.dir \in Dirs
      BY NonesTyped
    <2>2. CASE Enumerate
      BY <2>1, <2>2, NonesTyped DEF Enumerate, tree, checkpoint
    <2>3. CASE EnumerateFails
      BY SMTT(60), <1>5, <2>1, <2>3, NonesTyped DEF EnumerateFails, tree, checkpoint
    <2> QED
      BY <1>7, <2>2, <2>3
  <1>8. ASSUME WalkDone \/ Examined \/ Swept PROVE StampInv'
    BY <1>2, <1>8 DEF WalkDone, Examined, Swept, tree, checkpoint, walk
  <1>9. ASSUME NEW x \in Files, Examine(x) \/ StatFile(x) \/ StatParent(x) \/ Skip(x)
        PROVE  StampInv'
    BY <1>2, <1>9 DEF Examine, StatFile, StatParent, Skip, tree, checkpoint, walk
  <1>10. ASSUME Commit \/ Abort PROVE StampInv'
    <2>1. Clear /\ stamp' = stamp /\ None.dir \in Dirs
      BY <1>10, NonesTyped DEF Commit, Abort, tree
    <2>2. ASSUME NEW a \in Dirs PROVE stamps'[a] <= stamp[a]
      BY <1>10 DEF Commit, Abort, checkpoint, KeptStamps
    <2> QED
      BY <2>1, <2>2, NonesTyped DEF Clear, NoStamps
  <1> QED
    BY <1>1, <1>3, <1>4, <1>6, <1>7, <1>8, <1>9, <1>10 DEF Next

\* What a change to the tree does to a directory: its stamp moves on if an entry
\* comes or goes.
LEMMA TreeStep ==
    ASSUME WalkTypeOK,
           \/ \E x \in Files : Write(x) \/ Create(x) \/ Remove(x)
           \/ \E a \in Movable : Rename(a),
           NEW a \in Dirs
    PROVE  \/ stamp'[a] = stamp[a] + 1
           \/ /\ stamp'[a] = stamp[a]
              /\ \A x \in Files : Home[x] = a /\ version'[x] # 0 => version[x] # 0
              /\ \A c \in Dirs \ {Root} : Parent[c] = a => (c \in away' <=> c \in away)
  <1> USE DEF WalkTypeOK
  <1>1. ASSUME NEW x \in Files, Write(x) \/ Create(x) \/ Remove(x)
        PROVE  \/ stamp'[a] = stamp[a] + 1
               \/ /\ stamp'[a] = stamp[a]
                  /\ \A y \in Files : Home[y] = a /\ version'[y] # 0 => version[y] # 0
                  /\ \A c \in Dirs \ {Root} : Parent[c] = a => (c \in away' <=> c \in away)
    <2>1. away' = away
      BY <1>1 DEF Write, Create, Remove
    <2>2. \A y \in Files \ {x} : version'[y] = version[y]
      BY <1>1 DEF Write, Create, Remove
    <2>3. CASE Home[x] = a /\ version[x] = 0
      BY <1>1, <2>3 DEF Write, Create, Remove, Visible
    <2>4. CASE ~(Home[x] = a /\ version[x] = 0)
      <3>1. stamp' = stamp \/ stamp' = [stamp EXCEPT ![Home[x]] = stamp[Home[x]] + 1]
        BY <1>1 DEF Write, Create, Remove
      <3>2. stamp'[a] = stamp[a] \/ stamp'[a] = stamp[a] + 1
        BY <3>1
      <3>3. \A y \in Files : Home[y] = a /\ version'[y] # 0 => version[y] # 0
        BY <2>2, <2>4
      <3> QED
        BY <2>1, <3>2, <3>3
    <2> QED
      BY <2>3, <2>4
  <1>2. ASSUME NEW b \in Movable, Rename(b)
        PROVE  \/ stamp'[a] = stamp[a] + 1
               \/ /\ stamp'[a] = stamp[a]
                  /\ \A y \in Files : Home[y] = a /\ version'[y] # 0 => version[y] # 0
                  /\ \A c \in Dirs \ {Root} : Parent[c] = a => (c \in away' <=> c \in away)
    <2>1. version' = version
      BY <1>2 DEF Rename
    <2>2. \A c \in Dirs : c # b => (c \in away' <=> c \in away)
      BY <1>2 DEF Rename
    <2>3. stamp' = [stamp EXCEPT ![Parent[b]] = stamp[Parent[b]] + 1]
      BY <1>2 DEF Rename
    <2>4. CASE Parent[b] = a
      BY <2>3, <2>4
    <2>5. CASE Parent[b] # a
      BY <2>1, <2>2, <2>3, <2>5
    <2> QED
      BY <2>4, <2>5
  <1> QED
    BY <1>1, <1>2

\* What the walk has a stamp of is not moved before the commit.
LEMMA ReachStep ==
    ASSUME ~LateRenames, WalkInv, Next
    PROVE  ReachInv'
  <1>0. WalkTypeOK /\ PhaseInv /\ StampInv /\ ReachInv /\ StampsCertify
    BY DEF WalkInv
  <1> SUFFICES ASSUME NEW x \in Files, version'[x] # 0, next_stamps'[Home[x]] = stamp'[Home[x]]
               PROVE  Reachable(Home[x])' /\ (pc' = "walk" => x \in found')
    BY DEF ReachInv
  <1> DEFINE h == Home[x]
  <1>1. h \in Dirs /\ stamp[h] \in Nat \ {0} /\ next_stamps[h] \in Nat /\ next_stamps[h] <= stamp[h]
    BY <1>0, DiscoveryConstants DEF WalkTypeOK, StampInv
  <1>2. ASSUME version[x] # 0, next_stamps[h] = stamp[h]
        PROVE  Reachable(h) /\ (pc = "walk" => x \in found)
    BY <1>0, <1>2 DEF ReachInv
  <1>3. ASSUME away' = away, Reachable(h) PROVE Reachable(h)'
    BY <1>3 DEF Reachable
  <1> HIDE DEF h
  <1>4. ASSUME \/ \E y \in Files : Write(y) \/ Create(y) \/ Remove(y)
               \/ \E a \in Movable : Rename(a)
        PROVE  Reachable(h)' /\ (pc' = "walk" => x \in found')
    <2>1. UNCHANGED <<pc, found, next_stamps, full>>
      BY <1>4, TreeFrame
    <2>2. next_stamps[h] = stamp[h] /\ version[x] # 0
      <3>1. stamp'[h] # stamp[h] + 1
        BY <1>1, <2>1 DEF h
      <3>2. stamp'[h] = stamp[h] /\ (version'[x] # 0 => version[x] # 0)
        BY <1>0, <1>1, <1>4, <3>1, TreeStep DEF h
      <3> QED
        BY <2>1, <3>2 DEF h
    <2>3. Reachable(h) /\ (pc = "walk" => x \in found)
      BY <1>2, <2>2
    <2>4. CASE \E y \in Files : Write(y) \/ Create(y) \/ Remove(y)
      BY <1>3, <2>1, <2>3, <2>4 DEF Write, Create, Remove
    <2>5. ASSUME NEW a \in Movable, Rename(a) PROVE Reachable(h)'
      <3>1. next_stamps[h] # 0
        BY <1>1, <2>2
      <3>2. full
        BY <1>0, <1>1, <3>1 DEF PhaseInv, NoStamps
      <3>3. pc # "idle"
        BY <1>0, <3>2 DEF PhaseInv
      <3>4. a \notin Above[h]
        BY <1>1, <2>3, <2>5, <3>1, <3>3 DEF Rename, h
      <3>5. away' \subseteq away \cup {a}
        BY <2>5 DEF Rename
      <3> QED
        BY <2>3, <3>4, <3>5 DEF Reachable
    <2> QED
      BY <1>4, <2>1, <2>3, <2>4, <2>5
  <1>5. ASSUME UNCHANGED <<version, away, stamp, next_stamps>>, found \subseteq found',
               pc' = "walk" => pc = "walk"
        PROVE  Reachable(h)' /\ (pc' = "walk" => x \in found')
    BY <1>2, <1>3, <1>5 DEF h
  <1>6. ASSUME NEW b \in Dirs, next_stamps' = Forget(b), UNCHANGED <<version, away, stamp, pc>>,
               found \subseteq found'
        PROVE  Reachable(h)' /\ (pc' = "walk" => x \in found')
    <2>1. next_stamps[h] = stamp[h] /\ version[x] # 0
      BY <1>1, <1>6 DEF Forget, h
    <2> QED
      BY <1>2, <1>3, <1>6, <2>1
  <1>7. ASSUME next_stamps' = NoStamps, stamp' = stamp PROVE FALSE
    BY <1>1, <1>7 DEF NoStamps, h
  <1>8. ASSUME NEW p \in Procs, StartReplay(p)
        PROVE  Reachable(h)' /\ (pc' = "walk" => x \in found')
    BY <1>5, <1>8 DEF StartReplay, tree, walk
  <1>9. ASSUME NEW p \in Procs, Refresh(p) \/ Rebuild(p) PROVE FALSE
    BY <1>0, <1>7, <1>9 DEF Refresh, Rebuild, tree, PhaseInv
  <1>10. ASSUME NEW b \in Dirs, VisitMissing(b)
         PROVE  Reachable(h)' /\ (pc' = "walk" => x \in found')
    BY <1>6, <1>10 DEF VisitMissing, tree
  <1>11. ASSUME NEW b \in Dirs, Reuse(b)
         PROVE  Reachable(h)' /\ (pc' = "walk" => x \in found')
    <2>1. UNCHANGED <<version, away, stamp, pc>> /\ found \subseteq found'
      BY <1>11 DEF Reuse, tree
    <2>2. CASE h = b
      <3>1. stamps[b] = stamp[b] /\ Reachable(b)
        BY <1>11 DEF Reuse
      <3>2. rows[x] # 0
        BY <1>0, <1>1, <2>1, <2>2, <3>1 DEF StampsCertify, h
      <3>3. x \in found'
        BY <1>11, <2>2, <3>2 DEF Reuse, h
      <3> QED
        BY <1>3, <2>1, <2>2, <3>1, <3>3
    <2>3. CASE h # b
      <3>1. next_stamps'[h] = next_stamps[h]
        BY <1>0, <1>1, <1>11, <2>3 DEF Reuse, WalkTypeOK
      <3> QED
        BY <1>2, <1>3, <2>1, <3>1 DEF h
    <2> QED
      BY <2>2, <2>3
  <1>12. ASSUME NEW b \in Dirs, Capture(b)
         PROVE  Reachable(h)' /\ (pc' = "walk" => x \in found')
    BY <1>5, <1>12 DEF Capture, tree
  <1>13. ASSUME Enumerate PROVE Reachable(h)' /\ (pc' = "walk" => x \in found')
    <2> DEFINE b == captured.dir
    <2>1. UNCHANGED <<version, away, stamp, pc>> /\ found \subseteq found' /\ Reachable(b)
      BY <1>13 DEF Enumerate, tree
    <2>2. CASE h = b
      <3>1. x \in found'
        BY <1>13, <2>1, <2>2 DEF Enumerate, FilesIn, h
      <3> QED
        BY <1>3, <2>1, <2>2, <3>1
    <2>3. CASE h # b
      <3>1. next_stamps'[h] = next_stamps[h]
        BY <1>0, <1>1, <1>13, <2>3 DEF Enumerate, WalkTypeOK
      <3> QED
        BY <1>2, <1>3, <2>1, <3>1 DEF h
    <2> QED
      BY <2>2, <2>3
  <1>14. ASSUME EnumerateFails PROVE Reachable(h)' /\ (pc' = "walk" => x \in found')
    <2>1. captured.dir \in Dirs
      BY <1>0 DEF WalkTypeOK
    <2>2. found \subseteq found' /\ UNCHANGED <<version, away, stamp, pc>>
          /\ next_stamps' = Forget(captured.dir)
      BY <1>14 DEF EnumerateFails, tree
    <2> QED
      BY <1>6, <2>1, <2>2
  <1>15. ASSUME WalkDone \/ Examined \/ Swept
         PROVE  Reachable(h)' /\ (pc' = "walk" => x \in found')
    BY <1>5, <1>15 DEF WalkDone, Examined, Swept, tree, walk
  <1>16. ASSUME NEW y \in Files, Examine(y) \/ StatFile(y) \/ StatParent(y) \/ Skip(y)
         PROVE  Reachable(h)' /\ (pc' = "walk" => x \in found')
    <2>1. UNCHANGED <<version, away, stamp, pc, next_stamps>> /\ pc # "walk"
      BY <1>16 DEF Examine, StatFile, StatParent, Skip, tree, walk
    <2> QED
      BY <1>2, <1>3, <2>1 DEF h
  <1>17. ASSUME Commit \/ Abort PROVE FALSE
    BY <1>7, <1>17 DEF Commit, Abort, Clear, tree
  <1> QED
    BY <1>4, <1>8, <1>9, <1>10, <1>11, <1>12, <1>13, <1>14, <1>15, <1>16, <1>17 DEF Next, h

\* A stamp that is committed hides nothing.
LEMMA StampsStep ==
    ASSUME WalkInv, Next
    PROVE  StampsCertify'
  <1> USE DEF WalkInv, WalkTypeOK
  <1>1. ASSUME \/ \E x \in Files : Write(x) \/ Create(x) \/ Remove(x)
               \/ \E a \in Movable : Rename(a)
        PROVE  StampsCertify'
    <2>1. UNCHANGED <<rows, stamps>>
      BY <1>1, TreeFrame
    <2> SUFFICES ASSUME NEW a \in Dirs, stamps[a] = stamp'[a]
                 PROVE  /\ \A x \in Files : Home[x] = a /\ version'[x] # 0 => rows[x] # 0
                        /\ \A c \in Dirs \ {Root} :
                              Parent[c] = a /\ c \notin away' => stamps[c] # 0
      BY <2>1 DEF StampsCertify
    <2>2. stamp'[a] # stamp[a] + 1
      BY DEF StampInv
    <2> HIDE DEF WalkInv
    <2>3. WalkTypeOK /\ StampsCertify
      BY DEF WalkInv
    <2> HIDE DEF WalkTypeOK
    <2>4. /\ stamp'[a] = stamp[a]
          /\ \A x \in Files : Home[x] = a /\ version'[x] # 0 => version[x] # 0
          /\ \A c \in Dirs \ {Root} : Parent[c] = a => (c \in away' <=> c \in away)
      BY <1>1, <2>2, <2>3, TreeStep
    <2> QED
      BY <2>3, <2>4 DEF StampsCertify
  <1>2. ASSUME UNCHANGED <<version, away, stamp, rows, stamps>> PROVE StampsCertify'
    BY <1>2 DEF StampsCertify
  <1>3. ASSUME NEW p \in Procs, StartReplay(p) \/ Refresh(p) PROVE StampsCertify'
    BY <1>2, <1>3 DEF StartReplay, Refresh, tree, checkpoint
  <1>4. ASSUME NEW p \in Procs, Rebuild(p) PROVE StampsCertify'
    BY <1>4 DEF Rebuild, tree, NoStamps, StampsCertify
  <1>5. ASSUME NEW a \in Dirs, VisitMissing(a) \/ Reuse(a) \/ Capture(a) PROVE StampsCertify'
    BY <1>2, <1>5 DEF VisitMissing, Reuse, Capture, tree, checkpoint
  <1>6. ASSUME Enumerate \/ EnumerateFails \/ WalkDone \/ Examined \/ Swept \/ Abort
        PROVE  StampsCertify'
    BY <1>2, <1>6 DEF Enumerate, EnumerateFails, WalkDone, Examined, Swept, Abort, tree, checkpoint
  <1>7. ASSUME NEW x \in Files, Examine(x) \/ StatFile(x) \/ StatParent(x) \/ Skip(x)
        PROVE  StampsCertify'
    BY <1>2, <1>7 DEF Examine, StatFile, StatParent, Skip, tree, checkpoint
  <1>8. CASE Commit
    <2>1. UNCHANGED <<version, away, stamp>> /\ found = {} /\ Active = {} /\ ~clears
      BY <1>8 DEF Commit, tree, PhaseInv
    <2>2. \A x \in Files : rows'[x] = IF tasks[x] # 0 THEN tasks[x]
                                      ELSE IF x \in dropped THEN 0 ELSE rows[x]
      BY <1>8, <2>1 DEF Commit
    <2>3. CASE full
      <3>1. \A a \in Dirs : stamps'[a] = next_stamps[a]
        BY <1>8, <2>1, <2>3 DEF Commit, KeptStamps
      <3>2. WalkCertifies
        OBVIOUS
      <3> QED
        BY <2>1, <2>2, <3>1, <3>2 DEF WalkCertifies, StampsCertify
    <2>4. CASE ~full
      <3>1. next_stamps = NoStamps /\ dropped = {}
        BY <2>4 DEF PhaseInv
      <3>2. \A a \in Dirs : stamps'[a] = stamps[a]
        BY <1>8, <2>1, <2>4, <3>1 DEF Commit, KeptStamps, NoStamps
      <3> QED
        BY <2>1, <2>2, <3>1, <3>2 DEF StampsCertify
    <2> QED
      BY <2>3, <2>4
  <1> QED
    BY <1>1, <1>3, <1>4, <1>5, <1>6, <1>7, <1>8 DEF Next

\* A directory that gives up its stamp does so with those above it, and never one
\* whose parent keeps its own.
LEMMA ForgetClosed ==
    ASSUME WalkTypeOK, NEW b \in Dirs, NEW a \in Dirs, Forget(b)[a] # 0
    PROVE  /\ Forget(b)[a] = next_stamps[a]
           /\ \A c \in Dirs \ {Root} : Parent[c] = a =>
                 c # b /\ (next_stamps[c] # 0 => Forget(b)[c] # 0)
  <1>1. a \notin Above[b] \ {b} /\ Forget(b)[a] = next_stamps[a]
    BY DEF Forget, Forgotten
  <1>2. ASSUME NEW c \in Dirs \ {Root}, Parent[c] = a PROVE c # b
    <2>1. ASSUME c = b PROVE FALSE
      <3>1. a \in Above[b] /\ a # b
        BY <1>2, <2>1, AboveFacts, AboveAcyclic
      <3> QED
        BY <1>1, <3>1
    <2> QED
      BY <2>1
  <1>3. ASSUME NEW c \in Dirs \ {Root}, Parent[c] = a PROVE c \notin Above[b]
    <2>1. ASSUME c \in Above[b] PROVE FALSE
      <3>1. a \in Above[b]
        BY <1>3, <2>1, AboveClosed
      <3>2. a # b
        BY <1>3, <2>1, AboveAcyclic
      <3> QED
        BY <1>1, <3>1, <3>2
    <2> QED
      BY <2>1
  <1> QED
    BY <1>1, <1>2, <1>3 DEF Forget, Forgotten

\* A stamp of the walk hides nothing either.
LEMMA WalkCertifiesStep ==
    ASSUME WalkInv, Next
    PROVE  WalkCertifies'
  <1> USE DEF WalkInv, WalkTypeOK
  <1>1. ASSUME \/ \E x \in Files : Write(x) \/ Create(x) \/ Remove(x)
               \/ \E a \in Movable : Rename(a)
        PROVE  WalkCertifies'
    <2>1. UNCHANGED <<rows, next_stamps, found, tasks, doubted, dropped, pending, captured>>
      BY <1>1, TreeFrame
    <2>2. Active' = Active
      BY <2>1 DEF Active
    <2> SUFFICES ASSUME NEW a \in Dirs, next_stamps[a] = stamp'[a]
                 PROVE  /\ \A x \in Files : Home[x] = a /\ version'[x] # 0 =>
                              x \notin doubted \cup dropped /\ (x \in found \/ tasks[x] # 0 \/ rows[x] # 0)
                        /\ \A c \in Dirs \ {Root} : Parent[c] = a /\ c \notin away' =>
                              next_stamps[c] # 0 \/ c \in Active
      BY <2>1, <2>2 DEF WalkCertifies
    <2>3. stamp'[a] # stamp[a] + 1
      BY DEF StampInv
    <2> HIDE DEF WalkInv
    <2>4. WalkTypeOK /\ WalkCertifies
      BY DEF WalkInv
    <2> HIDE DEF WalkTypeOK
    <2>5. /\ stamp'[a] = stamp[a]
          /\ \A x \in Files : Home[x] = a /\ version'[x] # 0 => version[x] # 0
          /\ \A c \in Dirs \ {Root} : Parent[c] = a => (c \in away' <=> c \in away)
      BY <1>1, <2>3, <2>4, TreeStep
    <2> QED
      BY <2>4, <2>5 DEF WalkCertifies
  <1>2. ASSUME NEW p \in Procs, StartReplay(p) PROVE WalkCertifies'
    BY <1>2 DEF StartReplay, tree, checkpoint, walk, work, WalkCertifies, Active
  <1>3. ASSUME NEW p \in Procs, Refresh(p) \/ Rebuild(p) PROVE WalkCertifies'
    <2>1. next_stamps' = NoStamps /\ stamp' = stamp
      BY <1>3 DEF Refresh, Rebuild, tree, PhaseInv
    <2> QED
      BY <2>1 DEF WalkCertifies, NoStamps
  <1>4. ASSUME NEW b \in Dirs, next_stamps' = Forget(b),
               UNCHANGED <<version, away, stamp, rows, tasks, doubted, dropped>>,
               found \subseteq found', Active \subseteq Active' \cup {b}
        PROVE  WalkCertifies'
    <2> SUFFICES ASSUME NEW a \in Dirs, Forget(b)[a] = stamp[a]
                 PROVE  /\ \A x \in Files : Home[x] = a /\ version[x] # 0 =>
                              x \notin doubted \cup dropped /\ (x \in found' \/ tasks[x] # 0 \/ rows[x] # 0)
                        /\ \A c \in Dirs \ {Root} : Parent[c] = a /\ c \notin away =>
                              Forget(b)[c] # 0 \/ c \in Active'
      BY <1>4 DEF WalkCertifies
    <2> HIDE DEF WalkInv
    <2>1. WalkTypeOK /\ WalkCertifies /\ Forget(b)[a] # 0
      BY DEF WalkInv
    <2> HIDE DEF WalkTypeOK
    <2>2. /\ Forget(b)[a] = next_stamps[a]
          /\ \A c \in Dirs \ {Root} : Parent[c] = a =>
                 c # b /\ (next_stamps[c] # 0 => Forget(b)[c] # 0)
      BY <2>1, ForgetClosed
    <2> QED
      BY <1>4, <2>1, <2>2 DEF WalkCertifies
  <1>5. ASSUME NEW b \in Dirs, VisitMissing(b) PROVE WalkCertifies'
    <2>1. Active \subseteq Active' \cup {b}
      BY <1>5 DEF VisitMissing, Active
    <2> QED
      BY <1>4, <1>5, <2>1 DEF VisitMissing, tree, checkpoint, work
  <1>6. ASSUME NEW b \in Dirs, Reuse(b) PROVE WalkCertifies'
    <2>1. UNCHANGED <<version, away, stamp, rows, stamps, tasks, doubted, dropped>> /\ doubted \cup dropped = {}
      BY <1>6 DEF Reuse, Visiting, tree, checkpoint, work, PhaseInv
    <2>2. /\ Active \subseteq Active' \cup {b} /\ found \subseteq found'
          /\ \A c \in Dirs \ {Root} : Parent[c] = b /\ stamps[c] # 0 => c \in Active'
          /\ \A x \in Files : Home[x] = b /\ rows[x] # 0 => x \in found'
      BY <1>6 DEF Reuse, Visiting, Active
    <2>3. stamps[b] = stamp[b]
      BY <1>6 DEF Reuse
    <2>4. \A a \in Dirs : next_stamps'[a] = IF a = b THEN stamp[b] ELSE next_stamps[a]
      BY <1>6 DEF Reuse
    <2>5. stamp[b] # 0 /\ StampsCertify /\ WalkCertifies
      OBVIOUS
    <2> HIDE DEF WalkInv, WalkTypeOK
    <2>6. ASSUME NEW a \in Dirs, next_stamps'[a] = stamp[a], a = b
          PROVE  /\ \A x \in Files : Home[x] = a /\ version[x] # 0 =>
                       x \notin doubted \cup dropped /\ (x \in found' \/ tasks[x] # 0 \/ rows[x] # 0)
                 /\ \A c \in Dirs \ {Root} : Parent[c] = a /\ c \notin away =>
                       next_stamps'[c] # 0 \/ c \in Active'
      BY <2>1, <2>2, <2>3, <2>5, <2>6 DEF StampsCertify
    <2>7. ASSUME NEW a \in Dirs, next_stamps'[a] = stamp[a], a # b
          PROVE  /\ \A x \in Files : Home[x] = a /\ version[x] # 0 =>
                       x \notin doubted \cup dropped /\ (x \in found' \/ tasks[x] # 0 \/ rows[x] # 0)
                 /\ \A c \in Dirs \ {Root} : Parent[c] = a /\ c \notin away =>
                       next_stamps'[c] # 0 \/ c \in Active'
      BY <2>2, <2>4, <2>5, <2>7 DEF WalkCertifies
    <2> QED
      BY <2>1, <2>6, <2>7 DEF WalkCertifies
  <1>7. ASSUME NEW b \in Dirs, Capture(b) PROVE WalkCertifies'
    <2>1. captured' # None /\ captured'.dir = b
      BY <1>7, NonesTyped DEF Capture
    <2>2. Active \subseteq Active'
      BY <1>7, <2>1 DEF Capture, Visiting, Active
    <2> QED
      BY <1>7, <2>2 DEF Capture, tree, checkpoint, work, WalkCertifies
  <1>8. CASE Enumerate
    <2> DEFINE b == captured.dir
    <2>1. b \in Dirs /\ captured.stamp # 0
      BY <1>8 DEF Enumerate, PhaseInv
    <2>2. UNCHANGED <<version, away, stamp, rows, stamps, tasks, doubted, dropped>> /\ doubted \cup dropped = {}
      BY <1>8 DEF Enumerate, tree, checkpoint, work, PhaseInv
    <2>3. /\ Active \subseteq Active' \cup {b} /\ found \subseteq found'
          /\ \A c \in Dirs \ {Root} : Parent[c] = b /\ c \notin away => c \in Active'
          /\ \A x \in Files : Home[x] = b /\ version[x] # 0 => x \in found'
      BY <1>8 DEF Enumerate, Active, FilesIn, DirsIn
    <2>4. \A a \in Dirs : next_stamps'[a] = IF a = b THEN captured.stamp ELSE next_stamps[a]
      BY <1>8 DEF Enumerate
    <2>5. WalkCertifies
      OBVIOUS
    <2> HIDE DEF WalkInv, WalkTypeOK, b
    <2> QED
      BY <2>1, <2>2, <2>3, <2>4, <2>5 DEF WalkCertifies
  <1>9. CASE EnumerateFails
    <2>1. captured.dir \in Dirs
      OBVIOUS
    <2>2. Active \subseteq Active' \cup {captured.dir} /\ found \subseteq found'
      BY <1>9 DEF EnumerateFails, Active
    <2>3. next_stamps' = Forget(captured.dir)
      BY <1>9 DEF EnumerateFails
    <2>4. UNCHANGED <<version, away, stamp, rows, tasks, doubted, dropped>>
      BY <1>9 DEF EnumerateFails, tree, checkpoint, work
    <2> QED
      BY <1>4, <2>1, <2>2, <2>3, <2>4
  <1>10. ASSUME WalkDone \/ Examined \/ Swept PROVE WalkCertifies'
    <2>1. UNCHANGED <<version, away, stamp, rows, next_stamps, found, tasks, doubted, dropped, pending,
                      captured>>
      BY <1>10 DEF WalkDone, Examined, Swept, tree, checkpoint, walk, work
    <2> QED
      BY <2>1 DEF WalkCertifies, Active
  <1>11. ASSUME NEW y \in Files, Examine(y) \/ StatFile(y) \/ StatParent(y) \/ Skip(y)
         PROVE  WalkCertifies'
    <2>1. UNCHANGED <<version, away, stamp, rows, next_stamps, pending, captured>>
      BY <1>11 DEF Examine, StatFile, StatParent, Skip, tree, checkpoint, walk
    <2>2. Active' = Active
      BY <2>1 DEF Active
    <2>3. ASSUME NEW x \in Files, version[x] # 0, next_stamps[Home[x]] = stamp[Home[x]],
                 x \notin doubted \cup dropped, x \in found \/ tasks[x] # 0 \/ rows[x] # 0
          PROVE  x \notin doubted' \cup dropped' /\ (x \in found' \/ tasks'[x] # 0 \/ rows[x] # 0)
      <3>0. Visible(x)
        BY <2>3 DEF ReachInv, Visible
      <3>1. CASE Examine(y)
        BY <2>3, <3>0, <3>1 DEF Examine
      <3>2. CASE StatFile(y)
        BY <2>3, <3>0, <3>2 DEF StatFile
      <3>3. CASE StatParent(y)
        BY <2>3, <3>3 DEF StatParent
      <3>4. CASE Skip(y)
        BY <2>3, <3>0, <3>4 DEF Skip
      <3> QED
        BY <1>11, <3>1, <3>2, <3>3, <3>4
    <2> HIDE DEF WalkTypeOK
    <2> QED
      BY <2>1, <2>2, <2>3 DEF WalkCertifies
  <1>12. ASSUME Commit \/ Abort PROVE WalkCertifies'
    <2>1. next_stamps' = NoStamps /\ stamp' = stamp
      BY <1>12 DEF Commit, Abort, Clear, tree
    <2> QED
      BY <2>1 DEF WalkCertifies, NoStamps
  <1> QED
    BY <1>1, <1>2, <1>3, <1>5, <1>6, <1>7, <1>8, <1>9, <1>10, <1>11, <1>12 DEF Next

\* The walk's invariant is inductive.
LEMMA WalkStep ==
    ASSUME ~LateRenames, ~IndexLoss, WalkInv, [Next]_vars
    PROVE  WalkInv'
  <1>1. CASE Next
    <2>1. WalkTypeOK /\ PhaseInv /\ StampInv /\ ReachInv
      BY DEF WalkInv
    <2>2. WalkTypeOK' /\ PhaseInv' /\ StampInv' /\ ReachInv'
      BY <1>1, <2>1, TypeStep, PhaseStep, StampStep, ReachStep
    <2>3. StampsCertify' /\ WalkCertifies'
      BY <1>1, StampsStep, WalkCertifiesStep
    <2> QED
      BY <2>2, <2>3 DEF WalkInv
  <1>2. CASE UNCHANGED vars
    <2>1. UNCHANGED <<version, away, stamp, log, rows, stamps, cursor, journal, lease, pc, full,
                      clears, pending, captured, next_stamps, found, tasks, sweep, doubted,
                      dropped, next_cursor, quiet, changes, faults>>
      BY <1>2 DEF vars, tree, checkpoint, walk, work
    <2>2. WalkTypeOK' /\ StampInv' /\ StampsCertify'
      BY <2>1 DEF WalkInv, WalkTypeOK, StampInv, StampsCertify
    <2>3. PhaseInv' /\ ReachInv' /\ WalkCertifies'
      BY <2>1 DEF WalkInv, PhaseInv, ReachInv, WalkCertifies, Reachable, Active
    <2> QED
      BY <2>2, <2>3 DEF WalkInv
  <1> QED
    BY <1>1, <1>2

(* StampedWalk::files and finish: a stamp, committed or about to be,       *)
(* vouches for the files and the directories that were there when it was   *)
(* taken, whatever fails, is moved or comes and goes around it.            *)
THEOREM WalkInvariant == ~LateRenames /\ ~IndexLoss /\ Spec => []WalkInv
  <1> SUFFICES ASSUME ~LateRenames, ~IndexLoss PROVE Spec => []WalkInv
    OBVIOUS
  <1>1. WalkInv /\ [Next]_vars => WalkInv'
    BY WalkStep
  <1> QED
    BY <1>1, InitWalk, PTL DEF Spec

(* A directory whose committed stamp is its present one, which the next    *)
(* full scan does not enumerate (StampedWalk::files), holds no transcript  *)
(* without a row and no directory without a stamp.                         *)
THEOREM NothingIsHidden == ~LateRenames /\ ~IndexLoss /\ Spec => []NothingHidden
  <1>1. WalkInv => NothingHidden
    BY DEF WalkInv, StampsCertify, NothingHidden
  <1> QED
    BY <1>1, WalkInvariant, PTL

-----------------------------------------------------------------------------
\* The steps of a refresh between its start and its end.
Working ==
    \/ \E a \in Dirs : VisitMissing(a) \/ Reuse(a) \/ Capture(a)
    \/ Enumerate \/ EnumerateFails \/ WalkDone
    \/ \E x \in Files : Examine(x) \/ StatFile(x) \/ StatParent(x) \/ Skip(x)
    \/ Examined \/ Swept

\* They touch neither the tree nor the checkpoint nor a replay.
LEMMA WorkFrame ==
    ASSUME Working
    PROVE  UNCHANGED <<version, away, stamp, log, rows, stamps, cursor, journal, full, next_cursor>>
           /\ pc # "idle"
  <1>1. CASE \E a \in Dirs : VisitMissing(a) \/ Reuse(a) \/ Capture(a)
    BY <1>1 DEF VisitMissing, Reuse, Capture, Visiting, tree, checkpoint, work
  <1>2. CASE Enumerate \/ EnumerateFails \/ WalkDone \/ Examined \/ Swept
    BY <1>2 DEF Enumerate, EnumerateFails, WalkDone, Examined, Swept, tree, checkpoint, work
  <1>3. CASE \E x \in Files : Examine(x) \/ StatFile(x) \/ StatParent(x) \/ Skip(x)
    BY <1>3 DEF Examine, StatFile, StatParent, Skip, tree, checkpoint
  <1> QED
    BY <1>1, <1>2, <1>3 DEF Working

\* What is quiet since an event is quiet since a later one.
LEMMA QuietLater ==
    ASSUME WalkTypeOK, NEW x \in Files, NEW k \in Nat, NEW m \in Nat, k <= m, Quiet(x, k)
    PROVE  Quiet(x, m)
  BY DEF Quiet, WalkTypeOK

\* A change to the tree that x is quiet about is none to x.
LEMMA TreeQuiet ==
    ASSUME WalkTypeOK,
           \/ \E y \in Files : Write(y) \/ Create(y) \/ Remove(y)
           \/ \E a \in Movable : Rename(a),
           NEW x \in Files, NEW k \in Nat \ {0}, k <= Len(log) + 1, Quiet(x, k)'
    PROVE  Quiet(x, k) /\ version'[x] = version[x] /\ (Visible(x)' <=> Visible(x))
  <1>1. PICK y \in Files \cup Dirs : /\ log' = Append(log, y)
                                     /\ \/ y \in Files /\ (Write(y) \/ Create(y) \/ Remove(y))
                                        \/ y \in Movable /\ Rename(y)
    BY DiscoveryConstants DEF Write, Create, Remove, Rename, Changes
  <1>2. Len(log) \in Nat /\ Len(log') = Len(log) + 1 /\ log'[Len(log) + 1] = y
        /\ \A i \in 1..Len(log) : log'[i] = log[i]
    <2>1. log \in Seq(Files \cup Dirs) /\ log' = Append(log, y)
      BY <1>1 DEF WalkTypeOK
    <2> QED
      BY <2>1
  <1>3. y # x /\ y \notin Above[Home[x]]
    <2>1. Len(log) + 1 \in k..Len(log')
      BY <1>2
    <2>2. \A i \in k..Len(log') : log'[i] # x /\ log'[i] \notin Above[Home[x]]
      BY DEF Quiet
    <2> QED
      BY <1>2, <2>1, <2>2
  <1>4. Quiet(x, k)
    BY <1>2 DEF Quiet
  <1>5. version'[x] = version[x]
    BY <1>1, <1>3 DEF WalkTypeOK, Write, Create, Remove, Rename
  <1>6. \A c \in Above[Home[x]] : c \in away' <=> c \in away
    <2>1. CASE Write(y) \/ Create(y) \/ Remove(y)
      BY <2>1 DEF Write, Create, Remove
    <2>2. CASE Rename(y)
      BY <1>3, <2>2 DEF Rename
    <2> QED
      BY <1>1, <2>1, <2>2
  <1>7. Reachable(Home[x])' <=> Reachable(Home[x])
    BY <1>6 DEF Reachable
  <1> QED
    BY <1>4, <1>5, <1>7 DEF Visible

\* A file that is there stays looked at.
LEMMA LooksStep ==
    ASSUME WalkInv, Working, NEW x \in Files, Visible(x), LooksAt(x)
    PROVE  LooksAt(x)'
  <1> USE DEF WalkInv, WalkTypeOK, LooksAt
  <1>0. UNCHANGED <<version, away, stamp, log, rows, stamps, cursor, journal, full, next_cursor>>
    BY WorkFrame
  <1>1. ASSUME doubted' = doubted, dropped' = dropped, tasks' = tasks, found \subseteq found',
               next_stamps'[Home[x]] # 0 => next_stamps[Home[x]] # 0 \/ x \in found' \/ rows[x] = version[x]
        PROVE  LooksAt(x)'
    BY <1>0, <1>1
  <1>2. Home[x] \in Dirs /\ version[x] # 0 /\ Reachable(Home[x])
    BY DiscoveryConstants DEF Visible
  <1>3. ASSUME NEW b \in Dirs, Forget(b)[Home[x]] # 0 PROVE next_stamps[Home[x]] # 0
    BY <1>2, <1>3 DEF Forget
  <1>4. ASSUME NEW b \in Dirs, VisitMissing(b) PROVE LooksAt(x)'
    BY <1>1, <1>3, <1>4 DEF VisitMissing, work
  <1>5. ASSUME NEW b \in Dirs, Reuse(b) PROVE LooksAt(x)'
    <2>1. b = Home[x] => rows[x] # 0
      BY <1>2, <1>5 DEF Reuse, StampsCertify
    <2>2. next_stamps'[Home[x]] # 0 => next_stamps[Home[x]] # 0 \/ x \in found'
      BY <1>2, <1>5, <2>1 DEF Reuse
    <2> QED
      BY <1>1, <1>5, <2>2 DEF Reuse, work
  <1>6. ASSUME NEW b \in Dirs, Capture(b) PROVE LooksAt(x)'
    BY <1>1, <1>6 DEF Capture, work
  <1>7. CASE Enumerate
    <2>1. next_stamps'[Home[x]] # 0 => next_stamps[Home[x]] # 0 \/ x \in found'
      BY <1>2, <1>7 DEF Enumerate, FilesIn
    <2> QED
      BY <1>1, <1>7, <2>1 DEF Enumerate, work
  <1>8. CASE EnumerateFails
    <2>1. captured.dir \in Dirs /\ found \subseteq found'
      BY <1>8 DEF EnumerateFails
    <2> QED
      BY <1>1, <1>3, <1>8, <2>1 DEF EnumerateFails, work
  <1>9. CASE WalkDone \/ Examined \/ Swept
    BY <1>1, <1>9 DEF WalkDone, Examined, Swept, walk, work
  <1>10. ASSUME NEW y \in Files, Examine(y) PROVE LooksAt(x)'
    <2>1. UNCHANGED <<doubted, dropped, next_stamps>> /\ found' = found \ {y}
      BY <1>10 DEF Examine, walk
    <2>2. x # y => tasks'[x] = tasks[x]
      BY <1>10 DEF Examine
    <2>3. x = y /\ rows[x] # version[x] => tasks'[x] = version[x]
      BY <1>10 DEF Examine
    <2>4. x = y /\ rows[x] = version[x] => tasks'[x] \in {tasks[x], version[x]}
      BY <1>10 DEF Examine
    <2> QED
      BY <1>0, <2>1, <2>2, <2>3, <2>4
  <1>11. ASSUME NEW y \in Files, StatFile(y) \/ StatParent(y) PROVE LooksAt(x)'
    <2>1. UNCHANGED <<tasks, next_stamps, found>> /\ x \notin doubted' \cup dropped'
      BY <1>11 DEF StatFile, StatParent, walk
    <2> QED
      BY <1>0, <2>1
  <1>12. ASSUME NEW y \in Files, Skip(y) PROVE LooksAt(x)'
    <2>1. UNCHANGED <<doubted, dropped, next_stamps, found>> /\ tasks'[x] = tasks[x]
      BY <1>12 DEF Skip, walk
    <2> QED
      BY <1>0, <2>1
  <1> QED
    BY <1>4, <1>5, <1>6, <1>7, <1>8, <1>9, <1>10, <1>11, <1>12 DEF Working

\* A stale file that a narrowed refresh has found stays so until it is a task.
LEMMA FoundStep ==
    ASSUME WalkInv, Working, ~full, NEW x \in Files, Stale(x),
           x \in found \/ tasks[x] = version[x]
    PROVE  x \in found' \/ tasks'[x] = version[x]
  <1> USE DEF WalkInv, WalkTypeOK
  <1>1. pc \in {"examine", "parse"}
    BY WorkFrame DEF PhaseInv, Phases
  <1>2. \/ \E y \in Files : Examine(y) \/ Skip(y)
        \/ Examined
    BY <1>1 DEF Working, VisitMissing, Reuse, Capture, Visiting, Enumerate, EnumerateFails,
       WalkDone, StatFile, StatParent, Swept
  <1>3. ASSUME NEW y \in Files, Examine(y) PROVE x \in found' \/ tasks'[x] = version[x]
    BY <1>3 DEF Examine, Stale
  <1>4. ASSUME NEW y \in Files, Skip(y) PROVE x \in found' \/ tasks'[x] = version[x]
    BY <1>4 DEF Skip, Stale
  <1>5. CASE Examined
    BY <1>5 DEF Examined
  <1> QED
    BY <1>2, <1>3, <1>4, <1>5

\* In the initial state there are no events and nothing has been replayed.
LEMMA InitEvents == Init => EventsInv
  BY NonesTyped DEF Init, EventsInv, CursorInv, HintsInv, JournalCovers

\* A change to the tree is an event.
LEMMA EventsTree ==
    ASSUME WalkInv, EventsInv,
           \/ \E y \in Files : Write(y) \/ Create(y) \/ Remove(y)
           \/ \E a \in Movable : Rename(a)
    PROVE  EventsInv'
  <1>0. UNCHANGED <<rows, stamps, cursor, journal, pc, next_stamps, found, full, tasks, doubted, dropped,
                    next_cursor>>
    BY TreeFrame
  <1>1. WalkTypeOK
    BY DEF WalkInv
  <1>2. PICK y : log' = Append(log, y)
    BY DEF Write, Create, Remove, Rename, Changes
  <1>3. Len(log) \in Nat /\ Len(log') = Len(log) + 1 /\ \A i \in 1..Len(log) : log'[i] = log[i]
    BY <1>1, <1>2 DEF WalkTypeOK
  <1>4. cursor \in Nat /\ next_cursor \in Nat /\ \A p \in Procs : journal[p].next \in Nat
    BY <1>1 DEF WalkTypeOK
  <1>5. CursorInv'
    BY <1>0, <1>3, <1>4 DEF EventsInv, CursorInv
  <1>6. ASSUME NEW x \in Files, NEW k \in Nat \ {0}, k <= Len(log) + 1, Quiet(x, k)'
        PROVE  Quiet(x, k) /\ (Visible(x)' <=> Visible(x)) /\ version'[x] = version[x]
               /\ (Stale(x)' <=> Stale(x)) /\ (Certified(x)' <=> Certified(x))
    <2>1. Quiet(x, k) /\ version'[x] = version[x] /\ (Visible(x)' <=> Visible(x))
      BY <1>1, <1>6, TreeQuiet
    <2> QED
      BY <1>0, <2>1 DEF Stale, Certified
  <1>7. HintsInv'
    <2> SUFFICES ASSUME NEW p \in Procs, journal[p].usable, NEW x \in Files,
                        Stale(x)', Certified(x)', Quiet(x, journal[p].next)'
                 PROVE  x \in journal[p].hints \/ Above[Home[x]] \cap journal[p].hints # {}
      BY <1>0 DEF HintsInv
    <2> DEFINE n == journal[p].next
    <2>1. n \in Nat \ {0} /\ n <= Len(log) + 1 /\ n' = n
      BY <1>0, <1>4 DEF EventsInv, CursorInv
    <2>2. Quiet(x, n)'
      BY <2>1
    <2>3. \A i \in n..Len(log') : log'[i] # x /\ log'[i] \notin Above[Home[x]]
      BY <2>1, <2>2 DEF Quiet
    <2> HIDE DEF n
    <2>4. PICK k \in Nat \ {0} : k = n
      BY <2>1
    <2>5. Quiet(x, k)'
      BY <2>3, <2>4 DEF Quiet
    <2>6. Quiet(x, k) /\ Stale(x) /\ Certified(x)
      BY <1>6, <2>1, <2>4, <2>5
    <2> QED
      BY <2>4, <2>6 DEF n, EventsInv, HintsInv
  <1>8. JournalCovers'
    <2> SUFFICES ASSUME cursor # 0, NEW x \in Files, Stale(x)', Certified(x)', ~Replayed(x)'
                 PROVE  FALSE
      BY <1>0 DEF JournalCovers, Certified
    <2>1. PICK k \in Nat \ {0} : k = cursor
      BY <1>4
    <2>2. Quiet(x, k)'
      BY <1>0, <2>1 DEF Quiet, Replayed
    <2>3. k <= Len(log) + 1
      BY <2>1 DEF EventsInv, CursorInv
    <2>4. Quiet(x, k) /\ Stale(x) /\ Certified(x)
      BY <1>6, <2>2, <2>3
    <2> QED
      BY <2>1, <2>4 DEF Quiet, Replayed, EventsInv, JournalCovers, Certified
  <1>9. ASSUME NEW k \in Nat \ {0}, BegunAt(k) PROVE BegunAt(k)'
    <2>1. cursor <= k /\ next_cursor <= k /\ k <= Len(log) + 1
      BY <1>9 DEF BegunAt
    <2>2. k <= Len(log') + 1
      BY <1>3, <2>1
    <2>3. ASSUME NEW x \in Files, Visible(x)', Quiet(x, k)' PROVE LooksAt(x)'
      <3>1. Visible(x) /\ Quiet(x, k) /\ version'[x] = version[x]
        BY <1>6, <2>1, <2>3
      <3>2. LooksAt(x)
        BY <1>9, <3>1 DEF BegunAt
      <3> QED
        BY <1>0, <3>1, <3>2 DEF LooksAt
    <2>4. ASSUME NEW p \in Procs, journal[p].usable, k < journal[p].next,
                 NEW i \in k..(journal[p].next - 1)
          PROVE  log'[i] \in journal[p].hints
      <3>1. log[i] \in journal[p].hints
        BY <1>9, <2>4 DEF BegunAt
      <3>2. i \in 1..Len(log)
        BY <1>3, <1>4, <2>4 DEF EventsInv, CursorInv
      <3> QED
        BY <1>3, <3>1, <3>2
    <2>5. ASSUME ~full, next_cursor # 0, NEW x \in Files,
                 Stale(x)', Certified(x)', Quiet(x, next_cursor)'
          PROVE  x \in found \/ tasks[x] = version'[x]
      <3>1. PICK m \in Nat \ {0} : m = next_cursor
        BY <1>4, <2>5
      <3>2. Quiet(x, m)'
        BY <1>0, <2>5, <3>1 DEF Quiet
      <3>3. m <= Len(log) + 1
        BY <1>3, <2>1, <3>1
      <3>4. Quiet(x, m) /\ Stale(x) /\ Certified(x) /\ version'[x] = version[x]
        BY <1>6, <2>5, <3>2, <3>3
      <3> QED
        BY <1>9, <2>5, <3>1, <3>4 DEF BegunAt
    <2> QED
      BY <1>0, <2>1, <2>2, <2>3, <2>4, <2>5 DEF BegunAt
  <1> QED
    BY <1>0, <1>5, <1>7, <1>8, <1>9 DEF EventsInv

\* A replay that starts takes the events since the cursor.
LEMMA EventsReplay ==
    ASSUME WalkInv, EventsInv, NEW p \in Procs, StartReplay(p)
    PROVE  EventsInv'
  <1>0. UNCHANGED <<version, away, log, rows, stamps, cursor, pc, next_stamps, found, full, tasks,
                    doubted, dropped, next_cursor>>
    BY DEF StartReplay, tree, checkpoint, walk, work
  <1>1. WalkTypeOK
    BY DEF WalkInv
  <1>2. Len(log) \in Nat /\ cursor \in Nat
    BY <1>1 DEF WalkTypeOK
  <1>3. /\ \A q \in Procs \ {p} : journal'[q] = journal[q]
        /\ journal'[p].next = Len(log) + 1
        /\ journal'[p].usable => cursor # 0
        /\ journal'[p].usable => journal'[p].hints = ReplayHints
    BY <1>1 DEF StartReplay, WalkTypeOK
  <1>4. CursorInv'
    BY <1>0, <1>2, <1>3 DEF EventsInv, CursorInv
  <1>5. \A x \in Files : (Stale(x)' <=> Stale(x)) /\ (Certified(x)' <=> Certified(x))
                         /\ (Visible(x)' <=> Visible(x))
    BY <1>0 DEF Stale, Visible, Reachable, Certified
  <1>6. HintsInv'
    <2> SUFFICES ASSUME NEW q \in Procs, journal'[q].usable, NEW x \in Files,
                        Stale(x), Certified(x), Quiet(x, journal[q].next)'
                 PROVE  x \in journal'[q].hints \/ Above[Home[x]] \cap journal'[q].hints # {}
      BY <1>5 DEF HintsInv
    <2>1. CASE q = p
      <3>1. cursor # 0 /\ journal'[q].hints = ReplayHints
        BY <1>3, <2>1
      <3>2. PICK i \in cursor..Len(log) : log[i] = x \/ log[i] \in Above[Home[x]]
        BY <3>1 DEF EventsInv, JournalCovers, Replayed, Certified
      <3> QED
        BY <3>1, <3>2 DEF ReplayHints
    <2>2. CASE q # p
      <3>1. journal'[q] = journal[q]
        BY <1>3, <2>2
      <3>2. Quiet(x, journal[q].next)
        BY <1>0, <3>1 DEF Quiet
      <3> QED
        BY <3>1, <3>2 DEF EventsInv, HintsInv
    <2> QED
      BY <2>1, <2>2
  <1>7. JournalCovers'
    BY <1>0, <1>5 DEF EventsInv, JournalCovers, Replayed, Certified
  <1>8. ASSUME NEW k \in Nat \ {0}, BegunAt(k) PROVE BegunAt(k)'
    <2>1. cursor <= k
      BY <1>8 DEF BegunAt
    <2>2. ASSUME NEW x \in Files, Visible(x), Quiet(x, k)' PROVE LooksAt(x)'
      <3>1. Quiet(x, k)
        BY <1>0, <2>2 DEF Quiet
      <3>2. LooksAt(x)
        BY <1>8, <2>2, <3>1 DEF BegunAt
      <3> QED
        BY <1>0, <3>2 DEF LooksAt
    <2>3. ASSUME NEW q \in Procs, journal'[q].usable, k < journal'[q].next,
                 NEW i \in k..(journal'[q].next - 1)
          PROVE  log[i] \in journal'[q].hints
      <3>1. CASE q = p
        <4>1. journal'[q].next = Len(log) + 1 /\ journal'[q].hints = ReplayHints
          BY <1>3, <2>3, <3>1
        <4>2. i \in cursor..Len(log)
          BY <1>2, <2>1, <2>3, <4>1
        <4> QED
          BY <4>1, <4>2 DEF ReplayHints
      <3>2. CASE q # p
        BY <1>3, <1>8, <2>3, <3>2 DEF BegunAt
      <3> QED
        BY <3>1, <3>2
    <2>4. ASSUME ~full, next_cursor # 0, NEW x \in Files,
                 Stale(x), Certified(x), Quiet(x, next_cursor)'
          PROVE  x \in found \/ tasks[x] = version[x]
      <3>1. Quiet(x, next_cursor)
        BY <1>0, <2>4 DEF Quiet
      <3> QED
        BY <1>8, <2>4, <3>1 DEF BegunAt
    <2>5. cursor <= k /\ next_cursor <= k /\ k <= Len(log) + 1
      BY <1>8 DEF BegunAt
    <2> QED
      BY <1>0, <1>5, <2>2, <2>3, <2>4, <2>5 DEF BegunAt
  <1> QED
    BY <1>0, <1>4, <1>6, <1>7, <1>8 DEF EventsInv

\* A refresh begins after every event so far.
LEMMA EventsBegin ==
    ASSUME WalkInv, EventsInv, NEW p \in Procs, Refresh(p) \/ Rebuild(p)
    PROVE  EventsInv'
  <1>0. UNCHANGED <<version, away, log, next_stamps, tasks, doubted, dropped>>
    BY DEF Refresh, Rebuild, tree
  <1>1. WalkTypeOK /\ WalkTypeOK' /\ lease = NoProc
    <2>1. Next
      BY DEF Next
    <2> QED
      BY <2>1, TypeStep DEF WalkInv, Refresh, Rebuild
  <1>2. tasks = NoRows /\ doubted \cup dropped = {} /\ next_stamps = NoStamps /\ next_cursor = 0
    BY <1>1 DEF WalkInv, PhaseInv
  <1>3. Len(log) \in Nat /\ cursor \in Nat /\ cursor' \in Nat
    BY <1>1 DEF WalkTypeOK
  <1>4. \A q \in Procs : journal'[q].usable => journal'[q] = journal[q]
    BY <1>1, NonesTyped DEF Refresh, Rebuild, WalkTypeOK
  <1>5. \A q \in Procs : journal'[q].next \in {0, journal[q].next}
    BY <1>1, NonesTyped DEF Refresh, Rebuild, WalkTypeOK
  <1>6. \/ Refresh(p) /\ UNCHANGED <<rows, stamps, cursor>>
        \/ Rebuild(p) /\ cursor' = 0 /\ stamps' = NoStamps /\ next_cursor' = 0
    BY <1>2 DEF Refresh, Rebuild, checkpoint
  <1>7. CursorInv'
    BY <1>0, <1>3, <1>4, <1>5, <1>6 DEF EventsInv, CursorInv
  <1>8. ASSUME NEW x \in Files, Certified(x)'
        PROVE  Refresh(p) /\ Certified(x) /\ (Stale(x)' <=> Stale(x))
    <2>1. Home[x] \in Above[Home[x]] /\ Above[Home[x]] \subseteq Dirs
      BY AboveFacts, AboveClosed, DiscoveryConstants
    <2>2. Refresh(p) /\ UNCHANGED <<rows, stamps, cursor>>
      BY <1>6, <1>8, <2>1 DEF Certified, NoStamps
    <2> QED
      BY <1>0, <1>8, <2>2 DEF Certified, Stale, Visible, Reachable
  <1>9. HintsInv'
    <2> SUFFICES ASSUME NEW q \in Procs, journal'[q].usable, NEW x \in Files,
                        Stale(x)', Certified(x)', Quiet(x, journal[q].next)'
                 PROVE  x \in journal'[q].hints \/ Above[Home[x]] \cap journal'[q].hints # {}
      BY DEF HintsInv
    <2>1. journal'[q] = journal[q]
      BY <1>4
    <2>2. Quiet(x, journal[q].next)
      BY <1>0, <2>1 DEF Quiet
    <2> QED
      BY <1>8, <2>1, <2>2 DEF EventsInv, HintsInv
  <1>10. JournalCovers'
    <2> SUFFICES ASSUME NEW x \in Files, cursor' # 0, Stale(x)', Certified(x)'
                 PROVE  Replayed(x)'
      BY DEF JournalCovers, Certified
    <2>1. Stale(x) /\ Certified(x) /\ cursor' = cursor
      BY <1>6, <1>8
    <2> QED
      BY <1>0, <2>1 DEF EventsInv, JournalCovers, Certified, Replayed
  <1>11. PICK k \in Nat \ {0} : k = Len(log) + 1
    BY <1>3
  <1>12. cursor' <= k /\ next_cursor' <= k /\ k <= Len(log') + 1
    <2>1. cursor <= k /\ journal[p].next <= k
      BY <1>11 DEF EventsInv, CursorInv
    <2>2. next_cursor' \in {0, journal[p].next}
      BY <1>6 DEF Refresh, CursorOf
    <2> QED
      BY <1>0, <1>3, <1>6, <1>11, <2>1, <2>2
  <1>13. \A x \in Files : LooksAt(x)'
    BY <1>0, <1>2, DiscoveryConstants DEF LooksAt, NoRows, NoStamps
  <1>14. \A q \in Procs : journal'[q].usable => ~(k < journal'[q].next)
    <2>1. \A q \in Procs : journal[q].next <= Len(log) + 1 /\ journal[q].next \in Nat
      BY <1>1 DEF EventsInv, CursorInv, WalkTypeOK
    <2> QED
      BY <1>3, <1>4, <1>11, <2>1
  <1>15. ASSUME ~full', next_cursor' # 0, NEW x \in Files,
                Stale(x)', Certified(x)', Quiet(x, next_cursor)'
         PROVE  x \in found'
    <2>1. Refresh(p) /\ Certified(x) /\ Stale(x) /\ next_cursor' = journal[p].next
      BY <1>8, <1>15 DEF Refresh, CursorOf
    <2>2. PICK H \in SUBSET (Files \cup Dirs) : Narrowed(p, H) /\ found' = H \cap Files
      BY <1>15, <2>1 DEF Refresh
    <2>3. journal[p].usable /\ journal[p].hints \subseteq H /\ ~Resync(H)
      BY <2>2 DEF Narrowed
    <2>4. Quiet(x, journal[p].next)
      BY <1>0, <1>15, <2>1 DEF Quiet
    <2>5. x \in H \/ Above[Home[x]] \cap H # {}
      BY <2>1, <2>3, <2>4 DEF EventsInv, HintsInv
    <2>6. ASSUME NEW a \in Above[Home[x]], a \in H PROVE FALSE
      <3>1. Home[x] \in Dirs
        BY DiscoveryConstants
      <3>2. a \in Dirs /\ Above[a] \subseteq Above[Home[x]]
        BY <3>1, AboveClosed
      <3>3. Reachable(a)
        BY <2>1, <3>2 DEF Stale, Visible, Reachable
      <3> QED
        BY <2>3, <2>6, <3>2, <3>3 DEF Resync
    <2> QED
      BY <2>2, <2>5, <2>6
  <1>16. BegunAt(k)'
    BY <1>12, <1>13, <1>14, <1>15 DEF BegunAt
  <1> QED
    BY <1>7, <1>9, <1>10, <1>16 DEF EventsInv

\* A refresh at work.
LEMMA EventsWork ==
    ASSUME WalkInv, EventsInv, Working
    PROVE  EventsInv'
  <1>0. UNCHANGED <<version, away, stamp, log, rows, stamps, cursor, journal, full, next_cursor>>
        /\ pc # "idle"
    BY WorkFrame
  <1>1. CursorInv'
    BY <1>0 DEF EventsInv, CursorInv
  <1>2. \A x \in Files : (Stale(x)' <=> Stale(x)) /\ (Certified(x)' <=> Certified(x))
                         /\ (Visible(x)' <=> Visible(x))
    BY <1>0 DEF Stale, Visible, Reachable, Certified
  <1>3. HintsInv'
    BY <1>0, <1>2 DEF EventsInv, HintsInv, Quiet
  <1>4. JournalCovers'
    BY <1>0, <1>2 DEF EventsInv, JournalCovers, Replayed, Certified
  <1>5. PICK k \in Nat \ {0} : BegunAt(k)
    BY <1>0 DEF EventsInv
  <1>6. cursor' <= k /\ next_cursor' <= k /\ k <= Len(log') + 1
    BY <1>0, <1>5 DEF BegunAt
  <1>7. ASSUME NEW x \in Files, Visible(x), Quiet(x, k)' PROVE LooksAt(x)'
    <2>1. Quiet(x, k)
      BY <1>0, <1>7 DEF Quiet
    <2>2. LooksAt(x)
      BY <1>5, <1>7, <2>1 DEF BegunAt
    <2> QED
      BY <1>7, <2>2, LooksStep
  <1>8. \A p \in Procs : journal'[p].usable /\ k < journal'[p].next =>
            \A i \in k..(journal'[p].next - 1) : log'[i] \in journal'[p].hints
    BY <1>0, <1>5 DEF BegunAt
  <1>9. ASSUME ~full', next_cursor' # 0, NEW x \in Files,
               Stale(x)', Certified(x)', Quiet(x, next_cursor)'
        PROVE  x \in found' \/ tasks'[x] = version'[x]
    <2>1. Stale(x) /\ Certified(x) /\ Quiet(x, next_cursor) /\ ~full
      BY <1>0, <1>2, <1>9 DEF Quiet
    <2>2. x \in found \/ tasks[x] = version[x]
      BY <1>0, <1>5, <1>9, <2>1 DEF BegunAt
    <2> QED
      BY <1>0, <2>1, <2>2, FoundStep
  <1>10. BegunAt(k)'
    BY <1>2, <1>6, <1>7, <1>8, <1>9 DEF BegunAt
  <1> QED
    BY <1>1, <1>3, <1>4, <1>10 DEF EventsInv

\* What is stale after a commit is named by the events since the cursor it stored.
LEMMA EventsCommit ==
    ASSUME WalkInv, EventsInv, Commit
    PROVE  EventsInv'
  <1>0. UNCHANGED <<version, away, log, journal>> /\ pc' = "idle" /\ pc = "parse"
    BY DEF Commit, Clear, tree
  <1>1. WalkTypeOK /\ PhaseInv
    BY DEF WalkInv
  <1>2. PICK k \in Nat \ {0} : BegunAt(k)
    BY <1>0 DEF EventsInv
  <1>3. cursor <= k /\ next_cursor <= k /\ k <= Len(log) + 1 /\ cursor' \in {cursor, next_cursor}
        /\ (next_cursor = 0 => cursor' = cursor) /\ (next_cursor # 0 => cursor' = next_cursor)
    BY <1>2 DEF BegunAt, Commit
  <1>4. /\ cursor \in Nat /\ next_cursor \in Nat /\ cursor' \in Nat /\ Len(log) \in Nat
        /\ \A p \in Procs : journal[p].next \in Nat
    BY <1>1, <1>3 DEF WalkTypeOK
  <1>5. CursorInv'
    BY <1>0, <1>3, <1>4 DEF EventsInv, CursorInv
  <1>6. found = {} /\ ~clears /\ (~full => next_stamps = NoStamps)
    BY <1>0, <1>1 DEF PhaseInv
  <1>7. \A x \in Files : rows'[x] = IF tasks[x] # 0 THEN tasks[x]
                                    ELSE IF x \in dropped THEN 0 ELSE rows[x]
    BY <1>6 DEF Commit
  <1>8. \A a \in Dirs : stamps'[a] = IF full THEN next_stamps[a] ELSE stamps[a]
    BY <1>6 DEF Commit, KeptStamps, NoStamps
  <1>9. ASSUME NEW x \in Files, Stale(x)', Certified(x)', Quiet(x, k)
        PROVE  ~full /\ Stale(x) /\ Certified(x) /\ tasks[x] # version[x]
    <2>1. Visible(x) /\ rows'[x] # version[x] /\ version[x] # 0
      BY <1>0, <1>9 DEF Stale, Visible, Reachable
    <2>2. LooksAt(x)
      BY <1>2, <1>9, <2>1 DEF BegunAt
    <2>3. Home[x] \in Dirs /\ Home[x] \in Above[Home[x]] /\ Above[Home[x]] \subseteq Dirs
      BY AboveFacts, AboveClosed, DiscoveryConstants
    <2>4. tasks[x] = 0 /\ x \notin dropped /\ rows'[x] = rows[x]
      BY <1>7, <2>1, <2>2 DEF LooksAt
    <2>5. ~full
      BY <1>6, <1>8, <1>9, <2>1, <2>2, <2>3, <2>4 DEF LooksAt, Certified
    <2> QED
      BY <1>8, <1>9, <2>1, <2>3, <2>4, <2>5 DEF Stale, Certified
  <1>10. HintsInv'
    <2> SUFFICES ASSUME NEW p \in Procs, journal[p].usable, NEW x \in Files,
                        Stale(x)', Certified(x)', Quiet(x, journal[p].next)
                 PROVE  x \in journal[p].hints \/ Above[Home[x]] \cap journal[p].hints # {}
      BY <1>0 DEF HintsInv, Quiet
    <2>1. CASE Quiet(x, k)
      BY <1>9, <2>1 DEF EventsInv, HintsInv
    <2>2. CASE ~Quiet(x, k)
      <3>1. PICK i \in k..Len(log) : log[i] = x \/ log[i] \in Above[Home[x]]
        BY <2>2 DEF Quiet
      <3>2. i < journal[p].next
        BY <1>4, <3>1 DEF Quiet
      <3>3. k < journal[p].next /\ i \in k..(journal[p].next - 1)
        BY <1>4, <3>1, <3>2
      <3>4. log[i] \in journal[p].hints
        BY <1>2, <3>3 DEF BegunAt
      <3> QED
        BY <3>1, <3>4
    <2> QED
      BY <2>1, <2>2
  <1>11. JournalCovers'
    <2> SUFFICES ASSUME NEW x \in Files, cursor' # 0, Stale(x)', Certified(x)', ~Replayed(x)'
                 PROVE  FALSE
      BY DEF JournalCovers, Certified
    <2>1. PICK m \in Nat \ {0} : m = cursor'
      BY <1>4
    <2>2. Quiet(x, m)
      BY <1>0, <2>1 DEF Replayed, Quiet
    <2>3. m <= k
      BY <1>3, <2>1
    <2>4. Quiet(x, k)
      BY <1>1, <2>2, <2>3, QuietLater
    <2>5. ~full /\ Stale(x) /\ Certified(x) /\ tasks[x] # version[x]
      BY <1>9, <2>4
    <2>6. CASE next_cursor # 0
      BY <1>2, <1>3, <1>6, <2>1, <2>2, <2>5, <2>6 DEF BegunAt
    <2>7. CASE next_cursor = 0
      BY <1>3, <2>1, <2>2, <2>5, <2>7 DEF EventsInv, JournalCovers, Certified, Replayed, Quiet
    <2> QED
      BY <2>6, <2>7
  <1> QED
    BY <1>0, <1>5, <1>10, <1>11 DEF EventsInv

\* An end without a commit changes nothing that is kept.
LEMMA EventsAbort ==
    ASSUME EventsInv,
           UNCHANGED <<version, away, log, rows, stamps, cursor, journal>>,
           pc' = "idle" \/ UNCHANGED <<pc, full, next_stamps, found, tasks, doubted, dropped, next_cursor>>
    PROVE  EventsInv'
  <1>1. CursorInv'
    BY DEF EventsInv, CursorInv
  <1>2. \A x \in Files : (Stale(x)' <=> Stale(x)) /\ (Certified(x)' <=> Certified(x))
                         /\ (Visible(x)' <=> Visible(x))
    BY DEF Stale, Visible, Reachable, Certified
  <1>3. HintsInv'
    BY <1>2 DEF EventsInv, HintsInv, Quiet
  <1>4. JournalCovers'
    BY <1>2 DEF EventsInv, JournalCovers, Replayed, Certified
  <1>5. ASSUME NEW k \in Nat \ {0}, BegunAt(k),
               UNCHANGED <<pc, full, next_stamps, found, tasks, doubted, dropped, next_cursor>>
        PROVE  BegunAt(k)'
    BY <1>2, <1>5 DEF BegunAt, LooksAt, Quiet
  <1> QED
    BY <1>1, <1>3, <1>4, <1>5 DEF EventsInv

\* The invariant of the journal is inductive.
LEMMA EventsStep ==
    ASSUME WalkInv, EventsInv, [Next]_vars
    PROVE  EventsInv'
  <1>1. CASE Abort
    BY <1>1, EventsAbort DEF Abort, Clear, tree, checkpoint
  <1>2. CASE UNCHANGED vars
    BY <1>2, EventsAbort DEF vars, tree, checkpoint, walk, work
  <1> QED
    BY <1>1, <1>2, EventsTree, EventsReplay, EventsBegin, EventsWork, EventsCommit
       DEF Next, Working

(* journal.rs: the events since the committed cursor name every stale      *)
(* transcript below directories that are all certified, so that a refresh  *)
(* narrowed to them gets to it, however the replays of several processes   *)
(* and their refreshes interleave.                                         *)
THEOREM JournalAlwaysCovers == ~LateRenames /\ ~IndexLoss /\ Spec => []JournalCovers
  <1>1. WalkInv /\ EventsInv /\ [Next]_vars => EventsInv'
    BY EventsStep
  <1>2. EventsInv => JournalCovers
    BY DEF EventsInv
  <1> QED
    BY <1>1, <1>2, InitEvents, WalkInvariant, PTL DEF Spec

\* A directory is read, or is not there: what is below it is found, or has still a
\* directory above it that is to be read.
LEMMA QuietRead ==
    ASSUME WalkInv, NEW x \in Files, Visible(x), NEW b \in Dirs,
           x \in found \/ Above[Home[x]] \cap Active # {},
           found \subseteq found', Active \subseteq Active' \cup {b},
           Reachable(b) =>
               /\ Home[x] = b => x \in found'
               /\ \A c \in Dirs \ {Root} : Parent[c] = b /\ c \notin away => c \in Active'
    PROVE  x \in found' \/ Above[Home[x]] \cap Active' # {}
  <1>1. Home[x] \in Dirs /\ Reachable(Home[x])
    BY DiscoveryConstants DEF Visible
  <1>2. CASE b \notin Above[Home[x]]
    BY <1>2
  <1>3. CASE b \in Above[Home[x]]
    <2>1. Reachable(b)
      BY <1>1, <1>3, AboveClosed DEF Reachable
    <2>2. CASE b # Home[x]
      <3>1. PICK c \in Dirs \ {Root} : Parent[c] = b /\ c \in Above[Home[x]]
        BY <1>1, <1>3, <2>2, AboveChild
      <3>2. c \notin away
        BY <1>1, <3>1 DEF Reachable
      <3> QED
        BY <2>1, <3>1, <3>2
    <2> QED
      BY <2>1, <2>2
  <1> QED
    BY <1>2, <1>3

\* What a quiet refresh relies on, step by step.
LEMMA QuietStep ==
    ASSUME WalkInv, QuietInv, [Next]_vars
    PROVE  QuietInv'
  <1>0. WalkTypeOK /\ PhaseInv /\ StampsCertify
    BY DEF WalkInv
  <1> SUFFICES ASSUME quiet' PROVE QuietInv'
    BY DEF QuietInv
  <1>1. CASE \/ \E x \in Files : Write(x) \/ Create(x) \/ Remove(x)
             \/ \E a \in Movable : Rename(a)
    BY <1>1 DEF Write, Create, Remove, Rename, Changes
  <1>2. CASE Commit \/ Abort
    BY <1>2 DEF Commit, Abort, Clear
  <1>3. ASSUME UNCHANGED vars \/ \E p \in Procs : StartReplay(p) PROVE QuietInv'
    <2>1. UNCHANGED <<version, away, rows, pc, pending, captured, found, full, tasks, sweep,
                      doubted, dropped, quiet>>
      BY <1>3 DEF vars, StartReplay, tree, checkpoint, walk, work
    <2> QED
      BY <2>1 DEF QuietInv, WalkCovers, FoundCovers, WorkExact, SweepCovers, Visible, Reachable, Active
  <1>4. ASSUME NEW p \in Procs, Refresh(p) \/ Rebuild(p) PROVE QuietInv'
    <2>1. pc = "idle" /\ ~full
      BY <1>0, <1>4 DEF Refresh, Rebuild, PhaseInv
    <2>2. ~quiet
      BY <2>1 DEF QuietInv
    <2>3. tasks = NoRows /\ doubted = {} /\ dropped = {}
      BY <1>0, <2>1 DEF PhaseInv
    <2>4. full' /\ pc' = "walk" /\ Root \in pending' /\ UNCHANGED <<tasks, doubted, dropped>>
      BY <1>4, <2>2 DEF Refresh, Rebuild
    <2>5. \A x \in Files : Root \in Above[Home[x]]
      BY RootAbove, DiscoveryConstants
    <2> QED
      BY <2>3, <2>4, <2>5 DEF QuietInv, WalkCovers, FoundCovers, WorkExact, SweepCovers, Active, NoRows
  <1>5. ASSUME Working PROVE QuietInv'
    <2>0. UNCHANGED <<version, away, stamp, rows, stamps, full>>
      BY <1>5, WorkFrame
    <2>1. quiet
      BY <1>5 DEF Working, VisitMissing, Reuse, Capture, Enumerate, EnumerateFails, WalkDone,
         Examine, StatFile, StatParent, Skip, Examined, Swept
    <2>2. \A x \in Files : /\ Visible(x)' <=> Visible(x)
                           /\ Reachable(Home[x])' <=> Reachable(Home[x])
      BY <2>0 DEF Visible, Reachable
    <2>3. full /\ full'
      BY <2>0, <2>1 DEF QuietInv
    <2>a. WalkCovers /\ FoundCovers /\ WorkExact /\ SweepCovers
      BY <2>1 DEF QuietInv
    <2>b. doubted \subseteq Files /\ dropped \subseteq Files
      BY <1>0 DEF WalkTypeOK
    <2>4. ASSUME pc = "walk", pc' = "walk", UNCHANGED <<tasks, doubted, dropped>>,
                 \A x \in Files : Visible(x) => x \in found' \/ Above[Home[x]] \cap Active' # {}
          PROVE  QuietInv'
      <3>1. WorkExact'
        BY <2>0, <2>2, <2>4, <2>a, <2>b DEF WorkExact
      <3>2. WalkCovers' /\ FoundCovers' /\ SweepCovers'
        BY <2>2, <2>4 DEF WalkCovers, FoundCovers, SweepCovers
      <3> QED
        BY <2>3, <3>1, <3>2 DEF QuietInv
    <2>5. ASSUME NEW b \in Dirs, pc = "walk", UNCHANGED <<pc, tasks, doubted, dropped>>,
                 found \subseteq found', Active \subseteq Active' \cup {b},
                 Reachable(b) =>
                     /\ \A x \in Files : Home[x] = b /\ version[x] # 0 => x \in found'
                     /\ \A c \in Dirs \ {Root} : Parent[c] = b /\ c \notin away => c \in Active'
          PROVE  QuietInv'
      <3>1. ASSUME NEW x \in Files, Visible(x)
            PROVE  x \in found' \/ Above[Home[x]] \cap Active' # {}
        <4>1. x \in found \/ Above[Home[x]] \cap Active # {}
          BY <2>5, <2>a, <3>1 DEF WalkCovers
        <4>2. version[x] # 0
          BY <3>1 DEF Visible
        <4> QED
          BY <2>5, <3>1, <4>1, <4>2, QuietRead
      <3> QED
        BY <2>4, <2>5, <3>1
    <2>6. ASSUME NEW b \in Dirs, VisitMissing(b) PROVE QuietInv'
      <3>1. Active \subseteq Active' \cup {b}
        BY <2>6 DEF VisitMissing, Active
      <3> QED
        BY <2>5, <2>6, <3>1 DEF VisitMissing, Visiting, work
    <2>7. ASSUME NEW b \in Dirs, Reuse(b) PROVE QuietInv'
      <3>1. Active \subseteq Active' \cup {b} /\ found \subseteq found'
        BY <2>7 DEF Reuse, Active
      <3>2. \A x \in Files : Home[x] = b /\ version[x] # 0 => x \in found'
        BY <1>0, <2>7 DEF Reuse, StampsCertify
      <3>3. \A c \in Dirs \ {Root} : Parent[c] = b /\ c \notin away => c \in Active'
        BY <1>0, <2>7 DEF Reuse, StampsCertify, Active
      <3> QED
        BY <2>5, <2>7, <3>1, <3>2, <3>3 DEF Reuse, Visiting, work
    <2>8. ASSUME NEW b \in Dirs, Capture(b) PROVE QuietInv'
      <3>1. captured' # None /\ captured'.dir = b
        BY <1>0, <2>8, NonesTyped DEF Capture, WalkTypeOK
      <3>2. Active \subseteq Active'
        BY <2>8, <3>1 DEF Capture, Visiting, Active
      <3>3. pc = "walk" /\ UNCHANGED <<pc, found, tasks, doubted, dropped>>
        BY <2>8 DEF Capture, Visiting, work
      <3> QED
        BY <2>4, <2>a, <3>2, <3>3 DEF WalkCovers
    <2>9. CASE Enumerate
      <3>1. captured.dir \in Dirs
        BY <1>0 DEF WalkTypeOK
      <3>2. Active \subseteq Active' \cup {captured.dir} /\ found \subseteq found'
        BY <2>9 DEF Enumerate, Active
      <3>3. \A x \in Files : Home[x] = captured.dir /\ version[x] # 0 => x \in found'
        BY <2>9 DEF Enumerate, FilesIn
      <3>4. \A c \in Dirs \ {Root} : Parent[c] = captured.dir /\ c \notin away => c \in Active'
        BY <2>9 DEF Enumerate, DirsIn, Active
      <3> QED
        BY <2>5, <2>9, <3>1, <3>2, <3>3, <3>4 DEF Enumerate, work
    <2>10. CASE EnumerateFails
      <3>1. captured.dir \in Dirs
        BY <1>0 DEF WalkTypeOK
      <3>2. ~Reachable(captured.dir) /\ found' = found /\ pending' = pending
        BY <2>10 DEF EnumerateFails
      <3>3. Active \subseteq Active' \cup {captured.dir}
        BY <3>2 DEF Active
      <3> QED
        BY <2>5, <2>10, <3>1, <3>2, <3>3 DEF EnumerateFails, work
    <2>11. CASE WalkDone
      <3>1. Active = {} /\ pc = "walk" /\ pc' = "examine" /\ UNCHANGED <<found, tasks, doubted, dropped>>
        BY <2>11 DEF WalkDone, Active, work
      <3>2. \A x \in Files : Visible(x) => x \in found
        BY <2>a, <3>1 DEF WalkCovers
      <3>a. WalkCovers'
        BY <2>0, <2>2, <2>a, <3>1, <3>2 DEF WalkCovers
      <3>b. FoundCovers'
        BY <2>0, <2>2, <2>a, <3>1, <3>2 DEF FoundCovers
      <3>c. WorkExact'
        BY <2>0, <2>2, <2>a, <2>b, <3>1, <3>2 DEF WorkExact
      <3>d. SweepCovers'
        BY <2>0, <2>2, <2>a, <3>1, <3>2 DEF SweepCovers
      <3> QED
        BY <2>3, <3>a, <3>b, <3>c, <3>d DEF QuietInv
    <2>12. ASSUME NEW y \in Files, Examine(y) PROVE QuietInv'
      <3>1. pc = "examine" /\ pc' = pc /\ UNCHANGED <<doubted, dropped>> /\ found' = found \ {y} /\ ~clears
        BY <1>0, <2>12 DEF Examine, PhaseInv
      <3>2. \A x \in Files \ {y} : tasks'[x] = tasks[x]
        BY <1>0, <2>12 DEF Examine, WalkTypeOK
      <3>3. IF Visible(y) /\ rows[y] # version[y] THEN tasks'[y] = version[y]
                                                 ELSE tasks'[y] = tasks[y]
        BY <1>0, <2>12, <3>1 DEF Examine, WalkTypeOK
      <3>a. WalkCovers'
        BY <2>0, <2>2, <2>a, <3>1, <3>2, <3>3 DEF WalkCovers
      <3>b. FoundCovers'
        BY <2>0, <2>2, <2>a, <3>1, <3>2, <3>3 DEF FoundCovers
      <3>c. WorkExact'
        BY <2>0, <2>2, <2>a, <2>b, <3>1, <3>2, <3>3 DEF WorkExact
      <3>d. SweepCovers'
        BY <2>0, <2>2, <2>a, <3>1, <3>2, <3>3 DEF SweepCovers
      <3> QED
        BY <2>3, <3>a, <3>b, <3>c, <3>d DEF QuietInv
    <2>13. CASE Examined
      <3>1. pc = "examine" /\ pc' = "sweep" /\ UNCHANGED <<found, tasks, doubted, dropped>>
        BY <2>3, <2>13 DEF Examined
      <3>2. \A x \in Files : rows[x] # 0 => x \in sweep'
        BY <1>0, <2>3, <2>13 DEF Examined, PhaseInv
      <3>a. WalkCovers'
        BY <2>0, <2>2, <2>a, <3>1, <3>2 DEF WalkCovers
      <3>b. FoundCovers'
        BY <2>0, <2>2, <2>a, <3>1, <3>2 DEF FoundCovers
      <3>c. WorkExact'
        BY <2>0, <2>2, <2>a, <2>b, <3>1, <3>2 DEF WorkExact
      <3>d. SweepCovers'
        BY <2>0, <2>2, <2>a, <3>1, <3>2 DEF SweepCovers
      <3> QED
        BY <2>3, <3>a, <3>b, <3>c, <3>d DEF QuietInv
    <2>14. ASSUME NEW y \in Files, StatFile(y) PROVE QuietInv'
      <3>1. pc = "sweep" /\ pc' = pc /\ UNCHANGED <<found, tasks, dropped>> /\ sweep' = sweep \ {y}
            /\ doubted = {} /\ doubted' = IF Visible(y) THEN {} ELSE {y}
        BY <2>14 DEF StatFile
      <3>a. WalkCovers'
        BY <2>0, <2>2, <2>a, <3>1 DEF WalkCovers
      <3>b. FoundCovers'
        BY <2>0, <2>2, <2>a, <3>1 DEF FoundCovers
      <3>c. WorkExact'
        BY <2>0, <2>2, <2>a, <2>b, <3>1 DEF WorkExact
      <3>d. SweepCovers'
        BY <2>0, <2>2, <2>a, <3>1 DEF SweepCovers
      <3> QED
        BY <2>3, <3>a, <3>b, <3>c, <3>d DEF QuietInv
    <2>15. ASSUME NEW y \in Files, StatParent(y) PROVE QuietInv'
      <3>1. pc = "sweep" /\ pc' = pc /\ UNCHANGED <<found, tasks, sweep>> /\ doubted' = {}
            /\ y \in doubted
            /\ dropped' = IF Reachable(Home[y]) THEN dropped \cup {y} ELSE dropped
        BY <2>15 DEF StatParent, ConfirmedMissing
      <3>2. doubted = {y}
        BY <1>0, <3>1 DEF PhaseInv
      <3>a. WalkCovers'
        BY <2>0, <2>2, <2>a, <3>1, <3>2 DEF WalkCovers
      <3>b. FoundCovers'
        BY <2>0, <2>2, <2>a, <3>1, <3>2 DEF FoundCovers
      <3>c. WorkExact'
        BY <2>0, <2>2, <2>a, <2>b, <3>1, <3>2 DEF WorkExact
      <3>d. SweepCovers'
        BY <2>0, <2>2, <2>a, <3>1, <3>2 DEF SweepCovers
      <3> QED
        BY <2>3, <3>a, <3>b, <3>c, <3>d DEF QuietInv
    <2>16. CASE Swept
      <3>1. pc = "sweep" /\ pc' = "parse" /\ UNCHANGED <<found, tasks, doubted, dropped>>
            /\ sweep = {} /\ doubted = {}
        BY <2>16 DEF Swept, work
      <3>a. WalkCovers'
        BY <2>0, <2>2, <2>a, <3>1 DEF WalkCovers
      <3>b. FoundCovers'
        BY <2>0, <2>2, <2>a, <3>1 DEF FoundCovers
      <3>c. WorkExact'
        BY <2>0, <2>2, <2>a, <2>b, <3>1 DEF WorkExact
      <3>d. SweepCovers'
        BY <2>0, <2>2, <2>a, <3>1 DEF SweepCovers
      <3> QED
        BY <2>3, <3>a, <3>b, <3>c, <3>d DEF QuietInv
    <2>17. ASSUME NEW y \in Files, Skip(y) PROVE FALSE
      BY <2>a, <2>17 DEF Skip, WorkExact
    <2> QED
      BY <1>5, <2>6, <2>7, <2>8, <2>9, <2>10, <2>11, <2>12, <2>13, <2>14, <2>15, <2>16, <2>17
         DEF Working
  <1> QED
    BY <1>1, <1>2, <1>3, <1>4, <1>5 DEF Next, Working

(* prepare_refresh and commit_delta: a full refresh that nothing disturbs  *)
(* leaves the rows of all that is within reach as the files are, whatever  *)
(* the refreshes before it left, and the rows below a directory out of     *)
(* reach as they were.                                                     *)
THEOREM QuietRefreshIsExact == ~LateRenames /\ ~IndexLoss /\ Spec => QuietRefreshExact
  <1> DEFINE Exact == quiet /\ Commit =>
                        \A f \in Files :
                            rows'[f] = IF Reachable(Home[f]) THEN version[f] ELSE rows[f]
  <1>1. Init => QuietInv
    BY DEF Init, QuietInv
  <1>2. WalkInv /\ QuietInv /\ [Next]_vars => QuietInv'
    BY QuietStep
  <1>3. WalkInv /\ QuietInv => [Exact]_vars
    <2> SUFFICES ASSUME WalkInv, QuietInv, quiet, Commit, NEW x \in Files
                 PROVE  rows'[x] = IF Reachable(Home[x]) THEN version[x] ELSE rows[x]
      OBVIOUS
    <2>1. pc = "parse" /\ found = {} /\ ~clears
      BY DEF Commit, WalkInv, PhaseInv
    <2>2. rows'[x] = IF tasks[x] # 0 THEN tasks[x] ELSE IF x \in dropped THEN 0 ELSE rows[x]
      BY <2>1 DEF Commit
    <2>3. CASE tasks[x] # 0
      BY <2>2, <2>3 DEF QuietInv, WorkExact, Visible
    <2>4. CASE tasks[x] = 0 /\ x \in dropped
      BY <2>2, <2>4 DEF QuietInv, WorkExact, Visible
    <2>5. CASE tasks[x] = 0 /\ x \notin dropped
      <3>1. Visible(x) => rows[x] = version[x]
        BY <2>1, <2>5 DEF QuietInv, FoundCovers, Visible
      <3>2. ~Visible(x) /\ Reachable(Home[x]) => rows[x] = 0
        BY <2>1, <2>5 DEF QuietInv, SweepCovers
      <3> QED
        BY <2>2, <2>5, <3>1, <3>2 DEF Visible
    <2> QED
      BY <2>3, <2>4, <2>5
  <1>4. QuietRefreshExact <=> [][Exact]_vars
    BY DEF QuietRefreshExact
  <1> HIDE DEF Exact
  <1> QED
    BY <1>1, <1>2, <1>3, <1>4, WalkInvariant, PTL DEF Spec

-----------------------------------------------------------------------------
(* Bob's tasks.  Every variable holds what it is for, and numbers of       *)
(* changes are of the past.                                                *)
BobTypeOK ==
    /\ edits \in Nat
    /\ turns \in [Tasks -> 0..edits] /\ task_rows \in [Tasks -> 0..edits]
    /\ health \in [Databases -> {"ok", "locked", "deleted", "unmounted"}]
    /\ records \in [Tasks -> SUBSET Nat] /\ bob_intent \subseteq Tasks
    /\ step \in {"idle", "discover", "parse", "publish", "commit"}
    /\ session_rows \in [Tasks -> 0..edits] /\ replays \subseteq Tasks
    /\ unvisited \subseteq Databases
    /\ verdict \in [Databases -> {"none", "readable", "absent", "unreadable"}]
    /\ seen \in [Tasks -> 0..edits] /\ taken \in [Tasks -> 0..edits]
    /\ unparsed \subseteq Tasks /\ parsed \subseteq Tasks /\ vanished \subseteq Tasks

(* A task that is missing now was missing during the refresh.              *)
BobMissing ==
    \A t \in Tasks :
        /\ health[Of[t]] = "deleted" => turns[t] = 0
        /\ step # "idle" /\ turns[t] = 0 => t \in vanished

(* Without a refresh nothing is left of one; a refresh has the rows but    *)
(* for those it replays, and visits every database if it replays.          *)
BobRefresh ==
    /\ step = "idle" => verdict = B!NoVerdict /\ seen = B!Zero
    /\ \A b \in unvisited : verdict[b] = "none"
    /\ step \in {"idle", "discover"} => unparsed = {} /\ parsed = {} /\ taken = B!Zero
    /\ step # "idle" => \A t \in Tasks :
           session_rows[t] = IF t \in replays THEN 0 ELSE task_rows[t]
    /\ step = "discover" /\ replays # {} => \A b \in Databases \ unvisited : verdict[b] # "none"
    /\ step \notin {"idle", "discover"} =>
           \A t \in replays : verdict[Of[t]] \in {"readable", "absent"}

(* What was not seen was missing.                                          *)
BobSeen ==
    \A t \in Tasks :
        /\ verdict[Of[t]] # "readable" => seen[t] = 0
        /\ verdict[Of[t]] \in {"readable", "absent"} /\ seen[t] = 0 => t \in vanished

(* What replaces something is parsed, and what was taken of a task that    *)
(* has not changed since it was seen is what was seen.                     *)
BobParse ==
    /\ unparsed \cup parsed \subseteq B!Changed
    /\ step \in {"parse", "publish", "commit"} =>
           \A t \in B!Changed : B!Replaces(t) => t \in unparsed \cup parsed
    /\ step \in {"publish", "commit"} => unparsed = {}
    /\ \A t \in Tasks \ parsed : taken[t] = 0
    /\ \A t \in parsed : /\ taken[t] = 0 => t \in vanished
                         /\ seen[t] = turns[t] => taken[t] = turns[t]

(* The rows speak for the records of a task.                               *)
BobSettled(t) ==
    /\ task_rows[t] # 0 /\ task_rows[t] = turns[t] => records[t] = {turns[t]}
    /\ task_rows[t] = 0 => records[t] = {}
    /\ \E x \in Nat : records[t] \subseteq {x}

(* Until the intent is withdrawn it names the tasks whose records need not *)
(* agree with their rows, and those a refresh has to commit.               *)
BobIntent ==
    /\ \A t \in Tasks \ bob_intent : BobSettled(t)
    /\ step \in {"discover", "parse"} => bob_intent = replays
    /\ step \in {"discover", "parse", "publish"} => \A t \in Tasks \ replays : BobSettled(t)
    /\ step = "publish" => bob_intent = B!DeletePaths \cup B!Changed
    /\ step = "commit" => \/ bob_intent = B!DeletePaths \cup B!Changed
                          \/ bob_intent = {} /\ B!DeletePaths = {} /\ taken = B!Zero
    /\ step = "commit" =>
           /\ \A t \in parsed : records[t] = {taken[t]} \ {0}
           /\ \A t \in B!DeletePaths \ parsed : records[t] = {}
           /\ \A t \in Tasks \ (B!DeletePaths \cup parsed) : BobSettled(t)

(* The inductive invariant of Bob's tasks.                                 *)
BobInv == BobTypeOK /\ BobMissing /\ BobRefresh /\ BobSeen /\ BobParse /\ BobIntent

(* Whatever part moves, the variables of Bob take a step of it or stay.    *)
LEMMA BobMoves ==
    ASSUME [DiscoveryNext]_<<which, vars, opencode, bob>>
    PROVE  B!Next \/ UNCHANGED B!bob_vars
  BY DEF DiscoveryNext, bob, B!bob_vars, B!client, B!stored, B!session

(* Nothing is indexed at first.                                            *)
LEMMA BobInit ==
    ASSUME DiscoveryInit PROVE BobInv
  <1> USE TasksHaveDatabases DEF DiscoveryInit, B!Init, B!Zero, B!NoVerdict
  <1>1. BobTypeOK
    BY DEF BobTypeOK
  <1>2. BobMissing /\ BobRefresh /\ BobSeen
    BY DEF BobMissing, BobRefresh, BobSeen
  <1>3. BobParse
    BY DEF BobParse
  <1>4. BobIntent
    BY DEF BobIntent, BobSettled
  <1> QED
    BY <1>1, <1>2, <1>3, <1>4 DEF BobInv

(* A write has a number that no row, record or sighting has.               *)
LEMMA BobWriteTask ==
    ASSUME BobInv, NEW t \in Tasks, B!WriteTask(t) PROVE BobInv'
  <1> USE TasksHaveDatabases DEF BobInv, B!WriteTask, B!Edit, B!client, B!stored, B!session
  <1>1. BobTypeOK'
    <2>1. edits' \in Nat /\ edits' \in 0..edits' /\ \A n \in 0..edits : n \in 0..edits'
      BY DEF BobTypeOK
    <2>2. turns' \in [Tasks -> 0..edits']
      BY <2>1 DEF BobTypeOK
    <2>3. health' \in [Databases -> {"ok", "locked", "deleted", "unmounted"}]
      BY DEF BobTypeOK
    <2> QED
      BY <2>1, <2>2, <2>3 DEF BobTypeOK
  <1>2. BobMissing'
    <2>1. ASSUME NEW u \in Tasks, health'[Of[u]] = "deleted"
          PROVE  u # t /\ health[Of[u]] = "deleted"
      BY <2>1 DEF BobTypeOK
    <2>2. edits + 1 # 0 /\ turns'[t] = edits + 1
      BY DEF BobTypeOK
    <2>3. \A u \in Tasks \ {t} : turns'[u] = turns[u]
      BY DEF BobTypeOK
    <2> QED
      BY <2>1, <2>2, <2>3 DEF BobMissing
  <1>3. BobRefresh'
    BY DEF BobTypeOK, BobRefresh, B!Changed, B!Replaces, B!MissingPaths,
           B!DeletePaths, BobSettled, B!Zero, B!NoVerdict
  <1>4. BobSeen'
    BY DEF BobTypeOK, BobSeen, B!Zero, B!NoVerdict, BobRefresh
  <1>5. BobParse'
    BY DEF BobTypeOK, BobParse, B!Changed, B!Replaces, B!MissingPaths,
           B!DeletePaths, BobSettled, B!Zero, B!NoVerdict
  <1>6. BobIntent'
    BY DEF BobTypeOK, BobIntent, B!Changed, B!Replaces, B!MissingPaths,
           B!DeletePaths, BobSettled, B!Zero, B!NoVerdict
  <1> QED
    BY <1>1, <1>2, <1>3, <1>4, <1>5, <1>6

(* A task that is deleted was missing.                                     *)
LEMMA BobDeleteTask ==
    ASSUME BobInv, NEW t \in Tasks, B!DeleteTask(t) PROVE BobInv'
  <1> USE TasksHaveDatabases DEF BobInv, B!DeleteTask, B!Edit, B!client, B!stored, B!session
  <1>1. BobTypeOK'
    BY DEF BobTypeOK, B!Zero, B!NoVerdict, BobRefresh
  <1>2. BobMissing'
    BY DEF BobTypeOK, BobMissing, B!Zero, B!NoVerdict, BobRefresh
  <1>3. BobRefresh'
    BY DEF BobTypeOK, BobRefresh, B!Changed, B!Replaces, B!MissingPaths,
           B!DeletePaths, BobSettled, B!Zero, B!NoVerdict
  <1>4. BobSeen'
    BY DEF BobTypeOK, BobSeen, B!Zero, B!NoVerdict, BobRefresh
  <1>5. BobParse'
    BY DEF BobTypeOK, BobParse, B!Changed, B!Replaces, B!MissingPaths,
           B!DeletePaths, BobSettled, B!Zero, B!NoVerdict
  <1>6. BobIntent'
    BY DEF BobTypeOK, BobIntent, B!Changed, B!Replaces, B!MissingPaths,
           B!DeletePaths, BobSettled, B!Zero, B!NoVerdict
  <1> QED
    BY <1>1, <1>2, <1>3, <1>4, <1>5, <1>6

(* So were the tasks of a database that is deleted.                        *)
LEMMA BobDeleteDatabase ==
    ASSUME BobInv, NEW b \in Databases, B!DeleteDatabase(b) PROVE BobInv'
  <1> USE TasksHaveDatabases DEF BobInv, B!DeleteDatabase, B!Edit, B!client, B!stored, B!session
  <1>1. BobTypeOK'
    BY DEF BobTypeOK, B!Zero, B!NoVerdict, BobRefresh
  <1>2. BobMissing'
    BY DEF BobTypeOK, BobMissing, B!Zero, B!NoVerdict, BobRefresh
  <1>3. BobRefresh'
    BY DEF BobTypeOK, BobRefresh, B!Changed, B!Replaces, B!MissingPaths,
           B!DeletePaths, BobSettled, B!Zero, B!NoVerdict
  <1>4. BobSeen'
    BY DEF BobTypeOK, BobSeen, B!Zero, B!NoVerdict, BobRefresh
  <1>5. BobParse'
    BY DEF BobTypeOK, BobParse, B!Changed, B!Replaces, B!MissingPaths,
           B!DeletePaths, BobSettled, B!Zero, B!NoVerdict
  <1>6. BobIntent'
    BY DEF BobTypeOK, BobIntent, B!Changed, B!Replaces, B!MissingPaths,
           B!DeletePaths, BobSettled, B!Zero, B!NoVerdict
  <1> QED
    BY <1>1, <1>2, <1>3, <1>4, <1>5, <1>6

(* A database out of reach keeps its tasks.                                *)
LEMMA BobLoseDatabase ==
    ASSUME BobInv, NEW b \in Databases, B!LoseDatabase(b) PROVE BobInv'
  <1> USE TasksHaveDatabases DEF BobInv, B!LoseDatabase, B!Edit, B!client, B!stored, B!session
  <1>1. BobTypeOK'
    BY DEF BobTypeOK, B!Zero, B!NoVerdict, BobRefresh
  <1>2. BobMissing'
    BY DEF BobTypeOK, BobMissing, B!Zero, B!NoVerdict, BobRefresh
  <1>3. BobRefresh'
    BY DEF BobTypeOK, BobRefresh, B!Changed, B!Replaces, B!MissingPaths,
           B!DeletePaths, BobSettled, B!Zero, B!NoVerdict
  <1>4. BobSeen'
    BY DEF BobTypeOK, BobSeen, B!Zero, B!NoVerdict, BobRefresh
  <1>5. BobParse'
    BY DEF BobTypeOK, BobParse, B!Changed, B!Replaces, B!MissingPaths,
           B!DeletePaths, BobSettled, B!Zero, B!NoVerdict
  <1>6. BobIntent'
    BY DEF BobTypeOK, BobIntent, B!Changed, B!Replaces, B!MissingPaths,
           B!DeletePaths, BobSettled, B!Zero, B!NoVerdict
  <1> QED
    BY <1>1, <1>2, <1>3, <1>4, <1>5, <1>6

(* And has them when it is back.                                           *)
LEMMA BobRestoreDatabase ==
    ASSUME BobInv, NEW b \in Databases, B!RestoreDatabase(b) PROVE BobInv'
  <1> USE TasksHaveDatabases DEF BobInv, B!RestoreDatabase, B!client, B!stored, B!session
  <1>1. BobTypeOK'
    BY DEF BobTypeOK, B!Zero, B!NoVerdict, BobRefresh
  <1>2. BobMissing'
    BY DEF BobTypeOK, BobMissing, B!Zero, B!NoVerdict, BobRefresh
  <1>3. BobRefresh'
    BY DEF BobTypeOK, BobRefresh, B!Changed, B!Replaces, B!MissingPaths,
           B!DeletePaths, BobSettled, B!Zero, B!NoVerdict
  <1>4. BobSeen'
    BY DEF BobTypeOK, BobSeen, B!Zero, B!NoVerdict, BobRefresh
  <1>5. BobParse'
    BY DEF BobTypeOK, BobParse, B!Changed, B!Replaces, B!MissingPaths,
           B!DeletePaths, BobSettled, B!Zero, B!NoVerdict
  <1>6. BobIntent'
    BY DEF BobTypeOK, BobIntent, B!Changed, B!Replaces, B!MissingPaths,
           B!DeletePaths, BobSettled, B!Zero, B!NoVerdict
  <1> QED
    BY <1>1, <1>2, <1>3, <1>4, <1>5, <1>6

(* A refresh starts with the rows of what it does not replay.              *)
LEMMA BobStartRefresh ==
    ASSUME BobInv, NEW chosen \in SUBSET Databases, B!StartRefresh(chosen) PROVE BobInv'
  <1> USE TasksHaveDatabases DEF BobInv, B!StartRefresh, B!client, B!stored, B!session
  <1>1. BobTypeOK'
    BY DEF BobTypeOK, B!Zero, B!NoVerdict, BobRefresh
  <1>2. BobMissing'
    BY DEF BobTypeOK, BobMissing, B!Zero, B!NoVerdict, BobRefresh
  <1>3. BobRefresh'
    BY DEF BobTypeOK, BobRefresh, B!Changed, B!Replaces, B!MissingPaths,
           B!DeletePaths, BobSettled, B!Zero, B!NoVerdict
  <1>4. BobSeen'
    BY DEF BobTypeOK, BobSeen, B!Zero, B!NoVerdict, BobRefresh
  <1>5. BobParse'
    <2>1. seen = B!Zero /\ unparsed = {} /\ parsed = {} /\ taken = B!Zero
      BY DEF BobRefresh
    <2> QED
      BY <2>1 DEF BobParse, B!Zero, BobTypeOK
  <1>6. BobIntent'
    BY DEF BobTypeOK, BobIntent, B!Changed, B!Replaces, B!MissingPaths,
           B!DeletePaths, BobSettled, B!Zero, B!NoVerdict
  <1> QED
    BY <1>1, <1>2, <1>3, <1>4, <1>5, <1>6

(* What a look at a database does not find is missing.                     *)
LEMMA BobDiscoverBob ==
    ASSUME BobInv, NEW b \in Databases, B!DiscoverBob(b) PROVE BobInv'
  <1> USE TasksHaveDatabases DEF BobInv, B!DiscoverBob, B!client, B!stored, B!session
  <1>1. BobTypeOK'
    BY DEF BobTypeOK, B!Zero, B!NoVerdict, BobRefresh
  <1>2. BobMissing'
    BY DEF BobTypeOK, BobMissing, B!Zero, B!NoVerdict, BobRefresh
  <1>3. BobRefresh'
    BY DEF BobTypeOK, BobRefresh, B!Changed, B!Replaces, B!MissingPaths,
           B!DeletePaths, BobSettled, B!Zero, B!NoVerdict
  <1>4. BobSeen'
    <2>1. ASSUME NEW u \in Tasks, Of[u] = b
          PROVE  /\ verdict'[Of[u]] = "readable" => seen'[u] = turns[u]
                 /\ verdict'[Of[u]] # "readable" => seen'[u] = seen[u] /\ health[b] # "ok"
                 /\ verdict'[Of[u]] = "absent" => health[b] = "deleted"
      BY <2>1 DEF BobTypeOK
    <2>2. ASSUME NEW u \in Tasks, Of[u] # b
          PROVE  verdict'[Of[u]] = verdict[Of[u]] /\ seen'[u] = seen[u]
      BY <2>2 DEF BobTypeOK
    <2>3. ASSUME NEW u \in Tasks, Of[u] = b PROVE seen[u] = 0
      BY <2>3 DEF BobRefresh, BobTypeOK, BobSeen
    <2> QED
      BY <2>1, <2>2, <2>3 DEF BobSeen, BobMissing
  <1>5. BobParse'
    <2>1. unparsed = {} /\ parsed = {} /\ taken = B!Zero
      BY DEF BobRefresh
    <2> QED
      BY <2>1 DEF BobParse, B!Zero, BobTypeOK
  <1>6. BobIntent'
    BY DEF BobTypeOK, BobIntent, B!Changed, B!Replaces, B!MissingPaths,
           B!DeletePaths, BobSettled, B!Zero, B!NoVerdict
  <1> QED
    BY <1>1, <1>2, <1>3, <1>4, <1>5, <1>6

(* A replay that cannot be finished leaves the intent.                     *)
LEMMA BobAbortReplay ==
    ASSUME BobInv, B!AbortReplay PROVE BobInv'
  <1> USE TasksHaveDatabases DEF BobInv, B!AbortReplay, B!Rest, B!client, B!stored, B!session
  <1>1. BobTypeOK'
    BY DEF BobTypeOK, B!Zero, B!NoVerdict, BobRefresh
  <1>2. BobMissing'
    BY DEF BobTypeOK, BobMissing, B!Zero, B!NoVerdict, BobRefresh
  <1>3. BobRefresh'
    BY DEF BobTypeOK, BobRefresh, B!Changed, B!Replaces, B!MissingPaths,
           B!DeletePaths, BobSettled, B!Zero, B!NoVerdict
  <1>4. BobSeen'
    BY DEF BobTypeOK, BobSeen, B!Zero, B!NoVerdict, BobRefresh
  <1>5. BobParse'
    BY DEF BobTypeOK, BobParse, B!Changed, B!Replaces, B!MissingPaths,
           B!DeletePaths, BobSettled, B!Zero, B!NoVerdict
  <1>6. BobIntent'
    BY DEF BobTypeOK, BobIntent, B!Changed, B!Replaces, B!MissingPaths,
           B!DeletePaths, BobSettled, B!Zero, B!NoVerdict
  <1> QED
    BY <1>1, <1>2, <1>3, <1>4, <1>5, <1>6

(* Past this point every task to be replayed was looked for.               *)
LEMMA BobStartParse ==
    ASSUME BobInv, B!StartParse PROVE BobInv'
  <1> USE TasksHaveDatabases DEF BobInv, B!StartParse, B!Blocked, B!client, B!stored, B!session
  <1>1. BobTypeOK'
    BY DEF BobTypeOK, B!Changed
  <1>2. BobMissing'
    BY DEF BobTypeOK, BobMissing, B!Zero, B!NoVerdict, BobRefresh
  <1>3. BobRefresh'
    BY DEF BobTypeOK, BobRefresh, B!Changed, B!Replaces, B!MissingPaths,
           B!DeletePaths, BobSettled, B!Zero, B!NoVerdict
  <1>4. BobSeen'
    BY DEF BobTypeOK, BobSeen, B!Zero, B!NoVerdict, BobRefresh
  <1>5. BobParse'
    BY DEF BobTypeOK, BobParse, B!Changed, B!Replaces, B!MissingPaths,
           B!DeletePaths, BobSettled, B!Zero, B!NoVerdict
  <1>6. BobIntent'
    BY DEF BobTypeOK, BobIntent, B!Changed, B!Replaces, B!MissingPaths,
           B!DeletePaths, BobSettled, B!Zero, B!NoVerdict
  <1> QED
    BY <1>1, <1>2, <1>3, <1>4, <1>5, <1>6

(* A parse takes the task as it is.                                        *)
LEMMA BobParseTask ==
    ASSUME BobInv, NEW t \in Tasks, B!ParseTask(t) PROVE BobInv'
  <1> USE TasksHaveDatabases DEF BobInv, B!ParseTask, B!client, B!stored, B!session
  <1>1. BobTypeOK'
    BY DEF BobTypeOK, B!Zero, B!NoVerdict, BobRefresh
  <1>2. BobMissing'
    BY DEF BobTypeOK, BobMissing, B!Zero, B!NoVerdict, BobRefresh
  <1>3. BobRefresh'
    BY DEF BobTypeOK, BobRefresh, B!Changed, B!Replaces, B!MissingPaths,
           B!DeletePaths, BobSettled, B!Zero, B!NoVerdict
  <1>4. BobSeen'
    BY DEF BobTypeOK, BobSeen, B!Zero, B!NoVerdict, BobRefresh
  <1>5. BobParse'
    <2>1. taken'[t] = turns[t] /\ \A u \in Tasks \ {t} : taken'[u] = taken[u]
      BY DEF BobTypeOK
    <2>2. turns[t] = 0 => t \in vanished
      BY DEF BobMissing
    <2>3. unparsed' \cup parsed' \subseteq B!Changed /\ unparsed' \cup parsed' = unparsed \cup parsed
      BY DEF BobParse
    <2>4. \A u \in Tasks \ parsed' : taken'[u] = 0
      BY <2>1 DEF BobParse
    <2>5. \A u \in parsed' : /\ taken'[u] = 0 => u \in vanished'
                             /\ seen'[u] = turns'[u] => taken'[u] = turns'[u]
      BY <2>1, <2>2 DEF BobParse, BobTypeOK
    <2>6. \A u \in B!Changed : B!Replaces(u) => u \in unparsed' \cup parsed'
      BY <2>3 DEF BobParse
    <2>7. step' = "parse" /\ UNCHANGED <<session_rows, replays, seen>>
      OBVIOUS
    <2>8. B!Changed' = B!Changed
      BY <2>7 DEF B!Changed, B!Replaces
    <2>9. \A u \in B!Changed' : B!Replaces(u)' => u \in unparsed' \cup parsed'
      BY <2>6, <2>7, <2>8 DEF B!Replaces
    <2> QED
      BY <2>3, <2>4, <2>5, <2>7, <2>8, <2>9 DEF BobParse
  <1>6. BobIntent'
    BY DEF BobTypeOK, BobIntent, B!Changed, B!Replaces, B!MissingPaths,
           B!DeletePaths, BobSettled, B!Zero, B!NoVerdict
  <1> QED
    BY <1>1, <1>2, <1>3, <1>4, <1>5, <1>6

(* Only a task without records is skipped.                                 *)
LEMMA BobSkipTask ==
    ASSUME BobInv, NEW t \in Tasks, B!SkipTask(t) PROVE BobInv'
  <1> USE TasksHaveDatabases DEF BobInv, B!SkipTask, B!client, B!stored, B!session
  <1>1. BobTypeOK'
    BY DEF BobTypeOK, B!Zero, B!NoVerdict, BobRefresh
  <1>2. BobMissing'
    BY DEF BobTypeOK, BobMissing, B!Zero, B!NoVerdict, BobRefresh
  <1>3. BobRefresh'
    BY DEF BobTypeOK, BobRefresh, B!Changed, B!Replaces, B!MissingPaths,
           B!DeletePaths, BobSettled, B!Zero, B!NoVerdict
  <1>4. BobSeen'
    BY DEF BobTypeOK, BobSeen, B!Zero, B!NoVerdict, BobRefresh
  <1>5. BobParse'
    BY DEF BobTypeOK, BobParse, B!Changed, B!Replaces, B!MissingPaths,
           B!DeletePaths, BobSettled, B!Zero, B!NoVerdict
  <1>6. BobIntent'
    BY DEF BobTypeOK, BobIntent, B!Changed, B!Replaces, B!MissingPaths,
           B!DeletePaths, BobSettled, B!Zero, B!NoVerdict
  <1> QED
    BY <1>1, <1>2, <1>3, <1>4, <1>5, <1>6

(* A replacement that fails is left to the intent.                         *)
LEMMA BobFailTask ==
    ASSUME BobInv, NEW t \in Tasks, B!FailTask(t) PROVE BobInv'
  <1> USE TasksHaveDatabases DEF BobInv, B!FailTask, B!Rest, B!client, B!stored, B!session
  <1>1. BobTypeOK'
    <2>1. B!DeletePaths \cup B!Changed \subseteq Tasks
      BY DEF BobTypeOK, B!Changed, B!DeletePaths, B!MissingPaths
    <2>2. B!Zero \in [Tasks -> 0..edits]
      BY DEF BobTypeOK, B!Zero
    <2> QED
      BY <2>1, <2>2 DEF BobTypeOK, B!NoVerdict
  <1>2. BobMissing'
    BY DEF BobTypeOK, BobMissing, B!Zero, B!NoVerdict, BobRefresh
  <1>3. BobRefresh'
    BY DEF BobTypeOK, BobRefresh, B!Changed, B!Replaces, B!MissingPaths,
           B!DeletePaths, BobSettled, B!Zero, B!NoVerdict
  <1>4. BobSeen'
    BY DEF BobTypeOK, BobSeen, B!Zero, B!NoVerdict, BobRefresh
  <1>5. BobParse'
    BY DEF BobTypeOK, BobParse, B!Changed, B!Replaces, B!MissingPaths,
           B!DeletePaths, BobSettled, B!Zero, B!NoVerdict
  <1>6. BobIntent'
    BY DEF BobTypeOK, BobIntent, B!Changed, B!Replaces, B!MissingPaths,
           B!DeletePaths, BobSettled, B!Zero, B!NoVerdict
  <1> QED
    BY <1>1, <1>2, <1>3, <1>4, <1>5, <1>6

(* The intent names whatever the publication will touch.                   *)
LEMMA BobCommitTasks ==
    ASSUME BobInv, B!CommitTasks PROVE BobInv'
  <1> USE TasksHaveDatabases DEF BobInv, B!CommitTasks, B!Publishes, B!client, B!stored, B!session
  <1>1. BobTypeOK'
    <2>1. B!DeletePaths \cup B!Changed \subseteq Tasks
      BY DEF BobTypeOK, B!Changed, B!DeletePaths, B!MissingPaths
    <2> QED
      BY <2>1 DEF BobTypeOK
  <1>2. BobMissing'
    BY DEF BobTypeOK, BobMissing, B!Zero, B!NoVerdict, BobRefresh
  <1>3. BobRefresh'
    BY DEF BobTypeOK, BobRefresh, B!Changed, B!Replaces, B!MissingPaths,
           B!DeletePaths, BobSettled, B!Zero, B!NoVerdict
  <1>4. BobSeen'
    BY DEF BobTypeOK, BobSeen, B!Zero, B!NoVerdict, BobRefresh
  <1>5. BobParse'
    BY DEF BobTypeOK, BobParse, B!Changed, B!Replaces, B!MissingPaths,
           B!DeletePaths, BobSettled, B!Zero, B!NoVerdict
  <1>6. BobIntent'
    <2>1. /\ B!Changed' = B!Changed /\ B!DeletePaths' = B!DeletePaths
          /\ \A t \in Tasks : BobSettled(t)' = BobSettled(t)
      BY DEF B!Changed, B!Replaces, B!MissingPaths, B!DeletePaths, BobSettled
    <2>2. bob_intent = replays /\ replays \subseteq B!DeletePaths
      BY DEF BobIntent, B!DeletePaths
    <2>3. \A t \in Tasks \ replays : BobSettled(t)
      BY DEF BobIntent
    <2>4. CASE B!Publishes
      <3>1. bob_intent' = B!DeletePaths \cup B!Changed /\ step' = "publish"
        BY <2>4
      <3> QED
        BY <2>1, <2>2, <2>3, <3>1 DEF BobIntent
    <2>5. CASE ~B!Publishes
      <3>1. /\ B!DeletePaths = {} /\ taken = B!Zero /\ replays = {}
            /\ bob_intent' = {} /\ step' = "commit"
        BY <2>2, <2>5 DEF B!Publishes
      <3>2. ASSUME NEW t \in parsed PROVE records[t] = {taken[t]} \ {0}
        <4>1. t \in Tasks /\ t \in B!Changed
          BY DEF BobTypeOK, BobParse
        <4>2. ~B!Replaces(t)
          BY <3>1, <4>1 DEF B!DeletePaths
        <4>3. session_rows[t] = 0 /\ task_rows[t] = 0
          BY <3>1, <4>1, <4>2 DEF B!Changed, BobRefresh
        <4>4. records[t] = {}
          BY <2>3, <3>1, <4>1, <4>3 DEF BobSettled
        <4> QED
          BY <3>1, <4>1, <4>4 DEF B!Zero
      <3> QED
        BY <2>1, <2>3, <3>1, <3>2 DEF BobIntent
    <2> QED
      BY <2>4, <2>5
  <1> QED
    BY <1>1, <1>2, <1>3, <1>4, <1>5, <1>6

(* A publication replaces, drops or adds, each by one content at most.     *)
LEMMA BobPublishTasks ==
    ASSUME BobInv, B!PublishTasks PROVE BobInv'
  <1> USE TasksHaveDatabases DEF BobInv, B!PublishTasks, B!client, B!stored, B!session
  <1>1. BobTypeOK'
    BY DEF BobTypeOK, B!Zero, B!NoVerdict, BobRefresh
  <1>2. BobMissing'
    BY DEF BobTypeOK, BobMissing, B!Zero, B!NoVerdict, BobRefresh
  <1>3. BobRefresh'
    BY DEF BobTypeOK, BobRefresh, B!Changed, B!Replaces, B!MissingPaths,
           B!DeletePaths, BobSettled, B!Zero, B!NoVerdict
  <1>4. BobSeen'
    BY DEF BobTypeOK, BobSeen, B!Zero, B!NoVerdict, BobRefresh
  <1>5. BobParse'
    BY DEF BobTypeOK, BobParse, B!Changed, B!Replaces, B!MissingPaths,
           B!DeletePaths, BobSettled, B!Zero, B!NoVerdict
  <1>6. BobIntent'
    <2>1. /\ B!Changed' = B!Changed /\ B!DeletePaths' = B!DeletePaths
          /\ bob_intent = B!DeletePaths \cup B!Changed /\ replays \subseteq B!DeletePaths
      BY DEF B!Changed, B!Replaces, B!MissingPaths, B!DeletePaths, BobIntent
    <2>2. /\ \A t \in Tasks \ replays : BobSettled(t)
          /\ \A t \in Tasks \ parsed : taken[t] = 0
          /\ parsed \subseteq B!Changed
      BY DEF BobIntent, BobParse
    <2>3. ASSUME NEW t \in Tasks
          PROVE  records'[t] = (IF t \in B!DeletePaths THEN {} ELSE records[t]) \cup ({taken[t]} \ {0})
      OBVIOUS
    <2>4. ASSUME NEW t \in parsed PROVE records'[t] = {taken[t]} \ {0}
      <3>1. t \in Tasks /\ t \in B!Changed
        BY <2>2 DEF BobTypeOK
      <3>2. CASE t \in B!DeletePaths
        BY <2>3, <3>1, <3>2
      <3>3. CASE t \notin B!DeletePaths
        <4>1. t \notin replays /\ ~B!Replaces(t)
          BY <3>1, <3>3 DEF B!DeletePaths
        <4>2. session_rows[t] = 0 /\ task_rows[t] = 0
          BY <3>1, <4>1 DEF B!Changed, BobRefresh
        <4>3. records[t] = {}
          BY <2>2, <3>1, <4>1, <4>2 DEF BobSettled
        <4> QED
          BY <2>3, <3>1, <3>3, <4>3
      <3> QED
        BY <3>2, <3>3
    <2>5. ASSUME NEW t \in B!DeletePaths \ parsed, t \in Tasks PROVE records'[t] = {}
      BY <2>2, <2>3, <2>5
    <2>6. ASSUME NEW t \in Tasks \ (B!DeletePaths \cup parsed) PROVE records'[t] = records[t] /\ BobSettled(t)
      BY <2>1, <2>2, <2>3
    <2>7. ASSUME NEW t \in Tasks \ (B!DeletePaths \cup parsed) PROVE BobSettled(t)'
      BY <2>6 DEF BobSettled
    <2>8. B!DeletePaths \subseteq Tasks
      BY DEF BobTypeOK, B!Changed, B!DeletePaths, B!MissingPaths
    <2> QED
      BY <2>1, <2>2, <2>4, <2>5, <2>7, <2>8 DEF BobIntent
  <1> QED
    BY <1>1, <1>2, <1>3, <1>4, <1>5, <1>6

(* The rows follow the records.                                            *)
LEMMA BobCommitRows ==
    ASSUME BobInv, B!CommitRows PROVE BobInv'
  <1> USE TasksHaveDatabases DEF BobInv, B!CommitRows, B!Rest, B!client, B!stored, B!session
  <1>1. BobTypeOK'
    BY DEF BobTypeOK, B!Zero, B!NoVerdict, BobRefresh
  <1>2. BobMissing'
    BY DEF BobTypeOK, BobMissing, B!Zero, B!NoVerdict, BobRefresh
  <1>3. BobRefresh'
    BY DEF BobTypeOK, BobRefresh, B!Changed, B!Replaces, B!MissingPaths,
           B!DeletePaths, BobSettled, B!Zero, B!NoVerdict
  <1>4. BobSeen'
    BY DEF BobTypeOK, BobSeen, B!Zero, B!NoVerdict, BobRefresh
  <1>5. BobParse'
    BY DEF BobTypeOK, BobParse, B!Changed, B!Replaces, B!MissingPaths,
           B!DeletePaths, BobSettled, B!Zero, B!NoVerdict
  <1>6. BobIntent'
    <2>1. ASSUME NEW t \in parsed PROVE BobSettled(t)'
      <3>1. t \in Tasks /\ seen[t] # 0 /\ taken[t] \in Nat /\ (seen[t] = turns[t] => taken[t] = turns[t])
        BY DEF BobTypeOK, BobParse, B!Changed
      <3>2. records[t] = {taken[t]} \ {0}
        BY DEF BobIntent
      <3>3. t \notin B!MissingPaths
        BY <3>1 DEF B!MissingPaths, BobSeen, BobTypeOK
      <3>4. task_rows'[t] = seen[t]
        BY <3>1, <3>3
      <3>5. records'[t] = records[t] /\ turns'[t] = turns[t]
        OBVIOUS
      <3> QED
        BY <3>1, <3>2, <3>4, <3>5 DEF BobSettled
    <2>2. ASSUME NEW t \in B!DeletePaths \ parsed, t \in Tasks PROVE BobSettled(t)'
      <3>1. records[t] = {}
        BY <2>2 DEF BobIntent
      <3>2. t \in B!MissingPaths \/ t \in replays
        BY <2>2 DEF B!DeletePaths, BobParse
      <3>3. task_rows'[t] = 0
        BY <2>2, <3>2 DEF BobRefresh
      <3>4. records'[t] = records[t]
        OBVIOUS
      <3> QED
        BY <3>1, <3>3, <3>4 DEF BobSettled
    <2>3. ASSUME NEW t \in Tasks \ (B!DeletePaths \cup parsed) PROVE BobSettled(t)'
      <3>1. BobSettled(t)
        BY DEF BobIntent
      <3>2. t \notin replays /\ t \notin B!MissingPaths
        BY DEF B!DeletePaths
      <3>3. task_rows'[t] = task_rows[t]
        BY <3>2 DEF BobRefresh
      <3>4. records'[t] = records[t] /\ turns'[t] = turns[t]
        OBVIOUS
      <3> QED
        BY <3>1, <3>3, <3>4 DEF BobSettled
    <2>4. \A t \in Tasks : BobSettled(t)'
      BY <2>1, <2>2, <2>3
    <2> QED
      BY <2>4 DEF BobIntent
  <1> QED
    BY <1>1, <1>2, <1>3, <1>4, <1>5, <1>6

(* A kill leaves the intent for the next refresh.                          *)
LEMMA BobKillRefresh ==
    ASSUME BobInv, B!KillRefresh PROVE BobInv'
  <1> USE TasksHaveDatabases DEF BobInv, B!KillRefresh, B!Rest, B!client, B!stored, B!session
  <1>1. BobTypeOK'
    BY DEF BobTypeOK, B!Zero, B!NoVerdict, BobRefresh
  <1>2. BobMissing'
    BY DEF BobTypeOK, BobMissing, B!Zero, B!NoVerdict, BobRefresh
  <1>3. BobRefresh'
    BY DEF BobTypeOK, BobRefresh, B!Changed, B!Replaces, B!MissingPaths,
           B!DeletePaths, BobSettled, B!Zero, B!NoVerdict
  <1>4. BobSeen'
    BY DEF BobTypeOK, BobSeen, B!Zero, B!NoVerdict, BobRefresh
  <1>5. BobParse'
    BY DEF BobTypeOK, BobParse, B!Changed, B!Replaces, B!MissingPaths,
           B!DeletePaths, BobSettled, B!Zero, B!NoVerdict
  <1>6. BobIntent'
    BY DEF BobTypeOK, BobIntent, B!Changed, B!Replaces, B!MissingPaths,
           B!DeletePaths, BobSettled, B!Zero, B!NoVerdict
  <1> QED
    BY <1>1, <1>2, <1>3, <1>4, <1>5, <1>6

(* Every action of Bob keeps the invariant.                                *)
LEMMA BobStep ==
    ASSUME BobInv, B!Next \/ UNCHANGED B!bob_vars PROVE BobInv'
  <1>1. CASE UNCHANGED B!bob_vars
    BY <1>1 DEF B!bob_vars, B!client, B!stored, B!session, BobInv, BobTypeOK, BobMissing,
                BobRefresh, BobSeen, BobParse, BobIntent, BobSettled, B!Changed, B!Replaces,
                B!MissingPaths, B!DeletePaths
  <1>2. CASE B!Next
    BY <1>2, BobWriteTask, BobDeleteTask, BobDeleteDatabase, BobLoseDatabase,
       BobRestoreDatabase, BobStartRefresh, BobDiscoverBob, BobAbortReplay, BobStartParse,
       BobParseTask, BobSkipTask, BobFailTask, BobCommitTasks, BobPublishTasks,
       BobCommitRows, BobKillRefresh DEF B!Next
  <1> QED
    BY <1>1, <1>2

(* The invariant holds of every state of Bob.                              *)
THEOREM BobInvariant == DiscoverySpec => []BobInv
  <1>1. DiscoveryInit => BobInv
    BY BobInit
  <1>2. BobInv /\ [DiscoveryNext]_<<which, vars, opencode, bob>> => BobInv'
    BY BobMoves, BobStep
  <1> QED
    BY <1>1, <1>2, PTL DEF DiscoverySpec

(* What a publication drops without replacing it was missing.              *)
LEMMA BobDrops ==
    ASSUME BobInv, B!PublishTasks, NEW t \in Tasks, records[t] # {}, records'[t] = {}
    PROVE  t \in vanished
  <1> USE TasksHaveDatabases DEF BobInv, B!PublishTasks
  <1>1. records'[t] = (IF t \in B!DeletePaths THEN {} ELSE records[t]) \cup ({taken[t]} \ {0})
    OBVIOUS
  <1>2. t \in B!DeletePaths /\ taken[t] = 0
    BY <1>1
  <1>3. CASE t \in parsed
    BY <1>2, <1>3 DEF BobParse
  <1>4. CASE t \notin parsed
    <2>1. ~(t \in B!Changed /\ B!Replaces(t))
      BY <1>4 DEF BobParse
    <2>2. t \in replays \/ t \in B!MissingPaths
      BY <1>2, <2>1 DEF B!DeletePaths
    <2>3. CASE t \in B!MissingPaths
      BY <2>3 DEF B!MissingPaths, BobSeen
    <2>4. CASE t \in replays
      <3>1. verdict[Of[t]] \in {"readable", "absent"}
        BY <2>4 DEF BobRefresh
      <3>2. seen[t] = 0
        BY <2>1, <2>4 DEF B!Changed, B!Replaces
      <3> QED
        BY <3>1, <3>2 DEF BobSeen
    <2> QED
      BY <2>2, <2>3, <2>4
  <1> QED
    BY <1>3, <1>4

(* The records of a task of Bob go only in a refresh during which the task *)
(* was not there, and when a refresh has ended with nothing pending what   *)
(* its rows call unchanged is indexed, and nothing twice (discover_bob and *)
(* prepare_refresh in src/ingest/discovery.rs, the intent in execution.rs):*)
(* for any databases and tasks, and any number of changes and kills.       *)
THEOREM TasksAlwaysSurvive == DiscoverySpec => TasksSurvive
  <1>1. ASSUME BobInv, BobInv', [DiscoveryNext]_<<which, vars, opencode, bob>>
        PROVE  [B!Survives]_B!bob_vars
    <2>1. ASSUME NEW t \in Tasks, records[t] # {}, records'[t] = {} PROVE t \in vanished
      <3>1. CASE B!PublishTasks
        BY <1>1, <2>1, <3>1, BobDrops
      <3>2. CASE ~B!PublishTasks
        <4>1. records' = records
          BY <1>1, <3>2, BobMoves DEF B!Next, B!bob_vars, B!client, B!stored, B!Edit, B!WriteTask,
             B!DeleteTask, B!DeleteDatabase, B!LoseDatabase, B!RestoreDatabase, B!StartRefresh,
             B!DiscoverBob, B!AbortReplay, B!StartParse, B!ParseTask, B!SkipTask, B!FailTask,
             B!CommitTasks, B!CommitRows, B!KillRefresh
        <4> QED
          BY <2>1, <4>1
      <3> QED
        BY <3>1, <3>2
    <2>2. ASSUME bob_intent' = {} PROVE B!Trusted'
      BY <1>1, <2>2 DEF BobInv, BobIntent, BobSettled, B!Trusted
    <2>3. ASSUME bob_intent' = {}, NEW t \in Tasks PROVE \A x, y \in records'[t] : x = y
      BY <1>1, <2>3 DEF BobInv, BobIntent, BobSettled
    <2>4. B!Survives
      BY <2>1, <2>2, <2>3, Zenon DEF B!Survives
    <2> QED
      BY <2>4
  <1> QED
    BY <1>1, BobInvariant, PTL DEF DiscoverySpec, TasksSurvive, B!TasksSurvive

-----------------------------------------------------------------------------
(* OpenCode.                                                               *)
ChatStates == [known : BOOLEAN, owned : SUBSET Chats, planned : [Chats -> Nat]]
ChatIntents == [paths : SUBSET (C!Dbs \cup Chats), scopes : SUBSET (C!Dbs \X Chats)]

ChatTypes ==
    /\ chats \in [C!Dbs -> [Chats -> Nat]] /\ json \in SUBSET Chats /\ moves \in Nat
    /\ gone \in SUBSET C!Dbs /\ shut \in SUBSET C!Dbs
    /\ indexed \in [C!Homes -> [Chats -> SUBSET Nat]]
    /\ databases \in [C!Dbs -> ChatStates] /\ databases_now \in [C!Dbs -> ChatStates]
    /\ json_rows \in SUBSET json /\ rows_now \in SUBSET json
    /\ intent \in ChatIntents /\ recovered \in ChatIntents
    /\ at \in {"idle", "plan", "hydrate", "publish", "commit"}
    /\ inventory \in SUBSET C!Dbs
    /\ outcome \in [C!Dbs -> {"none", "planned", "ready", "failed"}]
    /\ scan \in [C!Dbs -> [Chats -> Nat]] /\ spool \in [C!Dbs -> [Chats -> Nat]]

(* Contents are numbered upwards.                                          *)
ContentsPassed ==
    \A b \in C!Dbs, s \in Chats :
        /\ chats[b][s] <= moves /\ scan[b][s] <= moves
        /\ databases[b].planned[s] <= moves /\ databases_now[b].planned[s] <= moves

(* Who owns what, as committed: one source a session.                      *)
OwnersApart ==
    /\ \A b \in C!Dbs : ~databases[b].known => databases[b].owned = {}
    /\ \A a, b \in C!Dbs : \A s \in databases[a].owned : s \in databases[b].owned => a = b
    /\ \A s \in json_rows, b \in C!Dbs : s \notin databases[b].owned

(* What an intent speaks of.                                               *)
Named(i, b, s) == b \in i.paths \/ <<b, s>> \in i.scopes

(* The index has of a database, apart from what the intent names, only     *)
(* sessions it owns, once, and those it has as planned from as they are.   *)
Holds(contents, state, s, current) ==
    /\ contents # {} => s \in state.owned
    /\ \A x, y \in contents : x = y
    /\ s \in state.owned /\ state.planned[s] # 0 /\ current[s] = state.planned[s] =>
           contents = {state.planned[s]}

Settled(i, index, states, legacy, current, absent) ==
    /\ \A b \in C!Dbs, s \in Chats :
           Named(i, b, s) \/ Holds(index[b][s], states[b], s, current[b])
    /\ \A s \in Chats : s \in i.paths \/ (index[C!Json][s] # {} <=> s \in legacy)
    /\ \A b \in C!Dbs, s \in Chats :
           <<b, s>> \in i.scopes => states[b].known \/ b \notin absent \/ index[b][s] = {}

SettledNow(i) == Settled(i, indexed, databases, json_rows, chats, gone)

JsonOnce == \A s \in Chats : indexed[C!Json][s] = {} \/ (s \in json /\ indexed[C!Json][s] = {1})

(* What a refresh has.                                                     *)
ChatSession ==
    at # "idle" =>
        /\ databases_now = [b \in C!Dbs |-> IF b \in recovered.paths THEN C!NoDb ELSE databases[b]]
        /\ rows_now = json_rows \ recovered.paths
        /\ ~whole => recovered = C!Clean
        /\ at \in {"plan", "hydrate"} => intent = recovered
        /\ at = "publish" => intent = [paths |-> C!DeletePaths \cup C!LegacyTasks,
                                       scopes |-> C!ScopeTargets \cup C!Deferred]
        /\ C!Deferred \subseteq intent.scopes \/ at \in {"plan", "hydrate"}
        /\ at # "commit" => SettledNow(recovered)

(* What it has of each database.                                           *)
ChatOutcomes ==
    at # "idle" =>
        /\ \A b \in C!Dbs : outcome[b] # "none" => b \in inventory
        /\ at \in {"publish", "commit"} => \A b \in inventory : outcome[b] \in {"ready", "failed"}
        /\ \A b \in C!Dbs : ~whole /\ outcome[b] \in {"planned", "ready"} =>
               C!InChats(b) = databases_now[b].owned
        /\ \A b \in C!Dbs : outcome[b] = "ready" =>
               /\ databases[b].known \/ b \notin gone
               /\ \A s \in Chats :
                      IF s \in C!Dirty(b) \/ <<b, s>> \in recovered.scopes
                      THEN scan[b][s] # 0 /\ chats[b][s] = scan[b][s] => spool[b][s] = scan[b][s]
                      ELSE spool[b][s] = 0

(* A database that was not there when a full refresh listed the root, and  *)
(* is new to the checkpoint, has nothing of what the intent names.         *)
ChatAbsent ==
    at \notin {"idle", "commit"} /\ whole =>
        \A b \in C!Dbs \ inventory, s \in Chats :
            <<b, s>> \in recovered.scopes => databases[b].known \/ indexed[b][s] = {}

(* What is published: each database has what it owns, as the state to be   *)
(* committed says.                                                         *)
ChatPublished(now) ==
    /\ \A b \in C!Dbs, s \in Chats :
           \/ Holds(now[b][s], C!NextDatabases[b], s, chats[b])
           \/ <<b, s>> \in C!Deferred /\ b \notin recovered.paths
    /\ \A b \in C!Dbs, s \in Chats : b \in recovered.paths /\ C!Failed(b) => now[b][s] = {}
    /\ \A b \in C!Dbs, s \in Chats : C!ConfirmedAbsent(b) => now[b][s] = {}
    /\ \A s \in Chats : now[C!Json][s] # {} <=>
           IF whole THEN s \in json /\ ~C!DatabaseOwnsLegacy(s) ELSE s \in rows_now

(* An undisturbed refresh.                                                 *)
ChatCalm ==
    calm /\ at # "idle" =>
        /\ whole /\ inventory = C!Dbs \ gone
        /\ \A b \in C!Dbs : outcome[b] # "none" => outcome[b] # "failed" /\ scan[b] = chats[b]

HomeInv ==
    /\ ChatTypes /\ ContentsPassed /\ OwnersApart /\ SettledNow(intent) /\ JsonOnce
    /\ ChatSession /\ ChatOutcomes /\ ChatAbsent /\ (at = "commit" => ChatPublished(indexed)) /\ ChatCalm
    /\ at = "idle" /\ calm =>
           \A h \in C!Homes, s \in Chats : indexed[h][s] = C!Expected(h, s)

(* Whatever part moves, the variables of OpenCode take a step or stay.     *)
LEMMA ChatMoves ==
    ASSUME [DiscoveryNext]_<<which, vars, opencode, bob>>
    PROVE  C!Next \/ UNCHANGED C!opencode_vars
  BY DEF DiscoveryNext, opencode, C!opencode_vars, C!client, C!stored, C!refresh, C!found

(* A database is no session, nor the JSON files.                           *)
LEMMA ChatNames ==
    /\ C!Dbs \subseteq Nat \ {0} /\ C!Json \in C!Homes /\ C!Json \notin C!Dbs
    /\ \A b \in C!Dbs : b \in C!Homes /\ b \notin Chats /\ b # C!Json
    /\ \A h \in C!Homes : h = C!Json \/ h \in C!Dbs
    /\ C!Json \notin Chats
  BY DatabasesAreNumbers DEF C!Dbs, C!Homes, C!Json

(* Nothing is indexed at first.                                            *)
LEMMA ChatInit ==
    ASSUME DiscoveryInit PROVE HomeInv
  <1> USE DatabasesAreNumbers, ChatNames DEF DiscoveryInit, C!Init
  <1>1. C!Clean \in ChatIntents /\ C!NoDb \in ChatStates /\ C!Nothing \in [Chats -> Nat]
    BY DEF C!Clean, C!NoDb, C!Nothing, ChatIntents, ChatStates
  <1>2. ChatTypes
    <2>1. chats \in [C!Dbs -> [Chats -> Nat]] /\ moves \in Nat
      OBVIOUS
    <2>2. indexed \in [C!Homes -> [Chats -> SUBSET Nat]]
      OBVIOUS
    <2> QED
      BY <1>1, <2>1, <2>2 DEF ChatTypes, C!NoDbs, C!NoOutcome, C!NoScan
  <1>3. ContentsPassed
    BY DEF ContentsPassed, C!NoDbs, C!NoScan, C!NoDb, C!Nothing
  <1>4. OwnersApart
    BY DEF OwnersApart, C!NoDbs, C!NoDb
  <1>5. SettledNow(intent) /\ JsonOnce
    BY DEF SettledNow, Settled, JsonOnce, Holds, Named, C!NoDbs, C!NoDb, C!Clean
  <1> QED
    BY <1>2, <1>3, <1>4, <1>5 DEF HomeInv, ChatSession, ChatOutcomes, ChatAbsent, ChatCalm

(* What a refresh computes depends only on what it has.                    *)
LEMMA ChatTermsStay ==
    ASSUME UNCHANGED <<C!refresh, C!found>>
    PROVE  /\ C!Ready' = C!Ready /\ C!ScopeTargets' = C!ScopeTargets
           /\ C!Deferred' = C!Deferred /\ C!LostDatabases' = C!LostDatabases
           /\ C!NextDatabases' = C!NextDatabases
           /\ \A b \in C!Dbs : /\ C!InChats(b)' = C!InChats(b) /\ C!Dirty(b)' = C!Dirty(b)
                               /\ C!Failed(b)' <=> C!Failed(b)
                               /\ C!ConfirmedAbsent(b)' <=> C!ConfirmedAbsent(b)
           /\ \A s : C!DatabaseOwnsLegacy(s)' <=> C!DatabaseOwnsLegacy(s)
  <1> USE DEF C!refresh, C!found
  <1>1. \A b \in C!Dbs : C!InChats(b)' = C!InChats(b)
    BY DEF C!InChats
  <1>2. \A b \in C!Dbs : C!Dirty(b)' = C!Dirty(b)
    BY <1>1 DEF C!Dirty
  <1>3. C!Ready' = C!Ready
    BY DEF C!Ready
  <1>4. \A b : C!ConfirmedAbsent(b)' <=> C!ConfirmedAbsent(b)
    BY DEF C!ConfirmedAbsent
  <1>5. \A b : C!Failed(b)' <=> C!Failed(b)
    BY <1>4 DEF C!Failed
  <1>6. \A b \in C!Dbs : \A s : C!Claims(b, s)' <=> C!Claims(b, s)
    BY <1>1, <1>3, <1>5 DEF C!Claims
  <1>7. \A s : C!Claimants(s)' = C!Claimants(s)
    BY <1>5, <1>6 DEF C!Claimants
  <1>8. \A b, s : C!Owns(b, s)' <=> C!Owns(b, s)
    BY <1>7 DEF C!Owns
  <1>9. \A b : C!Owned(b)' = C!Owned(b)
    BY <1>8 DEF C!Owned
  <1>10. C!ScopeTargets' = C!ScopeTargets
    <2>1. \A t \in C!Ready \X Chats : t[1] \in C!Dbs
      BY DEF C!Ready
    <2> QED
      BY <1>2, <1>3, <1>8, <2>1 DEF C!ScopeTargets
  <1>11. C!Deferred' = C!Deferred
    BY <1>5 DEF C!Deferred
  <1>12. C!LostDatabases' = C!LostDatabases
    BY <1>4 DEF C!LostDatabases
  <1>13. C!NextDatabases' = C!NextDatabases
    BY <1>3, <1>9, <1>12 DEF C!NextDatabases
  <1>14. \A s : C!DatabaseOwnsLegacy(s)' <=> C!DatabaseOwnsLegacy(s)
    BY <1>3, <1>7 DEF C!DatabaseOwnsLegacy
  <1> QED
    BY <1>1, <1>2, <1>3, <1>4, <1>5, <1>10, <1>11, <1>12, <1>13, <1>14

(* And, of the JSON files, on what is indexed.                             *)
LEMMA LegacyTermsStay ==
    ASSUME UNCHANGED <<C!refresh, C!found, json, indexed>>
    PROVE  C!DeletePaths' = C!DeletePaths /\ C!LegacyTasks' = C!LegacyTasks
  <1>0. C!LostDatabases' = C!LostDatabases /\ recovered' = recovered
        /\ \A s : C!DatabaseOwnsLegacy(s)' <=> C!DatabaseOwnsLegacy(s)
    BY ChatTermsStay DEF C!refresh
  <1>1. C!LegacyDeletes' = C!LegacyDeletes
    BY <1>0 DEF C!LegacyDeletes, C!refresh
  <1>2. C!LegacyTasks' = C!LegacyTasks
    BY <1>0 DEF C!LegacyTasks, C!refresh
  <1> QED
    BY <1>0, <1>1, <1>2 DEF C!DeletePaths

(* The state of each database that will be committed.                      *)
LEMMA NextStates ==
    ASSUME HomeInv, NEW b \in C!Dbs
    PROVE  /\ C!ConfirmedAbsent(b) /\ databases_now[b].known => C!NextDatabases[b] = C!NoDb
           /\ outcome[b] = "ready" =>
                  C!NextDatabases[b] = [known |-> TRUE, owned |-> C!Owned(b), planned |-> scan[b]]
           /\ ~(C!ConfirmedAbsent(b) /\ databases_now[b].known) /\ outcome[b] # "ready" =>
                  C!NextDatabases[b] = databases_now[b]
  BY DEF C!NextDatabases, C!LostDatabases, C!Ready, C!ConfirmedAbsent

LEMMA NextPassed ==
    ASSUME HomeInv, NEW b \in C!Dbs, NEW s \in Chats
    PROVE  C!NextDatabases[b] \in ChatStates /\ C!NextDatabases[b].planned[s] <= moves
  <1>1. /\ databases_now[b] \in ChatStates /\ databases_now[b].planned[s] <= moves
        /\ scan[b] \in [Chats -> Nat] /\ scan[b][s] <= moves /\ moves \in Nat
    BY DEF HomeInv, ChatTypes, ContentsPassed
  <1>2. C!NoDb \in ChatStates /\ C!NoDb.planned[s] = 0
    BY DEF C!NoDb, C!Nothing, ChatStates
  <1>3. [known |-> TRUE, owned |-> C!Owned(b), planned |-> scan[b]] \in ChatStates
    BY <1>1 DEF ChatStates, C!Owned
  <1> QED
    BY <1>1, <1>2, <1>3, NextStates

(* The contents of a session are written anew or go.                       *)
LEMMA HoldsMoves ==
    ASSUME NEW contents, NEW state \in ChatStates, NEW s \in Chats, NEW n \in Nat,
           NEW before \in [Chats -> Nat], NEW after \in [Chats -> Nat],
           state.planned[s] <= n, after[s] \in {0, before[s], n + 1},
           Holds(contents, state, s, before)
    PROVE  Holds(contents, state, s, after)
  <1>1. state.planned[s] \in Nat
    BY DEF ChatStates
  <1>2. CASE after[s] = before[s]
    BY <1>2 DEF Holds
  <1>3. CASE after[s] \in {0, n + 1}
    BY <1>1, <1>3 DEF Holds
  <1> QED
    BY <1>2, <1>3

(* What a client does to the databases, one change at a time.              *)
ChatsMoved ==
    /\ moves' = moves + 1 /\ calm' = FALSE
    /\ UNCHANGED <<json, C!stored, at, C!refresh, C!found>>
    /\ chats' \in [C!Dbs -> [Chats -> Nat]]
    /\ \A b \in C!Dbs, s \in Chats : chats'[b][s] \in {0, chats[b][s], moves + 1}
    /\ gone' \in SUBSET C!Dbs /\ shut' \in SUBSET C!Dbs
    /\ \A b \in gone' : \/ b \in gone \/ databases[b].known
                        \/ at = "idle" /\ \A s \in Chats : <<b, s>> \notin intent.scopes

LEMMA ChatsMove ==
    ASSUME HomeInv, ~EarlyLoss, NEW b \in C!Dbs,
           \/ \E s \in Chats : C!WriteChat(b, s) \/ C!DeleteChat(b, s)
           \/ C!ShutDatabase(b) \/ C!MoveDatabase(b)
    PROVE  ChatsMoved
  <1> USE DEF HomeInv, ChatTypes, ChatsMoved, C!Moves
  <1>1. ASSUME NEW s \in Chats, C!WriteChat(b, s) PROVE ChatsMoved
    BY <1>1 DEF C!WriteChat
  <1>2. ASSUME NEW s \in Chats, C!DeleteChat(b, s) PROVE ChatsMoved
    BY <1>2 DEF C!DeleteChat
  <1>3. CASE C!ShutDatabase(b)
    BY <1>3 DEF C!ShutDatabase
  <1>4. CASE C!MoveDatabase(b)
    BY <1>4 DEF C!MoveDatabase
  <1> QED
    BY <1>1, <1>2, <1>3, <1>4

(* What is settled stays so.                                               *)
LEMMA SettledMoves ==
    ASSUME HomeInv, ChatsMoved, NEW i, SettledNow(i),
           \A b \in gone' : \/ b \in gone \/ databases[b].known
                            \/ \A s \in Chats : <<b, s>> \notin i.scopes
    PROVE  Settled(i, indexed, databases, json_rows, chats', gone')
  <1>1. ASSUME NEW b \in C!Dbs, NEW s \in Chats, Holds(indexed[b][s], databases[b], s, chats[b])
        PROVE  Holds(indexed[b][s], databases[b], s, chats'[b])
    <2>1. /\ databases[b] \in ChatStates /\ moves \in Nat /\ databases[b].planned[s] <= moves
          /\ chats[b] \in [Chats -> Nat] /\ chats'[b] \in [Chats -> Nat]
          /\ chats'[b][s] \in {0, chats[b][s], moves + 1}
      BY DEF HomeInv, ChatTypes, ContentsPassed, ChatsMoved
    <2> QED
      BY <1>1, <2>1, HoldsMoves
  <1> QED
    BY <1>1 DEF SettledNow, Settled

LEMMA ChatsMovedStep ==
    ASSUME HomeInv, ChatsMoved PROVE HomeInv'
  <1> USE DEF ChatsMoved, C!stored
  <1>0. UNCHANGED <<C!refresh, C!found, json, indexed>>
    OBVIOUS
  <1> USE DEF C!refresh, C!found
  <1>1. ChatTypes'
    BY DEF HomeInv, ChatTypes
  <1>2. ContentsPassed'
    <2> SUFFICES ASSUME NEW b \in C!Dbs, NEW s \in Chats
                 PROVE  /\ chats'[b][s] <= moves + 1 /\ scan[b][s] <= moves + 1
                        /\ databases[b].planned[s] <= moves + 1
                        /\ databases_now[b].planned[s] <= moves + 1
      BY DEF ContentsPassed
    <2>1. /\ chats[b][s] \in Nat /\ scan[b][s] \in Nat /\ moves \in Nat
          /\ databases[b].planned[s] \in Nat /\ databases_now[b].planned[s] \in Nat
      BY DEF HomeInv, ChatTypes, ChatStates
    <2>2. /\ chats[b][s] <= moves /\ scan[b][s] <= moves
          /\ databases[b].planned[s] <= moves /\ databases_now[b].planned[s] <= moves
          /\ chats'[b][s] \in {0, chats[b][s], moves + 1}
      BY DEF HomeInv, ContentsPassed
    <2> QED
      BY <2>1, <2>2
  <1>3. OwnersApart' /\ JsonOnce'
    BY DEF HomeInv, OwnersApart, JsonOnce
  <1>4. SettledNow(intent)'
    BY SettledMoves DEF HomeInv, SettledNow
  <1>5. ChatSession'
    <2>1. ASSUME at # "idle", at # "commit" PROVE SettledNow(recovered)'
      <3>1. SettledNow(recovered)
        BY <2>1 DEF HomeInv, ChatSession
      <3> QED
        BY <2>1, <3>1, SettledMoves DEF SettledNow
    <2> QED
      BY <1>0, <2>1, ChatTermsStay, LegacyTermsStay DEF HomeInv, ChatSession
  <1>6. ChatOutcomes'
    <2> SUFFICES ASSUME at # "idle" PROVE ChatOutcomes'
      BY DEF ChatOutcomes
    <2>1. ASSUME NEW b \in C!Dbs, outcome[b] = "ready" PROVE databases[b].known \/ b \notin gone'
      BY <2>1 DEF HomeInv, ChatOutcomes
    <2>2. ASSUME NEW b \in C!Dbs, NEW s \in Chats, scan[b][s] # 0, chats'[b][s] = scan[b][s]
          PROVE  chats[b][s] = scan[b][s]
      <3>1. scan[b][s] <= moves /\ moves \in Nat /\ scan[b][s] \in Nat
        BY DEF HomeInv, ContentsPassed, ChatTypes
      <3> QED
        BY <2>2, <3>1
    <2> QED
      BY <1>0, <2>1, <2>2, ChatTermsStay DEF HomeInv, ChatOutcomes
  <1>7. at = "commit" => ChatPublished(indexed)'
    <2> SUFFICES ASSUME at = "commit" PROVE ChatPublished(indexed)'
      OBVIOUS
    <2>1. ASSUME NEW b \in C!Dbs, NEW s \in Chats,
                 Holds(indexed[b][s], C!NextDatabases[b], s, chats[b])
          PROVE  Holds(indexed[b][s], C!NextDatabases[b], s, chats'[b])
      <3>1. /\ C!NextDatabases[b] \in ChatStates /\ C!NextDatabases[b].planned[s] <= moves
        BY NextPassed
      <3>2. /\ moves \in Nat /\ chats[b] \in [Chats -> Nat] /\ chats'[b] \in [Chats -> Nat]
            /\ chats'[b][s] \in {0, chats[b][s], moves + 1}
        BY DEF HomeInv, ChatTypes
      <3> QED
        BY <2>1, <3>1, <3>2, HoldsMoves
    <2> QED
      BY <1>0, <2>1, ChatTermsStay DEF HomeInv, ChatPublished
  <1>8. ChatCalm' /\ ~calm' /\ ChatAbsent'
    BY DEF ChatCalm, HomeInv, ChatAbsent
  <1> QED
    BY <1>1, <1>2, <1>3, <1>4, <1>5, <1>6, <1>7, <1>8 DEF HomeInv

(* A refresh begins, or begins again as a full one, with the state the     *)
(* intent leaves it.                                                       *)
ChatBegun ==
    /\ at' = "plan" /\ recovered' = intent
    /\ databases_now' = [b \in C!Dbs |-> IF b \in intent.paths THEN C!NoDb ELSE databases[b]]
    /\ rows_now' = json_rows \ intent.paths
    /\ ~whole' => intent = C!Clean
    /\ UNCHANGED <<C!client, C!stored>>
    /\ inventory' \in SUBSET C!Dbs /\ outcome' = C!NoOutcome
    /\ scan' = C!NoScan /\ spool' = C!NoScan
    /\ (whole' => inventory' = C!Dbs \ gone) /\ (calm' => whole')

LEMMA ChatBegins ==
    ASSUME HomeInv, ChatBegun PROVE HomeInv'
  <1> USE DEF ChatBegun, C!client, C!stored
  <1>1. ChatTypes'
    <2>1. C!NoDb \in ChatStates /\ C!NoScan \in [C!Dbs -> [Chats -> Nat]]
      BY DEF C!NoDb, C!NoScan, C!Nothing, ChatStates
    <2>2. databases_now' \in [C!Dbs -> ChatStates]
      BY <2>1 DEF HomeInv, ChatTypes
    <2>3. outcome' \in [C!Dbs -> {"none", "planned", "ready", "failed"}]
      BY DEF C!NoOutcome
    <2> QED
      BY <2>1, <2>2, <2>3 DEF HomeInv, ChatTypes
  <1>2. ContentsPassed'
    <2> SUFFICES ASSUME NEW b \in C!Dbs, NEW s \in Chats
                 PROVE  /\ chats[b][s] <= moves /\ scan'[b][s] <= moves
                        /\ databases[b].planned[s] <= moves /\ databases_now'[b].planned[s] <= moves
      BY DEF ContentsPassed
    <2>1. moves \in Nat /\ scan'[b][s] = 0 /\ C!NoDb.planned[s] = 0
      BY DEF HomeInv, ChatTypes, C!NoScan, C!NoDb, C!Nothing
    <2> QED
      BY <2>1 DEF HomeInv, ContentsPassed
  <1>3. OwnersApart' /\ JsonOnce'
    BY DEF HomeInv, OwnersApart, JsonOnce
  <1>4. SettledNow(intent)' /\ SettledNow(recovered)'
    BY DEF HomeInv, SettledNow
  <1>5. ChatSession'
    BY <1>4 DEF ChatSession
  <1>6. \A b \in C!Dbs : outcome'[b] = "none"
    BY DEF C!NoOutcome
  <1>7. ChatOutcomes'
    BY <1>6 DEF ChatOutcomes
  <1>8. ChatCalm' /\ ChatAbsent'
    BY <1>4, <1>6 DEF ChatCalm, ChatAbsent, SettledNow, Settled
  <1> QED
    BY <1>1, <1>2, <1>3, <1>4, <1>5, <1>7, <1>8 DEF HomeInv

(* A refresh ends without a commit, or is killed.                          *)
LEMMA ChatEnds ==
    ASSUME HomeInv, C!Rest, ~calm', UNCHANGED <<C!client, C!stored>> PROVE HomeInv'
  <1> USE DEF C!Rest, C!client, C!stored
  <1>1. ChatTypes'
    <2>1. C!NoDb \in ChatStates /\ C!NoScan \in [C!Dbs -> [Chats -> Nat]] /\ C!Clean \in ChatIntents
      BY DEF C!NoDb, C!NoScan, C!Nothing, C!Clean, ChatStates, ChatIntents
    <2>2. databases_now' \in [C!Dbs -> ChatStates]
      BY <2>1 DEF C!NoDbs
    <2>3. outcome' \in [C!Dbs -> {"none", "planned", "ready", "failed"}]
      BY DEF C!NoOutcome
    <2> QED
      BY <2>1, <2>2, <2>3 DEF HomeInv, ChatTypes
  <1>2. ContentsPassed'
    <2> SUFFICES ASSUME NEW b \in C!Dbs, NEW s \in Chats
                 PROVE  /\ chats[b][s] <= moves /\ scan'[b][s] <= moves
                        /\ databases[b].planned[s] <= moves /\ databases_now'[b].planned[s] <= moves
      BY DEF ContentsPassed
    <2>1. moves \in Nat /\ scan'[b][s] = 0 /\ databases_now'[b].planned[s] = 0
      BY DEF HomeInv, ChatTypes, C!NoScan, C!NoDbs, C!NoDb, C!Nothing
    <2> QED
      BY <2>1 DEF HomeInv, ContentsPassed
  <1>3. OwnersApart' /\ JsonOnce' /\ SettledNow(intent)'
    BY DEF HomeInv, OwnersApart, JsonOnce, SettledNow
  <1> QED
    BY <1>1, <1>2, <1>3 DEF HomeInv, ChatSession, ChatOutcomes, ChatAbsent, ChatCalm

(* A refresh starts.                                                       *)
LEMMA ChatStarts ==
    ASSUME HomeInv, C!RefreshAll \/ \E chosen \in SUBSET C!Dbs : C!RefreshSome(chosen)
    PROVE  HomeInv'
  <1>1. CASE C!RefreshAll
    <2>1. ChatBegun
      BY <1>1 DEF ChatBegun, C!RefreshAll, C!Recover, C!Begin
    <2> QED
      BY <2>1, ChatBegins
  <1>2. ASSUME NEW chosen \in SUBSET C!Dbs, C!RefreshSome(chosen) PROVE HomeInv'
    <2>1. ChatBegun
      BY <1>2 DEF ChatBegun, C!RefreshSome, C!Recover, C!Begin
    <2> QED
      BY <2>1, ChatBegins
  <1> QED
    BY <1>1, <1>2

(* A narrowed refresh becomes a full one, or fails.                        *)
LEMMA ChatGivesUp ==
    ASSUME HomeInv, (at = "plan" /\ C!Widen) \/ C!Fail PROVE HomeInv'
  <1>1. CASE at = "plan" /\ C!Widen
    <2>1. ChatBegun
      BY <1>1 DEF ChatBegun, C!Widen, C!Begin, HomeInv, ChatSession
    <2> QED
      BY <2>1, ChatBegins
  <1>2. CASE C!Fail
    BY <1>2, ChatEnds DEF C!Fail
  <1> QED
    BY <1>1, <1>2

(* What a refresh learns of a database before it publishes anything.       *)
LEMMA ChatLooks ==
    ASSUME HomeInv, at \in {"plan", "hydrate"}, at' \in {"plan", "hydrate"},
           UNCHANGED <<C!client, C!stored, C!refresh, inventory>>,
           outcome' \in [C!Dbs -> {"none", "planned", "ready", "failed"}],
           scan' \in [C!Dbs -> [Chats -> Nat]], spool' \in [C!Dbs -> [Chats -> Nat]],
           \A b \in C!Dbs, s \in Chats : scan'[b][s] <= moves,
           ChatOutcomes', ChatCalm'
    PROVE  HomeInv'
  <1> USE DEF C!client, C!stored, C!refresh
  <1>1. ChatTypes'
    BY DEF HomeInv, ChatTypes
  <1>2. ContentsPassed'
    BY DEF HomeInv, ContentsPassed
  <1>3. OwnersApart' /\ JsonOnce' /\ SettledNow(intent)' /\ SettledNow(recovered)'
    BY DEF HomeInv, OwnersApart, JsonOnce, SettledNow, ChatSession
  <1>4. ChatSession'
    BY <1>3 DEF HomeInv, ChatSession
  <1>5. ChatAbsent'
    BY DEF HomeInv, ChatAbsent
  <1> QED
    BY <1>1, <1>2, <1>3, <1>4, <1>5 DEF HomeInv

(* What was learnt of the others stays.                                    *)
LEMMA OthersStay ==
    ASSUME HomeInv, at # "idle", at' = at, UNCHANGED <<C!client, C!stored, C!refresh, inventory>>,
           NEW b \in C!Dbs,
           outcome'[b] = outcome[b], scan'[b] = scan[b], spool'[b] = spool[b]
    PROVE  /\ outcome'[b] # "none" => b \in inventory'
           /\ ~whole' /\ outcome'[b] \in {"planned", "ready"} => C!InChats(b)' = databases_now'[b].owned
           /\ outcome'[b] = "ready" =>
               /\ databases'[b].known \/ b \notin gone'
               /\ \A s \in Chats :
                      IF s \in C!Dirty(b)' \/ <<b, s>> \in recovered'.scopes
                      THEN scan'[b][s] # 0 /\ chats'[b][s] = scan'[b][s] => spool'[b][s] = scan'[b][s]
                      ELSE spool'[b][s] = 0
  <1> USE DEF C!client, C!stored, C!refresh
  <1>1. C!InChats(b)' = C!InChats(b)
    BY DEF C!InChats
  <1>2. C!Dirty(b)' = C!Dirty(b)
    BY <1>1 DEF C!Dirty
  <1> QED
    BY <1>1, <1>2 DEF HomeInv, ChatOutcomes

(* A database cannot be read.                                              *)
LEMMA ChatFails ==
    ASSUME HomeInv, at \in {"plan", "hydrate"}, whole, NEW d \in C!Dbs, d \in inventory,
           outcome' = [outcome EXCEPT ![d] = "failed"], calm' = FALSE,
           UNCHANGED <<C!client, C!stored, at, C!refresh, inventory, scan, spool>>
    PROVE  HomeInv'
  <1>1. /\ outcome \in [C!Dbs -> {"none", "planned", "ready", "failed"}]
        /\ scan \in [C!Dbs -> [Chats -> Nat]] /\ spool \in [C!Dbs -> [Chats -> Nat]]
        /\ \A b \in C!Dbs, s \in Chats : scan[b][s] <= moves
    BY DEF HomeInv, ChatTypes, ContentsPassed
  <1>2. outcome' \in [C!Dbs -> {"none", "planned", "ready", "failed"}] /\ outcome'[d] = "failed"
    BY <1>1
  <1>3. ChatOutcomes'
    <2>1. at' \notin {"publish", "commit"} /\ whole' /\ inventory' = inventory /\ at # "idle"
      BY DEF C!refresh
    <2>2. \A b \in C!Dbs \ {d} : outcome'[b] = outcome[b] /\ scan'[b] = scan[b] /\ spool'[b] = spool[b]
      BY <1>1
    <2> QED
      BY <1>2, <2>1, <2>2, OthersStay DEF ChatOutcomes
  <1>4. ChatCalm'
    BY DEF ChatCalm
  <1> QED
    BY <1>1, <1>2, <1>3, <1>4, ChatLooks

(* A database is planned from its snapshot.                                *)
LEMMA ChatPlanned ==
    ASSUME HomeInv, at = "plan", NEW d \in C!Dbs, d \in inventory, outcome[d] = "none",
           whole \/ {s \in Chats : chats[d][s] # 0} = databases_now[d].owned,
           outcome' = [outcome EXCEPT ![d] = "planned"], scan' = [scan EXCEPT ![d] = chats[d]],
           UNCHANGED <<C!client, C!stored, at, C!refresh, inventory, spool, calm>>
    PROVE  HomeInv'
  <1>1. /\ outcome \in [C!Dbs -> {"none", "planned", "ready", "failed"}]
        /\ scan \in [C!Dbs -> [Chats -> Nat]] /\ spool \in [C!Dbs -> [Chats -> Nat]]
        /\ chats \in [C!Dbs -> [Chats -> Nat]]
        /\ \A b \in C!Dbs, s \in Chats : scan[b][s] <= moves /\ chats[b][s] <= moves
    BY DEF HomeInv, ChatTypes, ContentsPassed
  <1>2. outcome' \in [C!Dbs -> {"none", "planned", "ready", "failed"}] /\ outcome'[d] = "planned"
    BY <1>1
  <1>3. scan' \in [C!Dbs -> [Chats -> Nat]] /\ scan'[d] = chats[d]
        /\ \A b \in C!Dbs, s \in Chats : scan'[b][s] <= moves
    BY <1>1
  <1>4. \A b \in C!Dbs \ {d} : outcome'[b] = outcome[b] /\ scan'[b] = scan[b] /\ spool'[b] = spool[b]
    BY <1>1
  <1>5. ChatOutcomes'
    <2>1. at' \notin {"publish", "commit"} /\ inventory' = inventory /\ at # "idle"
      OBVIOUS
    <2>2. ~whole' => C!InChats(d)' = databases_now'[d].owned
      BY <1>3 DEF C!InChats, C!refresh
    <2> QED
      BY <1>2, <1>4, <2>1, <2>2, OthersStay DEF ChatOutcomes
  <1>6. ChatCalm'
    BY <1>2, <1>3, <1>4 DEF HomeInv, ChatCalm, C!client, C!refresh
  <1> QED
    BY <1>1, <1>2, <1>3, <1>5, <1>6, ChatLooks

(* The sessions of a database are read.                                    *)
LEMMA ChatHydrated ==
    ASSUME HomeInv, at = "hydrate", NEW d \in C!Dbs, outcome[d] = "planned", d \notin gone,
           outcome' = [outcome EXCEPT ![d] = "ready"],
           spool' = [spool EXCEPT ![d] =
               [s \in Chats |-> IF s \in C!Dirty(d) \/ <<d, s>> \in recovered.scopes
                                THEN chats[d][s] ELSE 0]],
           UNCHANGED <<C!client, C!stored, at, C!refresh, inventory, scan, calm>>
    PROVE  HomeInv'
  <1>1. /\ outcome \in [C!Dbs -> {"none", "planned", "ready", "failed"}]
        /\ scan \in [C!Dbs -> [Chats -> Nat]] /\ spool \in [C!Dbs -> [Chats -> Nat]]
        /\ chats \in [C!Dbs -> [Chats -> Nat]]
        /\ \A b \in C!Dbs, s \in Chats : scan[b][s] <= moves
    BY DEF HomeInv, ChatTypes, ContentsPassed
  <1>2. outcome' \in [C!Dbs -> {"none", "planned", "ready", "failed"}] /\ outcome'[d] = "ready"
    BY <1>1
  <1>3. /\ spool' \in [C!Dbs -> [Chats -> Nat]]
        /\ \A s \in Chats : spool'[d][s] = IF s \in C!Dirty(d) \/ <<d, s>> \in recovered.scopes
                                           THEN chats[d][s] ELSE 0
    BY <1>1
  <1>4. \A b \in C!Dbs \ {d} : outcome'[b] = outcome[b] /\ scan'[b] = scan[b] /\ spool'[b] = spool[b]
    BY <1>1
  <1>5. C!InChats(d)' = C!InChats(d) /\ C!Dirty(d)' = C!Dirty(d)
    BY DEF C!InChats, C!Dirty, C!refresh
  <1>6. ChatOutcomes'
    <2>1. at' \notin {"publish", "commit"} /\ inventory' = inventory /\ at # "idle" /\ d \in inventory
          /\ d \notin gone' /\ (~whole' => C!InChats(d)' = databases_now'[d].owned)
      BY <1>5 DEF HomeInv, ChatOutcomes, C!refresh, C!client
    <2>2. \A s \in Chats :
              IF s \in C!Dirty(d)' \/ <<d, s>> \in recovered'.scopes
              THEN scan'[d][s] # 0 /\ chats'[d][s] = scan'[d][s] => spool'[d][s] = scan'[d][s]
              ELSE spool'[d][s] = 0
      BY <1>3, <1>5 DEF C!refresh, C!client
    <2>3. ASSUME NEW b \in C!Dbs
          PROVE  /\ outcome'[b] # "none" => b \in inventory'
                 /\ ~whole' /\ outcome'[b] \in {"planned", "ready"} =>
                        C!InChats(b)' = databases_now'[b].owned
                 /\ outcome'[b] = "ready" =>
                     /\ databases'[b].known \/ b \notin gone'
                     /\ \A s \in Chats :
                            IF s \in C!Dirty(b)' \/ <<b, s>> \in recovered'.scopes
                            THEN scan'[b][s] # 0 /\ chats'[b][s] = scan'[b][s] =>
                                     spool'[b][s] = scan'[b][s]
                            ELSE spool'[b][s] = 0
      <3>1. CASE b = d
        BY <2>1, <2>2, <3>1
      <3>2. CASE b # d
        BY <1>4, <3>2, OthersStay
      <3> QED
        BY <3>1, <3>2
    <2> QED
      BY <2>1, <2>3 DEF ChatOutcomes
  <1>7. ChatCalm'
    BY <1>1, <1>2, <1>4 DEF HomeInv, ChatCalm, C!client, C!refresh
  <1> QED
    BY <1>1, <1>2, <1>3, <1>6, <1>7, ChatLooks

(* A refresh looks at its databases.                                       *)
LEMMA ChatDiscovers ==
    ASSUME HomeInv, C!Planned \/ \E d \in C!Dbs : C!Plan(d) \/ C!Hydrate(d) PROVE HomeInv'
  <1>1. ASSUME NEW d \in C!Dbs, C!Plan(d) PROVE HomeInv'
    <2> USE <1>1 DEF C!Plan
    <2>1. CASE d \in gone \cup shut /\ whole
      BY <2>1, ChatFails
    <2>2. CASE d \in gone \cup shut /\ ~whole
      BY <2>2, ChatGivesUp
    <2>3. CASE d \notin gone \cup shut
      BY <2>3, ChatGivesUp, ChatPlanned
    <2> QED
      BY <2>1, <2>2, <2>3
  <1>2. ASSUME NEW d \in C!Dbs, C!Hydrate(d) PROVE HomeInv'
    <2> USE <1>2 DEF C!Hydrate
    <2>1. CASE C!Unreadable(d) /\ whole
      <3>1. d \in inventory
        BY DEF HomeInv, ChatOutcomes
      <3> QED
        BY <2>1, <3>1, ChatFails
    <2>2. CASE C!Unreadable(d) /\ ~whole
      BY <2>2, ChatGivesUp
    <2>3. CASE ~C!Unreadable(d)
      BY <2>3, ChatHydrated DEF C!Unreadable
    <2> QED
      BY <2>1, <2>2, <2>3
  <1>3. CASE C!Planned
    <2> USE <1>3 DEF C!Planned
    <2>1. /\ outcome' \in [C!Dbs -> {"none", "planned", "ready", "failed"}]
          /\ scan' \in [C!Dbs -> [Chats -> Nat]] /\ spool' \in [C!Dbs -> [Chats -> Nat]]
          /\ \A b \in C!Dbs, s \in Chats : scan'[b][s] <= moves
      BY DEF HomeInv, ChatTypes, ContentsPassed, C!found
    <2>2. ChatOutcomes'
      BY ChatTermsStay DEF HomeInv, ChatOutcomes, C!found, C!refresh, C!client, C!stored
    <2>3. ChatCalm'
      BY DEF HomeInv, ChatCalm, C!found, C!refresh, C!client
    <2> QED
      BY <2>1, <2>2, <2>3, ChatLooks DEF C!found
  <1> QED
    BY <1>1, <1>2, <1>3

(* What a refresh has of the checkpoint.                                   *)
LEMMA ChatHas ==
    ASSUME HomeInv, at # "idle", NEW b \in C!Dbs
    PROVE  /\ b \in recovered.paths => databases_now[b] = C!NoDb /\ databases_now[b].owned = {}
           /\ b \notin recovered.paths => databases_now[b] = databases[b]
           /\ databases_now[b].owned \subseteq databases[b].owned
           /\ ~databases_now[b].known => databases_now[b].owned = {}
           /\ rows_now \subseteq json_rows /\ json_rows \subseteq json /\ json \subseteq Chats
  <1>1. databases_now[b] = IF b \in recovered.paths THEN C!NoDb ELSE databases[b]
    BY DEF HomeInv, ChatSession
  <1>2. C!NoDb.owned = {} /\ ~C!NoDb.known
    BY DEF C!NoDb
  <1>3. ~databases[b].known => databases[b].owned = {}
    BY DEF HomeInv, OwnersApart
  <1>4. rows_now \subseteq json_rows /\ json_rows \subseteq json /\ json \subseteq Chats
    BY DEF HomeInv, ChatSession, ChatTypes
  <1> QED
    BY <1>1, <1>2, <1>3, <1>4

(* A session has one owner.                                                *)
LEMMA OneOwner ==
    ASSUME HomeInv, NEW a \in C!Dbs, NEW b \in C!Dbs, NEW s \in Chats, C!Owns(a, s), C!Owns(b, s)
    PROVE  a = b
  <1>1. a \in Nat /\ b \in Nat
    BY ChatNames
  <1>2. a <= b /\ b <= a
    BY DEF C!Owns
  <1> QED
    BY <1>1, <1>2

(* A database that failed keeps its sessions.                              *)
LEMMA FailedOwns ==
    ASSUME HomeInv, at # "idle", NEW b \in C!Dbs, NEW s \in Chats,
           C!Failed(b), s \in databases_now[b].owned
    PROVE  C!Owns(b, s)
  <1>1. C!Claims(b, s)
    BY DEF C!Claims
  <1>2. \A a \in C!Dbs : C!Failed(a) /\ C!Claims(a, s) => a = b
    BY ChatHas DEF C!Claims, HomeInv, OwnersApart
  <1>3. C!Claimants(s) = {b}
    BY <1>1, <1>2 DEF C!Claimants
  <1>4. b \in Nat
    BY ChatNames
  <1> QED
    BY <1>3, <1>4 DEF C!Owns

(* An owner claims its session.                                            *)
LEMMA OwnerClaims ==
    ASSUME NEW b, NEW s, C!Owns(b, s)
    PROVE  b \in C!Dbs /\ C!Claims(b, s) /\ C!Claimants(s) # {}
  BY DEF C!Owns, C!Claimants

(* What will be committed as owned is owned.                               *)
LEMMA NextOwned ==
    ASSUME HomeInv, at # "idle", NEW b \in C!Dbs, NEW s \in C!NextDatabases[b].owned
    PROVE  s \in Chats /\ C!Owns(b, s)
  <1>1. CASE outcome[b] = "ready"
    <2>0. C!NextDatabases[b] = [known |-> TRUE, owned |-> C!Owned(b), planned |-> scan[b]]
      BY <1>1, NextStates
    <2>1. s \in C!Owned(b)
      BY <2>0
    <2> QED
      BY <2>1 DEF C!Owned
  <1>2. CASE outcome[b] # "ready" /\ C!ConfirmedAbsent(b)
    <2>1. C!NextDatabases[b] = C!NoDb
          \/ (~databases_now[b].known /\ C!NextDatabases[b] = databases_now[b])
      BY <1>2, NextStates
    <2>2. ~databases_now[b].known => databases_now[b].owned = {}
      BY ChatHas
    <2> QED
      BY <2>1, <2>2 DEF C!NoDb
  <1>3. CASE outcome[b] # "ready" /\ ~C!ConfirmedAbsent(b)
    <2>1. s \in databases_now[b].owned /\ C!Failed(b)
      BY <1>3, NextStates DEF C!Failed
    <2>2. s \in Chats
      BY <2>1 DEF HomeInv, ChatTypes, ChatStates
    <2> QED
      BY <2>1, <2>2, FailedOwns
  <1> QED
    BY <1>1, <1>2, <1>3

(* The three kinds of database, once all are looked at.                    *)
LEMMA ChatKinds ==
    ASSUME NEW b \in C!Dbs
    PROVE  /\ b \in C!Ready <=> outcome[b] = "ready"
           /\ outcome[b] = "ready" => ~C!Failed(b) /\ ~C!ConfirmedAbsent(b)
           /\ C!Failed(b) => outcome[b] # "ready" /\ ~C!ConfirmedAbsent(b)
           /\ outcome[b] = "ready" \/ C!Failed(b) \/ C!ConfirmedAbsent(b)
           /\ C!ConfirmedAbsent(b) => outcome[b] # "ready" /\ whole /\ b \notin inventory
  BY DEF C!Ready, C!Failed, C!ConfirmedAbsent

(* What is deleted of a database, and what is read of it.                  *)
LEMMA ChatDeletes ==
    ASSUME HomeInv, at # "idle", NEW b \in C!Dbs, NEW s \in Chats
    PROVE  /\ b \in C!DeletePaths <=>
                  b \in recovered.paths \/ (databases_now[b].known /\ C!ConfirmedAbsent(b))
           /\ b \notin C!LegacyTasks
           /\ <<b, s>> \in C!ScopeTargets <=>
                  /\ outcome[b] = "ready"
                  /\ \/ s \in databases_now[b].owned /\ ~C!Owns(b, s)
                     \/ s \in C!Dirty(b) /\ C!Owns(b, s)
                     \/ <<b, s>> \in recovered.scopes
           /\ <<b, s>> \in C!Deferred <=> <<b, s>> \in recovered.scopes /\ C!Failed(b)
           /\ s \in C!DeletePaths <=> s \in recovered.paths \/ s \in C!LegacyDeletes
  <1>1. b \notin json /\ s \notin C!Dbs
    BY ChatNames, ChatHas
  <1>2. b \notin C!LegacyDeletes /\ b \notin C!LegacyTasks /\ s \notin C!LostDatabases
    BY <1>1 DEF C!LegacyDeletes, C!LegacyTasks, C!LostDatabases
  <1>3. b \in C!LostDatabases <=> databases_now[b].known /\ C!ConfirmedAbsent(b)
    BY DEF C!LostDatabases
  <1>4. <<b, s>> \in C!ScopeTargets <=>
            /\ outcome[b] = "ready"
            /\ \/ s \in databases_now[b].owned /\ ~C!Owns(b, s)
               \/ s \in C!Dirty(b) /\ C!Owns(b, s)
               \/ <<b, s>> \in recovered.scopes
    BY DEF C!ScopeTargets, C!Ready
  <1>5. <<b, s>> \in C!Deferred <=> <<b, s>> \in recovered.scopes /\ C!Failed(b)
    BY DEF C!Deferred
  <1> QED
    BY <1>2, <1>3, <1>4, <1>5 DEF C!DeletePaths

(* What the index has when a refresh has published.                        *)
Published ==
    [h \in C!Homes |-> [s \in Chats |->
        IF h = C!Json
        THEN (IF s \in C!DeletePaths THEN {} ELSE indexed[C!Json][s])
             \cup (IF s \in C!LegacyTasks THEN {1} ELSE {})
        ELSE (IF h \in C!DeletePaths \/ <<h, s>> \in C!ScopeTargets THEN {} ELSE indexed[h][s])
             \cup C!Spooled(h, s)]]

LEMMA PublishedOf ==
    ASSUME NEW b \in C!Dbs, NEW s \in Chats
    PROVE  /\ Published[b][s] =
                (IF b \in C!DeletePaths \/ <<b, s>> \in C!ScopeTargets THEN {} ELSE indexed[b][s])
                \cup C!Spooled(b, s)
           /\ outcome[b] # "ready" => C!Spooled(b, s) = {}
  BY ChatNames DEF Published, C!Spooled, C!Ready

LEMMA PublishedJson ==
    ASSUME NEW s \in Chats
    PROVE  Published[C!Json][s] = (IF s \in C!DeletePaths THEN {} ELSE indexed[C!Json][s])
                                  \cup (IF s \in C!LegacyTasks THEN {1} ELSE {})
  BY ChatNames DEF Published

(* What the intent does not name of a database that is there.              *)
LEMMA ChatUnnamed ==
    ASSUME HomeInv, at \notin {"idle", "commit"}, NEW b \in C!Dbs, NEW s \in Chats,
           b \notin recovered.paths
    PROVE  /\ <<b, s>> \notin recovered.scopes => Holds(indexed[b][s], databases[b], s, chats[b])
           /\ C!ConfirmedAbsent(b) /\ ~databases_now[b].known =>
                  indexed[b][s] = {} /\ Holds(indexed[b][s], databases[b], s, chats[b])
  <1>1. <<b, s>> \notin recovered.scopes => Holds(indexed[b][s], databases[b], s, chats[b])
    BY DEF HomeInv, ChatSession, SettledNow, Settled, Named
  <1>2. ASSUME C!ConfirmedAbsent(b), ~databases_now[b].known
        PROVE  indexed[b][s] = {} /\ Holds(indexed[b][s], databases[b], s, chats[b])
    <2>1. databases[b].owned = {} /\ ~databases[b].known
      BY <1>2, ChatHas
    <2>2. whole /\ b \notin inventory
      BY <1>2, ChatKinds
    <2>3. <<b, s>> \in recovered.scopes => indexed[b][s] = {}
      BY <2>1, <2>2 DEF HomeInv, ChatAbsent
    <2>4. indexed[b][s] = {}
      BY <1>1, <2>1, <2>3 DEF Holds
    <2> QED
      BY <2>1, <2>4 DEF Holds
  <1> QED
    BY <1>1, <1>2

(* A database that was read gets what it owns, as it was planned.          *)
LEMMA ReadyPublished ==
    ASSUME HomeInv, at \notin {"idle", "commit"}, NEW b \in C!Dbs, NEW s \in Chats, outcome[b] = "ready"
    PROVE  Holds(Published[b][s], C!NextDatabases[b], s, chats[b])
  <1> DEFINE deleted == b \in C!DeletePaths \/ <<b, s>> \in C!ScopeTargets
  <1>1. Published[b][s] = (IF deleted THEN {} ELSE indexed[b][s]) \cup C!Spooled(b, s)
    BY PublishedOf
  <1>2. C!Spooled(b, s) = IF C!Owns(b, s) /\ spool[b][s] # 0 THEN {spool[b][s]} ELSE {}
    BY DEF C!Spooled, C!Ready
  <1>3. /\ <<b, s>> \in C!ScopeTargets <=>
               \/ s \in databases_now[b].owned /\ ~C!Owns(b, s)
               \/ s \in C!Dirty(b) /\ C!Owns(b, s)
               \/ <<b, s>> \in recovered.scopes
        /\ b \in C!DeletePaths <=> b \in recovered.paths
    BY ChatDeletes, ChatKinds
  <1>4. IF s \in C!Dirty(b) \/ <<b, s>> \in recovered.scopes
        THEN scan[b][s] # 0 /\ chats[b][s] = scan[b][s] => spool[b][s] = scan[b][s]
        ELSE spool[b][s] = 0
    BY DEF HomeInv, ChatOutcomes
  <1>5. ~deleted => /\ b \notin recovered.paths /\ databases_now[b] = databases[b]
                    /\ Holds(indexed[b][s], databases[b], s, chats[b])
    BY <1>3, ChatUnnamed, ChatHas
  <1>6. C!Spooled(b, s) # {} => deleted
    BY <1>2, <1>3, <1>4
  <1>7. Published[b][s] # {} => C!Owns(b, s)
    BY <1>1, <1>2, <1>3, <1>5 DEF Holds
  <1>8. \A x, y \in Published[b][s] : x = y
    <2>1. CASE deleted
      BY <1>1, <1>2, <2>1
    <2>2. CASE ~deleted
      BY <1>1, <1>5, <1>6, <2>2 DEF Holds
    <2> QED
      BY <2>1, <2>2
  <1>9. ASSUME C!Owns(b, s), scan[b][s] # 0, chats[b][s] = scan[b][s]
        PROVE  Published[b][s] = {scan[b][s]}
    <2>1. CASE s \in C!Dirty(b) \/ <<b, s>> \in recovered.scopes
      BY <1>1, <1>2, <1>3, <1>4, <1>9, <2>1
    <2>2. CASE ~(s \in C!Dirty(b) \/ <<b, s>> \in recovered.scopes)
      <3>1. s \in databases_now[b].owned /\ databases_now[b].planned[s] = scan[b][s]
        BY <1>9, <2>2 DEF C!Dirty, C!InChats
      <3>2. b \notin recovered.paths
        BY <3>1, ChatHas
      <3>3. ~deleted
        BY <1>3, <1>9, <2>2, <3>2
      <3>4. indexed[b][s] = {scan[b][s]}
        BY <1>5, <1>9, <3>1, <3>3 DEF Holds
      <3> QED
        BY <1>1, <1>6, <3>3, <3>4
    <2> QED
      BY <2>1, <2>2
  <1>10. C!NextDatabases[b] = [known |-> TRUE, owned |-> C!Owned(b), planned |-> scan[b]]
    BY NextStates
  <1>11. s \in C!Owned(b) <=> C!Owns(b, s)
    BY DEF C!Owned
  <1> QED
    BY <1>7, <1>8, <1>9, <1>10, <1>11 DEF Holds

(* A refresh that publishes leaves the index as the state it will commit.  *)
LEMMA PublishedHolds ==
    ASSUME HomeInv, at \notin {"idle", "commit"} PROVE ChatPublished(Published)
  <1>1. ASSUME NEW b \in C!Dbs, NEW s \in Chats, C!Failed(b)
        PROVE  /\ \/ Holds(Published[b][s], C!NextDatabases[b], s, chats[b])
                  \/ <<b, s>> \in C!Deferred /\ b \notin recovered.paths
               /\ b \in recovered.paths => Published[b][s] = {}
    <2>1. outcome[b] # "ready" /\ ~C!ConfirmedAbsent(b)
      BY <1>1, ChatKinds
    <2>2. Published[b][s] = IF b \in recovered.paths THEN {} ELSE indexed[b][s]
      <3>1. C!Spooled(b, s) = {}
        BY <2>1, PublishedOf
      <3>2. <<b, s>> \notin C!ScopeTargets
        BY <2>1, ChatDeletes
      <3>3. b \in C!DeletePaths <=> b \in recovered.paths
        BY <2>1, ChatDeletes
      <3>4. Published[b][s] =
                (IF b \in C!DeletePaths \/ <<b, s>> \in C!ScopeTargets THEN {} ELSE indexed[b][s]) \cup {}
        BY <3>1, PublishedOf
      <3> QED
        BY <3>2, <3>3, <3>4
    <2>3. C!NextDatabases[b] = databases_now[b]
      BY <2>1, NextStates
    <2>4. CASE b \in recovered.paths
      BY <2>2, <2>3, <2>4, ChatHas DEF Holds
    <2>5. CASE b \notin recovered.paths
      <3>1. databases_now[b] = databases[b]
        BY <2>5, ChatHas
      <3>2. <<b, s>> \in C!Deferred \/ Holds(indexed[b][s], databases[b], s, chats[b])
        BY <1>1, <2>5, ChatUnnamed, ChatDeletes
      <3> QED
        BY <2>2, <2>3, <2>5, <3>1, <3>2
    <2> QED
      BY <2>4, <2>5
  <1>2. ASSUME NEW b \in C!Dbs, NEW s \in Chats, C!ConfirmedAbsent(b)
        PROVE  /\ Holds(Published[b][s], C!NextDatabases[b], s, chats[b])
               /\ Published[b][s] = {}
    <2>1. outcome[b] # "ready"
      BY <1>2, ChatKinds
    <2>2. Published[b][s] = IF b \in recovered.paths \/ databases_now[b].known
                            THEN {} ELSE indexed[b][s]
      <3>1. C!Spooled(b, s) = {}
        BY <2>1, PublishedOf
      <3>2. <<b, s>> \notin C!ScopeTargets
        BY <2>1, ChatDeletes
      <3>3. b \in C!DeletePaths <=> b \in recovered.paths \/ databases_now[b].known
        BY <1>2, ChatDeletes
      <3>4. Published[b][s] =
                (IF b \in C!DeletePaths \/ <<b, s>> \in C!ScopeTargets THEN {} ELSE indexed[b][s]) \cup {}
        BY <3>1, PublishedOf
      <3> QED
        BY <3>2, <3>3, <3>4
    <2>3. C!NextDatabases[b] = IF databases_now[b].known THEN C!NoDb ELSE databases_now[b]
      BY <1>2, <2>1, NextStates
    <2>4. C!NextDatabases[b].owned = {}
      BY <2>3, ChatHas DEF C!NoDb
    <2>5. Published[b][s] = {}
      BY <1>2, <2>2, ChatUnnamed
    <2> QED
      BY <2>4, <2>5 DEF Holds
  <1>3. ASSUME NEW s \in Chats
        PROVE  Published[C!Json][s] # {} <=>
                   IF whole THEN s \in json /\ ~C!DatabaseOwnsLegacy(s) ELSE s \in rows_now
    <2>1. /\ Published[C!Json][s] = (IF s \in C!DeletePaths THEN {} ELSE indexed[C!Json][s])
                                    \cup (IF s \in C!LegacyTasks THEN {1} ELSE {})
      BY PublishedJson
    <2>2. /\ s \in recovered.paths \/ (indexed[C!Json][s] # {} <=> s \in json_rows)
          /\ rows_now = json_rows \ recovered.paths /\ rows_now \subseteq json
          /\ indexed[C!Json][s] # {} => s \in json
          /\ ~whole => recovered.paths = {}
      BY DEF HomeInv, ChatSession, SettledNow, Settled, JsonOnce, ChatTypes, C!Clean
    <2>3. /\ s \in C!LegacyDeletes <=> /\ s \in json /\ whole /\ C!DatabaseOwnsLegacy(s)
                                       /\ s \in rows_now \/ indexed[C!Json][s] # {}
          /\ s \in C!LegacyTasks <=> s \in json /\ whole /\ ~C!DatabaseOwnsLegacy(s) /\ s \notin rows_now
      BY DEF C!LegacyDeletes, C!LegacyTasks
    <2>4. s \in C!DeletePaths <=> s \in recovered.paths \/ s \in C!LegacyDeletes
      <3>1. s \notin C!LostDatabases
        BY ChatNames DEF C!LostDatabases
      <3> QED
        BY <3>1 DEF C!DeletePaths
    <2> QED
      BY <2>1, <2>2, <2>3, <2>4
  <1> QED
    BY <1>1, <1>2, <1>3, ReadyPublished, ChatKinds DEF ChatPublished

(* The intent of a refresh names all that it is about to replace, and what *)
(* an earlier one left to replace.                                         *)
NextIntent == [paths |-> C!DeletePaths \cup C!LegacyTasks, scopes |-> C!ScopeTargets \cup C!Deferred]

LEMMA IntentSettled ==
    ASSUME HomeInv, at \notin {"idle", "commit"}, NEW index,
           \A b \in C!Dbs, s \in Chats :
               Named(NextIntent, b, s) \/ index[b][s] = indexed[b][s],
           \A s \in Chats : s \in NextIntent.paths \/ index[C!Json][s] = indexed[C!Json][s],
           \A b \in C!Dbs, s \in Chats :
               <<b, s>> \in C!Deferred => index[b][s] \in {{}, indexed[b][s]}
    PROVE  Settled(NextIntent, index, databases, json_rows, chats, gone)
  <1>1. ASSUME NEW b \in C!Dbs, NEW s \in Chats, ~Named(NextIntent, b, s)
        PROVE  Holds(index[b][s], databases[b], s, chats[b])
    <2>1. b \notin C!DeletePaths /\ <<b, s>> \notin C!ScopeTargets /\ <<b, s>> \notin C!Deferred
      BY <1>1 DEF Named, NextIntent
    <2>2. b \notin recovered.paths
      BY <2>1, ChatDeletes
    <2>3. <<b, s>> \notin recovered.scopes \/ (C!ConfirmedAbsent(b) /\ ~databases_now[b].known)
      BY <2>1, ChatDeletes, ChatKinds
    <2> QED
      BY <1>1, <2>2, <2>3, ChatUnnamed
  <1>2. ASSUME NEW s \in Chats, s \notin NextIntent.paths
        PROVE  index[C!Json][s] # {} <=> s \in json_rows
    <2>1. s \notin recovered.paths
      BY <1>2 DEF NextIntent, C!DeletePaths
    <2> QED
      BY <1>2, <2>1 DEF HomeInv, ChatSession, SettledNow, Settled
  <1>3. ASSUME NEW b \in C!Dbs, NEW s \in Chats, <<b, s>> \in NextIntent.scopes
        PROVE  databases[b].known \/ b \notin gone \/ index[b][s] = {}
    <2>1. CASE <<b, s>> \in C!ScopeTargets
      <3>1. outcome[b] = "ready"
        BY <2>1, ChatDeletes
      <3> QED
        BY <3>1 DEF HomeInv, ChatOutcomes
    <2>2. CASE <<b, s>> \in C!Deferred
      <3>1. <<b, s>> \in recovered.scopes
        BY <2>2, ChatDeletes
      <3>2. databases[b].known \/ b \notin gone \/ indexed[b][s] = {}
        BY <3>1 DEF HomeInv, ChatSession, SettledNow, Settled
      <3> QED
        BY <2>2, <3>2
    <2> QED
      BY <1>3, <2>1, <2>2 DEF NextIntent
  <1> QED
    BY <1>1, <1>2, <1>3 DEF Settled

(* The intent is durable before the index changes.                         *)
LEMMA ChatCommitsScopes ==
    ASSUME HomeInv, C!CommitScopes PROVE HomeInv'
  <1> USE DEF C!CommitScopes
  <1>0. UNCHANGED <<C!refresh, C!found, json, indexed>> /\ at = "hydrate" /\ at' = "publish"
    BY DEF C!client, C!Discovered
  <1>1. intent' = NextIntent
    BY DEF NextIntent
  <1>2. ChatTypes'
    <2>1. recovered \in ChatIntents /\ json \subseteq Chats
      BY DEF HomeInv, ChatTypes
    <2>2. C!DeletePaths \cup C!LegacyTasks \subseteq C!Dbs \cup Chats
      BY <2>1 DEF C!DeletePaths, C!LegacyTasks, C!LostDatabases, C!LegacyDeletes, ChatIntents
    <2>3. C!ScopeTargets \cup C!Deferred \subseteq C!Dbs \X Chats
      BY <2>1 DEF C!ScopeTargets, C!Deferred, C!Ready, ChatIntents
    <2>4. intent' \in ChatIntents
      BY <1>1, <2>2, <2>3 DEF NextIntent, ChatIntents
    <2> QED
      BY <2>4 DEF HomeInv, ChatTypes, C!client, C!refresh, C!found
  <1>3. ContentsPassed' /\ OwnersApart' /\ JsonOnce' /\ SettledNow(recovered)'
    BY <1>0 DEF HomeInv, ContentsPassed, OwnersApart, JsonOnce, SettledNow, ChatSession,
                C!client, C!refresh, C!found
  <1>4. SettledNow(intent)'
    <2>1. Settled(NextIntent, indexed, databases, json_rows, chats, gone)
      BY <1>0, IntentSettled
    <2> QED
      BY <1>1, <2>1 DEF SettledNow, C!client
  <1>5. ChatSession'
    <2>1. intent' = [paths |-> C!DeletePaths' \cup C!LegacyTasks',
                     scopes |-> C!ScopeTargets' \cup C!Deferred']
      BY <1>0, ChatTermsStay, LegacyTermsStay
    <2> QED
      BY <1>0, <1>3, <2>1 DEF HomeInv, ChatSession, C!refresh
  <1>6. ChatOutcomes'
    <2>1. \A b \in inventory : outcome[b] \in {"ready", "failed"}
      BY DEF C!Discovered
    <2> QED
      BY <1>0, <2>1, ChatTermsStay DEF HomeInv, ChatOutcomes, C!client, C!refresh, C!found
  <1>7. ChatAbsent' /\ ChatCalm'
    BY <1>0 DEF HomeInv, ChatAbsent, ChatCalm, C!client, C!refresh, C!found
  <1> QED
    BY <1>0, <1>2, <1>3, <1>4, <1>5, <1>6, <1>7 DEF HomeInv

(* There was nothing to publish.                                           *)
LEMMA ChatSkips ==
    ASSUME HomeInv, C!SkipScopes PROVE HomeInv'
  <1> USE DEF C!SkipScopes
  <1>0. UNCHANGED <<C!refresh, C!found, json, indexed>> /\ at = "hydrate" /\ at' = "commit"
    BY DEF C!client, C!stored, C!Discovered
  <1>1. ChatTypes' /\ ContentsPassed' /\ OwnersApart' /\ JsonOnce' /\ SettledNow(intent)'
    BY <1>0 DEF HomeInv, ChatTypes, ContentsPassed, OwnersApart, JsonOnce, SettledNow,
                C!client, C!stored, C!refresh, C!found
  <1>2. ChatSession'
    <2>1. C!Deferred \subseteq recovered.scopes
      BY DEF C!Deferred
    <2> QED
      BY <1>0, <2>1, ChatTermsStay DEF HomeInv, ChatSession, C!stored, C!refresh
  <1>3. ChatOutcomes'
    <2>1. \A b \in inventory : outcome[b] \in {"ready", "failed"}
      BY DEF C!Discovered
    <2> QED
      BY <1>0, <2>1, ChatTermsStay DEF HomeInv, ChatOutcomes, C!client, C!stored, C!refresh, C!found
  <1>4. ChatAbsent' /\ ChatCalm'
    BY <1>0 DEF HomeInv, ChatAbsent, ChatCalm, C!client, C!refresh, C!found
  <1>5. ChatPublished(indexed)
    <2>1. \A b \in C!Dbs, s \in Chats : Published[b][s] = indexed[b][s]
      <3> SUFFICES ASSUME NEW b \in C!Dbs, NEW s \in Chats PROVE Published[b][s] = indexed[b][s]
        OBVIOUS
      <3>1. C!Spooled(b, s) = {}
        BY DEF C!Spooled, C!Nothing
      <3>2. Published[b][s] = indexed[b][s] \cup {}
        BY <3>1, PublishedOf
      <3> QED
        BY <3>2
    <2>2. \A s \in Chats : Published[C!Json][s] = indexed[C!Json][s]
      <3> SUFFICES ASSUME NEW s \in Chats PROVE Published[C!Json][s] = indexed[C!Json][s]
        OBVIOUS
      <3>1. Published[C!Json][s] = indexed[C!Json][s] \cup {}
        BY PublishedJson
      <3> QED
        BY <3>1
    <2> QED
      BY <1>0, <2>1, <2>2, PublishedHolds DEF ChatPublished
  <1>6. ChatPublished(indexed)'
    BY <1>0, <1>5, ChatTermsStay DEF ChatPublished, C!client, C!refresh
  <1> QED
    BY <1>0, <1>1, <1>2, <1>3, <1>4, <1>6 DEF HomeInv

(* The owners' records replace the others' in one generation.              *)
LEMMA ChatPublishes ==
    ASSUME HomeInv, C!PublishScopes PROVE HomeInv'
  <1> USE DEF C!PublishScopes
  <1>0. UNCHANGED <<C!refresh, C!found, json>> /\ at = "publish" /\ at' = "commit"
    BY DEF C!client
  <1>1. indexed' = Published /\ intent = NextIntent
    BY <1>0 DEF Published, NextIntent, HomeInv, ChatSession
  <1>2. ChatTypes'
    <2>1. \A h \in C!Homes, s \in Chats : Published[h][s] \in SUBSET Nat
      <3>1. \A b \in C!Dbs, s \in Chats : C!Spooled(b, s) \in SUBSET Nat
        BY DEF HomeInv, ChatTypes, C!Spooled
      <3>2. \A h \in C!Homes, s \in Chats : indexed[h][s] \in SUBSET Nat
        BY DEF HomeInv, ChatTypes
      <3>3. ASSUME NEW b \in C!Dbs, NEW s \in Chats PROVE Published[b][s] \in SUBSET Nat
        <4>1. indexed[b][s] \in SUBSET Nat /\ C!Spooled(b, s) \in SUBSET Nat
          BY <3>1, <3>2, ChatNames
        <4> QED
          BY <4>1, PublishedOf
      <3>4. ASSUME NEW s \in Chats PROVE Published[C!Json][s] \in SUBSET Nat
        BY <3>2, PublishedJson, ChatNames
      <3> QED
        BY <3>3, <3>4, ChatNames
    <2>2. Published \in [C!Homes -> [Chats -> SUBSET Nat]]
      BY <2>1 DEF Published
    <2> QED
      BY <1>1, <2>2 DEF HomeInv, ChatTypes, C!client, C!refresh, C!found
  <1>3. ContentsPassed' /\ OwnersApart'
    BY <1>0 DEF HomeInv, ContentsPassed, OwnersApart, C!client, C!refresh, C!found
  <1>4. JsonOnce'
    <2> SUFFICES ASSUME NEW s \in Chats
                 PROVE  Published[C!Json][s] = {} \/ (s \in json /\ Published[C!Json][s] = {1})
      BY <1>0, <1>1 DEF JsonOnce
    <2>1. indexed[C!Json][s] = {} \/ (s \in json /\ indexed[C!Json][s] = {1})
      BY DEF HomeInv, JsonOnce
    <2>2. s \in C!LegacyTasks => s \in json
      BY DEF C!LegacyTasks
    <2> QED
      BY <2>1, <2>2, PublishedJson
  <1>5. SettledNow(intent)'
    <2>1. ASSUME NEW b \in C!Dbs, NEW s \in Chats, ~Named(NextIntent, b, s)
          PROVE  Published[b][s] = indexed[b][s]
      <3>1. b \notin C!DeletePaths /\ <<b, s>> \notin C!ScopeTargets
        BY <2>1 DEF Named, NextIntent
      <3>2. C!Spooled(b, s) = {}
        <4>1. CASE outcome[b] = "ready"
          <5>1. C!Owns(b, s) => s \notin C!Dirty(b) /\ <<b, s>> \notin recovered.scopes
            BY <3>1, <4>1, ChatDeletes
          <5>2. C!Owns(b, s) => spool[b][s] = 0
            BY <1>0, <4>1, <5>1 DEF HomeInv, ChatOutcomes
          <5> QED
            BY <5>2 DEF C!Spooled
        <4>2. CASE outcome[b] # "ready"
          BY <4>2, PublishedOf
        <4> QED
          BY <4>1, <4>2
      <3>3. Published[b][s] = indexed[b][s] \cup {}
        BY <3>1, <3>2, PublishedOf
      <3> QED
        BY <3>3
    <2>2. ASSUME NEW s \in Chats, s \notin NextIntent.paths
          PROVE  Published[C!Json][s] = indexed[C!Json][s]
      <3>1. Published[C!Json][s] = indexed[C!Json][s] \cup {}
        BY <2>2, PublishedJson DEF NextIntent
      <3> QED
        BY <3>1
    <2>3. ASSUME NEW b \in C!Dbs, NEW s \in Chats, <<b, s>> \in C!Deferred
          PROVE  Published[b][s] \in {{}, indexed[b][s]}
      <3>1. C!Failed(b)
        BY <1>0, <2>3, ChatDeletes
      <3>2. C!Spooled(b, s) = {}
        BY <3>1, ChatKinds, PublishedOf
      <3>3. Published[b][s] =
                (IF b \in C!DeletePaths \/ <<b, s>> \in C!ScopeTargets THEN {} ELSE indexed[b][s]) \cup {}
        BY <3>2, PublishedOf
      <3> QED
        BY <3>3
    <2>4. Settled(NextIntent, Published, databases, json_rows, chats, gone)
      BY <1>0, <2>1, <2>2, <2>3, IntentSettled
    <2> QED
      BY <1>1, <2>4 DEF SettledNow, C!client
  <1>6. ChatSession'
    BY <1>0, ChatTermsStay DEF HomeInv, ChatSession, C!refresh
  <1>7. ChatOutcomes'
    BY <1>0, ChatTermsStay DEF HomeInv, ChatOutcomes, C!client, C!refresh, C!found
  <1>8. ChatAbsent' /\ ChatCalm'
    BY <1>0 DEF HomeInv, ChatAbsent, ChatCalm, C!client, C!refresh, C!found
  <1>9. ChatPublished(indexed)'
    <2>1. ChatPublished(Published)
      BY <1>0, PublishedHolds
    <2>2. /\ C!NextDatabases' = C!NextDatabases /\ C!Deferred' = C!Deferred
          /\ \A b \in C!Dbs : /\ C!Failed(b)' <=> C!Failed(b)
                              /\ C!ConfirmedAbsent(b)' <=> C!ConfirmedAbsent(b)
          /\ \A s : C!DatabaseOwnsLegacy(s)' <=> C!DatabaseOwnsLegacy(s)
      BY <1>0, ChatTermsStay
    <2>3. UNCHANGED <<chats, json, whole, rows_now, recovered>>
      BY <1>0 DEF C!client, C!refresh
    <2>4. ChatPublished(indexed')
      BY <1>1, <2>1
    <2> QED
      BY <2>2, <2>3, <2>4 DEF ChatPublished
  <1> QED
    BY <1>0, <1>2, <1>3, <1>4, <1>5, <1>6, <1>7, <1>8, <1>9 DEF HomeInv

(* Which JSON sessions have a row once a refresh is committed.             *)
NextRows == (rows_now \ C!LegacyDeletes) \cup C!LegacyTasks

LEMMA NextLegacy ==
    ASSUME HomeInv, at # "idle", NEW s \in Chats
    PROVE  s \in NextRows <=> IF whole THEN s \in json /\ ~C!DatabaseOwnsLegacy(s) ELSE s \in rows_now
  <1>1. rows_now \subseteq json
    BY DEF HomeInv, ChatSession, ChatTypes
  <1>2. /\ s \in C!LegacyDeletes <=> /\ s \in json /\ whole /\ C!DatabaseOwnsLegacy(s)
                                     /\ s \in rows_now \/ indexed[C!Json][s] # {}
        /\ s \in C!LegacyTasks <=> s \in json /\ whole /\ ~C!DatabaseOwnsLegacy(s) /\ s \notin rows_now
    BY DEF C!LegacyDeletes, C!LegacyTasks
  <1> QED
    BY <1>1, <1>2 DEF NextRows

(* One source a session, in what is committed.                             *)
LEMMA NextApart ==
    ASSUME HomeInv, at # "idle"
    PROVE  /\ \A b \in C!Dbs : ~C!NextDatabases[b].known => C!NextDatabases[b].owned = {}
           /\ \A a, b \in C!Dbs :
                  \A s \in C!NextDatabases[a].owned : s \in C!NextDatabases[b].owned => a = b
           /\ \A s \in NextRows, b \in C!Dbs : s \notin C!NextDatabases[b].owned
  <1>1. ASSUME NEW b \in C!Dbs, ~C!NextDatabases[b].known PROVE C!NextDatabases[b].owned = {}
    <2>0. outcome[b] # "ready"
      <3>1. outcome[b] = "ready" =>
                C!NextDatabases[b] = [known |-> TRUE, owned |-> C!Owned(b), planned |-> scan[b]]
        BY NextStates
      <3> QED
        BY <1>1, <3>1
    <2>1. C!NextDatabases[b] = C!NoDb \/ C!NextDatabases[b] = databases_now[b]
      BY <2>0, NextStates
    <2>2. ~databases_now[b].known => databases_now[b].owned = {}
      BY ChatHas
    <2> QED
      BY <1>1, <2>1, <2>2 DEF C!NoDb
  <1>2. \A a, b \in C!Dbs :
            \A s \in C!NextDatabases[a].owned : s \in C!NextDatabases[b].owned => a = b
    BY NextOwned, OneOwner
  <1>3. ASSUME NEW s \in NextRows, NEW b \in C!Dbs, s \in C!NextDatabases[b].owned PROVE FALSE
    <2>1. s \in Chats /\ C!Owns(b, s)
      BY <1>3, NextOwned
    <2>2. C!Claims(b, s) /\ C!DatabaseOwnsLegacy(s)
      BY <2>1, OwnerClaims DEF C!DatabaseOwnsLegacy
    <2>3. ~whole /\ s \in rows_now
      BY <1>3, <2>1, <2>2, NextLegacy
    <2>4. s \in databases_now[b].owned
      <3>1. CASE C!Failed(b)
        BY <2>2, <3>1 DEF C!Claims
      <3>2. CASE ~C!Failed(b)
        BY <2>2, <2>3, <3>2 DEF C!Claims, C!Ready, HomeInv, ChatOutcomes
      <3> QED
        BY <3>1, <3>2
    <2> QED
      BY <2>3, <2>4, ChatHas DEF HomeInv, OwnersApart
  <1> QED
    BY <1>1, <1>2, <1>3

(* What is committed is settled, but for what failed databases put off.    *)
LEMMA NextSettled ==
    ASSUME HomeInv, at = "commit"
    PROVE  Settled([paths |-> {}, scopes |-> C!Deferred], indexed, C!NextDatabases, NextRows, chats, gone)
  <1>0. ChatPublished(indexed)
    BY DEF HomeInv
  <1>1. ASSUME NEW b \in C!Dbs, NEW s \in Chats
        PROVE  <<b, s>> \in C!Deferred \/ Holds(indexed[b][s], C!NextDatabases[b], s, chats[b])
    BY <1>0 DEF ChatPublished
  <1>2. ASSUME NEW s \in Chats PROVE indexed[C!Json][s] # {} <=> s \in NextRows
    BY <1>0, NextLegacy DEF ChatPublished
  <1>3. ASSUME NEW b \in C!Dbs, NEW s \in Chats, <<b, s>> \in C!Deferred
        PROVE  C!NextDatabases[b].known \/ b \notin gone \/ indexed[b][s] = {}
    <2>1. C!Failed(b)
      BY <1>3, ChatDeletes
    <2>2. C!NextDatabases[b] = databases_now[b]
      BY <2>1, ChatKinds, NextStates
    <2>3. CASE b \in recovered.paths
      BY <1>0, <2>1, <2>3 DEF ChatPublished
    <2>4. CASE b \notin recovered.paths
      <3>1. databases_now[b] = databases[b]
        BY <2>4, ChatHas
      <3>2. <<b, s>> \in intent.scopes
        BY <1>3 DEF HomeInv, ChatSession
      <3> QED
        BY <2>2, <3>1, <3>2 DEF HomeInv, SettledNow, Settled
    <2> QED
      BY <2>3, <2>4
  <1> QED
    BY <1>1, <1>2, <1>3 DEF Settled, Named

(* An undisturbed full refresh has read every database there is, and the   *)
(* first that has a session owns it.                                       *)
LEMMA CalmOwns ==
    ASSUME HomeInv, at = "commit", calm
    PROVE  /\ whole
           /\ \A b \in C!Dbs : IF b \in gone THEN C!ConfirmedAbsent(b)
                               ELSE outcome[b] = "ready" /\ scan[b] = chats[b]
           /\ \A b \in C!Dbs : ~C!Failed(b)
           /\ \A s \in Chats : C!Claimants(s) = {b \in C!Dbs \ gone : chats[b][s] # 0}
  <1>1. whole /\ inventory = C!Dbs \ gone
        /\ \A b \in C!Dbs : outcome[b] # "none" => outcome[b] # "failed" /\ scan[b] = chats[b]
    BY DEF HomeInv, ChatCalm
  <1>2. \A b \in C!Dbs : outcome[b] # "none" => b \in inventory
    BY DEF HomeInv, ChatOutcomes
  <1>3. \A b \in inventory : outcome[b] \in {"ready", "failed"}
    BY DEF HomeInv, ChatOutcomes
  <1>4. ASSUME NEW b \in C!Dbs
        PROVE  IF b \in gone THEN C!ConfirmedAbsent(b)
               ELSE outcome[b] = "ready" /\ scan[b] = chats[b]
    BY <1>1, <1>2, <1>3 DEF C!ConfirmedAbsent
  <1>5. \A b \in C!Dbs : ~C!Failed(b)
    BY <1>4, ChatKinds
  <1>6. ASSUME NEW s \in Chats, NEW b \in C!Dbs
        PROVE  C!Claims(b, s) <=> b \notin gone /\ chats[b][s] # 0
    <2>1. ~C!Failed(b) /\ (b \in C!Ready <=> b \notin gone)
      BY <1>4, <1>5, ChatKinds
    <2>2. b \notin gone => (s \in C!InChats(b) <=> chats[b][s] # 0)
      BY <1>4 DEF C!InChats
    <2> QED
      BY <2>1, <2>2 DEF C!Claims
  <1>7. ASSUME NEW s \in Chats PROVE C!Claimants(s) = {b \in C!Dbs \ gone : chats[b][s] # 0}
    <2>1. {b \in C!Dbs : C!Failed(b) /\ C!Claims(b, s)} = {}
      BY <1>5
    <2>2. C!Claimants(s) = {b \in C!Dbs : C!Claims(b, s)}
      BY <2>1 DEF C!Claimants
    <2> QED
      BY <1>6, <2>2
  <1> QED
    BY <1>1, <1>4, <1>5, <1>7

(* So each session is indexed as it is, from its owner alone.              *)
LEMMA CalmExpected ==
    ASSUME HomeInv, at = "commit", calm, NEW h \in C!Homes, NEW s \in Chats
    PROVE  indexed[h][s] = C!Expected(h, s)
  <1> DEFINE there == {b \in C!Dbs \ gone : chats[b][s] # 0}
  <1>0. ChatPublished(indexed)
    BY DEF HomeInv
  <1>1. C!Claimants(s) = there /\ whole
    BY CalmOwns
  <1>2. CASE h \in C!Dbs
    <2>1. C!Expected(h, s) = IF C!Owns(h, s) THEN {chats[h][s]} ELSE {}
      BY <1>1, <1>2, ChatNames DEF C!Expected, C!Owns
    <2>2. CASE h \in gone
      <3>1. indexed[h][s] = {}
        BY <1>0, <1>2, <2>2, CalmOwns DEF ChatPublished
      <3>2. ~C!Owns(h, s)
        BY <1>1, <2>2 DEF C!Owns
      <3> QED
        BY <2>1, <3>1, <3>2
    <2>3. CASE h \notin gone
      <3>1. outcome[h] = "ready" /\ scan[h] = chats[h] /\ ~C!Failed(h)
        BY <1>2, <2>3, CalmOwns
      <3>2. C!NextDatabases[h] = [known |-> TRUE, owned |-> C!Owned(h), planned |-> chats[h]]
        BY <1>2, <3>1, NextStates
      <3>3. <<h, s>> \notin C!Deferred
        BY <1>2, <3>1, ChatDeletes
      <3>4. Holds(indexed[h][s], C!NextDatabases[h], s, chats[h])
        BY <1>0, <1>2, <3>3 DEF ChatPublished
      <3>5. s \in C!Owned(h) <=> C!Owns(h, s)
        BY DEF C!Owned
      <3>6. C!Owns(h, s) => chats[h][s] # 0
        BY <1>1 DEF C!Owns
      <3>7. /\ indexed[h][s] # {} => C!Owns(h, s)
            /\ C!Owns(h, s) => indexed[h][s] = {chats[h][s]}
        BY <3>2, <3>4, <3>5, <3>6 DEF Holds
      <3> QED
        BY <2>1, <3>7
    <2> QED
      BY <2>2, <2>3
  <1>3. CASE h = C!Json
    <2>1. C!Ready = C!Dbs \ gone
      BY CalmOwns, ChatKinds DEF C!Ready
    <2>2. C!DatabaseOwnsLegacy(s) <=> ~(V2 \subseteq gone) \/ there # {}
      BY <1>1, <2>1, DatabasesAreNumbers DEF C!DatabaseOwnsLegacy
    <2>3. indexed[C!Json][s] # {} <=> s \in json /\ ~C!DatabaseOwnsLegacy(s)
      BY <1>0, <1>1 DEF ChatPublished
    <2>4. indexed[C!Json][s] = {} \/ indexed[C!Json][s] = {1}
      BY DEF HomeInv, JsonOnce
    <2>5. C!Expected(C!Json, s) = IF s \in json /\ there = {} /\ V2 \subseteq gone THEN {1} ELSE {}
      BY DEF C!Expected
    <2> QED
      BY <1>3, <2>2, <2>3, <2>4, <2>5
  <1> QED
    BY <1>2, <1>3, ChatNames

(* The owners are committed.                                               *)
LEMMA ChatCommits ==
    ASSUME HomeInv, C!CommitOwners PROVE HomeInv'
  <1> USE DEF C!CommitOwners, C!Rest, C!client
  <1>0. /\ at = "commit" /\ databases' = C!NextDatabases /\ json_rows' = NextRows
        /\ intent' = [paths |-> {}, scopes |-> C!Deferred]
    BY DEF NextRows
  <1>1. ChatTypes'
    <2>1. C!NoDb \in ChatStates /\ C!NoScan \in [C!Dbs -> [Chats -> Nat]] /\ C!Clean \in ChatIntents
      BY DEF C!NoDb, C!NoScan, C!Nothing, C!Clean, ChatStates, ChatIntents
    <2>2. databases_now' \in [C!Dbs -> ChatStates]
      BY <2>1 DEF C!NoDbs
    <2>3. outcome' \in [C!Dbs -> {"none", "planned", "ready", "failed"}]
      BY DEF C!NoOutcome
    <2>4. databases' \in [C!Dbs -> ChatStates]
      <3>1. \A b \in C!Dbs : C!NextDatabases[b] \in ChatStates
        <4> SUFFICES ASSUME NEW b \in C!Dbs PROVE C!NextDatabases[b] \in ChatStates
          OBVIOUS
        <4>1. scan[b] \in [Chats -> Nat] /\ databases_now[b] \in ChatStates
          BY DEF HomeInv, ChatTypes
        <4>2. [known |-> TRUE, owned |-> C!Owned(b), planned |-> scan[b]] \in ChatStates
          BY <4>1 DEF ChatStates, C!Owned
        <4> QED
          BY <2>1, <4>1, <4>2, NextStates
      <3>2. C!NextDatabases = [b \in C!Dbs |-> C!NextDatabases[b]]
        BY DEF C!NextDatabases
      <3> QED
        BY <1>0, <3>1, <3>2
    <2>5. intent' \in ChatIntents
      BY <1>0 DEF HomeInv, ChatTypes, ChatIntents, C!Deferred
    <2>6. json_rows' \in SUBSET json'
      BY <1>0 DEF HomeInv, ChatTypes, NextRows, C!LegacyTasks
    <2> QED
      BY <2>1, <2>2, <2>3, <2>4, <2>5, <2>6 DEF HomeInv, ChatTypes
  <1>2. ContentsPassed'
    <2> SUFFICES ASSUME NEW b \in C!Dbs, NEW s \in Chats
                 PROVE  /\ chats[b][s] <= moves /\ scan'[b][s] <= moves
                        /\ C!NextDatabases[b].planned[s] <= moves /\ databases_now'[b].planned[s] <= moves
      BY <1>0 DEF ContentsPassed
    <2>1. moves \in Nat /\ scan'[b][s] = 0 /\ databases_now'[b].planned[s] = 0
      BY DEF HomeInv, ChatTypes, C!NoScan, C!NoDbs, C!NoDb, C!Nothing
    <2> QED
      BY <2>1, NextPassed DEF HomeInv, ContentsPassed
  <1>3. OwnersApart'
    BY <1>0, NextApart DEF OwnersApart
  <1>4. SettledNow(intent)'
    BY <1>0, NextSettled DEF SettledNow
  <1>5. JsonOnce'
    BY DEF HomeInv, JsonOnce
  <1>6. ASSUME calm', NEW h \in C!Homes, NEW s \in Chats PROVE indexed'[h][s] = C!Expected(h, s)'
    <2>1. indexed[h][s] = C!Expected(h, s)
      BY <1>0, <1>6, CalmExpected
    <2>2. C!Expected(h, s)' = C!Expected(h, s)
      BY DEF C!Expected
    <2> QED
      BY <2>1, <2>2
  <1> QED
    BY <1>1, <1>2, <1>3, <1>4, <1>5, <1>6 DEF HomeInv, ChatSession, ChatOutcomes, ChatAbsent, ChatCalm

(* Nothing of OpenCode moves.                                              *)
LEMMA ChatRests ==
    ASSUME HomeInv, UNCHANGED C!opencode_vars PROVE HomeInv'
  <1> USE DEF C!opencode_vars, C!client, C!stored
  <1>0. UNCHANGED <<C!refresh, C!found, json, indexed>>
    OBVIOUS
  <1>1. ChatTypes' /\ ContentsPassed' /\ OwnersApart' /\ JsonOnce' /\ SettledNow(intent)'
    BY DEF HomeInv, ChatTypes, ContentsPassed, OwnersApart, JsonOnce, SettledNow, C!refresh, C!found
  <1>2. ChatSession'
    BY <1>0, ChatTermsStay, LegacyTermsStay DEF HomeInv, ChatSession, SettledNow, C!refresh
  <1>3. ChatOutcomes'
    BY <1>0, ChatTermsStay DEF HomeInv, ChatOutcomes, C!refresh, C!found
  <1>4. ChatAbsent' /\ ChatCalm'
    BY DEF HomeInv, ChatAbsent, ChatCalm, C!refresh, C!found
  <1>5. at = "commit" => ChatPublished(indexed)'
    BY <1>0, ChatTermsStay DEF HomeInv, ChatPublished, C!refresh
  <1>6. \A h \in C!Homes, s \in Chats : C!Expected(h, s)' = C!Expected(h, s)
    BY DEF C!Expected
  <1> QED
    BY <1>1, <1>2, <1>3, <1>4, <1>5, <1>6 DEF HomeInv

(* Every step of OpenCode preserves the invariant.                         *)
LEMMA HomeStep ==
    ASSUME HomeInv, ~EarlyLoss, C!Next PROVE HomeInv'
  <1>1. ASSUME NEW b \in C!Dbs, NEW s \in Chats, C!WriteChat(b, s) \/ C!DeleteChat(b, s)
        PROVE  HomeInv'
    BY <1>1, ChatsMove, ChatsMovedStep
  <1>2. ASSUME NEW b \in C!Dbs, C!ShutDatabase(b) \/ C!MoveDatabase(b) PROVE HomeInv'
    BY <1>2, ChatsMove, ChatsMovedStep
  <1>3. CASE C!RefreshAll \/ \E chosen \in SUBSET C!Dbs : C!RefreshSome(chosen)
    BY <1>3, ChatStarts
  <1>4. CASE C!Planned \/ \E b \in C!Dbs : C!Plan(b) \/ C!Hydrate(b)
    BY <1>4, ChatDiscovers
  <1>5. CASE C!CommitScopes \/ C!SkipScopes \/ C!PublishScopes \/ C!CommitOwners
    BY <1>5, ChatCommitsScopes, ChatSkips, ChatPublishes, ChatCommits
  <1>6. CASE C!KillRefresh
    BY <1>6, ChatEnds DEF C!KillRefresh
  <1> QED
    BY <1>1, <1>2, <1>3, <1>4, <1>5, <1>6 DEF C!Next

(* If a database stays until the first refresh that saw it has ended, the  *)
(* invariant of the ownership of sessions holds throughout.                *)
THEOREM HomeInvariant == ~EarlyLoss /\ DiscoverySpec => []HomeInv
  <1> SUFFICES ASSUME ~EarlyLoss PROVE DiscoverySpec => []HomeInv
    OBVIOUS
  <1>1. DiscoveryInit => HomeInv
    BY ChatInit
  <1>2. HomeInv /\ [DiscoveryNext]_<<which, vars, opencode, bob>> => HomeInv'
    BY ChatMoves, HomeStep, ChatRests
  <1> QED
    BY <1>1, <1>2, PTL DEF DiscoverySpec

(* So no session of OpenCode is indexed from two sources or twice once a   *)
(* refresh has ended with nothing pending, and an undisturbed full refresh *)
(* leaves each one as it is, from its owner alone (discover_opencode,      *)
(* writer_loop and the commit of opencode_databases), however databases    *)
(* are locked, lost and found and refreshes killed before it.              *)
THEOREM OneHomeHolds == ~EarlyLoss /\ DiscoverySpec => []OneHome
  <1>1. HomeInv => OneHome
    <2> SUFFICES ASSUME HomeInv, at = "idle" PROVE C!OneHome
      BY DEF OneHome, C!OneHome
    <2>1. ASSUME intent = C!Clean, NEW s \in Chats, NEW g \in C!Homes, NEW h \in C!Homes,
                 NEW x \in indexed[g][s], NEW y \in indexed[h][s]
          PROVE  g = h /\ x = y
      <3>1. \A b \in C!Dbs : Holds(indexed[b][s], databases[b], s, chats[b])
        BY <2>1 DEF HomeInv, SettledNow, Settled, Named, C!Clean
      <3>2. indexed[C!Json][s] # {} => s \in json_rows
        BY <2>1 DEF HomeInv, SettledNow, Settled, C!Clean
      <3>3. \A p, q \in indexed[C!Json][s] : p = q
        BY DEF HomeInv, JsonOnce
      <3>4. \A b \in C!Dbs : indexed[b][s] # {} => s \in databases[b].owned
        BY <3>1 DEF Holds
      <3>5. g = h
        BY <2>1, <3>2, <3>4, ChatNames DEF HomeInv, OwnersApart
      <3> QED
        BY <2>1, <3>1, <3>3, <3>5, ChatNames DEF Holds
    <2> QED
      BY <2>1 DEF HomeInv, C!OneHome
  <1> QED
    BY <1>1, HomeInvariant, PTL

==============================================================================
