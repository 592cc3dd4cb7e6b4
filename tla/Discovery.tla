------------------------------ MODULE Discovery ------------------------------
(***************************************************************************)
(* What a refresh looks at: ingest/directories.rs, ingest/journal.rs and   *)
(* prepare_refresh of ingest/discovery.rs.  A full refresh walks the       *)
(* source tree, but reads no directory whose stamp (inode, mtime, ctime)   *)
(* is the one committed by an earlier refresh; it then takes the entries   *)
(* from the rows and the stamps of that refresh.  A refresh that has       *)
(* replayed the event journal of the volume from the committed cursor      *)
(* looks only at the paths the events name.  Rows, stamps and cursor are   *)
(* committed together; the tree changes all the while, and several         *)
(* processes take turns under the ingest lease.                            *)
(*                                                                         *)
(* A row is the version of the file it describes (module Ingest says how   *)
(* it gets there), 0 when there is none; so are stamps and cursors.        *)
(***************************************************************************)
EXTENDS Integers, Sequences

CONSTANTS
    Files, Dirs,
    Root,          \* a source root, which is always there
    Home,          \* the directory of a file
    Parent,        \* the directory of a directory other than Root
    Movable,       \* the directories that may be moved away and back
    Procs,         \* processes that refresh: TUI, RPC, daemon, command line
    NoProc,
    LateRenames,   \* may directories be moved once the files below are found?
    IndexLoss,     \* may the index be found empty although there are rows?
    MaxChanges,    \* bound on changes to the tree
    MaxFaults      \* bound on failures

ASSUME DiscoveryConstants ==
    /\ Root \in Dirs /\ Files \cap Dirs = {} /\ NoProc \notin Procs
    /\ Home \in [Files -> Dirs] /\ Parent \in [Dirs \ {Root} -> Dirs]
    /\ Movable \subseteq Dirs \ {Root}
    /\ LateRenames \in BOOLEAN /\ IndexLoss \in BOOLEAN
    /\ MaxChanges \in Nat /\ MaxFaults \in Nat

(* Every directory is below Root: what holds of Root, and of a directory   *)
(* if it holds of its parent, holds of all.                                *)
ASSUME DirectoriesFormTree ==
    \A S \in SUBSET Dirs :
        Root \in S /\ (\A c \in Dirs \ {Root} : Parent[c] \in S => c \in S) => S = Dirs

VARIABLES
    version,       \* the contents of each file, 0 when it is not there
    away,          \* the directories that are moved away
    stamp,         \* DirectoryStamp of each directory as it is
    log,           \* the journal: the path of each change
    rows, stamps, cursor,   \* the committed checkpoint
    journal,       \* the replay a process has started: its cursor and hints
    lease,         \* the process that refreshes
    pc,
    full,          \* full_scan
    clears,        \* empty_index_rebuild: the rows are to be replaced
    pending,       \* directories to visit
    captured,      \* the directory being read and the stamp taken before
    next_stamps,   \* StampedWalk::next
    found,         \* files to stat
    tasks,         \* the version seen of each file to parse
    sweep,         \* rows to check
    doubted,       \* the row whose file was not found, before its directory is checked
    dropped,       \* rows whose file is gone
    next_cursor,
    quiet,         \* history: a full refresh that no change or failure has disturbed
    changes, faults

tree == <<version, away, stamp, log>>
checkpoint == <<rows, stamps, cursor>>
walk == <<pending, captured, next_stamps>>
work == <<lease, full, clears, tasks, sweep, doubted, dropped, next_cursor>>

vars == <<tree, checkpoint, journal, pc, walk, found, work, quiet, changes, faults>>

None == [dir |-> Root, stamp |-> 0]
NoReplay == [next |-> 0, usable |-> FALSE, hints |-> {}]
NoRows == [f \in Files |-> 0]
NoStamps == [d \in Dirs |-> 0]

(* A directory and those above it. *)
Above[d \in Dirs] == IF d = Root THEN {d} ELSE {d} \cup Above[Parent[d]]

Reachable(d) == Above[d] \cap away = {}

Visible(f) == version[f] # 0 /\ Reachable(Home[f])

Init ==
    /\ version = NoRows /\ away = {} /\ stamp = [d \in Dirs |-> 1] /\ log = <<>>
    /\ rows = NoRows /\ stamps = NoStamps /\ cursor = 0
    /\ journal = [p \in Procs |-> NoReplay]
    /\ lease = NoProc /\ pc = "idle" /\ full = FALSE /\ clears = FALSE
    /\ pending = {} /\ captured = None /\ next_stamps = NoStamps
    /\ found = {} /\ tasks = NoRows /\ sweep = {} /\ doubted = {} /\ dropped = {}
    /\ next_cursor = 0 /\ quiet = FALSE
    /\ changes = 0 /\ faults = 0

-----------------------------------------------------------------------------
(* The tree.  A directory's stamp moves when an entry of it comes or goes, *)
(* not when a file in it is written.                                       *)

Changes(x) ==
    /\ changes < MaxChanges /\ changes' = changes + 1
    /\ log' = Append(log, x) /\ quiet' = FALSE
    /\ UNCHANGED <<checkpoint, journal, pc, walk, found, work, faults>>

Write(f) ==
    /\ Visible(f) /\ Changes(f)
    /\ version' = [version EXCEPT ![f] = changes']
    /\ UNCHANGED <<away, stamp>>

Create(f) ==
    /\ version[f] = 0 /\ Reachable(Home[f]) /\ Changes(f)
    /\ version' = [version EXCEPT ![f] = changes']
    /\ stamp' = [stamp EXCEPT ![Home[f]] = @ + 1]
    /\ UNCHANGED away

Remove(f) ==
    /\ Visible(f) /\ Changes(f)
    /\ version' = [version EXCEPT ![f] = 0]
    /\ stamp' = [stamp EXCEPT ![Home[f]] = @ + 1]
    /\ UNCHANGED away

(* A directory is moved away, or back, with everything in it.  What is     *)
(* below it keeps its stamps, so a directory moved while a refresh is      *)
(* between finding a file below it and committing may come back with a     *)
(* stamp the refresh commits and a file it did not see (LateRenames).  One *)
(* the walk has no stamp of, nor of what is below it, may also be moved    *)
(* while the rows are checked against the disk.                            *)
Rename(d) ==
    /\ Reachable(Parent[d])
    /\ \/ LateRenames \/ pc = "idle"
       \/ pc = "walk" /\ \A f \in found : d \notin Above[Home[f]]
       \/ pc = "sweep" /\ \A a \in Dirs : d \in Above[a] => next_stamps[a] = 0
    /\ Changes(d)
    /\ away' = IF d \in away THEN away \ {d} ELSE away \cup {d}
    /\ stamp' = [stamp EXCEPT ![Parent[d]] = @ + 1]
    /\ UNCHANGED version

-----------------------------------------------------------------------------
(* The journal.                                                            *)

ReplayHints == {log[i] : i \in cursor..Len(log)}

(* start_journal_replay, before the lease is taken: the cursor stored so   *)
(* far, the id of the latest event, and the paths named in between.        *)
StartReplay(p) ==
    /\ lease # p /\ journal[p] = NoReplay
    /\ journal' = [journal EXCEPT ![p] =
           [next |-> Len(log) + 1, usable |-> cursor # 0,
            hints |-> IF cursor # 0 THEN ReplayHints ELSE {}]]
    /\ UNCHANGED <<tree, checkpoint, pc, walk, found, work, quiet, changes, faults>>

(* resolve: what a set of hints cannot be narrowed to.  A file that is not *)
(* there, a directory that is, or one that is not and has rows below it.   *)
Resync(H) ==
    \/ \E f \in H \cap Files : ~Visible(f)
    \/ \E d \in H \cap Dirs :
           Reachable(d) \/ \E f \in Files : d \in Above[Home[f]] /\ rows[f] # 0

(* A mutant of CursorOf: the cursor is the latest event at the refresh.    *)
CursorOfNow(p) == IF journal[p] = NoReplay THEN 0 ELSE Len(log) + 1

(* The cursor that is committed with the refresh: the one captured before  *)
(* any event was read.                                                     *)
CursorOf(p) == journal[p].next

(* What of the hints the refresh gets: journal_hints waits for a budget,   *)
(* after which there are none, and adds rows of files recently active.     *)
Narrowed(p, H) ==
    /\ journal[p].usable
    /\ \E S \in SUBSET {f \in Files : rows[f] # 0} : H = journal[p].hints \cup S
    /\ ~Resync(H)

Clear ==
    /\ lease' = NoProc /\ pc' = "idle" /\ full' = FALSE /\ clears' = FALSE
    /\ pending' = {} /\ captured' = None /\ next_stamps' = NoStamps
    /\ found' = {} /\ tasks' = NoRows /\ sweep' = {} /\ doubted' = {} /\ dropped' = {}
    /\ next_cursor' = 0 /\ quiet' = FALSE

(* The lease is taken and prepare_refresh starts, narrowed to the hints or *)
(* not at all.  The cursor may not have arrived within the budget either.  *)
(* An empty index beside rows replaces them all.                           *)
Refresh(p) ==
    /\ lease = NoProc /\ lease' = p
    /\ journal' = [journal EXCEPT ![p] = NoReplay]
    /\ next_cursor' \in {0, CursorOf(p)}
    /\ \/ \E H \in SUBSET (Files \cup Dirs) :
           /\ Narrowed(p, H)
           /\ pc' = "examine" /\ full' = FALSE /\ clears' = FALSE
           /\ found' = H \cap Files
           /\ UNCHANGED <<pending, quiet>>
       \/ /\ pc' = "walk" /\ full' = TRUE
          /\ clears' \in {FALSE, IndexLoss /\ rows # NoRows}
          /\ pending' = {Root} /\ quiet' = TRUE /\ UNCHANGED found
    /\ UNCHANGED <<tree, checkpoint, captured, next_stamps, tasks, sweep, doubted,
                   dropped, changes, faults>>

(* index --rebuild: the checkpoint is reset, then everything is walked.    *)
Rebuild(p) ==
    /\ lease = NoProc /\ journal[p] = NoReplay
    /\ lease' = p /\ pc' = "walk" /\ full' = TRUE /\ pending' = {Root} /\ quiet' = TRUE
    /\ rows' = NoRows /\ stamps' = NoStamps /\ cursor' = 0
    /\ UNCHANGED <<tree, journal, captured, next_stamps, found, clears, tasks, sweep,
                   doubted, dropped, next_cursor, changes, faults>>

-----------------------------------------------------------------------------
(* StampedWalk::files.                                                     *)

(* A mutant of Forgotten: the parent alone. *)
ForgottenParent(d) == IF d = Root THEN {} ELSE {Parent[d]}

(* forget_ancestors: what a directory that could not be read takes down.   *)
Forgotten(d) == Above[d] \ {d}

Forget(d) == [a \in Dirs |-> IF a \in Forgotten(d) THEN 0 ELSE next_stamps[a]]

Visiting(d) == pc = "walk" /\ captured = None /\ d \in pending

VisitMissing(d) ==
    /\ Visiting(d) /\ ~Reachable(d)
    /\ pending' = pending \ {d}
    /\ next_stamps' = Forget(d)
    /\ UNCHANGED <<tree, checkpoint, journal, pc, captured, found, work, quiet, changes, faults>>

(* The committed stamp still holds: the entries are those on record.       *)
Reuse(d) ==
    /\ Visiting(d) /\ Reachable(d) /\ stamps[d] = stamp[d] /\ ~clears
    /\ found' = found \cup {f \in Files : Home[f] = d /\ rows[f] # 0}
    /\ pending' = (pending \ {d}) \cup
           {c \in Dirs \ {Root} : Parent[c] = d /\ stamps[c] # 0}
    /\ next_stamps' = [next_stamps EXCEPT ![d] = stamp[d]]
    /\ UNCHANGED <<tree, checkpoint, journal, pc, captured, work, quiet, changes, faults>>

(* It does not: the stamp is captured before the entries are read.         *)
Capture(d) ==
    /\ Visiting(d) /\ Reachable(d) /\ (stamps[d] # stamp[d] \/ clears)
    /\ captured' = [dir |-> d, stamp |-> stamp[d]]
    /\ pending' = pending \ {d}
    /\ UNCHANGED <<tree, checkpoint, journal, pc, next_stamps, found, work, quiet, changes,
                   faults>>

FilesIn(d) == {f \in Files : Home[f] = d /\ version[f] # 0}
DirsIn(d) == {c \in Dirs \ {Root} : Parent[c] = d /\ c \notin away}

Enumerate ==
    /\ pc = "walk" /\ captured # None /\ Reachable(captured.dir)
    /\ found' = found \cup FilesIn(captured.dir)
    /\ pending' = pending \cup DirsIn(captured.dir)
    /\ next_stamps' = [next_stamps EXCEPT ![captured.dir] = captured.stamp]
    /\ captured' = None
    /\ UNCHANGED <<tree, checkpoint, journal, pc, work, quiet, changes, faults>>

(* The directory has gone meanwhile or cannot be read, or only some of its *)
(* entries can: it is left without a stamp, and so are those above it.     *)
EnumerateFails ==
    /\ pc = "walk" /\ captured # None
    /\ \/ ~Reachable(captured.dir) /\ UNCHANGED <<found, pending, quiet, faults>>
       \/ /\ Reachable(captured.dir) /\ faults < MaxFaults /\ faults' = faults + 1
          /\ quiet' = FALSE
          /\ \E F \in SUBSET FilesIn(captured.dir), C \in SUBSET DirsIn(captured.dir) :
                found' = found \cup F /\ pending' = pending \cup C
    /\ next_stamps' = Forget(captured.dir)
    /\ captured' = None
    /\ UNCHANGED <<tree, checkpoint, journal, pc, work, changes>>

WalkDone ==
    /\ pc = "walk" /\ pending = {} /\ captured = None
    /\ pc' = "examine"
    /\ UNCHANGED <<tree, checkpoint, journal, walk, found, work, quiet, changes, faults>>

-----------------------------------------------------------------------------
(* What is found is compared with its row, and rows with what is gone.     *)

(* discover_transcripts: one that is not there is passed over, one that is *)
(* as its row says too.                                                    *)
Examine(f) ==
    /\ pc = "examine" /\ f \in found /\ found' = found \ {f}
    /\ tasks' = IF Visible(f) /\ (rows[f] # version[f] \/ clears)
                  THEN [tasks EXCEPT ![f] = version[f]] ELSE tasks
    /\ UNCHANGED <<tree, checkpoint, journal, pc, walk, lease, full, clears, sweep,
                   doubted, dropped, next_cursor, quiet, changes, faults>>

(* Only a full refresh looks for rows whose file is gone.                  *)
Examined ==
    /\ pc = "examine" /\ found = {}
    /\ pc' = IF full THEN "sweep" ELSE "parse"
    /\ sweep' = IF full /\ ~clears THEN {f \in Files : rows[f] # 0} ELSE {}
    /\ UNCHANGED <<tree, checkpoint, journal, walk, found, lease, full, clears, tasks,
                   doubted, dropped, next_cursor, quiet, changes, faults>>

(* The first stat of a row: that of its file.                              *)
StatFile(f) ==
    /\ pc = "sweep" /\ doubted = {} /\ f \in sweep /\ sweep' = sweep \ {f}
    /\ doubted' = IF Visible(f) THEN {} ELSE {f}
    /\ UNCHANGED <<tree, checkpoint, journal, pc, walk, found, lease, full, clears,
                   tasks, dropped, next_cursor, quiet, changes, faults>>

(* A mutant of ConfirmedMissing: that the file was not found is enough.    *)
ConfirmedMissingAlone(f) == TRUE

(* A file that was not found is gone if its directory is there.            *)
ConfirmedMissing(f) == Reachable(Home[f])

(* The second stat, which the tree may have moved before.                  *)
StatParent(f) ==
    /\ pc = "sweep" /\ f \in doubted /\ doubted' = {}
    /\ dropped' = IF ConfirmedMissing(f) THEN dropped \cup {f} ELSE dropped
    /\ UNCHANGED <<tree, checkpoint, journal, pc, walk, found, lease, full, clears,
                   tasks, sweep, next_cursor, quiet, changes, faults>>

Swept ==
    /\ pc = "sweep" /\ sweep = {} /\ doubted = {}
    /\ pc' = "parse"
    /\ UNCHANGED <<tree, checkpoint, journal, walk, found, work, quiet, changes, faults>>

(* finish_file_task: a file that has gone since it was found is skipped.   *)
Skip(f) ==
    /\ pc = "parse" /\ tasks[f] # 0 /\ ~Visible(f)
    /\ tasks' = [tasks EXCEPT ![f] = 0]
    /\ UNCHANGED <<tree, checkpoint, journal, pc, walk, found, lease, full, clears,
                   sweep, doubted, dropped, next_cursor, quiet, changes, faults>>

(* finish: the stamps observed, in place of those loaded.  A refresh that  *)
(* replaces all rows loads none, and leaves the ones it did not observe.   *)
KeptStamps ==
    [d \in Dirs |-> IF next_stamps[d] # 0 \/ (full /\ ~clears)
                      THEN next_stamps[d] ELSE stamps[d]]

(* commit_delta: rows, stamps and cursor in one transaction.               *)
Commit ==
    /\ pc = "parse"
    /\ rows' = [f \in Files |-> IF tasks[f] # 0 THEN tasks[f]
                                ELSE IF f \in dropped \/ clears THEN 0 ELSE rows[f]]
    /\ stamps' = KeptStamps
    /\ cursor' = IF next_cursor # 0 THEN next_cursor ELSE cursor
    /\ Clear
    /\ UNCHANGED <<tree, journal, changes, faults>>

(* Any other error, or the end of the process, before the commit.          *)
Abort ==
    /\ pc # "idle" /\ faults < MaxFaults /\ faults' = faults + 1
    /\ Clear
    /\ UNCHANGED <<tree, checkpoint, journal, changes>>

Next ==
    \/ \E f \in Files : Write(f) \/ Create(f) \/ Remove(f)
    \/ \E d \in Movable : Rename(d)
    \/ \E p \in Procs : StartReplay(p) \/ Refresh(p) \/ Rebuild(p)
    \/ \E d \in Dirs : VisitMissing(d) \/ Reuse(d) \/ Capture(d)
    \/ Enumerate \/ EnumerateFails \/ WalkDone
    \/ \E f \in Files : Examine(f) \/ StatFile(f) \/ StatParent(f) \/ Skip(f)
    \/ Examined \/ Swept \/ Commit \/ Abort

Spec == Init /\ [][Next]_vars

-----------------------------------------------------------------------------
(* A directory that the next full scan will not enumerate, because its     *)
(* committed stamp is its present one, hides nothing: each transcript in   *)
(* it has a row and each directory in it a stamp, so that the walk goes    *)
(* on into all of them.                                                    *)
NothingHidden ==
    \A d \in Dirs : Reachable(d) /\ stamps[d] = stamp[d] =>
        /\ \A f \in Files : Home[f] = d /\ version[f] # 0 => rows[f] # 0
        /\ \A c \in Dirs \ {Root} : Parent[c] = d /\ c \notin away => stamps[c] # 0

Stale(f) == Visible(f) /\ rows[f] # version[f]

(* The events since the committed cursor name f or a directory above it.   *)
Replayed(f) ==
    \E i \in cursor..Len(log) : log[i] = f \/ log[i] \in Above[Home[f]]

(* A stale transcript below directories that are all certified by stamps   *)
(* is named by the events since the cursor: the narrowed refreshes lose    *)
(* only what a walk could not get to.                                      *)
JournalCovers ==
    \A f \in Files :
        cursor # 0 /\ Stale(f) /\ (\A a \in Above[Home[f]] : stamps[a] # 0) => Replayed(f)

(* journal.rs: the replay from the committed cursor names every path that  *)
(* changed since, so a refresh can skip the rest.  Whatever is stale is    *)
(* named, or else the narrowed refreshes never look at it.                 *)
JournalComplete == \A f \in Files : cursor # 0 /\ Stale(f) => Replayed(f)

(* A full refresh that nothing disturbs leaves the rows of all that is     *)
(* within reach as the files are, deleted ones included, whatever stamps,  *)
(* rows and half-seen moves the refreshes before it have left; and it      *)
(* leaves the rows below a directory out of reach alone: an unavailable    *)
(* ancestor does not look like a deletion of everything below it.          *)
QuietRefreshExact ==
    [][quiet /\ Commit =>
           \A f \in Files :
               rows'[f] = IF Reachable(Home[f]) THEN version[f] ELSE rows[f]]_vars

=============================================================================
