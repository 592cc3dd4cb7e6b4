-------------------------------- MODULE Watch --------------------------------
(***************************************************************************)
(* The event loop of the daemon: run_event_loop of cli.rs and the          *)
(* WatchService of watch.rs.  The operating system raises an event for a   *)
(* change below a root it listens to; the watcher's callback puts it in a  *)
(* bounded queue; the loop drains the queue into a bounded set of dirty    *)
(* paths and decides, by timers, between a refresh of the dirty paths and  *)
(* a full one.  The callback runs at any time, a refresh takes many steps, *)
(* and files change under it.                                              *)
(*                                                                         *)
(* A path is stale when a refresh that reads it would change its row; the  *)
(* row itself is the business of module Ingest.                            *)
(***************************************************************************)
EXTENDS Integers, FiniteSets, Sequences

CONSTANTS
    Paths,         \* what may change below the roots
    Untracked,     \* those no source has a row for: always worth a look
    Roots,         \* the directories sources may have
    RootOf,        \* the root of a path
    Configured0,   \* the roots configured when the daemon starts
    QueueCap,      \* EVENT_QUEUE_CAPACITY
    DirtyCap,      \* WatchConfig::dirty_cap
    MaxChanges,    \* bound on changes to files, roots and configuration
    MaxFaults      \* bound on failures and restarts

ASSUME WatchConstants ==
    /\ Untracked \subseteq Paths /\ Configured0 \subseteq Roots
    /\ RootOf \in [Paths -> Roots]
    /\ QueueCap \in Nat \ {0} /\ DirtyCap \in Nat \ {0}
    /\ MaxChanges \in Nat /\ MaxFaults \in Nat

VARIABLES
    stale,            \* the paths a refresh would have something to do for
    present,          \* the roots that exist
    configured,       \* the roots of the configuration file
    changes,
    listening,        \* the roots the operating system reports on
    flight,           \* the paths whose event is not delivered yet
    missed,           \* the paths whose event the system lost
    queue,            \* receiver: what the callback has sent
    queue_overflow,
    watched, pending, \* roots believed armed, roots to arm
    dirty,
    batch,            \* batch_start: none, open, or older than max_batch_age
    quiet,            \* debounce and settle have passed for every dirty path
    resync_needed,
    spaced,           \* min_spacing has passed since last_fire
    due,              \* resync_due has passed
    pc,               \* the loop sleeps, drains the queue, or runs a refresh
    left,             \* receives this drain may still do
    cause, full,      \* why a refresh runs, and whether it reads everything
    todo, fresh,      \* what it has to read, what it read and is still so
    faults

files == <<stale, present, configured, changes>>
os == <<listening, flight, missed>>
channel == <<queue, queue_overflow>>
roots == <<watched, pending>>
hints == <<dirty, batch, quiet, resync_needed>>
timers == <<spaced, due>>
refresh == <<cause, full, todo, fresh>>

vars == <<files, os, channel, roots, hints, timers, pc, left, refresh, faults>>

Event == [paths : SUBSET Paths, rescan : BOOLEAN]

Below(R) == {p \in Paths : RootOf[p] \in R}

(* The watcher is armed before the initial scan; rows may be left from an  *)
(* earlier daemon.                                                         *)
Init ==
    /\ stale \in {S \in SUBSET Paths : Untracked \subseteq S}
    /\ present \in SUBSET Roots
    /\ configured = Configured0 /\ changes = 0
    /\ listening \in SUBSET (configured \cap present)
    /\ flight = {} /\ missed = {}
    /\ queue = <<>> /\ queue_overflow = FALSE
    /\ watched = listening /\ pending = configured \ listening
    /\ dirty = {} /\ batch = "none" /\ quiet = FALSE
    /\ resync_needed = (listening # {})
    /\ spaced = TRUE /\ due = FALSE
    /\ pc = "scan" /\ left = 0
    /\ cause = "start" /\ full = TRUE /\ todo = Below(configured) /\ fresh = {}
    /\ faults = 0

(* WatchService::new with the roots R, of which it arms those in A, and    *)
(* then the initial scan.                                                  *)
StartService(R) ==
    /\ \E A \in SUBSET (R \cap present) :
        /\ listening' = A /\ watched' = A /\ pending' = R \ A
        /\ resync_needed' = (A # {})
    /\ flight' = {} /\ queue' = <<>> /\ queue_overflow' = FALSE
    /\ dirty' = {} /\ batch' = "none" /\ quiet' = FALSE
    /\ spaced' = TRUE /\ due' = FALSE
    /\ pc' = "scan" /\ left' = 0
    /\ cause' = "start" /\ full' = TRUE /\ todo' = Below(R) /\ fresh' = {}

-----------------------------------------------------------------------------
(* The files and the operating system.                                     *)

Raise(P) == flight' = flight \cup (P \cap Below(listening))

(* A write: what a running refresh read of the file is no longer so.       *)
Change(p) ==
    /\ changes < MaxChanges /\ changes' = changes + 1
    /\ RootOf[p] \in present
    /\ stale' = stale \cup {p} /\ fresh' = fresh \ {p}
    /\ Raise({p})
    /\ missed' = missed \ flight'
    /\ UNCHANGED <<present, configured, listening, channel, roots, hints, timers,
                   pc, left, cause, full, todo, faults>>

(* An event for a file that is as its row says, or that has none.          *)
Touch(p) ==
    /\ RootOf[p] \in listening
    /\ Raise({p})
    /\ UNCHANGED <<files, listening, missed, channel, roots, hints, timers, pc, left,
                   refresh, faults>>

(* A root is deleted: its files go with it, and its watch dies without the *)
(* service being told.                                                     *)
RootVanishes(r) ==
    /\ changes < MaxChanges /\ changes' = changes + 1
    /\ r \in present /\ present' = present \ {r}
    /\ stale' = stale \cup Below({r}) /\ fresh' = fresh \ Below({r})
    /\ Raise(Below({r}))
    /\ listening' = listening \ {r}
    /\ UNCHANGED <<configured, missed, channel, roots, hints, timers, pc, left,
                   cause, full, todo, faults>>

(* A root is created, with its files in it.                                *)
RootAppears(r) ==
    /\ changes < MaxChanges /\ changes' = changes + 1
    /\ r \notin present /\ present' = present \cup {r}
    /\ stale' = stale \cup Below({r}) /\ fresh' = fresh \ Below({r})
    /\ UNCHANGED <<configured, os, channel, roots, hints, timers, pc, left,
                   cause, full, todo, faults>>

(* A source is added to the configuration while the daemon runs.           *)
Configure(r) ==
    /\ changes < MaxChanges /\ changes' = changes + 1
    /\ r \notin configured /\ configured' = configured \cup {r}
    /\ UNCHANGED <<stale, present, os, channel, roots, hints, timers, pc, left,
                   refresh, faults>>

(* A mutant of Enqueue: what does not fit is dropped.                      *)
EnqueueOrDrop(event) ==
    /\ queue' = IF Len(queue) < QueueCap THEN Append(queue, event) ELSE queue
    /\ UNCHANGED queue_overflow

(* enqueue_event: the callback never blocks; what does not fit leaves the  *)
(* overflow bit.                                                           *)
Enqueue(event) ==
    /\ queue' = IF Len(queue) < QueueCap THEN Append(queue, event) ELSE queue
    /\ queue_overflow' = (queue_overflow \/ Len(queue) >= QueueCap)

Deliver ==
    \E P \in SUBSET flight :
        /\ P # {} /\ flight' = flight \ P
        /\ Enqueue([paths |-> P, rescan |-> FALSE])
        /\ UNCHANGED <<files, listening, missed, roots, hints, timers, pc, left,
                       refresh, faults>>

(* The system ran out of room for events, or the watcher met an error: it  *)
(* asks for a rescan instead.                                              *)
DeliverRescan ==
    \E P \in SUBSET flight :
        /\ P # {} /\ flight' = flight \ P
        /\ Enqueue([paths |-> {}, rescan |-> TRUE])
        /\ UNCHANGED <<files, listening, missed, roots, hints, timers, pc, left,
                       refresh, faults>>

(* An event never comes (FSEvents holds it back while the file is open).   *)
LoseEvent(p) ==
    /\ p \in flight /\ flight' = flight \ {p}
    /\ missed' = missed \cup ({p} \cap stale)
    /\ UNCHANGED <<files, listening, channel, roots, hints, timers, pc, left,
                   refresh, faults>>

-----------------------------------------------------------------------------
(* The loop.                                                               *)

(* poll: activate_pending arms the roots that exist, each of which asks    *)
(* for a resync, and drain starts by taking the overflow bit.  Arming a    *)
(* root may fail, and is tried again at the next poll.                     *)
Poll ==
    /\ pc = "idle"
    /\ \E A \in SUBSET (pending \cap present) :
        /\ \/ A = pending \cap present /\ UNCHANGED faults
           \/ A # pending \cap present /\ faults < MaxFaults /\ faults' = faults + 1
        /\ watched' = watched \cup A /\ listening' = listening \cup A
        /\ pending' = pending \ A
        /\ resync_needed' = (resync_needed \/ queue_overflow \/ A # {})
    /\ queue_overflow' = FALSE
    /\ pc' = "drain" /\ left' = QueueCap
    /\ UNCHANGED <<files, flight, missed, queue, dirty, batch, quiet, timers, refresh>>

Fits(P) == Cardinality(dirty \cup P) <= DirtyCap

(* note_dirty_at: paths join the batch; when they are too many all are     *)
(* given up, for the resync the caller then asks for.                      *)
NoteDirty(P) ==
    /\ dirty' = IF Fits(P) THEN dirty \cup P ELSE {}
    /\ batch' = IF batch = "none" /\ dirty' # {} THEN "open" ELSE batch
    /\ quiet' = (quiet /\ P = {})

(* drain: at most as many receives as the channel holds.                   *)
Receive ==
    /\ pc = "drain" /\ left > 0 /\ queue # <<>>
    /\ LET event == Head(queue) IN
        /\ NoteDirty(event.paths)
        /\ resync_needed' = (resync_needed \/ event.rescan \/ ~Fits(event.paths))
    /\ queue' = Tail(queue) /\ left' = left - 1
    /\ UNCHANGED <<files, os, queue_overflow, roots, timers, pc, refresh, faults>>

Drained == pc = "drain" /\ (left = 0 \/ queue = <<>>)

(* A mutant of FireCause: a batch that is ready goes before a resync.      *)
FireCauseDirtyFirst ==
    CASE ~spaced                                          -> "none"
      [] spaced /\ dirty # {} /\ (batch = "aged" \/ quiet) -> "Dirty"
      [] OTHER -> IF resync_needed \/ due THEN "Resync" ELSE "none"

(* fire_decision: a resync goes before a batch, and a batch waits until it *)
(* is quiet or old.                                                        *)
FireCause ==
    CASE ~spaced                            -> "none"
      [] spaced /\ (resync_needed \/ due)   -> "Resync"
      [] OTHER -> IF dirty # {} /\ (batch = "aged" \/ quiet) THEN "Dirty" ELSE "none"

(* ensure_roots with the configuration of the moment; a refusal to load it *)
(* is only logged.                                                         *)
RefreshRoots ==
    \/ /\ watched' = watched \cap configured
       /\ listening' = listening \cap configured
       /\ pending' = pending \cup (configured \ watched)
       /\ UNCHANGED faults
    \/ /\ faults < MaxFaults /\ faults' = faults + 1
       /\ UNCHANGED <<watched, listening, pending>>

StartRefresh(why, P, all) ==
    /\ pc' = "scan" /\ cause' = why /\ full' = all /\ todo' = P /\ fresh' = {}

DecideNothing ==
    /\ Drained /\ left' = 0 /\ FireCause = "none"
    /\ pc' = "idle"
    /\ UNCHANGED <<files, os, channel, roots, hints, timers, refresh, faults>>

DecideResync ==
    /\ Drained /\ left' = 0 /\ FireCause = "Resync"
    /\ RefreshRoots
    /\ StartRefresh("resync", Below(configured), TRUE)
    /\ UNCHANGED <<files, flight, missed, channel, hints, timers>>

(* dirty_needs_ingest found every dirty path as its row describes it:      *)
(* mark_skipped drops the batch and leaves the timers.                     *)
NeedsIngest == dirty \cap stale # {}

CheckSkips ==
    /\ Drained /\ left' = 0 /\ FireCause = "Dirty" /\ ~NeedsIngest
    /\ dirty' = {} /\ batch' = "none" /\ quiet' = FALSE
    /\ pc' = "idle"
    /\ UNCHANGED <<files, os, channel, roots, resync_needed, timers, refresh, faults>>

(* It found a difference: refresh what is dirty, or everything where the   *)
(* selection cannot be narrowed.                                           *)
CheckFinds ==
    /\ Drained /\ left' = 0 /\ FireCause = "Dirty" /\ NeedsIngest
    /\ \/ StartRefresh("dirty", dirty, FALSE)
       \/ StartRefresh("dirty", Below(configured), TRUE)
    /\ UNCHANGED <<files, os, channel, roots, hints, timers, faults>>

(* It failed: refresh everything to be safe.                               *)
CheckFails ==
    /\ Drained /\ left' = 0 /\ FireCause = "Dirty" /\ faults < MaxFaults
    /\ faults' = faults + 1
    /\ StartRefresh("safe", Below(configured), TRUE)
    /\ UNCHANGED <<files, os, channel, roots, hints, timers>>

(* The refresh looks at one path after the other.                          *)
ScanReads(p) ==
    /\ pc = "scan" /\ p \in todo
    /\ todo' = todo \ {p} /\ fresh' = fresh \cup {p}
    /\ UNCHANGED <<files, os, channel, roots, hints, timers, pc, left, cause, full, faults>>

(* A mutant of MarkComplete: a narrowed refresh postpones the full one.    *)
MarkCompletePostponing(resync) ==
    /\ dirty' = {} /\ batch' = "none" /\ spaced' = FALSE
    /\ due' = FALSE
    /\ resync_needed' = (resync_needed /\ ~resync)
    /\ quiet' = FALSE

(* mark_complete: every hint is dropped; only a full refresh moves the     *)
(* resync deadline.                                                        *)
MarkComplete(resync) ==
    /\ dirty' = {} /\ batch' = "none" /\ spaced' = FALSE
    /\ due' = (due /\ ~resync)
    /\ resync_needed' = (resync_needed /\ ~resync)
    /\ quiet' = FALSE

(* The refresh commits the rows of what it read, and the loop records it.  *)
(* Only a narrowed refresh that grew into a full one refreshes the roots   *)
(* after the fact.                                                         *)
ScanSucceeds ==
    /\ pc = "scan" /\ todo = {}
    /\ stale' = stale \ (fresh \ Untracked)
    /\ missed' = missed \cap stale'
    /\ MarkComplete(full)
    /\ IF cause = "dirty" /\ full
         THEN RefreshRoots
         ELSE UNCHANGED <<roots, listening, faults>>
    /\ pc' = "idle" /\ cause' = "none" /\ full' = FALSE /\ fresh' = {}
    /\ UNCHANGED <<present, configured, changes, flight, channel, left, todo>>

(* It failed: nothing is recorded and every hint is kept.                  *)
ScanFails ==
    /\ pc = "scan" /\ cause # "start" /\ faults < MaxFaults
    /\ faults' = faults + 1
    /\ pc' = "idle" /\ cause' = "none" /\ full' = FALSE /\ todo' = {} /\ fresh' = {}
    /\ UNCHANGED <<files, os, channel, roots, hints, timers, left>>

(* The daemon is killed, or its initial scan fails, and it is started      *)
(* again: the rows are on disk, every hint is gone.                        *)
Restart ==
    /\ faults < MaxFaults /\ faults' = faults + 1
    /\ StartService(configured)
    /\ missed' = {}
    /\ UNCHANGED files

(* hot_sweep_dirty and note_dirty, between two polls: files whose stat     *)
(* differs from their row become dirty as if an event had arrived.         *)
HotSweep ==
    /\ pc = "idle"
    /\ \E P \in SUBSET (stale \ Untracked) :
        /\ P # {}
        /\ NoteDirty(P)
        /\ resync_needed' = (resync_needed \/ ~Fits(P))
    /\ UNCHANGED <<files, os, channel, roots, timers, pc, left, refresh, faults>>

-----------------------------------------------------------------------------
(* Time.  What only the decision reads is let pass while the loop sleeps.  *)

SpacingPasses ==
    /\ ~spaced /\ spaced' = TRUE
    /\ UNCHANGED <<files, os, channel, roots, hints, due, pc, left, refresh, faults>>

ResyncFallsDue ==
    /\ ~due /\ due' = TRUE
    /\ UNCHANGED <<files, os, channel, roots, hints, spaced, pc, left, refresh, faults>>

BatchAges ==
    /\ pc = "idle" /\ batch = "open" /\ batch' = "aged"
    /\ UNCHANGED <<files, os, channel, roots, dirty, quiet, resync_needed, timers,
                   pc, left, refresh, faults>>

BatchSettles ==
    /\ pc = "idle" /\ ~quiet /\ dirty # {} /\ quiet' = TRUE
    /\ UNCHANGED <<files, os, channel, roots, dirty, batch, resync_needed, timers,
                   pc, left, refresh, faults>>

-----------------------------------------------------------------------------
Loop ==
    \/ Poll \/ Receive \/ DecideNothing \/ DecideResync
    \/ CheckSkips \/ CheckFinds \/ CheckFails
    \/ \E p \in Paths : ScanReads(p)
    \/ ScanSucceeds \/ ScanFails

System ==
    \/ \E p \in Paths : Change(p) \/ Touch(p) \/ LoseEvent(p)
    \/ \E r \in Roots : RootVanishes(r) \/ RootAppears(r) \/ Configure(r)
    \/ Deliver \/ DeliverRescan \/ Restart

Time == SpacingPasses \/ ResyncFallsDue \/ BatchAges \/ BatchSettles

Next == Loop \/ HotSweep \/ System \/ Time

(* The loop never blocks and deadlines pass.  Nothing is assumed of the    *)
(* watcher: no event need ever be delivered.                               *)
Fairness == WF_vars(Loop) /\ WF_vars(SpacingPasses) /\ WF_vars(ResyncFallsDue)

Spec == Init /\ [][Next]_vars /\ Fairness

-----------------------------------------------------------------------------
(* Type invariant. *)
TypeOK ==
    /\ stale \in SUBSET Paths /\ present \in SUBSET Roots
    /\ configured \in SUBSET Roots /\ listening \in SUBSET Roots
    /\ flight \in SUBSET Paths /\ missed \in SUBSET Paths
    /\ queue \in Seq(Event) /\ queue_overflow \in BOOLEAN
    /\ watched \in SUBSET Roots /\ pending \in SUBSET Roots
    /\ dirty \in SUBSET Paths /\ batch \in {"none", "open", "aged"}
    /\ quiet \in BOOLEAN /\ resync_needed \in BOOLEAN
    /\ spaced \in BOOLEAN /\ due \in BOOLEAN
    /\ pc \in {"idle", "drain", "scan"} /\ left \in 0..QueueCap
    /\ cause \in {"none", "start", "resync", "dirty", "safe"} /\ full \in BOOLEAN
    /\ todo \in SUBSET Paths /\ fresh \in SUBSET Paths
    /\ changes \in Nat /\ faults \in Nat

Hinted(p) ==
    \/ resync_needed \/ queue_overflow
    \/ p \in flight \/ p \in dirty
    \/ \E i \in DOMAIN queue : queue[i].rescan \/ p \in queue[i].paths

(* No change below a root that is listened to is ever forgotten: as long   *)
(* as the row is behind the file, an event, a dirty path or a request for  *)
(* a resync stands for it, whatever overflowed, failed or was cleared      *)
(* while a refresh was running.  Only what the system itself lost escapes. *)
NoLostHint ==
    \A p \in Paths \ (Untracked \cup missed) :
        p \in stale /\ RootOf[p] \in listening => Hinted(p)

(* Narrowed refreshes never put off the full one: however many events      *)
(* arrive, full refreshes keep completing.                                 *)
FullScansRecur == []<><<ScanSucceeds /\ full>>_vars

(* A daemon that missed every event, whose watches died or whose sources   *)
(* were configured while it ran, still ends up with rows that match the    *)
(* files once they stop changing.                                          *)
Converges == <>[](Below(configured) \cap stale \subseteq Untracked)

=============================================================================
