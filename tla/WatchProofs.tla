----------------------------- MODULE WatchProofs -----------------------------
(***************************************************************************)
(* That the event loop of the daemon forgets no change, for any number of  *)
(* paths and roots, any capacity of the queue and of the dirty set, any    *)
(* number of changes and faults.                                           *)
(*                                                                         *)
(* NoLostHint is not inductive by itself: a refresh that ends drops the    *)
(* dirty paths and, when it was full, the request for a resync.  ScanInv   *)
(* says what makes that safe, RootsInv that a full refresh reads every     *)
(* path whose root is listened to.                                         *)
(***************************************************************************)
EXTENDS Watch, TLAPS

\* What is listened to is configured and exists.
RootsInv ==
    /\ listening \subseteq configured \cap present
    /\ watched \subseteq configured /\ pending \subseteq configured

\* An event on its way to the loop, in the callback's queue or lost from it.
Coming(p) ==
    \/ queue_overflow \/ p \in flight
    \/ \E i \in DOMAIN queue : queue[i].rescan \/ p \in queue[i].paths

\* What must not be forgotten: a tracked path whose row is behind its file, below a root
\* that is listened to, whose event the system did not lose.
Owed(p) == p \in stale /\ p \notin Untracked /\ p \notin missed /\ RootOf[p] \in listening

\* A refresh that is running has yet to read the path, or has read it as it is; or the
\* change came later and its event is still to come; or a full refresh is asked for and
\* this is none.
ScanInv ==
    pc = "scan" =>
       \A p \in Paths : Owed(p) => \/ p \in todo \cup fresh
                                   \/ Coming(p)
                                   \/ ~full /\ resync_needed

\* The inductive invariant.
WatchInv == TypeOK /\ RootsInv /\ NoLostHint /\ ScanInv

-----------------------------------------------------------------------------
\* What the callback enqueues joins the queue or leaves the overflow bit; what was queued
\* stays queued.
LEMMA Enqueued ==
    ASSUME TypeOK, NEW event \in Event, Enqueue(event)
    PROVE  /\ queue' \in Seq(Event) /\ queue_overflow' \in BOOLEAN
           /\ queue_overflow => queue_overflow'
           /\ \A i \in DOMAIN queue : i \in DOMAIN queue' /\ queue'[i] = queue[i]
           /\ queue_overflow' \/ \E i \in DOMAIN queue' : queue'[i] = event
  <1>1. queue \in Seq(Event) /\ Len(queue) \in Nat
    BY DEF TypeOK
  <1>2. CASE Len(queue) < QueueCap
    <2>1. queue' = Append(queue, event)
      BY <1>2 DEF Enqueue
    <2>2. /\ queue' \in Seq(Event) /\ Len(queue') = Len(queue) + 1
          /\ \A i \in 1..Len(queue) : queue'[i] = queue[i]
          /\ queue'[Len(queue) + 1] = event
      BY <1>1, <2>1
    <2> QED
      BY <1>1, <1>2, <2>1, <2>2 DEF Enqueue, TypeOK
  <1>3. CASE ~(Len(queue) < QueueCap)
    <2>1. queue' = queue
      BY <1>3 DEF Enqueue
    <2>2. Len(queue) >= QueueCap
      BY <1>1, <1>3, WatchConstants
    <2>3. queue_overflow' = TRUE
      BY <2>2 DEF Enqueue
    <2> QED
      BY <1>1, <2>1, <2>3
  <1> QED
    BY <1>2, <1>3

\* What the loop receives is the head of the queue; the rest stays queued.
LEMMA Received ==
    ASSUME TypeOK, queue # <<>>, queue' = Tail(queue)
    PROVE  /\ Head(queue) \in Event /\ queue' \in Seq(Event)
           /\ \A i \in DOMAIN queue : \/ queue[i] = Head(queue)
                                      \/ \E j \in DOMAIN queue' : queue'[j] = queue[i]
  <1>1. queue \in Seq(Event) /\ Len(queue) \in Nat /\ Len(queue) > 0
    BY DEF TypeOK
  <1>2. /\ Head(queue) \in Event /\ Head(queue) = queue[1]
        /\ queue' \in Seq(Event) /\ Len(queue') = Len(queue) - 1
        /\ \A j \in 1..Len(queue) - 1 : queue'[j] = queue[j + 1]
    BY <1>1
  <1>3. ASSUME NEW i \in 1..Len(queue), i # 1
        PROVE  i - 1 \in 1..Len(queue) - 1 /\ queue'[i - 1] = queue[i]
    <2>1. i - 1 \in 1..Len(queue) - 1 /\ (i - 1) + 1 = i
      BY <1>1, <1>3
    <2> QED
      BY <1>2, <2>1
  <1>4. DOMAIN queue = 1..Len(queue) /\ DOMAIN queue' = 1..Len(queue) - 1
    BY <1>1, <1>2
  <1>5. ASSUME NEW i \in DOMAIN queue, queue[i] # Head(queue)
        PROVE  \E j \in DOMAIN queue' : queue'[j] = queue[i]
    <2>1. i \in 1..Len(queue) /\ i # 1
      BY <1>2, <1>4, <1>5
    <2> QED
      BY <1>3, <1>4, <2>1
  <1> QED
    BY <1>2, <1>5

\* An event that is delivered is still to come: it is in the queue, or the overflow bit
\* stands for it.
LEMMA Delivered ==
    ASSUME TypeOK, NEW P \in SUBSET flight, NEW event \in Event,
           event.rescan \/ P \subseteq event.paths,
           flight' = flight \ P, Enqueue(event)
    PROVE  \A q \in Paths : Coming(q) => Coming(q)'
  <1> SUFFICES ASSUME NEW q \in Paths, Coming(q) PROVE Coming(q)'
    OBVIOUS
  <1>1. CASE q \in P
    <2>1. CASE queue_overflow'
      BY <2>1 DEF Coming
    <2>2. CASE ~queue_overflow'
      <3>1. PICK i \in DOMAIN queue' : queue'[i] = event
        BY <2>2, Enqueued
      <3> QED
        BY <1>1, <3>1 DEF Coming
    <2> QED
      BY <2>1, <2>2
  <1>2. CASE q \notin P /\ q \in flight
    BY <1>2 DEF Coming
  <1>3. CASE q \notin flight
    BY <1>3, Enqueued DEF Coming
  <1> QED
    BY <1>1, <1>2, <1>3

\* A root that is armed asks for a resync, and so does a bit of overflow that is taken.
LEMMA PollKeeps ==
    ASSUME WatchInv, Poll
    PROVE  WatchInv'
  <1> USE DEF WatchInv, files, os, channel, roots, hints, timers, refresh
  <1>1. TypeOK'
    <2>1. /\ stale' \in SUBSET Paths /\ present' \in SUBSET Roots
          /\ configured' \in SUBSET Roots /\ listening' \in SUBSET Roots
          /\ flight' \in SUBSET Paths /\ missed' \in SUBSET Paths
          /\ watched' \in SUBSET Roots /\ pending' \in SUBSET Roots
      BY DEF Poll, TypeOK
    <2>2. dirty' \in SUBSET Paths /\ todo' \in SUBSET Paths /\ fresh' \in SUBSET Paths
      BY WatchConstants DEF Poll, TypeOK
    <2>3. queue' \in Seq(Event) /\ left' \in 0..QueueCap
      BY WatchConstants DEF Poll, TypeOK
    <2>4. /\ queue_overflow' \in BOOLEAN /\ quiet' \in BOOLEAN /\ resync_needed' \in BOOLEAN
          /\ spaced' \in BOOLEAN /\ due' \in BOOLEAN /\ full' \in BOOLEAN
      BY DEF Poll, TypeOK
    <2>5. /\ batch' \in {"none", "open", "aged"} /\ pc' \in {"idle", "drain", "scan"}
          /\ cause' \in {"none", "start", "resync", "dirty", "safe"}
          /\ changes' \in Nat /\ faults' \in Nat
      BY DEF Poll, TypeOK
    <2> QED
      BY <2>1, <2>2, <2>3, <2>4, <2>5 DEF TypeOK
  <1>2. RootsInv'
    BY DEF Poll, RootsInv
  <1>3. NoLostHint'
    BY DEF Poll, NoLostHint, Hinted
  <1>4. ScanInv'
    BY DEF Poll, ScanInv, Owed, Coming
  <1> QED
    BY <1>1, <1>2, <1>3, <1>4

\* What is received becomes dirty, or asks for a resync where it does not fit.
LEMMA ReceiveKeeps ==
    ASSUME WatchInv, Receive
    PROVE  WatchInv'
  <1> USE DEF WatchInv, files, os, channel, roots, hints, timers, refresh
  <1>1. TypeOK'
    <2>1. queue # <<>> /\ queue' = Tail(queue) /\ left' = left - 1 /\ left > 0
      BY DEF Receive
    <2>2. Head(queue).paths \in SUBSET Paths /\ queue' \in Seq(Event)
      BY <2>1, Received DEF Event
    <2>3. left' \in 0..QueueCap
      BY <2>1, WatchConstants DEF TypeOK
    <2>4. dirty' \in SUBSET Paths /\ batch' \in {"none", "open", "aged"}
      BY <2>2 DEF Receive, NoteDirty, TypeOK
    <2>5. quiet' \in BOOLEAN /\ resync_needed' \in BOOLEAN
      BY DEF Receive, NoteDirty, TypeOK
    <2> QED
      BY <2>2, <2>3, <2>4, <2>5 DEF Receive, TypeOK
  <1>2. RootsInv'
    BY DEF Receive, NoteDirty, Fits, Drained, RootsInv
  <1>3. NoLostHint'
    <2> DEFINE event == Head(queue)
    <2>1. /\ event \in Event
          /\ \A i \in DOMAIN queue : \/ queue[i] = event
                                     \/ \E j \in DOMAIN queue' : queue'[j] = queue[i]
      BY Received DEF Receive
    <2>2. /\ UNCHANGED <<stale, missed, listening, flight, queue_overflow>>
          /\ event.rescan \/ resync_needed \/ ~Fits(event.paths) => resync_needed'
          /\ Fits(event.paths) => dirty' = dirty \cup event.paths
      BY DEF Receive, NoteDirty
    <2>3. ASSUME NEW p \in Paths, Hinted(p) PROVE Hinted(p)'
      <3>1. CASE resync_needed'
        BY <3>1 DEF Hinted
      <3>2. CASE ~resync_needed'
        <4>1. Fits(event.paths) /\ ~event.rescan /\ ~resync_needed
          BY <2>2, <3>2
        <4>2. CASE queue_overflow \/ p \in flight \/ p \in dirty
          BY <2>2, <4>1, <4>2 DEF Hinted
        <4>3. CASE \E i \in DOMAIN queue : queue[i].rescan \/ p \in queue[i].paths
          <5>1. PICK i \in DOMAIN queue : queue[i].rescan \/ p \in queue[i].paths
            BY <4>3
          <5>2. CASE queue[i] = event
            BY <2>2, <4>1, <5>1, <5>2 DEF Hinted
          <5>3. CASE \E j \in DOMAIN queue' : queue'[j] = queue[i]
            BY <5>1, <5>3 DEF Hinted
          <5> QED
            BY <2>1, <5>2, <5>3
        <4> QED
          BY <2>3, <4>1, <4>2, <4>3 DEF Hinted
      <3> QED
        BY <3>1, <3>2
    <2> HIDE DEF event
    <2> QED
      BY <2>2, <2>3 DEF NoLostHint
  <1>4. ScanInv'
    BY DEF Receive, NoteDirty, Fits, Drained, ScanInv, Owed, Coming
  <1> QED
    BY <1>1, <1>2, <1>3, <1>4

\* Nothing to do leaves every hint.
LEMMA DecideNothingKeeps ==
    ASSUME WatchInv, DecideNothing
    PROVE  WatchInv'
  <1> USE DEF WatchInv, files, os, channel, roots, hints, timers, refresh
  <1>1. TypeOK'
    BY WatchConstants DEF DecideNothing, Drained, TypeOK, Event
  <1>2. RootsInv'
    BY DEF DecideNothing, Drained, RootsInv
  <1>3. NoLostHint'
    BY DEF DecideNothing, Drained, NoLostHint, Hinted
  <1>4. ScanInv'
    BY DEF DecideNothing, Drained, ScanInv, Owed, Coming
  <1> QED
    BY <1>1, <1>2, <1>3, <1>4

\* A full refresh has every configured path to read.
LEMMA DecideResyncKeeps ==
    ASSUME WatchInv, DecideResync
    PROVE  WatchInv'
  <1> USE DEF WatchInv, files, os, channel, roots, hints, timers, refresh
  <1>1. TypeOK'
    BY WatchConstants DEF DecideResync, Drained, RefreshRoots, StartRefresh, Below,
       TypeOK, Event
  <1>2. RootsInv'
    BY DEF DecideResync, Drained, RefreshRoots, StartRefresh, Below, RootsInv
  <1>3. NoLostHint'
    BY DEF DecideResync, Drained, RefreshRoots, StartRefresh, Below, NoLostHint, Hinted
  <1>4. ScanInv'
    BY WatchConstants DEF DecideResync, Drained, RefreshRoots, StartRefresh, Below,
       ScanInv, Owed, Coming, NoLostHint, Hinted, RootsInv, TypeOK, Event
  <1> QED
    BY <1>1, <1>2, <1>3, <1>4

\* What is dropped is as its row says.
LEMMA CheckSkipsKeeps ==
    ASSUME WatchInv, CheckSkips
    PROVE  WatchInv'
  <1> USE DEF WatchInv, files, os, channel, roots, hints, timers, refresh
  <1>1. TypeOK'
    <2>1. /\ stale' \in SUBSET Paths /\ present' \in SUBSET Roots
          /\ configured' \in SUBSET Roots /\ listening' \in SUBSET Roots
          /\ flight' \in SUBSET Paths /\ missed' \in SUBSET Paths
          /\ watched' \in SUBSET Roots /\ pending' \in SUBSET Roots
      BY DEF CheckSkips, Drained, NeedsIngest, TypeOK
    <2>2. dirty' \in SUBSET Paths /\ todo' \in SUBSET Paths /\ fresh' \in SUBSET Paths
      BY WatchConstants DEF CheckSkips, Drained, NeedsIngest, TypeOK
    <2>3. queue' \in Seq(Event) /\ left' \in 0..QueueCap
      BY WatchConstants DEF CheckSkips, Drained, NeedsIngest, TypeOK
    <2>4. /\ queue_overflow' \in BOOLEAN /\ quiet' \in BOOLEAN /\ resync_needed' \in BOOLEAN
          /\ spaced' \in BOOLEAN /\ due' \in BOOLEAN /\ full' \in BOOLEAN
      BY DEF CheckSkips, Drained, NeedsIngest, TypeOK
    <2>5. /\ batch' \in {"none", "open", "aged"} /\ pc' \in {"idle", "drain", "scan"}
          /\ cause' \in {"none", "start", "resync", "dirty", "safe"}
          /\ changes' \in Nat /\ faults' \in Nat
      BY DEF CheckSkips, Drained, NeedsIngest, TypeOK
    <2> QED
      BY <2>1, <2>2, <2>3, <2>4, <2>5 DEF TypeOK
  <1>2. RootsInv'
    BY DEF CheckSkips, Drained, NeedsIngest, RootsInv
  <1>3. NoLostHint'
    BY DEF CheckSkips, Drained, NeedsIngest, NoLostHint, Hinted
  <1>4. ScanInv'
    BY DEF CheckSkips, Drained, NeedsIngest, ScanInv, Owed, Coming
  <1> QED
    BY <1>1, <1>2, <1>3, <1>4

\* The refresh has to read all that is dirty, or everything.
LEMMA CheckFindsKeeps ==
    ASSUME WatchInv, CheckFinds
    PROVE  WatchInv'
  <1> USE DEF WatchInv, files, os, channel, roots, hints, timers, refresh
  <1>1. TypeOK'
    <2>1. /\ stale' \in SUBSET Paths /\ present' \in SUBSET Roots
          /\ configured' \in SUBSET Roots /\ listening' \in SUBSET Roots
          /\ flight' \in SUBSET Paths /\ missed' \in SUBSET Paths
          /\ watched' \in SUBSET Roots /\ pending' \in SUBSET Roots
      BY DEF CheckFinds, Drained, StartRefresh, Below, TypeOK
    <2>2. dirty' \in SUBSET Paths /\ todo' \in SUBSET Paths /\ fresh' \in SUBSET Paths
      BY WatchConstants DEF CheckFinds, Drained, StartRefresh, Below, TypeOK
    <2>3. queue' \in Seq(Event) /\ left' \in 0..QueueCap
      BY WatchConstants DEF CheckFinds, Drained, StartRefresh, Below, TypeOK
    <2>4. /\ queue_overflow' \in BOOLEAN /\ quiet' \in BOOLEAN /\ resync_needed' \in BOOLEAN
          /\ spaced' \in BOOLEAN /\ due' \in BOOLEAN /\ full' \in BOOLEAN
      BY DEF CheckFinds, Drained, StartRefresh, Below, TypeOK
    <2>5. /\ batch' \in {"none", "open", "aged"} /\ pc' \in {"idle", "drain", "scan"}
          /\ cause' \in {"none", "start", "resync", "dirty", "safe"}
          /\ changes' \in Nat /\ faults' \in Nat
      BY DEF CheckFinds, Drained, StartRefresh, Below, TypeOK
    <2> QED
      BY <2>1, <2>2, <2>3, <2>4, <2>5 DEF TypeOK
  <1>2. RootsInv'
    BY DEF CheckFinds, Drained, StartRefresh, Below, RootsInv
  <1>3. NoLostHint'
    BY DEF CheckFinds, Drained, StartRefresh, Below, NoLostHint, Hinted
  <1>4. ScanInv'
    BY WatchConstants DEF CheckFinds, Drained, StartRefresh, Below, ScanInv, Owed,
       Coming, NoLostHint, Hinted, RootsInv, TypeOK, Event
  <1> QED
    BY <1>1, <1>2, <1>3, <1>4

\* A check that failed reads everything.
LEMMA CheckFailsKeeps ==
    ASSUME WatchInv, CheckFails
    PROVE  WatchInv'
  <1> USE DEF WatchInv, files, os, channel, roots, hints, timers, refresh
  <1>1. TypeOK'
    BY WatchConstants DEF CheckFails, Drained, StartRefresh, Below, TypeOK, Event
  <1>2. RootsInv'
    BY DEF CheckFails, Drained, StartRefresh, Below, RootsInv
  <1>3. NoLostHint'
    BY DEF CheckFails, Drained, StartRefresh, Below, NoLostHint, Hinted
  <1>4. ScanInv'
    BY WatchConstants DEF CheckFails, Drained, StartRefresh, Below, ScanInv, Owed,
       Coming, NoLostHint, Hinted, RootsInv, TypeOK, Event
  <1> QED
    BY <1>1, <1>2, <1>3, <1>4

\* What has been read is fresh until it changes.
LEMMA ScanReadsKeeps ==
    ASSUME NEW q \in Paths, WatchInv, ScanReads(q)
    PROVE  WatchInv'
  <1> USE DEF WatchInv, files, os, channel, roots, hints, timers, refresh
  <1>1. TypeOK'
    BY DEF ScanReads, TypeOK
  <1>2. RootsInv'
    BY DEF ScanReads, RootsInv
  <1>3. NoLostHint'
    BY DEF ScanReads, NoLostHint, Hinted
  <1>4. ScanInv'
    BY DEF ScanReads, ScanInv, Owed, Coming
  <1> QED
    BY <1>1, <1>2, <1>3, <1>4

\* What a refresh leaves stale changed after it was read, and its event is to come.
LEMMA ScanSucceedsKeeps ==
    ASSUME WatchInv, ScanSucceeds
    PROVE  WatchInv'
  <1> USE DEF WatchInv, files, os, channel, roots, hints, timers, refresh
  <1>1. TypeOK'
    <2>1. /\ stale' \in SUBSET Paths /\ present' \in SUBSET Roots
          /\ configured' \in SUBSET Roots /\ listening' \in SUBSET Roots
          /\ flight' \in SUBSET Paths /\ missed' \in SUBSET Paths
          /\ watched' \in SUBSET Roots /\ pending' \in SUBSET Roots
      BY DEF ScanSucceeds, MarkComplete, RefreshRoots, TypeOK
    <2>2. dirty' \in SUBSET Paths /\ todo' \in SUBSET Paths /\ fresh' \in SUBSET Paths
      BY WatchConstants DEF ScanSucceeds, MarkComplete, RefreshRoots, TypeOK
    <2>3. queue' \in Seq(Event) /\ left' \in 0..QueueCap
      BY WatchConstants DEF ScanSucceeds, MarkComplete, RefreshRoots, TypeOK
    <2>4. /\ queue_overflow' \in BOOLEAN /\ quiet' \in BOOLEAN /\ resync_needed' \in BOOLEAN
          /\ spaced' \in BOOLEAN /\ due' \in BOOLEAN /\ full' \in BOOLEAN
      BY DEF ScanSucceeds, MarkComplete, RefreshRoots, TypeOK
    <2>5. /\ batch' \in {"none", "open", "aged"} /\ pc' \in {"idle", "drain", "scan"}
          /\ cause' \in {"none", "start", "resync", "dirty", "safe"}
          /\ changes' \in Nat /\ faults' \in Nat
      BY DEF ScanSucceeds, MarkComplete, RefreshRoots, TypeOK
    <2> QED
      BY <2>1, <2>2, <2>3, <2>4, <2>5 DEF TypeOK
  <1>2. RootsInv'
    BY DEF ScanSucceeds, MarkComplete, RefreshRoots, RootsInv
  <1>3. NoLostHint'
    BY WatchConstants DEF ScanSucceeds, MarkComplete, RefreshRoots, NoLostHint, Hinted,
       ScanInv, Owed, Coming, RootsInv, TypeOK, Event
  <1>4. ScanInv'
    BY DEF ScanSucceeds, MarkComplete, RefreshRoots, ScanInv, Owed, Coming
  <1> QED
    BY <1>1, <1>2, <1>3, <1>4

\* A refresh that failed keeps every hint.
LEMMA ScanFailsKeeps ==
    ASSUME WatchInv, ScanFails
    PROVE  WatchInv'
  <1> USE DEF WatchInv, files, os, channel, roots, hints, timers, refresh
  <1>1. TypeOK'
    <2>1. /\ stale' \in SUBSET Paths /\ present' \in SUBSET Roots
          /\ configured' \in SUBSET Roots /\ listening' \in SUBSET Roots
          /\ flight' \in SUBSET Paths /\ missed' \in SUBSET Paths
          /\ watched' \in SUBSET Roots /\ pending' \in SUBSET Roots
      BY DEF ScanFails, TypeOK
    <2>2. dirty' \in SUBSET Paths /\ todo' \in SUBSET Paths /\ fresh' \in SUBSET Paths
      BY WatchConstants DEF ScanFails, TypeOK
    <2>3. queue' \in Seq(Event) /\ left' \in 0..QueueCap
      BY WatchConstants DEF ScanFails, TypeOK
    <2>4. /\ queue_overflow' \in BOOLEAN /\ quiet' \in BOOLEAN /\ resync_needed' \in BOOLEAN
          /\ spaced' \in BOOLEAN /\ due' \in BOOLEAN /\ full' \in BOOLEAN
      BY DEF ScanFails, TypeOK
    <2>5. /\ batch' \in {"none", "open", "aged"} /\ pc' \in {"idle", "drain", "scan"}
          /\ cause' \in {"none", "start", "resync", "dirty", "safe"}
          /\ changes' \in Nat /\ faults' \in Nat
      BY DEF ScanFails, TypeOK
    <2> QED
      BY <2>1, <2>2, <2>3, <2>4, <2>5 DEF TypeOK
  <1>2. RootsInv'
    BY DEF ScanFails, RootsInv
  <1>3. NoLostHint'
    BY DEF ScanFails, NoLostHint, Hinted
  <1>4. ScanInv'
    BY DEF ScanFails, ScanInv, Owed, Coming
  <1> QED
    BY <1>1, <1>2, <1>3, <1>4

\* What the sweep finds becomes dirty, or asks for a resync.
LEMMA HotSweepKeeps ==
    ASSUME WatchInv, HotSweep
    PROVE  WatchInv'
  <1> USE DEF WatchInv, files, os, channel, roots, hints, timers, refresh
  <1>1. TypeOK'
    BY DEF HotSweep, NoteDirty, Fits, TypeOK
  <1>2. RootsInv'
    BY DEF HotSweep, NoteDirty, Fits, RootsInv
  <1>3. NoLostHint'
    BY DEF HotSweep, NoteDirty, Fits, NoLostHint, Hinted
  <1>4. ScanInv'
    BY DEF HotSweep, NoteDirty, Fits, ScanInv, Owed, Coming
  <1> QED
    BY <1>1, <1>2, <1>3, <1>4

\* A change below a root that is listened to raises an event.
LEMMA ChangeKeeps ==
    ASSUME NEW q \in Paths, WatchInv, Change(q)
    PROVE  WatchInv'
  <1> USE DEF WatchInv, files, os, channel, roots, hints, timers, refresh
  <1>1. TypeOK'
    BY DEF Change, Raise, Below, TypeOK
  <1>2. RootsInv'
    BY DEF Change, Raise, Below, RootsInv
  <1>3. NoLostHint'
    BY DEF Change, Raise, Below, NoLostHint, Hinted
  <1>4. ScanInv'
    BY DEF Change, Raise, Below, ScanInv, Owed, Coming
  <1> QED
    BY <1>1, <1>2, <1>3, <1>4

\* An event more takes no hint away.
LEMMA TouchKeeps ==
    ASSUME NEW q \in Paths, WatchInv, Touch(q)
    PROVE  WatchInv'
  <1> USE DEF WatchInv, files, os, channel, roots, hints, timers, refresh
  <1>1. TypeOK'
    BY DEF Touch, Raise, Below, TypeOK
  <1>2. RootsInv'
    BY DEF Touch, Raise, Below, RootsInv
  <1>3. NoLostHint'
    BY DEF Touch, Raise, Below, NoLostHint, Hinted
  <1>4. ScanInv'
    BY DEF Touch, Raise, Below, ScanInv, Owed, Coming
  <1> QED
    BY <1>1, <1>2, <1>3, <1>4

\* An event that is lost for a stale path counts as missed.
LEMMA LoseEventKeeps ==
    ASSUME NEW q \in Paths, WatchInv, LoseEvent(q)
    PROVE  WatchInv'
  <1> USE DEF WatchInv, files, os, channel, roots, hints, timers, refresh
  <1>1. TypeOK'
    BY DEF LoseEvent, TypeOK
  <1>2. RootsInv'
    BY DEF LoseEvent, RootsInv
  <1>3. NoLostHint'
    BY DEF LoseEvent, NoLostHint, Hinted
  <1>4. ScanInv'
    BY DEF LoseEvent, ScanInv, Owed, Coming
  <1> QED
    BY <1>1, <1>2, <1>3, <1>4

\* A root that vanishes is no longer listened to.
LEMMA RootVanishesKeeps ==
    ASSUME NEW r \in Roots, WatchInv, RootVanishes(r)
    PROVE  WatchInv'
  <1> USE DEF WatchInv, files, os, channel, roots, hints, timers, refresh
  <1>1. TypeOK'
    BY DEF RootVanishes, Raise, Below, TypeOK
  <1>2. RootsInv'
    BY DEF RootVanishes, Raise, Below, RootsInv
  <1>3. NoLostHint'
    BY DEF RootVanishes, Raise, Below, NoLostHint, Hinted
  <1>4. ScanInv'
    BY DEF RootVanishes, Raise, Below, ScanInv, Owed, Coming
  <1> QED
    BY <1>1, <1>2, <1>3, <1>4

\* A root that appears is not listened to yet.
LEMMA RootAppearsKeeps ==
    ASSUME NEW r \in Roots, WatchInv, RootAppears(r)
    PROVE  WatchInv'
  <1> USE DEF WatchInv, files, os, channel, roots, hints, timers, refresh
  <1>1. TypeOK'
    BY DEF RootAppears, Below, TypeOK
  <1>2. RootsInv'
    BY DEF RootAppears, Below, RootsInv
  <1>3. NoLostHint'
    BY WatchConstants DEF RootAppears, Below, NoLostHint, Hinted, ScanInv, Owed, Coming,
       RootsInv, TypeOK, Event
  <1>4. ScanInv'
    BY WatchConstants DEF RootAppears, Below, ScanInv, Owed, Coming, NoLostHint, Hinted,
       RootsInv, TypeOK, Event
  <1> QED
    BY <1>1, <1>2, <1>3, <1>4

\* A root that is configured is not listened to yet.
LEMMA ConfigureKeeps ==
    ASSUME NEW r \in Roots, WatchInv, Configure(r)
    PROVE  WatchInv'
  <1> USE DEF WatchInv, files, os, channel, roots, hints, timers, refresh
  <1>1. TypeOK'
    BY DEF Configure, TypeOK
  <1>2. RootsInv'
    BY DEF Configure, RootsInv
  <1>3. NoLostHint'
    BY DEF Configure, NoLostHint, Hinted
  <1>4. ScanInv'
    BY DEF Configure, ScanInv, Owed, Coming
  <1> QED
    BY <1>1, <1>2, <1>3, <1>4

\* A delivered event is in the queue or left the overflow bit.
LEMMA DeliverKeeps ==
    ASSUME WatchInv, Deliver
    PROVE  WatchInv'
  <1> USE DEF WatchInv, files, os, channel, roots, hints, timers, refresh
  <1>1. TypeOK'
    <2>1. PICK P \in SUBSET flight : flight' = flight \ P /\ Enqueue([paths |-> P, rescan |-> FALSE])
      BY DEF Deliver
    <2>2. [paths |-> P, rescan |-> FALSE] \in Event
      BY DEF TypeOK, Event
    <2>3. queue' \in Seq(Event) /\ queue_overflow' \in BOOLEAN
      BY <2>1, <2>2, Enqueued
    <2> QED
      BY <2>1, <2>3 DEF Deliver, TypeOK
  <1>2. RootsInv'
    BY DEF Deliver, Enqueue, RootsInv
  <1>3. NoLostHint'
    <2>1. PICK P \in SUBSET flight : flight' = flight \ P /\ Enqueue([paths |-> P, rescan |-> FALSE])
      BY DEF Deliver
    <2>2. [paths |-> P, rescan |-> FALSE] \in Event
      BY DEF TypeOK, Event
    <2>3. \A q \in Paths : Coming(q) => Coming(q)'
      BY <2>1, <2>2, Delivered
    <2> QED
      BY <2>3 DEF Deliver, NoLostHint, Hinted, Coming
  <1>4. ScanInv'
    <2>1. PICK P \in SUBSET flight : flight' = flight \ P /\ Enqueue([paths |-> P, rescan |-> FALSE])
      BY DEF Deliver
    <2>2. [paths |-> P, rescan |-> FALSE] \in Event
      BY DEF TypeOK, Event
    <2>3. \A q \in Paths : Coming(q) => Coming(q)'
      BY <2>1, <2>2, Delivered
    <2> QED
      BY <2>3 DEF Deliver, ScanInv, Owed
  <1> QED
    BY <1>1, <1>2, <1>3, <1>4

\* A request for a rescan stands for every path.
LEMMA DeliverRescanKeeps ==
    ASSUME WatchInv, DeliverRescan
    PROVE  WatchInv'
  <1> USE DEF WatchInv, files, os, channel, roots, hints, timers, refresh
  <1>1. TypeOK'
    <2>1. PICK P \in SUBSET flight : flight' = flight \ P /\ Enqueue([paths |-> {}, rescan |-> TRUE])
      BY DEF DeliverRescan
    <2>2. [paths |-> {}, rescan |-> TRUE] \in Event
      BY DEF TypeOK, Event
    <2>3. queue' \in Seq(Event) /\ queue_overflow' \in BOOLEAN
      BY <2>1, <2>2, Enqueued
    <2> QED
      BY <2>1, <2>3 DEF DeliverRescan, TypeOK
  <1>2. RootsInv'
    BY DEF DeliverRescan, Enqueue, RootsInv
  <1>3. NoLostHint'
    <2>1. PICK P \in SUBSET flight : flight' = flight \ P /\ Enqueue([paths |-> {}, rescan |-> TRUE])
      BY DEF DeliverRescan
    <2>2. [paths |-> {}, rescan |-> TRUE] \in Event
      BY DEF TypeOK, Event
    <2>3. \A q \in Paths : Coming(q) => Coming(q)'
      BY <2>1, <2>2, Delivered
    <2> QED
      BY <2>3 DEF DeliverRescan, NoLostHint, Hinted, Coming
  <1>4. ScanInv'
    <2>1. PICK P \in SUBSET flight : flight' = flight \ P /\ Enqueue([paths |-> {}, rescan |-> TRUE])
      BY DEF DeliverRescan
    <2>2. [paths |-> {}, rescan |-> TRUE] \in Event
      BY DEF TypeOK, Event
    <2>3. \A q \in Paths : Coming(q) => Coming(q)'
      BY <2>1, <2>2, Delivered
    <2> QED
      BY <2>3 DEF DeliverRescan, ScanInv, Owed
  <1> QED
    BY <1>1, <1>2, <1>3, <1>4

\* A new daemon reads everything.
LEMMA RestartKeeps ==
    ASSUME WatchInv, Restart
    PROVE  WatchInv'
  <1> USE DEF WatchInv, files, os, channel, roots, hints, timers, refresh
  <1>1. TypeOK'
    <2>1. /\ stale' \in SUBSET Paths /\ present' \in SUBSET Roots
          /\ configured' \in SUBSET Roots /\ listening' \in SUBSET Roots
          /\ flight' \in SUBSET Paths /\ missed' \in SUBSET Paths
          /\ watched' \in SUBSET Roots /\ pending' \in SUBSET Roots
      BY DEF Restart, StartService, Below, TypeOK
    <2>2. dirty' \in SUBSET Paths /\ todo' \in SUBSET Paths /\ fresh' \in SUBSET Paths
      BY WatchConstants DEF Restart, StartService, Below, TypeOK
    <2>3. queue' \in Seq(Event) /\ left' \in 0..QueueCap
      BY WatchConstants DEF Restart, StartService, Below, TypeOK
    <2>4. /\ queue_overflow' \in BOOLEAN /\ quiet' \in BOOLEAN /\ resync_needed' \in BOOLEAN
          /\ spaced' \in BOOLEAN /\ due' \in BOOLEAN /\ full' \in BOOLEAN
      BY DEF Restart, StartService, Below, TypeOK
    <2>5. /\ batch' \in {"none", "open", "aged"} /\ pc' \in {"idle", "drain", "scan"}
          /\ cause' \in {"none", "start", "resync", "dirty", "safe"}
          /\ changes' \in Nat /\ faults' \in Nat
      BY DEF Restart, StartService, Below, TypeOK
    <2> QED
      BY <2>1, <2>2, <2>3, <2>4, <2>5 DEF TypeOK
  <1>2. RootsInv'
    BY DEF Restart, StartService, Below, RootsInv
  <1>3. NoLostHint'
    BY DEF Restart, StartService, Below, NoLostHint, Hinted
  <1>4. ScanInv'
    BY DEF Restart, StartService, Below, ScanInv, Owed, Coming
  <1> QED
    BY <1>1, <1>2, <1>3, <1>4

\* Time takes no hint away.
LEMMA SpacingPassesKeeps ==
    ASSUME WatchInv, SpacingPasses
    PROVE  WatchInv'
  <1> USE DEF WatchInv, files, os, channel, roots, hints, timers, refresh
  <1>1. TypeOK'
    BY DEF SpacingPasses, TypeOK
  <1>2. RootsInv'
    BY DEF SpacingPasses, RootsInv
  <1>3. NoLostHint'
    BY DEF SpacingPasses, NoLostHint, Hinted
  <1>4. ScanInv'
    BY DEF SpacingPasses, ScanInv, Owed, Coming
  <1> QED
    BY <1>1, <1>2, <1>3, <1>4

\* Time takes no hint away.
LEMMA ResyncFallsDueKeeps ==
    ASSUME WatchInv, ResyncFallsDue
    PROVE  WatchInv'
  <1> USE DEF WatchInv, files, os, channel, roots, hints, timers, refresh
  <1>1. TypeOK'
    BY DEF ResyncFallsDue, TypeOK
  <1>2. RootsInv'
    BY DEF ResyncFallsDue, RootsInv
  <1>3. NoLostHint'
    BY DEF ResyncFallsDue, NoLostHint, Hinted
  <1>4. ScanInv'
    BY DEF ResyncFallsDue, ScanInv, Owed, Coming
  <1> QED
    BY <1>1, <1>2, <1>3, <1>4

\* Time takes no hint away.
LEMMA BatchAgesKeeps ==
    ASSUME WatchInv, BatchAges
    PROVE  WatchInv'
  <1> USE DEF WatchInv, files, os, channel, roots, hints, timers, refresh
  <1>1. TypeOK'
    BY DEF BatchAges, TypeOK
  <1>2. RootsInv'
    BY DEF BatchAges, RootsInv
  <1>3. NoLostHint'
    BY DEF BatchAges, NoLostHint, Hinted
  <1>4. ScanInv'
    BY DEF BatchAges, ScanInv, Owed, Coming
  <1> QED
    BY <1>1, <1>2, <1>3, <1>4

\* Time takes no hint away.
LEMMA BatchSettlesKeeps ==
    ASSUME WatchInv, BatchSettles
    PROVE  WatchInv'
  <1> USE DEF WatchInv, files, os, channel, roots, hints, timers, refresh
  <1>1. TypeOK'
    BY DEF BatchSettles, TypeOK
  <1>2. RootsInv'
    BY DEF BatchSettles, RootsInv
  <1>3. NoLostHint'
    BY DEF BatchSettles, NoLostHint, Hinted
  <1>4. ScanInv'
    BY DEF BatchSettles, ScanInv, Owed, Coming
  <1> QED
    BY <1>1, <1>2, <1>3, <1>4

\* The daemon starts with a full scan of what is configured.
LEMMA WatchInit == Init => WatchInv
  <1> SUFFICES ASSUME Init PROVE WatchInv
    OBVIOUS
  <1> USE DEF files, os, channel, roots, hints, timers, refresh
  <1>1. TypeOK
    <2>1. queue \in Seq(Event) /\ left \in 0..QueueCap /\ resync_needed \in BOOLEAN
      BY WatchConstants DEF Init
    <2>2. /\ listening \in SUBSET Roots /\ configured \in SUBSET Roots
          /\ watched \in SUBSET Roots /\ pending \in SUBSET Roots
      BY WatchConstants DEF Init
    <2>3. /\ stale \in SUBSET Paths /\ flight \in SUBSET Paths /\ missed \in SUBSET Paths
          /\ dirty \in SUBSET Paths /\ todo \in SUBSET Paths /\ fresh \in SUBSET Paths
      BY DEF Init, Below
    <2> QED
      BY <2>1, <2>2, <2>3 DEF Init, TypeOK
  <1>2. RootsInv
    BY DEF Init, RootsInv
  <1>3. NoLostHint
    BY DEF Init, NoLostHint, Hinted
  <1>4. ScanInv
    BY DEF Init, ScanInv, Owed, Below
  <1> QED
    BY <1>1, <1>2, <1>3, <1>4 DEF WatchInv

\* Every step of the loop, the files, the system and the clock keeps the invariant.
LEMMA WatchNext == WatchInv /\ [Next]_vars => WatchInv'
  <1> SUFFICES ASSUME WatchInv, [Next]_vars PROVE WatchInv'
    OBVIOUS
  <1>1. ASSUME Loop PROVE WatchInv'
    BY <1>1, PollKeeps, ReceiveKeeps, DecideNothingKeeps, DecideResyncKeeps, CheckSkipsKeeps,
       CheckFindsKeeps, CheckFailsKeeps, ScanReadsKeeps, ScanSucceedsKeeps, ScanFailsKeeps
       DEF Loop
  <1>2. ASSUME System PROVE WatchInv'
    BY <1>2, ChangeKeeps, TouchKeeps, LoseEventKeeps, RootVanishesKeeps, RootAppearsKeeps,
       ConfigureKeeps, DeliverKeeps, DeliverRescanKeeps, RestartKeeps DEF System
  <1>3. ASSUME Time PROVE WatchInv'
    BY <1>3, SpacingPassesKeeps, ResyncFallsDueKeeps, BatchAgesKeeps, BatchSettlesKeeps DEF Time
  <1>4. ASSUME UNCHANGED vars PROVE WatchInv'
    BY <1>4 DEF vars, files, os, channel, roots, hints, timers, refresh, WatchInv, TypeOK,
       RootsInv, NoLostHint, Hinted, ScanInv, Owed, Coming
  <1> QED
    BY <1>1, <1>2, <1>3, <1>4, HotSweepKeeps DEF Next

\* The loop's invariant holds in every state.
LEMMA WatchAlways == Spec => []WatchInv
  BY WatchInit, WatchNext, PTL DEF Spec

\* What run_event_loop and WatchService keep is well typed; in particular a drain is never
\* to receive more than the channel holds.
THEOREM WatchTyped == Spec => []TypeOK
  BY WatchAlways, PTL DEF WatchInv

\* No change below a root that is listened to is forgotten by the loop: whatever overflows
\* in enqueue_event or note_dirty_at, fails, or is cleared by mark_complete while files
\* change under a refresh, something is left that leads back to the path.
THEOREM HintsAreNeverLost == Spec => []NoLostHint
  BY WatchAlways, PTL DEF WatchInv

==============================================================================
