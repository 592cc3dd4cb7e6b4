---------------------------- MODULE DaemonRuntime ----------------------------
(***************************************************************************)
(* How another process learns which daemon runs.  A daemon holds a lock    *)
(* file for its lifetime, writes an instance token into it and publishes   *)
(* its state beside it, first as starting and then as ready.  A reader     *)
(* probes the lock by taking it, compares token and state, and probes      *)
(* again.  Daemons may be killed, or replace their executable, which drops *)
(* the lock and leaves the files; an orderly exit removes the state first. *)
(*                                                                         *)
(* Source: src/daemon_runtime.rs.                                          *)
(***************************************************************************)
EXTENDS Naturals

CONSTANTS
    Daemons,      \* processes that start as daemon of one root
    Watchers,     \* processes that read the runtime state
    NoOwner,      \* nobody holds the lock
    MaxInstances  \* bound: daemons started

NoToken == 0
Instances == 1..MaxInstances
NoState == [instance |-> NoToken, ready |-> FALSE]
States == [instance : 0..MaxInstances, ready : BOOLEAN]

VARIABLES
    owner,      \* who holds daemon-runtime.lock
    token,      \* its contents
    state,      \* daemon-runtime.json, NoState for no file
    started,    \* instances so far
    announced,  \* the last instance that has written its token
    running,    \* what each daemon is doing
    instance,   \* the instance each daemon is
    reading,    \* what each reader is doing
    since,      \* the last announced instance when the reading began
    seen,       \* the token each reader saw
    info        \* the state each reader saw

runtime_vars == <<owner, token, state, started, announced, running, instance, reading, since,
                  seen, info>>
daemon_vars == <<running, instance, started>>
reader_vars == <<reading, since, seen, info>>

Init ==
    /\ owner = NoOwner /\ token = NoToken /\ state = NoState
    /\ started = 0 /\ announced = 0
    /\ running = [d \in Daemons |-> "out"] /\ instance = [d \in Daemons |-> 0]
    /\ reading = [r \in Watchers |-> "out"] /\ since = [r \in Watchers |-> 0]
    /\ seen = [r \in Watchers |-> 0] /\ info = [r \in Watchers |-> NoState]

TypeOK ==
    /\ owner \in Daemons \cup Watchers \cup {NoOwner}
    /\ token \in 0..MaxInstances /\ state \in States
    /\ started \in 0..MaxInstances /\ announced \in 0..started
    /\ running \in [Daemons -> {"out", "locked", "truncated", "announced", "starting",
                                "ready", "removed"}]
    /\ \A d \in Daemons : running[d] # "out" => owner = d
    /\ instance \in [Daemons -> 0..MaxInstances]
    /\ reading \in [Watchers -> {"out", "absent", "token", "state", "again", "probe",
                                 "still_absent", "answered"}]
    /\ since \in [Watchers -> 0..MaxInstances] /\ seen \in [Watchers -> 0..MaxInstances]
    /\ info \in [Watchers -> States]

-----------------------------------------------------------------------------
DaemonStep(d, from, to) == running[d] = from /\ running' = [running EXCEPT ![d] = to]

(* start: the lock first, then the token, truncated and written, then the  *)
(* state.                                                                  *)
TryLock(d) ==
    /\ owner = NoOwner /\ owner' = d
    /\ started < MaxInstances /\ started' = started + 1
    /\ DaemonStep(d, "out", "locked") /\ instance' = [instance EXCEPT ![d] = started + 1]
    /\ UNCHANGED <<token, state, announced, reader_vars>>

Truncate(d) ==
    /\ DaemonStep(d, "locked", "truncated") /\ token' = NoToken
    /\ UNCHANGED <<owner, state, started, announced, instance, reader_vars>>

WriteToken(d) ==
    /\ DaemonStep(d, "truncated", "announced")
    /\ token' = instance[d] /\ announced' = instance[d]
    /\ UNCHANGED <<owner, state, started, instance, reader_vars>>

Publish(d, from, to, ready) ==
    /\ DaemonStep(d, from, to)
    /\ state' = [instance |-> instance[d], ready |-> ready]
    /\ UNCHANGED <<owner, token, started, announced, instance, reader_vars>>

PublishStarting(d) == Publish(d, "announced", "starting", FALSE)
MarkReady(d) == Publish(d, "starting", "ready", TRUE)

(* drop: the state goes while the lock is still held, also when the first  *)
(* publish fails inside start.                                             *)
RemoveState(d) ==
    /\ running[d] \in {"announced", "starting", "ready"}
    /\ running' = [running EXCEPT ![d] = "removed"]
    /\ state' = NoState
    /\ UNCHANGED <<owner, token, started, announced, instance, reader_vars>>

(* The lock is released: after drop, or by a kill, an exec of the updated  *)
(* executable or an error anywhere in start.                               *)
Release(d) ==
    /\ running[d] # "out" /\ running' = [running EXCEPT ![d] = "out"]
    /\ owner' = NoOwner /\ instance' = [instance EXCEPT ![d] = 0]
    /\ UNCHANGED <<token, state, started, announced, reader_vars>>

-----------------------------------------------------------------------------
ReaderStep(r, from, to) ==
    /\ reading[r] = from /\ reading' = [reading EXCEPT ![r] = to]
    /\ UNCHANGED <<token, state, announced, daemon_vars>>

Forget(r) ==
    /\ since' = [since EXCEPT ![r] = 0] /\ seen' = [seen EXCEPT ![r] = 0]
    /\ info' = [info EXCEPT ![r] = NoState]

(* is_locked: a lock that can be taken was free; it is given back at once, *)
(* and read returns nothing.                                               *)
ProbeFree(r, from, to) ==
    /\ owner = NoOwner /\ owner' = r
    /\ ReaderStep(r, from, to)

GiveBack(r) ==
    /\ owner = r /\ owner' = NoOwner
    /\ ReaderStep(r, "absent", "out") \/ ReaderStep(r, "still_absent", "out")
    /\ Forget(r)

FirstProbeFree(r) == ProbeFree(r, "out", "absent") /\ UNCHANGED <<since, seen, info>>

FirstProbe(r) ==
    /\ owner # NoOwner /\ ReaderStep(r, "out", "token")
    /\ since' = [since EXCEPT ![r] = announced]
    /\ UNCHANGED <<owner, seen, info>>

ReadToken(r) ==
    /\ ReaderStep(r, "token", "state") /\ seen' = [seen EXCEPT ![r] = token]
    /\ UNCHANGED <<owner, since, info>>

ReadState(r) ==
    /\ state # NoState /\ ReaderStep(r, "state", "again")
    /\ info' = [info EXCEPT ![r] = state]
    /\ UNCHANGED <<owner, since, seen>>

(* A mutant of Matches: the state is not compared with the token.          *)
MatchesToken(r) == seen[r] # NoToken /\ token = seen[r]

(* The state is of the instance the token named, before and after.         *)
Matches(r) == seen[r] # NoToken /\ info[r].instance = seen[r] /\ token = seen[r]

ReadTokenAgain(r) ==
    /\ Matches(r) /\ ReaderStep(r, "again", "probe")
    /\ UNCHANGED <<owner, since, seen, info>>

SecondProbeFree(r) == ProbeFree(r, "probe", "still_absent") /\ Forget(r)

SecondProbe(r) ==
    /\ owner # NoOwner /\ ReaderStep(r, "probe", "answered")
    /\ UNCHANGED <<owner, since, seen, info>>

(* No state, or it does not match: nothing is returned.  An answer is      *)
(* used, and the next reading begins.                                      *)
Leave(r) ==
    /\ \/ reading[r] = "answered"
       \/ reading[r] = "state" /\ state = NoState
       \/ reading[r] = "again" /\ ~Matches(r)
    /\ ReaderStep(r, reading[r], "out") /\ Forget(r)
    /\ UNCHANGED owner

Next ==
    \/ \E d \in Daemons :
           \/ TryLock(d) \/ Truncate(d) \/ WriteToken(d) \/ PublishStarting(d) \/ MarkReady(d)
           \/ RemoveState(d) \/ Release(d)
    \/ \E r \in Watchers :
           \/ FirstProbeFree(r) \/ FirstProbe(r) \/ GiveBack(r) \/ ReadToken(r) \/ ReadState(r)
           \/ ReadTokenAgain(r) \/ SecondProbeFree(r) \/ SecondProbe(r) \/ Leave(r)

Spec == Init /\ [][Next]_runtime_vars

-----------------------------------------------------------------------------
(* Once a daemon has announced itself no reader takes an earlier one for   *)
(* it, whatever a killed daemon left behind: a reading that begins after   *)
(* the token was written answers with that instance or a later one.        *)
NoEarlierDaemon == \A r \in Watchers : reading[r] = "answered" => info[r].instance >= since[r]

=============================================================================
