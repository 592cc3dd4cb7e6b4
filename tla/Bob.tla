--------------------------------- MODULE Bob ---------------------------------
(***************************************************************************)
(* Bob keeps its tasks in SQLite databases; each task is indexed as a file *)
(* of its own, which any change replaces as a whole.  A refresh enumerates *)
(* the tasks of each database with a fingerprint and reads the changed     *)
(* ones later, one by one.  A database that cannot be read in between must *)
(* not turn a replacement, or the replay of an interrupted one, into a     *)
(* deletion.                                                               *)
(*                                                                         *)
(* A task's content is the number of the change that made it, 0 when the   *)
(* task is not there, and its fingerprint is that number: changes that     *)
(* leave the count, the largest row and the times of the messages as they  *)
(* were are not told apart by the code either.                             *)
(*                                                                         *)
(* Sources: src/ingest/discovery.rs (discover_bob, prepare_refresh),       *)
(* ingest/execution.rs, ingest/publication.rs, sources/bob.rs.             *)
(***************************************************************************)
EXTENDS Naturals

CONSTANTS
    Databases, Tasks,
    Of,            \* the database of a task
    MaxEdits,      \* bound: changes and losses of databases
    MaxDeaths      \* bound: killed refreshes

VARIABLES
    turns,         \* the content of each task
    health,        \* "ok", "locked", "deleted" or, with its directory, "unmounted"
    edits,
    records,       \* the contents indexed of each task
    task_rows,     \* the fingerprint in the committed row of each task
    bob_intent,    \* PendingIngest: tasks whose records are being replaced
    step,          \* where the refresh is
    session_rows,  \* CheckpointSession
    replays,       \* pending_recovery
    unvisited,     \* databases to look at
    verdict,       \* "readable", "absent" or "unreadable"
    seen,          \* the fingerprints enumerated
    unparsed,      \* tasks to parse
    parsed,        \* tasks with a FileUpdate
    taken,         \* the content read of each task
    vanished,      \* history: the tasks that were not there during the refresh
    deaths

client == <<turns, health, edits>>
stored == <<records, task_rows, bob_intent>>
session == <<session_rows, replays, unvisited, verdict, seen, unparsed, parsed, taken>>
bob_vars == <<client, stored, step, session, vanished, deaths>>

Zero == [t \in Tasks |-> 0]
NoVerdict == [b \in Databases |-> "none"]

Init ==
    /\ turns \in [Tasks -> {0, 1}] /\ health = [b \in Databases |-> "ok"] /\ edits = 1
    /\ records = [t \in Tasks |-> {}] /\ task_rows = Zero /\ bob_intent = {}
    /\ step = "idle" /\ session_rows = Zero /\ replays = {} /\ unvisited = {}
    /\ verdict = NoVerdict /\ seen = Zero /\ unparsed = {} /\ parsed = {} /\ taken = Zero
    /\ vanished = {} /\ deaths = 0

-----------------------------------------------------------------------------
(* Bob and its user.                                                       *)

Edit ==
    /\ edits < MaxEdits /\ edits' = edits + 1
    /\ UNCHANGED <<stored, step, session, deaths>>

WriteTask(t) ==
    /\ health[Of[t]] # "unmounted" /\ Edit
    /\ turns' = [turns EXCEPT ![t] = edits']
    /\ health' = IF health[Of[t]] = "deleted" THEN [health EXCEPT ![Of[t]] = "ok"] ELSE health
    /\ UNCHANGED vanished

DeleteTask(t) ==
    /\ health[Of[t]] # "unmounted" /\ turns[t] # 0 /\ Edit
    /\ turns' = [turns EXCEPT ![t] = 0] /\ vanished' = vanished \cup {t}
    /\ UNCHANGED health

DeleteDatabase(b) ==
    /\ health[b] \in {"ok", "locked"} /\ Edit
    /\ health' = [health EXCEPT ![b] = "deleted"]
    /\ turns' = [t \in Tasks |-> IF Of[t] = b THEN 0 ELSE turns[t]]
    /\ vanished' = vanished \cup {t \in Tasks : Of[t] = b}

(* Locked, in a migration, or on a volume that comes and goes.             *)
LoseDatabase(b) ==
    /\ health[b] = "ok" /\ Edit
    /\ \E to \in {"locked", "unmounted"} : health' = [health EXCEPT ![b] = to]
    /\ UNCHANGED <<turns, vanished>>

RestoreDatabase(b) ==
    /\ health[b] \in {"locked", "unmounted"}
    /\ health' = [health EXCEPT ![b] = "ok"]
    /\ UNCHANGED <<turns, edits, stored, step, session, vanished, deaths>>

-----------------------------------------------------------------------------
(* A refresh, full or for the databases of event hints; a pending intent   *)
(* makes it full (prepare_pending_ingest_recovery drops the rows).         *)
StartRefresh(chosen) ==
    /\ step = "idle" /\ chosen # {}
    /\ bob_intent # {} => chosen = Databases
    /\ step' = "discover" /\ unvisited' = chosen
    /\ session_rows' = [t \in Tasks |-> IF t \in bob_intent THEN 0 ELSE task_rows[t]]
    /\ replays' = bob_intent
    /\ vanished' = {t \in Tasks : turns[t] = 0}
    /\ UNCHANGED <<client, stored, verdict, seen, unparsed, parsed, taken, deaths>>

(* discover_bob, for one database.                                         *)
DiscoverBob(b) ==
    /\ step = "discover" /\ b \in unvisited
    /\ unvisited' = unvisited \ {b}
    /\ verdict' = [verdict EXCEPT ![b] =
           CASE health[b] = "ok" -> "readable"
             [] health[b] = "deleted" -> "absent"
             [] OTHER -> "unreadable"]
    /\ seen' = [t \in Tasks |-> IF Of[t] = b /\ health[b] = "ok" THEN turns[t] ELSE seen[t]]
    /\ UNCHANGED <<client, stored, step, session_rows, replays, unparsed, parsed, taken,
                   vanished, deaths>>

(* Mutant: a task that is being replayed passes for a new one.             *)
ReplacesKnown(t) == session_rows[t] # 0 /\ seen[t] # session_rows[t]

(* classify_file, and prepare_refresh for the tasks of a replay.           *)
Replaces(t) == t \in replays \/ (session_rows[t] # 0 /\ seen[t] # session_rows[t])

Changed == {t \in Tasks : seen[t] # 0 /\ (Replaces(t) \/ session_rows[t] = 0)}

MissingPaths ==
    {t \in Tasks : session_rows[t] # 0
        /\ (verdict[Of[t]] = "absent" \/ (verdict[Of[t]] = "readable" /\ seen[t] = 0))}

DeletePaths == replays \cup MissingPaths \cup {t \in Changed : Replaces(t)}

(* The end of a refresh, whatever its outcome.                             *)
Rest ==
    /\ step' = "idle" /\ session_rows' = Zero /\ replays' = {} /\ unvisited' = {}
    /\ verdict' = NoVerdict /\ seen' = Zero
    /\ unparsed' = {} /\ parsed' = {} /\ taken' = Zero

Blocked == \E t \in replays : verdict[Of[t]] = "unreadable"

AbortReplay ==
    /\ step = "discover" /\ unvisited = {} /\ Blocked
    /\ Rest /\ UNCHANGED <<client, stored, vanished, deaths>>

StartParse ==
    /\ step = "discover" /\ unvisited = {} /\ ~Blocked
    /\ step' = "parse" /\ unparsed' = Changed
    /\ UNCHANGED <<client, stored, session_rows, replays, unvisited, verdict, seen, parsed,
                   taken, vanished, deaths>>

(* parse_bob_task: a task that is no longer there has no records.          *)
ParseTask(t) ==
    /\ step = "parse" /\ t \in unparsed /\ health[Of[t]] = "ok"
    /\ unparsed' = unparsed \ {t} /\ parsed' = parsed \cup {t}
    /\ taken' = [taken EXCEPT ![t] = turns[t]]
    /\ UNCHANGED <<client, stored, step, session_rows, replays, unvisited, verdict, seen,
                   vanished, deaths>>

(* A new task waits for the next refresh.                                  *)
SkipTask(t) ==
    /\ step = "parse" /\ t \in unparsed /\ health[Of[t]] # "ok" /\ ~Replaces(t)
    /\ unparsed' = unparsed \ {t}
    /\ UNCHANGED <<client, stored, step, session_rows, replays, unvisited, verdict, seen,
                   parsed, taken, vanished, deaths>>

(* A replacement fails the refresh: the writer cancels, but the intent is  *)
(* committed, as after any parser error.                                   *)
FailTask(t) ==
    /\ step = "parse" /\ t \in unparsed /\ health[Of[t]] # "ok" /\ Replaces(t)
    /\ bob_intent' = DeletePaths \cup Changed
    /\ Rest /\ UNCHANGED <<client, records, task_rows, vanished, deaths>>

Publishes == DeletePaths # {} \/ taken # Zero

CommitTasks ==
    /\ step = "parse" /\ unparsed = {}
    /\ bob_intent' = IF Publishes THEN DeletePaths \cup Changed ELSE bob_intent
    /\ step' = IF Publishes THEN "publish" ELSE "commit"
    /\ UNCHANGED <<client, records, task_rows, session, vanished, deaths>>

PublishTasks ==
    /\ step = "publish" /\ step' = "commit"
    /\ records' = [t \in Tasks |-> (IF t \in DeletePaths THEN {} ELSE records[t])
                                   \cup ({taken[t]} \ {0})]
    /\ UNCHANGED <<client, task_rows, bob_intent, session, vanished, deaths>>

CommitRows ==
    /\ step = "commit"
    /\ task_rows' = [t \in Tasks |->
           CASE t \in parsed -> seen[t]
             [] t \in MissingPaths -> 0
             [] OTHER -> session_rows[t]]
    /\ bob_intent' = {}
    /\ Rest /\ UNCHANGED <<client, records, vanished, deaths>>

KillRefresh ==
    /\ step # "idle" /\ deaths < MaxDeaths /\ deaths' = deaths + 1
    /\ Rest /\ UNCHANGED <<client, stored, vanished>>

Next ==
    \/ \E t \in Tasks : WriteTask(t) \/ DeleteTask(t)
    \/ \E b \in Databases :
          DeleteDatabase(b) \/ LoseDatabase(b) \/ RestoreDatabase(b) \/ DiscoverBob(b)
    \/ \E chosen \in SUBSET Databases : StartRefresh(chosen)
    \/ AbortReplay \/ StartParse
    \/ \E t \in Tasks : ParseTask(t) \/ SkipTask(t) \/ FailTask(t)
    \/ CommitTasks \/ PublishTasks \/ CommitRows \/ KillRefresh

Spec == Init /\ [][Next]_bob_vars

-----------------------------------------------------------------------------
(* What the next refresh would take for unchanged is indexed as it is.     *)
Trusted ==
    \A t \in Tasks : task_rows[t] # 0 /\ task_rows[t] = turns[t] => records[t] = {turns[t]}

(* What a step may do to the records.                                      *)
Survives ==
    /\ \A t \in Tasks : records[t] # {} /\ records'[t] = {} => t \in vanished
    /\ step' = "idle" /\ bob_intent' = {} =>
          Trusted' /\ \A t \in Tasks : \A x, y \in records'[t] : x = y

(* The records of a task go only in a refresh during which the task was    *)
(* not there: no lock, migration, unmounted volume, kill or replay turns a *)
(* replacement into a deletion.  And when a refresh has ended with nothing *)
(* pending, what its rows call unchanged is indexed, and nothing twice.    *)
TasksSurvive == [][Survives]_bob_vars

=============================================================================
