----------------------------- MODULE MCDiscovery -----------------------------
(***************************************************************************)
(* TLC's entry to discovery, in three parts that share no state.  `which`  *)
(* is the one that moves; the others rest in an initial state.             *)
(*                                                                         *)
(* walk: a transcript two directories below the root, top > mid > low,     *)
(* where mid may be moved away and back, and two processes that take       *)
(* turns.  Three changes let a file be written before, during and after a  *)
(* refresh, or a directory go and come back with something new in it.      *)
(*                                                                         *)
(* opencode: one session, a database of each schema and JSON files.  Three *)
(* changes let a database be locked or lost and come back with a session   *)
(* written in between, around a refresh that is killed.                    *)
(*                                                                         *)
(* bob: two databases with a task each, so that a replay of one task meets *)
(* the database of the other unreadable.  Two changes let a database be    *)
(* lost around a replacement.                                              *)
(***************************************************************************)
EXTENDS Discovery, TLC

CONSTANTS
    transcript, top, mid, low,   \* the file and the directories of the walk
    Parts,         \* the parts a run explores
    LastDb, V2, NoV1, Chats, EarlyLoss, MaxMoves, MaxKills,
    t1, t2, b1, b2,
    Databases, Tasks, Of, MaxEdits, MaxDeaths

VARIABLES
    which,
    chats, json, gone, shut, moves, indexed, databases, json_rows, intent,
    at, whole, databases_now, rows_now, recovered, inventory, outcome, scan,
    spool, calm, kills,
    turns, health, edits, records, task_rows, bob_intent, step, session_rows,
    replays, unvisited, verdict, seen, unparsed, parsed, taken, vanished, deaths

C == INSTANCE OpenCode
B == INSTANCE Bob

opencode == <<chats, json, gone, shut, moves, indexed, databases, json_rows,
    intent, at, whole, databases_now, rows_now, recovered, inventory, outcome,
    scan, spool, calm, kills>>
bob == <<turns, health, edits, records, task_rows, bob_intent, step,
    session_rows, replays, unvisited, verdict, seen, unparsed, parsed, taken,
    vanished, deaths>>

MCHome == transcript :> low
MCParent == (mid :> top) @@ (low :> mid)
MCOf == (t1 :> b1) @@ (t2 :> b2)

Processes == Permutations(Procs)

(* Every task of Bob is in one database.                                   *)
ASSUME TasksHaveDatabases == Of \in [Tasks -> Databases]

(* Databases of OpenCode are numbered, and no session is a number.         *)
ASSUME DatabasesAreNumbers ==
    LastDb \in Nat /\ V2 \subseteq C!Dbs /\ Chats \cap C!Homes = {}

DiscoveryInit ==
    /\ which \in Parts /\ Init
    /\ C!Init /\ (which # "opencode" => /\ \A b \in C!Dbs, s \in Chats : chats[b][s] = 0
                                        /\ json = {} /\ gone = {})
    /\ B!Init /\ (which # "bob" => \A t \in Tasks : turns[t] = 0)

DiscoveryNext ==
    /\ UNCHANGED which
    /\ \/ which = "walk" /\ Next /\ UNCHANGED <<opencode, bob>>
       \/ which = "opencode" /\ C!Next /\ UNCHANGED <<vars, bob>>
       \/ which = "bob" /\ B!Next /\ UNCHANGED <<vars, opencode>>

DiscoverySpec == DiscoveryInit /\ [][DiscoveryNext]_<<which, vars, opencode, bob>>

-----------------------------------------------------------------------------
(* Ownership of an OpenCode session moves between databases and JSON       *)
(* files, by failures, kills and hints in any order, but what is committed *)
(* never has it from two sources, nor two contents of it; and a full       *)
(* refresh that nothing disturbed leaves it indexed as it is, from its     *)
(* owner alone.                                                            *)
OneHome == which = "opencode" => C!OneHome

(* The records of a Bob task go only in a refresh during which the task    *)
(* was not there: no lock, unmounted volume, kill or replay turns a        *)
(* replacement into a deletion.  And when a refresh has ended with nothing *)
(* pending, what its rows call unchanged is indexed, and nothing twice.    *)
TasksSurvive == B!TasksSurvive

=============================================================================
