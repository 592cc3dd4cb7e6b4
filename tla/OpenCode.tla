------------------------------- MODULE OpenCode -------------------------------
(***************************************************************************)
(* Which source a session of OpenCode is indexed from.  The client keeps   *)
(* its sessions in databases, several of which may hold the same session,  *)
(* and an older one kept them in JSON files.  A refresh plans each         *)
(* database from a short snapshot, reads the sessions that are new to it   *)
(* or changed over a second connection, and then gives every session one   *)
(* owner: a database that could not be read keeps what it owned, else the  *)
(* first readable one by name, else the JSON files.  What the losing       *)
(* sources have in the index is deleted in the publication that adds the   *)
(* owner's records.  Databases change, are locked, disappear and come back *)
(* between any two of these steps.                                         *)
(*                                                                         *)
(* A session's content is the number of the change that made it, 0 when it *)
(* is not there; the event log and the per-session cursors both say which  *)
(* sessions differ from the planning snapshot of the last refresh.  The    *)
(* databases and the JSON files share one data root, and the JSON files do *)
(* not change any more.                                                    *)
(*                                                                         *)
(* Sources: src/ingest/discovery.rs (discover_opencode), ingest/plan.rs,   *)
(* ingest/execution.rs, ingest/publication.rs, sources/opencode.rs.        *)
(***************************************************************************)
EXTENDS Naturals

CONSTANTS
    LastDb,      \* databases are numbered in the order of their names
    V2,          \* those with the event-sourced schema
    NoV1,        \* those of them that lack the older tables
    Chats,       \* session ids
    EarlyLoss,   \* may a database go before the first refresh that saw it ended?
    MaxMoves,    \* bound: changes of databases
    MaxKills     \* bound: killed and failed refreshes

Dbs == 1..LastDb
Json == 0                \* the JSON files, as a source
Homes == {Json} \cup Dbs
Nothing == [s \in Chats |-> 0]
NoDb == [known |-> FALSE, owned |-> {}, planned |-> Nothing]   \* no OpencodeDatabaseState
Clean == [paths |-> {}, scopes |-> {}]   \* no PendingIngest

VARIABLES
    chats,      \* the contents of each session in each database
    json,       \* the sessions that have JSON files
    gone,       \* databases whose file is not there
    shut,       \* databases that cannot be read
    moves,
    indexed,    \* the contents the index has of each session from each source
    databases,  \* the committed opencode_databases
    json_rows,  \* the sessions whose JSON files have a committed row
    intent,     \* PendingIngest: databases and JSON sessions to delete, scopes
    at,         \* where the refresh is
    whole,      \* full_scan
    databases_now, rows_now,    \* CheckpointSession
    recovered,  \* pending_recovery
    inventory,  \* databases discovered, or selected by a hint
    outcome,    \* OpencodeDatabaseOutcome of each
    scan,       \* the planning snapshot of each
    spool,      \* the sessions read from each, with their contents
    calm,       \* history: a full refresh, nothing changed or failed since it began
    kills

client == <<chats, json, gone, shut, moves>>
stored == <<indexed, databases, json_rows, intent>>
refresh == <<whole, databases_now, rows_now, recovered>>
found == <<inventory, outcome, scan, spool>>
opencode_vars == <<client, stored, at, refresh, found, calm, kills>>

NoDbs == [d \in Dbs |-> NoDb]
NoOutcome == [d \in Dbs |-> "none"]
NoScan == [d \in Dbs |-> Nothing]

Init ==
    /\ chats \in [Dbs -> [Chats -> {0, 1}]]
    /\ json \in SUBSET Chats /\ gone \in SUBSET Dbs /\ shut = {} /\ moves = 1
    /\ indexed = [h \in Homes |-> [s \in Chats |-> {}]]
    /\ databases = NoDbs /\ json_rows = {} /\ intent = Clean
    /\ at = "idle" /\ whole = FALSE
    /\ databases_now = NoDbs /\ rows_now = {} /\ recovered = Clean
    /\ inventory = {} /\ outcome = NoOutcome /\ scan = NoScan /\ spool = NoScan
    /\ calm = FALSE /\ kills = 0

-----------------------------------------------------------------------------
(* What the client and its user do to the databases.                       *)

Moves ==
    /\ moves < MaxMoves /\ moves' = moves + 1 /\ calm' = FALSE
    /\ UNCHANGED <<json, stored, at, refresh, found, kills>>

WriteChat(d, s) ==
    /\ d \notin gone /\ Moves
    /\ chats' = [chats EXCEPT ![d][s] = moves']
    /\ UNCHANGED <<gone, shut>>

DeleteChat(d, s) ==
    /\ d \notin gone /\ chats[d][s] # 0 /\ Moves
    /\ chats' = [chats EXCEPT ![d][s] = 0]
    /\ UNCHANGED <<gone, shut>>

(* A database is locked by its client, or in the middle of a migration.    *)
ShutDatabase(d) ==
    /\ d \notin gone /\ Moves
    /\ shut' = IF d \in shut THEN shut \ {d} ELSE shut \cup {d}
    /\ UNCHANGED <<chats, gone>>

(* A database is moved away or back.                                       *)
MoveDatabase(d) ==
    /\ Moves
    /\ \/ EarlyLoss \/ d \in gone \/ databases[d].known
       \/ at = "idle" /\ \A s \in Chats : <<d, s>> \notin intent.scopes
    /\ gone' = IF d \in gone THEN gone \ {d} ELSE gone \cup {d}
    /\ UNCHANGED <<chats, shut>>

-----------------------------------------------------------------------------
(* prepare_pending_ingest_recovery and the start of a full refresh: the    *)
(* intent's paths lose their state, and the data root is listed.           *)
Recover ==
    /\ databases_now' = [d \in Dbs |-> IF d \in intent.paths THEN NoDb ELSE databases[d]]
    /\ rows_now' = json_rows \ intent.paths
    /\ recovered' = intent

Begin(all, chosen) ==
    /\ whole' = all /\ inventory' = chosen /\ at' = "plan"
    /\ outcome' = NoOutcome /\ scan' = NoScan /\ spool' = NoScan
    /\ UNCHANGED <<client, stored, kills>>

RefreshAll ==
    /\ at = "idle" /\ Recover /\ Begin(TRUE, Dbs \ gone) /\ calm' = TRUE

(* A refresh for event hints, which is full while an intent is pending.    *)
RefreshSome(chosen) ==
    /\ at = "idle" /\ intent = Clean /\ chosen # {}
    /\ Recover /\ Begin(FALSE, chosen) /\ calm' = FALSE

(* discover_opencode gives up a narrowed refresh for a full one.           *)
Widen ==
    /\ Begin(TRUE, Dbs \ gone) /\ calm' = TRUE
    /\ UNCHANGED <<databases_now, rows_now, recovered>>

(* The end of a refresh, with its session and what it read.                *)
Rest ==
    /\ at' = "idle" /\ whole' = FALSE
    /\ databases_now' = NoDbs /\ rows_now' = {} /\ recovered' = Clean
    /\ inventory' = {} /\ outcome' = NoOutcome /\ scan' = NoScan /\ spool' = NoScan

Fail == Rest /\ calm' = FALSE /\ UNCHANGED <<client, stored, kills>>

InChats(d) == {s \in Chats : scan[d][s] # 0}

(* scan_database: the sessions that are new to the database's state or     *)
(* differ from what it planned from last.                                  *)
Dirty(d) ==
    {s \in InChats(d) : s \notin databases_now[d].owned \/ databases_now[d].planned[s] # scan[d][s]}

Plan(d) ==
    /\ at = "plan" /\ d \in inventory /\ outcome[d] = "none"
    /\ IF d \in gone \cup shut
       THEN IF whole
            THEN /\ outcome' = [outcome EXCEPT ![d] = "failed"] /\ calm' = FALSE
                 /\ UNCHANGED <<client, stored, at, refresh, inventory, scan, spool, kills>>
            ELSE IF d \in gone THEN Widen ELSE Fail
       ELSE IF ~whole /\ (~databases_now[d].known \/ {s \in Chats : chats[d][s] # 0} # databases_now[d].owned)
            THEN Widen
            ELSE /\ outcome' = [outcome EXCEPT ![d] = "planned"]
                 /\ scan' = [scan EXCEPT ![d] = chats[d]]
                 /\ UNCHANGED <<client, stored, at, refresh, inventory, spool, calm, kills>>

Planned ==
    /\ at = "plan" /\ \A d \in inventory : outcome[d] # "none"
    /\ at' = "hydrate"
    /\ UNCHANGED <<client, stored, refresh, found, calm, kills>>

(* prehydrate_opencode_database reads, over a connection of its own, the   *)
(* dirty sessions and those an interrupted refresh was replacing.  One     *)
(* that the snapshot does not have is looked up in the older tables, and   *)
(* fails the database if there are none.                                   *)
Unreadable(d) ==
    \/ d \in gone \cup shut
    \/ d \in NoV1 /\ \E s \in Chats \ InChats(d) : <<d, s>> \in recovered.scopes

Hydrate(d) ==
    /\ at = "hydrate" /\ outcome[d] = "planned"
    /\ IF Unreadable(d)
       THEN IF whole
            THEN /\ outcome' = [outcome EXCEPT ![d] = "failed"] /\ calm' = FALSE
                 /\ UNCHANGED <<client, stored, at, refresh, inventory, scan, spool, kills>>
            ELSE Fail
       ELSE /\ outcome' = [outcome EXCEPT ![d] = "ready"]
            /\ spool' = [spool EXCEPT ![d] =
                   [s \in Chats |-> IF s \in Dirty(d) \/ <<d, s>> \in recovered.scopes
                                    THEN chats[d][s] ELSE 0]]
            /\ UNCHANGED <<client, stored, at, refresh, inventory, scan, calm, kills>>

-----------------------------------------------------------------------------
Ready == {d \in Dbs : outcome[d] = "ready"}

(* classify_opencode_database_outcome: a database that was not tried is    *)
(* absent if everything was listed and it was not there.                   *)
ConfirmedAbsent(d) == outcome[d] = "none" /\ whole /\ d \notin inventory
Failed(d) == outcome[d] # "ready" /\ ~ConfirmedAbsent(d)

(* claim_opencode_session_owner: databases that failed keep what they      *)
(* owned; then the readable ones claim what they have, in order.           *)
Claims(d, s) == IF Failed(d) THEN s \in databases_now[d].owned ELSE d \in Ready /\ s \in InChats(d)

(* Mutant: what a failed database owns is free.                            *)
ClaimantsReadable(s) == {d \in Ready : Claims(d, s)}

Claimants(s) ==
    LET failed == {d \in Dbs : Failed(d) /\ Claims(d, s)}
    IN  IF failed # {} THEN failed ELSE {d \in Dbs : Claims(d, s)}

Owns(d, s) == d \in Claimants(s) /\ \A e \in Claimants(s) : d <= e
Owned(d) == {s \in Chats : Owns(d, s)}

ScopeTargets ==
    {t \in Ready \X Chats :
        \/ t[2] \in databases_now[t[1]].owned /\ ~Owns(t[1], t[2])
        \/ t[2] \in Dirty(t[1]) /\ Owns(t[1], t[2])
        \/ t \in recovered.scopes}

Deferred == {t \in recovered.scopes : Failed(t[1])}

LostDatabases == {d \in Dbs : databases_now[d].known /\ ConfirmedAbsent(d)}

(* database_owns_legacy: a readable event-sourced database owns the whole  *)
(* root, any other only its sessions.                                      *)
DatabaseOwnsLegacy(s) == Ready \cap V2 # {} \/ Claimants(s) # {}

LegacyDeletes ==
    {s \in json : whole /\ DatabaseOwnsLegacy(s) /\ (s \in rows_now \/ indexed[Json][s] # {})}
LegacyTasks == {s \in json : whole /\ ~DatabaseOwnsLegacy(s) /\ s \notin rows_now}

DeletePaths == recovered.paths \cup LostDatabases \cup LegacyDeletes

NextDatabases ==
    [d \in Dbs |->
        CASE d \in LostDatabases -> NoDb
          [] d \in Ready -> [known |-> TRUE, owned |-> Owned(d), planned |-> scan[d]]
          [] OTHER -> databases_now[d]]

Discovered == at = "hydrate" /\ \A d \in inventory : outcome[d] \in {"ready", "failed"}

(* execute_refresh: the intent is durable before the index changes.        *)
CommitScopes ==
    /\ Discovered
    /\ ScopeTargets # {} \/ DeletePaths # {} \/ LegacyTasks # {} \/ \E d \in Dbs : spool[d] # Nothing
    /\ intent' = [paths |-> DeletePaths \cup LegacyTasks, scopes |-> ScopeTargets \cup Deferred]
    /\ at' = "publish"
    /\ UNCHANGED <<client, indexed, databases, json_rows, refresh, found, calm, kills>>

SkipScopes ==
    /\ Discovered
    /\ ScopeTargets = {} /\ DeletePaths = {} /\ LegacyTasks = {}
    /\ \A d \in Dbs : spool[d] = Nothing
    /\ at' = "commit"
    /\ UNCHANGED <<client, stored, refresh, found, calm, kills>>

(* writer_loop: scopes and paths are deleted and the owners' records added *)
(* in one generation (replay_opencode_spool).                              *)
Spooled(d, s) == IF d \in Ready /\ Owns(d, s) /\ spool[d][s] # 0 THEN {spool[d][s]} ELSE {}

PublishScopes ==
    /\ at = "publish"
    /\ indexed' = [h \in Homes |-> [s \in Chats |->
           IF h = Json
           THEN (IF s \in DeletePaths THEN {} ELSE indexed[Json][s])
                \cup (IF s \in LegacyTasks THEN {1} ELSE {})
           ELSE (IF h \in DeletePaths \/ <<h, s>> \in ScopeTargets THEN {} ELSE indexed[h][s])
                \cup Spooled(h, s)]]
    /\ at' = "commit"
    /\ UNCHANGED <<client, databases, json_rows, intent, refresh, found, calm, kills>>

CommitOwners ==
    /\ at = "commit"
    /\ databases' = NextDatabases
    /\ json_rows' = (rows_now \ LegacyDeletes) \cup LegacyTasks
    /\ intent' = [paths |-> {}, scopes |-> Deferred]
    /\ Rest /\ UNCHANGED <<client, indexed, calm, kills>>

(* The process is killed, or the refresh fails after its intent.           *)
KillRefresh ==
    /\ at # "idle" /\ kills < MaxKills
    /\ kills' = kills + 1 /\ calm' = FALSE
    /\ Rest /\ UNCHANGED <<client, stored>>

Next ==
    \/ \E d \in Dbs, s \in Chats : WriteChat(d, s) \/ DeleteChat(d, s)
    \/ \E d \in Dbs : ShutDatabase(d) \/ MoveDatabase(d)
    \/ RefreshAll \/ \E chosen \in SUBSET Dbs : RefreshSome(chosen)
    \/ \E d \in Dbs : Plan(d) \/ Hydrate(d)
    \/ Planned \/ CommitScopes \/ SkipScopes \/ PublishScopes \/ CommitOwners
    \/ KillRefresh

Spec == Init /\ [][Next]_opencode_vars

-----------------------------------------------------------------------------
(* Where a full refresh finds a session: in the first database that has    *)
(* it, or in its JSON files if no database has it and none could have had. *)
Expected(h, s) ==
    LET there == {d \in Dbs \ gone : chats[d][s] # 0}
        first == {d \in there : \A e \in there : d <= e}
    IN  IF h # Json
        THEN IF h \in first THEN {chats[h][s]} ELSE {}
        ELSE IF s \in json /\ there = {} /\ V2 \subseteq gone THEN {1} ELSE {}

(* Ownership moves between databases and JSON files, by failures, kills    *)
(* and hints in any order, but what is committed never has a session from  *)
(* two sources, nor two contents of it.  And whatever came before it, a    *)
(* full refresh that nothing disturbed leaves each session indexed as it   *)
(* is, from its owner alone.                                               *)
OneHome ==
    at = "idle" =>
        /\ intent = Clean =>
            \A s \in Chats, g, h \in Homes :
                \A x \in indexed[g][s], y \in indexed[h][s] : g = h /\ x = y
        /\ calm => \A h \in Homes, s \in Chats : indexed[h][s] = Expected(h, s)

=============================================================================
