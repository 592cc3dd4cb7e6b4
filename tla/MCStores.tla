------------------------------- MODULE MCStores -------------------------------
(***************************************************************************)
(* TLC's entry to the parts that share no state with the rest: the         *)
(* checkpoint's files, the usage cache, the memory documents, the OAuth    *)
(* server, the access token, the daemon's runtime files, the terminal      *)
(* interface and bounded reads.  One run explores each of them by itself:  *)
(* `which` picks the part that moves, the others rest in an initial state, *)
(* so the states add up and do not multiply.  Each property is the one of  *)
(* its module.                                                             *)
(*                                                                         *)
(* Checkpoint: two contents besides the empty one let a stale copy differ  *)
(* from the newest; three crashes allow an upgrade cut short twice and a   *)
(* reset cut short after it.  Memory: two writes let a file be half        *)
(* written and then finished or removed around a reading.  OAuth: three    *)
(* tokens make a line of rotations longer than the two a family may keep.  *)
(***************************************************************************)
EXTENDS Checkpoint, TLC

CONSTANTS
    Logs, Users, OneShot, Restores, MaxEdits, MaxRefreshes, MaxFailures,
    Workers, CodeTtl, AccessTtl, RefreshTtl, MaxGrants, MaxFamily,
    MaxPending, MaxAuthorizations, MaxIssues, MaxClock,
    Loaders, MaxSecrets,
    Daemons, Watchers, NoOwner, MaxInstances,
    Sessions, Texts, Views, Blank, Old, Idle, MaxQueue, MaxRenders, MaxAnswers,
    Shapes, Limits, Budgets, MaxRecords,
    Docs, Contents, Absent, Attempts, MaxWrites, MaxErrors

VARIABLES
    which,
    on_disk, edits, blob_meta, blob_events, facts, digest, sync, generation,
    lock, stage, fingerprint, observed, missing, unsaved, events, removed,
    held, qpc, asked, failures,
    clock, asked_for, waiting, codes, grants, revoked_at, begun_by, issued,
    family, access, expires, tokens, uses, busy,
    drawn, published, loading, own, loaded, given_out,
    owner, token, state, started, announced, running, instance, reading,
    since, seen, info,
    layout, focus, return_to, query, view, debounce, list, results,
    selected, preview, last_detail, last_query, previewed, searches,
    searching, found, renders, rendering, rendered,
    session, anchor, place, got, received, owed,
    doc_file, snapshot, refresh, options, to_visit, visited, candidates,
    unlisted, prepared, was_absent, seen_stats, attempt, read, wanted,
    cached, witnessed, seen_reads, retry, reply, io_errors

usage == <<on_disk, edits, blob_meta, blob_events, facts, digest, sync,
    generation, lock, stage, fingerprint, observed, missing, unsaved, events,
    removed, held, qpc, asked, failures>>
oauth == <<clock, asked_for, waiting, codes, grants, revoked_at, begun_by,
    issued, family, access, expires, tokens, uses, busy>>
secrets == <<drawn, published, loading, own, loaded, given_out>>
daemon == <<owner, token, state, started, announced, running, instance,
    reading, since, seen, info>>
tui == <<layout, focus, return_to, query, view, debounce, list, results,
    selected, preview, last_detail, last_query, previewed, searches,
    searching, found, renders, rendering, rendered>>
memory == <<doc_file, snapshot, refresh, options, to_visit, visited,
    candidates, unlisted, prepared, was_absent, seen_stats, attempt, read,
    wanted, cached, witnessed, seen_reads, retry, reply, io_errors>>
paging == <<session, anchor, place, got, received, owed>>
stores_vars == <<which, vars, usage, oauth, secrets, daemon, tui, memory, paging>>

U == INSTANCE Usage
O == INSTANCE OAuth
W == INSTANCE WebAuth
R == INSTANCE DaemonRuntime
T == INSTANCE Tui
M == INSTANCE Memory
P == INSTANCE Paging

(* Bounds, limits and lifetimes are numbers, and no code or access token   *)
(* outlives a refresh token; a page has room for something and a record a  *)
(* length in each field; nobody is not a process, no document not a        *)
(* document, and no request not a request.                                 *)
ASSUME StoresConstants ==
    /\ MaxSecrets \in Nat /\ MaxInstances \in Nat
    /\ NoOwner \notin Daemons \cup Watchers
    /\ MaxAuthorizations \in Nat /\ MaxIssues \in Nat
    /\ CodeTtl \in 0..RefreshTtl /\ AccessTtl \in 0..RefreshTtl /\ RefreshTtl \in Nat
    /\ MaxPending \in Nat \ {0} /\ MaxGrants \in Nat /\ MaxFamily \in Nat \ {0}
    /\ MaxClock \in Nat \ {0}
    /\ U!Nobody \notin Users
    /\ MaxEdits \in Nat /\ MaxRefreshes \in Nat /\ MaxFailures \in Nat
    /\ Docs # {} /\ Absent \notin M!Documents
    /\ Attempts \in Nat \ {0} /\ MaxWrites \in Nat /\ MaxErrors \in Nat
    /\ Shapes \subseteq [P!Fields -> Nat] /\ MaxRecords \in Nat
    /\ Limits \subseteq Nat \ {0} /\ Budgets \subseteq Nat \ {0}
    /\ MaxQueue \in Nat \ {0} /\ MaxRenders \in Nat /\ MaxAnswers \in Nat
    /\ Old # Idle /\ {Old, Idle} \cap (T!Looks \cup {T!New, Blank}) = {} /\ Blank \notin T!Looks

ASSUME InstanceCanBeStale == MaxVersion >= 2 /\ MaxCrashes >= 3

MCShapes == {<<0, 0, 0>>, <<2, 1, 1>>}

(* A part that does not move rests in one of its initial states.           *)
StoresInit ==
    /\ which \in {"checkpoint", "usage", "oauth", "secrets", "daemon", "tui", "memory", "paging"}
    /\ Init /\ (which # "checkpoint" => authority = "missing" /\ pending_file = 0 /\ ~cache_file)
    /\ U!Init /\ (which # "usage" => \A l \in Logs : on_disk[l] = 0)
    /\ T!Init /\ (which # "tui" => query = Blank /\ view = CHOOSE v \in Views : TRUE)
    /\ M!Init /\ (which # "memory" => \A d \in Docs : doc_file[d].content = Absent)
    /\ P!Init /\ (which # "paging" => \A b \in DOMAIN session : session[b] = <<>>)
    /\ O!Init /\ W!Init /\ R!Init

StoresNext ==
    /\ UNCHANGED which
    /\ \/ /\ which = "checkpoint" /\ Next
          /\ UNCHANGED <<usage, oauth, secrets, daemon, tui, memory, paging>>
       \/ /\ which = "usage" /\ U!Next
          /\ UNCHANGED <<vars, oauth, secrets, daemon, tui, memory, paging>>
       \/ /\ which = "oauth" /\ O!Next
          /\ UNCHANGED <<vars, usage, secrets, daemon, tui, memory, paging>>
       \/ /\ which = "secrets" /\ W!Next
          /\ UNCHANGED <<vars, usage, oauth, daemon, tui, memory, paging>>
       \/ /\ which = "daemon" /\ R!Next
          /\ UNCHANGED <<vars, usage, oauth, secrets, tui, memory, paging>>
       \/ /\ which = "tui" /\ T!Next
          /\ UNCHANGED <<vars, usage, oauth, secrets, daemon, memory, paging>>
       \/ /\ which = "memory" /\ M!Next
          /\ UNCHANGED <<vars, usage, oauth, secrets, daemon, tui, paging>>
       \/ /\ which = "paging" /\ P!Next
          /\ UNCHANGED <<vars, usage, oauth, secrets, daemon, tui, memory>>

StoresSpec == StoresInit /\ [][StoresNext]_stores_vars

-----------------------------------------------------------------------------
(* The type invariant of the part that moves.                              *)
StoresTypeOK ==
    CASE which = "checkpoint" -> TypeOK
      [] which = "usage" -> U!TypeOK
      [] which = "oauth" -> O!TypeOK
      [] which = "secrets" -> W!TypeOK
      [] which = "daemon" -> R!TypeOK
      [] which = "tui" -> T!TypeOK
      [] which = "memory" -> M!TypeOK
      [] which = "paging" -> P!TypeOK

(* While there is a sync row, the facts of a file whose blob is valid are  *)
(* the ones of the blob: a refresh that takes the one for the other        *)
(* reports what a parse would.  And a digest is of the rows that are       *)
(* there, or a refresh would leave rows that are not what it computed.     *)
FactsFollowBlobs == which = "usage" => U!FactsFollowBlobs

(* A query that is answered without a refresh, from memory or from the     *)
(* facts, reports each file there is as it was when the query looked at    *)
(* it.                                                                     *)
AnswersAreCurrent == which = "usage" => U!AnswersAreCurrent

(* Fresh means current.  A published document that is fresh has the        *)
(* content of its file for as long as the file has the stamp recorded for  *)
(* it, although the file was written while it was read: what a refresh     *)
(* keeps without reading is what reading would give.  And a reader that    *)
(* calls its answer fresh gives a content the file had since it was asked, *)
(* whatever the snapshot was.                                              *)
FreshIsCurrent == which = "memory" => M!FreshIsCurrent

(* Whichever of two threads comes first, a code begins one grant, and a    *)
(* grant has one access token that works and one refresh token that can    *)
(* still be used.                                                          *)
OneLine == which = "oauth" => O!OneLine

(* A refresh token that was presented again after its use has ended its    *)
(* grant: no token of the family works from then on.                       *)
ReuseRevokes == which = "oauth" => O!ReuseRevokes

(* The evidence is there for as long as the token would have been valid:   *)
(* neither pruning, whatever its time, nor the limits drop a used refresh  *)
(* token of a grant that still works.                                      *)
EvidenceKept == which = "oauth" => O!EvidenceKept

(* There is one access token for good, whoever was killed on the way:      *)
(* every process that goes on uses the published secret, and none was ever *)
(* in use that is not.                                                     *)
OneSecret == which = "secrets" => W!OneSecret

(* Once a daemon has announced itself no reader takes an earlier one for   *)
(* it, whatever a killed daemon left behind: a reading that begins after   *)
(* the token was written answers with that instance or a later one.        *)
NoEarlierDaemon == which = "daemon" => R!NoEarlierDaemon

(* A list is shown as loaded only when no newer search is under way or     *)
(* waits for a pause in the typing: late answers to superseded searches    *)
(* never settle it.  And a list that is loading will be answered.          *)
NewestIsListed == which = "tui" => T!NewestIsListed

(* Wherever the preview is visible it is the one of the selected session,  *)
(* looked at the way the reader has chosen, whatever came late from either *)
(* worker; a preview that is loading will be rendered.                     *)
SelectionIsPreviewed == which = "tui" => T!SelectionIsPreviewed

(* A refresh drops a document only for a file that was absent while it     *)
(* ran, or that is excluded: a directory that cannot be listed and a file  *)
(* that cannot be read cost none.                                          *)
DocumentsOutliveErrors == M!DocumentsOutliveErrors

(* Whatever the limits and budgets of the pages, in whatever order cut     *)
(* fields are read on and however the sessions grow, following the offsets *)
(* gives every character of every record, in order and once; and the next  *)
(* page, however small its budget, goes on with the first session that is  *)
(* not read to its end.                                                    *)
WholeIsRead == which = "paging" => P!WholeIsRead

=============================================================================
