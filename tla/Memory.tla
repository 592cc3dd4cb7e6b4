------------------------------- MODULE Memory -------------------------------
(***************************************************************************)
(* Memory documents: markdown files that other programs write, kept as one *)
(* snapshot that is replaced as a whole.  A refresh holds the snapshot's   *)
(* lock, finds the files, keeps the documents whose file looks the same,   *)
(* reads the others twice between three stats, and publishes; a read of a  *)
(* document compares it with its file and parses the file again when they  *)
(* differ.  Neither stops the programs that write the files.               *)
(*                                                                         *)
(* Every write gives a file a new stamp (size, times, inode), so what is   *)
(* written twice within the clock's step is left out; so are links and     *)
(* files that are replaced by something else.  A file half written is a    *)
(* content like any other.  A refresh that cannot get the lock, and one    *)
(* that fails as a whole, change nothing.                                  *)
(*                                                                         *)
(* Source: src/memory.rs, src/memory_search.rs (read_memory).              *)
(***************************************************************************)
EXTENDS Naturals, Sequences

CONSTANTS
    Docs,
    Contents,
    Absent,     \* no file; no document
    Attempts,   \* CONSISTENT_READ_ATTEMPTS
    MaxWrites,  \* bound: writes to each file
    MaxErrors   \* bound: failed system calls

VARIABLES
    doc_file,    \* each file's content and stamp
    snapshot,    \* the published documents
    refresh,     \* where the refresh is
    options,     \* what its options say of each document
    to_visit,    \* documents it still has to look for, then to visit
    visited,     \* the one whose file it reads
    candidates,  \* files it found
    unlisted,    \* documents below a directory it failed to list
    prepared,    \* the documents it will publish
    was_absent,  \* history: files absent at some time since it started
    seen_stats,  \* what it saw of the file it reads: stamp, content, stamp, ...
    attempt,
    read,        \* where the reader is
    wanted,      \* the document it was asked for,
    cached,      \* as the snapshot had it
    witnessed,   \* history: contents of its file since it was asked
    seen_reads,  \* like seen_stats
    retry,       \* like attempt
    reply,       \* what the reader said last
    io_errors

file_vars == <<doc_file, snapshot>>
refresh_vars == <<refresh, options, to_visit, visited, candidates, unlisted, prepared, seen_stats, attempt>>
histories == <<was_absent, witnessed>>
read_vars == <<read, wanted, cached, seen_reads, retry, reply>>
memory_vars == <<file_vars, refresh_vars, read_vars, histories, io_errors>>

Half == "half"
Written == Contents \cup {Half}
Stamps == 0..MaxWrites
Documents == [content : Written, stamp : Stamps, fresh : BOOLEAN]
Unheard == [content |-> Absent, fresh |-> FALSE]

TypeOK ==
    /\ doc_file \in [Docs -> [content : Written \cup {Absent}, stamp : Stamps]]
    /\ snapshot \in [Docs -> Documents \cup {Absent}]
    /\ refresh \in {"idle", "discover", "visit", "reading"}
    /\ options \in [Docs -> {"selected", "unselected", "excluded"}]
    /\ to_visit \subseteq Docs /\ visited \in Docs /\ candidates \subseteq Docs /\ unlisted \subseteq Docs
    /\ prepared \in [Docs -> Documents \cup {Absent}]
    /\ was_absent \subseteq Docs
    /\ Len(seen_stats) <= 4 /\ attempt \in 1..Attempts
    /\ read \in {"idle", "asked", "compare", "reparse"}
    /\ wanted \in Docs /\ cached \in Documents \cup {Absent}
    /\ witnessed \subseteq Written /\ Len(seen_reads) <= 4 /\ retry \in 1..Attempts
    /\ reply \in [content : Written \cup {Absent}, fresh : BOOLEAN]
    /\ io_errors \in 0..MaxErrors

Nowhere == CHOOSE d \in Docs : TRUE

Init ==
    /\ doc_file \in [Docs -> [content : Contents \cup {Absent}, stamp : {0}]]
    /\ snapshot = [d \in Docs |-> Absent]
    /\ refresh = "idle" /\ options = [d \in Docs |-> "selected"]
    /\ to_visit = {} /\ visited = Nowhere /\ candidates = {} /\ unlisted = {}
    /\ prepared = [d \in Docs |-> Absent] /\ was_absent = {}
    /\ seen_stats = <<>> /\ attempt = 1
    /\ read = "idle" /\ wanted = Nowhere /\ cached = Absent /\ witnessed = {}
    /\ seen_reads = <<>> /\ retry = 1 /\ reply = Unheard
    /\ io_errors = 0

Exists(d) == doc_file[d].content # Absent

(* Without a refresh.                                                      *)
Rest ==
    /\ refresh' = "idle" /\ options' = [d \in Docs |-> "selected"]
    /\ to_visit' = {} /\ visited' = Nowhere /\ candidates' = {} /\ unlisted' = {}
    /\ prepared' = [d \in Docs |-> Absent] /\ seen_stats' = <<>> /\ attempt' = 1

-----------------------------------------------------------------------------
(* Other programs write a file in place or replace it, and remove it.      *)
Touch(d, content) ==
    /\ doc_file[d].stamp < MaxWrites
    /\ doc_file' = [doc_file EXCEPT ![d] = [content |-> content, stamp |-> @.stamp + 1]]
    /\ was_absent' = IF content = Absent THEN was_absent \cup {d} ELSE was_absent
    /\ witnessed' = IF d = wanted /\ content # Absent THEN witnessed \cup {content} ELSE witnessed
    /\ UNCHANGED <<snapshot, refresh_vars, read_vars, io_errors>>

StartWrite(d) == doc_file[d].content # Half /\ doc_file[d].stamp < MaxWrites - 1 /\ Touch(d, Half)
Write(d, c) == Touch(d, c)
Remove(d) == Exists(d) /\ Touch(d, Absent)

Fault == io_errors < MaxErrors /\ io_errors' = io_errors + 1

-----------------------------------------------------------------------------
(* prepare_refresh.  SnapshotWriteLock: there is one at a time, so the     *)
(* documents it starts from stay the published ones.                       *)
StartRefresh ==
    /\ refresh = "idle" /\ refresh' = "discover"
    /\ options' \in [Docs -> {"selected", "unselected", "excluded"}]
    /\ to_visit' = Docs
    /\ was_absent' = {d \in Docs : ~Exists(d)}
    /\ UNCHANGED <<file_vars, read_vars, witnessed, io_errors,
                   visited, candidates, unlisted, prepared, seen_stats, attempt>>

(* discover_memory_documents.                                              *)
Discover(d) ==
    /\ refresh = "discover" /\ d \in to_visit
    /\ to_visit' = to_visit \ {d}
    /\ candidates' = IF options[d] = "selected" /\ Exists(d) THEN candidates \cup {d} ELSE candidates
    /\ UNCHANGED <<file_vars, read_vars, histories, io_errors,
                   refresh, options, visited, unlisted, prepared, seen_stats, attempt>>

DiscoverFails(d) ==
    /\ refresh = "discover" /\ d \in to_visit /\ options[d] # "unselected" /\ Fault
    /\ to_visit' = to_visit \ {d} /\ unlisted' = unlisted \cup {d}
    /\ UNCHANGED <<file_vars, read_vars, histories,
                   refresh, options, visited, candidates, prepared, seen_stats, attempt>>

Discovered ==
    /\ refresh = "discover" /\ to_visit = {}
    /\ refresh' = "visit" /\ to_visit' = candidates
    /\ UNCHANGED <<file_vars, read_vars, histories, io_errors,
                   options, visited, candidates, unlisted, prepared, seen_stats, attempt>>

Stale(document) == [document EXCEPT !.fresh = FALSE]

(* unchanged_on_disk.                                                      *)
Unchanged(d) ==
    /\ snapshot[d] # Absent /\ snapshot[d].fresh
    /\ Exists(d) /\ doc_file[d].stamp = snapshot[d].stamp

Visit(d) ==
    /\ refresh = "visit" /\ d \in to_visit
    /\ to_visit' = to_visit \ {d}
    /\ IF Unchanged(d)
       THEN prepared' = [prepared EXCEPT ![d] = snapshot[d]] /\ UNCHANGED <<refresh, visited>>
       ELSE refresh' = "reading" /\ visited' = d /\ UNCHANGED prepared
    /\ UNCHANGED <<file_vars, read_vars, histories, io_errors,
                   options, candidates, unlisted, seen_stats, attempt>>

-----------------------------------------------------------------------------
(* read_consistent: three stats and, between them, two reads.              *)
Look(d, seen) == Append(seen, IF Len(seen) % 2 = 0 THEN doc_file[d].stamp ELSE doc_file[d].content)

(* A mutant of Consistent: the contents agree, whatever the stats say.     *)
ConsistentContents(seen) == seen[2] = seen[4]

(* consistent_read_matches.                                                *)
Consistent(seen) ==
    seen[1] = seen[3] /\ seen[3] = seen[5] /\ seen[2] = seen[4]

(* An attempt fails at a call, for want of the file, or in the end.        *)
AttemptFails(d, seen) ==
    \/ ~Exists(d) /\ UNCHANGED io_errors
    \/ Fault
    \/ Len(seen) = 4 /\ Exists(d) /\ ~Consistent(Look(d, seen)) /\ UNCHANGED io_errors

Looks ==
    /\ refresh = "reading" /\ Exists(visited) /\ Len(seen_stats) < 4
    /\ seen_stats' = Look(visited, seen_stats)
    /\ UNCHANGED <<file_vars, read_vars, histories, io_errors,
                   refresh, options, to_visit, visited, candidates, unlisted, prepared, attempt>>

Prepare(document) ==
    /\ prepared' = [prepared EXCEPT ![visited] = document]
    /\ refresh' = "visit" /\ seen_stats' = <<>> /\ attempt' = 1
    /\ UNCHANGED <<file_vars, read_vars, histories, options, to_visit, visited, candidates, unlisted>>

(* parse_memory_content; a document of the same content is told the new    *)
(* stamp.                                                                  *)
Parses ==
    /\ refresh = "reading" /\ Exists(visited) /\ Len(seen_stats) = 4
    /\ LET seen == Look(visited, seen_stats) IN
       /\ Consistent(seen)
       /\ Prepare([content |-> seen[4], stamp |-> seen[5], fresh |-> TRUE])
    /\ UNCHANGED io_errors

ReadsAgain ==
    /\ refresh = "reading" /\ attempt < Attempts /\ AttemptFails(visited, seen_stats)
    /\ seen_stats' = <<>> /\ attempt' = attempt + 1
    /\ UNCHANGED <<file_vars, read_vars, histories,
                   refresh, options, to_visit, visited, candidates, unlisted, prepared>>

GivesUp ==
    /\ refresh = "reading" /\ attempt = Attempts /\ AttemptFails(visited, seen_stats)
    /\ Prepare(IF snapshot[visited] = Absent THEN Absent ELSE Stale(snapshot[visited]))

(* A mutant of Leftover: what was not found is gone.                       *)
LeftoverGone(d) ==
    IF options[d] = "unselected" THEN snapshot[d] ELSE Absent

(* The documents whose file was not found.  discovery_failure_covers.      *)
Leftover(d) ==
    IF options[d] = "excluded" \/ snapshot[d] = Absent
    THEN Absent
    ELSE CASE options[d] = "unselected"                 -> snapshot[d]
           [] options[d] = "selected" /\ d \in unlisted -> Stale(snapshot[d])
           [] OTHER                                     -> Absent

(* publish: atomic_write_snapshot.                                         *)
Publish ==
    /\ refresh = "visit" /\ to_visit = {}
    /\ snapshot' = [d \in Docs |-> IF d \in candidates THEN prepared[d] ELSE Leftover(d)]
    /\ Rest /\ UNCHANGED <<doc_file, read_vars, histories, io_errors>>

(* The process dies, and with it its lock.                                 *)
Die ==
    /\ refresh # "idle" /\ Rest
    /\ UNCHANGED <<file_vars, read_vars, histories, io_errors>>

-----------------------------------------------------------------------------
(* read_memory.                                                            *)
Ask(d) ==
    /\ read = "idle" /\ snapshot[d] # Absent
    /\ read' = "asked" /\ wanted' = d /\ cached' = snapshot[d] /\ reply' = Unheard
    /\ witnessed' = IF Exists(d) THEN {doc_file[d].content} ELSE {}
    /\ UNCHANGED <<file_vars, refresh_vars, was_absent, seen_reads, retry, io_errors>>

(* The source must not be gone.                                            *)
CheckSource ==
    /\ read = "asked"
    /\ \/ Exists(wanted) /\ read' = "compare" /\ UNCHANGED io_errors
       \/ ~Exists(wanted) /\ read' = "idle" /\ UNCHANGED io_errors
       \/ Fault /\ read' = "compare"
    /\ UNCHANGED <<file_vars, refresh_vars, histories, wanted, cached, seen_reads, retry, reply>>

Reply(content, fresh) ==
    /\ read' = "idle" /\ reply' = [content |-> content, fresh |-> fresh]
    /\ seen_reads' = <<>> /\ retry' = 1

(* source_freshness.                                                       *)
Compare ==
    /\ read = "compare"
    /\ \/ /\ Exists(wanted) /\ doc_file[wanted].content = cached.content
          /\ Reply(cached.content, TRUE) /\ UNCHANGED io_errors
       \/ /\ \/ doc_file[wanted].content # cached.content /\ UNCHANGED io_errors
             \/ Fault
          /\ read' = "reparse" /\ UNCHANGED <<seen_reads, retry, reply>>
    /\ UNCHANGED <<file_vars, refresh_vars, histories, wanted, cached>>

(* reparse_memory_document.                                                *)
ReparseLooks ==
    /\ read = "reparse" /\ Exists(wanted) /\ Len(seen_reads) < 4
    /\ seen_reads' = Look(wanted, seen_reads)
    /\ UNCHANGED <<file_vars, refresh_vars, histories, read, wanted, cached, retry, reply, io_errors>>

ReparseParses ==
    /\ read = "reparse" /\ Exists(wanted) /\ Len(seen_reads) = 4
    /\ LET seen == Look(wanted, seen_reads) IN Consistent(seen) /\ Reply(seen[4], TRUE)
    /\ UNCHANGED <<file_vars, refresh_vars, histories, wanted, cached, io_errors>>

ReparseAgain ==
    /\ read = "reparse" /\ retry < Attempts /\ AttemptFails(wanted, seen_reads)
    /\ seen_reads' = <<>> /\ retry' = retry + 1
    /\ UNCHANGED <<file_vars, refresh_vars, histories, read, wanted, cached, reply>>

(* The last attempt says whether the file is gone, which is an error, or   *)
(* cannot be read, where the snapshot has to do.                           *)
ReparseFails ==
    /\ read = "reparse" /\ retry = Attempts /\ AttemptFails(wanted, seen_reads)
    /\ \/ ~Exists(wanted) /\ Reply(Absent, FALSE)
       \/ Reply(cached.content, FALSE)
    /\ UNCHANGED <<file_vars, refresh_vars, histories, wanted, cached>>

Next ==
    \/ \E d \in Docs : \/ StartWrite(d) \/ Remove(d) \/ \E c \in Contents : Write(d, c)
                       \/ Discover(d) \/ DiscoverFails(d) \/ Visit(d) \/ Ask(d)
    \/ StartRefresh \/ Discovered \/ Looks \/ Parses \/ ReadsAgain \/ GivesUp \/ Publish \/ Die
    \/ CheckSource \/ Compare \/ ReparseLooks \/ ReparseParses \/ ReparseAgain \/ ReparseFails

Spec == Init /\ [][Next]_memory_vars

-----------------------------------------------------------------------------
(* Fresh means current.  A published document that is fresh has the        *)
(* content of its file for as long as the file has the stamp recorded for  *)
(* it, although the file was written while it was read: what a refresh     *)
(* keeps without reading is what reading would give.  And a reader that    *)
(* calls its answer fresh gives a content the file had since it was asked, *)
(* whatever the snapshot was.                                              *)
FreshIsCurrent ==
    /\ \A d \in Docs :
           snapshot[d] # Absent /\ snapshot[d].fresh /\ snapshot[d].stamp = doc_file[d].stamp
               => snapshot[d].content = doc_file[d].content
    /\ reply.fresh => reply.content \in witnessed

(* A refresh drops a document only for a file that was absent while it     *)
(* ran, or that is excluded: a directory that cannot be listed and a file  *)
(* that cannot be read cost none.                                          *)
DocumentsOutliveErrors ==
    [][\A d \in Docs : snapshot[d] # Absent /\ snapshot'[d] = Absent
           => d \in was_absent \/ options[d] = "excluded"]_memory_vars

=============================================================================
