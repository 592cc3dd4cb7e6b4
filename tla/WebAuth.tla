------------------------------- MODULE WebAuth -------------------------------
(***************************************************************************)
(* The web server's access token.  Every process that needs it tries to    *)
(* publish a new one: a temporary file, written and synchronized, is       *)
(* linked to the final name, which succeeds for one process only; the      *)
(* others read what that one published.  A process may be killed between   *)
(* any two steps and start over with another secret.  Temporary names are  *)
(* random and do not collide, and a file left behind is never looked at.   *)
(*                                                                         *)
(* Source: src/web_auth.rs.                                                *)
(***************************************************************************)
EXTENDS Naturals

CONSTANTS
    Loaders,    \* processes that load or create the token
    MaxSecrets  \* bound: secrets drawn

NoSecret == 0
Secrets == 0..MaxSecrets

VARIABLES
    drawn,      \* secrets drawn so far
    published,  \* the token file: the secret it holds, NoSecret for no file
    loading,    \* what each process is doing
    own,        \* the secret each process has drawn
    loaded,     \* the secret each process goes on with
    given_out   \* the secrets that are in use: owners have copied them

secret_vars == <<drawn, published, loading, own, loaded, given_out>>

Init ==
    /\ drawn = 0 /\ published = NoSecret
    /\ loading = [p \in Loaders |-> "idle"] /\ own = [p \in Loaders |-> NoSecret]
    /\ loaded = [p \in Loaders |-> NoSecret] /\ given_out = {}

TypeOK ==
    /\ drawn \in Secrets /\ published \in Secrets
    /\ loading \in [Loaders -> {"idle", "write", "link", "unlink", "drop", "read", "done"}]
    /\ own \in [Loaders -> Secrets] /\ loaded \in [Loaders -> Secrets]
    /\ given_out \subseteq Secrets

Step(p, from, to) == loading[p] = from /\ loading' = [loading EXCEPT ![p] = to]

(* publish_new_secret: the secret is drawn and its file created ...        *)
CreateTemporary(p) ==
    /\ drawn < MaxSecrets /\ drawn' = drawn + 1
    /\ Step(p, "idle", "write") /\ own' = [own EXCEPT ![p] = drawn + 1]
    /\ UNCHANGED <<published, loaded, given_out>>

(* ... written and synchronized; a failed write gives up.                  *)
WriteTemporary(p) ==
    /\ Step(p, "write", "link") \/ Step(p, "write", "idle")
    /\ UNCHANGED <<drawn, published, own, loaded, given_out>>

(* A mutant of Link: a rename, which replaces what is there.               *)
LinkOver(p) ==
    /\ Step(p, "link", "unlink")
    /\ published' = own[p]
    /\ UNCHANGED <<drawn, own, loaded, given_out>>

(* hard_link: the name must be free.                                       *)
Link(p) ==
    /\ published = NoSecret
    /\ Step(p, "link", "unlink")
    /\ published' = own[p]
    /\ UNCHANGED <<drawn, own, loaded, given_out>>

AlreadyExists(p) ==
    /\ published # NoSecret
    /\ Step(p, "link", "drop")
    /\ UNCHANGED <<drawn, published, own, loaded, given_out>>

(* The publisher removes the temporary file and has its own secret ...     *)
Finish(p) ==
    /\ Step(p, "unlink", "done")
    /\ loaded' = [loaded EXCEPT ![p] = own[p]] /\ given_out' = given_out \cup {own[p]}
    /\ UNCHANGED <<drawn, published, own>>

(* ... the others remove theirs and read_secret.                           *)
DropTemporary(p) ==
    /\ Step(p, "drop", "read")
    /\ UNCHANGED <<drawn, published, own, loaded, given_out>>

ReadSecret(p) ==
    /\ Step(p, "read", "done")
    /\ loaded' = [loaded EXCEPT ![p] = published] /\ given_out' = given_out \cup {published}
    /\ UNCHANGED <<drawn, published, own>>

(* Killed, or stopped: what it left on disk stays.                         *)
Stop(p) ==
    /\ loading[p] # "idle" /\ loading' = [loading EXCEPT ![p] = "idle"]
    /\ own' = [own EXCEPT ![p] = NoSecret] /\ loaded' = [loaded EXCEPT ![p] = NoSecret]
    /\ UNCHANGED <<drawn, published, given_out>>

Next ==
    \E p \in Loaders :
        \/ CreateTemporary(p) \/ WriteTemporary(p) \/ Link(p) \/ AlreadyExists(p)
        \/ Finish(p) \/ DropTemporary(p) \/ ReadSecret(p) \/ Stop(p)

Spec == Init /\ [][Next]_secret_vars

-----------------------------------------------------------------------------
(* There is one access token for good, whoever was killed on the way:      *)
(* every process that goes on uses the published secret, and none was ever *)
(* in use that is not.                                                     *)
OneSecret ==
    /\ \A p \in Loaders : loading[p] = "done" => loaded[p] = published
    /\ given_out \subseteq {published}

=============================================================================
