---------------------------- MODULE StoresProofs ----------------------------
(***************************************************************************)
(* Proofs about the parts MCStores explores side by side: the access token *)
(* (WebAuth), the daemon's runtime files (DaemonRuntime), the grants of    *)
(* the OAuth server (OAuth), the memory documents (Memory), the terminal   *)
(* interface (Tui) and the usage cache (Usage).  Each part has an          *)
(* inductive invariant over its own variables; a step of MCStores is a     *)
(* step of the part or leaves its variables alone, whatever part moves.    *)
(* The numbers of processes, threads, secrets, instances, grants, tokens,  *)
(* documents, files, writes, attempts and queued requests are arbitrary,   *)
(* and so are the lifetimes and limits.  The last sections add the types   *)
(* and limits that these invariants leave open; bounded reads are in       *)
(* PagingProofs, and the checkpoint is in CheckpointProofs.                *)
(***************************************************************************)
EXTENDS PagingProofs, CheckpointProofs

-----------------------------------------------------------------------------
(* The access token.  A process that has written its secret has one; what  *)
(* it is about to unlink it has published; one that found a secret, reads  *)
(* or has finished knows that one is published; and what it goes on with,  *)
(* or ever gave out, is the published one.                                 *)
SecretsInv ==
    /\ W!TypeOK
    /\ \A p \in Loaders : loading[p] \in {"write", "link", "unlink"} => own[p] # W!NoSecret
    /\ \A p \in Loaders : loading[p] = "unlink" => published = own[p]
    /\ \A p \in Loaders : loading[p] \in {"drop", "read", "done"} => published # W!NoSecret
    /\ \A p \in Loaders : loading[p] = "done" => loaded[p] = published
    /\ given_out \subseteq {published} \ {W!NoSecret}

(* Whatever part moves, the variables of WebAuth take a step of it or      *)
(* stay.                                                                   *)
LEMMA SecretsMove ==
    ASSUME [StoresNext]_stores_vars
    PROVE  W!Next \/ UNCHANGED W!secret_vars
  BY DEF StoresNext, stores_vars, secrets, W!secret_vars

(* No secret is drawn, written or published at first.                      *)
LEMMA SecretsInit ==
    ASSUME StoresInit PROVE SecretsInv
  BY StoresConstants DEF StoresInit, SecretsInv, W!Init, W!TypeOK, W!Secrets, W!NoSecret

(* Every action of WebAuth keeps the invariant: hard_link publishes one    *)
(* secret at most, for it fails when the name is taken, and nothing        *)
(* replaces it.                                                            *)
LEMMA SecretsStep ==
    ASSUME SecretsInv, W!Next \/ UNCHANGED W!secret_vars PROVE SecretsInv'
  <1> USE StoresConstants DEF SecretsInv, W!TypeOK, W!Secrets, W!NoSecret, W!Step
  <1>1. CASE UNCHANGED W!secret_vars
    BY <1>1 DEF W!secret_vars
  <1>2. ASSUME NEW p \in Loaders, W!CreateTemporary(p) PROVE SecretsInv'
    BY <1>2 DEF W!CreateTemporary
  <1>3. ASSUME NEW p \in Loaders, W!WriteTemporary(p) PROVE SecretsInv'
    BY <1>3 DEF W!WriteTemporary
  <1>4. ASSUME NEW p \in Loaders, W!Link(p) PROVE SecretsInv'
    BY <1>4 DEF W!Link
  <1>5. ASSUME NEW p \in Loaders, W!AlreadyExists(p) PROVE SecretsInv'
    BY <1>5 DEF W!AlreadyExists
  <1>6. ASSUME NEW p \in Loaders, W!Finish(p) PROVE SecretsInv'
    BY <1>6 DEF W!Finish
  <1>7. ASSUME NEW p \in Loaders, W!DropTemporary(p) PROVE SecretsInv'
    BY <1>7 DEF W!DropTemporary
  <1>8. ASSUME NEW p \in Loaders, W!ReadSecret(p) PROVE SecretsInv'
    BY <1>8 DEF W!ReadSecret
  <1>9. ASSUME NEW p \in Loaders, W!Stop(p) PROVE SecretsInv'
    BY <1>9 DEF W!Stop
  <1> QED
    BY <1>1, <1>2, <1>3, <1>4, <1>5, <1>6, <1>7, <1>8, <1>9 DEF W!Next

(* One access token for good (load_or_create in src/web.rs): every process *)
(* that goes on uses the published secret, and none was ever in use that   *)
(* is not, for any number of processes killed anywhere.                    *)
THEOREM OneSecretHolds ==
    StoresSpec => []OneSecret
  <1>1. StoresInit => SecretsInv
    BY SecretsInit
  <1>2. SecretsInv /\ [StoresNext]_stores_vars => SecretsInv'
    BY SecretsMove, SecretsStep
  <1>3. SecretsInv => OneSecret
    BY DEF SecretsInv, OneSecret, W!OneSecret
  <1> QED
    BY <1>1, <1>2, <1>3, PTL DEF StoresSpec

-----------------------------------------------------------------------------
(* The daemon's files. A reader that holds the lock for its probe keeps    *)
(* daemons out; a daemon is the newest instance from its lock on, and the  *)
(* announced one once it has written its token; the lock file holds no     *)
(* token or the one of the last announced daemon, never an older one. So a *)
(* token read since a reading began is not older than the daemon announced *)
(* then, and what passed the comparison names no older one either.         *)
DaemonInv ==
    /\ R!TypeOK
    /\ \A r \in Watchers : reading[r] \in {"absent", "still_absent"} =>
           owner = r /\ \A d \in Daemons : running[d] = "out"
    /\ \A d \in Daemons : running[d] \in {"locked", "truncated"} => instance[d] = started
    /\ \A d \in Daemons : running[d] \in {"announced", "starting", "ready"} => instance[d] = announced
    /\ token \in {R!NoToken, announced}
    /\ \A r \in Watchers :
           /\ since[r] <= announced
           /\ reading[r] \in {"state", "again"} /\ seen[r] # R!NoToken => seen[r] >= since[r]
           /\ reading[r] \in {"probe", "answered"} => info[r].instance >= since[r]

(* Whatever part moves, the variables of DaemonRuntime take a step of it   *)
(* or stay.                                                                *)
LEMMA DaemonMove ==
    ASSUME [StoresNext]_stores_vars
    PROVE  R!Next \/ UNCHANGED R!runtime_vars
  BY DEF StoresNext, stores_vars, daemon, R!runtime_vars

(* Nobody runs and nothing is published at first.                          *)
LEMMA DaemonInit ==
    ASSUME StoresInit PROVE DaemonInv
  BY StoresConstants DEF StoresInit, DaemonInv, R!Init, R!TypeOK, R!NoToken, R!NoState, R!States

(* Every action of a daemon and of a reader keeps the invariant.           *)
LEMMA DaemonStep ==
    ASSUME DaemonInv, R!Next \/ UNCHANGED R!runtime_vars
    PROVE DaemonInv'
  <1> USE StoresConstants DEF DaemonInv, R!TypeOK, R!NoToken, R!NoState, R!States, R!DaemonStep, R!reader_vars
  <1>1. CASE UNCHANGED R!runtime_vars
    BY <1>1 DEF R!runtime_vars
  <1>2. ASSUME NEW d \in Daemons, R!TryLock(d) PROVE DaemonInv'
    BY <1>2 DEF R!TryLock
  <1>3. ASSUME NEW d \in Daemons, R!Truncate(d) PROVE DaemonInv'
    BY <1>3 DEF R!Truncate
  <1>4. ASSUME NEW d \in Daemons, R!WriteToken(d) PROVE DaemonInv'
    BY <1>4 DEF R!WriteToken
  <1>5. ASSUME NEW d \in Daemons, R!PublishStarting(d) PROVE DaemonInv'
    BY <1>5 DEF R!PublishStarting, R!Publish
  <1>6. ASSUME NEW d \in Daemons, R!MarkReady(d) PROVE DaemonInv'
    BY <1>6 DEF R!MarkReady, R!Publish
  <1>7. ASSUME NEW d \in Daemons, R!RemoveState(d) PROVE DaemonInv'
    BY <1>7 DEF R!RemoveState
  <1>8. ASSUME NEW d \in Daemons, R!Release(d) PROVE DaemonInv'
    BY <1>8 DEF R!Release
  <1> USE DEF R!ReaderStep, R!daemon_vars, R!Forget
  <1>9. ASSUME NEW r \in Watchers, R!FirstProbeFree(r) PROVE DaemonInv'
    BY <1>9 DEF R!FirstProbeFree, R!ProbeFree
  <1>10. ASSUME NEW r \in Watchers, R!FirstProbe(r) PROVE DaemonInv'
    BY <1>10 DEF R!FirstProbe
  <1>11. ASSUME NEW r \in Watchers, R!GiveBack(r) PROVE DaemonInv'
    <2>1. /\ owner = r /\ \A d \in Daemons : running[d] = "out"
          /\ owner' = NoOwner /\ reading' = [reading EXCEPT ![r] = "out"]
          /\ since' = [since EXCEPT ![r] = 0] /\ seen' = [seen EXCEPT ![r] = 0]
          /\ info' = [info EXCEPT ![r] = R!NoState]
          /\ UNCHANGED <<token, state, announced, running, instance, started>>
      BY <1>11 DEF R!GiveBack
    <2> QED
      BY <2>1
  <1>12. ASSUME NEW r \in Watchers, R!ReadToken(r) PROVE DaemonInv'
    BY <1>12 DEF R!ReadToken
  <1>13. ASSUME NEW r \in Watchers, R!ReadState(r) PROVE DaemonInv'
    BY <1>13 DEF R!ReadState
  <1>14. ASSUME NEW r \in Watchers, R!ReadTokenAgain(r) PROVE DaemonInv'
    BY <1>14 DEF R!ReadTokenAgain, R!Matches
  <1>15. ASSUME NEW r \in Watchers, R!SecondProbeFree(r) PROVE DaemonInv'
    BY <1>15 DEF R!SecondProbeFree, R!ProbeFree
  <1>16. ASSUME NEW r \in Watchers, R!SecondProbe(r) PROVE DaemonInv'
    BY <1>16 DEF R!SecondProbe
  <1>17. ASSUME NEW r \in Watchers, R!Leave(r) PROVE DaemonInv'
    BY <1>17 DEF R!Leave
  <1> QED
    BY <1>1, <1>2, <1>3, <1>4, <1>5, <1>6, <1>7, <1>8, <1>9, <1>10, <1>11, <1>12, <1>13, <1>14,
       <1>15, <1>16, <1>17 DEF R!Next

(* A reading that begins after a daemon has announced itself answers with  *)
(* that instance or a later one, for any number of daemons killed or       *)
(* replaced anywhere and of readers probing the lock (DaemonRuntime::start *)
(* and read in src/daemon_runtime.rs).                                     *)
THEOREM NoEarlierDaemonIsTaken ==
    StoresSpec => []NoEarlierDaemon
  <1>1. StoresInit => DaemonInv
    BY DaemonInit
  <1>2. DaemonInv /\ [StoresNext]_stores_vars => DaemonInv'
    BY DaemonMove, DaemonStep
  <1>3. DaemonInv => NoEarlierDaemon
    BY DEF DaemonInv, NoEarlierDaemon, R!NoEarlierDaemon
  <1> QED
    BY <1>1, <1>2, <1>3, PTL DEF StoresSpec

-----------------------------------------------------------------------------
(* The values of the OAuth server's state. Unlike TypeOK it says nothing   *)
(* of the limits: the three properties do not depend on them.              *)
Forms ==
    /\ clock \in Nat \ {0} /\ asked_for \in 0..MaxAuthorizations
    /\ waiting \subseteq 1..asked_for
    /\ codes \in [O!Authorizations -> Nat]
    /\ issued \in 0..MaxIssues /\ grants \subseteq 1..issued
    /\ revoked_at \in [O!Issues -> Nat] /\ begun_by \in [O!Issues -> 0..asked_for]
    /\ family \in [O!Issues -> 0..issued]
    /\ access \in [O!Issues -> Nat] /\ expires \in [O!Issues -> Nat]
    /\ tokens \in [O!Issues -> {"none", "unused", "used"}]
    /\ uses \in [O!Issues -> 0..2]

(* What each thread is about to commit names an authorization or an issue  *)
(* there is, at a time that has been.                                      *)
Threads ==
    /\ busy \in [Workers -> [op : {"free", "insert", "exchange", "rotate", "revoke"},
                             arg : Nat, now : Nat]]
    /\ \A w \in Workers :
           /\ busy[w].op # "free" => busy[w].now \in 1..clock
           /\ busy[w].op \in {"insert", "exchange"} => busy[w].arg \in 1..asked_for
           /\ busy[w].op \in {"rotate", "revoke"} => busy[w].arg \in 1..issued

(* An issue that was not made has no family, tokens or uses; one that was  *)
(* made has a family.                                                      *)
Unissued ==
    \A i \in O!Issues :
        /\ i > issued => /\ family[i] = 0 /\ begun_by[i] = 0 /\ access[i] = 0
                         /\ tokens[i] = "none" /\ uses[i] = 0
        /\ i <= issued => family[i] # 0

(* An approved authorization whose code a thread is about to store.        *)
Inserting(a) == \E w \in Workers : busy[w].op = "insert" /\ busy[w].arg = a

(* An authorization is in one place: waiting, taken by one thread that     *)
(* stores its code, a code, or spent on one grant.                         *)
CodesOnce ==
    /\ \A a \in O!Authorizations :
           /\ codes[a] # 0 => a <= asked_for /\ a \notin waiting /\ ~Inserting(a)
           /\ a \in waiting => ~Inserting(a)
    /\ \A v, w \in Workers :
           busy[v].op = "insert" /\ busy[w].op = "insert" /\ busy[v].arg = busy[w].arg => v = w
    /\ \A i \in O!Issues, a \in O!Authorizations : begun_by[i] = a =>
           /\ codes[a] = 0 /\ a \notin waiting /\ ~Inserting(a)
           /\ \A j \in O!Issues : begun_by[j] = a => j = i

(* A family has at most one access token row and one refresh token that    *)
(* was not used.                                                           *)
OneEach ==
    \A i, j \in O!Issues : family[i] = family[j] /\ i # j =>
        /\ access[i] = 0 \/ access[j] = 0
        /\ ~(tokens[i] = "unused" /\ tokens[j] = "unused")

(* A family one of whose tokens was used twice has no token rows.          *)
Ended ==
    \A i \in O!Issues : uses[i] = 2 =>
        \A j \in O!Issues : family[j] = family[i] => access[j] = 0 /\ tokens[j] = "none"

(* Used tokens of a grant that stands are there until they expire, and a   *)
(* token that can still be used was not.                                   *)
Evidence ==
    \A i \in O!Issues :
        /\ uses[i] = 1 /\ expires[i] > clock /\ O!Live(family[i]) => tokens[i] = "used"
        /\ tokens[i] = "unused" => uses[i] = 0

(* The inductive invariant of the OAuth server.                            *)
OAuthInv == Forms /\ Threads /\ Unissued /\ CodesOnce /\ OneEach /\ Ended /\ Evidence

(* Whatever part moves, the variables of OAuth take a step of it or stay.  *)
LEMMA OAuthMove ==
    ASSUME [StoresNext]_stores_vars
    PROVE  O!Next \/ UNCHANGED O!auth_vars
  BY DEF StoresNext, stores_vars, oauth, O!auth_vars, O!store

(* Nothing is asked for, stored or issued at first.                        *)
LEMMA OAuthInit == ASSUME StoresInit PROVE OAuthInv
  BY StoresConstants DEF StoresInit, OAuthInv, Forms, Threads, Unissued, Inserting,
     CodesOnce, OneEach,
         Ended, Evidence, O!Init, O!Issues, O!Authorizations, O!Free, O!Live

(* What prune_database_tx leaves at a time that has been: rows go or stay  *)
(* as they are, and a refresh token that has not expired by now stays,     *)
(* although the transaction may have read the clock long before it         *)
(* commits.                                                                *)
LEMMA Pruned ==
    ASSUME Forms, NEW now \in Nat, now <= clock
    PROVE  /\ O!KeptCodes(now) \in [O!Authorizations -> Nat]
           /\ \A a \in O!Authorizations : O!KeptCodes(now)[a] \in {0, codes[a]}
           /\ O!KeptAccess(now) \in [O!Issues -> Nat]
           /\ \A i \in O!Issues : O!KeptAccess(now)[i] \in {0, access[i]}
           /\ O!KeptTokens(now) \in [O!Issues -> {"none", "unused", "used"}]
           /\ \A i \in O!Issues :
                  /\ O!KeptTokens(now)[i] \in {"none", tokens[i]}
                  /\ expires[i] > clock => O!KeptTokens(now)[i] = tokens[i]
           /\ O!KeptGrants(now) \subseteq grants
  <1> USE DEF Forms
  <1>1. /\ O!KeptCodes(now) \in [O!Authorizations -> Nat]
        /\ \A a \in O!Authorizations : O!KeptCodes(now)[a] \in {0, codes[a]}
    BY DEF O!KeptCodes, O!Fresh
  <1>2. /\ O!KeptAccess(now) \in [O!Issues -> Nat]
        /\ \A i \in O!Issues : O!KeptAccess(now)[i] \in {0, access[i]}
    BY DEF O!KeptAccess, O!Fresh
  <1>3. /\ O!KeptTokens(now) \in [O!Issues -> {"none", "unused", "used"}]
        /\ \A i \in O!Issues :
               /\ O!KeptTokens(now)[i] \in {"none", tokens[i]}
               /\ expires[i] > clock => O!KeptTokens(now)[i] = tokens[i]
    BY DEF O!KeptTokens, O!Kept
  <1>4. O!KeptGrants(now) \subseteq grants
    BY DEF O!KeptGrants
  <1> QED
    BY <1>1, <1>2, <1>3, <1>4


(* A step that makes no issue: token rows go or stay, and those of a grant *)
(* that stands after it, if they have not expired, stay.                   *)
Shrinks ==
    /\ clock' >= clock /\ UNCHANGED <<issued, family, begun_by, expires>>
    /\ \A i \in O!Issues :
           /\ access'[i] \in {0, access[i]} /\ tokens'[i] \in {"none", tokens[i]}
           /\ expires[i] > clock /\ family[i] \in grants' /\ revoked_at'[family[i]] = 0 =>
                  O!Live(family[i]) /\ tokens'[i] = tokens[i]

(* Such a step keeps what the invariant says of tokens.                    *)
LEMMA ShrinkKeeps ==
    ASSUME Forms, Forms', Unissued, OneEach, Evidence, Shrinks
    PROVE  /\ OneEach'
           /\ uses' = uses => Unissued' /\ Evidence'
           /\ uses' = uses /\ Ended => Ended'
  <1>1. OneEach'
    BY DEF OneEach, Shrinks
  <1>2. ASSUME uses' = uses PROVE Unissued'
    BY <1>2 DEF Unissued, Shrinks
  <1>3. ASSUME uses' = uses PROVE Evidence'
    BY <1>3 DEF Forms, Evidence, Shrinks, O!Live
  <1>4. ASSUME uses' = uses, Ended PROVE Ended'
    BY <1>4 DEF Forms, Ended, Shrinks
  <1> QED
    BY <1>1, <1>2, <1>3, <1>4

(* A step that stores no code and spends none on a grant.                  *)
NoNewCode ==
    /\ asked_for' = asked_for /\ waiting' \subseteq waiting /\ UNCHANGED begun_by
    /\ \A a \in O!Authorizations : codes'[a] \in {0, codes[a]}
    /\ \A w \in Workers : busy'[w].op = "insert" => busy'[w] = busy[w]

(* Such a step leaves every authorization in its one place.                *)
LEMMA NoNewCodeKeeps ==
    ASSUME Forms, CodesOnce, NoNewCode PROVE CodesOnce'
  <1>1. \A a : Inserting(a)' => Inserting(a)
    BY DEF NoNewCode, Inserting
  <1>2. \A a \in O!Authorizations :
           /\ codes'[a] # 0 => a <= asked_for' /\ a \notin waiting' /\ ~Inserting(a)'
           /\ a \in waiting' => ~Inserting(a)'
    BY <1>1 DEF NoNewCode, CodesOnce, Forms
  <1>3. \A v, w \in Workers :
           busy'[v].op = "insert" /\ busy'[w].op = "insert" /\ busy'[v].arg = busy'[w].arg => v = w
    BY DEF NoNewCode, CodesOnce
  <1>4. \A i \in O!Issues, a \in O!Authorizations : begun_by'[i] = a =>
           /\ codes'[a] = 0 /\ a \notin waiting' /\ ~Inserting(a)'
           /\ \A j \in O!Issues : begun_by'[j] = a => j = i
    BY <1>1 DEF NoNewCode, CodesOnce
  <1> QED
    BY <1>2, <1>3, <1>4 DEF CodesOnce

(* A step that leaves the token tables alone is one that makes no issue.   *)
LEMMA StoreStays ==
    ASSUME clock' >= clock,
           UNCHANGED <<grants, revoked_at, begun_by, issued, family, access, expires, tokens>>
    PROVE  Shrinks
  BY DEF Shrinks, O!Live

(* Time passes.                                                            *)
LEMMA TickKeeps ==
    ASSUME OAuthInv, O!Tick
    PROVE  OAuthInv'
  <1> USE StoresConstants DEF O!Issues, O!Authorizations
  <1>0. /\ clock' = clock + 1
        /\ UNCHANGED <<asked_for, waiting, codes, grants, revoked_at, begun_by, issued, family,
                       access, expires, tokens, uses, busy>>
    BY DEF O!Tick, O!store
  <1>1. Forms'
    <2>1. clock' \in Nat \ {0}
      BY <1>0 DEF OAuthInv, Forms
    <2> QED
      BY <1>0, <2>1 DEF OAuthInv, Forms
  <1>2. Threads'
    BY <1>0 DEF OAuthInv, Forms, Threads
  <1>7. clock' >= clock
    BY <1>0 DEF OAuthInv, Forms
  <1>3. Shrinks /\ uses' = uses
    BY <1>0, <1>7, StoreStays
  <1>4. NoNewCode
    BY <1>0 DEF NoNewCode
  <1>8. Unissued' /\ OneEach' /\ Ended' /\ Evidence'
    BY <1>1, <1>3, ShrinkKeeps DEF OAuthInv
  <1>9. CodesOnce'
    BY <1>4, NoNewCodeKeeps DEF OAuthInv
  <1> QED
    BY <1>1, <1>2, <1>8, <1>9 DEF OAuthInv

(* insert_pending: a new authorization waits; others may be dropped.       *)
LEMMA AuthorizeKeeps ==
    ASSUME OAuthInv, O!Authorize
    PROVE  OAuthInv'
  <1> USE StoresConstants DEF O!Issues, O!Authorizations
  <1>0. /\ asked_for' = asked_for + 1 /\ asked_for' <= MaxAuthorizations
        /\ waiting' \subseteq waiting \cup {asked_for + 1}
        /\ UNCHANGED <<clock, codes, grants, revoked_at, begun_by, issued, family, access,
                       expires, tokens, uses, busy>>
    BY DEF O!Authorize, O!store, OAuthInv, Forms
  <1>1. Forms'
    <2>1. asked_for' \in 0..MaxAuthorizations /\ waiting' \subseteq 1..asked_for'
      BY <1>0 DEF OAuthInv, Forms
    <2>2. begun_by' \in [O!Issues -> 0..asked_for']
      BY <1>0 DEF OAuthInv, Forms
    <2> QED
      BY <1>0, <2>1, <2>2 DEF OAuthInv, Forms
  <1>2. Threads'
    BY <1>0 DEF OAuthInv, Forms, Threads
  <1>7. clock' >= clock
    BY <1>0 DEF OAuthInv, Forms
  <1>3. Shrinks /\ uses' = uses
    BY <1>0, <1>7, StoreStays
  <1>8. Unissued' /\ OneEach' /\ Ended' /\ Evidence'
    BY <1>1, <1>3, ShrinkKeeps DEF OAuthInv
  <1>9. CodesOnce'
    <2>1. \A a : Inserting(a)' <=> Inserting(a)
      BY <1>0 DEF Inserting
    <2>2. \A a \in O!Authorizations : a > asked_for => codes[a] = 0 /\ ~Inserting(a)
      BY DEF OAuthInv, Forms, Threads, CodesOnce, Inserting
    <2>3. \A i \in O!Issues : begun_by[i] <= asked_for
      BY DEF OAuthInv, Forms
    <2>4. \A a \in O!Authorizations : a \in waiting' /\ a <= asked_for => a \in waiting
      BY <1>0 DEF OAuthInv, Forms
    <2>5. asked_for \in Nat /\ \A i \in O!Issues : begun_by[i] \in Nat
      BY DEF OAuthInv, Forms
    <2>6. /\ UNCHANGED <<codes, begun_by, busy>> /\ asked_for' = asked_for + 1
      BY <1>0
    <2>7. \A a \in O!Authorizations :
              /\ codes[a] # 0 => a <= asked_for + 1 /\ a \notin waiting' /\ ~Inserting(a)
              /\ a \in waiting' => ~Inserting(a)
      BY <2>2, <2>4, <2>5 DEF OAuthInv, CodesOnce
    <2>8. \A i \in O!Issues, a \in O!Authorizations : begun_by[i] = a =>
              /\ codes[a] = 0 /\ a \notin waiting' /\ ~Inserting(a)
              /\ \A j \in O!Issues : begun_by[j] = a => j = i
      BY <2>3, <2>4, <2>5 DEF OAuthInv, CodesOnce
    <2> QED
      BY <2>1, <2>6, <2>7, <2>8 DEF OAuthInv, CodesOnce
  <1> QED
    BY <1>1, <1>2, <1>8, <1>9 DEF OAuthInv

(* revoke_all: every grant is revoked, and every row goes.                 *)
LEMMA RevokeAllKeeps ==
    ASSUME OAuthInv, O!RevokeAll
    PROVE  OAuthInv'
  <1> USE StoresConstants DEF O!Issues, O!Authorizations
  <1>1. Forms'
    <2>1. /\ revoked_at' \in [O!Issues -> Nat] /\ access' \in [O!Issues -> Nat]
          /\ tokens' \in [O!Issues -> {"none", "unused", "used"}]
          /\ codes' \in [O!Authorizations -> Nat]
      BY DEF OAuthInv, Forms, O!RevokeAll
    <2> QED
      BY <2>1 DEF OAuthInv, Forms, O!RevokeAll
  <1>2. Threads'
    BY DEF OAuthInv, Threads, O!RevokeAll
  <1>3. Shrinks /\ uses' = uses
    <2>1. \A g \in grants : g \in O!Issues
      BY DEF OAuthInv, Forms
    <2>2. \A g \in grants' : revoked_at'[g] # 0
      BY <2>1 DEF OAuthInv, Forms, O!RevokeAll
    <2>3. clock' >= clock
      BY DEF OAuthInv, Forms, O!RevokeAll
    <2>4. \A i \in O!Issues : access'[i] = 0 /\ tokens'[i] = "none"
      BY DEF O!RevokeAll
    <2> QED
      BY <2>2, <2>3, <2>4 DEF Shrinks, O!RevokeAll
  <1>4. NoNewCode
    BY DEF NoNewCode, O!RevokeAll
  <1>8. Unissued' /\ OneEach' /\ Ended' /\ Evidence'
    BY <1>1, <1>3, ShrinkKeeps DEF OAuthInv
  <1>9. CodesOnce'
    BY <1>4, NoNewCodeKeeps DEF OAuthInv
  <1> QED
    BY <1>1, <1>2, <1>8, <1>9 DEF OAuthInv

(* A thread has a code to exchange.                                        *)
LEMMA ReceiveCodeKeeps ==
    ASSUME OAuthInv, NEW w \in Workers, NEW a \in 1..asked_for, O!Receive(w, "exchange", a)
    PROVE  OAuthInv'
  <1> USE StoresConstants DEF O!Issues, O!Authorizations
  <1>0. /\ busy' = [busy EXCEPT ![w] = [op |-> "exchange", arg |-> a, now |-> clock]]
        /\ UNCHANGED <<clock, asked_for, waiting, codes, grants, revoked_at, begun_by, issued,
                       family, access, expires, tokens, uses>>
    BY DEF O!Receive, O!store
  <1>1. Forms'
    BY <1>0 DEF OAuthInv, Forms
  <1>2. Threads'
    <2>1. a \in Nat /\ clock \in Nat /\ clock \in 1..clock
      BY DEF OAuthInv, Forms
    <2> QED
      BY <1>0, <2>1 DEF OAuthInv, Threads
  <1>7. clock' >= clock
    BY <1>0 DEF OAuthInv, Forms
  <1>3. Shrinks /\ uses' = uses
    BY <1>0, <1>7, StoreStays
  <1>4. NoNewCode
    BY <1>0 DEF OAuthInv, Threads, NoNewCode
  <1>8. Unissued' /\ OneEach' /\ Ended' /\ Evidence'
    BY <1>1, <1>3, ShrinkKeeps DEF OAuthInv
  <1>9. CodesOnce'
    BY <1>4, NoNewCodeKeeps DEF OAuthInv
  <1> QED
    BY <1>1, <1>2, <1>8, <1>9 DEF OAuthInv

(* A thread has a token to rotate or to revoke.                            *)
LEMMA ReceiveTokenKeeps ==
    ASSUME OAuthInv, NEW w \in Workers, NEW i \in 1..issued, NEW op \in {"rotate", "revoke"},
           O!Receive(w, op, i)
    PROVE  OAuthInv'
  <1> USE StoresConstants DEF O!Issues, O!Authorizations
  <1>0. /\ busy' = [busy EXCEPT ![w] = [op |-> op, arg |-> i, now |-> clock]]
        /\ UNCHANGED <<clock, asked_for, waiting, codes, grants, revoked_at, begun_by, issued,
                       family, access, expires, tokens, uses>>
    BY DEF O!Receive, O!store
  <1>1. Forms'
    BY <1>0 DEF OAuthInv, Forms
  <1>2. Threads'
    <2>1. i \in Nat /\ clock \in Nat /\ clock \in 1..clock
      BY DEF OAuthInv, Forms
    <2> QED
      BY <1>0, <2>1 DEF OAuthInv, Threads
  <1>7. clock' >= clock
    BY <1>0 DEF OAuthInv, Forms
  <1>3. Shrinks /\ uses' = uses
    BY <1>0, <1>7, StoreStays
  <1>4. NoNewCode
    BY <1>0 DEF OAuthInv, Threads, NoNewCode
  <1>8. Unissued' /\ OneEach' /\ Ended' /\ Evidence'
    BY <1>1, <1>3, ShrinkKeeps DEF OAuthInv
  <1>9. CodesOnce'
    BY <1>4, NoNewCodeKeeps DEF OAuthInv
  <1> QED
    BY <1>1, <1>2, <1>8, <1>9 DEF OAuthInv

(* A thread gives up before its transaction commits.                       *)
LEMMA RefuseKeeps ==
    ASSUME OAuthInv, NEW w \in Workers, O!Refuse(w)
    PROVE  OAuthInv'
  <1> USE StoresConstants DEF O!Issues, O!Authorizations
  <1>0. /\ busy' = [busy EXCEPT ![w] = O!Free]
        /\ UNCHANGED <<clock, asked_for, waiting, codes, grants, revoked_at, begun_by, issued,
                       family, access, expires, tokens, uses>>
    BY DEF O!Refuse, O!store, O!Done
  <1>1. Forms'
    BY <1>0 DEF OAuthInv, Forms
  <1>2. Threads'
    BY <1>0 DEF OAuthInv, Threads, O!Free
  <1>7. clock' >= clock
    BY <1>0 DEF OAuthInv, Forms
  <1>3. Shrinks /\ uses' = uses
    BY <1>0, <1>7, StoreStays
  <1>4. NoNewCode
    BY <1>0 DEF OAuthInv, Threads, NoNewCode, O!Free
  <1>8. Unissued' /\ OneEach' /\ Ended' /\ Evidence'
    BY <1>1, <1>3, ShrinkKeeps DEF OAuthInv
  <1>9. CodesOnce'
    BY <1>4, NoNewCodeKeeps DEF OAuthInv
  <1> QED
    BY <1>1, <1>2, <1>8, <1>9 DEF OAuthInv

(* authorize_post: the one thread that finds the request waiting may store *)
(* its code.                                                               *)
LEMMA DecideKeeps ==
    ASSUME OAuthInv, NEW w \in Workers, NEW a \in O!Authorizations, NEW approve \in BOOLEAN,
           O!Decide(w, a, approve)
    PROVE  OAuthInv'
  <1> USE StoresConstants DEF O!Issues, O!Authorizations
  <1>0. /\ a \in waiting /\ waiting' = waiting \ {a}
        /\ UNCHANGED <<clock, asked_for, codes, grants, revoked_at, begun_by, issued,
                       family, access, expires, tokens, uses>>
    BY DEF O!Decide, O!store
  <1>1. Forms'
    BY <1>0 DEF OAuthInv, Forms
  <1>7. clock' >= clock
    BY <1>0 DEF OAuthInv, Forms
  <1>3. Shrinks /\ uses' = uses
    BY <1>0, <1>7, StoreStays
  <1>8. Unissued' /\ OneEach' /\ Ended' /\ Evidence'
    BY <1>1, <1>3, ShrinkKeeps DEF OAuthInv
  <1>5. CASE ~approve
    <2>1. busy' = busy
      BY <1>5 DEF O!Decide
    <2>2. NoNewCode
      BY <1>0, <2>1 DEF NoNewCode
    <2>3. Threads'
      BY <1>0, <2>1 DEF OAuthInv, Threads
    <2> QED
      BY <1>1, <1>8, <2>2, <2>3, NoNewCodeKeeps DEF OAuthInv
  <1>6. CASE approve
    <2>1. busy' = [busy EXCEPT ![w] = [op |-> "insert", arg |-> a, now |-> clock]]
      BY <1>6 DEF O!Decide
    <2>2. a \in Nat /\ a \in 1..asked_for /\ clock \in Nat /\ clock \in 1..clock
      BY <1>0 DEF OAuthInv, Forms
    <2>3. Threads'
      BY <1>0, <2>1, <2>2 DEF OAuthInv, Threads
    <2>4. CodesOnce'
      <3>1. /\ busy'[w].op = "insert" /\ busy'[w].arg = a
            /\ \A v \in Workers : v # w => busy'[v] = busy[v]
        BY <2>1 DEF OAuthInv, Threads
      <3>2. \A b : Inserting(b)' => Inserting(b) \/ b = a
        BY <3>1 DEF Inserting
      <3>3. ~Inserting(a) /\ codes[a] = 0 /\ \A i \in O!Issues : begun_by[i] # a
        BY <1>0 DEF OAuthInv, CodesOnce
      <3>4. \A b \in O!Authorizations :
               /\ codes'[b] # 0 => b <= asked_for' /\ b \notin waiting' /\ ~Inserting(b)'
               /\ b \in waiting' => ~Inserting(b)'
        BY <1>0, <3>2, <3>3 DEF OAuthInv, CodesOnce
      <3>5. \A u, v \in Workers :
               busy'[u].op = "insert" /\ busy'[v].op = "insert" /\ busy'[u].arg = busy'[v].arg
               => u = v
        BY <3>1, <3>3 DEF OAuthInv, CodesOnce, Inserting
      <3>6. \A i \in O!Issues, b \in O!Authorizations : begun_by'[i] = b =>
               /\ codes'[b] = 0 /\ b \notin waiting' /\ ~Inserting(b)'
               /\ \A j \in O!Issues : begun_by'[j] = b => j = i
        BY <1>0, <3>2, <3>3 DEF OAuthInv, CodesOnce
      <3> QED
        BY <3>4, <3>5, <3>6 DEF CodesOnce
    <2> QED
      BY <1>1, <1>8, <2>3, <2>4 DEF OAuthInv
  <1> QED
    BY <1>5, <1>6

(* Grants are numbered by issues, and the clock has started.               *)
LEMMA GrantsAreIssues ==
    ASSUME Forms
    PROVE  /\ grants \subseteq O!Issues /\ clock \in Nat /\ clock # 0
           /\ revoked_at \in [O!Issues -> Nat]
  <1>1. grants \subseteq 1..issued /\ issued \in Nat /\ issued <= MaxIssues
    BY StoresConstants DEF Forms
  <1>2. grants \subseteq O!Issues
    BY <1>1, StoresConstants DEF O!Issues
  <1> QED
    BY <1>2 DEF Forms

(* insert_code: the code of the authorization the thread took, which no    *)
(* other thread has.                                                       *)
LEMMA InsertCodeKeeps ==
    ASSUME OAuthInv, NEW w \in Workers, O!InsertCode(w)
    PROVE  OAuthInv'
  <1> DEFINE now == busy[w].now
  <1>11. now \in Nat \ {0} /\ now <= clock
    BY DEF OAuthInv, Forms, Threads, O!InsertCode
  <1> HIDE DEF now
  <1>20. /\ O!KeptCodes(now) \in [O!Authorizations -> Nat]
         /\ \A b \in O!Authorizations : O!KeptCodes(now)[b] \in {0, codes[b]}
    BY <1>11, Pruned DEF OAuthInv
  <1>21. /\ O!KeptAccess(now) \in [O!Issues -> Nat]
         /\ \A i \in O!Issues : O!KeptAccess(now)[i] \in {0, access[i]}
    BY <1>11, Pruned DEF OAuthInv
  <1>22. /\ O!KeptTokens(now) \in [O!Issues -> {"none", "unused", "used"}]
         /\ \A i \in O!Issues :
                /\ O!KeptTokens(now)[i] \in {"none", tokens[i]}
                /\ expires[i] > clock => O!KeptTokens(now)[i] = tokens[i]
    BY <1>11, Pruned DEF OAuthInv
  <1>23. O!KeptGrants(now) \subseteq grants
    BY <1>11, Pruned DEF OAuthInv
  <1>0. /\ busy' = [busy EXCEPT ![w] = O!Free]
        /\ \A v \in Workers : v # w => busy'[v] = busy[v]
        /\ busy'[w].op = "free"
    BY DEF OAuthInv, Threads, O!InsertCode, O!Done, O!Free
  <1>2. Threads'
    <2>1. O!Free \in [op : {"free", "insert", "exchange", "rotate", "revoke"}, arg : Nat, now : Nat]
      BY DEF O!Free
    <2>2. asked_for' = asked_for /\ clock' = clock /\ issued \in Nat /\ issued' \in Nat /\ issued' >= issued
      BY  DEF OAuthInv, Forms, O!InsertCode
    <2> QED
      BY <1>0, <2>1, <2>2 DEF OAuthInv, Threads
  <1> DEFINE a == busy[w].arg
  <1>12. a \in 1..asked_for /\ a \in O!Authorizations /\ Inserting(a)
    BY StoresConstants DEF OAuthInv, Forms, Threads, O!Authorizations, O!InsertCode, Inserting
  <1>13. /\ codes' = [O!KeptCodes(now) EXCEPT ![a] = now + CodeTtl]
        /\ grants' = O!KeptGrants(now) /\ access' = O!KeptAccess(now) /\ tokens' = O!KeptTokens(now)
        /\ UNCHANGED <<clock, asked_for, waiting, revoked_at, begun_by, issued, family, expires,
                       uses>>
    BY DEF O!InsertCode, now
  <1>14. \A v \in Workers : busy[v].op = "insert" /\ busy[v].arg = a => v = w
    BY DEF OAuthInv, CodesOnce, O!InsertCode
  <1> HIDE DEF a
  <1>1. Forms'
    <2>1. codes' \in [O!Authorizations -> Nat]
      BY <1>12, <1>13, <1>20, <1>21, <1>22, <1>23, <1>11, StoresConstants
    <2>2. grants' \subseteq 1..issued
      BY <1>20, <1>21, <1>22, <1>23, <1>13 DEF OAuthInv, Forms
    <2>3. /\ access' \in [O!Issues -> Nat] /\ tokens' \in [O!Issues -> {"none", "unused", "used"}]
      BY <1>20, <1>21, <1>22, <1>23, <1>13
    <2> QED
      BY <1>13, <2>1, <2>2, <2>3 DEF OAuthInv, Forms
  <1>3. Shrinks /\ uses' = uses
    <2>1. clock' >= clock
      BY <1>13 DEF OAuthInv, Forms
    <2>2. \A i \in O!Issues :
              /\ access'[i] \in {0, access[i]} /\ tokens'[i] \in {"none", tokens[i]}
              /\ expires[i] > clock => tokens'[i] = tokens[i]
      BY <1>20, <1>21, <1>22, <1>23, <1>13
    <2>3. \A g : g \in grants' /\ revoked_at'[g] = 0 => O!Live(g)
      BY <1>20, <1>21, <1>22, <1>23, <1>13 DEF O!Live
    <2> QED
      BY <1>13, <2>1, <2>2, <2>3 DEF Shrinks
  <1>8. Unissued' /\ OneEach' /\ Ended' /\ Evidence'
    BY <1>1, <1>3, ShrinkKeeps DEF OAuthInv
  <1>9. CodesOnce'
    <2>1. \A b : Inserting(b)' => Inserting(b) /\ b # a
      BY <1>0, <1>14 DEF Inserting
    <2>2. \A b \in O!Authorizations : b # a => codes'[b] \in {0, codes[b]}
      BY <1>12, <1>13, <1>20, <1>21, <1>22, <1>23
    <2>3. a \notin waiting /\ \A i \in O!Issues : begun_by[i] # a
      BY <1>12 DEF OAuthInv, CodesOnce
    <2>4. a <= asked_for
      BY <1>12 DEF OAuthInv, Forms
    <2>5. \A b \in O!Authorizations :
             /\ codes'[b] # 0 => b <= asked_for' /\ b \notin waiting' /\ ~Inserting(b)'
             /\ b \in waiting' => ~Inserting(b)'
      BY <1>13, <2>1, <2>2, <2>3, <2>4 DEF OAuthInv, CodesOnce
    <2>6. \A u, v \in Workers :
             busy'[u].op = "insert" /\ busy'[v].op = "insert" /\ busy'[u].arg = busy'[v].arg
             => u = v
      BY <1>0 DEF OAuthInv, CodesOnce
    <2>7. \A i \in O!Issues, b \in O!Authorizations : begun_by'[i] = b =>
             /\ codes'[b] = 0 /\ b \notin waiting' /\ ~Inserting(b)'
             /\ \A j \in O!Issues : begun_by'[j] = b => j = i
      BY <1>13, <2>1, <2>2, <2>3 DEF OAuthInv, CodesOnce
    <2> QED
      BY <2>5, <2>6, <2>7 DEF CodesOnce
  <1> QED
    BY <1>1, <1>2, <1>8, <1>9 DEF OAuthInv

(* revoke: the rows of the family go with the grant's revocation.          *)
LEMMA RevokeKeeps ==
    ASSUME OAuthInv, NEW w \in Workers, O!Revoke(w)
    PROVE  OAuthInv'
  <1>0. /\ busy' = [busy EXCEPT ![w] = O!Free]
        /\ \A v \in Workers : v # w => busy'[v] = busy[v]
        /\ busy'[w].op = "free"
    BY DEF OAuthInv, Threads, O!Revoke, O!Done, O!Free
  <1>2. Threads'
    <2>1. O!Free \in [op : {"free", "insert", "exchange", "rotate", "revoke"}, arg : Nat, now : Nat]
      BY DEF O!Free
    <2>2. asked_for' = asked_for /\ clock' = clock /\ issued \in Nat /\ issued' \in Nat /\ issued' >= issued
      BY  DEF OAuthInv, Forms, O!Revoke
    <2> QED
      BY <1>0, <2>1, <2>2 DEF OAuthInv, Threads
  <1> DEFINE g == family[busy[w].arg]
  <1>13. /\ g \in grants /\ g \in O!Issues
        /\ revoked_at' = [revoked_at EXCEPT ![g] = clock]
        /\ access' = [j \in O!Issues |-> IF family[j] = g THEN 0 ELSE access[j]]
        /\ tokens' = [j \in O!Issues |-> IF family[j] = g THEN "none" ELSE tokens[j]]
        /\ UNCHANGED <<clock, asked_for, waiting, codes, grants, begun_by, issued, family,
                       expires, uses>>
    <2>1. g \in grants
      BY DEF O!Revoke
    <2>2. g \in O!Issues
      BY <2>1, GrantsAreIssues DEF OAuthInv
    <2> QED
      BY <2>1, <2>2 DEF O!Revoke
  <1> HIDE DEF g
  <1>1. Forms'
    <2>1. /\ revoked_at' \in [O!Issues -> Nat] /\ access' \in [O!Issues -> Nat]
          /\ tokens' \in [O!Issues -> {"none", "unused", "used"}]
      BY <1>13 DEF OAuthInv, Forms
    <2> QED
      BY <1>13, <2>1 DEF OAuthInv, Forms
  <1>3. Shrinks /\ uses' = uses
    <2>1. clock' >= clock /\ clock # 0 /\ revoked_at \in [O!Issues -> Nat] /\ grants \subseteq O!Issues
      BY <1>13, GrantsAreIssues DEF OAuthInv
    <2>2. \A i \in O!Issues : family[i] \in grants' /\ revoked_at'[family[i]] = 0 =>
              /\ O!Live(family[i]) /\ family[i] # g
      BY <1>13, <2>1 DEF O!Live
    <2> QED
      BY <1>13, <2>1, <2>2 DEF Shrinks
  <1>4. NoNewCode
    BY <1>0, <1>13 DEF NoNewCode
  <1>8. Unissued' /\ OneEach' /\ Ended' /\ Evidence'
    BY <1>1, <1>3, ShrinkKeeps DEF OAuthInv
  <1>9. CodesOnce'
    BY <1>4, NoNewCodeKeeps DEF OAuthInv
  <1> QED
    BY <1>1, <1>2, <1>8, <1>9 DEF OAuthInv

(* rotate_refresh on a used token: the family ends in the same commit.     *)
LEMMA RotateReusedKeeps ==
    ASSUME OAuthInv, NEW w \in Workers, O!RotateReused(w)
    PROVE  OAuthInv'
  <1> DEFINE now == busy[w].now
  <1>11. now \in Nat \ {0} /\ now <= clock
    BY DEF OAuthInv, Forms, Threads, O!RotateReused, O!Finds
  <1> HIDE DEF now
  <1>20. /\ O!KeptCodes(now) \in [O!Authorizations -> Nat]
         /\ \A b \in O!Authorizations : O!KeptCodes(now)[b] \in {0, codes[b]}
    BY <1>11, Pruned DEF OAuthInv
  <1>21. /\ O!KeptAccess(now) \in [O!Issues -> Nat]
         /\ \A i \in O!Issues : O!KeptAccess(now)[i] \in {0, access[i]}
    BY <1>11, Pruned DEF OAuthInv
  <1>22. /\ O!KeptTokens(now) \in [O!Issues -> {"none", "unused", "used"}]
         /\ \A i \in O!Issues :
                /\ O!KeptTokens(now)[i] \in {"none", tokens[i]}
                /\ expires[i] > clock => O!KeptTokens(now)[i] = tokens[i]
    BY <1>11, Pruned DEF OAuthInv
  <1>23. O!KeptGrants(now) \subseteq grants
    BY <1>11, Pruned DEF OAuthInv
  <1>0. /\ busy' = [busy EXCEPT ![w] = O!Free]
        /\ \A v \in Workers : v # w => busy'[v] = busy[v]
        /\ busy'[w].op = "free"
    BY DEF OAuthInv, Threads, O!RotateReused, O!Done, O!Free
  <1>2. Threads'
    <2>1. O!Free \in [op : {"free", "insert", "exchange", "rotate", "revoke"}, arg : Nat, now : Nat]
      BY DEF O!Free
    <2>2. asked_for' = asked_for /\ clock' = clock /\ issued \in Nat /\ issued' \in Nat /\ issued' >= issued
      BY  DEF OAuthInv, Forms, O!RotateReused
    <2> QED
      BY <1>0, <2>1, <2>2 DEF OAuthInv, Threads
  <1> DEFINE old == busy[w].arg
             g == family[old]
  <1>12. old \in O!Issues
    BY StoresConstants DEF OAuthInv, Forms, Threads, O!Issues, O!RotateReused, O!Finds
  <1>13. /\ g \in O!KeptGrants(now)
        /\ codes' = O!KeptCodes(now) /\ grants' = O!KeptGrants(now)
        /\ revoked_at' = [revoked_at EXCEPT ![g] = now]
        /\ access' = [i \in O!Issues |-> IF family[i] = g THEN 0 ELSE O!KeptAccess(now)[i]]
        /\ tokens' = [i \in O!Issues |-> IF family[i] = g THEN "none" ELSE O!KeptTokens(now)[i]]
        /\ uses' = [uses EXCEPT ![old] = 2]
        /\ UNCHANGED <<clock, asked_for, waiting, begun_by, issued, family, expires>>
    BY DEF O!RotateReused, O!Finds, now
  <1>14. g \in O!Issues /\ old <= issued
    <2>1. g \in O!Issues
      BY <1>20, <1>21, <1>22, <1>23, <1>13, GrantsAreIssues DEF OAuthInv
    <2>2. old <= issued
      BY DEF OAuthInv, Forms, Threads, O!RotateReused, O!Finds
    <2> QED
      BY <2>1, <2>2
  <1>15. \A i \in O!Issues : i # old => uses'[i] = uses[i]
    BY <1>12, <1>13 DEF OAuthInv, Forms
  <1>16. \A i \in O!Issues : family[i] = family[old] => access'[i] = 0 /\ tokens'[i] = "none"
    BY <1>13
  <1> HIDE DEF old, g
  <1>1. Forms'
    <2>1. /\ revoked_at' \in [O!Issues -> Nat] /\ access' \in [O!Issues -> Nat]
          /\ tokens' \in [O!Issues -> {"none", "unused", "used"}]
          /\ uses' \in [O!Issues -> 0..2]
      <3>1. revoked_at' \in [O!Issues -> Nat]
        BY <1>11, <1>13, GrantsAreIssues DEF OAuthInv
      <3>2. access' \in [O!Issues -> Nat]
        BY <1>20, <1>21, <1>22, <1>23, <1>13
      <3>3. tokens' \in [O!Issues -> {"none", "unused", "used"}]
        BY <1>20, <1>21, <1>22, <1>23, <1>13
      <3>4. uses' \in [O!Issues -> 0..2]
        <4>1. uses \in [O!Issues -> 0..2] /\ 2 \in 0..2
          BY DEF OAuthInv, Forms
        <4> QED
          BY <1>13, <4>1
      <3> QED
        BY <3>1, <3>2, <3>3, <3>4
    <2>2. grants' \subseteq 1..issued /\ codes' \in [O!Authorizations -> Nat]
      BY <1>20, <1>21, <1>22, <1>23, <1>13 DEF OAuthInv, Forms
    <2>3. UNCHANGED <<clock, asked_for, waiting, begun_by, issued, family, expires>>
      BY <1>13
    <2> QED
      BY <2>1, <2>2, <2>3 DEF OAuthInv, Forms
  <1>3. Shrinks
    <2>1. clock' >= clock /\ revoked_at \in [O!Issues -> Nat] /\ grants \subseteq O!Issues
      BY <1>13, GrantsAreIssues DEF OAuthInv
    <2>2. grants' \subseteq grants /\ revoked_at' = [revoked_at EXCEPT ![g] = now]
      BY <1>20, <1>21, <1>22, <1>23, <1>13
    <2>3. \A h : h \in grants' /\ revoked_at'[h] = 0 => O!Live(h) /\ h # g
      BY <1>11, <1>14, <2>1, <2>2 DEF O!Live
    <2>4. \A i \in O!Issues :
              /\ access'[i] \in {0, access[i]} /\ tokens'[i] \in {"none", tokens[i]}
              /\ family[i] # g /\ expires[i] > clock => tokens'[i] = tokens[i]
      BY <1>20, <1>21, <1>22, <1>23, <1>13
    <2> QED
      BY <1>13, <2>1, <2>3, <2>4 DEF Shrinks
  <1>4. NoNewCode
    BY <1>0, <1>13, <1>20, <1>21, <1>22, <1>23 DEF NoNewCode
  <1>5. OneEach'
    BY <1>1, <1>3, ShrinkKeeps DEF OAuthInv
  <1>6. Unissued'
    <2>1. old <= issued /\ old \in Nat /\ issued \in Nat /\ \A i \in O!Issues : i \in Nat
      BY <1>14, <1>12 DEF OAuthInv, Forms, O!Issues
    <2> QED
      BY <1>3, <1>15, <2>1 DEF OAuthInv, Unissued, Shrinks
  <1>7. Ended'
    <2> SUFFICES ASSUME NEW i \in O!Issues, uses'[i] = 2, NEW j \in O!Issues, family[j] = family[i]
                 PROVE  access'[j] = 0 /\ tokens'[j] = "none"
      BY <1>13 DEF Ended
    <2>1. CASE i = old
      BY <2>1, <1>16
    <2>2. CASE i # old
      BY <2>2, <1>15, <1>3 DEF OAuthInv, Ended, Shrinks
    <2> QED
      BY <2>1, <2>2
  <1>8. Evidence'
    <2>1. uses'[old] = 2
      BY <1>12, <1>13 DEF OAuthInv, Forms
    <2>2. \A i \in O!Issues : uses'[i] \in {1, 0} => i # old
      BY <2>1
    <2>3. \A i \in O!Issues :
            uses'[i] = 1 /\ expires[i] > clock /\ family[i] \in grants' /\ revoked_at'[family[i]] = 0
            => tokens'[i] = "used"
      BY <1>3, <1>15, <2>2 DEF OAuthInv, Evidence, Shrinks
    <2>4. \A i \in O!Issues : tokens'[i] = "unused" => uses'[i] = 0
      <3>1. tokens'[old] = "none"
        BY <1>12, <1>16
      <3> QED
        BY <1>3, <1>15, <3>1 DEF OAuthInv, Evidence, Shrinks
    <2> QED
      BY <1>13, <2>3, <2>4 DEF Evidence, O!Live
  <1>9. CodesOnce'
    BY <1>4, NoNewCodeKeeps DEF OAuthInv
  <1> QED
    BY <1>1, <1>2, <1>5, <1>6, <1>7, <1>8, <1>9 DEF OAuthInv

(* rotate_refresh on an unused token: it becomes evidence, and the new     *)
(* access and refresh token are the only ones of the family.               *)
LEMMA RotateKeeps ==
    ASSUME OAuthInv, NEW w \in Workers, O!Rotate(w)
    PROVE  OAuthInv'
  <1> DEFINE now == busy[w].now
  <1>11. now \in Nat \ {0} /\ now <= clock
    BY DEF OAuthInv, Forms, Threads, O!Rotate, O!Finds
  <1> HIDE DEF now
  <1>20. /\ O!KeptCodes(now) \in [O!Authorizations -> Nat]
         /\ \A b \in O!Authorizations : O!KeptCodes(now)[b] \in {0, codes[b]}
    BY <1>11, Pruned DEF OAuthInv
  <1>21. /\ O!KeptAccess(now) \in [O!Issues -> Nat]
         /\ \A i \in O!Issues : O!KeptAccess(now)[i] \in {0, access[i]}
    BY <1>11, Pruned DEF OAuthInv
  <1>22. /\ O!KeptTokens(now) \in [O!Issues -> {"none", "unused", "used"}]
         /\ \A i \in O!Issues :
                /\ O!KeptTokens(now)[i] \in {"none", tokens[i]}
                /\ expires[i] > clock => O!KeptTokens(now)[i] = tokens[i]
    BY <1>11, Pruned DEF OAuthInv
  <1>23. O!KeptGrants(now) \subseteq grants
    BY <1>11, Pruned DEF OAuthInv
  <1>0. /\ busy' = [busy EXCEPT ![w] = O!Free]
        /\ \A v \in Workers : v # w => busy'[v] = busy[v]
        /\ busy'[w].op = "free"
    BY DEF OAuthInv, Threads, O!Rotate, O!Done, O!Free
  <1> DEFINE old == busy[w].arg
             g == family[old]
             new == issued + 1
  <1>30. /\ new \in O!Issues /\ new \in 1..new /\ issued \in Nat /\ new \in Nat
         /\ new > issued /\ new <= MaxIssues
    BY StoresConstants DEF OAuthInv, Forms, O!Issues, O!Rotate, new
  <1>31. /\ family[new] = 0 /\ begun_by[new] = 0 /\ access[new] = 0 /\ tokens[new] = "none"
         /\ uses[new] = 0
    BY <1>30 DEF OAuthInv, Unissued
  <1>32. \A i \in O!Issues : /\ i \in Nat /\ family[i] \in Nat /\ family[i] <= issued /\ family[i] # new
                             /\ i # new => (i > new <=> i > issued) /\ (i <= new <=> i <= issued)
    BY <1>30 DEF OAuthInv, Forms, O!Issues, new
  <1>12. old \in O!Issues /\ old <= issued /\ old # new /\ g \in O!KeptGrants(now)
    <2>1. busy[w].op = "rotate"
      BY DEF O!Rotate, O!Finds
    <2>2. old \in 1..issued
      BY <2>1 DEF OAuthInv, Threads
    <2> QED
      <3>1. old \in O!Issues /\ old <= issued /\ old # new
        BY <1>30, <2>2, StoresConstants DEF O!Issues
      <3>2. g \in O!KeptGrants(now)
        BY DEF O!Rotate, O!Finds, now
      <3> QED
        BY <3>1, <3>2
  <1>13. /\ codes' = O!KeptCodes(now) /\ grants' = O!KeptGrants(now)
         /\ issued' = new /\ family' = [family EXCEPT ![new] = g]
         /\ access' = [i \in O!Issues |->
                IF i = new THEN now + AccessTtl
                ELSE IF family[i] = g THEN 0 ELSE O!KeptAccess(now)[i]]
         /\ tokens' = [O!KeptTokens(now) EXCEPT ![old] = "used", ![new] = "unused"]
         /\ expires' = [expires EXCEPT ![new] = now + RefreshTtl]
         /\ uses' = [uses EXCEPT ![old] = 1]
         /\ UNCHANGED <<clock, asked_for, waiting, revoked_at, begun_by>>
    BY DEF O!Rotate, now
  <1>14. tokens[old] = "unused"
    BY DEF O!Rotate
  <1>15. family[old] = g /\ family[old] # 0 /\ g \in 0..issued /\ g # new
    BY <1>12, <1>32 DEF OAuthInv, Unissued, Forms
  <1> HIDE DEF old, g, new
  <1>16. /\ family'[new] = g /\ \A i \in O!Issues : i # new => family'[i] = family[i]
         /\ \A i \in O!Issues : i # new => expires'[i] = expires[i]
         /\ uses'[old] = 1 /\ \A i \in O!Issues : i # old => uses'[i] = uses[i]
    BY <1>12, <1>13, <1>30 DEF OAuthInv, Forms
  <1>17. \A i \in O!Issues : i # new =>
             access'[i] \in {0, access[i]} /\ (family[i] = g => access'[i] = 0)
    BY <1>13, <1>21
  <1>18. /\ tokens'[old] = "used" /\ tokens'[new] = "unused"
         /\ \A i \in O!Issues : i \notin {old, new} =>
                /\ tokens'[i] \in {"none", tokens[i]}
                /\ expires[i] > clock => tokens'[i] = tokens[i]
    <2>1. \A i \in O!Issues : i \notin {old, new} => tokens'[i] = O!KeptTokens(now)[i]
      BY <1>13, <1>22
    <2> QED
      BY <1>12, <1>13, <1>22, <1>30, <2>1
  <1>1. Forms'
    <2>1. asked_for' \in 0..MaxAuthorizations /\ clock' \in Nat \ {0} /\ waiting' \subseteq 1..asked_for'
      BY <1>13 DEF OAuthInv, Forms
    <2>2. codes' \in [O!Authorizations -> Nat] /\ issued' \in 0..MaxIssues
      BY <1>13, <1>20, <1>30, StoresConstants
    <2>3. grants' \subseteq 1..issued'
      <3>1. grants \subseteq 1..new
        BY <1>30 DEF OAuthInv, Forms, new
      <3> QED
        BY <1>13, <1>23, <3>1
    <2>4. revoked_at' \in [O!Issues -> Nat] /\ begun_by' \in [O!Issues -> 0..asked_for']
      BY <1>13 DEF OAuthInv, Forms
    <2>5. family' \in [O!Issues -> 0..issued']
      <3>1. family \in [O!Issues -> 0..new] /\ g \in 0..new
        BY <1>15, <1>30 DEF OAuthInv, Forms, new
      <3> QED
        BY <1>13, <3>1
    <2>6. access' \in [O!Issues -> Nat]
      BY <1>11, <1>13, <1>21, StoresConstants
    <2>7. expires' \in [O!Issues -> Nat]
      <3>1. expires \in [O!Issues -> Nat] /\ now + RefreshTtl \in Nat
        BY <1>11, StoresConstants DEF OAuthInv, Forms
      <3> QED
        BY <1>13, <3>1
    <2>8. tokens' \in [O!Issues -> {"none", "unused", "used"}]
      BY <1>13, <1>22
    <2>9. uses' \in [O!Issues -> 0..2]
      <3>1. uses \in [O!Issues -> 0..2] /\ 1 \in 0..2
        BY DEF OAuthInv, Forms
      <3> QED
        BY <1>13, <3>1
    <2> QED
      BY <2>1, <2>2, <2>3, <2>4, <2>5, <2>6, <2>7, <2>8, <2>9 DEF Forms
  <1>2. Threads'
    <2>1. O!Free \in [op : {"free", "insert", "exchange", "rotate", "revoke"}, arg : Nat, now : Nat]
      BY DEF O!Free
    <2>2. asked_for' = asked_for /\ clock' = clock /\ issued \in Nat /\ issued' \in Nat /\ issued' >= issued
      BY <1>13, <1>30 DEF OAuthInv, Forms, O!Rotate, new
    <2> QED
      BY <1>0, <2>1, <2>2 DEF OAuthInv, Threads
  <1>3. Unissued'
    <2> SUFFICES ASSUME NEW i \in O!Issues
                 PROVE  /\ i > new => /\ family'[i] = 0 /\ begun_by'[i] = 0 /\ access'[i] = 0
                                      /\ tokens'[i] = "none" /\ uses'[i] = 0
                        /\ i <= new => family'[i] # 0
      BY <1>13 DEF Unissued
    <2>1. CASE i = new
      BY <2>1, <1>15, <1>16, <1>30
    <2>2. CASE i # new /\ i # old
      <3>1. /\ i > new => i > issued
            /\ i <= new => i <= issued
        BY <2>2, <1>32
      <3>2. /\ i > issued => /\ family[i] = 0 /\ begun_by[i] = 0 /\ access[i] = 0
                             /\ tokens[i] = "none" /\ uses[i] = 0
            /\ i <= issued => family[i] # 0
        BY DEF OAuthInv, Unissued
      <3>3. /\ family'[i] = family[i] /\ begun_by'[i] = begun_by[i] /\ uses'[i] = uses[i]
            /\ access'[i] \in {0, access[i]} /\ tokens'[i] \in {"none", tokens[i]}
        BY <2>2, <1>13, <1>16, <1>17, <1>18
      <3> QED
        BY <3>1, <3>2, <3>3
    <2>3. CASE i = old
      BY <2>3, <1>12, <1>15, <1>16, <1>30, <1>32
    <2> QED
      BY <2>1, <2>2, <2>3
  <1>4. NoNewCode
    BY <1>0, <1>13, <1>20 DEF NoNewCode
  <1>5. OneEach'
    <2>1. \A i, j \in O!Issues : family[i] = family[j] /\ i # j /\ i # new /\ j # new =>
              /\ access'[i] = 0 \/ access'[j] = 0
              /\ ~(tokens'[i] = "unused" /\ tokens'[j] = "unused")
      <3>1. \A i \in O!Issues : i # new /\ tokens'[i] = "unused" => tokens[i] = "unused"
        BY <1>14, <1>18
      <3> QED
        BY <1>17, <3>1 DEF OAuthInv, OneEach
    <2>2. \A i \in O!Issues : i # new /\ family[i] = g => access'[i] = 0 /\ tokens'[i] # "unused"
      BY <1>12, <1>14, <1>15, <1>17, <1>18 DEF OAuthInv, OneEach
    <2> QED
      BY <1>16, <2>1, <2>2 DEF OneEach
  <1>6. Ended'
    <2> SUFFICES ASSUME NEW i \in O!Issues, uses'[i] = 2,
                        NEW j \in O!Issues, family'[j] = family'[i]
                 PROVE  access'[j] = 0 /\ tokens'[j] = "none"
      BY DEF Ended
    <2>1. i # old /\ i # new /\ uses[i] = 2
      BY <1>12, <1>16, <1>31
    <2>2. \A k \in O!Issues : family[k] = family[i] => access[k] = 0 /\ tokens[k] = "none"
      BY <2>1 DEF OAuthInv, Ended
    <2>3. family[i] # g
      BY <2>2, <1>12, <1>14, <1>15
    <2>4. j # new /\ j # old /\ family[j] = family[i]
      BY <2>1, <2>3, <1>15, <1>16
    <2> QED
      BY <2>2, <2>4, <1>17, <1>18
  <1>7. Evidence'
    <2>1. \A i \in O!Issues : uses'[i] = 1 /\ expires'[i] > clock /\ O!Live(family[i]) /\ i # new
              => tokens'[i] = "used"
      BY <1>16, <1>18 DEF OAuthInv, Evidence
    <2>2. \A h : h \in grants' /\ revoked_at'[h] = 0 => O!Live(h)
      BY <1>13, <1>23 DEF O!Live
    <2>3. \A i \in O!Issues : tokens'[i] = "unused" => uses'[i] = 0
      BY <1>12, <1>16, <1>18, <1>31 DEF OAuthInv, Evidence
    <2>4. uses'[new] = 0
      BY <1>12, <1>16, <1>30, <1>31
    <2>5. \A i \in O!Issues : uses'[i] = 1 /\ expires'[i] > clock' /\ O!Live(family[i])' => tokens'[i] = "used"
      <3> SUFFICES ASSUME NEW i \in O!Issues, uses'[i] = 1, expires'[i] > clock',
                          family'[i] \in grants', revoked_at'[family'[i]] = 0
                   PROVE  tokens'[i] = "used"
        BY DEF O!Live
      <3>1. i # new
        BY <2>4
      <3>2. O!Live(family[i]) /\ clock' = clock
        BY <3>1, <1>13, <1>16, <2>2
      <3> QED
        BY <3>1, <3>2, <2>1
    <2> QED
      BY <2>3, <2>5 DEF Evidence
  <1>9. CodesOnce'
    BY <1>4, NoNewCodeKeeps DEF OAuthInv
  <1> QED
    BY <1>1, <1>2, <1>3, <1>5, <1>6, <1>7, <1>9 DEF OAuthInv

(* exchange_code: the code goes as its grant begins; a family that starts  *)
(* has no older rows, and a grant dropped at the limit takes its rows      *)
(* along.                                                                  *)
LEMMA ExchangeCodeKeeps ==
    ASSUME OAuthInv, NEW w \in Workers, O!ExchangeCode(w)
    PROVE  OAuthInv'
  <1> DEFINE now == busy[w].now
  <1>11. now \in Nat \ {0} /\ now <= clock
    BY DEF OAuthInv, Forms, Threads, O!ExchangeCode
  <1> HIDE DEF now
  <1>20. /\ O!KeptCodes(now) \in [O!Authorizations -> Nat]
         /\ \A b \in O!Authorizations : O!KeptCodes(now)[b] \in {0, codes[b]}
    BY <1>11, Pruned DEF OAuthInv
  <1>21. /\ O!KeptAccess(now) \in [O!Issues -> Nat]
         /\ \A i \in O!Issues : O!KeptAccess(now)[i] \in {0, access[i]}
    BY <1>11, Pruned DEF OAuthInv
  <1>22. /\ O!KeptTokens(now) \in [O!Issues -> {"none", "unused", "used"}]
         /\ \A i \in O!Issues :
                /\ O!KeptTokens(now)[i] \in {"none", tokens[i]}
                /\ expires[i] > clock => O!KeptTokens(now)[i] = tokens[i]
    BY <1>11, Pruned DEF OAuthInv
  <1>23. O!KeptGrants(now) \subseteq grants
    BY <1>11, Pruned DEF OAuthInv
  <1>0. /\ busy' = [busy EXCEPT ![w] = O!Free]
        /\ \A v \in Workers : v # w => busy'[v] = busy[v]
        /\ busy'[w].op = "free"
    BY DEF OAuthInv, Threads, O!ExchangeCode, O!Done, O!Free
  <1> DEFINE a == busy[w].arg
             room == O!Room(O!KeptGrants(now))
             new == issued + 1
  <1>30. /\ new \in O!Issues /\ new \in 1..new /\ issued \in Nat /\ new \in Nat
         /\ new > issued /\ new <= MaxIssues
    BY StoresConstants DEF OAuthInv, Forms, O!Issues, O!ExchangeCode, new
  <1>31. /\ family[new] = 0 /\ begun_by[new] = 0 /\ access[new] = 0 /\ tokens[new] = "none"
         /\ uses[new] = 0
    BY <1>30 DEF OAuthInv, Unissued
  <1>32. \A i \in O!Issues : /\ i \in Nat /\ family[i] \in Nat /\ family[i] <= issued /\ family[i] # new
                             /\ i # new => (i > new <=> i > issued) /\ (i <= new <=> i <= issued)
    BY <1>30 DEF OAuthInv, Forms, O!Issues, new
  <1>12. a \in O!Authorizations /\ a \in 1..asked_for /\ a # 0
    <2>1. busy[w].op = "exchange"
      BY DEF O!ExchangeCode
    <2>2. a \in 1..asked_for
      BY <2>1 DEF OAuthInv, Threads
    <2> QED
      BY <2>2, StoresConstants DEF OAuthInv, Forms, O!Authorizations
  <1>13. /\ O!KeptCodes(now)[a] # 0
         /\ codes' = [O!KeptCodes(now) EXCEPT ![a] = 0]
         /\ grants' = room \cup {new} /\ begun_by' = [begun_by EXCEPT ![new] = a]
         /\ issued' = new /\ family' = [family EXCEPT ![new] = new]
         /\ access' = [i \in O!Issues |->
                IF i = new THEN now + AccessTtl
                ELSE IF family[i] \in room THEN O!KeptAccess(now)[i] ELSE 0]
         /\ tokens' = [i \in O!Issues |->
                IF i = new THEN "unused"
                ELSE IF family[i] \in room THEN O!KeptTokens(now)[i] ELSE "none"]
         /\ expires' = [expires EXCEPT ![new] = now + RefreshTtl]
         /\ UNCHANGED <<clock, asked_for, waiting, revoked_at, uses>>
    BY DEF O!ExchangeCode, O!Spent, now
  <1>14. room \subseteq grants
    <2>1. room \subseteq O!KeptGrants(now)
      BY DEF O!Room
    <2> QED
      BY <1>23, <2>1
  <1> HIDE DEF a, room, new
  <1>16. /\ family'[new] = new /\ \A i \in O!Issues : i # new => family'[i] = family[i]
         /\ \A i \in O!Issues : i # new => expires'[i] = expires[i]
         /\ begun_by'[new] = a /\ \A i \in O!Issues : i # new => begun_by'[i] = begun_by[i]
    BY <1>13, <1>30 DEF OAuthInv, Forms
  <1>17. \A i \in O!Issues : i # new => access'[i] \in {0, access[i]}
    BY <1>13, <1>21
  <1>18. \A i \in O!Issues : i # new =>
             /\ tokens'[i] \in {"none", tokens[i]}
             /\ expires[i] > clock /\ family[i] \in room => tokens'[i] = tokens[i]
    BY <1>13, <1>22
  <1>19. \A i \in O!Issues : i # new => family'[i] # new
    BY <1>16, <1>32
  <1>1. Forms'
    <2>1. asked_for' \in 0..MaxAuthorizations /\ clock' \in Nat \ {0} /\ waiting' \subseteq 1..asked_for'
      BY <1>13 DEF OAuthInv, Forms
    <2>2. codes' \in [O!Authorizations -> Nat] /\ issued' \in 0..MaxIssues
      <3>1. codes' \in [O!Authorizations -> Nat]
        BY <1>13, <1>20
      <3>2. issued' \in 0..MaxIssues
        BY <1>13, <1>30, StoresConstants
      <3> QED
        BY <3>1, <3>2
    <2>3. grants' \subseteq 1..issued'
      <3>1. grants \subseteq 1..new
        BY <1>30 DEF OAuthInv, Forms, new
      <3> QED
        BY <1>13, <1>14, <1>30, <3>1
    <2>4. revoked_at' \in [O!Issues -> Nat] /\ begun_by' \in [O!Issues -> 0..asked_for']
      <3>1. begun_by \in [O!Issues -> 0..asked_for] /\ a \in 0..asked_for
        BY <1>12 DEF OAuthInv, Forms
      <3> QED
        BY <1>13, <3>1 DEF OAuthInv, Forms
    <2>5. family' \in [O!Issues -> 0..issued']
      <3>1. family \in [O!Issues -> 0..new] /\ new \in 0..new
        BY <1>30 DEF OAuthInv, Forms, new
      <3> QED
        BY <1>13, <3>1
    <2>6. access' \in [O!Issues -> Nat]
      BY <1>11, <1>13, <1>21, StoresConstants
    <2>7. expires' \in [O!Issues -> Nat]
      <3>1. expires \in [O!Issues -> Nat] /\ now + RefreshTtl \in Nat
        BY <1>11, StoresConstants DEF OAuthInv, Forms
      <3> QED
        BY <1>13, <3>1
    <2>8. tokens' \in [O!Issues -> {"none", "unused", "used"}]
      BY <1>13, <1>22
    <2>9. uses' \in [O!Issues -> 0..2]
      BY <1>13 DEF OAuthInv, Forms
    <2> QED
      BY <2>1, <2>2, <2>3, <2>4, <2>5, <2>6, <2>7, <2>8, <2>9 DEF Forms
  <1>2. Threads'
    <2>1. O!Free \in [op : {"free", "insert", "exchange", "rotate", "revoke"}, arg : Nat, now : Nat]
      BY DEF O!Free
    <2>2. asked_for' = asked_for /\ clock' = clock /\ issued \in Nat /\ issued' \in Nat /\ issued' >= issued
      BY <1>13, <1>30 DEF OAuthInv, Forms, O!ExchangeCode, new
    <2> QED
      BY <1>0, <2>1, <2>2 DEF OAuthInv, Threads
  <1>3. Unissued'
    <2> SUFFICES ASSUME NEW i \in O!Issues
                 PROVE  /\ i > new => /\ family'[i] = 0 /\ begun_by'[i] = 0 /\ access'[i] = 0
                                      /\ tokens'[i] = "none" /\ uses'[i] = 0
                        /\ i <= new => family'[i] # 0
      BY <1>13 DEF Unissued
    <2>1. CASE i = new
      BY <2>1, <1>16, <1>30
    <2>2. CASE i # new
      <3>1. /\ i > new => i > issued
            /\ i <= new => i <= issued
        BY <2>2, <1>32
      <3>2. /\ i > issued => /\ family[i] = 0 /\ begun_by[i] = 0 /\ access[i] = 0
                             /\ tokens[i] = "none" /\ uses[i] = 0
            /\ i <= issued => family[i] # 0
        BY DEF OAuthInv, Unissued
      <3>3. /\ family'[i] = family[i] /\ begun_by'[i] = begun_by[i] /\ uses'[i] = uses[i]
            /\ access'[i] \in {0, access[i]} /\ tokens'[i] \in {"none", tokens[i]}
        BY <2>2, <1>13, <1>16, <1>17, <1>18
      <3> QED
        BY <3>1, <3>2, <3>3
    <2> QED
      BY <2>1, <2>2
  <1>5. OneEach'
    BY <1>16, <1>17, <1>18, <1>19 DEF OAuthInv, OneEach
  <1>6. Ended'
    <2> SUFFICES ASSUME NEW i \in O!Issues, uses'[i] = 2,
                        NEW j \in O!Issues, family'[j] = family'[i]
                 PROVE  access'[j] = 0 /\ tokens'[j] = "none"
      BY DEF Ended
    <2>1. i # new /\ uses[i] = 2
      BY <1>13, <1>31
    <2>2. \A k \in O!Issues : family[k] = family[i] => access[k] = 0 /\ tokens[k] = "none"
      BY <2>1 DEF OAuthInv, Ended
    <2>3. j # new /\ family[j] = family[i]
      BY <2>1, <1>16, <1>19
    <2> QED
      BY <2>2, <2>3, <1>17, <1>18
  <1>7. Evidence'
    <2>1. uses'[new] = 0
      BY <1>13, <1>31
    <2>2. \A i \in O!Issues : tokens'[i] = "unused" => uses'[i] = 0
      BY <1>13, <1>18, <2>1 DEF OAuthInv, Evidence
    <2>3. \A i \in O!Issues : uses'[i] = 1 /\ expires'[i] > clock' /\ O!Live(family[i])' => tokens'[i] = "used"
      <3> SUFFICES ASSUME NEW i \in O!Issues, uses'[i] = 1, expires'[i] > clock',
                          family'[i] \in grants', revoked_at'[family'[i]] = 0
                   PROVE  tokens'[i] = "used"
        BY DEF O!Live
      <3>1. i # new
        BY <2>1
      <3>2. family[i] \in room /\ revoked_at[family[i]] = 0
        BY <3>1, <1>13, <1>16, <1>19
      <3>3. O!Live(family[i]) /\ clock' = clock /\ uses[i] = 1 /\ expires[i] > clock
        BY <3>1, <3>2, <1>13, <1>14, <1>16 DEF O!Live
      <3> QED
        BY <3>1, <3>2, <3>3, <1>18 DEF OAuthInv, Evidence
    <2> QED
      BY <2>2, <2>3 DEF Evidence
  <1>9. CodesOnce'
    <2>1. \A b : Inserting(b)' => Inserting(b)
      BY <1>0 DEF Inserting
    <2>2. codes'[a] = 0 /\ \A b \in O!Authorizations : codes'[b] \in {0, codes[b]}
      BY <1>12, <1>13, <1>20
    <2>3. a \notin waiting /\ ~Inserting(a) /\ \A i \in O!Issues : begun_by[i] # a
      <3>1. codes[a] # 0
        BY <1>12, <1>13, <1>20
      <3> QED
        BY <1>12, <3>1 DEF OAuthInv, CodesOnce
    <2>5. \A b \in O!Authorizations :
             /\ codes'[b] # 0 => b <= asked_for' /\ b \notin waiting' /\ ~Inserting(b)'
             /\ b \in waiting' => ~Inserting(b)'
      BY <1>13, <2>1, <2>2 DEF OAuthInv, CodesOnce
    <2>6. \A u, v \in Workers :
             busy'[u].op = "insert" /\ busy'[v].op = "insert" /\ busy'[u].arg = busy'[v].arg
             => u = v
      BY <1>0 DEF OAuthInv, CodesOnce
    <2>7. \A i \in O!Issues, b \in O!Authorizations : begun_by'[i] = b =>
             /\ codes'[b] = 0 /\ b \notin waiting' /\ ~Inserting(b)'
             /\ \A j \in O!Issues : begun_by'[j] = b => j = i
      <3> SUFFICES ASSUME NEW i \in O!Issues, NEW b \in O!Authorizations, begun_by'[i] = b
                   PROVE  /\ codes'[b] = 0 /\ b \notin waiting' /\ ~Inserting(b)'
                          /\ \A j \in O!Issues : begun_by'[j] = b => j = i
        OBVIOUS
      <3>1. CASE i = new
        BY <3>1, <1>13, <1>16, <2>1, <2>2, <2>3
      <3>2. CASE i # new
        <4>1. begun_by[i] = b /\ b # a
          BY <3>2, <1>16, <2>3
        <4>2. /\ codes[b] = 0 /\ b \notin waiting /\ ~Inserting(b)
              /\ \A j \in O!Issues : begun_by[j] = b => j = i
          BY <4>1 DEF OAuthInv, CodesOnce
        <4> QED
          BY <4>1, <4>2, <1>13, <1>16, <2>1, <2>2
      <3> QED
        BY <3>1, <3>2
    <2> QED
      BY <2>5, <2>6, <2>7 DEF CodesOnce
  <1> QED
    BY <1>1, <1>2, <1>3, <1>5, <1>6, <1>7, <1>9 DEF OAuthInv


(* Every step of the OAuth server keeps the invariant.                     *)
LEMMA OAuthStep ==
    ASSUME OAuthInv, O!Next \/ UNCHANGED O!auth_vars
    PROVE  OAuthInv'
  <1>1. CASE UNCHANGED O!auth_vars
    <2>1. UNCHANGED <<clock, asked_for, waiting, codes, grants, revoked_at, begun_by, issued,
                      family, access, expires, tokens, uses, busy>>
      BY <1>1 DEF O!auth_vars, O!store
    <2>2. UNCHANGED Forms /\ UNCHANGED Threads /\ UNCHANGED Unissued
      BY <2>1 DEF Forms, Threads, Unissued
    <2>3. UNCHANGED CodesOnce
      BY <2>1 DEF CodesOnce, Inserting
    <2>4. UNCHANGED OneEach /\ UNCHANGED Ended /\ UNCHANGED Evidence
      BY <2>1 DEF OneEach, Ended, Evidence, O!Live
    <2> QED
      BY <2>2, <2>3, <2>4 DEF OAuthInv
  <1>2. CASE O!Tick \/ O!Authorize \/ O!RevokeAll
    BY <1>2, TickKeeps, AuthorizeKeeps, RevokeAllKeeps
  <1>3. ASSUME NEW w \in Workers, NEW a \in O!Authorizations, NEW approve \in BOOLEAN,
               O!Decide(w, a, approve)
        PROVE  OAuthInv'
    BY <1>3, DecideKeeps
  <1>4. ASSUME NEW w \in Workers, NEW a \in 1..asked_for, O!Receive(w, "exchange", a)
        PROVE  OAuthInv'
    BY <1>4, ReceiveCodeKeeps
  <1>5. ASSUME NEW w \in Workers, NEW i \in 1..issued, NEW op \in {"rotate", "revoke"},
               O!Receive(w, op, i)
        PROVE  OAuthInv'
    BY <1>5, ReceiveTokenKeeps
  <1>6. ASSUME NEW w \in Workers,
               \/ O!Refuse(w) \/ O!InsertCode(w) \/ O!ExchangeCode(w)
               \/ O!Rotate(w) \/ O!RotateReused(w) \/ O!Revoke(w)
        PROVE  OAuthInv'
    BY <1>6, RefuseKeeps, InsertCodeKeeps, ExchangeCodeKeeps, RotateKeeps, RotateReusedKeeps,
       RevokeKeeps
  <1> QED
    BY <1>1, <1>2, <1>3, <1>4, <1>5, <1>6 DEF O!Next

(* The invariant holds throughout.                                         *)
LEMMA OAuthInvariant == StoresSpec => []OAuthInv
  <1>1. StoresInit => OAuthInv
    BY OAuthInit
  <1>2. OAuthInv /\ [StoresNext]_stores_vars
        => OAuthInv'
    BY OAuthMove, OAuthStep
  <1> QED
    BY <1>1, <1>2, PTL DEF StoresSpec

(* A code begins one grant, and a grant has one access token that works    *)
(* and one refresh token that can still be used (exchange_code and         *)
(* rotate_refresh in src/mcp/oauth.rs), for any number of threads whose    *)
(* transactions commit in any order, any clock readings and any limits.    *)
THEOREM OneLineHolds == StoresSpec => []OneLine
  <1>1. OAuthInv => OneLine
    <2> SUFFICES ASSUME OAuthInv, NEW i \in 1..issued, NEW j \in 1..issued, i # j
                 PROVE  /\ begun_by[i] # 0 => begun_by[i] # begun_by[j]
                        /\ family[i] = family[j] =>
                               /\ ~(O!Authorized(i) /\ O!Authorized(j))
                               /\ ~(tokens[i] = "unused" /\ tokens[j] = "unused")
      BY DEF OneLine, O!OneLine
    <2>1. i \in O!Issues /\ j \in O!Issues
      BY StoresConstants DEF OAuthInv, Forms, O!Issues
    <2>2. begun_by[i] # 0 => begun_by[i] \in O!Authorizations
      BY SMTT(60), <2>1, StoresConstants DEF OAuthInv, Forms, O!Authorizations
    <2>3. begun_by[i] # 0 => begun_by[i] # begun_by[j]
      BY <2>1, <2>2 DEF OAuthInv, CodesOnce
    <2>4. \A k \in O!Issues : O!Authorized(k) => access[k] # 0
      BY DEF OAuthInv, Forms, O!Authorized
    <2> QED
      BY <2>1, <2>3, <2>4 DEF OAuthInv, OneEach
  <1> QED
    BY <1>1, OAuthInvariant, PTL

(* A refresh token presented again after its use has ended its grant for   *)
(* good: no token of the family works from then on.                        *)
THEOREM ReuseAlwaysRevokes == StoresSpec => []ReuseRevokes
  <1>1. OAuthInv => ReuseRevokes
    <2> SUFFICES ASSUME OAuthInv, NEW i \in 1..issued, uses[i] = 2,
                        NEW j \in 1..issued, family[j] = family[i]
                 PROVE  ~O!Authorized(j) /\ tokens[j] = "none"
      BY DEF ReuseRevokes, O!ReuseRevokes
    <2>1. i \in O!Issues /\ j \in O!Issues
      BY StoresConstants DEF OAuthInv, Forms, O!Issues
    <2>2. access[j] = 0 /\ tokens[j] = "none"
      BY <2>1 DEF OAuthInv, Ended
    <2> QED
      BY <2>2 DEF OAuthInv, Forms, O!Authorized
  <1> QED
    BY <1>1, OAuthInvariant, PTL

(* A used refresh token of a grant that still works stays in its table for *)
(* as long as it would have been valid, whatever pruning and limits do, so *)
(* a reuse is noticed.                                                     *)
THEOREM EvidenceAlwaysKept == StoresSpec => []EvidenceKept
  <1>1. OAuthInv => EvidenceKept
    <2> SUFFICES ASSUME OAuthInv, NEW i \in 1..issued,
                        uses[i] = 1, expires[i] > clock, O!Live(family[i])
                 PROVE  tokens[i] = "used"
      BY DEF EvidenceKept, O!EvidenceKept
    <2>1. i \in O!Issues
      BY StoresConstants DEF OAuthInv, Forms, O!Issues
    <2> QED
      BY <2>1 DEF OAuthInv, Evidence
  <1> QED
    BY <1>1, OAuthInvariant, PTL

-----------------------------------------------------------------------------
(* The memory documents.  What a document says of its file holds for as    *)
(* long as the file has the stamp of the document, which is not of the     *)
(* future.                                                                 *)
Tracks(document, d) ==
    document # Absent =>
        /\ document.stamp <= doc_file[d].stamp
        /\ document.fresh /\ document.stamp = doc_file[d].stamp =>
               document.content = doc_file[d].content

DocumentsTrack == \A d \in Docs : Tracks(snapshot[d], d) /\ Tracks(prepared[d], d)

Sights == M!Written \cup {Absent} \cup M!Stamps

(* A refresh that reads has seen a stamp and then the content the file has *)
(* as long as it has that stamp.                                           *)
RefreshSights ==
    /\ seen_stats \in Seq(Sights)
    /\ refresh # "reading" => seen_stats = <<>>
    /\ Len(seen_stats) >= 3 =>
           seen_stats[3] \in M!Stamps /\ seen_stats[3] <= doc_file[visited].stamp
    /\ Len(seen_stats) >= 4 =>
           /\ seen_stats[4] \in M!Written
           /\ seen_stats[3] = doc_file[visited].stamp =>
                  seen_stats[4] = doc_file[visited].content

(* A reader has only seen contents the file had since it was asked.        *)
ReaderSights ==
    /\ seen_reads \in Seq(Sights)
    /\ read # "reparse" => seen_reads = <<>>
    /\ read # "idle" => cached \in M!Documents
    /\ read # "idle" /\ M!Exists(wanted) => doc_file[wanted].content \in witnessed
    /\ Len(seen_reads) >= 4 => seen_reads[4] \in witnessed
    /\ reply.fresh => reply.content \in witnessed

(* While a refresh runs, a file that is absent was absent while it ran;    *)
(* so was a selected one that it looked for and neither found nor failed   *)
(* to list; and a document whose file it found it keeps once it is done    *)
(* with the file.                                                          *)
RefreshKeeps ==
    /\ refresh # "idle" => \A d \in Docs : ~M!Exists(d) => d \in was_absent
    /\ refresh # "idle" =>
           \A d \in Docs :
               options[d] = "selected" /\ d \notin candidates \cup unlisted =>
                   d \in was_absent \/ (refresh = "discover" /\ d \in to_visit)
    /\ refresh \in {"visit", "reading"} =>
           \A d \in candidates \ to_visit :
               snapshot[d] # Absent /\ ~(refresh = "reading" /\ d = visited)
                   => prepared[d] # Absent

(* The inductive invariant of the memory documents.                        *)
MemoryInv ==
    M!TypeOK /\ DocumentsTrack /\ RefreshSights /\ ReaderSights /\ RefreshKeeps

(* Whatever part moves, the variables of Memory take a step of it or stay. *)
LEMMA MemoryMoves ==
    ASSUME [StoresNext]_stores_vars
    PROVE  M!Next \/ UNCHANGED M!memory_vars
  BY DEF StoresNext, stores_vars, memory, M!memory_vars, M!file_vars, M!refresh_vars,
         M!read_vars, M!histories

(* Nothing is published, read or asked for at first.                       *)
LEMMA MemoryInit ==
    ASSUME StoresInit PROVE MemoryInv
  <1> USE StoresConstants DEF StoresInit, M!Init
  <1>1. M!Nowhere \in Docs
    BY DEF M!Nowhere
  <1>2. M!TypeOK
    BY <1>1 DEF M!TypeOK, M!Stamps, M!Documents, M!Written, M!Unheard
  <1>3. DocumentsTrack /\ RefreshSights
    BY DEF DocumentsTrack, Tracks, RefreshSights
  <1>4. ReaderSights /\ RefreshKeeps
    BY DEF ReaderSights, RefreshKeeps, M!Unheard
  <1> QED
    BY <1>2, <1>3, <1>4 DEF MemoryInv

(* What a document is, and what is left of it when it is called stale.     *)
LEMMA DocumentForm ==
    ASSUME NEW document \in M!Documents
    PROVE  /\ document # Absent
           /\ document.content \in M!Written /\ document.stamp \in M!Stamps
           /\ document.fresh \in BOOLEAN
           /\ M!Stale(document) \in M!Documents
           /\ M!Stale(document) # Absent
           /\ M!Stale(document).stamp = document.stamp /\ ~M!Stale(document).fresh
  BY StoresConstants DEF M!Documents, M!Stale

(* A failed call is counted; the count stays within its bound.             *)
LEMMA FaultCounts ==
    ASSUME M!TypeOK, M!Fault \/ UNCHANGED io_errors PROVE io_errors' \in 0..MaxErrors
  BY StoresConstants DEF M!TypeOK, M!Fault

(* What was seen has a length.                                             *)
LEMMA LengthIsNat ==
    ASSUME NEW s \in Seq(Sights)
    PROVE  /\ Len(s) \in Nat
           /\ Len(s) < 4 => Len(s) < 2 \/ Len(s) = 2 \/ Len(s) = 3
           /\ Len(s) < 4 /\ Len(s) + 1 >= 4 => Len(s) = 3
  <1>1. Len(s) \in Nat
    OBVIOUS
  <1>2. ASSUME NEW n \in Nat PROVE /\ n < 4 => n < 2 \/ n = 2 \/ n = 3
                                   /\ n < 4 /\ n + 1 >= 4 => n = 3
    OBVIOUS
  <1> QED
    BY <1>1, <1>2

(* What a look at the file adds to what was seen of it.                    *)
LEMMA LookSees ==
    ASSUME NEW d \in Docs, NEW s \in Seq(Sights), M!TypeOK
    PROVE  /\ M!Look(d, s) \in Seq(Sights)
           /\ Len(M!Look(d, s)) = Len(s) + 1
           /\ \A i \in 1..Len(s) : M!Look(d, s)[i] = s[i]
           /\ Len(s) = 2 => M!Look(d, s)[3] = doc_file[d].stamp
           /\ Len(s) = 3 => M!Look(d, s)[4] = doc_file[d].content
           /\ Len(s) = 4 => /\ M!Look(d, s)[5] = doc_file[d].stamp
                            /\ M!Look(d, s)[3] = s[3] /\ M!Look(d, s)[4] = s[4]
  <1> DEFINE next == IF Len(s) % 2 = 0 THEN doc_file[d].stamp ELSE doc_file[d].content
  <1>1. next \in Sights
    BY DEF M!TypeOK, Sights
  <1>2. M!Look(d, s) = Append(s, next)
    BY DEF M!Look
  <1>3. 2 % 2 = 0 /\ 3 % 2 = 1 /\ 4 % 2 = 0
    OBVIOUS
  <1>4. Len(s) = 2 => next = doc_file[d].stamp
    BY <1>3
  <1>5. Len(s) = 3 => next = doc_file[d].content
    BY <1>3
  <1>6. Len(s) = 4 => next = doc_file[d].stamp
    BY <1>3
  <1> HIDE DEF next
  <1> QED
    BY <1>1, <1>2, <1>4, <1>5, <1>6

(* A write gives the file a later stamp: what was recorded or seen of the  *)
(* file before it is then of another stamp.                                *)
LEMMA MemoryTouch ==
    ASSUME MemoryInv, NEW d \in Docs, NEW c \in M!Written \cup {Absent}, M!Touch(d, c)
    PROVE  MemoryInv'
  <1> USE DEF MemoryInv, M!Touch, M!refresh_vars, M!read_vars
  <1> DEFINE now == [content |-> c, stamp |-> doc_file[d].stamp + 1]
  <1>1. /\ doc_file[d].stamp \in Nat /\ doc_file[d].stamp + 1 \in M!Stamps
        /\ now.stamp = doc_file[d].stamp + 1 /\ now.content = c
        /\ now \in [content : M!Written \cup {Absent}, stamp : M!Stamps]
    BY StoresConstants DEF M!TypeOK, M!Stamps
  <1>2. doc_file' = [doc_file EXCEPT ![d] = now]
    OBVIOUS
  <1> HIDE DEF now
  <1>3. /\ doc_file'[d] = now
        /\ \A e \in Docs \ {d} : doc_file'[e] = doc_file[e]
    BY <1>2 DEF M!TypeOK
  <1>4. doc_file' \in [Docs -> [content : M!Written \cup {Absent}, stamp : M!Stamps]]
    BY <1>1, <1>2 DEF M!TypeOK
  <1>5. M!TypeOK'
    BY <1>4 DEF M!TypeOK
  <1>6. ASSUME NEW e \in Docs, NEW document \in M!Documents \cup {Absent}, Tracks(document, e)
        PROVE  Tracks(document, e)'
    <2>1. CASE e = d
      <3>1. document # Absent => document.stamp \in Nat
        BY DocumentForm, StoresConstants DEF M!Stamps
      <3> QED
        BY <1>1, <1>3, <1>6, <2>1, <3>1 DEF Tracks
    <2>2. CASE e # d
      BY <1>3, <1>6, <2>2 DEF Tracks
    <2> QED
      BY <2>1, <2>2
  <1>7. DocumentsTrack'
    BY <1>6 DEF DocumentsTrack, M!TypeOK
  <1>8. RefreshSights'
    <2>1. visited \in Docs
      BY DEF M!TypeOK
    <2>2. CASE visited = d
      BY <1>1, <1>3, <2>2, StoresConstants DEF RefreshSights, M!Stamps
    <2>3. CASE visited # d
      BY <1>3, <2>1, <2>3 DEF RefreshSights
    <2> QED
      BY <2>2, <2>3
  <1>9. ReaderSights'
    <2>1. witnessed \subseteq witnessed'
      OBVIOUS
    <2>2. read # "idle" /\ doc_file'[wanted].content # Absent => doc_file'[wanted].content \in witnessed'
      BY <1>1, <1>3 DEF ReaderSights, M!TypeOK, M!Exists
    <2> QED
      BY <2>1, <2>2 DEF ReaderSights, M!Exists
  <1>10. RefreshKeeps'
    <2>1. was_absent \subseteq was_absent'
      OBVIOUS
    <2>2. refresh # "idle" => \A e \in Docs : doc_file'[e].content = Absent => e \in was_absent'
      BY <1>1, <1>3 DEF RefreshKeeps, M!Exists
    <2> QED
      BY <2>1, <2>2 DEF RefreshKeeps, M!Exists
  <1> QED
    BY <1>5, <1>7, <1>8, <1>9, <1>10

(* A refresh that starts knows which files are absent.                     *)
LEMMA MemoryStartRefresh ==
    ASSUME MemoryInv, M!StartRefresh PROVE MemoryInv'
  <1> USE DEF MemoryInv, M!StartRefresh,
          M!file_vars, M!refresh_vars, M!read_vars, M!histories
  <1>1. M!TypeOK'
    BY DEF M!TypeOK
  <1>2. DocumentsTrack'
    BY DEF DocumentsTrack, Tracks
  <1>3. RefreshSights'
    BY DEF RefreshSights
  <1>4. ReaderSights'
    BY DEF ReaderSights, M!Exists
  <1>5. RefreshKeeps'
    BY DEF RefreshKeeps, M!Exists
  <1> QED
    BY <1>1, <1>2, <1>3, <1>4, <1>5

(* A file that discovery looks for and does not find is absent then.       *)
LEMMA MemoryDiscover ==
    ASSUME MemoryInv, NEW d \in Docs, M!Discover(d) PROVE MemoryInv'
  <1> USE DEF MemoryInv, M!Discover,
          M!file_vars, M!refresh_vars, M!read_vars, M!histories
  <1>1. M!TypeOK'
    BY DEF M!TypeOK
  <1>2. DocumentsTrack'
    BY DEF DocumentsTrack, Tracks
  <1>3. RefreshSights'
    BY DEF RefreshSights
  <1>4. ReaderSights'
    BY DEF ReaderSights, M!Exists
  <1>5. RefreshKeeps'
    BY DEF RefreshKeeps, M!Exists
  <1> QED
    BY <1>1, <1>2, <1>3, <1>4, <1>5

(* A document below a directory that cannot be listed is marked.           *)
LEMMA MemoryDiscoverFails ==
    ASSUME MemoryInv, NEW d \in Docs, M!DiscoverFails(d) PROVE MemoryInv'
  <1> USE DEF MemoryInv, M!DiscoverFails,
          M!file_vars, M!refresh_vars, M!read_vars, M!histories
  <1>1. M!TypeOK'
    <2>1. io_errors' \in 0..MaxErrors
      BY FaultCounts
    <2> QED
      BY <2>1 DEF M!TypeOK
  <1>2. DocumentsTrack'
    BY DEF DocumentsTrack, Tracks
  <1>3. RefreshSights'
    BY DEF RefreshSights
  <1>4. ReaderSights'
    BY DEF ReaderSights, M!Exists
  <1>5. RefreshKeeps'
    BY DEF RefreshKeeps, M!Exists
  <1> QED
    BY <1>1, <1>2, <1>3, <1>4, <1>5

(* When discovery ends every document has been looked for.                 *)
LEMMA MemoryDiscovered ==
    ASSUME MemoryInv, M!Discovered PROVE MemoryInv'
  <1> USE DEF MemoryInv, M!Discovered,
          M!file_vars, M!refresh_vars, M!read_vars, M!histories
  <1>1. M!TypeOK'
    BY DEF M!TypeOK
  <1>2. DocumentsTrack'
    BY DEF DocumentsTrack, Tracks
  <1>3. RefreshSights'
    BY DEF RefreshSights
  <1>4. ReaderSights'
    BY DEF ReaderSights, M!Exists
  <1>5. RefreshKeeps'
    BY DEF RefreshKeeps, M!Exists
  <1> QED
    BY <1>1, <1>2, <1>3, <1>4, <1>5

(* A document is kept unread while its file has the stamp of it.            *)
LEMMA MemoryVisit ==
    ASSUME MemoryInv, NEW d \in Docs, M!Visit(d) PROVE MemoryInv'
  <1> USE DEF MemoryInv, M!Visit,
          M!file_vars, M!refresh_vars, M!read_vars, M!histories
  <1>1. M!TypeOK'
    BY DEF M!TypeOK, M!Unchanged
  <1>2. DocumentsTrack'
    <2>1. ASSUME NEW e \in Docs PROVE prepared'[e] = prepared[e] \/ prepared'[e] = snapshot[e]
      BY DEF M!TypeOK
    <2> QED
      BY <2>1 DEF DocumentsTrack, Tracks
  <1>3. RefreshSights'
    BY DEF RefreshSights
  <1>4. ReaderSights'
    BY DEF ReaderSights, M!Exists
  <1>5. RefreshKeeps'
    BY DEF RefreshKeeps, M!Exists, M!TypeOK, M!Unchanged
  <1> QED
    BY <1>1, <1>2, <1>3, <1>4, <1>5

(* Each look adds a stamp or a content that the file has.                  *)
LEMMA MemoryLooks ==
    ASSUME MemoryInv, M!Looks PROVE MemoryInv'
  <1> USE DEF MemoryInv, M!Looks,
          M!file_vars, M!refresh_vars, M!read_vars, M!histories
  <1>1. M!TypeOK'
    <2>1. visited \in Docs /\ seen_stats \in Seq(Sights)
      BY DEF M!TypeOK, RefreshSights
    <2>2. Len(M!Look(visited, seen_stats)) = Len(seen_stats) + 1 /\ Len(seen_stats) \in Nat
      BY <2>1, LookSees, LengthIsNat
    <2> QED
      BY <2>2 DEF M!TypeOK
  <1>2. DocumentsTrack'
    BY DEF DocumentsTrack, Tracks
  <1>3. RefreshSights'
    <2>1. visited \in Docs /\ seen_stats \in Seq(Sights) /\ Len(seen_stats) < 4
      BY DEF M!TypeOK, RefreshSights
    <2>2. /\ visited \in Docs /\ seen_stats \in Seq(Sights) /\ Len(seen_stats) \in Nat
          /\ Len(seen_stats) < 2 \/ Len(seen_stats) = 2 \/ Len(seen_stats) = 3
      BY <2>1, LengthIsNat
    <2>3. /\ seen_stats' \in Seq(Sights) /\ Len(seen_stats') = Len(seen_stats) + 1
          /\ \A i \in 1..Len(seen_stats) : seen_stats'[i] = seen_stats[i]
          /\ Len(seen_stats) = 2 => seen_stats'[3] = doc_file[visited].stamp
          /\ Len(seen_stats) = 3 => seen_stats'[4] = doc_file[visited].content
      BY <2>2, LookSees
    <2>4. /\ doc_file[visited].stamp \in M!Stamps /\ doc_file[visited].stamp <= doc_file[visited].stamp
          /\ doc_file[visited].content \in M!Written
      BY StoresConstants DEF M!TypeOK, M!Exists, M!Stamps
    <2>5. CASE Len(seen_stats) < 2
      BY <2>2, <2>3, <2>5 DEF RefreshSights
    <2>6. CASE Len(seen_stats) = 2
      BY <2>2, <2>3, <2>4, <2>6 DEF RefreshSights
    <2>7. CASE Len(seen_stats) = 3
      BY <2>2, <2>3, <2>4, <2>7 DEF RefreshSights
    <2> QED
      BY <2>2, <2>5, <2>6, <2>7
  <1>4. ReaderSights'
    BY DEF ReaderSights, M!Exists
  <1>5. RefreshKeeps'
    BY DEF RefreshKeeps, M!Exists
  <1> QED
    BY <1>1, <1>2, <1>3, <1>4, <1>5

(* Two equal stamps around a content are of the file that had it.          *)
LEMMA MemoryParses ==
    ASSUME MemoryInv, M!Parses PROVE MemoryInv'
  <1> USE DEF MemoryInv, M!Parses, M!Prepare, M!file_vars, M!read_vars, M!histories
  <1> DEFINE sights == M!Look(visited, seen_stats)
             document == [content |-> sights[4], stamp |-> sights[5], fresh |-> TRUE]
  <1>1. /\ visited \in Docs /\ seen_stats \in Seq(Sights) /\ Len(seen_stats) = 4
        /\ sights[3] = sights[5]
    BY DEF M!TypeOK, RefreshSights, M!Consistent
  <1>2. /\ sights[3] = seen_stats[3] /\ sights[4] = seen_stats[4]
        /\ sights[5] = doc_file[visited].stamp
    BY <1>1, LookSees
  <1>3. /\ sights[4] \in M!Written /\ sights[4] = doc_file[visited].content
        /\ sights[5] \in M!Stamps
    BY <1>1, <1>2 DEF RefreshSights, M!TypeOK
  <1>4. prepared' = [prepared EXCEPT ![visited] = document]
    OBVIOUS
  <1>5. /\ document \in M!Documents
        /\ document.content = sights[4] /\ document.stamp = sights[5]
    BY <1>3 DEF M!Documents
  <1>6. document # Absent
    BY <1>5, DocumentForm
  <1>7. doc_file[visited].stamp \in Nat
    BY <1>1, StoresConstants DEF M!TypeOK, M!Stamps
  <1> HIDE DEF document, sights
  <1>8. /\ prepared'[visited] = document
        /\ \A e \in Docs \ {visited} : prepared'[e] = prepared[e]
    BY <1>1, <1>4 DEF M!TypeOK
  <1>9. M!TypeOK'
    <2>1. prepared' \in [Docs -> M!Documents \cup {Absent}]
      <3>1. prepared \in [Docs -> M!Documents \cup {Absent}]
        BY DEF M!TypeOK
      <3> QED
        BY ONLY <1>4, <1>5, <3>1
    <2>2. 1 \in 1..Attempts
      BY StoresConstants
    <2> QED
      BY <2>1, <2>2 DEF M!TypeOK
  <1>10. Tracks(document, visited)
    BY <1>2, <1>3, <1>5, <1>7 DEF Tracks
  <1>11. DocumentsTrack'
    BY <1>8, <1>10 DEF DocumentsTrack, Tracks
  <1>12. RefreshSights' /\ ReaderSights'
    BY DEF RefreshSights, ReaderSights, M!Exists
  <1>13. RefreshKeeps'
    BY <1>6, <1>8 DEF RefreshKeeps, M!Exists, M!TypeOK
  <1> QED
    BY <1>9, <1>11, <1>12, <1>13

(* Another attempt starts from nothing seen.                               *)
LEMMA MemoryReadsAgain ==
    ASSUME MemoryInv, M!ReadsAgain PROVE MemoryInv'
  <1> USE DEF MemoryInv, M!ReadsAgain,
          M!file_vars, M!refresh_vars, M!read_vars, M!histories
  <1>1. M!TypeOK'
    <2>1. io_errors' \in 0..MaxErrors
      BY FaultCounts DEF M!AttemptFails
    <2>2. attempt' \in 1..Attempts
      BY StoresConstants DEF M!TypeOK
    <2> QED
      BY <2>1, <2>2 DEF M!TypeOK
  <1>2. DocumentsTrack'
    BY DEF DocumentsTrack, Tracks
  <1>3. RefreshSights'
    BY DEF RefreshSights
  <1>4. ReaderSights'
    BY DEF ReaderSights, M!Exists
  <1>5. RefreshKeeps'
    BY DEF RefreshKeeps, M!Exists
  <1> QED
    BY <1>1, <1>2, <1>3, <1>4, <1>5

(* A file that could not be read leaves its document, called stale.        *)
LEMMA MemoryGivesUp ==
    ASSUME MemoryInv, M!GivesUp PROVE MemoryInv'
  <1> USE DEF MemoryInv, M!GivesUp, M!Prepare, M!file_vars, M!read_vars, M!histories
  <1> DEFINE document == IF snapshot[visited] = Absent THEN Absent ELSE M!Stale(snapshot[visited])
  <1>1. visited \in Docs /\ prepared' = [prepared EXCEPT ![visited] = document]
    BY DEF M!TypeOK
  <1>2. /\ document \in M!Documents \cup {Absent}
        /\ document # Absent <=> snapshot[visited] # Absent
        /\ document # Absent => document.stamp = snapshot[visited].stamp /\ ~document.fresh
    BY <1>1, DocumentForm DEF M!TypeOK
  <1> HIDE DEF document
  <1>3. /\ prepared'[visited] = document
        /\ \A e \in Docs \ {visited} : prepared'[e] = prepared[e]
    BY <1>1 DEF M!TypeOK
  <1>4. M!TypeOK'
    <2>1. prepared' \in [Docs -> M!Documents \cup {Absent}]
      BY <1>1, <1>2 DEF M!TypeOK
    <2>2. 1 \in 1..Attempts
      BY StoresConstants
    <2>3. io_errors' \in 0..MaxErrors
      BY FaultCounts DEF M!AttemptFails
    <2> QED
      BY <2>1, <2>2, <2>3 DEF M!TypeOK
  <1>5. Tracks(document, visited)
    BY <1>1, <1>2 DEF DocumentsTrack, Tracks
  <1>6. DocumentsTrack'
    BY <1>3, <1>5 DEF DocumentsTrack, Tracks
  <1>7. RefreshSights' /\ ReaderSights'
    BY DEF RefreshSights, ReaderSights, M!Exists
  <1>8. RefreshKeeps'
    BY <1>2, <1>3 DEF RefreshKeeps, M!Exists, M!TypeOK
  <1> QED
    BY <1>4, <1>6, <1>7, <1>8

(* What is published is what was prepared, or what was published before.   *)
LEMMA MemoryPublish ==
    ASSUME MemoryInv, M!Publish PROVE MemoryInv'
  <1> USE DEF MemoryInv, M!Publish, M!Rest, M!read_vars, M!histories
  <1>1. M!Nowhere \in Docs
    BY StoresConstants DEF M!Nowhere
  <1>2. ASSUME NEW d \in Docs
        PROVE  M!Leftover(d) \in M!Documents \cup {Absent} /\ Tracks(M!Leftover(d), d)
    <2>1. snapshot[d] \in M!Documents \cup {Absent} /\ Tracks(snapshot[d], d)
      BY DEF M!TypeOK, DocumentsTrack
    <2>2. \/ M!Leftover(d) \in {Absent, snapshot[d]}
          \/ snapshot[d] # Absent /\ M!Leftover(d) = M!Stale(snapshot[d])
      <3>1. CASE snapshot[d] = Absent
        BY <3>1 DEF M!Leftover
      <3>2. CASE options[d] = "excluded" /\ snapshot[d] # Absent
        <4>1. M!Leftover(d) = Absent
          BY <3>2 DEF M!Leftover
        <4> QED
          BY <4>1
      <3>3. CASE options[d] = "unselected" /\ snapshot[d] # Absent
        BY <3>3 DEF M!Leftover
      <3>4. CASE options[d] = "selected" /\ snapshot[d] # Absent /\ d \in unlisted
        BY <3>4 DEF M!Leftover
      <3>5. CASE options[d] = "selected" /\ snapshot[d] # Absent /\ d \notin unlisted
        BY <3>5 DEF M!Leftover
      <3> QED
        BY <3>1, <3>2, <3>3, <3>4, <3>5 DEF M!TypeOK
    <2>3. CASE M!Leftover(d) \in {Absent, snapshot[d]}
      BY <2>1, <2>3 DEF Tracks
    <2>4. CASE snapshot[d] # Absent /\ M!Leftover(d) = M!Stale(snapshot[d])
      BY <2>1, <2>4, DocumentForm DEF Tracks
    <2> QED
      BY <2>2, <2>3, <2>4
  <1>3. \A d \in Docs : snapshot'[d] \in {prepared[d], M!Leftover(d)}
    OBVIOUS
  <1>4. snapshot' \in [Docs -> M!Documents \cup {Absent}]
    BY <1>2 DEF M!TypeOK
  <1>5. M!TypeOK'
    <2>1. 1 \in 1..Attempts
      BY StoresConstants
    <2> QED
      BY <1>1, <1>4, <2>1 DEF M!TypeOK
  <1>6. DocumentsTrack'
    BY <1>2, <1>3 DEF DocumentsTrack, Tracks
  <1>7. RefreshSights' /\ ReaderSights' /\ RefreshKeeps'
    BY DEF RefreshSights, ReaderSights, RefreshKeeps, M!Exists
  <1> QED
    BY <1>5, <1>6, <1>7

(* What a refresh that dies had prepared is gone with it.                  *)
LEMMA MemoryDie ==
    ASSUME MemoryInv, M!Die PROVE MemoryInv'
  <1> USE DEF MemoryInv, M!Die, M!Rest,
          M!file_vars, M!refresh_vars, M!read_vars, M!histories
  <1>1. M!TypeOK'
    <2>1. M!Nowhere \in Docs /\ 1 \in 1..Attempts
      BY StoresConstants DEF M!Nowhere
    <2> QED
      BY <2>1 DEF M!TypeOK
  <1>2. DocumentsTrack'
    BY DEF DocumentsTrack, Tracks
  <1>3. RefreshSights'
    BY DEF RefreshSights
  <1>4. ReaderSights'
    BY DEF ReaderSights, M!Exists
  <1>5. RefreshKeeps'
    BY DEF RefreshKeeps, M!Exists
  <1> QED
    BY <1>1, <1>2, <1>3, <1>4, <1>5

(* A reader that is asked forgets its last answer.                         *)
LEMMA MemoryAsk ==
    ASSUME MemoryInv, NEW d \in Docs, M!Ask(d) PROVE MemoryInv'
  <1> USE DEF MemoryInv, M!Ask,
          M!file_vars, M!refresh_vars, M!read_vars, M!histories
  <1>1. M!TypeOK'
    <2>1. /\ witnessed' \subseteq M!Written
          /\ cached' \in M!Documents \cup {Absent}
          /\ reply' \in [content : M!Written \cup {Absent}, fresh : BOOLEAN]
      BY DEF M!TypeOK, M!Exists, M!Unheard
    <2> QED
      BY <2>1 DEF M!TypeOK
  <1>2. DocumentsTrack'
    BY DEF DocumentsTrack, Tracks
  <1>3. RefreshSights'
    BY DEF RefreshSights
  <1>4. ReaderSights'
    <2>1. cached' \in M!Documents /\ ~reply'.fresh
      BY DEF M!TypeOK, M!Unheard
    <2>2. seen_reads = <<>> /\ Len(seen_reads) = 0
      BY DEF ReaderSights
    <2>3. doc_file[d].content # Absent => doc_file[d].content \in witnessed'
      BY DEF M!Exists
    <2> QED
      BY <2>1, <2>2, <2>3 DEF ReaderSights, M!Exists
  <1>5. RefreshKeeps'
    BY DEF RefreshKeeps, M!Exists
  <1> QED
    BY <1>1, <1>2, <1>3, <1>4, <1>5

(* That the file is there, or cannot be looked at, changes no document.    *)
LEMMA MemoryCheckSource ==
    ASSUME MemoryInv, M!CheckSource PROVE MemoryInv'
  <1> USE DEF MemoryInv, M!CheckSource,
          M!file_vars, M!refresh_vars, M!read_vars, M!histories
  <1>1. M!TypeOK'
    <2>1. io_errors' \in 0..MaxErrors
      BY FaultCounts
    <2> QED
      BY <2>1 DEF M!TypeOK
  <1>2. DocumentsTrack'
    BY DEF DocumentsTrack, Tracks
  <1>3. RefreshSights'
    BY DEF RefreshSights
  <1>4. ReaderSights'
    BY DEF ReaderSights, M!Exists
  <1>5. RefreshKeeps'
    BY DEF RefreshKeeps, M!Exists
  <1> QED
    BY <1>1, <1>2, <1>3, <1>4, <1>5

(* An answer that is called fresh is the content the file has.             *)
LEMMA MemoryCompare ==
    ASSUME MemoryInv, M!Compare PROVE MemoryInv'
  <1> USE DEF MemoryInv, M!Compare, M!Reply,
          M!file_vars, M!refresh_vars, M!read_vars, M!histories
  <1>1. M!TypeOK'
    <2>1. io_errors' \in 0..MaxErrors
      BY FaultCounts
    <2>2. 1 \in 1..Attempts
      BY StoresConstants
    <2>3. /\ cached.content \in M!Written
          /\ reply \in [content : M!Written \cup {Absent}, fresh : BOOLEAN]
      BY DocumentForm DEF M!TypeOK, ReaderSights
    <2>4. ASSUME NEW c \in M!Written \cup {Absent}, NEW b \in BOOLEAN
          PROVE  [content |-> c, fresh |-> b] \in [content : M!Written \cup {Absent}, fresh : BOOLEAN]
      OBVIOUS
    <2>5. reply' \in [content : M!Written \cup {Absent}, fresh : BOOLEAN]
      BY <2>3, <2>4, Zenon
    <2> QED
      BY <2>1, <2>2, <2>5 DEF M!TypeOK
  <1>2. DocumentsTrack'
    BY DEF DocumentsTrack, Tracks
  <1>3. RefreshSights'
    BY DEF RefreshSights
  <1>4. ReaderSights'
    <2>1. M!Exists(wanted) => doc_file[wanted].content \in witnessed
      BY DEF ReaderSights
    <2>2. /\ reply'.fresh => reply'.content \in witnessed
          /\ seen_reads' = <<>> /\ Len(seen_reads') = 0
      BY <2>1 DEF ReaderSights
    <2>3. read' # "idle" => cached \in M!Documents
      BY DEF ReaderSights
    <2> QED
      BY <2>1, <2>2, <2>3 DEF ReaderSights, M!Exists
  <1>5. RefreshKeeps'
    BY DEF RefreshKeeps, M!Exists
  <1> QED
    BY <1>1, <1>2, <1>3, <1>4, <1>5

(* What a reader sees it sees after it was asked.                          *)
LEMMA MemoryReparseLooks ==
    ASSUME MemoryInv, M!ReparseLooks PROVE MemoryInv'
  <1> USE DEF MemoryInv, M!ReparseLooks,
          M!file_vars, M!refresh_vars, M!read_vars, M!histories
  <1>1. M!TypeOK'
    <2>1. wanted \in Docs /\ seen_reads \in Seq(Sights)
      BY DEF M!TypeOK, ReaderSights
    <2>2. Len(M!Look(wanted, seen_reads)) = Len(seen_reads) + 1 /\ Len(seen_reads) \in Nat
      BY <2>1, LookSees, LengthIsNat
    <2> QED
      BY <2>2 DEF M!TypeOK
  <1>2. DocumentsTrack'
    BY DEF DocumentsTrack, Tracks
  <1>3. RefreshSights'
    BY DEF RefreshSights
  <1>4. ReaderSights'
    <2>1. wanted \in Docs /\ seen_reads \in Seq(Sights) /\ Len(seen_reads) < 4
      BY DEF M!TypeOK, ReaderSights
    <2>2. /\ wanted \in Docs /\ seen_reads \in Seq(Sights) /\ Len(seen_reads) \in Nat
          /\ Len(seen_reads) < 2 \/ Len(seen_reads) = 2 \/ Len(seen_reads) = 3
      BY <2>1, LengthIsNat
    <2>3. /\ seen_reads' \in Seq(Sights) /\ Len(seen_reads') = Len(seen_reads) + 1
          /\ Len(seen_reads) = 3 => seen_reads'[4] = doc_file[wanted].content
      BY <2>2, LookSees
    <2>4. doc_file[wanted].content \in witnessed
      BY DEF ReaderSights
    <2>5. Len(seen_reads') >= 4 => Len(seen_reads) = 3
      BY <2>1, <2>3, LengthIsNat
    <2>6. Len(seen_reads') >= 4 => seen_reads'[4] \in witnessed'
      BY <2>3, <2>4, <2>5
    <2> QED
      BY <2>3, <2>6 DEF ReaderSights, M!Exists
  <1>5. RefreshKeeps'
    BY DEF RefreshKeeps, M!Exists
  <1> QED
    BY <1>1, <1>2, <1>3, <1>4, <1>5

(* What it answers with it has seen.                                       *)
LEMMA MemoryReparseParses ==
    ASSUME MemoryInv, M!ReparseParses PROVE MemoryInv'
  <1> USE DEF MemoryInv, M!ReparseParses, M!Reply,
          M!file_vars, M!refresh_vars, M!read_vars, M!histories
  <1>1. M!TypeOK'
    <2>1. wanted \in Docs /\ seen_reads \in Seq(Sights) /\ Len(seen_reads) = 4
      BY DEF M!TypeOK, ReaderSights
    <2>2. M!Look(wanted, seen_reads)[4] = seen_reads[4]
      BY <2>1, LookSees
    <2>3. 1 \in 1..Attempts
      BY StoresConstants
    <2>4. reply' \in [content : M!Written \cup {Absent}, fresh : BOOLEAN]
      BY <2>2 DEF M!TypeOK, ReaderSights
    <2> QED
      BY <2>3, <2>4 DEF M!TypeOK
  <1>2. DocumentsTrack'
    BY DEF DocumentsTrack, Tracks
  <1>3. RefreshSights'
    BY DEF RefreshSights
  <1>4. ReaderSights'
    <2>1. wanted \in Docs /\ seen_reads \in Seq(Sights) /\ Len(seen_reads) = 4
      BY DEF M!TypeOK, ReaderSights
    <2>2. M!Look(wanted, seen_reads)[4] = seen_reads[4]
      BY <2>1, LookSees
    <2>3. reply'.content = seen_reads[4]
      BY <2>2
    <2> QED
      BY <2>3 DEF ReaderSights, M!Exists
  <1>5. RefreshKeeps'
    BY DEF RefreshKeeps, M!Exists
  <1> QED
    BY <1>1, <1>2, <1>3, <1>4, <1>5

(* Another attempt of the reader starts from nothing seen.                 *)
LEMMA MemoryReparseAgain ==
    ASSUME MemoryInv, M!ReparseAgain PROVE MemoryInv'
  <1> USE DEF MemoryInv, M!ReparseAgain,
          M!file_vars, M!refresh_vars, M!read_vars, M!histories
  <1>1. M!TypeOK'
    <2>1. io_errors' \in 0..MaxErrors
      BY FaultCounts DEF M!AttemptFails
    <2>2. retry' \in 1..Attempts
      BY StoresConstants DEF M!TypeOK
    <2> QED
      BY <2>1, <2>2 DEF M!TypeOK
  <1>2. DocumentsTrack'
    BY DEF DocumentsTrack, Tracks
  <1>3. RefreshSights'
    BY DEF RefreshSights
  <1>4. ReaderSights'
    BY DEF ReaderSights, M!Exists
  <1>5. RefreshKeeps'
    BY DEF RefreshKeeps, M!Exists
  <1> QED
    BY <1>1, <1>2, <1>3, <1>4, <1>5

(* An answer from the snapshot is not called fresh.                        *)
LEMMA MemoryReparseFails ==
    ASSUME MemoryInv, M!ReparseFails PROVE MemoryInv'
  <1> USE DEF MemoryInv, M!ReparseFails, M!Reply,
          M!file_vars, M!refresh_vars, M!read_vars, M!histories
  <1>1. M!TypeOK'
    <2>1. io_errors' \in 0..MaxErrors
      BY FaultCounts DEF M!AttemptFails
    <2>2. 1 \in 1..Attempts
      BY StoresConstants
    <2>3. /\ cached.content \in M!Written
          /\ reply \in [content : M!Written \cup {Absent}, fresh : BOOLEAN]
      BY DocumentForm DEF M!TypeOK, ReaderSights
    <2>4. ASSUME NEW c \in M!Written \cup {Absent}, NEW b \in BOOLEAN
          PROVE  [content |-> c, fresh |-> b] \in [content : M!Written \cup {Absent}, fresh : BOOLEAN]
      OBVIOUS
    <2>5. reply' \in [content : M!Written \cup {Absent}, fresh : BOOLEAN]
      BY <2>3, <2>4, Zenon
    <2> QED
      BY <2>1, <2>2, <2>5 DEF M!TypeOK
  <1>2. DocumentsTrack'
    BY DEF DocumentsTrack, Tracks
  <1>3. RefreshSights'
    BY DEF RefreshSights
  <1>4. ReaderSights'
    <2>1. ~reply'.fresh
      OBVIOUS
    <2>2. <<>> \in Seq(Sights) /\ Len(<<>>) = 0
      OBVIOUS
    <2>3. read' = "idle" /\ seen_reads' = <<>>
      OBVIOUS
    <2> QED
      BY <2>1, <2>2, <2>3 DEF ReaderSights
  <1>5. RefreshKeeps'
    BY DEF RefreshKeeps, M!Exists
  <1> QED
    BY <1>1, <1>2, <1>3, <1>4, <1>5

(* Every action of Memory keeps the invariant.                             *)
LEMMA MemoryStep ==
    ASSUME MemoryInv, M!Next \/ UNCHANGED M!memory_vars PROVE MemoryInv'
  <1>1. CASE UNCHANGED M!memory_vars
    BY <1>1 DEF M!memory_vars, M!file_vars, M!refresh_vars, M!read_vars, M!histories,
                MemoryInv, M!TypeOK, DocumentsTrack, Tracks, RefreshSights, ReaderSights,
                RefreshKeeps, M!Exists
  <1>2. CASE M!Next
    <2>1. ASSUME NEW d \in Docs, M!StartWrite(d) PROVE MemoryInv'
      BY <2>1, MemoryTouch DEF M!StartWrite, M!Written
    <2>2. ASSUME NEW d \in Docs, M!Remove(d) PROVE MemoryInv'
      BY <2>2, MemoryTouch DEF M!Remove
    <2>3. ASSUME NEW d \in Docs, NEW c \in Contents, M!Write(d, c) PROVE MemoryInv'
      BY <2>3, MemoryTouch DEF M!Write, M!Written
    <2> QED
      BY <1>2, <2>1, <2>2, <2>3, MemoryStartRefresh, MemoryDiscover, MemoryDiscoverFails,
         MemoryDiscovered, MemoryVisit, MemoryLooks, MemoryParses, MemoryReadsAgain,
         MemoryGivesUp, MemoryPublish, MemoryDie, MemoryAsk, MemoryCheckSource,
         MemoryCompare, MemoryReparseLooks, MemoryReparseParses, MemoryReparseAgain,
         MemoryReparseFails DEF M!Next
  <1> QED
    BY <1>1, <1>2

(* The invariant holds of every state of Memory.                           *)
THEOREM MemoryInvariant == StoresSpec => []MemoryInv
  <1>1. StoresInit => MemoryInv
    BY MemoryInit
  <1>2. MemoryInv /\ [StoresNext]_stores_vars => MemoryInv'
    BY MemoryMoves, MemoryStep
  <1> QED
    BY <1>1, <1>2, PTL DEF StoresSpec

(* A published document that is fresh has the content of its file for as   *)
(* long as the file has the recorded stamp (unchanged_on_disk and          *)
(* read_consistent in src/memory.rs), and a reader that calls its answer   *)
(* fresh gives a content the file had since it was asked (read_memory in   *)
(* src/memory_search.rs), however many writes, failed calls and attempts   *)
(* there are.                                                              *)
THEOREM FreshAlwaysCurrent == StoresSpec => []FreshIsCurrent
  <1>1. MemoryInv => FreshIsCurrent
    BY DEF MemoryInv, DocumentsTrack, Tracks, ReaderSights, FreshIsCurrent, M!FreshIsCurrent
  <1> QED
    BY <1>1, MemoryInvariant, PTL

(* A refresh drops a document only for a file that was absent while it     *)
(* ran, or that is excluded (prepare_refresh and discovery_failure_covers  *)
(* in src/memory.rs): neither a directory that cannot be listed nor a file *)
(* that cannot be read costs one.                                          *)
THEOREM DocumentsAlwaysOutliveErrors == StoresSpec => DocumentsOutliveErrors
  <1> DEFINE Kept == \A d \in Docs : snapshot[d] # Absent /\ snapshot'[d] = Absent
                         => d \in was_absent \/ options[d] = "excluded"
  <1>1. ASSUME MemoryInv, [StoresNext]_stores_vars PROVE [Kept]_M!memory_vars
    <2>1. CASE UNCHANGED M!memory_vars
      BY <2>1
    <2>2. CASE M!Publish
      <3> SUFFICES ASSUME NEW d \in Docs, snapshot[d] # Absent, snapshot'[d] = Absent,
                          options[d] # "excluded"
                   PROVE  d \in was_absent
        OBVIOUS
      <3>1. CASE d \in candidates
        BY <1>1, <2>2, <3>1 DEF MemoryInv, RefreshKeeps, M!Publish
      <3>2. CASE d \notin candidates
        <4>1. M!Leftover(d) = Absent
          BY <2>2, <3>2 DEF M!Publish
        <4>2. snapshot[d] \in M!Documents /\ options[d] \in {"selected", "unselected"}
          BY <1>1 DEF MemoryInv, M!TypeOK
        <4>3. options[d] = "selected" /\ d \notin unlisted
          BY <4>1, <4>2, DocumentForm DEF M!Leftover
        <4> QED
          BY <1>1, <2>2, <3>2, <4>3 DEF MemoryInv, RefreshKeeps, M!Publish
      <3> QED
        BY <3>1, <3>2
    <2>3. CASE M!Next /\ ~M!Publish
      <3>1. snapshot' = snapshot
        BY <2>3 DEF M!Next, M!StartWrite, M!Remove, M!Write, M!Touch, M!StartRefresh, M!Discover,
           M!DiscoverFails, M!Discovered, M!Visit, M!Looks, M!Parses, M!Prepare, M!ReadsAgain,
           M!GivesUp, M!Die, M!Ask, M!CheckSource, M!Compare, M!ReparseLooks, M!ReparseParses,
           M!ReparseAgain, M!ReparseFails, M!file_vars
      <3> QED
        BY <3>1
    <2> QED
      BY <1>1, <2>1, <2>2, <2>3, MemoryMoves
  <1>2. DocumentsOutliveErrors <=> [][Kept]_M!memory_vars
    BY DEF DocumentsOutliveErrors, M!DocumentsOutliveErrors
  <1> HIDE DEF Kept
  <1> QED
    BY <1>1, <1>2, MemoryInvariant, PTL DEF StoresSpec

-----------------------------------------------------------------------------
(* The terminal interface.  A queue of requests or answers is stale if     *)
(* every one is old; only its last element can be of the active request.   *)
Stale(s) == \A i \in 1..Len(s) : s[i] = Old
LastOnly(s) == \A i \in 1..Len(s) : s[i] # Old => i = Len(s)

(* Of a queue, a worker and its answers at most one has the active         *)
(* request, and nothing was asked for after it.                            *)
OneActive(queue, worker, answers) ==
    /\ LastOnly(queue) /\ LastOnly(answers)
    /\ worker \notin {Old, Idle} => queue = <<>> /\ Stale(answers)
    /\ ~Stale(answers) => queue = <<>> /\ worker = Idle

(* Requests and answers are old or of one of the given kinds.              *)
Carry(queue, worker, answers, kinds) ==
    /\ queue \in Seq(kinds \cup {Old}) /\ answers \in Seq(kinds \cup {Old})
    /\ worker \in kinds \cup {Old, Idle}

(* The list: it is loading as long as a search is to be sent or its answer *)
(* is to come, never both.                                                 *)
ListInv ==
    /\ Carry(searches, searching, found, {T!New})
    /\ OneActive(searches, searching, found)
    /\ list = "loading" <=> debounce \/ T!Coming(searches, searching, found)
    /\ ~(debounce /\ T!Coming(searches, searching, found))

(* The selection is of a session there is.                                 *)
SelectionInv ==
    results \in Seq(Sessions) /\ selected \in 0..Len(results) /\ view \in Views

(* The preview: it is loading as long as its lines are to come.            *)
PreviewInv ==
    /\ Carry(renders, rendering, rendered, T!Looks)
    /\ OneActive(renders, rendering, rendered)
    /\ preview = "loading" <=> T!Coming(renders, rendering, rendered)

(* Away from the home screen the preview is, or will be, of the selection. *)
ShownInv ==
    layout # "Home" =>
        /\ last_detail = IF selected = 0 THEN Blank ELSE <<results[selected], view>>
        /\ Carry(renders, rendering, rendered, {last_detail})
        /\ preview = "settled" => selected # 0 /\ previewed = last_detail

(* The inductive invariant of the terminal interface.                      *)
TuiInv == ListInv /\ SelectionInv /\ PreviewInv /\ ShownInv

(* The end of a queue.                                                     *)
LEMMA QueueEnds ==
    ASSUME NEW K, NEW s \in Seq(K)
    PROVE  /\ Len(s) \in Nat
           /\ s # <<>> => Len(s) \in 1..Len(s) /\ 1 \in 1..Len(s) /\ s[Len(s)] \in K
           /\ \A i \in 1..Len(s) : s[i] \in K
           /\ s = <<>> <=> Len(s) = 0
  <1>1. Len(s) \in Nat /\ (s = <<>> <=> Len(s) = 0) /\ \A i \in 1..Len(s) : s[i] \in K
    OBVIOUS
  <1>2. s # <<>> => Len(s) \in 1..Len(s) /\ 1 \in 1..Len(s)
    BY <1>1
  <1> QED
    BY <1>1, <1>2

(* A queue of fewer kinds is one of more.                                  *)
LEMMA QueueWidens ==
    ASSUME NEW J, NEW K, J \subseteq K, NEW s \in Seq(J) PROVE s \in Seq(K)
  OBVIOUS

(* next_request_id makes a queue stale.                                    *)
LEMMA AllOldIsStale ==
    ASSUME NEW K, NEW s \in Seq(K)
    PROVE  /\ T!AllOld(s) \in Seq({Old}) /\ Len(T!AllOld(s)) = Len(s)
           /\ Stale(T!AllOld(s)) /\ LastOnly(T!AllOld(s))
  <1>1. DOMAIN s = 1..Len(s) /\ Len(s) \in Nat
    OBVIOUS
  <1>2. T!AllOld(s) = [i \in 1..Len(s) |-> Old]
    BY <1>1 DEF T!AllOld
  <1>3. T!AllOld(s) \in Seq({Old}) /\ Len(T!AllOld(s)) = Len(s)
    BY <1>1, <1>2
  <1>4. \A i \in 1..Len(s) : T!AllOld(s)[i] = Old
    BY <1>2
  <1> QED
    BY <1>3, <1>4 DEF Stale, LastOnly

(* What comes is at the end of a queue or with the worker.                 *)
LEMMA ComingMeans ==
    ASSUME NEW q, NEW w, NEW a
    PROVE  T!Coming(q, w, a) <=> \/ q # <<>> /\ q[Len(q)] # Old
                                 \/ a # <<>> /\ a[Len(a)] # Old
                                 \/ w \notin {Old, Idle}
  BY DEF T!Coming

(* A stale queue brings nothing.                                           *)
LEMMA StaleEnds ==
    ASSUME NEW K, NEW s \in Seq(K), Stale(s) PROVE s # <<>> => s[Len(s)] = Old
  BY QueueEnds DEF Stale

(* A new id without a request: nothing comes.                              *)
LEMMA Outdated ==
    ASSUME NEW K, NEW J, NEW q, NEW w, NEW a, Carry(q, w, a, K),
           NEW v, v = IF w = Idle THEN Idle ELSE Old
    PROVE  /\ Carry(T!AllOld(q), v, T!AllOld(a), J)
           /\ OneActive(T!AllOld(q), v, T!AllOld(a))
           /\ ~T!Coming(T!AllOld(q), v, T!AllOld(a))
  <1>1. q \in Seq(K \cup {Old}) /\ a \in Seq(K \cup {Old}) /\ v \in {Old, Idle}
    BY DEF Carry
  <1>2. /\ T!AllOld(q) \in Seq({Old}) /\ Stale(T!AllOld(q)) /\ LastOnly(T!AllOld(q))
        /\ T!AllOld(a) \in Seq({Old}) /\ Stale(T!AllOld(a)) /\ LastOnly(T!AllOld(a))
    BY <1>1, AllOldIsStale
  <1>3. T!AllOld(q) \in Seq(J \cup {Old}) /\ T!AllOld(a) \in Seq(J \cup {Old})
    <2>1. {Old} \subseteq J \cup {Old}
      OBVIOUS
    <2> QED
      BY <1>2, <2>1, QueueWidens
  <1>4. ~T!Coming(T!AllOld(q), v, T!AllOld(a))
    BY <1>1, <1>2, StaleEnds, ComingMeans
  <1> QED
    BY <1>1, <1>2, <1>3, <1>4 DEF Carry, OneActive

(* A request with a new id: only it comes.                                 *)
LEMMA Requested ==
    ASSUME NEW K, NEW q, NEW w, NEW a, Carry(q, w, a, K), NEW x, x \notin {Old, Idle},
           NEW v, v = IF w = Idle THEN Idle ELSE Old
    PROVE  /\ Carry(Append(T!AllOld(q), x), v, T!AllOld(a), {x})
           /\ OneActive(Append(T!AllOld(q), x), v, T!AllOld(a))
           /\ T!Coming(Append(T!AllOld(q), x), v, T!AllOld(a))
  <1> DEFINE old == T!AllOld(q)
             more == Append(old, x)
  <1>1. q \in Seq(K \cup {Old}) /\ a \in Seq(K \cup {Old}) /\ v \in {Old, Idle}
    BY DEF Carry
  <1>2. /\ old \in Seq({Old}) /\ Stale(old)
        /\ T!AllOld(a) \in Seq({Old}) /\ Stale(T!AllOld(a)) /\ LastOnly(T!AllOld(a))
    BY <1>1, AllOldIsStale
  <1> HIDE DEF old
  <1>3. old \in Seq({x} \cup {Old}) /\ T!AllOld(a) \in Seq({x} \cup {Old})
    <2>1. {Old} \subseteq {x} \cup {Old}
      OBVIOUS
    <2> QED
      BY <1>2, <2>1, QueueWidens
  <1>4. /\ more \in Seq({x} \cup {Old}) /\ Len(more) = Len(old) + 1 /\ Len(old) \in Nat
        /\ more[Len(more)] = x /\ more # <<>>
        /\ \A i \in 1..Len(old) : more[i] = old[i]
    BY <1>3
  <1>5. LastOnly(more)
    <2> SUFFICES ASSUME NEW i \in 1..Len(more), i # Len(more) PROVE more[i] = Old
      BY DEF LastOnly
    <2>1. i \in 1..Len(old)
      BY <1>4
    <2> QED
      BY <1>2, <1>4, <2>1 DEF Stale
  <1>6. T!Coming(more, v, T!AllOld(a))
    BY <1>4, ComingMeans
  <1> QED
    BY <1>1, <1>2, <1>3, <1>4, <1>5, <1>6 DEF Carry, OneActive, old

(* The worker takes the newest request and drops the others.               *)
LEMMA Taken ==
    ASSUME NEW K, Idle \notin K, NEW q, NEW a, Carry(q, Idle, a, K), OneActive(q, Idle, a), q # <<>>
    PROVE  /\ Carry(<<>>, q[Len(q)], a, K)
           /\ OneActive(<<>>, q[Len(q)], a)
           /\ T!Coming(<<>>, q[Len(q)], a) <=> T!Coming(q, Idle, a)
  <1>1. q \in Seq(K \cup {Old}) /\ a \in Seq(K \cup {Old}) /\ Stale(a)
    BY DEF Carry, OneActive
  <1>2. q[Len(q)] \in K \cup {Old} /\ q[Len(q)] # Idle
    BY <1>1, QueueEnds, StoresConstants
  <1>3. LastOnly(<<>>) /\ <<>> \in Seq(K \cup {Old})
    BY DEF LastOnly
  <1>4. T!Coming(<<>>, q[Len(q)], a) <=> T!Coming(q, Idle, a)
    BY <1>2, ComingMeans
  <1> QED
    BY <1>1, <1>2, <1>3, <1>4 DEF Carry, OneActive

(* The worker answers.                                                     *)
LEMMA Answered ==
    ASSUME NEW K, NEW q, NEW w, NEW a, Carry(q, w, a, K), OneActive(q, w, a), w # Idle
    PROVE  /\ Carry(q, Idle, Append(a, w), K)
           /\ OneActive(q, Idle, Append(a, w))
           /\ T!Coming(q, Idle, Append(a, w)) <=> T!Coming(q, w, a)
  <1> DEFINE more == Append(a, w)
  <1>1. /\ q \in Seq(K \cup {Old}) /\ a \in Seq(K \cup {Old}) /\ w \in K \cup {Old}
        /\ Stale(a) /\ LastOnly(q)
    BY DEF Carry, OneActive
  <1>2. /\ more \in Seq(K \cup {Old}) /\ Len(more) = Len(a) + 1 /\ Len(a) \in Nat
        /\ more[Len(more)] = w /\ more # <<>>
        /\ \A i \in 1..Len(a) : more[i] = a[i]
    BY <1>1
  <1> HIDE DEF more
  <1>3. \A i \in 1..Len(more) : i # Len(more) => more[i] = Old
    <2> SUFFICES ASSUME NEW i \in 1..Len(more), i # Len(more) PROVE more[i] = Old
      OBVIOUS
    <2>1. i \in 1..Len(a)
      BY <1>2
    <2> QED
      BY <1>1, <1>2, <2>1 DEF Stale
  <1>4. LastOnly(more) /\ (w = Old => Stale(more))
    BY <1>2, <1>3 DEF LastOnly, Stale
  <1>5. w # Old => q = <<>>
    BY DEF OneActive
  <1>6. a # <<>> => a[Len(a)] = Old
    BY <1>1, StaleEnds
  <1>7. T!Coming(q, Idle, more) <=> T!Coming(q, w, a)
    BY <1>2, <1>6, ComingMeans
  <1>8. Carry(q, Idle, more, K) /\ OneActive(q, Idle, more)
    BY <1>1, <1>2, <1>4, <1>5 DEF Carry, OneActive
  <1> QED
    BY <1>7, <1>8 DEF more

(* The loop handles an answer of the active request, the last there is.    *)
LEMMA Handled ==
    ASSUME NEW K, NEW q, NEW w, NEW a, Carry(q, w, a, K), OneActive(q, w, a),
           a # <<>>, Head(a) # Old
    PROVE  /\ Carry(q, w, Tail(a), K) /\ OneActive(q, w, Tail(a))
           /\ Head(a) \in K /\ T!Coming(q, w, a) /\ ~T!Coming(q, w, Tail(a))
  <1>1. q \in Seq(K \cup {Old}) /\ a \in Seq(K \cup {Old}) /\ LastOnly(a)
    BY DEF Carry, OneActive
  <1>2. Len(a) \in Nat /\ 1 \in 1..Len(a) /\ Head(a) = a[1] /\ a[1] \in K \cup {Old}
    BY <1>1, QueueEnds
  <1>3. Len(a) = 1
    BY <1>1, <1>2 DEF LastOnly
  <1>4. Tail(a) = <<>> /\ <<>> \in Seq(K \cup {Old}) /\ Len(<<>>) = 0
    <2>1. Tail(a) \in Seq(K \cup {Old}) /\ Len(Tail(a)) = 0
      BY <1>1, <1>3
    <2>2. Tail(a) = <<>>
      BY <2>1, QueueEnds
    <2> QED
      BY <2>1, <2>2
  <1>5. q = <<>> /\ w = Idle
    BY <1>2 DEF OneActive, Stale
  <1>6. T!Coming(q, w, a)
    BY <1>2, <1>3, ComingMeans
  <1>7. ~T!Coming(q, w, Tail(a))
    BY <1>4, <1>5, ComingMeans
  <1>8. Carry(q, w, Tail(a), K) /\ OneActive(q, w, Tail(a))
    BY <1>1, <1>4, <1>5 DEF Carry, OneActive, LastOnly, Stale
  <1> QED
    BY <1>2, <1>6, <1>7, <1>8

(* The loop drops an old answer.                                           *)
LEMMA Ignored ==
    ASSUME NEW K, NEW q, NEW w, NEW a, Carry(q, w, a, K), OneActive(q, w, a),
           a # <<>>, Head(a) = Old
    PROVE  /\ Carry(q, w, Tail(a), K) /\ OneActive(q, w, Tail(a))
           /\ T!Coming(q, w, Tail(a)) <=> T!Coming(q, w, a)
  <1> DEFINE less == Tail(a)
  <1>1. q \in Seq(K \cup {Old}) /\ a \in Seq(K \cup {Old}) /\ LastOnly(a) /\ LastOnly(q)
    BY DEF Carry, OneActive
  <1>2. /\ less \in Seq(K \cup {Old}) /\ Len(less) = Len(a) - 1 /\ Len(a) \in Nat /\ Len(a) >= 1
        /\ \A i \in 1..Len(less) : less[i] = a[i + 1]
        /\ a[1] = Old
    BY <1>1
  <1> HIDE DEF less
  <1>3. LastOnly(less)
    <2> SUFFICES ASSUME NEW i \in 1..Len(less), less[i] # Old PROVE i = Len(less)
      BY DEF LastOnly
    <2>1. i + 1 \in 1..Len(a) /\ a[i + 1] # Old
      BY <1>2
    <2>2. i + 1 = Len(a)
      BY <1>1, <2>1 DEF LastOnly
    <2> QED
      BY <1>2, <2>2
  <1>4. Stale(a) <=> Stale(less)
    <2>1. ASSUME Stale(a), NEW i \in 1..Len(less) PROVE less[i] = Old
      <3>1. i + 1 \in 1..Len(a)
        BY <1>2
      <3> QED
        BY <1>2, <2>1, <3>1 DEF Stale
    <2>2. ASSUME Stale(less), NEW i \in 1..Len(a) PROVE a[i] = Old
      <3>1. i = 1 \/ (i - 1 \in 1..Len(less) /\ (i - 1) + 1 = i)
        BY <1>2
      <3> QED
        BY <1>2, <2>2, <3>1 DEF Stale
    <2> QED
      BY <2>1, <2>2 DEF Stale
  <1>5. (less # <<>> /\ less[Len(less)] # Old) <=> (a # <<>> /\ a[Len(a)] # Old)
    <2>1. ASSUME less # <<>> PROVE a # <<>> /\ less[Len(less)] = a[Len(a)]
      <3>1. Len(less) \in 1..Len(less) /\ Len(less) + 1 = Len(a)
        BY <1>2, <2>1, QueueEnds
      <3> QED
        BY <1>2, <3>1
    <2>2. ASSUME less = <<>> PROVE a[Len(a)] = Old
      <3>1. Len(less) = 0
        BY <2>2
      <3>2. Len(a) = 1
        BY <1>2, <3>1
      <3> QED
        BY <1>2, <3>2
    <2> QED
      BY <2>1, <2>2
  <1>6. T!Coming(q, w, less) <=> T!Coming(q, w, a)
    BY <1>5, ComingMeans
  <1>7. Carry(q, w, less, K) /\ OneActive(q, w, less)
    BY <1>1, <1>2, <1>3, <1>4 DEF Carry, OneActive
  <1> QED
    BY <1>6, <1>7 DEF less

(* Requests of fewer kinds are requests of more.                           *)
LEMMA CarryWidens ==
    ASSUME NEW J, NEW K, J \subseteq K, NEW q, NEW w, NEW a, Carry(q, w, a, J)
    PROVE  Carry(q, w, a, K)
  <1>1. J \cup {Old} \subseteq K \cup {Old}
    OBVIOUS
  <1> QED
    BY <1>1, QueueWidens DEF Carry

(* Whatever part moves, the variables of Tui take a step of it or stay.    *)
LEMMA TuiMoves ==
    ASSUME [StoresNext]_stores_vars
    PROVE  T!Next \/ UNCHANGED T!tui_vars
  BY DEF StoresNext, stores_vars, tui, T!tui_vars, T!screen, T!list_vars, T!preview_vars,
         T!search_worker, T!preview_worker

(* At first one search is under way.                                       *)
LEMMA TuiInit ==
    ASSUME StoresInit PROVE TuiInv
  <1> USE StoresConstants DEF StoresInit, T!Init
  <1>1. searches \in Seq({T!New} \cup {Old}) /\ Len(searches) = 1 /\ searches[1] = T!New
    BY DEF T!New
  <1>2. T!New # Old /\ T!New # Idle
    OBVIOUS
  <1>3. <<>> \in Seq({T!New} \cup {Old}) /\ <<>> \in Seq(T!Looks \cup {Old}) /\ Len(<<>>) = 0
    OBVIOUS
  <1>4. T!Coming(searches, searching, found) /\ searches # <<>>
    BY <1>1, <1>2, ComingMeans
  <1>5. LastOnly(searches) /\ LastOnly(<<>>) /\ Stale(<<>>)
    BY <1>1 DEF LastOnly, Stale
  <1>6. ListInv
    BY <1>1, <1>3, <1>4, <1>5 DEF ListInv, Carry, OneActive
  <1>7. ~T!Coming(renders, rendering, rendered)
    BY ComingMeans
  <1>8. PreviewInv
    BY <1>3, <1>5, <1>7 DEF PreviewInv, Carry, OneActive
  <1>9. SelectionInv
    BY DEF SelectionInv
  <1> QED
    BY <1>6, <1>8, <1>9 DEF TuiInv, ShownInv

(* What a step does to the list.                                           *)
LEMMA ListMoves ==
    ASSUME T!Next \/ UNCHANGED T!tui_vars
    PROVE  \/ UNCHANGED T!list_vars \/ T!KickoffSearch \/ T!ScheduleHomeSearch
           \/ T!TakeSearch \/ T!AnswerSearch \/ T!HandleSearchError \/ T!IgnoreSearch
           \/ \E l \in T!Lists : T!HandleResults(l)
  <1>1. CASE UNCHANGED T!tui_vars
    BY <1>1 DEF T!tui_vars
  <1>2. CASE T!Next
    BY <1>2 DEF T!Next, T!TypeAtHome, T!TypeQuery, T!OpenTimelineProject, T!FocusList,
       T!FocusQuery, T!EnterAtHome, T!TabAtHome, T!ApplyDropdown, T!EnterFullHistory,
       T!MoveSelection, T!ChangeView, T!MoveFocus, T!Submit, T!FilterKey, T!ToggleLayout,
       T!EnterPreview, T!ExitDetail, T!GoHome, T!FlushHomeSearch, T!IndexDone, T!TakeRender,
       T!AnswerRender, T!HandleRender, T!IgnoreRender
  <1> QED
    BY <1>1, <1>2

(* The list settles with the answer to the newest search, and no other.    *)
LEMMA ListStep ==
    ASSUME ListInv, T!Next \/ UNCHANGED T!tui_vars PROVE ListInv'
  <1>1. /\ Carry(searches, searching, found, {T!New}) /\ OneActive(searches, searching, found)
        /\ T!New \notin {Old, Idle}
    BY StoresConstants DEF ListInv
  <1>2. CASE UNCHANGED T!list_vars
    BY <1>2 DEF T!list_vars, T!search_worker, ListInv
  <1>3. CASE T!KickoffSearch
    <2>1. /\ Carry(searches', searching', found', {T!New})
          /\ OneActive(searches', searching', found')
          /\ T!Coming(searches', searching', found')
      BY <1>1, <1>3, Requested DEF T!KickoffSearch
    <2> QED
      BY <1>3, <2>1 DEF ListInv, T!KickoffSearch
  <1>4. CASE T!ScheduleHomeSearch
    <2>1. /\ Carry(searches', searching', found', {T!New})
          /\ OneActive(searches', searching', found')
          /\ ~T!Coming(searches', searching', found')
      BY <1>1, <1>4, Outdated DEF T!ScheduleHomeSearch, T!SearchOutdated
    <2> QED
      BY <1>4, <2>1 DEF ListInv, T!ScheduleHomeSearch
  <1>5. CASE T!TakeSearch
    <2>1. /\ Carry(searches', searching', found', {T!New})
          /\ OneActive(searches', searching', found')
          /\ T!Coming(searches', searching', found') <=> T!Coming(searches, searching, found)
      BY <1>1, <1>5, Taken DEF T!TakeSearch, T!Newest
    <2> QED
      BY <1>5, <2>1 DEF ListInv, T!TakeSearch
  <1>6. CASE T!AnswerSearch
    <2>1. /\ Carry(searches', searching', found', {T!New})
          /\ OneActive(searches', searching', found')
          /\ T!Coming(searches', searching', found') <=> T!Coming(searches, searching, found)
      BY <1>1, <1>6, Answered DEF T!AnswerSearch
    <2> QED
      BY <1>6, <2>1 DEF ListInv, T!AnswerSearch
  <1>7. CASE T!HandleSearchError \/ \E l \in T!Lists : T!HandleResults(l)
    <2>1. /\ found # <<>> /\ Head(found) # Old /\ found' = Tail(found)
          /\ searches' = searches /\ searching' = searching /\ debounce' = debounce
          /\ list' = "settled"
      BY <1>7 DEF T!HandleSearchError, T!HandleResults
    <2>2. /\ Carry(searches', searching', found', {T!New})
          /\ OneActive(searches', searching', found')
          /\ T!Coming(searches, searching, found)
          /\ ~T!Coming(searches', searching', found')
      BY <1>1, <2>1, Handled
    <2> QED
      BY <2>1, <2>2 DEF ListInv
  <1>8. CASE T!IgnoreSearch
    <2>1. /\ Carry(searches', searching', found', {T!New})
          /\ OneActive(searches', searching', found')
          /\ T!Coming(searches', searching', found') <=> T!Coming(searches, searching, found)
      BY <1>1, <1>8, Ignored DEF T!IgnoreSearch
    <2> QED
      BY <1>8, <2>1 DEF ListInv, T!IgnoreSearch
  <1> QED
    BY <1>2, <1>3, <1>4, <1>5, <1>6, <1>7, <1>8, ListMoves

(* A list that was found is a sequence of sessions.                        *)
LEMMA ListsAreSequences ==
    ASSUME NEW l \in T!Lists
    PROVE  l \in Seq(Sessions) /\ Len(l) \in Nat /\ (l # <<>> => 1 \in 1..Len(l))
  <1>1. PICK n \in 0..2 : l \in [1..n -> Sessions]
    BY DEF T!Lists
  <1>2. l \in Seq(Sessions)
    BY <1>1
  <1> QED
    BY <1>2, QueueEnds

(* What a step does to the selection.                                      *)
LEMMA SelectionStep ==
    ASSUME SelectionInv, T!Next \/ UNCHANGED T!tui_vars PROVE SelectionInv'
  <1> USE DEF SelectionInv, T!screen, T!list_vars
  <1>1. results \in Seq(Sessions) /\ Len(results) \in Nat /\ (results # <<>> => 1 \in 1..Len(results))
    BY QueueEnds
  <1>2. CASE UNCHANGED T!tui_vars
    BY <1>2 DEF T!tui_vars
  <1>3. ASSUME NEW l \in T!Lists, T!HandleResults(l) PROVE SelectionInv'
    BY <1>3, ListsAreSequences DEF T!HandleResults
  <1>4. ASSUME NEW i \in 1..2, T!MoveSelection(i) PROVE SelectionInv'
    BY <1>1, <1>4 DEF T!MoveSelection
  <1>5. ASSUME results' = results, view' = view, T!SelectFirst PROVE SelectionInv'
    BY <1>1, <1>5 DEF T!SelectFirst
  <1>6. ASSUME results' = results, selected' = selected, view' \in Views PROVE SelectionInv'
    BY <1>6
  <1>7. CASE T!FocusList \/ T!EnterAtHome \/ T!TabAtHome
    BY <1>5, <1>7 DEF T!FocusList, T!EnterAtHome, T!TabAtHome, T!EnterBrowse, T!KickoffSearch
  <1>8. ASSUME NEW t \in T!Queries, T!TypeAtHome(t) \/ T!TypeQuery(t) \/ T!OpenTimelineProject(t)
        PROVE  SelectionInv'
    BY <1>6, <1>8 DEF T!TypeAtHome, T!TypeQuery, T!OpenTimelineProject, T!KickoffSearch,
                      T!ScheduleHomeSearch
  <1>9. CASE T!FocusQuery \/ T!ApplyDropdown \/ T!EnterFullHistory \/ T!Submit \/ T!FilterKey
    BY <1>6, <1>9 DEF T!FocusQuery, T!ApplyDropdown, T!EnterFullHistory, T!Submit, T!FilterKey,
                      T!KickoffSearch
  <1>10. CASE T!ToggleLayout \/ T!EnterPreview \/ T!ExitDetail \/ T!GoHome \/ T!FlushHomeSearch \/ T!IndexDone
    BY <1>6, <1>10 DEF T!ToggleLayout, T!EnterPreview, T!ExitDetail, T!GoHome,
                       T!FlushHomeSearch, T!IndexDone, T!KickoffSearch
  <1>11. CASE T!TakeSearch \/ T!AnswerSearch \/ T!TakeRender \/ T!AnswerRender
    BY <1>6, <1>11 DEF T!TakeSearch, T!AnswerSearch, T!TakeRender, T!AnswerRender
  <1>12. CASE T!HandleSearchError \/ T!IgnoreSearch \/ T!HandleRender \/ T!IgnoreRender
    BY <1>6, <1>12 DEF T!HandleSearchError, T!IgnoreSearch, T!HandleRender, T!IgnoreRender
  <1>13. ASSUME NEW v \in Views, T!ChangeView(v) PROVE SelectionInv'
    BY <1>6, <1>13 DEF T!ChangeView
  <1>14. ASSUME NEW f \in T!Focuses, T!MoveFocus(f) PROVE SelectionInv'
    BY <1>6, <1>14 DEF T!MoveFocus
  <1> QED
    BY <1>2, <1>3, <1>4, <1>7, <1>8, <1>9, <1>10, <1>11, <1>12, <1>13, <1>14 DEF T!Next

(* What a step does to the preview: nothing, and then it leaves the        *)
(* selection alone or goes home; or it asks for it again.                  *)
PreviewStays ==
    /\ UNCHANGED T!preview_vars
    /\ layout' = "Home" \/ (layout # "Home" /\ UNCHANGED <<selected, results, view>>)

(* No action changes what the preview depends on without one or the other. *)
LEMMA PreviewMoves ==
    ASSUME T!Next \/ UNCHANGED T!tui_vars
    PROVE  \/ PreviewStays \/ T!UpdateDetail(Blank)
           \/ T!UpdateDetail(last_detail) /\ UNCHANGED <<layout, results, view>>
           \/ T!TakeRender \/ T!AnswerRender \/ T!HandleRender \/ T!IgnoreRender
  <1> DEFINE Goal == \/ PreviewStays \/ T!UpdateDetail(Blank)
                     \/ T!UpdateDetail(last_detail) /\ UNCHANGED <<layout, results, view>>
                     \/ T!TakeRender \/ T!AnswerRender \/ T!HandleRender \/ T!IgnoreRender
  <1>2. CASE UNCHANGED T!tui_vars
    BY <1>2 DEF T!tui_vars, T!screen, T!list_vars, PreviewStays
  <1>3. ASSUME NEW l \in T!Lists, T!HandleResults(l) PROVE Goal
    BY <1>3 DEF T!HandleResults
  <1>4. ASSUME NEW i \in 1..2, T!MoveSelection(i) PROVE Goal
    BY <1>4 DEF T!MoveSelection, T!list_vars
  <1>7. CASE T!FocusList \/ T!EnterAtHome \/ T!TabAtHome
    BY <1>7 DEF T!FocusList, T!EnterAtHome, T!TabAtHome, T!EnterBrowse,
                T!screen, PreviewStays
  <1>8. ASSUME NEW t \in T!Queries, T!TypeAtHome(t) \/ T!TypeQuery(t) \/ T!OpenTimelineProject(t)
        PROVE  Goal
    BY <1>8 DEF T!TypeAtHome, T!TypeQuery, T!OpenTimelineProject, T!KickoffSearch,
                T!Browsing, T!list_vars, PreviewStays
  <1>9. CASE T!FocusQuery \/ T!ApplyDropdown \/ T!EnterFullHistory \/ T!Submit \/ T!FilterKey
    BY <1>9 DEF T!FocusQuery, T!ApplyDropdown, T!EnterFullHistory, T!Submit, T!FilterKey,
                T!KickoffSearch, T!Browsing, T!list_vars, T!screen, PreviewStays
  <1>10. CASE T!ToggleLayout \/ T!EnterPreview \/ T!ExitDetail \/ T!GoHome
    BY <1>10 DEF T!ToggleLayout, T!EnterPreview, T!ExitDetail, T!GoHome,
                 T!Browsing, T!list_vars, PreviewStays
  <1>11. CASE T!FlushHomeSearch \/ T!IndexDone
    BY <1>11 DEF T!FlushHomeSearch, T!IndexDone, T!KickoffSearch, T!screen, PreviewStays
  <1>12. CASE T!TakeSearch \/ T!AnswerSearch \/ T!HandleSearchError \/ T!IgnoreSearch
    BY <1>12 DEF T!TakeSearch, T!AnswerSearch, T!HandleSearchError, T!IgnoreSearch, T!screen, PreviewStays
  <1>13. ASSUME NEW v \in Views, T!ChangeView(v) PROVE Goal
    BY <1>13 DEF T!ChangeView
  <1>14. ASSUME NEW f \in T!Focuses, T!MoveFocus(f) PROVE Goal
    BY <1>14 DEF T!MoveFocus, T!Browsing, T!list_vars, PreviewStays
  <1> QED
    BY <1>2, <1>3, <1>4, <1>7, <1>8, <1>9, <1>10, <1>11, <1>12, <1>13, <1>14 DEF T!Next

(* update_detail leaves a preview, or a request for it, of the selection.  *)
LEMMA DetailUpdated ==
    ASSUME TuiInv, SelectionInv', NEW last, T!UpdateDetail(last),
           \/ last = Blank
           \/ last = last_detail /\ UNCHANGED <<layout, results, view>>
    PROVE  PreviewInv' /\ ShownInv'
  <1>1. Carry(renders, rendering, rendered, T!Looks) /\ {Old, Idle} \cap T!Looks = {}
    BY StoresConstants DEF TuiInv, PreviewInv
  <1>2. CASE layout' = "Home"
    BY <1>2 DEF T!UpdateDetail, T!preview_worker, TuiInv, PreviewInv, ShownInv
  <1>3. CASE layout' # "Home" /\ selected' = 0
    <2>1. T!ClearDetail
      BY <1>3 DEF T!UpdateDetail
    <2>2. ASSUME NEW J
          PROVE  /\ Carry(renders', rendering', rendered', J)
                 /\ OneActive(renders', rendering', rendered')
                 /\ ~T!Coming(renders', rendering', rendered')
      BY <1>1, <2>1, Outdated DEF T!ClearDetail, T!RenderOutdated
    <2> QED
      BY <1>3, <2>1, <2>2 DEF T!ClearDetail, PreviewInv, ShownInv
  <1>4. CASE layout' # "Home" /\ selected' # 0
    <2> DEFINE wanted_detail == <<results'[selected'], view'>>
    <2>1. wanted_detail \in T!Looks /\ wanted_detail # Blank
      <3>1. results'[selected'] \in Sessions /\ view' \in Views
        BY <1>4, QueueEnds DEF SelectionInv
      <3> QED
        BY <3>1, StoresConstants DEF T!Looks
    <2>2. \/ last = wanted_detail /\ UNCHANGED T!preview_vars
          \/ T!RequestDetail(wanted_detail)
      BY <1>4 DEF T!UpdateDetail
    <2> HIDE DEF wanted_detail
    <2>3. CASE last = wanted_detail /\ UNCHANGED T!preview_vars
      <3>1. last = last_detail /\ layout # "Home" /\ last_detail' = last_detail
        BY <1>4, <2>1, <2>3 DEF T!preview_vars
      <3>2. PreviewInv'
        BY <2>3 DEF T!preview_vars, T!preview_worker, TuiInv, PreviewInv
      <3>3. ShownInv'
        BY <1>4, <2>3, <3>1 DEF T!preview_vars, T!preview_worker, TuiInv, ShownInv, wanted_detail
      <3> QED
        BY <3>2, <3>3
    <2>4. CASE T!RequestDetail(wanted_detail)
      <3>1. wanted_detail \notin {Old, Idle} /\ {wanted_detail} \subseteq T!Looks
        BY <1>1, <2>1
      <3>2. /\ Carry(renders', rendering', rendered', {wanted_detail})
            /\ OneActive(renders', rendering', rendered')
            /\ T!Coming(renders', rendering', rendered')
        BY <1>1, <2>4, <3>1, Requested DEF T!RequestDetail, T!RenderOutdated
      <3>3. Carry(renders', rendering', rendered', T!Looks)
        BY <3>1, <3>2, CarryWidens
      <3>4. preview' = "loading" /\ last_detail' = wanted_detail
        BY <2>4 DEF T!RequestDetail
      <3> QED
        BY <1>4, <3>2, <3>3, <3>4 DEF PreviewInv, ShownInv, wanted_detail
    <2> QED
      BY <2>2, <2>3, <2>4
  <1> QED
    BY <1>2, <1>3, <1>4

(* The last preview asked for is of a look, or there is none.              *)
LEMMA LastDetail ==
    ASSUME SelectionInv, ShownInv, layout # "Home"
    PROVE  last_detail # Idle /\ (last_detail \in T!Looks => selected # 0)
  <1>1. CASE selected = 0
    BY <1>1, StoresConstants DEF ShownInv
  <1>2. CASE selected # 0
    <2>1. results[selected] \in Sessions /\ view \in Views
      BY <1>2, QueueEnds DEF SelectionInv
    <2>2. last_detail \in T!Looks
      BY <1>2, <2>1 DEF ShownInv, T!Looks
    <2> QED
      BY <1>2, <2>2, StoresConstants
  <1> QED
    BY <1>1, <1>2

(* The preview is of the selection, whatever came late.                    *)
LEMMA PreviewStep ==
    ASSUME TuiInv, SelectionInv', T!Next \/ UNCHANGED T!tui_vars PROVE PreviewInv' /\ ShownInv'
  <1>1. /\ Carry(renders, rendering, rendered, T!Looks)
        /\ OneActive(renders, rendering, rendered)
        /\ Idle \notin T!Looks
        /\ preview = "loading" <=> T!Coming(renders, rendering, rendered)
    BY StoresConstants DEF TuiInv, PreviewInv
  <1>2. ASSUME layout # "Home"
        PROVE  /\ Carry(renders, rendering, rendered, {last_detail})
               /\ Idle \notin {last_detail} /\ (last_detail \in T!Looks => selected # 0)
    BY <1>2, LastDetail DEF TuiInv, ShownInv
  <1>3. ASSUME UNCHANGED <<T!screen, T!list_vars, last_detail>>,
               Carry(renders', rendering', rendered', T!Looks),
               OneActive(renders', rendering', rendered'),
               preview' = "loading" <=> T!Coming(renders', rendering', rendered'),
               layout # "Home" => Carry(renders', rendering', rendered', {last_detail}),
               \/ UNCHANGED <<preview, previewed>>
               \/ layout # "Home" => selected # 0 /\ previewed' = last_detail
        PROVE  PreviewInv' /\ ShownInv'
    <2>1. PreviewInv'
      BY <1>3 DEF PreviewInv
    <2>2. ShownInv'
      BY <1>3 DEF ShownInv, TuiInv, T!screen, T!list_vars
    <2> QED
      BY <2>1, <2>2
  <1>4. CASE PreviewStays
    BY <1>4 DEF PreviewStays, T!preview_vars, T!preview_worker, TuiInv, PreviewInv, ShownInv
  <1>5. CASE T!UpdateDetail(Blank)
    BY <1>5, DetailUpdated
  <1>6. CASE T!UpdateDetail(last_detail) /\ UNCHANGED <<layout, results, view>>
    BY <1>6, DetailUpdated
  <1>7. CASE T!TakeRender
    <2>1. ASSUME NEW K, Idle \notin K, Carry(renders, rendering, rendered, K)
          PROVE  /\ Carry(renders', rendering', rendered', K)
                 /\ OneActive(renders', rendering', rendered')
                 /\ T!Coming(renders', rendering', rendered')
                        <=> T!Coming(renders, rendering, rendered)
      BY <1>1, <1>7, <2>1, Taken DEF T!TakeRender, T!Newest
    <2>2. UNCHANGED <<T!screen, T!list_vars, last_detail, preview, previewed>>
      BY <1>7 DEF T!TakeRender
    <2> QED
      BY <1>1, <1>2, <1>3, <2>1, <2>2
  <1>8. CASE T!AnswerRender
    <2>1. ASSUME NEW K, Carry(renders, rendering, rendered, K)
          PROVE  /\ Carry(renders', rendering', rendered', K)
                 /\ OneActive(renders', rendering', rendered')
                 /\ T!Coming(renders', rendering', rendered')
                        <=> T!Coming(renders, rendering, rendered)
      BY <1>1, <1>8, <2>1, Answered DEF T!AnswerRender
    <2>2. UNCHANGED <<T!screen, T!list_vars, last_detail, preview, previewed>>
      BY <1>8 DEF T!AnswerRender
    <2> QED
      BY <1>1, <1>2, <1>3, <2>1, <2>2
  <1>9. CASE T!HandleRender
    <2>1. ASSUME NEW K, Carry(renders, rendering, rendered, K)
          PROVE  /\ Carry(renders', rendering', rendered', K)
                 /\ OneActive(renders', rendering', rendered')
                 /\ Head(rendered) \in K
                 /\ ~T!Coming(renders', rendering', rendered')
      BY <1>1, <1>9, <2>1, Handled DEF T!HandleRender
    <2>2. /\ UNCHANGED <<T!screen, T!list_vars, last_detail>>
          /\ preview' = "settled" /\ previewed' = Head(rendered)
      BY <1>9 DEF T!HandleRender
    <2>3. layout # "Home" => selected # 0 /\ previewed' = last_detail
      BY <1>1, <1>2, <2>1, <2>2
    <2> QED
      BY <1>1, <1>2, <1>3, <2>1, <2>2, <2>3
  <1>10. CASE T!IgnoreRender
    <2>1. ASSUME NEW K, Carry(renders, rendering, rendered, K)
          PROVE  /\ Carry(renders', rendering', rendered', K)
                 /\ OneActive(renders', rendering', rendered')
                 /\ T!Coming(renders', rendering', rendered')
                        <=> T!Coming(renders, rendering, rendered)
      BY <1>1, <1>10, <2>1, Ignored DEF T!IgnoreRender
    <2>2. UNCHANGED <<T!screen, T!list_vars, last_detail, preview, previewed>>
      BY <1>10 DEF T!IgnoreRender
    <2> QED
      BY <1>1, <1>2, <1>3, <2>1, <2>2
  <1> QED
    BY <1>4, <1>5, <1>6, <1>7, <1>8, <1>9, <1>10, PreviewMoves

(* TuiInv holds of every reachable state: a request that was superseded    *)
(* by another is old wherever it is, in the queue, with the worker or      *)
(* among the answers (next_request_id in src/tui.rs).                      *)
THEOREM TuiInvariant == StoresSpec => []TuiInv
  <1>1. StoresInit => TuiInv
    BY TuiInit
  <1>2. TuiInv /\ [StoresNext]_stores_vars => TuiInv'
    <2> SUFFICES ASSUME TuiInv, [StoresNext]_stores_vars PROVE TuiInv'
      OBVIOUS
    <2>1. ListInv'
      BY TuiMoves, ListStep DEF TuiInv
    <2>2. SelectionInv'
      BY TuiMoves, SelectionStep DEF TuiInv
    <2>3. PreviewInv' /\ ShownInv'
      BY <2>2, TuiMoves, PreviewStep
    <2> QED
      BY <2>1, <2>2, <2>3 DEF TuiInv
  <1> QED
    BY <1>1, <1>2, PTL DEF StoresSpec

(* The list is shown as loading exactly while a search waits for a pause   *)
(* in the typing or the answer to the newest one is to come                *)
(* (schedule_home_search, kickoff_search and handle_search_update in       *)
(* src/tui.rs), for queues of any length and answers in any order of       *)
(* arrival: a late answer never settles it, and it never loads in vain.    *)
THEOREM NewestAlwaysListed == StoresSpec => []NewestIsListed
  <1>1. TuiInv => NewestIsListed
    BY DEF TuiInv, ListInv, NewestIsListed, T!NewestIsListed
  <1> QED
    BY <1>1, TuiInvariant, PTL

(* Away from the home screen the lines shown are those of the selected     *)
(* session in the chosen view, and a preview that is loading has its lines *)
(* to come (update_detail and handle_search_update in src/tui.rs),         *)
(* whatever the reader selected while the workers ran.                     *)
THEOREM SelectionAlwaysPreviewed == StoresSpec => []SelectionIsPreviewed
  <1>1. TuiInv => SelectionIsPreviewed
    BY DEF TuiInv, PreviewInv, ShownInv, SelectionIsPreviewed, T!SelectionIsPreviewed
  <1> QED
    BY <1>1, TuiInvariant, PTL

-----------------------------------------------------------------------------
(* The usage cache.  What is known of a file, by anyone, was on disk: the  *)
(* file is now as new or gone.                                             *)
Reports == [generation : Nat, observed : [Logs -> Nat], events : [Logs -> Nat]]

UsageTypes ==
    /\ edits \in Nat /\ generation \in Nat
    /\ on_disk \in [Logs -> Nat] /\ blob_meta \in [Logs -> Nat] /\ blob_events \in [Logs -> Nat]
    /\ facts \in [Logs -> Nat] /\ digest \in [Logs -> Nat]
    /\ fingerprint \in [Logs -> Nat] /\ observed \in [Logs -> Nat] /\ events \in [Logs -> Nat]
    /\ missing \subseteq Logs /\ unsaved \subseteq Logs /\ removed \subseteq Logs
    /\ held \in [Users -> Reports] /\ asked \in [Users -> Reports]
    /\ qpc \in [Users -> {"out", "stat", "sync", "rows", "read", "confirm", "answered"}]

VersionsPassed ==
    \A f \in Logs :
        /\ on_disk[f] <= edits + 1 /\ fingerprint[f] <= edits + 1 /\ observed[f] <= edits + 1
        /\ blob_meta[f] <= blob_events[f] /\ blob_events[f] <= edits + 1 /\ events[f] <= edits + 1
        /\ on_disk[f] # 0 =>
               blob_events[f] <= on_disk[f] /\ observed[f] <= on_disk[f] /\ events[f] <= on_disk[f]
        /\ \A p \in Users : held[p].observed[f] <= edits + 1 /\ asked[p].observed[f] <= edits + 1

(* A process asks or refreshes, and has seen no generation to come.        *)
UsageTurns ==
    \A p \in Users :
        /\ lock = p => qpc[p] = "out"
        /\ held[p].generation <= generation /\ asked[p].generation <= generation

(* A refresh has the events of every blob that is as new as its scan, will *)
(* save nothing else, and leaves only facts that follow their blobs.       *)
RefreshFollows ==
    stage \in {"facts", "legacy", "commit"} =>
        \A f \in Logs :
            /\ f \in missing \cup unsaved => observed[f] # 0
            /\ f \in unsaved => f \in removed /\ f \notin missing /\ events[f] >= observed[f]
            /\ blob_meta[f] # 0 => observed[f] # 0 /\ blob_meta[f] <= observed[f]
            /\ blob_meta[f] # 0 /\ blob_meta[f] = observed[f] =>
                   f \notin missing \cup unsaved /\ events[f] = blob_events[f]
            /\ fingerprint[f] # 0 /\ on_disk[f] = fingerprint[f] => observed[f] = fingerprint[f]
            /\ stage = "facts" /\ f \notin removed \cup missing /\ blob_meta[f] # 0 =>
                   facts[f] = blob_events[f]

(* Nothing was written since the generation a report is of.                *)
Stands(report) == sync # {} /\ report.generation = generation

(* A report in memory has the events of the blobs it will be compared with.*)
HeldFollow ==
    \A p \in Users : Stands(held[p]) => \A f \in Logs :
        held[p].observed[f] # 0 /\ blob_meta[f] = held[p].observed[f]
            /\ on_disk[f] = held[p].observed[f] => held[p].events[f] = blob_events[f]

(* A query: what it has established stands as long as the generation does. *)
QueryFollows(p) ==
    /\ qpc[p] = "stat" /\ held[p].generation # 0 => asked[p] = held[p]
    /\ qpc[p] \notin {"out", "stat"} /\ Stands(asked[p]) => \A f \in Logs :
           asked[p].observed[f] # 0 /\ blob_meta[f] = asked[p].observed[f] =>
               /\ facts[f] = asked[p].observed[f] /\ blob_events[f] = asked[p].observed[f]
               /\ qpc[p] \in {"sync", "rows", "read"} /\ held[p].generation # 0 =>
                      asked[p].events[f] = asked[p].observed[f]
    /\ qpc[p] \in {"read", "confirm"} /\ Stands(asked[p]) => \A f \in Logs :
           asked[p].observed[f] # 0 => blob_meta[f] = asked[p].observed[f]
    /\ qpc[p] = "confirm" /\ Stands(asked[p]) => \A f \in Logs :
           asked[p].observed[f] # 0 => asked[p].events[f] = asked[p].observed[f]

QueriesFollow == \A p \in Users : QueryFollows(p)

(* The inductive invariant of the usage cache.                             *)
UsageInv ==
    /\ UsageTypes /\ VersionsPassed /\ UsageTurns
    /\ U!FactsFollowBlobs /\ RefreshFollows /\ HeldFollow /\ QueriesFollow
    /\ U!AnswersAreCurrent

(* Whatever part moves, the variables of Usage take a step of it or stay.  *)
LEMMA UsageMoves ==
    ASSUME [StoresNext]_stores_vars
    PROVE  U!Next \/ UNCHANGED U!vars
  BY DEF StoresNext, stores_vars, usage, U!vars, U!disk, U!blobs, U!canon, U!refresh, U!turn,
         U!queries

(* At first nothing is known of any file.                                  *)
LEMMA UsageInit ==
    ASSUME StoresInit PROVE UsageInv
  <1> USE DEF StoresInit, U!Init, U!Zero, U!None, U!Empty
  <1>1. UsageTypes
    BY DEF UsageTypes, Reports
  <1>2. VersionsPassed /\ UsageTurns
    BY StoresConstants DEF VersionsPassed, UsageTurns
  <1>3. U!FactsFollowBlobs /\ RefreshFollows
    BY DEF U!FactsFollowBlobs, RefreshFollows
  <1>4. HeldFollow /\ QueriesFollow /\ U!AnswersAreCurrent
    BY DEF HeldFollow, QueriesFollow, QueryFollows, U!AnswersAreCurrent, Stands
  <1> QED
    BY <1>1, <1>2, <1>3, <1>4 DEF UsageInv

(* What a query has established survives a change of the files and         *)
(* whatever a refresh writes: a blob is written without a sync row, facts  *)
(* with the next generation.                                               *)
Written ==
    \/ UNCHANGED <<blob_meta, blob_events, facts, sync, generation>>
    \/ sync' = {} /\ generation' = generation
    \/ generation' = generation + 1

(* A report of an earlier generation does not stand again.                 *)
LEMMA StandsBefore ==
    ASSUME UsageInv, Written, NEW r \in Reports, r.generation <= generation,
           sync' # {} /\ r.generation = generation'
    PROVE  Stands(r) /\ UNCHANGED <<blob_meta, blob_events, facts>>
  BY DEF UsageInv, UsageTypes, Reports, Written, Stands

(* Queries under way, while others move.                                   *)
LEMMA QueriesStay ==
    ASSUME UsageInv, Written, UNCHANGED <<qpc, asked>>,
           \A p \in Users : qpc[p] # "out" => held'[p] = held[p]
    PROVE  QueriesFollow' /\ U!AnswersAreCurrent'
  <1>1. U!AnswersAreCurrent'
    BY DEF UsageInv, U!AnswersAreCurrent
  <1>2. QueriesFollow'
    <2> SUFFICES ASSUME NEW p \in Users
        PROVE
        /\ qpc[p] = "stat" /\ held'[p].generation # 0 => asked[p] = held'[p]
        /\ qpc[p] \notin {"out", "stat"} /\ sync' # {} /\ asked[p].generation = generation' =>
               \A f \in Logs :
               asked[p].observed[f] # 0 /\ blob_meta'[f] = asked[p].observed[f] =>
                   /\ facts'[f] = asked[p].observed[f] /\ blob_events'[f] = asked[p].observed[f]
                   /\ qpc[p] \in {"sync", "rows", "read"} /\ held'[p].generation # 0 =>
                          asked[p].events[f] = asked[p].observed[f]
        /\ qpc[p] \in {"read", "confirm"} /\ sync' # {} /\ asked[p].generation = generation' =>
               \A f \in Logs : asked[p].observed[f] # 0 => blob_meta'[f] = asked[p].observed[f]
        /\ qpc[p] = "confirm" /\ sync' # {} /\ asked[p].generation = generation' =>
               \A f \in Logs : asked[p].observed[f] # 0 => asked[p].events[f] = asked[p].observed[f]
      BY DEF QueriesFollow, QueryFollows, Stands
    <2>1. asked[p] \in Reports /\ asked[p].generation <= generation
      BY DEF UsageInv, UsageTypes, UsageTurns
    <2>2. CASE qpc[p] # "out" /\ sync' # {} /\ asked[p].generation = generation'
      <3>1. Stands(asked[p]) /\ UNCHANGED <<blob_meta, blob_events, facts>> /\ held'[p] = held[p]
        BY <2>1, <2>2, StandsBefore
      <3> QED
        BY <3>1 DEF UsageInv, QueriesFollow, QueryFollows
    <2>3. CASE ~(qpc[p] # "out" /\ sync' # {} /\ asked[p].generation = generation')
      BY <2>3 DEF UsageInv, QueriesFollow, QueryFollows
    <2> QED
      BY <2>2, <2>3
  <1> QED
    BY <1>1, <1>2

(* Reports in memory, while others move.                                   *)
LEMMA HeldStay ==
    ASSUME UsageInv, Written, UNCHANGED held,
           \A f \in Logs : on_disk'[f] \in {0, on_disk[f]} \/ on_disk'[f] > edits + 1
    PROVE  HeldFollow'
  <1> SUFFICES ASSUME NEW p \in Users, sync' # {}, held[p].generation = generation',
                      NEW f \in Logs, held[p].observed[f] # 0,
                      blob_meta'[f] = held[p].observed[f], on_disk'[f] = held[p].observed[f]
               PROVE  held[p].events[f] = blob_events'[f]
    BY DEF HeldFollow, Stands
  <1>1. held[p] \in Reports /\ held[p].generation <= generation /\ edits \in Nat
    BY DEF UsageInv, UsageTypes, UsageTurns
  <1>2. Stands(held[p]) /\ UNCHANGED <<blob_meta, blob_events, facts>>
    BY <1>1, StandsBefore
  <1>3. held[p].observed[f] <= edits + 1 /\ held[p].observed[f] \in Nat
    BY <1>1 DEF UsageInv, VersionsPassed, Reports
  <1>4. on_disk[f] = held[p].observed[f]
    BY <1>1, <1>3
  <1> QED
    BY <1>2, <1>4 DEF UsageInv, HeldFollow

(* What a refresh leaves in memory.                                        *)
LEMMA KeptReports ==
    ASSUME UsageInv, NEW gen \in Nat, U!Keep(lock, gen)
    PROVE  /\ held' \in [Users -> Reports]
           /\ \A q \in Users :
                  \/ held'[q] = held[q]
                  \/ /\ qpc[q] = "out" /\ held'[q].generation = gen
                     /\ held'[q].observed = fingerprint /\ held'[q].events = events
  <1>1. held \in [Users -> Reports] /\ fingerprint \in [Logs -> Nat] /\ events \in [Logs -> Nat]
    BY DEF UsageInv, UsageTypes
  <1>2. [generation |-> gen, observed |-> fingerprint, events |-> events] \in Reports
    BY <1>1 DEF Reports
  <1>3. held' \in [Users -> Reports]
    BY <1>1, <1>2 DEF U!Keep
  <1>4. ASSUME NEW q \in Users, held'[q] # held[q]
        PROVE  /\ qpc[q] = "out" /\ held'[q].generation = gen
               /\ held'[q].observed = fingerprint /\ held'[q].events = events
    BY <1>4 DEF U!Keep, UsageInv, UsageTurns
  <1> QED
    BY <1>3, <1>4

(* It has the events of the blobs that are as new as the files it stamped. *)
LEMMA HeldKept ==
    ASSUME UsageInv, Written, stage \in {"facts", "legacy", "commit"},
           NEW gen \in Nat, U!Keep(lock, gen), gen <= generation', generation <= generation',
           UNCHANGED <<edits, on_disk, blob_meta, blob_events>>
    PROVE  /\ HeldFollow'
           /\ \A q \in Users : held'[q].generation <= generation'
           /\ \A q \in Users, f \in Logs : held'[q].observed[f] <= edits + 1
  <1>1. ASSUME NEW q \in Users PROVE held'[q].generation <= generation'
    <2>1. held[q] \in Reports /\ held[q].generation <= generation /\ generation \in Nat
      BY DEF UsageInv, UsageTypes, UsageTurns
    <2>2. held[q].generation \in Nat /\ generation' \in Nat
      BY <2>1 DEF Reports, UsageInv, UsageTypes, Written
    <2> QED
      BY <2>1, <2>2, KeptReports
  <1>2. ASSUME NEW q \in Users, NEW f \in Logs PROVE held'[q].observed[f] <= edits + 1
    BY KeptReports DEF UsageInv, VersionsPassed
  <1>3. HeldFollow'
    <2> SUFFICES ASSUME NEW p \in Users, sync' # {}, held'[p].generation = generation',
                        NEW f \in Logs, held'[p].observed[f] # 0,
                        blob_meta[f] = held'[p].observed[f], on_disk[f] = held'[p].observed[f]
                 PROVE  held'[p].events[f] = blob_events[f]
      BY DEF HeldFollow, Stands
    <2>1. CASE held'[p] = held[p]
      <3>1. held[p] \in Reports /\ held[p].generation <= generation
        BY DEF UsageInv, UsageTypes, UsageTurns
      <3>2. Stands(held[p])
        BY <2>1, <3>1, StandsBefore
      <3> QED
        BY <2>1, <3>2 DEF UsageInv, HeldFollow
    <2>2. CASE held'[p].observed = fingerprint /\ held'[p].events = events
      BY <2>2 DEF UsageInv, RefreshFollows
    <2> QED
      BY <2>1, <2>2, KeptReports
  <1> QED
    BY <1>1, <1>2, <1>3

(* A step of one query leaves the others alone.                            *)
LEMMA OneQuery ==
    ASSUME UsageInv, NEW p \in Users, UNCHANGED <<U!blobs, U!canon>>, QueryFollows(p)',
           \A q \in Users \ {p} : qpc'[q] = qpc[q] /\ asked'[q] = asked[q] /\ held'[q] = held[q]
    PROVE  QueriesFollow'
  <1> SUFFICES ASSUME NEW q \in Users PROVE QueryFollows(q)'
    BY DEF QueriesFollow
  <1>1. CASE q = p
    BY <1>1
  <1>2. CASE q # p
    <2>1. QueryFollows(q) /\ qpc'[q] = qpc[q] /\ asked'[q] = asked[q] /\ held'[q] = held[q]
      BY <1>2 DEF UsageInv, QueriesFollow
    <2> QED
      BY <2>1 DEF QueryFollows, Stands, U!blobs, U!canon
  <1> QED
    BY <1>1, <1>2

(* A file is written or goes: what is known of it is not what is there.    *)
(* Without Restores no version comes back.                                 *)
LEMMA FileChanges ==
    ASSUME UsageInv, ~Restores, NEW f \in Logs, NEW v \in U!Versions, U!Change(f, v)
    PROVE  UsageInv'
  <1> USE DEF U!Change, U!disk, U!blobs, U!canon, U!turn, U!refresh, U!queries
  <1>1. UsageTypes'
    BY DEF UsageInv, UsageTypes, U!Versions
  <1>2. VersionsPassed'
    BY DEF UsageInv, UsageTypes, VersionsPassed, Reports, U!Versions
  <1>3. UsageTurns'
    BY DEF UsageInv, UsageTypes, UsageTurns, Reports
  <1>4. U!FactsFollowBlobs'
    BY DEF UsageInv, UsageTypes, VersionsPassed, U!FactsFollowBlobs, U!Hit, U!None
  <1>5. RefreshFollows'
    BY DEF UsageInv, UsageTypes, VersionsPassed, RefreshFollows
  <1>6. Written
    BY DEF Written, U!None
  <1>7. HeldFollow'
    BY <1>6, HeldStay DEF UsageInv, UsageTypes
  <1>8. QueriesFollow' /\ U!AnswersAreCurrent'
    BY <1>6, QueriesStay
  <1> QED
    BY <1>1, <1>2, <1>3, <1>4, <1>5, <1>7, <1>8 DEF UsageInv

(* A refresh from the facts starts.                                        *)
LEMMA FactsStart ==
    ASSUME UsageInv, NEW p \in Users, U!StartFacts(p) PROVE UsageInv'
  <1> USE DEF U!StartFacts, U!Split, U!MayRefresh, U!TouchBlobs, U!Hit, U!disk, U!blobs,
         U!canon, U!turn, U!refresh, U!queries
  <1>1. UsageTypes'
    BY DEF UsageInv, UsageTypes
  <1>2. VersionsPassed'
    <2>1. \A f \in Logs : U!Hit(f, on_disk) => facts[f] = blob_events[f]
      BY DEF UsageInv, U!FactsFollowBlobs, U!None
    <2> QED
      BY <2>1 DEF UsageInv, UsageTypes, VersionsPassed, Reports
  <1>3. UsageTurns'
    BY DEF UsageInv, UsageTypes, UsageTurns, Reports
  <1>4. U!FactsFollowBlobs'
    BY DEF UsageInv, UsageTypes, U!FactsFollowBlobs, U!Hit, U!None
  <1>5. RefreshFollows'
    BY DEF UsageInv, UsageTypes, VersionsPassed, RefreshFollows, U!FactsFollowBlobs
  <1>6. Written
    BY DEF Written, U!None, UsageInv, UsageTypes
  <1>7. HeldFollow'
    BY <1>6, HeldStay
  <1>8. QueriesFollow' /\ U!AnswersAreCurrent'
    BY <1>6, QueriesStay
  <1> QED
    BY <1>1, <1>2, <1>3, <1>4, <1>5, <1>7, <1>8 DEF UsageInv

(* A refresh from the blobs starts.                                        *)
LEMMA LegacyStarts ==
    ASSUME UsageInv, NEW p \in Users, U!StartLegacy(p) PROVE UsageInv'
  <1> USE DEF U!StartLegacy, U!MayRefresh, U!disk, U!blobs, U!canon, U!turn, U!refresh,
         U!queries
  <1>1. UsageTypes'
    BY DEF UsageInv, UsageTypes
  <1>2. VersionsPassed'
    BY DEF UsageInv, UsageTypes, VersionsPassed, Reports
  <1>3. UsageTurns'
    BY DEF UsageInv, UsageTypes, UsageTurns, Reports
  <1>4. U!FactsFollowBlobs'
    BY DEF UsageInv, UsageTypes, U!FactsFollowBlobs, U!Hit, U!None
  <1>5. RefreshFollows'
    BY DEF UsageInv, UsageTypes, VersionsPassed, RefreshFollows
  <1>6. Written
    BY DEF Written, U!None
  <1>7. HeldFollow'
    BY <1>6, HeldStay
  <1>8. QueriesFollow' /\ U!AnswersAreCurrent'
    BY <1>6, QueriesStay
  <1> QED
    BY <1>1, <1>2, <1>3, <1>4, <1>5, <1>7, <1>8 DEF UsageInv

(* It lists and stats the files.                                           *)
LEMMA LegacyScans ==
    ASSUME UsageInv, U!ScanLegacy PROVE UsageInv'
  <1> USE DEF U!ScanLegacy, U!Split, U!TouchBlobs, U!Hit, U!disk, U!blobs, U!canon,
         U!turn, U!refresh, U!queries
  <1>1. UsageTypes'
    BY DEF UsageInv, UsageTypes
  <1>2. VersionsPassed'
    BY DEF UsageInv, UsageTypes, VersionsPassed, Reports
  <1>3. UsageTurns'
    BY DEF UsageInv, UsageTypes, UsageTurns, Reports
  <1>4. U!FactsFollowBlobs'
    BY DEF UsageInv, UsageTypes, U!FactsFollowBlobs, U!Hit, U!None
  <1>5. RefreshFollows'
    BY DEF UsageInv, UsageTypes, VersionsPassed, RefreshFollows
  <1>6. Written
    BY DEF Written, U!None, UsageInv, UsageTypes
  <1>7. HeldFollow'
    BY <1>6, HeldStay
  <1>8. QueriesFollow' /\ U!AnswersAreCurrent'
    BY <1>6, QueriesStay
  <1> QED
    BY <1>1, <1>2, <1>3, <1>4, <1>5, <1>7, <1>8 DEF UsageInv

(* A file is parsed, cached or not, or cannot be.                          *)
LEMMA FileParses ==
    ASSUME UsageInv, NEW f \in Logs, U!Parse(f) \/ U!ParseUncached(f) \/ U!ParseFails(f)
    PROVE  UsageInv'
  <1> USE DEF U!Parse, U!ParseUncached, U!ParseFails, U!disk, U!blobs, U!canon, U!turn,
         U!refresh, U!queries
  <1>1. UsageTypes'
    BY DEF UsageInv, UsageTypes
  <1>2. VersionsPassed'
    BY DEF UsageInv, UsageTypes, VersionsPassed, Reports
  <1>3. UsageTurns'
    BY DEF UsageInv, UsageTypes, UsageTurns, Reports
  <1>4. U!FactsFollowBlobs'
    BY DEF UsageInv, UsageTypes, U!FactsFollowBlobs, U!Hit, U!None
  <1>5. RefreshFollows'
    BY DEF UsageInv, UsageTypes, VersionsPassed, RefreshFollows
  <1>6. Written
    BY DEF Written, U!None
  <1>7. HeldFollow'
    BY <1>6, HeldStay
  <1>8. QueriesFollow' /\ U!AnswersAreCurrent'
    BY <1>6, QueriesStay
  <1> QED
    BY <1>1, <1>2, <1>3, <1>4, <1>5, <1>7, <1>8 DEF UsageInv

(* A batch of blobs is saved, or fails to.                                 *)
LEMMA BatchSaves ==
    ASSUME UsageInv, U!SaveBatch \/ U!SaveFails PROVE UsageInv'
  <1> USE DEF U!SaveBatch, U!SaveFails, U!TouchBlobs, U!disk, U!blobs, U!canon, U!turn,
         U!refresh, U!queries
  <1>1. UsageTypes'
    BY DEF UsageInv, UsageTypes
  <1>2. VersionsPassed'
    BY DEF UsageInv, UsageTypes, VersionsPassed, RefreshFollows, Reports
  <1>3. UsageTurns'
    BY DEF UsageInv, UsageTypes, UsageTurns, Reports
  <1>4. U!FactsFollowBlobs'
    BY DEF UsageInv, UsageTypes, U!FactsFollowBlobs, U!Hit, U!None
  <1>5. RefreshFollows'
    BY DEF UsageInv, UsageTypes, VersionsPassed, RefreshFollows
  <1>6. Written
    BY DEF Written, U!None
  <1>7. HeldFollow'
    BY <1>6, HeldStay
  <1>8. QueriesFollow' /\ U!AnswersAreCurrent'
    BY <1>6, QueriesStay
  <1> QED
    BY <1>1, <1>2, <1>3, <1>4, <1>5, <1>7, <1>8 DEF UsageInv

(* The facts of what was parsed are replaced.                              *)
LEMMA FactsUpsert ==
    ASSUME UsageInv, U!UpsertFacts PROVE UsageInv'
  <1> USE DEF U!UpsertFacts, U!WriteSync, U!Unlock, U!DropDigests, U!Scanned, U!Zero,
         U!disk, U!blobs, U!canon, U!turn, U!refresh, U!queries
  <1>1. Written
    BY DEF Written, U!None, UsageInv, UsageTypes
  <1>2. generation + 1 \in Nat /\ generation <= generation + 1
    BY DEF UsageInv, UsageTypes
  <1>3. /\ held' \in [Users -> Reports] /\ \A p \in Users : qpc[p] # "out" => held'[p] = held[p]
        /\ HeldFollow'
        /\ \A p \in Users : held'[p].generation <= generation'
        /\ \A p \in Users, f \in Logs : held'[p].observed[f] <= edits + 1
    BY <1>2, <1>1, KeptReports, HeldKept
  <1>4. UsageTypes'
    BY <1>3 DEF UsageInv, UsageTypes
  <1>5. VersionsPassed'
    BY <1>3 DEF UsageInv, UsageTypes, VersionsPassed
  <1>6. UsageTurns'
    BY <1>3, StoresConstants DEF UsageInv, UsageTypes, UsageTurns, Reports
  <1>7. U!FactsFollowBlobs'
    BY DEF UsageInv, UsageTypes, VersionsPassed, RefreshFollows, U!FactsFollowBlobs, U!Hit, U!None
  <1>8. RefreshFollows'
    BY DEF UsageInv, UsageTypes, VersionsPassed, RefreshFollows
  <1>9. HeldFollow'
    BY <1>3
  <1>10. QueriesFollow' /\ U!AnswersAreCurrent'
    BY <1>1, <1>3, QueriesStay
  <1> QED
    BY <1>4, <1>5, <1>6, <1>7, <1>8, <1>9, <1>10 DEF UsageInv

(* Nothing to replace: the facts stay.                                     *)
LEMMA FactsStandStill ==
    ASSUME UsageInv, U!FactsStand PROVE UsageInv'
  <1> USE DEF U!FactsStand, U!Unlock, U!Scanned, U!Zero, U!disk, U!blobs, U!canon, U!turn,
         U!refresh, U!queries
  <1>1. Written
    BY DEF Written, U!None, UsageInv, UsageTypes
  <1>2. PICK gen \in 0..generation : U!Keep(lock, gen)
    BY DEF UsageInv, UsageTypes
  <1>3. /\ held' \in [Users -> Reports] /\ \A p \in Users : qpc[p] # "out" => held'[p] = held[p]
        /\ HeldFollow'
        /\ \A p \in Users : held'[p].generation <= generation'
        /\ \A p \in Users, f \in Logs : held'[p].observed[f] <= edits + 1
    BY <1>2, <1>1, KeptReports, HeldKept DEF UsageInv, UsageTypes
  <1>4. UsageTypes'
    BY <1>3 DEF UsageInv, UsageTypes
  <1>5. VersionsPassed'
    BY <1>3 DEF UsageInv, UsageTypes, VersionsPassed
  <1>6. UsageTurns'
    BY <1>3, StoresConstants DEF UsageInv, UsageTypes, UsageTurns, Reports
  <1>7. U!FactsFollowBlobs'
    BY DEF UsageInv, UsageTypes, U!FactsFollowBlobs, U!Hit, U!None
  <1>8. RefreshFollows'
    BY DEF UsageInv, UsageTypes, VersionsPassed, RefreshFollows
  <1>9. HeldFollow'
    BY <1>3
  <1>10. QueriesFollow' /\ U!AnswersAreCurrent'
    BY <1>1, <1>3, QueriesStay
  <1> QED
    BY <1>4, <1>5, <1>6, <1>7, <1>8, <1>9, <1>10 DEF UsageInv

(* An error on the way: the blobs are scanned instead.                     *)
LEMMA FactsFailed ==
    ASSUME UsageInv, U!FactsFail PROVE UsageInv'
  <1> USE DEF U!FactsFail, U!Scanned, U!Zero, U!disk, U!blobs, U!canon, U!turn, U!refresh,
         U!queries
  <1>1. UsageTypes'
    BY DEF UsageInv, UsageTypes
  <1>2. VersionsPassed'
    BY DEF UsageInv, UsageTypes, VersionsPassed, Reports
  <1>3. UsageTurns'
    BY DEF UsageInv, UsageTypes, UsageTurns, Reports
  <1>4. U!FactsFollowBlobs'
    BY DEF UsageInv, UsageTypes, U!FactsFollowBlobs, U!Hit, U!None
  <1>5. RefreshFollows'
    BY DEF UsageInv, UsageTypes, VersionsPassed, RefreshFollows
  <1>6. Written
    BY DEF Written, U!None
  <1>7. HeldFollow'
    BY <1>6, HeldStay
  <1>8. QueriesFollow' /\ U!AnswersAreCurrent'
    BY <1>6, QueriesStay
  <1> QED
    BY <1>1, <1>2, <1>3, <1>4, <1>5, <1>7, <1>8 DEF UsageInv

(* The facts are replaced by those of the blobs.                           *)
LEMMA FactsReplace ==
    ASSUME UsageInv, U!ReplaceFacts PROVE UsageInv'
  <1> USE DEF U!ReplaceFacts, U!WriteSync, U!Scanned, U!disk, U!blobs, U!canon, U!turn,
         U!refresh, U!queries
  <1>1. UsageTypes'
    BY DEF UsageInv, UsageTypes
  <1>2. VersionsPassed'
    BY DEF UsageInv, UsageTypes, VersionsPassed, Reports
  <1>3. UsageTurns'
    BY DEF UsageInv, UsageTypes, UsageTurns, Reports
  <1>4. U!FactsFollowBlobs'
    BY DEF UsageInv, UsageTypes, VersionsPassed, RefreshFollows, U!FactsFollowBlobs, U!Hit, U!None
  <1>5. RefreshFollows'
    BY DEF UsageInv, UsageTypes, VersionsPassed, RefreshFollows
  <1>6. Written
    BY DEF Written, U!None
  <1>7. HeldFollow'
    BY <1>6, HeldStay
  <1>8. QueriesFollow' /\ U!AnswersAreCurrent'
    BY <1>6, QueriesStay
  <1> QED
    BY <1>1, <1>2, <1>3, <1>4, <1>5, <1>7, <1>8 DEF UsageInv

(* A refresh from the blobs ends.                                          *)
LEMMA LegacyEnds ==
    ASSUME UsageInv, U!ReplaceFails \/ U!LegacyDone PROVE UsageInv'
  <1> USE DEF U!ReplaceFails, U!LegacyDone, U!Unlock, U!Zero, U!None, U!Scanned, U!disk,
         U!blobs, U!canon, U!turn, U!refresh, U!queries
  <1>1. Written
    BY DEF Written, U!None, UsageInv, UsageTypes
  <1>2. PICK gen \in 0..generation : U!Keep(lock, gen)
    BY DEF UsageInv, UsageTypes
  <1>3. /\ held' \in [Users -> Reports] /\ \A p \in Users : qpc[p] # "out" => held'[p] = held[p]
        /\ HeldFollow'
        /\ \A p \in Users : held'[p].generation <= generation'
        /\ \A p \in Users, f \in Logs : held'[p].observed[f] <= edits + 1
    BY <1>2, <1>1, KeptReports, HeldKept DEF UsageInv, UsageTypes
  <1>4. UsageTypes'
    BY <1>3 DEF UsageInv, UsageTypes
  <1>5. VersionsPassed'
    BY <1>3 DEF UsageInv, UsageTypes, VersionsPassed
  <1>6. UsageTurns'
    BY <1>3, StoresConstants DEF UsageInv, UsageTypes, UsageTurns, Reports
  <1>7. U!FactsFollowBlobs'
    BY DEF UsageInv, UsageTypes, U!FactsFollowBlobs, U!Hit, U!None
  <1>8. RefreshFollows'
    BY DEF UsageInv, UsageTypes, VersionsPassed, RefreshFollows
  <1>9. HeldFollow'
    BY <1>3
  <1>10. QueriesFollow' /\ U!AnswersAreCurrent'
    BY <1>1, <1>3, QueriesStay
  <1> QED
    BY <1>4, <1>5, <1>6, <1>7, <1>8, <1>9, <1>10 DEF UsageInv

(* A refresh dies.                                                         *)
LEMMA UsageCrash ==
    ASSUME UsageInv, U!Crash PROVE UsageInv'
  <1> USE DEF U!Crash, U!Unlock, U!Zero, U!Empty, U!disk, U!blobs, U!canon, U!turn,
         U!refresh, U!queries
  <1>1. Written
    BY DEF Written, U!None, UsageInv, UsageTypes
  <1>2. U!Empty \in Reports /\ U!Empty.generation = 0 /\ \A f \in Logs : U!Empty.observed[f] = 0
    BY DEF Reports
  <1>3. /\ held' \in [Users -> Reports]
        /\ \A p \in Users : \/ held'[p] = held[p]
                            \/ qpc[p] = "out" /\ held'[p] = U!Empty
    BY <1>2 DEF UsageInv, UsageTypes, UsageTurns
  <1> HIDE DEF U!Empty
  <1>4. /\ held' \in [Users -> Reports] /\ \A p \in Users : qpc[p] # "out" => held'[p] = held[p]
        /\ HeldFollow'
        /\ \A p \in Users : held'[p].generation <= generation'
        /\ \A p \in Users, f \in Logs : held'[p].observed[f] <= edits + 1
    BY <1>2, <1>3 DEF UsageInv, UsageTypes, VersionsPassed, UsageTurns, HeldFollow, Stands
  <1>5. UsageTypes'
    BY <1>4 DEF UsageInv, UsageTypes
  <1>6. VersionsPassed'
    BY <1>4 DEF UsageInv, UsageTypes, VersionsPassed
  <1>7. UsageTurns'
    BY <1>4, StoresConstants DEF UsageInv, UsageTypes, UsageTurns, Reports
  <1>8. U!FactsFollowBlobs'
    BY DEF UsageInv, UsageTypes, U!FactsFollowBlobs, U!Hit, U!None
  <1>9. RefreshFollows'
    BY DEF UsageInv, UsageTypes, VersionsPassed, RefreshFollows
  <1>10. HeldFollow'
    BY <1>4
  <1>11. QueriesFollow' /\ U!AnswersAreCurrent'
    BY <1>1, <1>4, QueriesStay
  <1> QED
    BY <1>5, <1>6, <1>7, <1>8, <1>9, <1>10, <1>11 DEF UsageInv

(* A query begins, with the generation of its report or the present one.   *)
LEMMA QueryAsks ==
    ASSUME UsageInv, NEW p \in Users, U!Ask(p) PROVE UsageInv'
  <1> USE DEF U!Ask, U!QueryStep, U!Empty, U!Zero, U!disk, U!blobs, U!canon, U!turn,
         U!refresh, U!queries
  <1>1. U!FactsFollowBlobs' /\ RefreshFollows'
    BY DEF UsageInv, U!FactsFollowBlobs, RefreshFollows, U!Hit
  <1>2. UsageTypes'
    <2>1. PICK r \in Reports : asked' = [asked EXCEPT ![p] = r]
      <3>1. [U!Empty EXCEPT !.generation = generation] \in Reports /\ held[p] \in Reports
        BY DEF UsageInv, UsageTypes, Reports
      <3> QED
        BY <3>1
    <2> QED
      BY <2>1 DEF UsageInv, UsageTypes
  <1>3. VersionsPassed'
    BY DEF UsageInv, UsageTypes, VersionsPassed, Reports
  <1>4. UsageTurns'
    BY DEF UsageInv, UsageTypes, UsageTurns, Reports
  <1>5. HeldFollow'
    BY DEF UsageInv, HeldFollow, Stands
  <1>6. QueriesFollow'
    <2>1. QueryFollows(p)'
      BY DEF UsageInv, UsageTypes, QueriesFollow, QueryFollows, Stands, Reports
    <2>2. \A q \in Users \ {p} : qpc'[q] = qpc[q] /\ asked'[q] = asked[q] /\ held'[q] = held[q]
      BY DEF UsageInv, UsageTypes
    <2> QED
      BY <2>1, <2>2, OneQuery
  <1>7. U!AnswersAreCurrent'
    BY DEF UsageInv, UsageTypes, U!AnswersAreCurrent
  <1> QED
    BY <1>1, <1>2, <1>3, <1>4, <1>5, <1>6, <1>7 DEF UsageInv

(* It looks at the files.                                                  *)
LEMMA QueryStats ==
    ASSUME UsageInv, NEW p \in Users, U!StatFiles(p) PROVE UsageInv'
  <1> USE DEF U!StatFiles, U!QueryStep, U!disk, U!blobs, U!canon, U!turn, U!refresh,
         U!queries
  <1>1. U!FactsFollowBlobs' /\ RefreshFollows'
    BY DEF UsageInv, U!FactsFollowBlobs, RefreshFollows, U!Hit
  <1>2. UsageTypes'
    BY DEF UsageInv, UsageTypes, Reports
  <1>3. VersionsPassed'
    BY DEF UsageInv, UsageTypes, VersionsPassed, Reports
  <1>4. UsageTurns'
    BY DEF UsageInv, UsageTypes, UsageTurns, Reports
  <1>5. HeldFollow'
    BY DEF UsageInv, HeldFollow, Stands
  <1>6. QueriesFollow'
    <2>1. QueryFollows(p)'
      <3>1. /\ qpc'[p] = "sync" /\ qpc[p] = "stat" /\ held'[p] = held[p]
            /\ asked'[p].generation = asked[p].generation /\ asked'[p].observed = on_disk
            /\ asked'[p].events = asked[p].events
        BY DEF UsageInv, UsageTypes, Reports
      <3>2. ASSUME sync # {}, NEW f \in Logs, on_disk[f] # 0, blob_meta[f] = on_disk[f]
            PROVE  facts[f] = on_disk[f] /\ blob_events[f] = on_disk[f]
        <4>1. facts[f] = blob_events[f]
          BY <3>2 DEF UsageInv, U!FactsFollowBlobs, U!Hit, U!None
        <4>2. blob_meta[f] <= blob_events[f] /\ blob_events[f] <= on_disk[f]
          BY <3>2 DEF UsageInv, VersionsPassed
        <4>3. blob_meta[f] \in Nat /\ blob_events[f] \in Nat /\ on_disk[f] \in Nat
          BY DEF UsageInv, UsageTypes
        <4> QED
          BY <3>2, <4>1, <4>2, <4>3
      <3>3. ASSUME Stands(asked[p]), held[p].generation # 0,
                   NEW f \in Logs, on_disk[f] # 0, blob_meta[f] = on_disk[f]
            PROVE  asked[p].events[f] = on_disk[f]
        <4>1. asked[p] = held[p] /\ held[p].observed = on_disk
          BY <3>1, <3>3 DEF UsageInv, QueriesFollow, QueryFollows
        <4>2. held[p].events[f] = blob_events[f]
          BY <3>3, <4>1 DEF UsageInv, HeldFollow
        <4> QED
          BY <3>2, <3>3, <4>1, <4>2 DEF Stands
      <3> QED
        BY <3>1, <3>2, <3>3 DEF QueryFollows, Stands
    <2>2. \A q \in Users \ {p} : qpc'[q] = qpc[q] /\ asked'[q] = asked[q] /\ held'[q] = held[q]
      BY DEF UsageInv, UsageTypes
    <2> QED
      BY <2>1, <2>2, OneQuery
  <1>7. U!AnswersAreCurrent'
    BY DEF UsageInv, UsageTypes, U!AnswersAreCurrent
  <1> QED
    BY <1>1, <1>2, <1>3, <1>4, <1>5, <1>6, <1>7 DEF UsageInv

(* It compares them with the sync row and with the blobs.                  *)
LEMMA QueryCompares ==
    ASSUME UsageInv, NEW p \in Users, U!SyncMatches(p) \/ U!RowsMatch(p) PROVE UsageInv'
  <1> USE DEF U!SyncMatches, U!RowsMatch, U!QueryStep, U!disk, U!blobs, U!canon, U!turn,
         U!refresh, U!queries
  <1>1. U!FactsFollowBlobs' /\ RefreshFollows'
    BY DEF UsageInv, U!FactsFollowBlobs, RefreshFollows, U!Hit
  <1>2. UsageTypes'
    BY DEF UsageInv, UsageTypes, Reports
  <1>3. VersionsPassed'
    BY DEF UsageInv, UsageTypes, VersionsPassed, Reports
  <1>4. UsageTurns'
    BY DEF UsageInv, UsageTypes, UsageTurns, Reports
  <1>5. HeldFollow'
    BY DEF UsageInv, HeldFollow, Stands
  <1>6. QueriesFollow'
    <2>1. QueryFollows(p)'
      <3>1. /\ qpc'[p] \in {"rows", "read"} /\ qpc[p] \in {"sync", "rows"}
            /\ held'[p] = held[p] /\ asked'[p] = asked[p]
            /\ qpc'[p] = "read" => \A f \in Logs :
                   asked[p].observed[f] # 0 => blob_meta[f] = asked[p].observed[f]
        BY DEF UsageInv, UsageTypes, U!Hit
      <3>2. QueryFollows(p)
        BY DEF UsageInv, QueriesFollow
      <3> QED
        BY <3>1, <3>2 DEF QueryFollows, Stands
    <2>2. \A q \in Users \ {p} : qpc'[q] = qpc[q] /\ asked'[q] = asked[q] /\ held'[q] = held[q]
      BY DEF UsageInv, UsageTypes
    <2> QED
      BY <2>1, <2>2, OneQuery
  <1>7. U!AnswersAreCurrent'
    BY DEF UsageInv, UsageTypes, U!AnswersAreCurrent
  <1> QED
    BY <1>1, <1>2, <1>3, <1>4, <1>5, <1>6, <1>7 DEF UsageInv

(* It has the events, or reads the facts.                                  *)
LEMMA QueryReads ==
    ASSUME UsageInv, NEW p \in Users, U!ReadFacts(p) PROVE UsageInv'
  <1> USE DEF U!ReadFacts, U!QueryStep, U!disk, U!blobs, U!canon, U!turn, U!refresh,
         U!queries
  <1>1. U!FactsFollowBlobs' /\ RefreshFollows'
    BY DEF UsageInv, U!FactsFollowBlobs, RefreshFollows, U!Hit
  <1>2. UsageTypes'
    <2>1. PICK r \in Reports : asked' = [asked EXCEPT ![p] = r]
      <3>1. asked[p] \in Reports /\ facts \in [Logs -> Nat]
        BY DEF UsageInv, UsageTypes
      <3>2. ASSUME NEW e \in [Logs -> Nat] PROVE [asked[p] EXCEPT !.events = e] \in Reports
        BY <3>1, <3>2 DEF Reports
      <3>3. (IF held[p].generation # 0 THEN asked[p].events ELSE facts) \in [Logs -> Nat]
        BY <3>1 DEF Reports
      <3> QED
        BY <3>2, <3>3
    <2> QED
      BY <2>1 DEF UsageInv, UsageTypes
  <1>3. VersionsPassed'
    BY DEF UsageInv, UsageTypes, VersionsPassed, Reports
  <1>4. UsageTurns'
    BY DEF UsageInv, UsageTypes, UsageTurns, Reports
  <1>5. HeldFollow'
    BY DEF UsageInv, HeldFollow, Stands
  <1>6. QueriesFollow'
    <2>1. QueryFollows(p)'
      <3>1. /\ qpc'[p] = "confirm" /\ qpc[p] = "read" /\ held'[p] = held[p]
            /\ asked'[p].generation = asked[p].generation
            /\ asked'[p].observed = asked[p].observed
            /\ asked'[p].events = IF held[p].generation # 0 THEN asked[p].events ELSE facts
        BY DEF UsageInv, UsageTypes, Reports
      <3>2. QueryFollows(p)
        BY DEF UsageInv, QueriesFollow
      <3> QED
        BY <3>1, <3>2 DEF QueryFollows, Stands
    <2>2. \A q \in Users \ {p} : qpc'[q] = qpc[q] /\ asked'[q] = asked[q] /\ held'[q] = held[q]
      BY DEF UsageInv, UsageTypes
    <2> QED
      BY <2>1, <2>2, OneQuery
  <1>7. U!AnswersAreCurrent'
    BY DEF UsageInv, UsageTypes, U!AnswersAreCurrent
  <1> QED
    BY <1>1, <1>2, <1>3, <1>4, <1>5, <1>6, <1>7 DEF UsageInv

(* It finds the generation unchanged.                                      *)
LEMMA QueryConfirms ==
    ASSUME UsageInv, NEW p \in Users, U!Confirm(p) PROVE UsageInv'
  <1> USE DEF U!Confirm, U!SameGeneration, U!QueryStep, U!None, U!disk, U!blobs, U!canon,
         U!turn, U!refresh, U!queries
  <1>1. U!FactsFollowBlobs' /\ RefreshFollows'
    BY DEF UsageInv, U!FactsFollowBlobs, RefreshFollows, U!Hit
  <1>2. UsageTypes'
    BY DEF UsageInv, UsageTypes, Reports
  <1>3. VersionsPassed'
    BY DEF UsageInv, UsageTypes, VersionsPassed, Reports
  <1>4. UsageTurns'
    BY DEF UsageInv, UsageTypes, UsageTurns, Reports
  <1>5. HeldFollow'
    BY DEF UsageInv, HeldFollow, Stands
  <1>6. QueriesFollow'
    <2>1. QueryFollows(p)'
      BY DEF UsageInv, UsageTypes, QueriesFollow, QueryFollows, Stands, Reports
    <2>2. \A q \in Users \ {p} : qpc'[q] = qpc[q] /\ asked'[q] = asked[q] /\ held'[q] = held[q]
      BY DEF UsageInv, UsageTypes
    <2> QED
      BY <2>1, <2>2, OneQuery
  <1>7. U!AnswersAreCurrent'
    BY DEF UsageInv, UsageTypes, QueriesFollow, QueryFollows, Stands, U!AnswersAreCurrent
  <1> QED
    BY <1>1, <1>2, <1>3, <1>4, <1>5, <1>6, <1>7 DEF UsageInv

(* Any doubt ends the query.                                               *)
LEMMA QueryDoubts ==
    ASSUME UsageInv, NEW p \in Users, U!Doubt(p) PROVE UsageInv'
  <1> USE DEF U!Doubt, U!Empty, U!Zero, U!disk, U!blobs, U!canon, U!turn, U!refresh,
         U!queries
  <1>1. U!FactsFollowBlobs' /\ RefreshFollows'
    BY DEF UsageInv, U!FactsFollowBlobs, RefreshFollows, U!Hit
  <1>2. UsageTypes'
    BY SMTT(30) DEF UsageInv, UsageTypes, Reports
  <1>3. VersionsPassed'
    BY DEF UsageInv, UsageTypes, VersionsPassed, Reports
  <1>4. UsageTurns'
    BY DEF UsageInv, UsageTypes, UsageTurns, Reports
  <1>5. HeldFollow'
    BY DEF UsageInv, HeldFollow, Stands
  <1>6. QueriesFollow'
    <2>1. QueryFollows(p)'
      BY DEF UsageInv, UsageTypes, QueriesFollow, QueryFollows, Stands, Reports
    <2>2. \A q \in Users \ {p} : qpc'[q] = qpc[q] /\ asked'[q] = asked[q] /\ held'[q] = held[q]
      BY DEF UsageInv, UsageTypes
    <2> QED
      BY <2>1, <2>2, OneQuery
  <1>7. U!AnswersAreCurrent'
    BY DEF UsageInv, UsageTypes, U!AnswersAreCurrent
  <1> QED
    BY <1>1, <1>2, <1>3, <1>4, <1>5, <1>6, <1>7 DEF UsageInv

(* The answer is kept in memory.                                           *)
LEMMA QueryAnswers ==
    ASSUME UsageInv, NEW p \in Users, U!Answer(p) PROVE UsageInv'
  <1> USE DEF U!Answer, U!Empty, U!Zero, U!disk, U!blobs, U!canon, U!turn, U!refresh,
         U!queries
  <1>1. U!FactsFollowBlobs' /\ RefreshFollows'
    BY DEF UsageInv, U!FactsFollowBlobs, RefreshFollows, U!Hit
  <1>2. UsageTypes'
    BY SMTT(30) DEF UsageInv, UsageTypes, Reports
  <1>3. VersionsPassed'
    BY DEF UsageInv, UsageTypes, VersionsPassed, Reports
  <1>4. UsageTurns'
    BY DEF UsageInv, UsageTypes, UsageTurns, Reports
  <1>5. HeldFollow'
    BY DEF UsageInv, UsageTypes, HeldFollow, QueriesFollow, QueryFollows, Stands, U!AnswersAreCurrent
  <1>6. QueriesFollow'
    <2>1. QueryFollows(p)'
      BY DEF UsageInv, UsageTypes, QueriesFollow, QueryFollows, Stands, Reports
    <2>2. \A q \in Users \ {p} : qpc'[q] = qpc[q] /\ asked'[q] = asked[q] /\ held'[q] = held[q]
      BY DEF UsageInv, UsageTypes
    <2> QED
      BY <2>1, <2>2, OneQuery
  <1>7. U!AnswersAreCurrent'
    BY DEF UsageInv, UsageTypes, U!AnswersAreCurrent
  <1> QED
    BY <1>1, <1>2, <1>3, <1>4, <1>5, <1>6, <1>7 DEF UsageInv

(* Every step keeps the invariant.                                         *)
LEMMA UsageStep ==
    ASSUME UsageInv, ~Restores, U!Next \/ UNCHANGED U!vars PROVE UsageInv'
  <1>1. CASE UNCHANGED U!vars
    <2> USE DEF U!vars, U!disk, U!blobs, U!canon, U!turn, U!refresh, U!queries
    <2>1. UsageTypes' /\ VersionsPassed' /\ UsageTurns' /\ RefreshFollows'
      BY <1>1 DEF UsageInv, UsageTypes, VersionsPassed, UsageTurns, RefreshFollows
    <2>2. U!FactsFollowBlobs' /\ HeldFollow' /\ QueriesFollow' /\ U!AnswersAreCurrent'
      BY <1>1 DEF UsageInv, U!FactsFollowBlobs, U!Hit, HeldFollow, QueriesFollow, QueryFollows, Stands,
         U!AnswersAreCurrent
    <2> QED
      BY <2>1, <2>2 DEF UsageInv
  <1>2. CASE U!Next
    BY <1>2, FileChanges, FactsStart, LegacyStarts, LegacyScans, FileParses, BatchSaves,
       FactsUpsert, FactsStandStill, FactsFailed, FactsReplace, LegacyEnds, UsageCrash,
       QueryAsks, QueryStats, QueryCompares, QueryReads, QueryConfirms, QueryDoubts,
       QueryAnswers DEF U!Next
  <1> QED
    BY <1>1, <1>2

(* UsageInv holds of every reachable state, for any number of files,       *)
(* processes, edits, refreshes and failures, if no file comes back with    *)
(* the metadata it had before (the size and mtime that validate_partition   *)
(* in src/usage/snapshot.rs compares).                                     *)
THEOREM UsageInvariant == ~Restores /\ StoresSpec => []UsageInv
  <1> SUFFICES ASSUME ~Restores PROVE StoresSpec => []UsageInv
    OBVIOUS
  <1>1. StoresInit => UsageInv
    BY UsageInit
  <1>2. UsageInv /\ [StoresNext]_stores_vars => UsageInv'
    BY UsageMoves, UsageStep
  <1> QED
    BY <1>1, <1>2, PTL DEF StoresSpec

(* While there is a sync row, the facts of a file whose blob is valid are  *)
(* those of the blob, and a digest is of the rows that are there, wherever *)
(* a refresh died (the triggers on usage_file_cache and usage_facts in     *)
(* src/usage/cache.rs).                                                    *)
THEOREM FactsAlwaysFollowBlobs == ~Restores /\ StoresSpec => []FactsFollowBlobs
  <1>1. UsageInv => FactsFollowBlobs
    BY DEF UsageInv, FactsFollowBlobs
  <1> QED
    BY <1>1, UsageInvariant, PTL

(* A report given without a refresh, from memory or from the facts, has    *)
(* each file as it was when the query looked at it (validate_partition in  *)
(* src/usage/snapshot.rs, generations_current in src/usage/query.rs),      *)
(* however many refreshes of other processes ran meanwhile.                *)
THEOREM AnswersAlwaysCurrent == ~Restores /\ StoresSpec => []AnswersAreCurrent
  <1>1. UsageInv => AnswersAreCurrent
    BY DEF UsageInv, AnswersAreCurrent
  <1> QED
    BY <1>1, UsageInvariant, PTL

-----------------------------------------------------------------------------
(* The types and limits of the terminal interface.                         *)

(* The screen, the list and the preview have their values, and no queue    *)
(* outgrows its bound.                                                     *)
ScreenTyped ==
    /\ layout \in T!Layouts /\ focus \in T!Focuses /\ return_to \in {"Home", "List"}
    /\ query \in T!Queries

ListTyped ==
    /\ debounce \in BOOLEAN /\ list \in T!LoadStates /\ results \in T!Lists
    /\ Len(searches) <= MaxQueue /\ Len(found) <= MaxAnswers

PreviewTyped ==
    /\ preview \in T!LoadStates /\ last_query \in T!Queries
    /\ last_detail \in T!Looks \cup {Blank} /\ previewed \in T!Looks \cup {Blank}
    /\ Len(renders) <= MaxRenders /\ Len(rendered) <= MaxAnswers

TuiTyped == TuiInv /\ ScreenTyped /\ ListTyped /\ PreviewTyped

(* What the invariants of the terminal interface say of its values.        *)
LEMMA TuiTypedMeans ==
    ASSUME TuiTyped PROVE T!TypeOK
  <1>1. searches \in Seq({T!New, Old}) /\ found \in Seq({T!New, Old})
    <2>1. {T!New} \cup {Old} = {T!New, Old}
      OBVIOUS
    <2> QED
      BY <2>1 DEF TuiTyped, TuiInv, ListInv, Carry
  <1>2. searching \in {T!New, Old, Idle}
    BY DEF TuiTyped, TuiInv, ListInv, Carry
  <1>3. /\ renders \in Seq(T!Looks \cup {Old}) /\ rendered \in Seq(T!Looks \cup {Old})
        /\ rendering \in T!Looks \cup {Old, Idle}
    BY DEF TuiTyped, TuiInv, PreviewInv, Carry
  <1> QED
    BY <1>1, <1>2, <1>3 DEF TuiTyped, TuiInv, SelectionInv, ScreenTyped, ListTyped, PreviewTyped,
       T!TypeOK

(* One search is queued at first.                                          *)
LEMMA TuiTypedInit ==
    ASSUME StoresInit PROVE TuiTyped
  <1>1. results \in T!Lists
    <2>1. <<>> \in [1..0 -> Sessions] /\ 0 \in 0..2 /\ DOMAIN <<>> = {}
      OBVIOUS
    <2>2. <<>> \in UNION {[1..n -> Sessions] : n \in 0..2}
      BY <2>1
    <2> QED
      BY <2>1, <2>2 DEF StoresInit, T!Init, T!Lists
  <1>2. Len(searches) = 1 /\ Len(<<>>) = 0
    BY DEF StoresInit, T!Init
  <1>3. ListTyped
    <2>1. debounce \in BOOLEAN /\ list \in T!LoadStates
      BY Zenon DEF StoresInit, T!Init, T!LoadStates
    <2>2. Len(searches) <= MaxQueue /\ Len(found) <= MaxAnswers
      BY <1>2, StoresConstants DEF StoresInit, T!Init
    <2> QED
      BY <1>1, <2>1, <2>2 DEF ListTyped
  <1>4. PreviewTyped
    BY <1>2, StoresConstants DEF StoresInit, T!Init, PreviewTyped, T!LoadStates, T!Queries
  <1>5. ScreenTyped
    BY DEF StoresInit, T!Init, ScreenTyped, T!Layouts, T!Focuses
  <1> QED
    BY <1>3, <1>4, <1>5, TuiInit DEF TuiTyped

(* Every key leaves a screen there is.                                     *)
LEMMA ScreenTypedStep ==
    ASSUME ScreenTyped, T!Next \/ UNCHANGED T!tui_vars PROVE ScreenTyped'
  <1> USE DEF ScreenTyped, T!screen, T!Layouts, T!Focuses
  <1>2. CASE UNCHANGED T!tui_vars
    BY <1>2 DEF T!tui_vars
  <1>3. ASSUME NEW l \in T!Lists, T!HandleResults(l) PROVE ScreenTyped'
    BY <1>3 DEF T!HandleResults
  <1>4. ASSUME NEW i \in 1..2, T!MoveSelection(i) PROVE ScreenTyped'
    BY <1>4 DEF T!MoveSelection
  <1>7. CASE T!FocusList \/ T!EnterAtHome \/ T!TabAtHome
    BY <1>7 DEF T!FocusList, T!EnterAtHome, T!TabAtHome, T!EnterBrowse
  <1>8. ASSUME NEW t \in T!Queries, T!TypeAtHome(t) \/ T!TypeQuery(t) \/ T!OpenTimelineProject(t)
        PROVE  ScreenTyped'
    BY <1>8 DEF T!TypeAtHome, T!TypeQuery, T!OpenTimelineProject
  <1>9. CASE T!FocusQuery \/ T!ApplyDropdown \/ T!EnterFullHistory \/ T!Submit \/ T!FilterKey
    BY <1>9 DEF T!FocusQuery, T!ApplyDropdown, T!EnterFullHistory, T!Submit, T!FilterKey
  <1>10. CASE T!ToggleLayout \/ T!EnterPreview \/ T!ExitDetail \/ T!GoHome
    BY <1>10 DEF T!ToggleLayout, T!EnterPreview, T!ExitDetail, T!GoHome, T!Queries
  <1>15. CASE T!FlushHomeSearch \/ T!IndexDone
    BY <1>15 DEF T!FlushHomeSearch, T!IndexDone
  <1>11. CASE T!TakeSearch \/ T!AnswerSearch \/ T!TakeRender \/ T!AnswerRender
    BY <1>11 DEF T!TakeSearch, T!AnswerSearch, T!TakeRender, T!AnswerRender
  <1>12. CASE T!HandleSearchError \/ T!IgnoreSearch \/ T!HandleRender \/ T!IgnoreRender
    BY <1>12 DEF T!HandleSearchError, T!IgnoreSearch, T!HandleRender, T!IgnoreRender
  <1>13. ASSUME NEW v \in Views, T!ChangeView(v) PROVE ScreenTyped'
    BY <1>13 DEF T!ChangeView
  <1>14. ASSUME NEW f \in T!Focuses, T!MoveFocus(f) PROVE ScreenTyped'
    BY <1>14 DEF T!MoveFocus, T!Queries
  <1> QED
    BY <1>2, <1>3, <1>4, <1>7, <1>8, <1>9, <1>10, <1>11, <1>12, <1>13, <1>14, <1>15 DEF T!Next

(* A queue grows by one request and loses its first answer.                *)
LEMMA QueueLengths ==
    ASSUME NEW K, NEW s \in Seq(K), NEW e
    PROVE  /\ Len(s) \in Nat /\ Len(T!AllOld(s)) = Len(s)
           /\ Len(Append(T!AllOld(s), e)) = Len(s) + 1
           /\ Len(Append(s, e)) = Len(s) + 1
           /\ s # <<>> => Len(Tail(s)) = Len(s) - 1 /\ Len(s) > 0 /\ Head(s) \in K
           /\ Len(<<>>) = 0
  <1>1. Len(s) \in Nat /\ T!AllOld(s) \in Seq({Old}) /\ Len(T!AllOld(s)) = Len(s)
    BY AllOldIsStale, QueueEnds
  <1>2. s \in Seq(K \cup {e}) /\ T!AllOld(s) \in Seq({Old} \cup {e})
    BY <1>1, QueueWidens
  <1>3. Len(Append(T!AllOld(s), e)) = Len(s) + 1 /\ Len(Append(s, e)) = Len(s) + 1
    BY <1>1, <1>2
  <1>4. ASSUME s # <<>> PROVE Len(Tail(s)) = Len(s) - 1 /\ Len(s) > 0 /\ Head(s) \in K
    BY <1>1, <1>4, QueueEnds
  <1> QED
    BY <1>1, <1>3, <1>4

(* No search or answer is added to a queue that is full.                   *)
LEMMA ListTypedStep ==
    ASSUME TuiTyped, T!Next \/ UNCHANGED T!tui_vars PROVE ListTyped'
  <1>1. searches \in Seq({T!New} \cup {Old}) /\ found \in Seq({T!New} \cup {Old})
    BY DEF TuiTyped, TuiInv, ListInv, Carry
  <1>2. /\ Len(searches) \in Nat /\ Len(T!AllOld(searches)) = Len(searches)
        /\ Len(found) \in Nat /\ Len(T!AllOld(found)) = Len(found)
        /\ Len(Append(T!AllOld(searches), T!New)) = Len(searches) + 1
        /\ Len(Append(found, searching)) = Len(found) + 1
        /\ found # <<>> => Len(Tail(found)) <= Len(found) /\ Len(Tail(found)) \in Nat
        /\ Len(<<>>) = 0
    BY <1>1, QueueLengths
  <1>3. /\ debounce \in BOOLEAN /\ list \in T!LoadStates /\ results \in T!Lists
        /\ Len(searches) <= MaxQueue /\ Len(found) <= MaxAnswers
        /\ MaxQueue \in Nat /\ MaxAnswers \in Nat
    BY StoresConstants DEF TuiTyped, ListTyped
  <1>4. CASE UNCHANGED T!list_vars
    BY <1>3, <1>4 DEF T!list_vars, T!search_worker, ListTyped
  <1>5. CASE T!KickoffSearch
    <2>1. debounce' \in BOOLEAN /\ list' \in T!LoadStates /\ results' \in T!Lists
      BY <1>3, <1>5, Zenon DEF T!KickoffSearch, T!LoadStates
    <2>2. Len(searches') <= MaxQueue /\ Len(found') <= MaxAnswers
      BY <1>2, <1>3, <1>5 DEF T!KickoffSearch
    <2> QED
      BY <2>1, <2>2 DEF ListTyped
  <1>6. CASE T!ScheduleHomeSearch
    BY <1>2, <1>3, <1>6 DEF T!ScheduleHomeSearch, T!SearchOutdated, ListTyped, T!LoadStates
  <1>7. CASE T!TakeSearch
    BY <1>2, <1>3, <1>7 DEF T!TakeSearch, ListTyped
  <1>8. CASE T!AnswerSearch
    BY <1>2, <1>3, <1>8 DEF T!AnswerSearch, ListTyped
  <1>9. CASE T!HandleSearchError \/ T!IgnoreSearch
    BY <1>2, <1>3, <1>9 DEF T!HandleSearchError, T!IgnoreSearch, ListTyped, T!LoadStates
  <1>10. ASSUME NEW l \in T!Lists, T!HandleResults(l) PROVE ListTyped'
    BY <1>2, <1>3, <1>10 DEF T!HandleResults, ListTyped, T!LoadStates
  <1> QED
    BY <1>4, <1>5, <1>6, <1>7, <1>8, <1>9, <1>10, ListMoves

(* Neither is a preview, and what is previewed is a look at a session.     *)
LEMMA PreviewTypedStep ==
    ASSUME TuiTyped, SelectionInv', ScreenTyped', T!Next \/ UNCHANGED T!tui_vars
    PROVE  PreviewTyped'
  <1>1. renders \in Seq(T!Looks \cup {Old}) /\ rendered \in Seq(T!Looks \cup {Old})
    BY DEF TuiTyped, TuiInv, PreviewInv, Carry
  <1>2. /\ Len(renders) \in Nat /\ Len(T!AllOld(renders)) = Len(renders)
        /\ Len(rendered) \in Nat /\ Len(T!AllOld(rendered)) = Len(rendered)
        /\ \A e : Len(Append(T!AllOld(renders), e)) = Len(renders) + 1
        /\ Len(Append(rendered, rendering)) = Len(rendered) + 1
        /\ rendered # <<>> => /\ Len(Tail(rendered)) <= Len(rendered)
                              /\ Len(Tail(rendered)) \in Nat
                              /\ Head(rendered) \in T!Looks \cup {Old}
        /\ Len(<<>>) = 0
    BY <1>1, QueueLengths
  <1>3. /\ preview \in T!LoadStates /\ last_query \in T!Queries
        /\ last_detail \in T!Looks \cup {Blank} /\ previewed \in T!Looks \cup {Blank}
        /\ Len(renders) <= MaxRenders /\ Len(rendered) <= MaxAnswers
        /\ MaxRenders \in Nat /\ MaxAnswers \in Nat
    BY StoresConstants DEF TuiTyped, PreviewTyped
  <1>4. CASE UNCHANGED T!preview_vars
    BY <1>3, <1>4 DEF T!preview_vars, T!preview_worker, PreviewTyped
  <1>5. CASE T!TakeRender \/ T!AnswerRender
    BY <1>2, <1>3, <1>5 DEF T!TakeRender, T!AnswerRender, PreviewTyped
  <1>6. CASE T!HandleRender \/ T!IgnoreRender
    BY <1>2, <1>3, <1>6 DEF T!HandleRender, T!IgnoreRender, PreviewTyped, T!LoadStates
  <1>7. ASSUME NEW last \in T!Looks \cup {Blank}, T!UpdateDetail(last) PROVE PreviewTyped'
    <2>1. CASE layout' = "Home"
      BY <1>3, <1>7, <2>1 DEF T!UpdateDetail, PreviewTyped, T!preview_worker
    <2>2. CASE T!ClearDetail
      BY <1>2, <1>3, <2>2 DEF T!ClearDetail, T!RenderOutdated, PreviewTyped, T!LoadStates,
         T!Queries
    <2>3. ASSUME selected' # 0, T!RequestDetail(<<results'[selected'], view'>>)
          PROVE  PreviewTyped'
      <3>1. <<results'[selected'], view'>> \in T!Looks
        <4>1. selected' \in 1..Len(results') /\ results' \in Seq(Sessions) /\ view' \in Views
          BY <2>3, QueueEnds DEF SelectionInv
        <4>2. results'[selected'] \in Sessions
          BY <4>1, QueueEnds
        <4> QED
          BY <4>1, <4>2 DEF T!Looks
      <3> QED
        BY <1>2, <1>3, <2>3, <3>1 DEF T!RequestDetail, T!RenderOutdated, PreviewTyped,
           T!LoadStates, ScreenTyped
    <2> QED
      BY <1>4, <1>7, <2>1, <2>2, <2>3 DEF T!UpdateDetail
  <1> QED
    BY <1>3, <1>4, <1>5, <1>6, <1>7, PreviewMoves DEF PreviewStays

(* The terminal interface keeps its types.                                 *)
LEMMA TuiTypedInvariant == StoresSpec => []T!TypeOK
  <1>1. StoresInit => TuiTyped
    BY TuiTypedInit
  <1>2. TuiTyped /\ TuiInv' /\ [StoresNext]_stores_vars => TuiTyped'
    <2> SUFFICES ASSUME TuiTyped, TuiInv', [StoresNext]_stores_vars PROVE TuiTyped'
      OBVIOUS
    <2>1. ScreenTyped'
      BY TuiMoves, ScreenTypedStep DEF TuiTyped
    <2>2. ListTyped'
      BY TuiMoves, ListTypedStep
    <2>3. PreviewTyped'
      BY <2>1, TuiMoves, PreviewTypedStep DEF TuiInv
    <2> QED
      BY <2>1, <2>2, <2>3 DEF TuiTyped
  <1>3. TuiTyped => T!TypeOK
    BY TuiTypedMeans
  <1> QED
    BY <1>1, <1>2, <1>3, TuiInvariant, PTL DEF StoresSpec

-----------------------------------------------------------------------------
(* The types of the usage cache.                                           *)

(* What a report is of.                                                    *)
TypedReports ==
    [generation : 0..MaxRefreshes, observed : [Logs -> U!Versions], events : [Logs -> U!Versions]]

(* The files, the tables, the refresh under way and the queries. A refresh *)
(* that has yet to write its sync row has a generation left for it.        *)
TablesTyped ==
    /\ on_disk \in [Logs -> U!Versions] /\ edits \in 0..MaxEdits
    /\ blob_meta \in [Logs -> U!Versions] /\ blob_events \in [Logs -> U!Versions]
    /\ facts \in [Logs -> U!Versions] /\ digest \in [Logs -> U!Versions]
    /\ \A stamps \in sync : stamps \in [Logs -> U!Versions]
    /\ generation \in 0..MaxRefreshes /\ failures \in 0..MaxFailures

RefreshTyped ==
    /\ lock \in Users \cup {U!Nobody}
    /\ stage \in {"idle", "facts", "stamped", "legacy", "commit"}
    /\ (stage = "idle") <=> (lock = U!Nobody)
    /\ fingerprint \in [Logs -> U!Versions]
    /\ observed \in [Logs -> U!Versions] /\ events \in [Logs -> U!Versions]
    /\ missing \subseteq Logs /\ unsaved \subseteq Logs /\ removed \subseteq Logs
    /\ stage \in {"facts", "stamped", "legacy"} => generation < MaxRefreshes

QueriesTyped ==
    /\ held \in [Users -> TypedReports] /\ asked \in [Users -> TypedReports]
    /\ qpc \in [Users -> {"out", "stat", "sync", "rows", "read", "confirm", "answered"}]

UsageTyped == TablesTyped /\ RefreshTyped /\ QueriesTyped

(* Nothing, no report and the first versions are values.                   *)
LEMMA UsageNumbers ==
    /\ 0 \in U!Versions /\ 1 \in U!Versions /\ 0 \in 0..MaxRefreshes /\ 0 \in 0..MaxFailures
    /\ U!Zero \in [Logs -> U!Versions] /\ U!Empty \in TypedReports
    /\ MaxRefreshes \in Nat /\ MaxFailures \in Nat /\ MaxEdits \in Nat /\ U!Nobody \notin Users
  <1>1. /\ 0 \in U!Versions /\ 1 \in U!Versions /\ 0 \in 0..MaxRefreshes /\ 0 \in 0..MaxFailures
        /\ MaxRefreshes \in Nat /\ MaxFailures \in Nat /\ MaxEdits \in Nat /\ U!Nobody \notin Users
    BY StoresConstants DEF U!Versions
  <1>2. U!Zero \in [Logs -> U!Versions]
    BY <1>1 DEF U!Zero
  <1> QED
    BY <1>1, <1>2 DEF U!Empty, TypedReports

(* Nothing is parsed, cached or asked for at first.                        *)
LEMMA UsageTypedInit ==
    ASSUME StoresInit PROVE UsageTyped
  <1> USE UsageNumbers DEF StoresInit, U!Init
  <1>1. TablesTyped
    <2>1. on_disk \in [Logs -> U!Versions]
      OBVIOUS
    <2> QED
      BY <2>1 DEF TablesTyped, U!None
  <1>2. RefreshTyped
    BY DEF RefreshTyped
  <1>3. QueriesTyped
    BY DEF QueriesTyped
  <1> QED
    BY <1>1, <1>2, <1>3 DEF UsageTyped

(* Some rows of a table are replaced.                                      *)
LEMMA RowsReplaced ==
    ASSUME NEW S, NEW f \in [Logs -> U!Versions], NEW g \in [Logs -> U!Versions]
    PROVE  /\ [l \in Logs |-> IF l \in S THEN g[l] ELSE f[l]] \in [Logs -> U!Versions]
           /\ [l \in Logs |-> IF l \in S THEN 0 ELSE f[l]] \in [Logs -> U!Versions]
  BY UsageNumbers

(* The scan both kinds of refresh begin with.                              *)
LEMMA SplitTyped ==
    ASSUME UsageTyped, NEW to \in {"facts", "legacy"}, NEW served \in [Logs -> U!Versions],
           U!Split(to, served)
    PROVE  /\ TablesTyped' /\ QueriesTyped'
           /\ observed' \in [Logs -> U!Versions] /\ events' \in [Logs -> U!Versions]
           /\ missing' \subseteq Logs /\ unsaved' \subseteq Logs /\ removed' \subseteq Logs
           /\ stage' = to /\ generation' = generation
  <1> USE UsageNumbers DEF U!Split
  <1>1. QueriesTyped'
    BY DEF UsageTyped, QueriesTyped, U!queries
  <1>2. blob_meta' \in [Logs -> U!Versions] /\ blob_events' \in [Logs -> U!Versions]
    BY DEF UsageTyped, TablesTyped
  <1>3. \A stamps \in sync' : stamps \in [Logs -> U!Versions]
    BY DEF UsageTyped, TablesTyped, U!TouchBlobs, U!None
  <1>4. TablesTyped'
    BY <1>2, <1>3 DEF UsageTyped, TablesTyped, U!disk
  <1>5. observed' \in [Logs -> U!Versions] /\ events' \in [Logs -> U!Versions]
    BY DEF UsageTyped, TablesTyped
  <1>6. missing' \subseteq Logs /\ unsaved' \subseteq Logs /\ removed' \subseteq Logs
    OBVIOUS
  <1> QED
    BY <1>1, <1>4, <1>5, <1>6

(* What a refresh leaves in memory is a report.                            *)
LEMMA KeptTyped ==
    ASSUME UsageTyped, NEW gen \in 0..MaxRefreshes, U!Keep(lock, gen)
    PROVE  held' \in [Users -> TypedReports]
  <1>1. [generation |-> gen, observed |-> fingerprint, events |-> events] \in TypedReports
    BY DEF UsageTyped, RefreshTyped, TypedReports
  <1> QED
    BY <1>1 DEF U!Keep, UsageTyped, QueriesTyped

(* A refresh that ended has nothing.                                       *)
LEMMA UnlockTyped ==
    ASSUME U!Unlock PROVE RefreshTyped'
  BY UsageNumbers DEF U!Unlock, RefreshTyped

(* A file changes within the bound.                                        *)
LEMMA ChangeTyped ==
    ASSUME UsageTyped, NEW f \in Logs, NEW v \in U!Versions, U!Change(f, v) PROVE UsageTyped'
  <1> USE UsageNumbers DEF U!Change, UsageTyped
  <1>1. TablesTyped'
    <2>1. on_disk' \in [Logs -> U!Versions]
      BY DEF TablesTyped
    <2>2. edits' \in 0..MaxEdits
      BY DEF TablesTyped
    <2> QED
      BY <2>1, <2>2 DEF TablesTyped, U!blobs, U!canon
  <1>2. RefreshTyped'
    BY DEF RefreshTyped, U!refresh, U!turn, U!canon
  <1>3. QueriesTyped'
    BY DEF QueriesTyped, U!queries
  <1> QED
    BY <1>1, <1>2, <1>3

(* A refresh starts when there is a generation left.                       *)
LEMMA StartsTyped ==
    ASSUME UsageTyped, NEW p \in Users, U!StartFacts(p) \/ U!StartLegacy(p) PROVE UsageTyped'
  <1>1. generation < MaxRefreshes /\ lock' = p /\ fingerprint' = on_disk /\ p # U!Nobody
    BY UsageNumbers DEF U!StartFacts, U!StartLegacy, U!MayRefresh
  <1>2. CASE U!StartFacts(p)
    <2>1. U!Split("facts", facts) /\ facts \in [Logs -> U!Versions]
      BY <1>2 DEF U!StartFacts, UsageTyped, TablesTyped
    <2>2. /\ TablesTyped' /\ QueriesTyped'
          /\ observed' \in [Logs -> U!Versions] /\ events' \in [Logs -> U!Versions]
          /\ missing' \subseteq Logs /\ unsaved' \subseteq Logs /\ removed' \subseteq Logs
          /\ stage' = "facts" /\ generation' = generation
      BY <2>1, SplitTyped
    <2>3. RefreshTyped'
      BY <1>1, <2>2 DEF RefreshTyped, UsageTyped, TablesTyped
    <2> QED
      BY <2>2, <2>3 DEF UsageTyped
  <1>3. CASE U!StartLegacy(p)
    <2>1. TablesTyped' /\ QueriesTyped'
      BY <1>3 DEF U!StartLegacy, UsageTyped, TablesTyped, QueriesTyped, U!disk, U!blobs, U!canon,
         U!queries
    <2>2. RefreshTyped'
      BY <1>1, <1>3 DEF U!StartLegacy, UsageTyped, RefreshTyped, TablesTyped, U!canon
    <2> QED
      BY <2>1, <2>2 DEF UsageTyped
  <1> QED
    BY <1>2, <1>3

(* The scan of a refresh from the blobs.                                   *)
LEMMA ScanTyped ==
    ASSUME UsageTyped, U!ScanLegacy PROVE UsageTyped'
  <1>1. /\ stage = "stamped" /\ U!Split("legacy", blob_events) /\ UNCHANGED <<lock, fingerprint>>
        /\ blob_events \in [Logs -> U!Versions]
    BY DEF U!ScanLegacy, UsageTyped, TablesTyped
  <1>2. /\ TablesTyped' /\ QueriesTyped'
        /\ observed' \in [Logs -> U!Versions] /\ events' \in [Logs -> U!Versions]
        /\ missing' \subseteq Logs /\ unsaved' \subseteq Logs /\ removed' \subseteq Logs
        /\ stage' = "legacy" /\ generation' = generation
    BY <1>1, SplitTyped
  <1>3. RefreshTyped'
    BY <1>1, <1>2 DEF RefreshTyped, UsageTyped
  <1> QED
    BY <1>2, <1>3 DEF UsageTyped

(* A file is parsed, or cannot be.                                         *)
LEMMA ParsesTyped ==
    ASSUME UsageTyped, NEW f \in Logs, U!Parse(f) \/ U!ParseUncached(f) \/ U!ParseFails(f)
    PROVE  UsageTyped'
  <1> USE DEF U!Parse, U!ParseUncached, U!ParseFails
  <1>1. failures' \in 0..MaxFailures
    BY UsageNumbers DEF UsageTyped, TablesTyped
  <1>2. TablesTyped' /\ QueriesTyped'
    BY <1>1 DEF UsageTyped, TablesTyped, QueriesTyped, U!disk, U!blobs, U!canon, U!queries
  <1>3. events' \in [Logs -> U!Versions]
    BY DEF UsageTyped, TablesTyped, RefreshTyped
  <1>4. RefreshTyped'
    BY <1>3 DEF UsageTyped, RefreshTyped, U!turn, U!canon
  <1> QED
    BY <1>2, <1>4 DEF UsageTyped

(* Blobs are saved, or not.                                                *)
LEMMA SavesTyped ==
    ASSUME UsageTyped, U!SaveBatch \/ U!SaveFails PROVE UsageTyped'
  <1> USE DEF U!SaveBatch, U!SaveFails
  <1>1. failures' \in 0..MaxFailures
    BY UsageNumbers DEF UsageTyped, TablesTyped
  <1>2. blob_meta' \in [Logs -> U!Versions] /\ blob_events' \in [Logs -> U!Versions]
    BY DEF UsageTyped, TablesTyped, RefreshTyped, U!blobs
  <1>3. \A stamps \in sync' : stamps \in [Logs -> U!Versions]
    BY DEF UsageTyped, TablesTyped, U!TouchBlobs, U!None, U!canon
  <1>4. TablesTyped' /\ QueriesTyped'
    BY <1>1, <1>2, <1>3 DEF UsageTyped, TablesTyped, QueriesTyped, U!disk, U!canon, U!queries
  <1>5. RefreshTyped'
    BY DEF UsageTyped, RefreshTyped, U!turn, U!canon
  <1> QED
    BY <1>4, <1>5 DEF UsageTyped

(* The next generation is the one that was left.                           *)
LEMMA UpsertTyped ==
    ASSUME UsageTyped, U!UpsertFacts PROVE UsageTyped'
  <1> USE UsageNumbers DEF U!UpsertFacts
  <1>1. facts' \in [Logs -> U!Versions] /\ digest' \in [Logs -> U!Versions]
    BY DEF UsageTyped, TablesTyped, RefreshTyped, U!DropDigests
  <1>2. generation' \in 0..MaxRefreshes /\ generation' = generation + 1
    BY DEF UsageTyped, TablesTyped, RefreshTyped, U!WriteSync
  <1>3. \A stamps \in sync' : stamps \in [Logs -> U!Versions]
    BY DEF UsageTyped, RefreshTyped, U!WriteSync
  <1>4. TablesTyped'
    BY <1>1, <1>2, <1>3 DEF UsageTyped, TablesTyped, U!disk, U!blobs
  <1>5. RefreshTyped'
    BY UnlockTyped
  <1>6. QueriesTyped'
    BY <1>2, KeptTyped DEF UsageTyped, QueriesTyped
  <1> QED
    BY <1>4, <1>5, <1>6 DEF UsageTyped

(* A refresh ends without a new generation.                                *)
LEMMA StandTyped ==
    ASSUME UsageTyped, U!FactsStand \/ U!ReplaceFails \/ U!LegacyDone PROVE UsageTyped'
  <1> USE UsageNumbers DEF U!FactsStand, U!ReplaceFails, U!LegacyDone
  <1>1. failures' \in 0..MaxFailures
    BY DEF UsageTyped, TablesTyped
  <1>2. \A stamps \in sync' : stamps \in [Logs -> U!Versions]
    BY DEF UsageTyped, TablesTyped, U!canon, U!None
  <1>3. TablesTyped'
    BY <1>1, <1>2 DEF UsageTyped, TablesTyped, U!disk, U!blobs, U!canon
  <1>4. RefreshTyped'
    BY UnlockTyped
  <1>5. held' \in [Users -> TypedReports]
    <2>1. generation \in 0..MaxRefreshes
      BY DEF UsageTyped, TablesTyped
    <2>2. PICK gen \in 0..MaxRefreshes : U!Keep(lock, gen)
      BY <2>1
    <2> QED
      BY <2>2, KeptTyped
  <1>6. QueriesTyped'
    BY <1>5 DEF UsageTyped, QueriesTyped
  <1> QED
    BY <1>3, <1>4, <1>6 DEF UsageTyped

(* A refresh falls back to the blobs, or replaces the facts by theirs.     *)
LEMMA FailTyped ==
    ASSUME UsageTyped, U!FactsFail \/ U!ReplaceFacts PROVE UsageTyped'
  <1>1. CASE U!FactsFail
    <2> USE <1>1, UsageNumbers DEF U!FactsFail
    <2>1. TablesTyped' /\ QueriesTyped'
      BY DEF UsageTyped, TablesTyped, QueriesTyped, U!disk, U!blobs, U!canon, U!queries
    <2>2. RefreshTyped'
      BY DEF UsageTyped, TablesTyped, RefreshTyped, U!canon
    <2> QED
      BY <2>1, <2>2 DEF UsageTyped
  <1>2. CASE U!ReplaceFacts
    <2> USE <1>2, UsageNumbers DEF U!ReplaceFacts
    <2>1. facts' \in [Logs -> U!Versions] /\ digest' \in [Logs -> U!Versions]
      BY DEF UsageTyped, TablesTyped, RefreshTyped
    <2>2. generation' \in 0..MaxRefreshes
      BY DEF UsageTyped, TablesTyped, RefreshTyped, U!WriteSync
    <2>3. \A stamps \in sync' : stamps \in [Logs -> U!Versions]
      BY DEF UsageTyped, RefreshTyped, U!WriteSync
    <2>4. TablesTyped'
      BY <2>1, <2>2, <2>3 DEF UsageTyped, TablesTyped, U!disk, U!blobs
    <2>5. RefreshTyped' /\ QueriesTyped'
      BY DEF UsageTyped, RefreshTyped, QueriesTyped, U!queries
    <2> QED
      BY <2>4, <2>5 DEF UsageTyped
  <1> QED
    BY <1>1, <1>2

(* A refresh dies.                                                         *)
LEMMA CrashTyped ==
    ASSUME UsageTyped, U!Crash PROVE UsageTyped'
  <1> USE UsageNumbers DEF U!Crash
  <1>1. TablesTyped'
    BY DEF UsageTyped, TablesTyped, U!disk, U!blobs, U!canon
  <1>2. RefreshTyped'
    BY UnlockTyped
  <1>3. QueriesTyped'
    BY DEF UsageTyped, QueriesTyped, RefreshTyped
  <1> QED
    BY <1>1, <1>2, <1>3 DEF UsageTyped

(* A query only changes what it has asked and what it holds.               *)
LEMMA QueryTyped ==
    ASSUME UsageTyped, UNCHANGED <<U!disk, U!blobs, U!canon, U!refresh, failures>>, QueriesTyped'
    PROVE  UsageTyped'
  <1>1. TablesTyped'
    BY DEF UsageTyped, TablesTyped, U!disk, U!blobs, U!canon
  <1>2. RefreshTyped'
    BY DEF UsageTyped, RefreshTyped, U!refresh, U!turn, U!canon
  <1> QED
    BY <1>1, <1>2 DEF UsageTyped

(* A query goes on.                                                        *)
LEMMA AsksTyped ==
    ASSUME UsageTyped, NEW p \in Users,
           U!Ask(p) \/ U!StatFiles(p) \/ U!SyncMatches(p) \/ U!RowsMatch(p) \/ U!ReadFacts(p)
             \/ U!Confirm(p)
    PROVE  UsageTyped'
  <1> USE DEF U!Ask, U!StatFiles, U!SyncMatches, U!RowsMatch, U!ReadFacts, U!Confirm, U!QueryStep
  <1>1. UNCHANGED <<U!disk, U!blobs, U!canon, U!refresh, failures>> /\ held' = held
    OBVIOUS
  <1>2. qpc' \in [Users -> {"out", "stat", "sync", "rows", "read", "confirm", "answered"}]
    BY DEF UsageTyped, QueriesTyped
  <1>3. /\ asked \in [Users -> TypedReports] /\ held[p] \in TypedReports
        /\ facts \in [Logs -> U!Versions] /\ on_disk \in [Logs -> U!Versions]
        /\ generation \in 0..MaxRefreshes
    BY DEF UsageTyped, QueriesTyped, TablesTyped
  <1>4. asked' \in [Users -> TypedReports]
    <2>1. CASE U!Ask(p)
      <3>1. [U!Empty EXCEPT !.generation = generation] \in TypedReports
        BY <1>3, UsageNumbers DEF TypedReports
      <3> QED
        BY <1>3, <2>1, <3>1
    <2>2. CASE U!StatFiles(p)
      BY <1>3, <2>2 DEF TypedReports
    <2>3. CASE U!ReadFacts(p)
      BY <1>3, <2>3 DEF TypedReports
    <2> QED
      BY <1>3, <2>1, <2>2, <2>3
  <1>5. QueriesTyped'
    BY <1>1, <1>2, <1>4 DEF UsageTyped, QueriesTyped
  <1> QED
    BY <1>1, <1>5, QueryTyped

(* A query ends.                                                           *)
LEMMA AnswersTyped ==
    ASSUME UsageTyped, NEW p \in Users, U!Doubt(p) \/ U!Answer(p) PROVE UsageTyped'
  <1> USE UsageNumbers DEF U!Doubt, U!Answer
  <1>1. UNCHANGED <<U!disk, U!blobs, U!canon, U!refresh, failures>>
    OBVIOUS
  <1>2. QueriesTyped'
    BY DEF UsageTyped, QueriesTyped
  <1> QED
    BY <1>1, <1>2, QueryTyped

(* The values hold throughout.                                             *)
LEMMA UsageTypedInvariant == StoresSpec => []UsageTyped
  <1>1. StoresInit => UsageTyped
    BY UsageTypedInit
  <1>2. UsageTyped /\ [StoresNext]_stores_vars => UsageTyped'
    <2> SUFFICES ASSUME UsageTyped, U!Next \/ UNCHANGED U!vars PROVE UsageTyped'
      BY UsageMoves
    <2>1. CASE UNCHANGED U!vars
      BY <2>1, QueryTyped DEF U!vars, U!queries, UsageTyped, QueriesTyped
    <2>2. CASE U!Next
      BY <2>2, ChangeTyped, StartsTyped, ScanTyped, ParsesTyped, SavesTyped, UpsertTyped,
         StandTyped, FailTyped, CrashTyped, AsksTyped, AnswersTyped DEF U!Next
    <2> QED
      BY <2>1, <2>2
  <1> QED
    BY <1>1, <1>2, PTL DEF StoresSpec

(* With UsageInv they are all that TypeOK says.                            *)
LEMMA UsageTypedMeans ==
    ASSUME UsageTyped, ~Restores => UsageInv PROVE U!TypeOK
  <1>1. ~Restores => \A f \in Logs : blob_events[f] >= blob_meta[f]
    BY DEF UsageInv, VersionsPassed, UsageTypes
  <1> QED
    BY <1>1 DEF UsageTyped, TablesTyped, RefreshTyped, QueriesTyped, TypedReports, U!TypeOK

(* The usage cache keeps its types, whether or not files come back.        *)
LEMMA UsageAlwaysTyped == StoresSpec => []U!TypeOK
  <1>1. CASE Restores
    <2>1. UsageTyped => U!TypeOK
      BY <1>1, UsageTypedMeans
    <2> QED
      BY <2>1, UsageTypedInvariant, PTL
  <1>2. CASE ~Restores
    <2>1. UsageTyped /\ UsageInv => U!TypeOK
      BY UsageTypedMeans
    <2> QED
      BY <1>2, <2>1, UsageTypedInvariant, UsageInvariant, PTL
  <1> QED
    BY <1>1, <1>2

-----------------------------------------------------------------------------
(* The types and limits of the OAuth server.                               *)

(* The refresh token rows of a grant.                                      *)
Rows(g) == {i \in O!Issues : family[i] = g /\ tokens[i] # "none"}

(* No time lies behind the clock's last but for a lifetime.                *)
TimesBounded ==
    /\ clock <= MaxClock
    /\ \A a \in O!Authorizations : codes[a] <= MaxClock + RefreshTtl
    /\ \A i \in O!Issues : /\ access[i] <= MaxClock + RefreshTtl
                           /\ expires[i] <= MaxClock + RefreshTtl
                           /\ revoked_at[i] <= MaxClock
    /\ \A w \in Workers : busy[w].now <= MaxClock /\ busy[w].arg <= MaxAuthorizations + MaxIssues

(* MAX_PENDING, MAX_GRANTS and MAX_REFRESH_TOKENS_PER_FAMILY.              *)
LimitsKept ==
    /\ Cardinality(waiting) <= MaxPending
    /\ Cardinality(grants) <= MaxGrants
    /\ \A g \in O!Issues : Cardinality(Rows(g)) <= MaxFamily

OAuthTyped == OAuthInv /\ TimesBounded /\ LimitsKept

(* OAuth counts the way the library does.                                  *)
LEMMA SameCardinality == \A S : O!Cardinality(S) = Cardinality(S)
  BY DEF O!Cardinality, Cardinality

(* A part of a finite set is finite and no larger.                         *)
LEMMA PartIsSmaller ==
    ASSUME NEW A, NEW B, IsFiniteSet(B), A \subseteq B
    PROVE  /\ IsFiniteSet(A) /\ Cardinality(A) \in Nat /\ Cardinality(B) \in Nat
           /\ Cardinality(A) <= Cardinality(B)
  BY FS_Subset, FS_CardinalityType

(* Requests, grants and rows are finitely many.                            *)
LEMMA StoreIsFinite ==
    ASSUME OAuthInv
    PROVE  IsFiniteSet(O!Issues) /\ IsFiniteSet(waiting) /\ IsFiniteSet(grants)
  <1>1. IsFiniteSet(O!Issues)
    BY StoresConstants, FS_Interval DEF O!Issues
  <1>2. IsFiniteSet(1..asked_for) /\ IsFiniteSet(1..issued)
    BY StoresConstants, FS_Interval DEF OAuthInv, Forms
  <1> QED
    BY <1>1, <1>2, FS_Subset DEF OAuthInv, Forms

(* Together they are the type invariant.                                   *)
LEMMA OAuthTypedMeans ==
    ASSUME OAuthTyped PROVE O!TypeOK
  <1> USE StoresConstants DEF OAuthTyped, OAuthInv, Forms, Threads, TimesBounded
  <1>1. clock \in 1..MaxClock /\ asked_for \in 0..MaxAuthorizations /\ issued \in 0..MaxIssues
    OBVIOUS
  <1>2. waiting \subseteq O!Authorizations /\ grants \subseteq O!Issues
    BY DEF O!Authorizations, O!Issues
  <1>3. codes \in [O!Authorizations -> O!Times]
    BY DEF O!Times
  <1>4. access \in [O!Issues -> O!Times] /\ expires \in [O!Issues -> O!Times]
    BY DEF O!Times
  <1>5. revoked_at \in [O!Issues -> 0..MaxClock]
    OBVIOUS
  <1>6. begun_by \in [O!Issues -> 0..MaxAuthorizations]
    OBVIOUS
  <1>7. family \in [O!Issues -> 0..MaxIssues]
    OBVIOUS
  <1>8. busy \in [Workers -> [op : {"free", "insert", "exchange", "rotate", "revoke"},
                             arg : 0..(MaxAuthorizations + MaxIssues), now : 0..MaxClock]]
    OBVIOUS
  <1>9. tokens \in [O!Issues -> {"none", "unused", "used"}] /\ uses \in [O!Issues -> 0..2]
    OBVIOUS
  <1>10. O!Cardinality(waiting) <= MaxPending /\ O!Cardinality(grants) <= MaxGrants
    BY SameCardinality DEF LimitsKept
  <1>11. ASSUME NEW g \in O!Issues
         PROVE  O!Cardinality({i \in O!Issues : family[i] = g /\ tokens[i] # "none"}) <= MaxFamily
    BY SameCardinality DEF LimitsKept, Rows
  <1> QED
    BY <1>1, <1>2, <1>3, <1>4, <1>5, <1>6, <1>7, <1>8, <1>9, <1>10, <1>11 DEF O!TypeOK

(* Nothing is asked for, stored or issued at first.                        *)
LEMMA OAuthTypedInit ==
    ASSUME StoresInit PROVE OAuthTyped
  <1>1. TimesBounded
    BY StoresConstants DEF StoresInit, O!Init, TimesBounded, O!Free
  <1>2. Cardinality({}) = 0
    BY FS_EmptySet
  <1>3. \A g \in O!Issues : Rows(g) = {}
    BY DEF StoresInit, O!Init, Rows
  <1>4. waiting = {} /\ grants = {}
    BY DEF StoresInit, O!Init
  <1>5. MaxPending >= 0 /\ MaxGrants >= 0 /\ MaxFamily >= 0
    BY StoresConstants
  <1>6. LimitsKept
    BY <1>2, <1>3, <1>4, <1>5 DEF LimitsKept
  <1> QED
    BY <1>1, <1>6, OAuthInit DEF OAuthTyped

(* The rows of a grant are only fewer where no issue is made.              *)
LEMMA RowsShrink ==
    ASSUME OAuthTyped, UNCHANGED family,
           \A i \in O!Issues : tokens'[i] # "none" => tokens[i] # "none"
    PROVE  \A g \in O!Issues : Cardinality(Rows(g)') <= MaxFamily
  <1> SUFFICES ASSUME NEW g \in O!Issues PROVE Cardinality(Rows(g)') <= MaxFamily
    OBVIOUS
  <1>1. Rows(g)' \subseteq Rows(g) /\ Rows(g) \subseteq O!Issues
    BY DEF Rows
  <1>2. IsFiniteSet(Rows(g))
    BY <1>1, StoreIsFinite, FS_Subset DEF OAuthTyped
  <1>3. Cardinality(Rows(g)') <= Cardinality(Rows(g)) /\ Cardinality(Rows(g)') \in Nat
        /\ Cardinality(Rows(g)) \in Nat
    BY <1>1, <1>2, PartIsSmaller
  <1>4. Cardinality(Rows(g)) <= MaxFamily
    BY DEF OAuthTyped, LimitsKept
  <1> QED
    BY <1>3, <1>4, StoresConstants

(* Neither are there more grants or requests than before.                  *)
LEMMA LimitsShrink ==
    ASSUME OAuthTyped, waiting' \subseteq waiting, grants' \subseteq grants, UNCHANGED family,
           \A i \in O!Issues : tokens'[i] # "none" => tokens[i] # "none"
    PROVE  LimitsKept'
  <1>1. Cardinality(waiting') \in Nat /\ Cardinality(waiting) \in Nat
        /\ Cardinality(waiting') <= Cardinality(waiting)
    BY StoreIsFinite, PartIsSmaller DEF OAuthTyped
  <1>2. Cardinality(grants') \in Nat /\ Cardinality(grants) \in Nat
        /\ Cardinality(grants') <= Cardinality(grants)
    BY StoreIsFinite, PartIsSmaller DEF OAuthTyped
  <1>3. Cardinality(waiting') <= MaxPending /\ Cardinality(grants') <= MaxGrants
    BY <1>1, <1>2, StoresConstants DEF OAuthTyped, LimitsKept
  <1> QED
    BY <1>3, RowsShrink DEF LimitsKept

(* A transaction at a time that has been finds only rows there are.        *)
LEMMA PrunedRows ==
    ASSUME NEW now
    PROVE  /\ \A i \in O!Issues : O!KeptTokens(now)[i] # "none" => tokens[i] # "none"
           /\ O!KeptGrants(now) \subseteq grants
  BY DEF O!KeptTokens, O!Kept, O!KeptGrants

(* insert_pending makes room for the request it adds.                      *)
LEMMA AuthorizeLimits ==
    ASSUME OAuthTyped, O!Authorize PROVE LimitsKept'
  <1>1. PICK expired \in SUBSET waiting :
            waiting' = (IF O!Cardinality(waiting \ expired) >= MaxPending
                        THEN (waiting \ expired) \ {CHOOSE a \in (waiting \ expired) :
                                                      \A b \in (waiting \ expired) : a <= b}
                        ELSE waiting \ expired) \cup {asked_for + 1}
    BY DEF O!Authorize
  <1> DEFINE left == waiting \ expired
             least == CHOOSE a \in left : \A b \in left : a <= b
  <1>2. /\ IsFiniteSet(left) /\ Cardinality(left) \in Nat
        /\ Cardinality(left) <= Cardinality(waiting) /\ Cardinality(waiting) \in Nat
    BY StoreIsFinite, PartIsSmaller DEF OAuthTyped
  <1>3. Cardinality(left) <= MaxPending /\ MaxPending \in Nat \ {0}
    BY <1>2, StoresConstants DEF OAuthTyped, LimitsKept
  <1>4. left \subseteq Nat
    BY StoresConstants DEF OAuthTyped, OAuthInv, Forms
  <1> DEFINE room == IF O!Cardinality(left) >= MaxPending THEN left \ {least} ELSE left
  <1>5. IsFiniteSet(room) /\ Cardinality(room) \in Nat /\ Cardinality(room) < MaxPending
    <2>1. CASE Cardinality(left) >= MaxPending
      <3>1. left # {}
        BY <1>3, <2>1, FS_EmptySet
      <3>2. \E x \in left : \A y \in left : x <= y
        <4> HIDE DEF left
        <4> QED
          BY <1>4, <3>1, LeastOfSome
      <3>3. least \in left
        BY <3>2
      <3> HIDE DEF least, left
      <3>4. IsFiniteSet(left \ {least}) /\ Cardinality(left \ {least}) = Cardinality(left) - 1
        BY <1>2, <3>3, FS_RemoveElement
      <3>5. room = left \ {least}
        BY <2>1, SameCardinality
      <3> QED
        BY <1>2, <1>3, <3>4, <3>5, <3>1, FS_EmptySet
    <2>2. CASE ~(Cardinality(left) >= MaxPending)
      <3>1. room = left
        BY <2>2, SameCardinality
      <3> HIDE DEF room, left
      <3> QED
        BY <1>2, <1>3, <2>2, <3>1
    <2> QED
      BY <2>1, <2>2
  <1>6. waiting' = room \cup {asked_for + 1}
    BY <1>1
  <1> HIDE DEF room
  <1>7. Cardinality(waiting') <= MaxPending
    <2>1. Cardinality(room \cup {asked_for + 1}) \in {Cardinality(room), Cardinality(room) + 1}
      BY <1>5, FS_AddElement
    <2> QED
      BY <1>3, <1>5, <1>6, <2>1
  <1>8. UNCHANGED <<grants, family, tokens>>
    BY DEF O!Authorize, O!store
  <1>9. \A g \in O!Issues : Cardinality(Rows(g)') <= MaxFamily
    BY <1>8, RowsShrink
  <1> QED
    BY <1>7, <1>8, <1>9 DEF LimitsKept, OAuthTyped

(* At the limit of grants one that was revoked makes room: there is one,   *)
(* because fewer than the limit are active.                                *)
LEMMA RoomForOne ==
    ASSUME OAuthTyped, NEW kept \in SUBSET grants, Cardinality(O!Active(kept)) < MaxGrants
    PROVE  /\ IsFiniteSet(O!Room(kept)) /\ O!Room(kept) \subseteq kept
           /\ Cardinality(O!Room(kept)) \in Nat /\ Cardinality(O!Room(kept)) < MaxGrants
  <1>1. /\ IsFiniteSet(kept) /\ Cardinality(kept) \in Nat /\ MaxGrants \in Nat
        /\ Cardinality(kept) <= MaxGrants
    <2>1. /\ IsFiniteSet(kept) /\ Cardinality(kept) \in Nat /\ Cardinality(grants) \in Nat
          /\ Cardinality(kept) <= Cardinality(grants)
      BY StoreIsFinite, PartIsSmaller DEF OAuthTyped
    <2> QED
      BY <2>1, StoresConstants DEF OAuthTyped, LimitsKept
  <1>2. CASE Cardinality(kept) < MaxGrants
    <2>1. O!Room(kept) = kept
      BY <1>2, SameCardinality DEF O!Room
    <2> QED
      BY <1>1, <1>2, <2>1
  <1>3. CASE ~(Cardinality(kept) < MaxGrants)
    <2> DEFINE out == {g \in kept : revoked_at[g] # 0}
               first == CHOOSE g \in out : \A h \in out : revoked_at[g] <= revoked_at[h]
               Q == {revoked_at[g] : g \in out}
    <2>1. O!Room(kept) = kept \ {first}
      BY <1>3, SameCardinality DEF O!Room
    <2>2. out # {}
      <3>1. ASSUME out = {} PROVE FALSE
        <4>1. O!Active(kept) = kept
          BY <3>1 DEF O!Active
        <4> QED
          BY <1>1, <1>3, <4>1
      <3> QED
        BY <3>1
    <2>3. \A g \in out : revoked_at[g] \in Nat
      BY StoresConstants DEF OAuthTyped, OAuthInv, Forms, O!Issues
    <2>4. \E x \in Q : \A y \in Q : x <= y
      <3>1. Q \subseteq Nat /\ Q # {}
        BY <2>2, <2>3
      <3> HIDE DEF Q
      <3> QED
        BY <3>1, LeastOfSome
    <2>5. \E g \in out : \A h \in out : revoked_at[g] <= revoked_at[h]
      BY <2>4
    <2>6. first \in kept
      BY <2>5
    <2> HIDE DEF first
    <2>7. IsFiniteSet(kept \ {first}) /\ Cardinality(kept \ {first}) = Cardinality(kept) - 1
      BY <1>1, <2>6, FS_RemoveElement
    <2>8. Cardinality(kept \ {first}) \in Nat
      BY <2>7, FS_CardinalityType
    <2> QED
      BY <1>1, <2>1, <2>7, <2>8
  <1> QED
    BY <1>2, <1>3

(* A grant that begins has one token.                                      *)
LEMMA ExchangeLimits ==
    ASSUME OAuthTyped, NEW w \in Workers, O!ExchangeCode(w) PROVE LimitsKept'
  <1> DEFINE now == busy[w].now
             room == O!Room(O!KeptGrants(now))
             new == issued + 1
  <1>1. /\ grants' = room \cup {new} /\ family' = [family EXCEPT ![new] = new]
        /\ tokens' = [i \in O!Issues |->
               IF i = new THEN "unused"
               ELSE IF family[i] \in room THEN O!KeptTokens(now)[i] ELSE "none"]
        /\ waiting' = waiting /\ issued < MaxIssues
        /\ O!Cardinality(O!Active(O!KeptGrants(now))) < MaxGrants
    BY DEF O!ExchangeCode
  <1>2. /\ \A i \in O!Issues : O!KeptTokens(now)[i] # "none" => tokens[i] # "none"
        /\ O!KeptGrants(now) \subseteq grants
    BY PrunedRows
  <1>3. /\ new \in O!Issues /\ new > issued
        /\ \A i \in O!Issues : family[i] # new
        /\ family \in [O!Issues -> 0..issued]
    <2>1. issued \in Nat /\ MaxIssues \in Nat /\ issued < MaxIssues
      BY <1>1, StoresConstants DEF OAuthTyped, OAuthInv, Forms
    <2>2. new \in O!Issues /\ new > issued
      BY <2>1 DEF O!Issues
    <2>3. family \in [O!Issues -> 0..issued]
      BY DEF OAuthTyped, OAuthInv, Forms
    <2>4. \A n \in 0..issued : n # new
      BY <2>1
    <2> QED
      BY <2>2, <2>3, <2>4
  <1>4. IsFiniteSet(room) /\ Cardinality(room) \in Nat /\ Cardinality(room) < MaxGrants
    BY <1>1, <1>2, RoomForOne, SameCardinality
  <1> HIDE DEF now, room, new
  <1>5. Cardinality(grants') <= MaxGrants
    <2>1. Cardinality(room \cup {new}) \in {Cardinality(room), Cardinality(room) + 1}
      BY <1>4, FS_AddElement
    <2> QED
      BY <1>1, <1>4, <2>1, StoresConstants
  <1>6. ASSUME NEW g \in O!Issues PROVE Cardinality(Rows(g)') <= MaxFamily
    <2>1. CASE g = new
      <3>1. Rows(g)' = {new}
        BY <1>1, <1>3, <2>1 DEF Rows
      <3>2. Cardinality({new}) = 1
        BY FS_Singleton
      <3> QED
        BY <3>1, <3>2, StoresConstants
    <2>2. CASE g # new
      <3>1. Rows(g)' \subseteq Rows(g) /\ Rows(g) \subseteq O!Issues
        BY <1>1, <1>2, <1>3, <2>2 DEF Rows
      <3>2. IsFiniteSet(Rows(g))
        BY <3>1, StoreIsFinite, FS_Subset DEF OAuthTyped
      <3>3. Cardinality(Rows(g)') <= Cardinality(Rows(g)) /\ Cardinality(Rows(g)') \in Nat
            /\ Cardinality(Rows(g)) \in Nat
        BY <3>1, <3>2, PartIsSmaller
      <3> QED
        BY <3>3, StoresConstants DEF OAuthTyped, LimitsKept
    <2> QED
      BY <2>1, <2>2
  <1> QED
    BY <1>1, <1>5, <1>6 DEF OAuthTyped, LimitsKept

(* A family below its limit has room for the next token.                   *)
LEMMA RotateLimits ==
    ASSUME OAuthTyped, NEW w \in Workers, O!Rotate(w) PROVE LimitsKept'
  <1> DEFINE now == busy[w].now
             old == busy[w].arg
             g == family[old]
             new == issued + 1
             kept == {i \in O!Issues : family[i] = g /\ O!Kept(i, now)}
  <1>1. /\ grants' = O!KeptGrants(now) /\ family' = [family EXCEPT ![new] = g]
        /\ tokens' = [O!KeptTokens(now) EXCEPT ![old] = "used", ![new] = "unused"]
        /\ waiting' = waiting /\ issued < MaxIssues
        /\ O!Cardinality(kept) < MaxFamily /\ O!Kept(old, now)
        /\ busy[w].op = "rotate"
    BY DEF O!Rotate, O!Finds
  <1>2. /\ \A i \in O!Issues : O!KeptTokens(now)[i] # "none" => tokens[i] # "none" /\ O!Kept(i, now)
        /\ O!KeptGrants(now) \subseteq grants
        /\ O!KeptTokens(now) \in [O!Issues -> {"none", "unused", "used"}]
    BY DEF OAuthTyped, OAuthInv, Forms, O!KeptTokens, O!KeptGrants, O!Kept
  <1>3. /\ new \in O!Issues /\ new > issued /\ family[new] = 0
        /\ old \in O!Issues /\ family \in [O!Issues -> 0..issued] /\ tokens[old] # "none"
    <2>1. issued \in Nat /\ MaxIssues \in Nat /\ issued < MaxIssues /\ issued <= MaxIssues
      BY <1>1, StoresConstants DEF OAuthTyped, OAuthInv, Forms
    <2>2. new \in O!Issues /\ new > issued
      BY <2>1 DEF O!Issues
    <2>3. family \in [O!Issues -> 0..issued]
      BY DEF OAuthTyped, OAuthInv, Forms
    <2>4. family[new] = 0
      BY <2>2 DEF OAuthTyped, OAuthInv, Unissued
    <2>5. old \in 1..issued
      BY <1>1 DEF OAuthTyped, OAuthInv, Threads
    <2>6. old \in O!Issues
      BY <2>1, <2>5 DEF O!Issues
    <2> QED
      BY <1>1, <2>2, <2>3, <2>4, <2>6 DEF O!Kept
  <1>4. /\ Cardinality(grants') \in Nat /\ Cardinality(grants) \in Nat
        /\ Cardinality(grants') <= Cardinality(grants)
    BY <1>1, <1>2, StoreIsFinite, PartIsSmaller DEF OAuthTyped
  <1>5. Cardinality(grants') <= MaxGrants
    BY <1>4, StoresConstants DEF OAuthTyped, LimitsKept
  <1>6. kept \subseteq O!Issues /\ Cardinality(kept) < MaxFamily
    BY <1>1, SameCardinality
  <1>7. IsFiniteSet(kept) /\ Cardinality(kept) \in Nat
    BY <1>6, StoreIsFinite, PartIsSmaller DEF OAuthTyped
  <1>8. old \in kept
    BY <1>1, <1>3
  <1>9. ASSUME NEW h \in O!Issues, h = g PROVE Rows(h)' \subseteq kept \cup {new}
    BY <1>1, <1>2, <1>3, <1>8, <1>9 DEF Rows
  <1>10. ASSUME NEW h \in O!Issues, h # g PROVE Rows(h)' \subseteq Rows(h)
    BY <1>1, <1>2, <1>3, <1>10 DEF Rows
  <1> HIDE DEF kept, new, old, now, g
  <1>11. ASSUME NEW h \in O!Issues PROVE Cardinality(Rows(h)') <= MaxFamily
    <2>1. CASE h = g
      <3>1. /\ IsFiniteSet(kept \cup {new})
            /\ Cardinality(kept \cup {new}) \in {Cardinality(kept), Cardinality(kept) + 1}
        BY <1>7, FS_AddElement
      <3>2. /\ Cardinality(Rows(h)') \in Nat /\ Cardinality(kept \cup {new}) \in Nat
            /\ Cardinality(Rows(h)') <= Cardinality(kept \cup {new})
        BY <1>9, <2>1, <3>1, PartIsSmaller
      <3> QED
        BY <1>6, <1>7, <3>1, <3>2, StoresConstants
    <2>2. CASE h # g
      <3>1. Rows(h) \subseteq O!Issues
        BY DEF Rows
      <3>2. IsFiniteSet(Rows(h))
        BY <3>1, StoreIsFinite, FS_Subset DEF OAuthTyped
      <3>3. Cardinality(Rows(h)') <= Cardinality(Rows(h)) /\ Cardinality(Rows(h)') \in Nat
            /\ Cardinality(Rows(h)) \in Nat
        BY <1>10, <2>2, <3>2, PartIsSmaller
      <3> QED
        BY <3>3, StoresConstants DEF OAuthTyped, LimitsKept
    <2> QED
      BY <2>1, <2>2
  <1> QED
    BY <1>1, <1>5, <1>11 DEF OAuthTyped, LimitsKept

(* The limits hold after every step.                                       *)
LEMMA LimitsStep ==
    ASSUME OAuthTyped, O!Next \/ UNCHANGED O!auth_vars PROVE LimitsKept'
  <1>1. CASE UNCHANGED O!auth_vars
    BY <1>1, LimitsShrink DEF O!auth_vars, O!store
  <1>2. CASE O!Tick
    BY <1>2, LimitsShrink DEF O!Tick, O!store
  <1>3. CASE O!Authorize
    BY <1>3, AuthorizeLimits
  <1>4. CASE O!RevokeAll
    <2>1. \A i \in O!Issues : tokens'[i] = "none"
      BY <1>4 DEF O!RevokeAll
    <2> QED
      BY <1>4, <2>1, LimitsShrink DEF O!RevokeAll
  <1>5. ASSUME NEW w \in Workers, NEW a \in O!Authorizations, NEW approve \in BOOLEAN,
               O!Decide(w, a, approve)
        PROVE  LimitsKept'
    BY <1>5, LimitsShrink DEF O!Decide, O!store
  <1>6. ASSUME NEW w \in Workers, NEW op, NEW arg, O!Receive(w, op, arg) PROVE LimitsKept'
    BY <1>6, LimitsShrink DEF O!Receive, O!store
  <1>7. ASSUME NEW w \in Workers, O!Refuse(w) PROVE LimitsKept'
    BY <1>7, LimitsShrink DEF O!Refuse, O!store
  <1>8. ASSUME NEW w \in Workers, O!InsertCode(w) PROVE LimitsKept'
    BY <1>8, LimitsShrink, PrunedRows DEF O!InsertCode
  <1>9. ASSUME NEW w \in Workers, O!RotateReused(w) PROVE LimitsKept'
    <2>1. \A i \in O!Issues : tokens'[i] # "none" => tokens[i] # "none"
      BY <1>9, PrunedRows DEF O!RotateReused
    <2> QED
      BY <1>9, <2>1, LimitsShrink, PrunedRows DEF O!RotateReused
  <1>10. ASSUME NEW w \in Workers, O!Revoke(w) PROVE LimitsKept'
    <2>1. \A i \in O!Issues : tokens'[i] # "none" => tokens[i] # "none"
      BY <1>10 DEF O!Revoke
    <2> QED
      BY <1>10, <2>1, LimitsShrink DEF O!Revoke
  <1> QED
    BY <1>1, <1>2, <1>3, <1>4, <1>5, <1>6, <1>7, <1>8, <1>9, <1>10, ExchangeLimits, RotateLimits
       DEF O!Next

(* Times stay within the clock's bound and the longest lifetime.           *)
LEMMA TimesStep ==
    ASSUME OAuthTyped, O!Next \/ UNCHANGED O!auth_vars PROVE TimesBounded'
  <1>0. /\ clock \in Nat /\ MaxClock \in Nat /\ CodeTtl \in Nat /\ AccessTtl \in Nat
        /\ RefreshTtl \in Nat /\ CodeTtl <= RefreshTtl /\ AccessTtl <= RefreshTtl
        /\ MaxAuthorizations \in Nat /\ MaxIssues \in Nat
        /\ codes \in [O!Authorizations -> Nat] /\ access \in [O!Issues -> Nat]
        /\ expires \in [O!Issues -> Nat] /\ revoked_at \in [O!Issues -> Nat]
        /\ busy \in [Workers -> [op : {"free", "insert", "exchange", "rotate", "revoke"},
                                 arg : Nat, now : Nat]]
    BY StoresConstants DEF OAuthTyped, OAuthInv, Forms, Threads
  <1>1. /\ clock <= MaxClock
        /\ \A a \in O!Authorizations : codes[a] <= MaxClock + RefreshTtl
        /\ \A i \in O!Issues : /\ access[i] <= MaxClock + RefreshTtl
                               /\ expires[i] <= MaxClock + RefreshTtl
                               /\ revoked_at[i] <= MaxClock
        /\ \A w \in Workers : /\ busy[w].now <= MaxClock
                               /\ busy[w].arg <= MaxAuthorizations + MaxIssues
    BY DEF OAuthTyped, TimesBounded
  <1>2. ASSUME NEW now \in Nat
        PROVE  /\ \A a \in O!Authorizations : O!KeptCodes(now)[a] <= MaxClock + RefreshTtl
               /\ \A i \in O!Issues : O!KeptAccess(now)[i] <= MaxClock + RefreshTtl
               /\ DOMAIN O!KeptCodes(now) = O!Authorizations
    BY <1>0, <1>1 DEF O!KeptCodes, O!KeptAccess, O!Fresh
  <1>3. \A n \in Nat : n <= MaxClock =>
            /\ n + CodeTtl <= MaxClock + RefreshTtl /\ n + AccessTtl <= MaxClock + RefreshTtl
            /\ n + RefreshTtl <= MaxClock + RefreshTtl
    BY <1>0
  <1>4. ASSUME NEW w \in Workers, O!Done(w)
        PROVE  \A v \in Workers : /\ busy'[v].now <= MaxClock
                                  /\ busy'[v].arg <= MaxAuthorizations + MaxIssues
    BY <1>0, <1>1, <1>4 DEF O!Done, O!Free
  <1>5. CASE UNCHANGED O!auth_vars
    BY <1>1, <1>5 DEF O!auth_vars, O!store, TimesBounded
  <1>6. CASE O!Tick
    BY <1>0, <1>1, <1>6 DEF O!Tick, O!store, TimesBounded
  <1>7. CASE O!Authorize
    BY <1>1, <1>7 DEF O!Authorize, O!store, TimesBounded
  <1>8. CASE O!RevokeAll
    BY <1>0, <1>1, <1>8 DEF O!RevokeAll, TimesBounded
  <1>9. ASSUME NEW w \in Workers, NEW op, NEW arg \in Nat, arg <= MaxAuthorizations + MaxIssues,
               busy' = [busy EXCEPT ![w] = [op |-> op, arg |-> arg, now |-> clock]]
        PROVE  \A v \in Workers : /\ busy'[v].now <= MaxClock
                                  /\ busy'[v].arg <= MaxAuthorizations + MaxIssues
    BY <1>0, <1>1, <1>9
  <1>10. ASSUME NEW w \in Workers, NEW a \in O!Authorizations, NEW approve \in BOOLEAN,
                O!Decide(w, a, approve)
         PROVE  TimesBounded'
    <2>1. a \in Nat /\ a <= MaxAuthorizations + MaxIssues
      BY <1>0 DEF O!Authorizations
    <2>2. \A v \in Workers : /\ busy'[v].now <= MaxClock
                             /\ busy'[v].arg <= MaxAuthorizations + MaxIssues
      BY <1>1, <1>9, <1>10, <2>1 DEF O!Decide
    <2> QED
      BY <1>1, <1>10, <2>2 DEF O!Decide, O!store, TimesBounded
  <1>11. ASSUME NEW w \in Workers, NEW op, NEW arg \in Nat, arg <= MaxAuthorizations + MaxIssues,
                O!Receive(w, op, arg)
         PROVE  TimesBounded'
    <2>1. \A v \in Workers : /\ busy'[v].now <= MaxClock
                             /\ busy'[v].arg <= MaxAuthorizations + MaxIssues
      BY <1>9, <1>11 DEF O!Receive
    <2> QED
      BY <1>1, <1>11, <2>1 DEF O!Receive, O!store, TimesBounded
  <1>12. ASSUME NEW w \in Workers, O!Refuse(w) PROVE TimesBounded'
    BY <1>1, <1>4, <1>12 DEF O!Refuse, O!store, TimesBounded
  <1>13. ASSUME NEW w \in Workers PROVE busy[w].now \in Nat /\ busy[w].now <= MaxClock
    BY <1>0, <1>1
  <1>14. ASSUME NEW w \in Workers, O!InsertCode(w) PROVE TimesBounded'
    <2>1. \A a \in O!Authorizations : codes'[a] <= MaxClock + RefreshTtl
      BY <1>2, <1>3, <1>13, <1>14 DEF O!InsertCode
    <2>2. \A i \in O!Issues : access'[i] <= MaxClock + RefreshTtl
      BY <1>2, <1>13, <1>14 DEF O!InsertCode
    <2> QED
      BY <1>1, <1>4, <1>14, <2>1, <2>2 DEF O!InsertCode, TimesBounded
  <1>15. ASSUME NEW w \in Workers, O!ExchangeCode(w) PROVE TimesBounded'
    <2>1. \A a \in O!Authorizations : codes'[a] <= MaxClock + RefreshTtl
      BY <1>0, <1>2, <1>13, <1>15 DEF O!ExchangeCode, O!Spent
    <2>2. \A i \in O!Issues : access'[i] <= MaxClock + RefreshTtl
      BY <1>0, <1>2, <1>3, <1>13, <1>15 DEF O!ExchangeCode
    <2>3. \A i \in O!Issues : expires'[i] <= MaxClock + RefreshTtl
      BY <1>0, <1>1, <1>3, <1>13, <1>15 DEF O!ExchangeCode
    <2> QED
      BY <1>1, <1>4, <1>15, <2>1, <2>2, <2>3 DEF O!ExchangeCode, TimesBounded
  <1>16. ASSUME NEW w \in Workers, O!Rotate(w) PROVE TimesBounded'
    <2>1. \A a \in O!Authorizations : codes'[a] <= MaxClock + RefreshTtl
      BY <1>2, <1>13, <1>16 DEF O!Rotate
    <2>2. \A i \in O!Issues : access'[i] <= MaxClock + RefreshTtl
      BY <1>0, <1>2, <1>3, <1>13, <1>16 DEF O!Rotate
    <2>3. \A i \in O!Issues : expires'[i] <= MaxClock + RefreshTtl
      BY <1>0, <1>1, <1>3, <1>13, <1>16 DEF O!Rotate
    <2> QED
      BY <1>1, <1>4, <1>16, <2>1, <2>2, <2>3 DEF O!Rotate, TimesBounded
  <1>17. ASSUME NEW w \in Workers, O!RotateReused(w) PROVE TimesBounded'
    <2>1. \A a \in O!Authorizations : codes'[a] <= MaxClock + RefreshTtl
      BY <1>2, <1>13, <1>17 DEF O!RotateReused
    <2>2. \A i \in O!Issues : access'[i] <= MaxClock + RefreshTtl
      BY <1>0, <1>2, <1>13, <1>17 DEF O!RotateReused
    <2>3. \A i \in O!Issues : revoked_at'[i] <= MaxClock
      BY <1>0, <1>1, <1>13, <1>17 DEF O!RotateReused
    <2> QED
      BY <1>1, <1>4, <1>17, <2>1, <2>2, <2>3 DEF O!RotateReused, TimesBounded
  <1>18. ASSUME NEW w \in Workers, O!Revoke(w) PROVE TimesBounded'
    <2>1. \A i \in O!Issues : access'[i] <= MaxClock + RefreshTtl
      BY <1>0, <1>1, <1>18 DEF O!Revoke
    <2>2. \A i \in O!Issues : revoked_at'[i] <= MaxClock
      BY <1>0, <1>1, <1>18 DEF O!Revoke
    <2> QED
      BY <1>1, <1>4, <1>18, <2>1, <2>2 DEF O!Revoke, TimesBounded
  <1>19. /\ \A a \in 1..asked_for : a \in Nat /\ a <= MaxAuthorizations + MaxIssues
         /\ \A i \in 1..issued : i \in Nat /\ i <= MaxAuthorizations + MaxIssues
    BY <1>0 DEF OAuthTyped, OAuthInv, Forms
  <1> QED
    BY <1>5, <1>6, <1>7, <1>8, <1>10, <1>11, <1>12, <1>14, <1>15, <1>16, <1>17, <1>18, <1>19
       DEF O!Next

(* The limits of the OAuth server hold (insert_pending, exchange_code and  *)
(* rotate_refresh in src/mcp/oauth.rs): there are never more requests      *)
(* waiting than MAX_PENDING, more grants than MAX_GRANTS, or more refresh  *)
(* tokens of one grant than MAX_REFRESH_TOKENS_PER_FAMILY, and every value *)
(* is of its type.                                                         *)
THEOREM OAuthAlwaysTyped == StoresSpec => []O!TypeOK
  <1>1. StoresInit => OAuthTyped
    BY OAuthTypedInit
  <1>2. OAuthTyped /\ OAuthInv' /\ [StoresNext]_stores_vars => OAuthTyped'
    BY OAuthMove, LimitsStep, TimesStep DEF OAuthTyped
  <1>3. OAuthTyped => O!TypeOK
    BY OAuthTypedMeans
  <1> QED
    BY <1>1, <1>2, <1>3, OAuthInvariant, PTL DEF StoresSpec

-----------------------------------------------------------------------------
(* The types of all parts.                                                 *)

(* The checkpoint in MCStores is the checkpoint.                           *)
LEMMA CheckpointPartTyped == StoresSpec => []TypeOK
  <1>1. StoresInit => Init
    BY DEF StoresInit
  <1>2. [StoresNext]_stores_vars => [Next]_vars
    BY DEF StoresNext, stores_vars
  <1> QED
    BY <1>1, <1>2, CheckpointTyped, PTL DEF StoresSpec, Spec

(* The access token keeps its types.                                       *)
LEMMA SecretsPartTyped == StoresSpec => []W!TypeOK
  <1>1. StoresInit => SecretsInv
    BY SecretsInit
  <1>2. SecretsInv /\ [StoresNext]_stores_vars => SecretsInv'
    BY SecretsMove, SecretsStep
  <1>3. SecretsInv => W!TypeOK
    BY DEF SecretsInv
  <1> QED
    BY <1>1, <1>2, <1>3, PTL DEF StoresSpec

(* The daemon's files keep theirs.                                         *)
LEMMA DaemonPartTyped == StoresSpec => []R!TypeOK
  <1>1. StoresInit => DaemonInv
    BY DaemonInit
  <1>2. DaemonInv /\ [StoresNext]_stores_vars => DaemonInv'
    BY DaemonMove, DaemonStep
  <1>3. DaemonInv => R!TypeOK
    BY DEF DaemonInv
  <1> QED
    BY <1>1, <1>2, <1>3, PTL DEF StoresSpec

(* So do bounded reads.                                                    *)
LEMMA PagingPartTyped == ASSUME PagingInv PROVE P!TypeOK
  BY StoresConstants DEF PagingInv, PagingTyped, P!TypeOK, P!Batch, P!Places

(* The parts MCStores explores.                                            *)
Parts == {"checkpoint", "usage", "oauth", "secrets", "daemon", "tui", "memory", "paging"}

(* One part moves, and always the same.                                    *)
LEMMA OnePart == StoresSpec => [](which \in Parts)
  <1>1. StoresInit => which \in Parts
    BY DEF StoresInit, Parts
  <1>2. which \in Parts /\ [StoresNext]_stores_vars => (which \in Parts)'
    BY DEF StoresNext, stores_vars
  <1> QED
    BY <1>1, <1>2, PTL DEF StoresSpec

(* Every part keeps its types and bounds, whichever moves: counters stay   *)
(* within theirs, the queues of the terminal interface within their        *)
(* capacity, and the tables of the OAuth server within its limits.         *)
THEOREM StoresTyped == StoresSpec => []StoresTypeOK
  <1>1. MemoryInv => M!TypeOK
    BY DEF MemoryInv
  <1>2. PagingInv => P!TypeOK
    BY PagingPartTyped
  <1>3. /\ which \in Parts /\ TypeOK /\ U!TypeOK /\ O!TypeOK /\ W!TypeOK /\ R!TypeOK
        /\ T!TypeOK /\ M!TypeOK /\ P!TypeOK
        => StoresTypeOK
    BY DEF StoresTypeOK, Parts
  <1> QED
    BY <1>1, <1>2, <1>3, OnePart, CheckpointPartTyped, UsageAlwaysTyped, OAuthAlwaysTyped,
       SecretsPartTyped, DaemonPartTyped, TuiTypedInvariant, MemoryInvariant, PagingInvariant, PTL

=============================================================================
