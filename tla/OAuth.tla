-------------------------------- MODULE OAuth --------------------------------
(***************************************************************************)
(* The grants the MCP server gives to connectors: a request the owner      *)
(* approves becomes a code, the code a grant, and the grant an access      *)
(* token with a refresh token that is replaced at every use.  A refresh    *)
(* token that is presented again after its use ends the whole grant, so    *)
(* used ones are kept as evidence until they would have expired.           *)
(*                                                                         *)
(* Handlers run on several threads.  Each reads the clock and then waits   *)
(* for the database's write lock, so transactions may commit in another    *)
(* order than their times.  Requests and codes are known by the number of  *)
(* the authorization, tokens by the number of the issue, which makes an    *)
(* access token and a refresh token.  A form that does not carry the       *)
(* client, redirect and resource of its code or token is refused.          *)
(*                                                                         *)
(* Source: src/mcp/oauth.rs.                                               *)
(***************************************************************************)
EXTENDS Naturals, FiniteSets

CONSTANTS
    Workers,                         \* threads that serve requests
    CodeTtl, AccessTtl, RefreshTtl,  \* CODE_, ACCESS_, REFRESH_TTL_SECONDS
    MaxGrants,                       \* MAX_GRANTS
    MaxFamily,                       \* MAX_REFRESH_TOKENS_PER_FAMILY
    MaxPending,                      \* MAX_PENDING
    MaxAuthorizations,               \* bound: authorization requests
    MaxIssues,                       \* bound: tokens issued
    MaxClock                         \* bound: the clock

Authorizations == 1..MaxAuthorizations
Issues == 1..MaxIssues
Times == 0..(MaxClock + RefreshTtl)

VARIABLES
    clock,
    asked_for,   \* authorization requests made so far
    waiting,     \* PendingState.requests
    codes,       \* oauth_codes: the expiry of each code, 0 for no row
    grants,      \* oauth_grants, by the issue that began them
    revoked_at,  \* oauth_grants.revoked_at, 0 for null
    begun_by,      \* the authorization each grant came from, 0 before it began
    issued,      \* tokens issued so far
    family,      \* the grant of each issue
    access,      \* oauth_access_tokens: the expiry of each, 0 for no row
    expires,     \* the expiry each refresh token was given
    tokens,      \* oauth_refresh_tokens: none, unused or used
    uses,        \* how often each refresh token was taken, as first use or as reuse
    busy         \* what each thread is about to commit, with the time it read

store == <<codes, grants, revoked_at, begun_by, issued, family, access, expires, tokens, uses>>
auth_vars == <<clock, asked_for, waiting, store, busy>>

Free == [op |-> "free", arg |-> 0, now |-> 0]

Init ==
    /\ clock = 1 /\ asked_for = 0 /\ waiting = {}
    /\ codes = [a \in Authorizations |-> 0]
    /\ grants = {} /\ revoked_at = [i \in Issues |-> 0] /\ begun_by = [i \in Issues |-> 0]
    /\ issued = 0 /\ family = [i \in Issues |-> 0]
    /\ access = [i \in Issues |-> 0] /\ expires = [i \in Issues |-> 0]
    /\ tokens = [i \in Issues |-> "none"] /\ uses = [i \in Issues |-> 0]
    /\ busy = [w \in Workers |-> Free]

TypeOK ==
    /\ clock \in 1..MaxClock /\ asked_for \in 0..MaxAuthorizations
    /\ waiting \subseteq Authorizations /\ Cardinality(waiting) <= MaxPending
    /\ codes \in [Authorizations -> Times]
    /\ grants \subseteq Issues /\ Cardinality(grants) <= MaxGrants
    /\ revoked_at \in [Issues -> 0..MaxClock] /\ begun_by \in [Issues -> 0..MaxAuthorizations]
    /\ issued \in 0..MaxIssues /\ family \in [Issues -> 0..MaxIssues]
    /\ access \in [Issues -> Times] /\ expires \in [Issues -> Times]
    /\ tokens \in [Issues -> {"none", "unused", "used"}]
    /\ \A g \in Issues :
           Cardinality({i \in Issues : family[i] = g /\ tokens[i] # "none"}) <= MaxFamily
    /\ uses \in [Issues -> 0..2]
    /\ busy \in [Workers -> [op : {"free", "insert", "exchange", "rotate", "revoke"},
                             arg : 0..(MaxAuthorizations + MaxIssues), now : 0..MaxClock]]

Tick ==
    /\ clock < MaxClock /\ clock' = clock + 1
    /\ UNCHANGED <<asked_for, waiting, store, busy>>

-----------------------------------------------------------------------------
(* insert_pending: expired requests go, and the oldest when there are too  *)
(* many.  Their lifetime is longer than a code's and shorter than an       *)
(* access token's; that one expires at any time stands for both.           *)
Authorize ==
    /\ asked_for < MaxAuthorizations /\ asked_for' = asked_for + 1
    /\ \E expired \in SUBSET waiting :
           LET left == waiting \ expired
               room == IF Cardinality(left) >= MaxPending
                       THEN left \ {CHOOSE a \in left : \A b \in left : a <= b} ELSE left
           IN  waiting' = room \cup {asked_for + 1}
    /\ UNCHANGED <<clock, store, busy>>

(* authorize_post: the request is taken first, whatever comes of it; a     *)
(* denial ends there, an approval goes on to store a code.                 *)
Decide(w, a, approve) ==
    /\ busy[w] = Free /\ a \in waiting
    /\ waiting' = waiting \ {a}
    /\ busy' = IF approve
               THEN [busy EXCEPT ![w] = [op |-> "insert", arg |-> a, now |-> clock]]
               ELSE busy
    /\ UNCHANGED <<clock, asked_for, store>>

(* A form arrives and the clock is read; the transaction waits its turn.   *)
Receive(w, op, arg) ==
    /\ busy[w] = Free
    /\ busy' = [busy EXCEPT ![w] = [op |-> op, arg |-> arg, now |-> clock]]
    /\ UNCHANGED <<clock, asked_for, waiting, store>>

Done(w) == busy' = [busy EXCEPT ![w] = Free]

(* No permit, a locked database, a form that matches nothing or a limit:   *)
(* an error before the commit leaves everything, what was pruned included. *)
Refuse(w) ==
    /\ busy[w] # Free /\ Done(w)
    /\ UNCHANGED <<clock, asked_for, waiting, store>>

-----------------------------------------------------------------------------
(* A mutant of Kept: used refresh tokens are pruned at once.               *)
KeptUnused(i, now) == tokens[i] = "unused" /\ expires[i] > now

(* prune_database_tx, at the start of every handler's transaction: what a  *)
(* transaction at a time still finds ...                                   *)
Kept(i, now) == tokens[i] # "none" /\ expires[i] > now

Fresh(expiry, now) == IF expiry > now THEN expiry ELSE 0

KeptTokens(now) == [i \in Issues |-> IF Kept(i, now) THEN tokens[i] ELSE "none"]
KeptAccess(now) == [i \in Issues |-> Fresh(access[i], now)]
KeptCodes(now) == [a \in Authorizations |-> Fresh(codes[a], now)]

(* ... and which grants remain: not those revoked long ago, not those      *)
(* without any token.                                                      *)
KeptGrants(now) ==
    {g \in grants :
        /\ revoked_at[g] = 0 \/ revoked_at[g] + RefreshTtl > now
        /\ \E i \in Issues : family[i] = g /\ (KeptAccess(now)[i] # 0 \/ Kept(i, now))}

(* The code is stored.                                                     *)
InsertCode(w) ==
    LET now == busy[w].now
        open == {a \in Authorizations : KeptCodes(now)[a] # 0} IN
    /\ busy[w].op = "insert" /\ Cardinality(open) < MaxPending
    /\ codes' = [KeptCodes(now) EXCEPT ![busy[w].arg] = now + CodeTtl]
    /\ grants' = KeptGrants(now) /\ access' = KeptAccess(now) /\ tokens' = KeptTokens(now)
    /\ Done(w)
    /\ UNCHANGED <<clock, asked_for, waiting, revoked_at, begun_by, issued, family, expires,
                   uses>>

(* At the limit the grant revoked first makes room.                        *)
Room(kept) ==
    IF Cardinality(kept) < MaxGrants THEN kept
    ELSE LET out == {g \in kept : revoked_at[g] # 0} IN
         kept \ {CHOOSE g \in out : \A h \in out : revoked_at[g] <= revoked_at[h]}

Active(kept) == {g \in kept : revoked_at[g] = 0}

(* A mutant of Spent: the code stays.                                      *)
SpentNot(now, a) == KeptCodes(now)

Spent(now, a) == [KeptCodes(now) EXCEPT ![a] = 0]

(* exchange_code: the code is deleted in the transaction that makes the    *)
(* grant and its first tokens.                                             *)
ExchangeCode(w) ==
    LET now == busy[w].now
        a == busy[w].arg
        new == issued + 1
        room == Room(KeptGrants(now)) IN
    /\ busy[w].op = "exchange" /\ KeptCodes(now)[a] # 0
    /\ issued < MaxIssues /\ Cardinality(Active(KeptGrants(now))) < MaxGrants
    /\ codes' = Spent(now, a)
    /\ grants' = room \cup {new} /\ begun_by' = [begun_by EXCEPT ![new] = a]
    /\ issued' = new /\ family' = [family EXCEPT ![new] = new]
    /\ access' = [i \in Issues |->
           IF i = new THEN now + AccessTtl
           ELSE IF family[i] \in room THEN KeptAccess(now)[i] ELSE 0]
    /\ tokens' = [i \in Issues |->
           IF i = new THEN "unused"
           ELSE IF family[i] \in room THEN KeptTokens(now)[i] ELSE "none"]
    /\ expires' = [expires EXCEPT ![new] = now + RefreshTtl]
    /\ Done(w)
    /\ UNCHANGED <<clock, asked_for, waiting, revoked_at, uses>>

(* The token a refresh request finds, under a grant that is there.   *)
Finds(w) ==
    LET now == busy[w].now
        i == busy[w].arg IN
    /\ busy[w].op = "rotate"
    /\ Kept(i, now) /\ family[i] \in KeptGrants(now)

(* rotate_refresh: the old token is marked, the access token replaced and  *)
(* the next refresh token added.                                           *)
Rotate(w) ==
    LET now == busy[w].now
        old == busy[w].arg
        g == family[old]
        new == issued + 1 IN
    /\ Finds(w) /\ tokens[old] = "unused" /\ revoked_at[g] = 0
    /\ issued < MaxIssues
    /\ Cardinality({i \in Issues : family[i] = g /\ Kept(i, now)}) < MaxFamily
    /\ codes' = KeptCodes(now) /\ grants' = KeptGrants(now)
    /\ issued' = new /\ family' = [family EXCEPT ![new] = g]
    /\ access' = [i \in Issues |->
           IF i = new THEN now + AccessTtl
           ELSE IF family[i] = g THEN 0 ELSE KeptAccess(now)[i]]
    /\ tokens' = [KeptTokens(now) EXCEPT ![old] = "used", ![new] = "unused"]
    /\ expires' = [expires EXCEPT ![new] = now + RefreshTtl]
    /\ uses' = [uses EXCEPT ![old] = 1]
    /\ Done(w)
    /\ UNCHANGED <<clock, asked_for, waiting, revoked_at, begun_by>>

(* A mutant of RotateReused: the error is returned without a commit.       *)
RotateReusedUncommitted(w) ==
    /\ Finds(w) /\ tokens[busy[w].arg] = "used"
    /\ uses' = [uses EXCEPT ![busy[w].arg] = 2]
    /\ Done(w)
    /\ UNCHANGED <<clock, asked_for, waiting, codes, grants, revoked_at, begun_by, issued,
                   family, access, expires, tokens>>

(* A used token: the grant is revoked, its tokens deleted and the          *)
(* transaction committed before the error is returned.                     *)
RotateReused(w) ==
    LET now == busy[w].now
        g == family[busy[w].arg] IN
    /\ Finds(w) /\ tokens[busy[w].arg] = "used"
    /\ codes' = KeptCodes(now) /\ grants' = KeptGrants(now)
    /\ revoked_at' = [revoked_at EXCEPT ![g] = now]
    /\ access' = [i \in Issues |-> IF family[i] = g THEN 0 ELSE KeptAccess(now)[i]]
    /\ tokens' = [i \in Issues |-> IF family[i] = g THEN "none" ELSE KeptTokens(now)[i]]
    /\ uses' = [uses EXCEPT ![busy[w].arg] = 2]
    /\ Done(w)
    /\ UNCHANGED <<clock, asked_for, waiting, begun_by, issued, family, expires>>

(* revoke, by either token of an issue; nothing is pruned.  The time is    *)
(* read inside the transaction.                                            *)
Revoke(w) ==
    LET i == busy[w].arg
        g == family[i] IN
    /\ busy[w].op = "revoke"
    /\ g \in grants /\ (access[i] # 0 \/ tokens[i] # "none")
    /\ revoked_at' = [revoked_at EXCEPT ![g] = clock]
    /\ access' = [j \in Issues |-> IF family[j] = g THEN 0 ELSE access[j]]
    /\ tokens' = [j \in Issues |-> IF family[j] = g THEN "none" ELSE tokens[j]]
    /\ Done(w)
    /\ UNCHANGED <<clock, asked_for, waiting, codes, grants, begun_by, issued, family, expires,
                   uses>>

(* revoke_all, from the command line.                                      *)
RevokeAll ==
    /\ grants # {}
    /\ revoked_at' = [g \in Issues |->
           IF g \in grants /\ revoked_at[g] = 0 THEN clock ELSE revoked_at[g]]
    /\ access' = [i \in Issues |-> 0] /\ tokens' = [i \in Issues |-> "none"]
    /\ codes' = [a \in Authorizations |-> 0]
    /\ UNCHANGED <<clock, asked_for, waiting, grants, begun_by, issued, family, expires, uses,
                   busy>>

Next ==
    \/ Tick \/ Authorize \/ RevokeAll
    \/ \E w \in Workers :
           \/ \E a \in Authorizations, approve \in BOOLEAN : Decide(w, a, approve)
           \/ \E a \in 1..asked_for : Receive(w, "exchange", a)
           \/ \E i \in 1..issued, op \in {"rotate", "revoke"} : Receive(w, op, i)
           \/ Refuse(w) \/ InsertCode(w) \/ ExchangeCode(w)
           \/ Rotate(w) \/ RotateReused(w) \/ Revoke(w)

Spec == Init /\ [][Next]_auth_vars

-----------------------------------------------------------------------------
Live(g) == g \in grants /\ revoked_at[g] = 0

(* authorize_access: the token's row has not expired and its grant stands. *)
Authorized(i) == access[i] > clock /\ Live(family[i])

(* Whichever of two threads comes first, a code begins one grant, and a    *)
(* grant has one access token that works and one refresh token that can    *)
(* still be used.                                                          *)
OneLine ==
    \A i, j \in 1..issued : i # j =>
        /\ begun_by[i] # 0 => begun_by[i] # begun_by[j]
        /\ family[i] = family[j] =>
               /\ ~(Authorized(i) /\ Authorized(j))
               /\ ~(tokens[i] = "unused" /\ tokens[j] = "unused")

(* A refresh token that was presented again after its use has ended its    *)
(* grant: no token of the family works from then on.                       *)
ReuseRevokes ==
    \A i \in 1..issued : uses[i] = 2 =>
        \A j \in 1..issued : family[j] = family[i] => ~Authorized(j) /\ tokens[j] = "none"

(* The evidence is there for as long as the token would have been valid:   *)
(* neither pruning, whatever its time, nor the limits drop a used refresh  *)
(* token of a grant that still works.                                      *)
EvidenceKept ==
    \A i \in 1..issued :
        uses[i] = 1 /\ expires[i] > clock /\ Live(family[i]) => tokens[i] = "used"

=============================================================================
