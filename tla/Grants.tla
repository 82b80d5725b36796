-------------------------------- MODULE Grants --------------------------------
(***************************************************************************)
(* Access on somebody's behalf: authorization codes, personal access       *)
(* tokens (PATs) and refresh tokens: routes/oauth.js, routes/tokens.js and *)
(* lib/personalAccessTokens.js.  The handlers are synchronous, so one runs *)
(* at a time, but their statements are separate autocommits: the process   *)
(* may be killed between any two, and a restart finds what was committed.  *)
(* Each statement is an action; `job` is what the running handler still    *)
(* has to do.                                                              *)
(*                                                                         *)
(* A request that names a wrong client, redirect address, verifier or      *)
(* token is refused without a write and is not an action.  The expiry of a *)
(* PAT is left out: an expired one is refused at the door and can still be *)
(* rotated, revoked or deleted like any other.                             *)
(***************************************************************************)
EXTENDS Naturals

CONSTANTS
  NULL,
  Users,
  Codes,        \* bound: authorization codes ever issued
  Pats,         \* bound: personal access tokens ever minted
  RefreshIds    \* bound: refresh tokens ever minted

ASSUME NullIsNoToken == NULL \notin Users \cup Codes \cup Pats \cup RefreshIds
ASSUME TokensDiffer == Pats \cap RefreshIds = {}

VARIABLES
  accounts,     \* users: account -> "active", "inactive" or NULL
  codes,        \* oauth_authorization_codes: code -> row or NULL
  pats,         \* personal_access_tokens: token -> row or NULL
  refresh,      \* oauth_refresh_tokens: token -> row or NULL
  job           \* what the running handler has left to do, or NULL

vars == <<accounts, codes, pats, refresh, job>>

\* `over`: past expires_at, or gone with its account.
CodeRow == [user : Users, used : BOOLEAN, over : BOOLEAN]

\* A row that cascaded away with its account is kept as "deleted", since ids
\* are never reused.  `auth` is the authorization code a token descends from,
\* NULL for a token created by hand.
PatRow == [user : Users, auth : Codes \cup {NULL}, state : {"live", "revoked", "deleted"}]
RefreshRow == [user : Users, auth : Codes, pat : Pats, state : {"live", "revoked", "deleted"}]

\* `pat` is the access token to revoke or to pair.
Job == [todo : {"retire", "mint", "pair", "unpair"},
        user : Users, auth : Codes \cup {NULL}, pat : Pats \cup {NULL}]

ASSUME NullIsNoTokenRow ==
  NULL \notin CodeRow /\ NULL \notin PatRow /\ NULL \notin RefreshRow /\ NULL \notin Job

\* Every row has its columns; a handler in progress knows the account and the
\* tokens it works on.
TypeOK ==
  /\ accounts \in [Users -> {"active", "inactive", NULL}]
  /\ codes \in [Codes -> CodeRow \cup {NULL}]
  /\ pats \in [Pats -> PatRow \cup {NULL}]
  /\ refresh \in [RefreshIds -> RefreshRow \cup {NULL}]
  /\ job \in Job \cup {NULL}

Init ==
  /\ accounts = [u \in Users |-> NULL]
  /\ codes = [c \in Codes |-> NULL]
  /\ pats = [p \in Pats |-> NULL]
  /\ refresh = [r \in RefreshIds |-> NULL]
  /\ job = NULL

------------------------------------------------------------------------------
(* Queries.                                                                *)

Idle == job = NULL
Active(u) == accounts[u] = "active"

\* Before minting, the account is read again.
MayMint(u) == Active(u)

\* What is left to do.  A name that ends in a suffix after an underscore is a
\* deliberately wrong variant of the definition after it.
Todo(todo, u, auth, p) == [todo |-> todo, user |-> u, auth |-> auth, pat |-> p]

Live(row) == row # NULL /\ row.state = "live"
LivePats(c) == {p \in Pats : Live(pats[p]) /\ pats[p].auth = c}
LiveRefresh(c) == {r \in RefreshIds : Live(refresh[r]) /\ refresh[r].auth = c}

\* A code can be redeemed once, before it expires.
Redeemable_Again(c) == codes[c] # NULL /\ ~codes[c].over
Redeemable(c) == codes[c] # NULL /\ ~codes[c].over /\ ~codes[c].used

Revoked(row) == [row EXCEPT !.state = "revoked"]

\* What a refresh token leaves behind when it is used: both halves of its pair
\* are to be retired before the new pair is minted.
AfterUse_Minting(row) == Todo("mint", row.user, row.auth, NULL)
AfterUse(row) == Todo("retire", row.user, row.auth, row.pat)

\* "AND revoked_at IS NULL": only a live row changes.
IfLive(row) == IF Live(row) THEN Revoked(row) ELSE row

------------------------------------------------------------------------------
(* Accounts, as Tenancy describes them.                                    *)

Register(u) ==
  /\ Idle /\ accounts[u] = NULL
  /\ accounts' = [accounts EXCEPT ![u] = "active"]
  /\ UNCHANGED <<codes, pats, refresh, job>>

\* PATCH /admin/users/:id: no token is touched.
SetActive(u, state) ==
  /\ Idle /\ accounts[u] # NULL
  /\ accounts' = [accounts EXCEPT ![u] = state]
  /\ UNCHANGED <<codes, pats, refresh, job>>

\* DELETE /admin/users/:id: one statement, and everything of the account cascades.
Gone(row, u) == IF row # NULL /\ row.user = u THEN [row EXCEPT !.state = "deleted"] ELSE row

DeleteAccount(u) ==
  /\ Idle /\ accounts[u] # NULL
  /\ accounts' = [accounts EXCEPT ![u] = NULL]
  /\ codes' = [c \in Codes |-> IF codes[c] # NULL /\ codes[c].user = u
                               THEN [codes[c] EXCEPT !.over = TRUE] ELSE codes[c]]
  /\ pats' = [p \in Pats |-> Gone(pats[p], u)]
  /\ refresh' = [r \in RefreshIds |-> Gone(refresh[r], u)]
  /\ UNCHANGED job

------------------------------------------------------------------------------
(* The handlers, statement by statement.                                   *)

\* POST /oauth/authorize, "Allow": a fresh code for the signed-in person.
Consent(u, c) ==
  /\ Idle /\ Active(u) /\ codes[c] = NULL
  /\ codes' = [codes EXCEPT ![c] = [user |-> u, used |-> FALSE, over |-> FALSE]]
  /\ UNCHANGED <<accounts, pats, refresh, job>>

ExpireCode(c) ==
  /\ Idle /\ codes[c] # NULL /\ ~codes[c].over
  /\ codes' = [codes EXCEPT ![c].over = TRUE]
  /\ UNCHANGED <<accounts, pats, refresh, job>>

\* POST /oauth/token, authorization_code: the code is marked used first; then,
\* for an active account, a pair is minted.
Redeem(c) ==
  /\ Idle /\ Redeemable(c)
  /\ codes' = [codes EXCEPT ![c].used = TRUE]
  /\ job' = IF MayMint(codes[c].user) THEN Todo("mint", codes[c].user, c, NULL) ELSE NULL
  /\ UNCHANGED <<accounts, pats, refresh>>

\* POST /oauth/token, refresh_token: the token is revoked first.
Exchange(r) ==
  /\ Idle /\ Live(refresh[r]) /\ MayMint(refresh[r].user)
  /\ refresh' = [refresh EXCEPT ![r] = Revoked(@)]
  /\ job' = AfterUse(refresh[r])
  /\ UNCHANGED <<accounts, codes, pats>>

\* ... then the access token it is paired with ...
RetireAccess ==
  /\ ~Idle /\ job.todo = "retire"
  /\ pats' = [pats EXCEPT ![job.pat] = IfLive(@)]
  /\ job' = Todo("mint", job.user, job.auth, NULL)
  /\ UNCHANGED <<accounts, codes, refresh>>

\* issueTokenPair: the access token is inserted ...
MintAccess(p) ==
  /\ ~Idle /\ job.todo = "mint" /\ pats[p] = NULL
  /\ pats' = [pats EXCEPT ![p] = [user |-> job.user, auth |-> job.auth, state |-> "live"]]
  /\ job' = Todo("pair", job.user, job.auth, p)
  /\ UNCHANGED <<accounts, codes, refresh>>

\* ... and then its refresh token; the response hands out both.
MintRefresh(r) ==
  /\ ~Idle /\ job.todo = "pair" /\ refresh[r] = NULL
  /\ refresh' = [refresh EXCEPT
       ![r] = [user |-> job.user, auth |-> job.auth, pat |-> job.pat, state |-> "live"]]
  /\ job' = NULL
  /\ UNCHANGED <<accounts, codes, pats>>

\* POST /tokens: a token created by hand.
CreateToken(u, p) ==
  /\ Idle /\ Active(u) /\ pats[p] = NULL
  /\ pats' = [pats EXCEPT ![p] = [user |-> u, auth |-> NULL, state |-> "live"]]
  /\ UNCHANGED <<accounts, codes, refresh, job>>

\* DELETE /tokens/:id by its owner: the access token is revoked first; nothing
\* happens to one that is revoked already.
RevokeToken(p) ==
  /\ Idle /\ Live(pats[p]) /\ Active(pats[p].user)
  /\ pats' = [pats EXCEPT ![p] = Revoked(@)]
  /\ job' = Todo("unpair", pats[p].user, pats[p].auth, p)
  /\ UNCHANGED <<accounts, codes, refresh>>

\* ... then the refresh tokens paired with it.
RevokePaired ==
  /\ ~Idle /\ job.todo = "unpair"
  /\ refresh' = [r \in RefreshIds |->
       IF refresh[r] # NULL /\ refresh[r].pat = job.pat THEN IfLive(refresh[r]) ELSE refresh[r]]
  /\ job' = NULL
  /\ UNCHANGED <<accounts, codes, pats>>

\* The process is killed in the middle of a handler and started again.
Crash ==
  /\ ~Idle
  /\ job' = NULL
  /\ UNCHANGED <<accounts, codes, pats, refresh>>

------------------------------------------------------------------------------

AccountSteps ==
  \E u \in Users :
    Register(u) \/ DeleteAccount(u) \/ \E state \in {"active", "inactive"} : SetActive(u, state)

CodeSteps ==
  \E c \in Codes : ExpireCode(c) \/ Redeem(c) \/ \E u \in Users : Consent(u, c)

TokenSteps ==
  \/ \E p \in Pats : MintAccess(p) \/ RevokeToken(p) \/ \E u \in Users : CreateToken(u, p)
  \/ \E r \in RefreshIds : Exchange(r) \/ MintRefresh(r)
  \/ RetireAccess \/ RevokePaired

Next == AccountSteps \/ CodeSteps \/ TokenSteps \/ Crash

Spec == Init /\ [][Next]_vars

------------------------------------------------------------------------------
(* Properties.                                                             *)

\* One "Allow" click never gives the connector two live access tokens or two
\* live refresh tokens, wherever the process is killed while a pair is
\* exchanged for the next (oauth.js: "both retired the instant they're used,
\* then a fresh pair is minted").
OneLivePair ==
  \A c \in Codes :
    /\ \A p, q \in LivePats(c) : p = q
    /\ \A r, s \in LiveRefresh(c) : r = s

\* The refresh token of an authorization renews the access token it holds, and
\* is never left renewing an older one while a newer is live.
RefreshRenewsItsPair ==
  \A c \in Codes : \A r \in LiveRefresh(c) :
    /\ refresh[r].user = codes[c].user
    /\ \A p \in LivePats(c) : refresh[r].pat = p

\* A token is minted only for an account that exists and is active then.
MintedForActive ==
  [][ /\ \A p \in Pats : pats[p] = NULL /\ pats'[p] # NULL => accounts[pats'[p].user] = "active"
      /\ \A r \in RefreshIds : refresh[r] = NULL /\ refresh'[r] # NULL =>
           accounts[refresh'[r].user] = "active" ]_vars

\* The tokens a connector holds, as Authorization sees them.
Authorized == INSTANCE Authorization WITH
  Auths <- Codes,
  Tokens <- Pats \cup RefreshIds,
  opened <- {c \in Codes : codes[c] # NULL /\ codes[c].used},
  access <- [c \in Codes |-> LivePats(c)],
  refresh <- [c \in Codes |-> LiveRefresh(c)],
  retired <- {p \in Pats : pats[p] # NULL /\ pats[p].auth # NULL /\ ~Live(pats[p])}
               \cup {r \in RefreshIds : refresh[r] # NULL /\ ~Live(refresh[r])}

\* Every step of the server, a kill between two statements included, is a step
\* of Authorization or changes nothing it sees.
ImplementsAuthorization == Authorized!Spec

\* Revoking a token also kills the refresh token it is paired with,
\* "otherwise the connector could just silently refresh its way to a brand new
\* access token moments after the person thought they'd revoked access"
\* (tokens.js): between requests, no live refresh token is paired with a
\* revoked access token.
RevokedStaysRevoked ==
  Idle => \A r \in RefreshIds : Live(refresh[r]) => pats[refresh[r].pat].state # "revoked"
==============================================================================
