------------------------------- MODULE Sessions -------------------------------
(***************************************************************************)
(* Signing in: passwords, the second factor, sessions and e-mailed links:  *)
(* routes/auth.js with lib/sessions.js, lib/authTokens.js, lib/totp.js and *)
(* lib/credentials.js, and the sign-in form of the OAuth consent page.     *)
(*                                                                         *)
(* The handlers write before they await anything, so one runs at a time,   *)
(* but their statements are separate autocommits: `job` is what the        *)
(* running handler still has to do, and the process may be killed before   *)
(* any of it.  `pending` is a Map in memory, and lost with the process.    *)
(*                                                                         *)
(* A request with a wrong password, code, link or cookie is refused        *)
(* without a write and is not an action.  The rate limits only refuse.     *)
(***************************************************************************)
EXTENDS Naturals, FiniteSets

CONSTANTS
  NULL,
  Users,
  SessionIds,   \* bound: sessions ever opened
  Links,        \* bound: links ever e-mailed
  Attempts,     \* bound: sign-ins that ever waited for a second factor
  Codes         \* bound: recovery codes ever generated

ASSUME FiniteLinks == IsFiniteSet(Links)
ASSUME NullIsNoCode == NULL \notin Codes

VARIABLES
  accounts,     \* users: account -> row or NULL
  sessions,     \* sessions: session -> row or NULL
  links,        \* auth_tokens: link -> row or NULL
  codes,        \* totp_recovery_codes: code -> row or NULL
  pending,      \* pending2fa: attempt -> entry or NULL
  job           \* what the running handler has left to do, or NULL

vars == <<accounts, sessions, links, codes, pending, job>>

\* `factor`: "off", "setup" (a totp_secret, not enabled) or "on".  Passwords are
\* told apart by how often they were reset.  `cut` is no column: a reset was
\* killed after it changed the password and before it ended the sessions.
UserRow == [active : BOOLEAN, verified : BOOLEAN, factor : {"off", "setup", "on"},
            password : Nat, cut : BOOLEAN]

\* A session that is not live was revoked, has expired or went with its account.
\* How the session was opened (under which password of the account, by which way
\* in, with which recovery code) is not a column; the properties refer to it.
Ways == {"register", "login", "second", "page"}
SessionRow == [user : Users, state : {"live", "over"},
               password : Nat, way : Ways, code : Codes \cup {NULL}]

Purposes == {"verify_email", "password_reset"}
LinkRow == [user : Users, purpose : Purposes, state : {"fresh", "used", "over"}]
CodeRow == [user : Users, state : {"unused", "used", "void"}]
Entry == [user : Users, state : {"waiting", "over"}]

Job == [todo : {"open", "mail", "verify", "password", "revoke"}, user : Users,
        password : Nat, way : Ways, code : Codes \cup {NULL}]

ASSUME NullIsNoSignInRow ==
  NULL \notin UserRow \cup SessionRow \cup LinkRow \cup CodeRow \cup Entry \cup Job

\* Every row has its columns; a handler in progress knows its account.
TypeOK ==
  /\ accounts \in [Users -> UserRow \cup {NULL}]
  /\ sessions \in [SessionIds -> SessionRow \cup {NULL}]
  /\ links \in [Links -> LinkRow \cup {NULL}]
  /\ codes \in [Codes -> CodeRow \cup {NULL}]
  /\ pending \in [Attempts -> Entry \cup {NULL}]
  /\ job \in Job \cup {NULL}

Init ==
  /\ accounts = [u \in Users |-> NULL]
  /\ sessions = [s \in SessionIds |-> NULL]
  /\ links = [l \in Links |-> NULL]
  /\ codes = [k \in Codes |-> NULL]
  /\ pending = [a \in Attempts |-> NULL]
  /\ job = NULL

------------------------------------------------------------------------------
(* Queries.  A name that ends in a suffix after an underscore is a          *)
(* deliberately wrong variant of the definition after it.                   *)

Idle == job = NULL
Exists(u) == accounts[u] # NULL
Active(u) == Exists(u) /\ accounts[u].active
Live(s) == sessions[s] # NULL /\ sessions[s].state = "live"

\* requireAuth with a session cookie; with an access token only Active is asked.
SignedIn(s) == Live(s) /\ Active(sessions[s].user)

\* A link works once, for its purpose, until it expires.
Consumable(l, purpose) ==
  links[l] # NULL /\ links[l].state = "fresh" /\ links[l].purpose = purpose

NeedsSecondFactor_Verified(u) == accounts[u].factor = "on" /\ accounts[u].verified
NeedsSecondFactor(u) == accounts[u].factor = "on"

\* A waiting sign-in is looked at again together with its account.
Completable(a) ==
  /\ pending[a] # NULL /\ pending[a].state = "waiting"
  /\ Active(pending[a].user) /\ NeedsSecondFactor(pending[a].user)

Unused(k, u) == codes[k] # NULL /\ codes[k].user = u /\ codes[k].state = "unused"

------------------------------------------------------------------------------
(* What the statements write.                                              *)


Todo(todo, u, password, way, code) ==
  [todo |-> todo, user |-> u, password |-> password, way |-> way, code |-> code]

\* createSession.
OpenSession(s, u, password, way, code) ==
  /\ sessions[s] = NULL
  /\ sessions' = [sessions EXCEPT ![s] =
       [user |-> u, state |-> "live", password |-> password, way |-> way, code |-> code]]

\* "... AND revoked_at IS NULL": only a session that is live can be revoked.
Revoke(S) ==
  sessions' = [s \in SessionIds |->
    IF s \in S /\ Live(s) THEN [sessions[s] EXCEPT !.state = "over"] ELSE sessions[s]]

SessionsOf(u) == {s \in SessionIds : sessions[s] # NULL /\ sessions[s].user = u}

\* The sessions that a reset ends.
EndedByReset_Web(u) == {s \in SessionsOf(u) : sessions[s].way # "page"}
EndedByReset(u) == SessionsOf(u)

\* createAuthToken.
SendLink(l, u, purpose) ==
  /\ links[l] = NULL
  /\ links' = [links EXCEPT ![l] = [user |-> u, purpose |-> purpose, state |-> "fresh"]]

\* consumeAuthToken.
Consume(l) == links' = [links EXCEPT ![l].state = "used"]

\* The recovery codes of an account that are still good stop working.
VoidCodes(u) ==
  codes' = [k \in Codes |-> IF Unused(k, u) THEN [codes[k] EXCEPT !.state = "void"] ELSE codes[k]]

\* consumeRecoveryCode and the UPDATE that stores its answer.
SpendCode_Forgotten(k) == UNCHANGED codes
SpendCode(k) == codes' = [codes EXCEPT ![k].state = "used"]

\* The process starts again with nothing in memory.
Forget == pending' = [a \in Attempts |-> IF pending[a] = NULL THEN NULL
                                         ELSE [pending[a] EXCEPT !.state = "over"]]

------------------------------------------------------------------------------
(* Accounts, as Tenancy describes them.                                    *)

\* POST /register: the account row first; a session and the link to verify the
\* address follow.
Register(u) ==
  /\ Idle /\ ~Exists(u)
  /\ accounts' = [accounts EXCEPT ![u] =
       [active |-> TRUE, verified |-> FALSE, factor |-> "off", password |-> 0, cut |-> FALSE]]
  /\ job' = Todo("open", u, 0, "register", NULL)
  /\ UNCHANGED <<sessions, links, codes, pending>>

\* PATCH /admin/users/:id: no session is touched.
SetActive(u, active) ==
  /\ Idle /\ Exists(u)
  /\ accounts' = [accounts EXCEPT ![u].active = active]
  /\ UNCHANGED <<sessions, links, codes, pending, job>>

\* DELETE /admin/users/:id cascades; a waiting sign-in finds no account any more.
DeleteAccount(u) ==
  /\ Idle /\ Exists(u)
  /\ accounts' = [accounts EXCEPT ![u] = NULL]
  /\ sessions' = [s \in SessionIds |->
       IF s \in SessionsOf(u) THEN [sessions[s] EXCEPT !.state = "over"] ELSE sessions[s]]
  /\ links' = [l \in Links |->
       IF links[l] # NULL /\ links[l].user = u
       THEN [links[l] EXCEPT !.state = "over"] ELSE links[l]]
  /\ VoidCodes(u)
  /\ pending' = [a \in Attempts |->
       IF pending[a] # NULL /\ pending[a].user = u
       THEN [pending[a] EXCEPT !.state = "over"] ELSE pending[a]]
  /\ UNCHANGED job

------------------------------------------------------------------------------
(* Signing in and out.                                                     *)

\* POST /login with the right password, without a second factor.
Login(u, s) ==
  /\ Idle /\ Active(u) /\ ~NeedsSecondFactor(u)
  /\ OpenSession(s, u, accounts[u].password, "login", NULL)
  /\ UNCHANGED <<accounts, links, codes, pending, job>>

\* POST /login with the right password: a second factor is asked for.
LoginWaits(u, a) ==
  /\ Idle /\ Active(u) /\ NeedsSecondFactor(u) /\ pending[a] = NULL
  /\ pending' = [pending EXCEPT ![a] =
       [user |-> u, state |-> "waiting"]]
  /\ UNCHANGED <<accounts, sessions, links, codes, job>>

\* POST /2fa/login with the code of the device.
CompleteWithDevice(a, s) ==
  /\ Idle /\ Completable(a)
  /\ pending' = [pending EXCEPT ![a].state = "over"]
  /\ OpenSession(s, pending[a].user, accounts[pending[a].user].password, "second", NULL)
  /\ UNCHANGED <<accounts, links, codes, job>>

\* POST /2fa/login with a recovery code: it is spent first, then the session opens.
CompleteWithCode(a, k) ==
  /\ Idle /\ Completable(a) /\ Unused(k, pending[a].user)
  /\ SpendCode(k)
  /\ pending' = [pending EXCEPT ![a].state = "over"]
  /\ job' = Todo("open", pending[a].user, accounts[pending[a].user].password, "second", k)
  /\ UNCHANGED <<accounts, sessions, links>>

\* The session of a handler that wrote something before: registering goes on to
\* the verification link.
OpenForJob(s) ==
  /\ ~Idle /\ job.todo = "open"
  /\ OpenSession(s, job.user, job.password, job.way, job.code)
  /\ job' = IF job.way = "register" THEN Todo("mail", job.user, 0, "register", NULL) ELSE NULL
  /\ UNCHANGED <<accounts, links, codes, pending>>

\* An attempt that is over, or whose account changed, is deleted when it is
\* used next; until then nothing can be done with it.
AttemptEnds(a) ==
  /\ Idle /\ pending[a] # NULL /\ pending[a].state = "waiting"
  /\ pending' = [pending EXCEPT ![a].state = "over"]
  /\ UNCHANGED <<accounts, sessions, links, codes, job>>

\* The sign-in form of POST /oauth/authorize, which asks for the password only.
LoginOnPage(u, s) ==
  /\ Idle /\ Active(u)
  /\ OpenSession(s, u, accounts[u].password, "page", NULL)
  /\ UNCHANGED <<accounts, links, codes, pending, job>>

\* Sessions last thirty days.
SessionEnds(s) ==
  /\ Idle /\ Live(s)
  /\ sessions' = [sessions EXCEPT ![s].state = "over"]
  /\ UNCHANGED <<accounts, links, codes, pending, job>>

\* POST /logout revokes the session of the cookie, whatever its account.
Logout(s) ==
  /\ Idle /\ Live(s)
  /\ Revoke({s})
  /\ UNCHANGED <<accounts, links, codes, pending, job>>

\* DELETE /sessions/:id, one of one's own.  (With a PAT the row is revoked as
\* well; the answer is an error, since there is no sessionRow.)
RevokeOne(s) ==
  /\ Idle /\ Live(s) /\ Active(sessions[s].user)
  /\ Revoke({s})
  /\ UNCHANGED <<accounts, links, codes, pending, job>>

\* POST /sessions/revoke-others.
RevokeOthers(s) ==
  /\ Idle /\ SignedIn(s)
  /\ Revoke(SessionsOf(sessions[s].user) \ {s})
  /\ UNCHANGED <<accounts, links, codes, pending, job>>

------------------------------------------------------------------------------
(* Links by e-mail.                                                        *)

\* The last statement of registering.
MailForJob(l) ==
  /\ ~Idle /\ job.todo = "mail"
  /\ SendLink(l, job.user, "verify_email")
  /\ job' = NULL
  /\ UNCHANGED <<accounts, sessions, codes, pending>>

\* POST /verify-email/resend: whether the address is verified was read before
\* the rate limiter ran, so it may be verified by now.
ResendLink(u, l) ==
  /\ Idle /\ Exists(u)
  /\ SendLink(l, u, "verify_email")
  /\ UNCHANGED <<accounts, sessions, codes, pending, job>>

\* POST /password-reset/request, for any account, active or not.
RequestReset(u, l) ==
  /\ Idle /\ Exists(u)
  /\ SendLink(l, u, "password_reset")
  /\ UNCHANGED <<accounts, sessions, codes, pending, job>>

LinkEnds(l) ==
  /\ Idle /\ links[l] # NULL /\ links[l].state = "fresh"
  /\ links' = [links EXCEPT ![l].state = "over"]
  /\ UNCHANGED <<accounts, sessions, codes, pending, job>>

\* GET /verify-email/:token: the link is used up first ...
OpenVerifyLink(l) ==
  /\ Idle /\ Consumable(l, "verify_email")
  /\ Consume(l)
  /\ job' = Todo("verify", links[l].user, 0, "login", NULL)
  /\ UNCHANGED <<accounts, sessions, codes, pending>>

\* ... then the address counts as verified.
MarkVerified ==
  /\ ~Idle /\ job.todo = "verify"
  /\ accounts' = [accounts EXCEPT ![job.user].verified = TRUE]
  /\ job' = NULL
  /\ UNCHANGED <<sessions, links, codes, pending>>

\* POST /password-reset/:token: the link is used up first ...
OpenResetLink(l) ==
  /\ Idle /\ Consumable(l, "password_reset")
  /\ Consume(l)
  /\ job' = Todo("password", links[l].user, 0, "login", NULL)
  /\ UNCHANGED <<accounts, sessions, codes, pending>>

\* ... then the password changes ...
SetPassword ==
  /\ ~Idle /\ job.todo = "password"
  /\ accounts' = [accounts EXCEPT ![job.user].password = @ + 1]
  /\ job' = Todo("revoke", job.user, 0, "login", NULL)
  /\ UNCHANGED <<sessions, links, codes, pending>>

\* ... and every session ends.
SignOutEverywhere ==
  /\ ~Idle /\ job.todo = "revoke"
  /\ Revoke(EndedByReset(job.user))
  /\ accounts' = [accounts EXCEPT ![job.user].cut = FALSE]
  /\ job' = NULL
  /\ UNCHANGED <<links, codes, pending>>

------------------------------------------------------------------------------
(* The second factor, changed with a session or with an access token.      *)

\* POST /2fa/setup: a fresh secret, again and again until it is enabled.
SetupFactor(u) ==
  /\ Idle /\ Active(u) /\ ~NeedsSecondFactor(u)
  /\ accounts' = [accounts EXCEPT ![u].factor = "setup"]
  /\ UNCHANGED <<sessions, links, codes, pending, job>>

\* POST /2fa/enable with a code of that secret: one statement switches it on
\* and stores a set of recovery codes.
EnableFactor(u, K) ==
  /\ Idle /\ Active(u) /\ accounts[u].factor = "setup"
  /\ K # {} /\ \A k \in K : codes[k] = NULL
  /\ accounts' = [accounts EXCEPT ![u].factor = "on"]
  /\ codes' = [k \in Codes |-> IF k \in K THEN [user |-> u, state |-> "unused"] ELSE codes[k]]
  /\ UNCHANGED <<sessions, links, pending, job>>

\* POST /2fa/disable with the password: secret and codes go in one statement.
DisableFactor(u) ==
  /\ Idle /\ Active(u) /\ NeedsSecondFactor(u)
  /\ accounts' = [accounts EXCEPT ![u].factor = "off"]
  /\ VoidCodes(u)
  /\ UNCHANGED <<sessions, links, pending, job>>

------------------------------------------------------------------------------

\* The process ends, in the middle of a handler or not, and starts again.
Restart ==
  /\ accounts' = [u \in Users |->
       IF ~Idle /\ job.todo = "revoke" /\ job.user = u
       THEN [accounts[u] EXCEPT !.cut = TRUE] ELSE accounts[u]]
  /\ Forget
  /\ job' = NULL
  /\ UNCHANGED <<sessions, links, codes>>

AccountSteps ==
  \E u \in Users :
    \/ Register(u) \/ DeleteAccount(u) \/ \E active \in BOOLEAN : SetActive(u, active)
    \/ SetupFactor(u) \/ DisableFactor(u) \/ \E K \in SUBSET Codes : EnableFactor(u, K)
    \/ \E a \in Attempts : LoginWaits(u, a)
    \/ \E s \in SessionIds : Login(u, s) \/ LoginOnPage(u, s)
    \/ \E l \in Links : ResendLink(u, l) \/ RequestReset(u, l)

SessionSteps ==
  \E s \in SessionIds :
    \/ OpenForJob(s) \/ SessionEnds(s) \/ Logout(s) \/ RevokeOne(s) \/ RevokeOthers(s)

AttemptSteps ==
  \E a \in Attempts :
    \/ AttemptEnds(a)
    \/ \E s \in SessionIds : CompleteWithDevice(a, s)
    \/ \E k \in Codes : CompleteWithCode(a, k)

LinkSteps ==
  \/ \E l \in Links : MailForJob(l) \/ LinkEnds(l) \/ OpenVerifyLink(l) \/ OpenResetLink(l)
  \/ MarkVerified \/ SetPassword \/ SignOutEverywhere

Next == AccountSteps \/ SessionSteps \/ AttemptSteps \/ LinkSteps \/ Restart

Spec == Init /\ [][Next]_vars

------------------------------------------------------------------------------
(* Properties.                                                             *)

\* Resetting a password "force[s] re-login everywhere" (auth.js): between
\* requests, a session that was opened before the last reset lives on only where
\* the process was killed before the last statement of the reset.  (A sign-in
\* that waits for its second factor is not ended by a reset; the session it
\* leads to is opened after it.)
ResetForcesSignIn ==
  Idle => \A s \in SessionIds : Live(s) =>
    LET u == sessions[s].user IN
      sessions[s].password = accounts[u].password \/ accounts[u].cut

\* A recovery code lets its owner in once, and nobody else, wherever the
\* process is killed between spending it and opening the session.
RecoveryCodeOnce ==
  \A s \in SessionIds : sessions[s] # NULL /\ sessions[s].code # NULL =>
    /\ codes[sessions[s].code].user = sessions[s].user
    /\ \A t \in SessionIds \ {s} : sessions[t] = NULL \/ sessions[t].code # sessions[s].code

\* What a link proves is proven by one that was used up: a verified address by
\* a verification link, and every change of the password by a reset link of its
\* own.  Repeating a request, or a kill in the middle, gains nothing.
Used(u, purpose) ==
  {l \in Links : /\ links[l] # NULL /\ links[l].user = u
                 /\ links[l].purpose = purpose /\ links[l].state = "used"}

LinksProve ==
  \A u \in Users : Exists(u) =>
    /\ accounts[u].verified => Used(u, "verify_email") # {}
    /\ accounts[u].password <= Cardinality(Used(u, "password_reset"))

\* While the second factor is on, the sign-in of the web client opens a session
\* only after it was shown, also when it was switched on or off, or the process
\* restarted, between the two steps.  The form on the consent page does not ask
\* for it (oauth.js: "Deliberately does not gate on 2FA").
SecondFactorShown ==
  [][ \A s \in SessionIds :
        sessions[s] = NULL /\ sessions'[s] # NULL /\ sessions'[s].way # "page" =>
          (sessions'[s].way = "second" <=> accounts[sessions'[s].user].factor = "on") ]_vars

==============================================================================
