---------------------------- MODULE SessionsProofs ----------------------------
(***************************************************************************)
(* Theorems about Sessions, for any accounts, sessions, links and codes.   *)
(***************************************************************************)
EXTENDS Sessions, FiniteSetTheorems, TLAPS

USE NullIsNoCode, NullIsNoSignInRow

\* A session that came of a recovery code used that code up.
CodeInv ==
  \A s \in SessionIds : sessions[s] # NULL /\ sessions[s].code # NULL =>
    /\ codes[sessions[s].code] # NULL /\ codes[sessions[s].code].state = "used"
    /\ codes[sessions[s].code].user = sessions[s].user

\* What the rest of a handler may rely on: its account, the code and the link
\* it used up, and that nothing came of them yet.
JobInv ==
  job # NULL =>
    /\ Exists(job.user)
    /\ job.todo = "open" => job.way \in {"register", "second"}
    /\ job.todo = "open" => job.password = accounts[job.user].password
    /\ job.todo = "open" /\ job.way = "register" =>
         /\ job.code = NULL /\ accounts[job.user].factor = "off"
    /\ job.todo = "open" /\ job.way = "second" => accounts[job.user].factor = "on"
    /\ job.todo = "open" /\ job.code # NULL =>
         /\ codes[job.code] # NULL /\ codes[job.code].state = "used"
         /\ codes[job.code].user = job.user
         /\ \A s \in SessionIds : sessions[s] = NULL \/ sessions[s].code # job.code
    /\ job.todo = "verify" => Used(job.user, "verify_email") # {}
    /\ job.todo = "password" =>
         accounts[job.user].password + 1 <= Cardinality(Used(job.user, "password_reset"))

\* A live session has its account, and knows the password of now unless a reset
\* is about to end it or was killed.
LiveInv ==
  \A s \in SessionIds : Live(s) =>
    LET u == sessions[s].user IN
      /\ Exists(u)
      /\ \/ sessions[s].password = accounts[u].password
         \/ accounts[u].cut
         \/ job # NULL /\ job.todo = "revoke" /\ job.user = u

\* A link that can still be used has its account.
LinkInv ==
  \A l \in Links : links[l] # NULL /\ links[l].state = "fresh" => accounts[links[l].user] # NULL

Inv == TypeOK /\ CodeInv /\ RecoveryCodeOnce /\ LinksProve /\ LinkInv /\ LiveInv /\ JobInv

-----------------------------------------------------------------------------
\* What the statements do to a row.

LEMMA UserFields ==
  ASSUME NEW row \in UserRow
  PROVE  /\ row.active \in BOOLEAN /\ row.verified \in BOOLEAN /\ row.cut \in BOOLEAN
         /\ row.factor \in {"off", "setup", "on"} /\ row.password \in Nat
BY DEF UserRow

LEMMA RowActive ==
  ASSUME NEW row \in UserRow, NEW v \in BOOLEAN, NEW new, new = [row EXCEPT !.active = v]
  PROVE  /\ new \in UserRow /\ new.active = v /\ new.verified = row.verified
         /\ new.factor = row.factor /\ new.password = row.password /\ new.cut = row.cut
BY DEF UserRow

LEMMA RowVerified ==
  ASSUME NEW row \in UserRow, NEW new, new = [row EXCEPT !.verified = TRUE]
  PROVE  /\ new \in UserRow /\ new.active = row.active /\ new.verified = TRUE
         /\ new.factor = row.factor /\ new.password = row.password /\ new.cut = row.cut
BY DEF UserRow

LEMMA RowFactor ==
  ASSUME NEW row \in UserRow, NEW v \in {"off", "setup", "on"}, NEW new, new = [row EXCEPT !.factor = v]
  PROVE  /\ new \in UserRow /\ new.active = row.active /\ new.verified = row.verified
         /\ new.factor = v /\ new.password = row.password /\ new.cut = row.cut
BY DEF UserRow

LEMMA RowCut ==
  ASSUME NEW row \in UserRow
  PROVE  \A v \in BOOLEAN :
           LET new == [row EXCEPT !.cut = v]
           IN  /\ new \in UserRow /\ new.active = row.active /\ new.verified = row.verified
               /\ new.factor = row.factor /\ new.password = row.password /\ new.cut = v
BY DEF UserRow

LEMMA RowPassword ==
  ASSUME NEW row \in UserRow, NEW new, new = [row EXCEPT !.password = row.password + 1]
  PROVE  /\ new \in UserRow /\ new.active = row.active /\ new.verified = row.verified
         /\ new.factor = row.factor /\ new.password = row.password + 1 /\ new.cut = row.cut
BY DEF UserRow

LEMMA SessionOver ==
  ASSUME NEW row \in SessionRow, NEW new, new = [row EXCEPT !.state = "over"]
  PROVE  /\ new \in SessionRow /\ new.user = row.user /\ new.state = "over"
         /\ new.password = row.password /\ new.way = row.way /\ new.code = row.code
BY DEF SessionRow

LEMMA LinkState ==
  ASSUME NEW row \in LinkRow, NEW v \in {"fresh", "used", "over"}, NEW new, new = [row EXCEPT !.state = v]
  PROVE  new \in LinkRow /\ new.user = row.user /\ new.purpose = row.purpose /\ new.state = v
BY DEF LinkRow

LEMMA CodeState ==
  ASSUME NEW row \in CodeRow, NEW v \in {"unused", "used", "void"}, NEW new, new = [row EXCEPT !.state = v]
  PROVE  new \in CodeRow /\ new.user = row.user /\ new.state = v
BY DEF CodeRow

LEMMA EntryOver ==
  ASSUME NEW row \in Entry, NEW new, new = [row EXCEPT !.state = "over"]
  PROVE  new \in Entry
BY DEF Entry

LEMMA TodoType ==
  ASSUME NEW todo \in {"open", "mail", "verify", "password", "revoke"}, NEW u \in Users,
         NEW p \in Nat, NEW way \in Ways, NEW k \in Codes \cup {NULL},
         NEW new, new = Todo(todo, u, p, way, k)
  PROVE  /\ new \in Job /\ new # NULL /\ new.todo = todo /\ new.user = u /\ new.password = p
         /\ new.way = way /\ new.code = k
BY DEF Todo, Job

-----------------------------------------------------------------------------
\* The statements on each table, once for all actions that use them.

\* A new session is live and of its account; the others stay.
LEMMA Opened ==
  ASSUME TypeOK, NEW s \in SessionIds, NEW u \in Users, NEW p \in Nat, NEW way \in Ways,
         NEW k \in Codes \cup {NULL}, OpenSession(s, u, p, way, k)
  PROVE  /\ sessions' \in [SessionIds -> SessionRow \cup {NULL}]
         /\ sessions[s] = NULL /\ sessions'[s] # NULL /\ sessions'[s].user = u
         /\ sessions'[s].state = "live"
         /\ sessions'[s].password = p /\ sessions'[s].way = way /\ sessions'[s].code = k
         /\ \A t \in SessionIds : t # s => sessions'[t] = sessions[t]
<1> DEFINE row == [user |-> u, state |-> "live", password |-> p, way |-> way, code |-> k]
<1>1. /\ row \in SessionRow /\ row.user = u /\ row.state = "live" /\ row.password = p
      /\ row.way = way /\ row.code = k
  BY DEF SessionRow
<1>2. sessions[s] = NULL /\ sessions' = [sessions EXCEPT ![s] = row]
  BY DEF OpenSession
<1> HIDE DEF row
<1>3. sessions'[s] = row /\ \A t \in SessionIds : t # s => sessions'[t] = sessions[t]
  BY <1>2 DEF TypeOK
<1>4. sessions' \in [SessionIds -> SessionRow \cup {NULL}]
  BY <1>1, <1>2 DEF TypeOK
<1>5. row # NULL
  BY <1>1
<1> QED BY <1>1, <1>2, <1>3, <1>4, <1>5

\* Sessions at most end in the step: what else their rows say stays.
Ending ==
  /\ sessions' \in [SessionIds -> SessionRow \cup {NULL}]
  /\ \A s \in SessionIds :
       /\ sessions'[s] = NULL <=> sessions[s] = NULL
       /\ sessions[s] # NULL =>
            /\ sessions'[s].user = sessions[s].user /\ sessions'[s].password = sessions[s].password
            /\ sessions'[s].way = sessions[s].way /\ sessions'[s].code = sessions[s].code
       /\ Live(s)' => Live(s)

LEMMA SameSessions == ASSUME TypeOK, sessions' = sessions PROVE Ending
BY DEF TypeOK, Ending, Live

LEMMA EndedRow ==
  ASSUME TypeOK, NEW S, sessions' = [s \in SessionIds |->
           IF s \in S THEN [sessions[s] EXCEPT !.state = "over"] ELSE sessions[s]],
         \A s \in SessionIds : s \in S => sessions[s] # NULL
  PROVE  Ending /\ \A s \in SessionIds : s \in S => ~Live(s)'
<1>1. ASSUME NEW s \in SessionIds
      PROVE  /\ sessions'[s] \in SessionRow \cup {NULL}
             /\ sessions'[s] = NULL <=> sessions[s] = NULL
             /\ sessions[s] # NULL =>
                 /\ sessions'[s].user = sessions[s].user /\ sessions'[s].password = sessions[s].password
                 /\ sessions'[s].way = sessions[s].way /\ sessions'[s].code = sessions[s].code
             /\ Live(s)' => Live(s)
             /\ s \in S => ~Live(s)'
  <2>1. CASE s \in S
    <3>1. sessions[s] \in SessionRow /\ sessions'[s] = [sessions[s] EXCEPT !.state = "over"]
      BY <2>1 DEF TypeOK
    <3>2. /\ sessions'[s] \in SessionRow /\ sessions'[s].state = "over"
          /\ sessions'[s].user = sessions[s].user /\ sessions'[s].password = sessions[s].password
          /\ sessions'[s].way = sessions[s].way /\ sessions'[s].code = sessions[s].code
      BY <3>1, SessionOver
    <3> QED BY <3>1, <3>2 DEF Live
  <2>2. CASE s \notin S
    BY <2>2 DEF TypeOK, Live
  <2> QED BY <2>1, <2>2
<1>2. sessions' \in [SessionIds -> SessionRow \cup {NULL}]
  BY <1>1
<1> QED BY <1>1, <1>2 DEF Ending

LEMMA Revoked ==
  ASSUME TypeOK, NEW S, Revoke(S)
  PROVE  Ending /\ \A s \in SessionIds : s \in S => ~Live(s)'
<1> DEFINE T == {s \in SessionIds : s \in S /\ Live(s)}
<1>1. sessions' = [s \in SessionIds |->
        IF s \in T THEN [sessions[s] EXCEPT !.state = "over"] ELSE sessions[s]]
  BY DEF Revoke
<1>2. \A s \in SessionIds : s \in T => sessions[s] # NULL
  BY DEF Live
<1> HIDE DEF T
<1>3. Ending /\ \A s \in SessionIds : s \in T => ~Live(s)'
  BY <1>1, <1>2, EndedRow
<1>4. ASSUME NEW s \in SessionIds, s \in S PROVE ~Live(s)'
  BY <1>3, <1>4 DEF T, Ending
<1> QED BY <1>3, <1>4

\* Codes that are used up stay so.
UsedStay ==
  \A k \in Codes : codes[k] # NULL /\ codes[k].state = "used" =>
    codes'[k] # NULL /\ codes'[k].state = "used" /\ codes'[k].user = codes[k].user

LEMMA SameCodes == ASSUME codes' = codes PROVE UsedStay
BY DEF UsedStay

LEMMA Voided ==
  ASSUME TypeOK, NEW u \in Users, VoidCodes(u)
  PROVE  codes' \in [Codes -> CodeRow \cup {NULL}] /\ UsedStay
<1>1. ASSUME NEW k \in Codes
      PROVE  /\ codes'[k] \in CodeRow \cup {NULL}
             /\ codes[k] # NULL /\ codes[k].state = "used" =>
                  codes'[k] # NULL /\ codes'[k].state = "used" /\ codes'[k].user = codes[k].user
  <2>1. CASE Unused(k, u)
    <3>1. codes[k] \in CodeRow /\ codes'[k] = [codes[k] EXCEPT !.state = "void"]
      BY <2>1 DEF Unused, VoidCodes, TypeOK
    <3>2. codes'[k] \in CodeRow
      BY <3>1, CodeState
    <3> QED BY <2>1, <3>2 DEF Unused
  <2>2. CASE ~Unused(k, u)
    BY <2>2 DEF VoidCodes, TypeOK
  <2> QED BY <2>1, <2>2
<1>2. codes' \in [Codes -> CodeRow \cup {NULL}]
  BY <1>1 DEF VoidCodes
<1> QED BY <1>1, <1>2 DEF UsedStay

\* While sessions only end, what is known of the codes they came of stays.
LEMMA CodesKept ==
  ASSUME TypeOK, CodeInv, RecoveryCodeOnce, Ending, UsedStay
  PROVE  CodeInv' /\ RecoveryCodeOnce'
<1>1. CodeInv'
  <2>1. ASSUME NEW s \in SessionIds, sessions'[s] # NULL, sessions'[s].code # NULL
        PROVE  /\ codes'[sessions'[s].code] # NULL /\ codes'[sessions'[s].code].state = "used"
               /\ codes'[sessions'[s].code].user = sessions'[s].user
    <3>1. /\ sessions[s] \in SessionRow /\ sessions'[s].code = sessions[s].code
          /\ sessions'[s].user = sessions[s].user
      BY <2>1 DEF Ending, TypeOK
    <3>2. sessions[s].code \in Codes
      BY <2>1, <3>1 DEF SessionRow
    <3> QED BY <2>1, <3>1, <3>2 DEF CodeInv, UsedStay, Ending
  <2> QED BY <2>1 DEF CodeInv
<1>2. ASSUME NEW s \in SessionIds, NEW t \in SessionIds, s # t,
             sessions'[s] # NULL, sessions'[s].code # NULL, sessions'[t] # NULL
      PROVE  sessions'[t].code # sessions'[s].code
  BY <1>2 DEF RecoveryCodeOnce, Ending
<1>3. ASSUME NEW s \in SessionIds, sessions'[s] # NULL, sessions'[s].code # NULL
      PROVE  codes'[sessions'[s].code].user = sessions'[s].user
  BY <1>1, <1>3 DEF CodeInv
<1> QED BY <1>1, <1>2, <1>3 DEF RecoveryCodeOnce

\* A new session that came of no code, or of one no session came of.
LEMMA CodesOfNew ==
  ASSUME TypeOK, CodeInv, RecoveryCodeOnce, codes' = codes,
         NEW s \in SessionIds, NEW u \in Users, NEW p \in Nat, NEW way \in Ways,
         NEW k \in Codes \cup {NULL}, OpenSession(s, u, p, way, k),
         k # NULL => /\ codes[k] # NULL /\ codes[k].state = "used" /\ codes[k].user = u
                     /\ \A t \in SessionIds : sessions[t] = NULL \/ sessions[t].code # k
  PROVE  CodeInv' /\ RecoveryCodeOnce'
<1>1. /\ sessions[s] = NULL /\ sessions'[s] # NULL /\ sessions'[s].user = u /\ sessions'[s].code = k
      /\ \A t \in SessionIds : t # s => sessions'[t] = sessions[t]
  BY Opened
<1>2. CodeInv'
  BY <1>1 DEF CodeInv
<1>3. RecoveryCodeOnce'
  BY <1>1 DEF RecoveryCodeOnce
<1> QED BY <1>2, <1>3

-----------------------------------------------------------------------------
\* Links.

LEMMA UsedFinite ==
  ASSUME NEW u, NEW purpose
  PROVE  IsFiniteSet(Used(u, purpose)) /\ Cardinality(Used(u, purpose)) \in Nat
<1>1. Used(u, purpose) \subseteq Links
  BY DEF Used
<1>2. IsFiniteSet(Used(u, purpose))
  BY <1>1, FiniteLinks, FS_Subset
<1> QED BY <1>2, FS_CardinalityType

LEMMA UsedFinitePrime ==
  ASSUME NEW u, NEW purpose
  PROVE  IsFiniteSet(Used(u, purpose)') /\ Cardinality(Used(u, purpose)') \in Nat
<1>1. Used(u, purpose)' \subseteq Links
  BY DEF Used
<1>2. IsFiniteSet(Used(u, purpose)')
  BY <1>1, FiniteLinks, FS_Subset
<1> QED BY <1>2, FS_CardinalityType

\* A link that is sent is not used yet.
LEMMA Sent ==
  ASSUME TypeOK, NEW l \in Links, NEW u \in Users, NEW purpose \in Purposes, SendLink(l, u, purpose)
  PROVE  /\ links' \in [Links -> LinkRow \cup {NULL}]
         /\ \A v \in Users, q \in Purposes : Used(v, q)' = Used(v, q)
<1> DEFINE row == [user |-> u, purpose |-> purpose, state |-> "fresh"]
<1>1. row \in LinkRow /\ row.state = "fresh"
  BY DEF LinkRow
<1>2. links[l] = NULL /\ links' = [links EXCEPT ![l] = row]
  BY DEF SendLink
<1> HIDE DEF row
<1>3. links'[l] = row /\ \A m \in Links : m # l => links'[m] = links[m]
  BY <1>2 DEF TypeOK
<1>4. links' \in [Links -> LinkRow \cup {NULL}]
  BY <1>1, <1>2 DEF TypeOK
<1> QED BY <1>1, <1>2, <1>3, <1>4 DEF Used

\* A link that is consumed is one more that was used for its purpose.
LEMMA Consumed ==
  ASSUME TypeOK, NEW l \in Links, NEW purpose \in Purposes, NEW u,
         Consumable(l, purpose), Consume(l), u = links[l].user
  PROVE  /\ links' \in [Links -> LinkRow \cup {NULL}] /\ u \in Users
         /\ \A v \in Users, q \in Purposes : Used(v, q) \subseteq Used(v, q)'
         /\ Used(u, purpose)' # {}
         /\ Cardinality(Used(u, purpose)') = Cardinality(Used(u, purpose)) + 1
<1>1. /\ links[l] \in LinkRow /\ links[l].state = "fresh" /\ links[l].purpose = purpose
      /\ links' = [links EXCEPT ![l] = [links[l] EXCEPT !.state = "used"]]
  BY DEF Consumable, Consume, TypeOK
<1>2. /\ links'[l] = [links[l] EXCEPT !.state = "used"]
      /\ \A m \in Links : m # l => links'[m] = links[m]
  BY <1>1 DEF TypeOK
<1>3. /\ links'[l] \in LinkRow /\ links'[l].user = u /\ links'[l].purpose = purpose
      /\ links'[l].state = "used"
  BY <1>1, <1>2, LinkState
<1>4. links' \in [Links -> LinkRow \cup {NULL}]
  BY <1>1, <1>2, <1>3 DEF TypeOK
<1>5. \A v \in Users, q \in Purposes : Used(v, q) \subseteq Used(v, q)'
  BY <1>1, <1>2 DEF Used
<1>6. l \notin Used(u, purpose) /\ Used(u, purpose)' = Used(u, purpose) \cup {l}
  BY <1>1, <1>2, <1>3 DEF Used
<1>7. u \in Users
  BY <1>1 DEF LinkRow
<1>8. Cardinality(Used(u, purpose) \cup {l}) = Cardinality(Used(u, purpose)) + 1
  BY <1>6, UsedFinite, FS_AddElement
<1> QED BY <1>4, <1>5, <1>6, <1>7, <1>8

\* Accounts keep what links proved of them.
LEMMA LinksKept ==
  ASSUME TypeOK, LinksProve,
         \A v \in Users : accounts'[v] # NULL =>
           /\ accounts[v] # NULL /\ accounts'[v].verified = accounts[v].verified
           /\ accounts'[v].password = accounts[v].password
           /\ \A q \in Purposes : Used(v, q) \subseteq Used(v, q)'
  PROVE  LinksProve'
<1>1. ASSUME NEW v \in Users, accounts'[v] # NULL
      PROVE  /\ accounts'[v].verified => Used(v, "verify_email")' # {}
             /\ accounts'[v].password <= Cardinality(Used(v, "password_reset")')
  <2>1. /\ accounts[v].verified => Used(v, "verify_email") # {}
        /\ accounts[v].password <= Cardinality(Used(v, "password_reset"))
        /\ Used(v, "verify_email") \subseteq Used(v, "verify_email")'
        /\ Used(v, "password_reset") \subseteq Used(v, "password_reset")'
        /\ accounts'[v].verified = accounts[v].verified
        /\ accounts'[v].password = accounts[v].password
    BY <1>1 DEF LinksProve, Exists, Purposes
  <2>2. Cardinality(Used(v, "password_reset")) <= Cardinality(Used(v, "password_reset")')
    BY <2>1, UsedFinitePrime, FS_Subset
  <2>3. accounts[v].password \in Nat
    BY <1>1, UserFields DEF TypeOK
  <2> QED BY <2>1, <2>2, <2>3, UsedFinite, UsedFinitePrime
<1> QED BY <1>1 DEF LinksProve, Exists

LEMMA LinkInvKept ==
  ASSUME TypeOK, LinkInv, \A v \in Users : accounts[v] # NULL => accounts'[v] # NULL,
         \A l \in Links : links'[l] # NULL /\ links'[l].state = "fresh" =>
           links[l] # NULL /\ links[l].state = "fresh" /\ links'[l].user = links[l].user
  PROVE  LinkInv'
BY DEF LinkInv, TypeOK, LinkRow

\* While sessions only end and accounts keep their passwords, live sessions keep
\* knowing them.
LEMMA LiveKept ==
  ASSUME TypeOK, LiveInv, Ending,
         \A v \in Users : accounts[v] # NULL =>
           /\ accounts'[v] # NULL /\ accounts'[v].password = accounts[v].password
           /\ accounts[v].cut => accounts'[v].cut,
         job # NULL => job.todo # "revoke"
  PROVE  LiveInv'
<1>1. ASSUME NEW s \in SessionIds, Live(s)', NEW u \in Users, u = sessions'[s].user
      PROVE  /\ accounts'[u] # NULL
             /\ \/ sessions'[s].password = accounts'[u].password
                \/ accounts'[u].cut
  <2>1. Live(s) /\ sessions[s] # NULL /\ u = sessions[s].user
    BY <1>1 DEF Ending, Live
  <2>2. /\ accounts[u] # NULL
        /\ \/ sessions[s].password = accounts[u].password
           \/ accounts[u].cut
    BY <2>1 DEF LiveInv, Exists
  <2> QED BY <2>1, <2>2 DEF Ending
<1>2. \A s \in SessionIds : Live(s)' => sessions'[s].user \in Users
  BY DEF Ending, Live, SessionRow
<1> QED BY <1>1, <1>2 DEF LiveInv, Exists

\* A new session of the current password keeps it so.
LEMMA LiveNew ==
  ASSUME TypeOK, LiveInv, accounts' = accounts, job # NULL => job.todo # "revoke",
         NEW s \in SessionIds, NEW u \in Users, NEW p \in Nat, NEW way \in Ways,
         NEW k \in Codes \cup {NULL}, OpenSession(s, u, p, way, k), Exists(u),
         p = accounts[u].password
  PROVE  LiveInv'
<1>1. /\ sessions'[s].user = u /\ sessions'[s].password = p /\ sessions'[s].way = way
      /\ \A t \in SessionIds : t # s => sessions'[t] = sessions[t]
  BY Opened
<1> QED BY <1>1 DEF LiveInv, Live, Exists

-----------------------------------------------------------------------------
\* The actions.

LEMMA SameLinks == links' = links => \A v, q : Used(v, q)' = Used(v, q)
BY DEF Used

LEMMA IdleJob == ASSUME Idle, job' = job PROVE JobInv' /\ (job # NULL => job.todo # "revoke")
BY DEF Idle, JobInv

\* A row of an account is replaced.
LEMMA Replaced ==
  ASSUME TypeOK, NEW u \in Users, NEW row \in UserRow \cup {NULL},
         accounts' = [accounts EXCEPT ![u] = row]
  PROVE  /\ accounts' \in [Users -> UserRow \cup {NULL}]
         /\ accounts'[u] = row /\ \A v \in Users : v # u => accounts'[v] = accounts[v]
BY DEF TypeOK

LEMMA KeepsRegister == ASSUME Inv, NEW u \in Users, Register(u) PROVE Inv'
<1> DEFINE row == [active |-> TRUE, verified |-> FALSE, factor |-> "off", password |-> 0, cut |-> FALSE]
<1>1. /\ row \in UserRow /\ row.verified = FALSE /\ row.factor = "off" /\ row.password = 0
  BY DEF UserRow
<1>2. /\ TypeOK /\ CodeInv /\ RecoveryCodeOnce /\ LinksProve /\ LiveInv
      /\ Idle /\ accounts[u] = NULL /\ accounts' = [accounts EXCEPT ![u] = row]
      /\ job' = Todo("open", u, 0, "register", NULL)
      /\ sessions' = sessions /\ links' = links /\ codes' = codes /\ pending' = pending
  BY DEF Inv, Register, Exists
<1> HIDE DEF row
<1>3. /\ accounts' \in [Users -> UserRow \cup {NULL}] /\ accounts'[u] = row
      /\ \A v \in Users : v # u => accounts'[v] = accounts[v]
  BY <1>1, <1>2, Replaced
<1>4. /\ job' \in Job /\ job'.todo = "open" /\ job'.user = u /\ job'.password = 0
      /\ job'.way = "register" /\ job'.code = NULL
  BY <1>2, TodoType DEF Ways
<1>5. TypeOK'
  BY <1>2, <1>3, <1>4 DEF TypeOK
<1>6. CodeInv' /\ RecoveryCodeOnce'
  BY <1>2, SameSessions, SameCodes, CodesKept
<1>7. LinksProve'
  <2>1. \A v \in Users : Cardinality(Used(v, "password_reset")) \in Nat
    BY UsedFinite
  <2> QED BY <1>1, <1>2, <1>3, <2>1, SameLinks DEF LinksProve, Exists
<1>8. LiveInv'
  BY <1>2, <1>3, SameSessions, LiveKept DEF Idle
<1>9. row # NULL
  BY <1>1
<1>10. JobInv'
  BY <1>1, <1>3, <1>4, <1>9 DEF JobInv, Exists
<1>11. LinkInv'
  BY <1>2, <1>3, <1>9, LinkInvKept DEF Inv
<1> QED BY <1>11, <1>5, <1>6, <1>7, <1>8, <1>10 DEF Inv

\* Steps between requests that change one account without its password.
LEMMA KeepsAccount ==
  ASSUME Inv, Idle, job' = job, sessions' = sessions, links' = links, pending' = pending,
         codes' \in [Codes -> CodeRow \cup {NULL}], UsedStay,
         NEW u \in Users, accounts[u] # NULL, NEW row \in UserRow,
         accounts' = [accounts EXCEPT ![u] = row],
         row.verified = accounts[u].verified, row.password = accounts[u].password,
         row.cut = accounts[u].cut
  PROVE  Inv'
<1>1. TypeOK /\ CodeInv /\ RecoveryCodeOnce /\ LinksProve /\ LiveInv
  BY DEF Inv
<1>2. /\ accounts' \in [Users -> UserRow \cup {NULL}] /\ accounts'[u] = row
      /\ \A v \in Users : v # u => accounts'[v] = accounts[v]
  BY <1>1, Replaced
<1>3. TypeOK'
  BY <1>1, <1>2 DEF TypeOK
<1>4. CodeInv' /\ RecoveryCodeOnce'
  BY <1>1, SameSessions, CodesKept
<1>5. LinksProve'
  BY <1>1, <1>2, SameLinks, LinksKept
<1>6. LiveInv'
  BY <1>1, <1>2, SameSessions, LiveKept DEF Idle
<1>7. LinkInv'
  BY <1>1, <1>2, LinkInvKept DEF Inv
<1> QED BY <1>7, <1>3, <1>4, <1>5, <1>6, IdleJob DEF Inv

LEMMA KeepsSetActive ==
  ASSUME Inv, NEW u \in Users, NEW active \in BOOLEAN, SetActive(u, active) PROVE Inv'
<1> DEFINE row == [accounts[u] EXCEPT !.active = active]
<1>1. accounts[u] \in UserRow /\ accounts[u] # NULL
  BY DEF Inv, TypeOK, SetActive, Exists
<1>2. /\ row \in UserRow /\ row.verified = accounts[u].verified
      /\ row.password = accounts[u].password /\ row.cut = accounts[u].cut
  BY <1>1, RowActive
<1>3. /\ Idle /\ job' = job /\ sessions' = sessions /\ links' = links /\ pending' = pending
      /\ codes' = codes /\ accounts' = [accounts EXCEPT ![u] = row]
  BY DEF SetActive
<1>4. codes' \in [Codes -> CodeRow \cup {NULL}] /\ UsedStay
  BY <1>3, SameCodes DEF Inv, TypeOK
<1> QED BY <1>1, <1>2, <1>3, <1>4, KeepsAccount

LEMMA KeepsDelete == ASSUME Inv, NEW u \in Users, DeleteAccount(u) PROVE Inv'
<1>1. /\ TypeOK /\ CodeInv /\ RecoveryCodeOnce /\ LinksProve /\ LiveInv
      /\ Idle /\ job' = job /\ VoidCodes(u) /\ accounts' = [accounts EXCEPT ![u] = NULL]
  BY DEF Inv, DeleteAccount
<1>2. /\ accounts' \in [Users -> UserRow \cup {NULL}] /\ accounts'[u] = NULL
      /\ \A v \in Users : v # u => accounts'[v] = accounts[v]
  BY <1>1, Replaced
<1>3. Ending /\ \A s \in SessionIds : s \in SessionsOf(u) => ~Live(s)'
  <2>1. \A s \in SessionIds : s \in SessionsOf(u) => sessions[s] # NULL
    BY DEF SessionsOf
  <2>2. sessions' = [s \in SessionIds |->
          IF s \in SessionsOf(u) THEN [sessions[s] EXCEPT !.state = "over"] ELSE sessions[s]]
    BY DEF DeleteAccount
  <2> QED BY <1>1, <2>1, <2>2, EndedRow
<1>4. codes' \in [Codes -> CodeRow \cup {NULL}] /\ UsedStay
  BY <1>1, Voided
<1>5. links' \in [Links -> LinkRow \cup {NULL}]
  <2>1. ASSUME NEW l \in Links PROVE links'[l] \in LinkRow \cup {NULL}
    <3>1. links'[l] = IF links[l] # NULL /\ links[l].user = u
                      THEN [links[l] EXCEPT !.state = "over"] ELSE links[l]
      BY DEF DeleteAccount
    <3> QED BY <1>1, <3>1, LinkState DEF TypeOK
  <2> QED BY <2>1 DEF DeleteAccount
<1>6. pending' \in [Attempts -> Entry \cup {NULL}]
  <2>1. ASSUME NEW a \in Attempts PROVE pending'[a] \in Entry \cup {NULL}
    <3>1. pending'[a] = IF pending[a] # NULL /\ pending[a].user = u
                        THEN [pending[a] EXCEPT !.state = "over"] ELSE pending[a]
      BY DEF DeleteAccount
    <3> QED BY <1>1, <3>1, EntryOver DEF TypeOK
  <2> QED BY <2>1 DEF DeleteAccount
<1>7. TypeOK'
  BY <1>1, <1>2, <1>3, <1>4, <1>5, <1>6 DEF TypeOK, Ending
<1>8. CodeInv' /\ RecoveryCodeOnce'
  BY <1>1, <1>3, <1>4, CodesKept
<1>9. \A v \in Users, q \in Purposes : v # u => Used(v, q) \subseteq Used(v, q)'
  <2>1. ASSUME NEW l \in Links, links[l] # NULL, links[l].user # u PROVE links'[l] = links[l]
    BY <2>1 DEF DeleteAccount
  <2> QED BY <2>1 DEF Used
<1>10. LinksProve'
  BY <1>1, <1>2, <1>9, LinksKept
<1>11. LiveInv'
  <2>1. ASSUME NEW s \in SessionIds, Live(s)', NEW v \in Users, v = sessions'[s].user
        PROVE  /\ accounts'[v] # NULL
               /\ \/ sessions'[s].password = accounts'[v].password
                  \/ accounts'[v].cut
    <3>1. Live(s) /\ sessions[s] # NULL /\ v = sessions[s].user
      BY <1>3, <2>1 DEF Ending, Live
    <3>2. v # u
      BY <1>3, <2>1, <3>1 DEF SessionsOf
    <3>3. /\ accounts[v] # NULL
          /\ \/ sessions[s].password = accounts[v].password
             \/ accounts[v].cut
      BY <1>1, <3>1 DEF LiveInv, Exists, Idle
    <3> QED BY <1>2, <1>3, <3>1, <3>2, <3>3 DEF Ending
  <2>2. \A s \in SessionIds : Live(s)' => sessions'[s].user \in Users
    BY <1>3 DEF Ending, Live, SessionRow
  <2> QED BY <2>1, <2>2 DEF LiveInv, Exists
<1>12. LinkInv'
  <2>1. ASSUME NEW l \in Links, links'[l] # NULL, links'[l].state = "fresh"
        PROVE  accounts'[links'[l].user] # NULL
    <3>1. links'[l] = IF links[l] # NULL /\ links[l].user = u
                      THEN [links[l] EXCEPT !.state = "over"] ELSE links[l]
      BY DEF DeleteAccount
    <3>2. CASE links[l] # NULL /\ links[l].user = u
      BY <1>1, <2>1, <3>1, <3>2, LinkState DEF TypeOK
    <3>3. CASE links[l] = NULL \/ links[l].user # u
      <4>1. links'[l] = links[l] /\ links[l] \in LinkRow
        BY <1>1, <2>1, <3>1, <3>3 DEF TypeOK
      <4> QED BY <1>2, <2>1, <3>3, <4>1 DEF Inv, LinkInv, LinkRow
    <3> QED BY <3>2, <3>3
  <2> QED BY <2>1 DEF LinkInv
<1> QED BY <1>12, <1>1, <1>7, <1>8, <1>10, <1>11, IdleJob DEF Inv

\* A session that opens in one statement.
LEMMA KeepsOpening ==
  ASSUME Inv, Idle, job' = job, accounts' = accounts, links' = links, codes' = codes,
         pending' \in [Attempts -> Entry \cup {NULL}],
         NEW s \in SessionIds, NEW u \in Users, Exists(u), NEW p \in Nat, NEW way \in Ways,
         OpenSession(s, u, p, way, NULL), p = accounts[u].password
  PROVE  Inv'
<1>1. TypeOK /\ CodeInv /\ RecoveryCodeOnce /\ LinksProve /\ LiveInv /\ NULL \in Codes \cup {NULL}
  BY DEF Inv
<1>2. sessions' \in [SessionIds -> SessionRow \cup {NULL}]
  BY <1>1, Opened
<1>3. TypeOK'
  BY <1>1, <1>2 DEF TypeOK
<1>4. CodeInv' /\ RecoveryCodeOnce'
  BY <1>1, CodesOfNew
<1>5. LinksProve'
  BY <1>1, SameLinks, LinksKept
<1>6. LiveInv'
  BY <1>1, IdleJob, LiveNew
<1>7. LinkInv'
  BY <1>1, LinkInvKept DEF Inv
<1> QED BY <1>7, <1>3, <1>4, <1>5, <1>6, IdleJob DEF Inv

LEMMA KeepsLogin ==
  ASSUME Inv, NEW u \in Users, NEW s \in SessionIds, Login(u, s) \/ LoginOnPage(u, s) PROVE Inv'
<1>1. PICK way \in Ways : OpenSession(s, u, accounts[u].password, way, NULL)
  BY DEF Login, LoginOnPage, Ways
<1>2. /\ Idle /\ Exists(u) /\ job' = job /\ accounts' = accounts /\ links' = links
      /\ codes' = codes /\ pending' = pending
  BY DEF Login, LoginOnPage, Active
<1>3. accounts[u].password \in Nat /\ pending' \in [Attempts -> Entry \cup {NULL}]
  BY <1>2, UserFields DEF Inv, TypeOK, Exists
<1> QED BY <1>1, <1>2, <1>3, KeepsOpening

LEMMA KeepsDevice ==
  ASSUME Inv, NEW a \in Attempts, NEW s \in SessionIds, CompleteWithDevice(a, s) PROVE Inv'
<1>1. pending[a] \in Entry
  BY DEF Inv, TypeOK, CompleteWithDevice, Completable
<1>2. /\ pending[a].user \in Users /\ Exists(pending[a].user)
      /\ accounts[pending[a].user].password \in Nat
  <2>1. pending[a].user \in Users /\ Exists(pending[a].user)
    BY <1>1 DEF Entry, CompleteWithDevice, Completable, Active
  <2> QED BY <2>1, UserFields DEF Exists, Inv, TypeOK
<1>3. [pending[a] EXCEPT !.state = "over"] \in Entry
  BY <1>1, EntryOver
<1>4. /\ Idle /\ job' = job /\ accounts' = accounts /\ links' = links /\ codes' = codes
      /\ pending' = [pending EXCEPT ![a] = [pending[a] EXCEPT !.state = "over"]]
      /\ OpenSession(s, pending[a].user, accounts[pending[a].user].password, "second", NULL)
  BY DEF CompleteWithDevice
<1>5. pending' \in [Attempts -> Entry \cup {NULL}]
  BY <1>3, <1>4 DEF Inv, TypeOK
<1> QED BY <1>2, <1>4, <1>5, KeepsOpening DEF Ways

\* Steps between requests in which sessions only end, and attempts change.
LEMMA KeepsEnding ==
  ASSUME Inv, Idle, job' = job, accounts' = accounts, links' = links, codes' = codes, Ending,
         pending' \in [Attempts -> Entry \cup {NULL}]
  PROVE  Inv'
<1>1. TypeOK /\ CodeInv /\ RecoveryCodeOnce /\ LinksProve /\ LiveInv
  BY DEF Inv
<1>2. TypeOK'
  BY <1>1 DEF TypeOK, Ending
<1>3. CodeInv' /\ RecoveryCodeOnce'
  BY <1>1, SameCodes, CodesKept
<1>4. LinksProve'
  BY <1>1, SameLinks, LinksKept
<1>5. LiveInv'
  BY <1>1, IdleJob, LiveKept
<1>6. LinkInv'
  BY <1>1, LinkInvKept DEF Inv
<1> QED BY <1>6, <1>2, <1>3, <1>4, <1>5, IdleJob DEF Inv

LEMMA KeepsWaiting ==
  ASSUME Inv, NEW a \in Attempts, AttemptEnds(a) \/ \E u \in Users : LoginWaits(u, a) PROVE Inv'
<1>1. /\ Idle /\ job' = job /\ accounts' = accounts /\ links' = links /\ codes' = codes
      /\ sessions' = sessions
  BY DEF AttemptEnds, LoginWaits
<1>2. Ending
  BY <1>1, SameSessions DEF Inv
<1>3. CASE AttemptEnds(a)
  <2>1. [pending[a] EXCEPT !.state = "over"] \in Entry
    BY <1>3, EntryOver DEF AttemptEnds, Inv, TypeOK
  <2>2. pending' \in [Attempts -> Entry \cup {NULL}]
    BY <1>3, <2>1 DEF AttemptEnds, Inv, TypeOK
  <2> QED BY <1>1, <1>2, <2>2, KeepsEnding
<1>4. ASSUME NEW u \in Users, LoginWaits(u, a) PROVE Inv'
  <2>1. accounts[u].password \in Nat
    BY <1>4, UserFields DEF LoginWaits, Active, Exists, Inv, TypeOK
  <2>2. [user |-> u, state |-> "waiting"] \in Entry
    BY <2>1 DEF Entry
  <2>3. pending' \in [Attempts -> Entry \cup {NULL}]
    BY <1>4, <2>2 DEF LoginWaits, Inv, TypeOK
  <2> QED BY <1>1, <1>2, <2>3, KeepsEnding
<1> QED BY <1>3, <1>4

LEMMA KeepsRevoking ==
  ASSUME Inv, NEW s \in SessionIds,
         SessionEnds(s) \/ Logout(s) \/ RevokeOne(s) \/ RevokeOthers(s)
  PROVE  Inv'
<1>1. /\ Idle /\ job' = job /\ accounts' = accounts /\ links' = links /\ codes' = codes
      /\ pending' = pending /\ TypeOK
  BY DEF SessionEnds, Logout, RevokeOne, RevokeOthers, Inv
<1>2. CASE SessionEnds(s)
  <2>1. sessions[s] \in SessionRow /\ sessions[s] # NULL
    BY <1>1, <1>2 DEF SessionEnds, Live, TypeOK
  <2>2. sessions' = [t \in SessionIds |->
          IF t \in {s} THEN [sessions[t] EXCEPT !.state = "over"] ELSE sessions[t]]
    BY <1>1, <1>2 DEF SessionEnds, TypeOK
  <2>3. \A t \in SessionIds : t \in {s} => sessions[t] # NULL
    BY <2>1
  <2>4. Ending
    BY <1>1, <2>2, <2>3, EndedRow
  <2> QED BY <1>1, <2>4, KeepsEnding DEF TypeOK
<1>3. CASE Logout(s) \/ RevokeOne(s) \/ RevokeOthers(s)
  <2>1. PICK S : Revoke(S)
    BY <1>3 DEF Logout, RevokeOne, RevokeOthers
  <2>2. Ending
    BY <1>1, <2>1, Revoked
  <2> QED BY <1>1, <2>2, KeepsEnding DEF TypeOK
<1> QED BY <1>2, <1>3

\* A recovery code is spent: no session came of it before.
LEMMA KeepsCode ==
  ASSUME Inv, NEW a \in Attempts, NEW k \in Codes, CompleteWithCode(a, k) PROVE Inv'
<1> DEFINE u == pending[a].user
<1>1. /\ TypeOK /\ CodeInv /\ RecoveryCodeOnce /\ LinksProve /\ LiveInv /\ Idle
      /\ accounts' = accounts /\ sessions' = sessions /\ links' = links
      /\ pending[a] \in Entry /\ pending[a] # NULL
  BY DEF Inv, TypeOK, CompleteWithCode, Completable
<1>2. u \in Users /\ accounts[u].password \in Nat /\ accounts[u] # NULL /\ accounts[u].factor = "on"
  <2>1. u \in Users /\ accounts[u] # NULL /\ accounts[u].factor = "on"
    BY <1>1 DEF Entry, CompleteWithCode, Completable, Active, Exists, NeedsSecondFactor
  <2> QED BY <1>1, <2>1, UserFields DEF TypeOK
<1>3. /\ pending' = [pending EXCEPT ![a] = [pending[a] EXCEPT !.state = "over"]]
      /\ [pending[a] EXCEPT !.state = "over"] \in Entry
  BY <1>1, EntryOver DEF CompleteWithCode
<1>4. /\ codes[k] \in CodeRow /\ codes[k].state = "unused" /\ codes[k].user = u
      /\ codes' = [codes EXCEPT ![k] = [codes[k] EXCEPT !.state = "used"]]
  BY <1>1 DEF CompleteWithCode, Unused, SpendCode, TypeOK
<1>5. /\ codes'[k] = [codes[k] EXCEPT !.state = "used"]
      /\ \A j \in Codes : j # k => codes'[j] = codes[j]
  BY <1>1, <1>4 DEF TypeOK
<1>6. codes'[k] \in CodeRow /\ codes'[k].state = "used" /\ codes'[k].user = u /\ codes'[k] # NULL
  BY <1>4, <1>5, CodeState
<1> HIDE DEF u
<1>7. job' = Todo("open", u, accounts[u].password, "second", k)
  BY DEF CompleteWithCode, u
<1>8. /\ job' \in Job /\ job'.todo = "open" /\ job'.user = u /\ job'.way = "second" /\ job'.code = k
      /\ job'.password = accounts[u].password
  BY <1>2, <1>7, TodoType DEF Ways
<1>9. TypeOK'
  BY <1>1, <1>3, <1>4, <1>5, <1>6, <1>8 DEF TypeOK
<1>10. UsedStay
  BY <1>4, <1>5 DEF UsedStay
<1>11. CodeInv' /\ RecoveryCodeOnce'
  BY <1>1, <1>10, SameSessions, CodesKept
<1>12. LinksProve'
  BY <1>1, SameLinks, LinksKept
<1>13. LiveInv'
  BY <1>1, SameSessions, LiveKept DEF Idle
<1>14. \A s \in SessionIds : sessions[s] = NULL \/ sessions[s].code # k
  BY <1>1, <1>4 DEF CodeInv
<1>15. JobInv'
  BY <1>1, <1>2, <1>6, <1>8, <1>14 DEF JobInv, Exists
<1>16. LinkInv'
  BY <1>1, LinkInvKept DEF Inv
<1> QED BY <1>16, <1>9, <1>11, <1>12, <1>13, <1>15 DEF Inv

\* The session of a handler that wrote something before.
LEMMA KeepsOpenForJob == ASSUME Inv, NEW s \in SessionIds, OpenForJob(s) PROVE Inv'
<1>1. /\ TypeOK /\ CodeInv /\ RecoveryCodeOnce /\ LinksProve /\ LiveInv
      /\ job # NULL /\ job \in Job /\ job.todo = "open"
      /\ accounts' = accounts /\ links' = links /\ codes' = codes /\ pending' = pending
      /\ OpenSession(s, job.user, job.password, job.way, job.code)
      /\ job' = IF job.way = "register" THEN Todo("mail", job.user, 0, "register", NULL) ELSE NULL
  BY DEF Inv, TypeOK, OpenForJob, Idle
<1>2. job.user \in Users /\ job.password \in Nat /\ job.way \in Ways /\ job.code \in Codes \cup {NULL}
  BY <1>1 DEF Job
<1>3. /\ Exists(job.user)
      /\ job.password = accounts[job.user].password
      /\ job.code # NULL =>
           /\ codes[job.code] # NULL /\ codes[job.code].state = "used"
           /\ codes[job.code].user = job.user
           /\ \A t \in SessionIds : sessions[t] = NULL \/ sessions[t].code # job.code
  BY <1>1 DEF Inv, JobInv
<1>4. sessions' \in [SessionIds -> SessionRow \cup {NULL}]
  BY <1>1, <1>2, Opened
<1>5. CodeInv' /\ RecoveryCodeOnce'
  BY <1>1, <1>2, <1>3, CodesOfNew
<1>6. LinksProve'
  BY <1>1, SameLinks, LinksKept
<1>7. LiveInv'
  BY <1>1, <1>2, <1>3, LiveNew
<1>8. LinkInv'
  BY <1>1, LinkInvKept DEF Inv
<1>9. CASE job.way = "register"
  <2>0. job' = Todo("mail", job.user, 0, "register", NULL) /\ "register" \in Ways
    BY <1>1, <1>9 DEF Ways
  <2>1. job' \in Job /\ job'.todo = "mail" /\ job'.user = job.user /\ job'.code = NULL
    <3> DEFINE u == job.user
    <3>1. u \in Users /\ 0 \in Nat /\ NULL \in Codes \cup {NULL}
      BY <1>2
    <3> HIDE DEF u
    <3>2. job' = Todo("mail", u, 0, "register", NULL)
      BY <2>0 DEF u
    <3>3. job' \in Job /\ job'.todo = "mail" /\ job'.user = u /\ job'.code = NULL
      BY <2>0, <3>1, <3>2, TodoType
    <3> QED BY <3>3 DEF u
  <2>2. TypeOK'
    BY <1>1, <1>4, <2>1 DEF TypeOK
  <2>3. JobInv'
    BY <1>1, <1>2, <1>3, <2>1 DEF JobInv, Exists
  <2> QED BY <1>8, <1>5, <1>6, <1>7, <2>2, <2>3 DEF Inv
<1>10. CASE job.way # "register"
  <2>1. job' = NULL
    BY <1>1, <1>10
  <2>2. TypeOK' /\ JobInv'
    BY <1>1, <1>4, <2>1 DEF TypeOK, JobInv
  <2> QED BY <1>8, <1>5, <1>6, <1>7, <2>2 DEF Inv
<1> QED BY <1>9, <1>10

\* A link is sent or expires.
LEMMA KeepsLink ==
  ASSUME Inv, accounts' = accounts, sessions' = sessions, codes' = codes, pending' = pending,
         job' = NULL, job # NULL => job.todo # "revoke",
         LinkInv', links' \in [Links -> LinkRow \cup {NULL}],
         \A v \in Users, q \in Purposes : Used(v, q) \subseteq Used(v, q)'
  PROVE  Inv'
<1>1. TypeOK /\ CodeInv /\ RecoveryCodeOnce /\ LinksProve /\ LiveInv
  BY DEF Inv
<1>2. TypeOK' /\ JobInv'
  BY <1>1 DEF TypeOK, JobInv
<1>3. CodeInv' /\ RecoveryCodeOnce'
  BY <1>1, SameSessions, SameCodes, CodesKept
<1>4. LinksProve'
  BY <1>1, LinksKept
<1>5. LiveInv'
  BY <1>1, SameSessions, LiveKept
<1> QED BY <1>2, <1>3, <1>4, <1>5 DEF Inv

LEMMA KeepsSending ==
  ASSUME Inv, NEW l \in Links,
         MailForJob(l) \/ \E u \in Users : ResendLink(u, l) \/ RequestReset(u, l)
  PROVE  Inv'
<1>1. /\ accounts' = accounts /\ sessions' = sessions /\ codes' = codes /\ pending' = pending
      /\ job' = NULL /\ (job # NULL => job.todo # "revoke") /\ TypeOK
  BY DEF MailForJob, ResendLink, RequestReset, Idle, Inv
<1>2. PICK u \in Users, q \in Purposes : SendLink(l, u, q) /\ accounts[u] # NULL
  <2>1. CASE MailForJob(l)
    <3>1. /\ job.user \in Users /\ SendLink(l, job.user, "verify_email")
          /\ accounts[job.user] # NULL
      BY <2>1 DEF MailForJob, Idle, Inv, TypeOK, Job, JobInv, Exists
    <3> QED BY <3>1 DEF Purposes
  <2>2. CASE \E u \in Users : ResendLink(u, l) \/ RequestReset(u, l)
    BY <2>2 DEF ResendLink, RequestReset, Purposes, Exists
  <2> QED BY <2>1, <2>2
<1>3. /\ links' \in [Links -> LinkRow \cup {NULL}]
      /\ \A v \in Users, r \in Purposes : Used(v, r)' = Used(v, r)
  BY <1>1, <1>2, Sent
<1>4. LinkInv'
  <2>1. \A m \in Links : m # l => links'[m] = links[m]
    BY <1>1, <1>2 DEF SendLink, TypeOK
  <2>2. links'[l] = [user |-> u, purpose |-> q, state |-> "fresh"]
    BY <1>1, <1>2 DEF SendLink, TypeOK
  <2>3. links'[l].user = u
    BY <2>2
  <2> QED BY <1>1, <1>2, <2>1, <2>3 DEF Inv, LinkInv
<1> QED BY <1>1, <1>3, <1>4, KeepsLink

LEMMA KeepsLinkEnds == ASSUME Inv, NEW l \in Links, LinkEnds(l) PROVE Inv'
<1>1. /\ accounts' = accounts /\ sessions' = sessions /\ codes' = codes /\ pending' = pending
      /\ job' = NULL /\ job = NULL /\ TypeOK
  BY DEF LinkEnds, Idle, Inv
<1>2. /\ links[l] \in LinkRow /\ links[l].state = "fresh"
      /\ links' = [links EXCEPT ![l] = [links[l] EXCEPT !.state = "over"]]
  BY <1>1 DEF LinkEnds, TypeOK
<1>3. [links[l] EXCEPT !.state = "over"] \in LinkRow
  BY <1>2, LinkState
<1>4. links' \in [Links -> LinkRow \cup {NULL}]
  BY <1>1, <1>2, <1>3 DEF TypeOK
<1>5. \A m \in Links : m # l => links'[m] = links[m]
  BY <1>1, <1>2 DEF TypeOK
<1>6. \A v \in Users, q \in Purposes : Used(v, q) \subseteq Used(v, q)'
  BY <1>2, <1>5 DEF Used
<1>7. LinkInv'
  <2>1. links'[l] = [links[l] EXCEPT !.state = "over"]
    BY <1>1, <1>2 DEF TypeOK
  <2>2. links'[l].state = "over"
    BY <1>2, <2>1, LinkState
  <2> QED BY <1>1, <1>5, <2>2, LinkInvKept DEF Inv
<1> QED BY <1>1, <1>4, <1>6, <1>7, KeepsLink

\* A link is used up for a handler: what it is going to do is proven by it.
LEMMA KeepsConsuming ==
  ASSUME Inv, NEW l \in Links, OpenVerifyLink(l) \/ OpenResetLink(l) PROVE Inv'
<1> DEFINE u == links[l].user
<1>1. /\ TypeOK /\ CodeInv /\ RecoveryCodeOnce /\ LinksProve /\ LinkInv /\ LiveInv /\ Idle
      /\ accounts' = accounts /\ sessions' = sessions /\ codes' = codes /\ pending' = pending
  BY DEF OpenVerifyLink, OpenResetLink, Inv
<1>2. PICK purpose \in Purposes : Consumable(l, purpose) /\ Consume(l)
  BY DEF OpenVerifyLink, OpenResetLink, Purposes
<1>3. /\ links' \in [Links -> LinkRow \cup {NULL}] /\ u \in Users
      /\ \A v \in Users, q \in Purposes : Used(v, q) \subseteq Used(v, q)'
  BY <1>1, <1>2, Consumed
<1>4. links[l] \in LinkRow /\ links[l] # NULL /\ links[l].state = "fresh"
  BY <1>1, <1>2 DEF Consumable, TypeOK
<1>5. CodeInv' /\ RecoveryCodeOnce'
  BY <1>1, SameSessions, SameCodes, CodesKept
<1>6. LinksProve'
  BY <1>1, <1>3, LinksKept
<1>7. LiveInv'
  BY <1>1, SameSessions, LiveKept DEF Idle
<1>8. accounts[u] # NULL
  BY <1>1, <1>4 DEF LinkInv
<1>9. LinkInv'
  <2>1. /\ links'[l] = [links[l] EXCEPT !.state = "used"]
        /\ \A m \in Links : m # l => links'[m] = links[m]
    BY <1>1, <1>2 DEF Consume, TypeOK
  <2>2. links'[l].state = "used"
    BY <1>4, <2>1, LinkState
  <2> QED BY <1>1, <2>1, <2>2, LinkInvKept
<1>10. CASE OpenVerifyLink(l)
  <2>1. Consumable(l, "verify_email") /\ Consume(l) /\ "verify_email" \in Purposes
    BY <1>10 DEF OpenVerifyLink, Purposes
  <2>2. job' = Todo("verify", u, 0, "login", NULL)
    BY <1>10 DEF OpenVerifyLink
  <2>3. ASSUME NEW v, v = u PROVE Used(v, "verify_email")' # {}
    BY <1>1, <2>1, <2>3, Consumed
  <2> HIDE DEF u
  <2>4. job' \in Job /\ job'.todo = "verify" /\ job'.user = u /\ job'.code = NULL
    BY <1>3, <2>2, TodoType DEF Ways
  <2>5. TypeOK'
    BY <1>1, <1>3, <2>4 DEF TypeOK
  <2>6. JobInv'
    BY <1>1, <1>8, <2>3, <2>4 DEF JobInv, Exists
  <2> QED BY <1>5, <1>6, <1>7, <1>9, <2>5, <2>6 DEF Inv
<1>11. CASE OpenResetLink(l)
  <2>1. Consumable(l, "password_reset") /\ Consume(l) /\ "password_reset" \in Purposes
    BY <1>11 DEF OpenResetLink, Purposes
  <2>2. job' = Todo("password", u, 0, "login", NULL)
    BY <1>11 DEF OpenResetLink
  <2>3. ASSUME NEW v, v = u
        PROVE  accounts[v].password + 1 <= Cardinality(Used(v, "password_reset")')
    <3>1. Cardinality(Used(v, "password_reset")') = Cardinality(Used(v, "password_reset")) + 1
      BY <1>1, <2>1, <2>3, Consumed
    <3>2. v \in Users /\ accounts[v] # NULL
      BY <1>3, <1>8, <2>3
    <3>3. accounts[v].password <= Cardinality(Used(v, "password_reset"))
      BY <1>1, <3>2 DEF LinksProve, Exists
    <3>4. accounts[v].password \in Nat
      BY <1>1, <3>2, UserFields DEF TypeOK
    <3> QED BY <3>1, <3>3, <3>4, UsedFinite
  <2> HIDE DEF u
  <2>4. job' \in Job /\ job'.todo = "password" /\ job'.user = u /\ job'.code = NULL
    BY <1>3, <2>2, TodoType DEF Ways
  <2>5. TypeOK'
    BY <1>1, <1>3, <2>4 DEF TypeOK
  <2>6. JobInv'
    BY <1>1, <1>8, <2>3, <2>4 DEF JobInv, Exists
  <2> QED BY <1>5, <1>6, <1>7, <1>9, <2>5, <2>6 DEF Inv
<1> QED BY <1>10, <1>11

LEMMA KeepsVerified == ASSUME Inv, MarkVerified PROVE Inv'
<1> DEFINE u == job.user
           row == [accounts[u] EXCEPT !.verified = TRUE]
<1>1. /\ TypeOK /\ CodeInv /\ RecoveryCodeOnce /\ LinksProve /\ LinkInv /\ LiveInv
      /\ job # NULL /\ job.todo = "verify" /\ job' = NULL /\ accounts' = [accounts EXCEPT ![u] = row]
      /\ sessions' = sessions /\ links' = links /\ codes' = codes /\ pending' = pending
  BY DEF MarkVerified, Idle, Inv
<1>2. u \in Users /\ accounts[u] \in UserRow /\ accounts[u] # NULL /\ Used(u, "verify_email") # {}
  BY <1>1 DEF Inv, TypeOK, JobInv, Exists, Job
<1>3. row \in UserRow /\ row.password = accounts[u].password /\ row.cut = accounts[u].cut
  BY <1>2, RowVerified
<1>4. row # NULL
  BY <1>3
<1> HIDE DEF u, row
<1>5. /\ accounts' \in [Users -> UserRow \cup {NULL}] /\ accounts'[u] = row
      /\ \A v \in Users : v # u => accounts'[v] = accounts[v]
  BY <1>1, <1>2, <1>3, Replaced
<1>6. TypeOK' /\ JobInv'
  BY <1>1, <1>5 DEF TypeOK, JobInv
<1>7. CodeInv' /\ RecoveryCodeOnce'
  BY <1>1, SameSessions, SameCodes, CodesKept
<1>8. LinksProve'
  BY <1>1, <1>2, <1>3, <1>5, SameLinks DEF LinksProve, Exists
<1>9. LiveInv'
  BY <1>1, <1>2, <1>3, <1>4, <1>5, SameSessions, LiveKept
<1>10. LinkInv'
  BY <1>1, <1>4, <1>5, LinkInvKept
<1> QED BY <1>6, <1>7, <1>8, <1>9, <1>10 DEF Inv

LEMMA KeepsPassword == ASSUME Inv, SetPassword PROVE Inv'
<1> DEFINE u == job.user
           row == [accounts[u] EXCEPT !.password = accounts[u].password + 1]
<1>1. /\ TypeOK /\ CodeInv /\ RecoveryCodeOnce /\ LinksProve /\ LinkInv /\ LiveInv
      /\ job # NULL /\ job.todo = "password" /\ accounts' = [accounts EXCEPT ![u] = row]
      /\ job' = Todo("revoke", u, 0, "login", NULL)
      /\ sessions' = sessions /\ links' = links /\ codes' = codes /\ pending' = pending
  BY DEF SetPassword, Idle, Inv
<1>2. /\ u \in Users /\ accounts[u] \in UserRow /\ accounts[u] # NULL
      /\ accounts[u].password + 1 <= Cardinality(Used(u, "password_reset"))
  BY <1>1 DEF Inv, TypeOK, JobInv, Exists, Job
<1>3. row \in UserRow /\ row.verified = accounts[u].verified /\ row.password = accounts[u].password + 1
  BY <1>2, RowPassword
<1>4. row # NULL
  BY <1>3
<1> HIDE DEF u, row
<1>5. /\ accounts' \in [Users -> UserRow \cup {NULL}] /\ accounts'[u] = row
      /\ \A v \in Users : v # u => accounts'[v] = accounts[v]
  BY <1>1, <1>2, <1>3, Replaced
<1>6. job' \in Job /\ job'.todo = "revoke" /\ job'.user = u /\ job'.code = NULL
  BY <1>1, <1>2, TodoType DEF Ways
<1>7. TypeOK'
  BY <1>1, <1>5, <1>6 DEF TypeOK
<1>8. JobInv'
  BY <1>4, <1>5, <1>6 DEF JobInv, Exists
<1>9. CodeInv' /\ RecoveryCodeOnce'
  BY <1>1, SameSessions, SameCodes, CodesKept
<1>10. LinksProve'
  BY <1>1, <1>2, <1>3, <1>5, SameLinks DEF LinksProve, Exists
<1>11. LiveInv'
  <2>1. ASSUME NEW s \in SessionIds, Live(s)
        PROVE  /\ accounts'[sessions[s].user] # NULL
               /\ \/ sessions[s].password = accounts'[sessions[s].user].password
                  \/ accounts'[sessions[s].user].cut
                  \/ job'.user = sessions[s].user
    <3>1. sessions[s].user \in Users
      BY <1>1, <2>1 DEF Live, TypeOK, SessionRow
    <3>2. CASE sessions[s].user = u
      BY <1>4, <1>5, <1>6, <3>2
    <3>3. CASE sessions[s].user # u
      BY <1>1, <1>5, <2>1, <3>1, <3>3 DEF LiveInv, Exists
    <3> QED BY <3>2, <3>3
  <2>2. job' # NULL
    BY <1>6
  <2> QED BY <1>1, <1>6, <2>1, <2>2 DEF LiveInv, Live, Exists
<1>12. LinkInv'
  BY <1>1, <1>4, <1>5, LinkInvKept
<1> QED BY <1>7, <1>8, <1>9, <1>10, <1>11, <1>12 DEF Inv

\* The last statement of a reset: no session of the account stays.
LEMMA KeepsSignOut == ASSUME Inv, SignOutEverywhere PROVE Inv'
<1> DEFINE u == job.user
           row == [accounts[u] EXCEPT !.cut = FALSE]
<1>1. /\ TypeOK /\ CodeInv /\ RecoveryCodeOnce /\ LinksProve /\ LinkInv /\ LiveInv
      /\ job # NULL /\ job.todo = "revoke" /\ job' = NULL /\ accounts' = [accounts EXCEPT ![u] = row]
      /\ Revoke(SessionsOf(u)) /\ links' = links /\ codes' = codes /\ pending' = pending
  BY DEF SignOutEverywhere, EndedByReset, Idle, Inv
<1>2. u \in Users /\ accounts[u] \in UserRow /\ accounts[u] # NULL
  BY <1>1 DEF Inv, TypeOK, JobInv, Exists, Job
<1>3. /\ row \in UserRow /\ row.verified = accounts[u].verified
      /\ row.password = accounts[u].password
  BY <1>2 DEF UserRow
<1>4. row # NULL
  BY <1>3
<1> HIDE DEF u, row
<1>5. /\ accounts' \in [Users -> UserRow \cup {NULL}] /\ accounts'[u] = row
      /\ \A v \in Users : v # u => accounts'[v] = accounts[v]
  BY <1>1, <1>2, <1>3, Replaced
<1>6. Ending /\ \A s \in SessionIds : s \in SessionsOf(u) => ~Live(s)'
  BY <1>1, Revoked
<1>7. TypeOK' /\ JobInv'
  BY <1>1, <1>5, <1>6 DEF TypeOK, JobInv, Ending
<1>8. CodeInv' /\ RecoveryCodeOnce'
  BY <1>1, <1>6, SameCodes, CodesKept
<1>9. LinksProve'
  BY <1>1, <1>2, <1>3, <1>5, SameLinks, LinksKept
<1>10. LiveInv'
  <2>1. ASSUME NEW s \in SessionIds, Live(s)', NEW v \in Users, v = sessions'[s].user
        PROVE  /\ accounts'[v] # NULL
               /\ \/ sessions'[s].password = accounts'[v].password
                  \/ accounts'[v].cut
    <3>1. Live(s) /\ sessions[s] # NULL /\ v = sessions[s].user
      BY <1>6, <2>1 DEF Ending, Live
    <3>2. v # u
      BY <1>6, <2>1, <3>1 DEF SessionsOf
    <3>3. /\ accounts[v] # NULL
          /\ \/ sessions[s].password = accounts[v].password
             \/ accounts[v].cut
      BY <1>1, <3>1, <3>2 DEF LiveInv, Exists, u
    <3> QED BY <1>5, <1>6, <3>1, <3>2, <3>3 DEF Ending
  <2>2. \A s \in SessionIds : Live(s)' => sessions'[s].user \in Users
    BY <1>6 DEF Ending, Live, SessionRow
  <2> QED BY <2>1, <2>2 DEF LiveInv, Exists
<1>11. LinkInv'
  BY <1>1, <1>4, <1>5, LinkInvKept
<1> QED BY <1>7, <1>8, <1>9, <1>10, <1>11 DEF Inv

\* The second factor changes, and the recovery codes with it.
LEMMA KeepsFactor ==
  ASSUME Inv, NEW u \in Users, NEW v \in {"off", "setup", "on"}, Active(u), Idle,
         accounts' = [accounts EXCEPT ![u].factor = v],
         codes' \in [Codes -> CodeRow \cup {NULL}], UsedStay,
         job' = job, sessions' = sessions, links' = links, pending' = pending
  PROVE  Inv'
<1> DEFINE row == [accounts[u] EXCEPT !.factor = v]
<1>1. accounts[u] \in UserRow /\ accounts[u] # NULL
  BY DEF Active, Exists, Inv, TypeOK
<1>2. /\ row \in UserRow /\ row.verified = accounts[u].verified
      /\ row.password = accounts[u].password /\ row.cut = accounts[u].cut
  BY <1>1, RowFactor
<1>3. accounts' = [accounts EXCEPT ![u] = row]
  OBVIOUS
<1> HIDE DEF row
<1> QED BY <1>1, <1>2, <1>3, KeepsAccount

LEMMA KeepsSecond ==
  ASSUME Inv, NEW u \in Users,
         SetupFactor(u) \/ DisableFactor(u) \/ \E K \in SUBSET Codes : EnableFactor(u, K)
  PROVE  Inv'
<1>1. TypeOK
  BY DEF Inv
<1>2. CASE SetupFactor(u)
  <2>1. /\ Active(u) /\ Idle /\ accounts' = [accounts EXCEPT ![u].factor = "setup"]
        /\ job' = job /\ sessions' = sessions /\ links' = links /\ pending' = pending
        /\ codes' = codes
    BY <1>2 DEF SetupFactor
  <2>2. codes' \in [Codes -> CodeRow \cup {NULL}] /\ UsedStay
    BY <1>1, <2>1, SameCodes DEF TypeOK
  <2> QED BY <2>1, <2>2, KeepsFactor
<1>3. CASE DisableFactor(u)
  <2>1. /\ Active(u) /\ Idle /\ accounts' = [accounts EXCEPT ![u].factor = "off"]
        /\ job' = job /\ sessions' = sessions /\ links' = links /\ pending' = pending
        /\ VoidCodes(u)
    BY <1>3 DEF DisableFactor
  <2>2. codes' \in [Codes -> CodeRow \cup {NULL}] /\ UsedStay
    BY <1>1, <2>1, Voided
  <2> QED BY <2>1, <2>2, KeepsFactor
<1>4. ASSUME NEW K \in SUBSET Codes, EnableFactor(u, K) PROVE Inv'
  <2> DEFINE row == [user |-> u, state |-> "unused"]
  <2>1. /\ Active(u) /\ Idle /\ accounts' = [accounts EXCEPT ![u].factor = "on"]
        /\ job' = job /\ sessions' = sessions /\ links' = links /\ pending' = pending
        /\ \A k \in K : codes[k] = NULL
        /\ codes' = [k \in Codes |-> IF k \in K THEN row ELSE codes[k]]
    BY <1>4 DEF EnableFactor
  <2>2. row \in CodeRow
    BY DEF CodeRow
  <2>3. codes' \in [Codes -> CodeRow \cup {NULL}] /\ UsedStay
    <3> HIDE DEF row
    <3> QED BY <1>1, <2>1, <2>2 DEF TypeOK, UsedStay
  <2> QED BY <2>1, <2>3, KeepsFactor
<1> QED BY <1>2, <1>3, <1>4

\* The process is killed anywhere: a reset that did not end the sessions yet is
\* remembered as cut.
LEMMA KeepsRestart == ASSUME Inv, Restart PROVE Inv'
<1>1. /\ TypeOK /\ CodeInv /\ RecoveryCodeOnce /\ LinksProve /\ LinkInv /\ LiveInv
      /\ job' = NULL /\ sessions' = sessions /\ links' = links /\ codes' = codes
  BY DEF Restart, Inv
<1> DEFINE Cut(v) == ~Idle /\ job.todo = "revoke" /\ job.user = v
<1>2. accounts' = [v \in Users |-> IF Cut(v) THEN [accounts[v] EXCEPT !.cut = TRUE] ELSE accounts[v]]
  BY DEF Restart
<1>3. \A v \in Users : Cut(v) => accounts[v] \in UserRow /\ accounts[v] # NULL
  BY <1>1 DEF Inv, TypeOK, JobInv, Exists, Idle
<1>4. ASSUME NEW v \in Users
      PROVE  /\ accounts'[v] \in UserRow \cup {NULL}
             /\ accounts'[v] = NULL <=> accounts[v] = NULL
             /\ accounts[v] # NULL => /\ accounts'[v].verified = accounts[v].verified
                                      /\ accounts'[v].password = accounts[v].password
                                      /\ Cut(v) \/ accounts[v].cut => accounts'[v].cut
  <2>1. CASE Cut(v)
    <3> DEFINE row == [accounts[v] EXCEPT !.cut = TRUE]
    <3>1. accounts'[v] = row
      BY <1>2, <2>1
    <3>2. accounts[v] \in UserRow /\ accounts[v] # NULL
      BY <1>3, <2>1
    <3>3. /\ row \in UserRow /\ row.verified = accounts[v].verified
          /\ row.password = accounts[v].password /\ row.cut = TRUE
      BY <3>2 DEF UserRow
    <3>4. row # NULL
      BY <3>3
    <3> HIDE DEF row
    <3> QED BY <3>1, <3>2, <3>3, <3>4
  <2>2. CASE ~Cut(v)
    <3>1. accounts'[v] = accounts[v]
      BY <1>2, <2>2
    <3> QED BY <1>1, <2>2, <3>1 DEF TypeOK
  <2> QED BY <2>1, <2>2
<1>5. accounts' \in [Users -> UserRow \cup {NULL}]
  BY <1>2, <1>4
<1>6. pending' \in [Attempts -> Entry \cup {NULL}]
  BY <1>1, EntryOver DEF Restart, Forget, TypeOK
<1>7. TypeOK' /\ JobInv'
  BY <1>1, <1>5, <1>6 DEF TypeOK, JobInv
<1>8. CodeInv' /\ RecoveryCodeOnce'
  BY <1>1, SameSessions, SameCodes, CodesKept
<1>9. LinksProve'
  BY <1>1, <1>4, SameLinks, LinksKept
<1>10. LinkInv'
  BY <1>1, <1>4, LinkInvKept
<1>11. LiveInv'
  <2>1. ASSUME NEW s \in SessionIds, Live(s), NEW v \in Users, v = sessions[s].user
        PROVE  /\ accounts'[v] # NULL
               /\ \/ sessions[s].password = accounts'[v].password
                  \/ accounts'[v].cut
    <3>1. /\ accounts[v] # NULL
          /\ \/ sessions[s].password = accounts[v].password
             \/ accounts[v].cut
             \/ Cut(v)
      BY <1>1, <2>1 DEF LiveInv, Exists, Idle
    <3> QED BY <1>4, <3>1
  <2>2. \A s \in SessionIds : Live(s) => sessions[s].user \in Users
    BY <1>1 DEF TypeOK, Live, SessionRow
  <2> QED BY <1>1, <2>1, <2>2 DEF LiveInv, Exists, Live
<1> QED BY <1>7, <1>8, <1>9, <1>10, <1>11 DEF Inv

-----------------------------------------------------------------------------

LEMMA InvInit == Init => Inv
<1> SUFFICES ASSUME Init PROVE Inv
  OBVIOUS
<1> QED
  BY DEF Init, Inv, TypeOK, CodeInv, RecoveryCodeOnce, LinksProve, LinkInv, LiveInv, JobInv,
         Live, Exists

LEMMA InvStep == Inv /\ [Next]_vars => Inv'
<1>1. ASSUME Inv, AccountSteps PROVE Inv'
  BY <1>1, KeepsRegister, KeepsDelete, KeepsSetActive, KeepsWaiting, KeepsLogin, KeepsSending,
     KeepsSecond
  DEF AccountSteps
<1>2. ASSUME Inv, SessionSteps PROVE Inv'
  BY <1>2, KeepsOpenForJob, KeepsRevoking DEF SessionSteps
<1>3. ASSUME Inv, AttemptSteps PROVE Inv'
  BY <1>3, KeepsWaiting, KeepsDevice, KeepsCode DEF AttemptSteps
<1>4. ASSUME Inv, LinkSteps PROVE Inv'
  BY <1>4, KeepsSending, KeepsLinkEnds, KeepsConsuming, KeepsVerified, KeepsPassword, KeepsSignOut
  DEF LinkSteps
<1>5. ASSUME Inv, Restart PROVE Inv'
  BY <1>5, KeepsRestart
<1>6. ASSUME Inv, UNCHANGED vars PROVE Inv'
  <2>1. Used(1, 1)' = Used(1, 1) /\ \A v, q : Used(v, q)' = Used(v, q)
    BY <1>6, SameLinks DEF vars
  <2> QED
    BY <1>6, <2>1 DEF vars, Inv, TypeOK, CodeInv, RecoveryCodeOnce, LinksProve, LinkInv, LiveInv,
                      JobInv, Live, Exists
<1> QED BY <1>1, <1>2, <1>3, <1>4, <1>5, <1>6 DEF Next

LEMMA InvAlways == Spec => []Inv
BY InvInit, InvStep, PTL DEF Spec

\* Sessions, links, recovery codes and the handler in progress keep their types.
THEOREM SessionsTypeCorrect == Spec => []TypeOK
<1>1. Inv => TypeOK
  BY DEF Inv
<1> QED BY <1>1, InvAlways, PTL

\* After a reset no session lives on that was opened before it, unless the reset
\* was killed before its last statement.
THEOREM ResetsForceSignIn == Spec => []ResetForcesSignIn
<1>1. Inv => ResetForcesSignIn
  BY DEF Inv, LiveInv, ResetForcesSignIn, Idle
<1> QED BY <1>1, InvAlways, PTL

\* One recovery code, one session, wherever the process is killed.
THEOREM RecoveryCodesOnce == Spec => []RecoveryCodeOnce
<1>1. Inv => RecoveryCodeOnce
  BY DEF Inv
<1> QED BY <1>1, InvAlways, PTL

\* A verified address and every change of a password rest on a link of their own.
THEOREM LinksAlwaysProve == Spec => []LinksProve
<1>1. Inv => LinksProve
  BY DEF Inv
<1> QED BY <1>1, InvAlways, PTL

-----------------------------------------------------------------------------

Shown ==
  \A s \in SessionIds :
    sessions[s] = NULL /\ sessions'[s] # NULL /\ sessions'[s].way # "page" =>
      (sessions'[s].way = "second" <=> accounts[sessions'[s].user].factor = "on")

\* A statement that opens no session.
LEMMA ShownIfNone ==
  ASSUME \A s \in SessionIds : sessions[s] = NULL => sessions'[s] = NULL
  PROVE  Shown
BY DEF Shown

LEMMA ShownIfOpened ==
  ASSUME TypeOK, NEW s \in SessionIds, NEW u \in Users, NEW p \in Nat, NEW way \in Ways,
         NEW k \in Codes \cup {NULL}, OpenSession(s, u, p, way, k),
         way = "page" \/ (way = "second" <=> accounts[u].factor = "on")
  PROVE  Shown
BY Opened DEF Shown

\* Of the handlers that open a session each knows whether the factor is on; the
\* one that wrote something before still does.
LEMMA StepShown == Inv /\ [Next]_vars => Shown
<1> SUFFICES ASSUME Inv, [Next]_vars PROVE Shown
  OBVIOUS
<1>1. TypeOK /\ JobInv
  BY DEF Inv
<1>2. ASSUME NEW u \in Users, NEW s \in SessionIds, Login(u, s) \/ LoginOnPage(u, s) PROVE Shown
  <2>1. accounts[u].password \in Nat
    BY <1>1, <1>2, UserFields DEF TypeOK, Login, LoginOnPage, Active, Exists
  <2> QED BY <1>1, <1>2, <2>1, ShownIfOpened DEF Login, LoginOnPage, NeedsSecondFactor, Ways
<1>3. ASSUME NEW a \in Attempts, NEW s \in SessionIds, CompleteWithDevice(a, s) PROVE Shown
  <2>1. /\ pending[a] \in Entry /\ Exists(pending[a].user)
        /\ accounts[pending[a].user].factor = "on"
        /\ OpenSession(s, pending[a].user, accounts[pending[a].user].password, "second", NULL)
    BY <1>1, <1>3 DEF TypeOK, CompleteWithDevice, Completable, Active, NeedsSecondFactor
  <2>2. pending[a].user \in Users
    BY <2>1 DEF Entry
  <2>3. accounts[pending[a].user].password \in Nat
    BY <1>1, <2>1, <2>2, UserFields DEF TypeOK, Exists
  <2> QED BY <1>1, <2>1, <2>2, <2>3, ShownIfOpened DEF Ways
<1>4. ASSUME NEW s \in SessionIds, OpenForJob(s) PROVE Shown
  <2>1. /\ job \in Job /\ job.todo = "open"
        /\ OpenSession(s, job.user, job.password, job.way, job.code)
    BY <1>1, <1>4 DEF TypeOK, OpenForJob, Idle
  <2>2. /\ job.user \in Users /\ job.password \in Nat /\ job.way \in Ways
        /\ job.code \in Codes \cup {NULL}
    BY <2>1 DEF Job
  <2>3. job.way = "second" <=> accounts[job.user].factor = "on"
    BY <1>1, <1>4, <2>1 DEF JobInv, OpenForJob, Idle
  <2> QED BY <1>1, <2>1, <2>2, <2>3, ShownIfOpened
<1>5. ASSUME NEW s \in SessionIds, Logout(s) \/ RevokeOne(s) \/ RevokeOthers(s) \/ SessionEnds(s)
      PROVE  Shown
  <2>1. \A t \in SessionIds : sessions[t] = NULL => sessions'[t] = NULL
    BY <1>1, <1>5 DEF TypeOK, Logout, RevokeOne, RevokeOthers, SessionEnds, Revoke, Live
  <2> QED BY <2>1, ShownIfNone
<1>6. ASSUME NEW u \in Users, DeleteAccount(u) PROVE Shown
  <2>1. \A t \in SessionIds : sessions[t] = NULL => sessions'[t] = NULL
    BY <1>6 DEF DeleteAccount, SessionsOf
  <2> QED BY <2>1, ShownIfNone
<1>7. ASSUME SignOutEverywhere PROVE Shown
  <2>1. \A t \in SessionIds : sessions[t] = NULL => sessions'[t] = NULL
    BY <1>7 DEF SignOutEverywhere, Revoke, Live
  <2> QED BY <2>1, ShownIfNone
<1>8. ASSUME UNCHANGED sessions PROVE Shown
  BY <1>8, ShownIfNone
<1>9. ASSUME AccountSteps PROVE Shown
  BY <1>2, <1>6, <1>8, <1>9
  DEF AccountSteps, Register, SetActive, LoginWaits, ResendLink, RequestReset,
      SetupFactor, DisableFactor, EnableFactor
<1>10. ASSUME SessionSteps PROVE Shown
  BY <1>4, <1>5, <1>8, <1>10 DEF SessionSteps
<1>11. ASSUME AttemptSteps PROVE Shown
  BY <1>3, <1>8, <1>11 DEF AttemptSteps, AttemptEnds, CompleteWithCode
<1>12. ASSUME LinkSteps PROVE Shown
  BY <1>7, <1>8, <1>12
  DEF LinkSteps, MailForJob, LinkEnds, OpenVerifyLink, OpenResetLink, MarkVerified, SetPassword
<1> QED BY <1>8, <1>9, <1>10, <1>11, <1>12 DEF Next, Restart, vars

\* With the second factor on, a session of the web client is opened only after
\* it was shown, and the handler in progress cannot be overtaken.
THEOREM SecondFactorAlwaysShown == Spec => SecondFactorShown
<1>1. Inv /\ [Next]_vars => [Shown]_vars
  BY StepShown
<1> QED BY <1>1, InvAlways, PTL DEF Spec, SecondFactorShown, Shown

==============================================================================
