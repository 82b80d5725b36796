----------------------------- MODULE GrantsProofs -----------------------------
(***************************************************************************)
(* Theorems about Grants, for any accounts, codes and tokens: one live     *)
(* pair per authorization, and Grants implements Authorization.            *)
(***************************************************************************)
EXTENDS Grants, TLAPS

USE NullIsNoToken, TokensDiffer, NullIsNoTokenRow

\* A token of an authorization belongs to a code that was redeemed, and to the
\* account that redeemed it.
Descent ==
  /\ \A p \in Pats : pats[p] # NULL /\ pats[p].auth # NULL =>
       /\ codes[pats[p].auth] # NULL /\ codes[pats[p].auth].used
       /\ codes[pats[p].auth].user = pats[p].user
  /\ \A r \in RefreshIds : refresh[r] # NULL =>
       /\ codes[refresh[r].auth] # NULL /\ codes[refresh[r].auth].used
       /\ codes[refresh[r].auth].user = refresh[r].user

\* What the rest of a handler may rely on: it mints for an active account and a
\* redeemed code, and only when nothing of the old pair is left.
JobInv ==
  job # NULL =>
    /\ job.todo \in {"retire", "unpair"} => job.pat \in Pats
    /\ job.todo # "unpair" =>
         /\ job.auth \in Codes /\ Active(job.user) /\ LiveRefresh(job.auth) = {}
         /\ codes[job.auth] # NULL /\ codes[job.auth].used /\ codes[job.auth].user = job.user
    /\ job.todo = "retire" => LivePats(job.auth) \subseteq {job.pat}
    /\ job.todo = "mint" => LivePats(job.auth) = {}
    /\ job.todo = "pair" => job.pat \in Pats /\ LivePats(job.auth) = {job.pat}

Core == Descent /\ OneLivePair /\ RefreshRenewsItsPair

Inv == TypeOK /\ Core /\ JobInv

\* A step in which tokens at most die: nothing is minted, no code is redeemed,
\* and what a row says of its account, authorization and pair stays.
Dying ==
  /\ \A p \in Pats :
       /\ pats'[p] = NULL <=> pats[p] = NULL
       /\ pats[p] # NULL => pats'[p].auth = pats[p].auth /\ pats'[p].user = pats[p].user
       /\ Live(pats[p])' => Live(pats[p])
  /\ \A r \in RefreshIds :
       /\ refresh'[r] = NULL <=> refresh[r] = NULL
       /\ refresh[r] # NULL => /\ refresh'[r].auth = refresh[r].auth
                               /\ refresh'[r].user = refresh[r].user
                               /\ refresh'[r].pat = refresh[r].pat
       /\ Live(refresh[r])' => Live(refresh[r])
  /\ \A c \in Codes :
       /\ codes'[c] = NULL <=> codes[c] = NULL
       /\ codes[c] # NULL => codes'[c].used = codes[c].used /\ codes'[c].user = codes[c].user

-----------------------------------------------------------------------------

\* Changing the state of a row, or the expiry of a code, keeps the rest of it.
LEMMA PatState ==
  ASSUME NEW row \in PatRow, NEW state \in {"live", "revoked", "deleted"},
         NEW new, new = [row EXCEPT !.state = state]
  PROVE  new \in PatRow /\ new.auth = row.auth /\ new.user = row.user /\ new.state = state
BY DEF PatRow

LEMMA RefreshState ==
  ASSUME NEW row \in RefreshRow, NEW state \in {"live", "revoked", "deleted"},
         NEW new, new = [row EXCEPT !.state = state]
  PROVE  /\ new \in RefreshRow /\ new.auth = row.auth /\ new.user = row.user
         /\ new.pat = row.pat /\ new.state = state
BY DEF RefreshRow

LEMMA CodeOver ==
  ASSUME NEW row \in CodeRow, NEW new, new = [row EXCEPT !.over = TRUE]
  PROVE  new \in CodeRow /\ new.used = row.used /\ new.user = row.user
BY DEF CodeRow

\* What is left to do is about tokens that exist.
LEMMA TodoType ==
  ASSUME NEW todo \in {"retire", "mint", "pair", "unpair"}, NEW u \in Users,
         NEW c \in Codes \cup {NULL}, NEW p \in Pats \cup {NULL}
  PROVE  Todo(todo, u, c, p) \in Job
BY DEF Todo, Job

-----------------------------------------------------------------------------

\* Tables and the running handler keep their types.
LEMMA GrantsType == ASSUME TypeOK, JobInv, Next PROVE TypeOK'
<1> USE DEF TypeOK
<1>1. ASSUME NEW u \in Users, Register(u) PROVE TypeOK'
  BY <1>1 DEF Register
<1>2. ASSUME NEW u \in Users, DeleteAccount(u) PROVE TypeOK'
  <2>1. codes' \in [Codes -> CodeRow \cup {NULL}]
    BY <1>2, CodeOver DEF DeleteAccount
  <2>2. pats' \in [Pats -> PatRow \cup {NULL}]
    BY <1>2, PatState DEF DeleteAccount, Gone
  <2>3. refresh' \in [RefreshIds -> RefreshRow \cup {NULL}]
    BY <1>2, RefreshState DEF DeleteAccount, Gone
  <2> QED BY <1>2, <2>1, <2>2, <2>3 DEF DeleteAccount
<1>3. ASSUME NEW u \in Users, NEW state \in {"active", "inactive"}, SetActive(u, state) PROVE TypeOK'
  BY <1>3 DEF SetActive
<1>4. ASSUME NEW c \in Codes, ExpireCode(c) PROVE TypeOK'
  <2>1. [codes[c] EXCEPT !.over = TRUE] \in CodeRow
    BY <1>4, CodeOver DEF ExpireCode
  <2> QED BY <1>4, <2>1 DEF ExpireCode
<1>5. ASSUME NEW c \in Codes, Redeem(c) PROVE TypeOK'
  <2>1. codes[c] \in CodeRow
    BY <1>5 DEF Redeem, Redeemable
  <2>2. [codes[c] EXCEPT !.used = TRUE] \in CodeRow /\ codes[c].user \in Users
    BY <2>1 DEF CodeRow
  <2>3. job' \in Job \cup {NULL}
    BY <1>5, <2>2, TodoType DEF Redeem
  <2> QED BY <1>5, <2>2, <2>3 DEF Redeem
<1>6. ASSUME NEW u \in Users, NEW c \in Codes, Consent(u, c) PROVE TypeOK'
  <2>1. [user |-> u, used |-> FALSE, over |-> FALSE] \in CodeRow
    BY DEF CodeRow
  <2> QED BY <1>6, <2>1 DEF Consent
<1>7. ASSUME NEW p \in Pats, MintAccess(p) PROVE TypeOK'
  <2>1. job \in Job
    BY <1>7 DEF MintAccess, Idle
  <2>2. [user |-> job.user, auth |-> job.auth, state |-> "live"] \in PatRow
    BY <2>1 DEF Job, PatRow
  <2>3. job' \in Job
    BY <1>7, <2>1, TodoType DEF MintAccess, Job
  <2> QED BY <1>7, <2>2, <2>3 DEF MintAccess
<1>8. ASSUME NEW p \in Pats, RevokeToken(p) PROVE TypeOK'
  <2>1. pats[p] \in PatRow
    BY <1>8 DEF RevokeToken, Live
  <2>2. Revoked(pats[p]) \in PatRow
    BY <2>1, PatState DEF Revoked
  <2>3. job' \in Job
    BY <1>8, <2>1, TodoType DEF RevokeToken, PatRow
  <2> QED BY <1>8, <2>2, <2>3 DEF RevokeToken
<1>9. ASSUME NEW u \in Users, NEW p \in Pats, CreateToken(u, p) PROVE TypeOK'
  <2>1. [user |-> u, auth |-> NULL, state |-> "live"] \in PatRow
    BY DEF PatRow
  <2> QED BY <1>9, <2>1 DEF CreateToken
<1>10. ASSUME NEW r \in RefreshIds, Exchange(r) PROVE TypeOK'
  <2>1. refresh[r] \in RefreshRow
    BY <1>10 DEF Exchange, Live
  <2>2. Revoked(refresh[r]) \in RefreshRow
    BY <2>1, RefreshState DEF Revoked
  <2>3. job' \in Job
    BY <1>10, <2>1, TodoType DEF Exchange, AfterUse, RefreshRow
  <2> QED BY <1>10, <2>2, <2>3 DEF Exchange
<1>11. ASSUME NEW r \in RefreshIds, MintRefresh(r) PROVE TypeOK'
  <2>1. job \in Job /\ job.auth \in Codes /\ job.pat \in Pats
    BY <1>11 DEF MintRefresh, Idle, JobInv
  <2>2. [user |-> job.user, auth |-> job.auth, pat |-> job.pat, state |-> "live"] \in RefreshRow
    BY <1>11, <2>1 DEF Job, RefreshRow
  <2> QED BY <1>11, <2>2 DEF MintRefresh
<1>12. ASSUME RetireAccess PROVE TypeOK'
  <2>1. job \in Job /\ job.pat \in Pats
    BY <1>12 DEF RetireAccess, Idle, JobInv
  <2>2. IfLive(pats[job.pat]) \in PatRow \cup {NULL}
    <3> DEFINE row == pats[job.pat]
    <3>1. row \in PatRow \cup {NULL}
      BY <2>1
    <3>2. ASSUME Live(row) PROVE IfLive(row) \in PatRow
      BY <3>1, <3>2, PatState DEF IfLive, Live, Revoked
    <3>3. ASSUME ~Live(row) PROVE IfLive(row) = row
      BY <3>3 DEF IfLive
    <3> QED BY <3>1, <3>2, <3>3
  <2>3. job' \in Job
    BY <1>12, <2>1, TodoType DEF RetireAccess, Job
  <2> QED BY <1>12, <2>1, <2>2, <2>3 DEF RetireAccess
<1>13. ASSUME RevokePaired PROVE TypeOK'
  <2>1. \A r \in RefreshIds : IfLive(refresh[r]) \in RefreshRow \cup {NULL}
    BY RefreshState DEF IfLive, Live, Revoked
  <2> QED BY <1>13, <2>1 DEF RevokePaired
<1>14. ASSUME Crash PROVE TypeOK'
  BY <1>14 DEF Crash
<1> QED
  BY <1>1, <1>2, <1>3, <1>4, <1>5, <1>6, <1>7, <1>8, <1>9, <1>10, <1>11, <1>12, <1>13, <1>14
  DEF Next, AccountSteps, CodeSteps, TokenSteps

-----------------------------------------------------------------------------

\* In a dying step the live tokens of an authorization only become fewer.
LEMMA Shrink ==
  ASSUME Dying, NEW c \in Codes
  PROVE  LivePats(c)' \subseteq LivePats(c) /\ LiveRefresh(c)' \subseteq LiveRefresh(c)
BY DEF Dying, LivePats, LiveRefresh, Live

\* What holds of the live tokens survives the death of some.
LEMMA DyingKeeps == ASSUME TypeOK, Core, Dying PROVE Core'
<1>1. Descent'
  <2>1. ASSUME NEW p \in Pats, pats'[p] # NULL, pats'[p].auth # NULL
        PROVE  /\ codes'[pats'[p].auth] # NULL /\ codes'[pats'[p].auth].used
               /\ codes'[pats'[p].auth].user = pats'[p].user
    <3>1. pats[p] \in PatRow /\ pats'[p].auth = pats[p].auth /\ pats'[p].user = pats[p].user
      BY <2>1 DEF Dying, TypeOK
    <3>2. pats[p].auth \in Codes
      BY <2>1, <3>1 DEF PatRow
    <3> QED BY <2>1, <3>1, <3>2 DEF Dying, Core, Descent
  <2>2. ASSUME NEW r \in RefreshIds, refresh'[r] # NULL
        PROVE  /\ codes'[refresh'[r].auth] # NULL /\ codes'[refresh'[r].auth].used
               /\ codes'[refresh'[r].auth].user = refresh'[r].user
    <3>1. /\ refresh[r] \in RefreshRow /\ refresh'[r].auth = refresh[r].auth
          /\ refresh'[r].user = refresh[r].user
      BY <2>2 DEF Dying, TypeOK
    <3>2. refresh[r].auth \in Codes
      BY <3>1 DEF RefreshRow
    <3> QED BY <2>2, <3>1, <3>2 DEF Dying, Core, Descent
  <2> QED BY <2>1, <2>2 DEF Descent
<1>2. OneLivePair'
  BY Shrink DEF Core, OneLivePair
<1>3. RefreshRenewsItsPair'
  <2>1. ASSUME NEW c \in Codes, NEW r \in LiveRefresh(c)'
        PROVE  refresh'[r].user = codes'[c].user /\ \A p \in LivePats(c)' : refresh'[r].pat = p
    <3>1. r \in LiveRefresh(c) /\ LivePats(c)' \subseteq LivePats(c)
      BY <2>1, Shrink
    <3>2. refresh[r].user = codes[c].user /\ \A p \in LivePats(c) : refresh[r].pat = p
      BY <3>1 DEF Core, RefreshRenewsItsPair
    <3>3. r \in RefreshIds /\ refresh[r] # NULL /\ codes[c] # NULL
      BY <3>1 DEF LiveRefresh, Live, Core, Descent
    <3> QED BY <3>1, <3>2, <3>3 DEF Dying
  <2> QED BY <2>1 DEF RefreshRenewsItsPair
<1> QED BY <1>1, <1>2, <1>3 DEF Core

-----------------------------------------------------------------------------
\* The steps in which tokens only die.

LEMMA DyingAccounts ==
  ASSUME TypeOK, NEW u \in Users, Register(u) \/ \E s \in {"active", "inactive"} : SetActive(u, s)
  PROVE  Dying
BY DEF Dying, Live, Register, SetActive

LEMMA DyingDelete == ASSUME TypeOK, NEW u \in Users, DeleteAccount(u) PROVE Dying
<1> USE DEF TypeOK
<1>1. ASSUME NEW p \in Pats
      PROVE  /\ pats'[p] = NULL <=> pats[p] = NULL
             /\ pats[p] # NULL => pats'[p].auth = pats[p].auth /\ pats'[p].user = pats[p].user
             /\ Live(pats[p])' => Live(pats[p])
  <2>1. pats'[p] = Gone(pats[p], u)
    BY DEF DeleteAccount
  <2>2. CASE pats[p] = NULL
    BY <2>1, <2>2 DEF Gone, Live
  <2>3. CASE pats[p] \in PatRow
    BY <2>1, <2>3, PatState DEF Gone, Live
  <2> QED BY <2>2, <2>3
<1>2. ASSUME NEW r \in RefreshIds
      PROVE  /\ refresh'[r] = NULL <=> refresh[r] = NULL
             /\ refresh[r] # NULL => /\ refresh'[r].auth = refresh[r].auth
                                     /\ refresh'[r].user = refresh[r].user
                                     /\ refresh'[r].pat = refresh[r].pat
             /\ Live(refresh[r])' => Live(refresh[r])
  <2>1. refresh'[r] = Gone(refresh[r], u)
    BY DEF DeleteAccount
  <2>2. CASE refresh[r] = NULL
    BY <2>1, <2>2 DEF Gone, Live
  <2>3. CASE refresh[r] \in RefreshRow
    BY <2>1, <2>3, RefreshState DEF Gone, Live
  <2> QED BY <2>2, <2>3
<1>3. ASSUME NEW c \in Codes
      PROVE  /\ codes'[c] = NULL <=> codes[c] = NULL
             /\ codes[c] # NULL => codes'[c].used = codes[c].used /\ codes'[c].user = codes[c].user
  BY CodeOver DEF DeleteAccount
<1> QED BY <1>1, <1>2, <1>3 DEF Dying

LEMMA DyingExpire == ASSUME TypeOK, NEW c \in Codes, ExpireCode(c) PROVE Dying
<1>1. codes[c] \in CodeRow /\ codes'[c] = [codes[c] EXCEPT !.over = TRUE]
  BY DEF ExpireCode, TypeOK
<1>2. codes'[c] \in CodeRow /\ codes'[c].used = codes[c].used /\ codes'[c].user = codes[c].user
  BY <1>1, CodeOver
<1>3. \A d \in Codes : d # c => codes'[d] = codes[d]
  BY DEF ExpireCode, TypeOK
<1> QED BY <1>1, <1>2, <1>3 DEF Dying, Live, ExpireCode

LEMMA DyingExchange == ASSUME TypeOK, NEW r \in RefreshIds, Exchange(r) PROVE Dying
<1>1. refresh[r] \in RefreshRow /\ refresh'[r] = [refresh[r] EXCEPT !.state = "revoked"]
  BY DEF Exchange, TypeOK, Live, Revoked
<1>2. /\ refresh'[r] \in RefreshRow /\ refresh'[r].auth = refresh[r].auth
      /\ refresh'[r].user = refresh[r].user /\ refresh'[r].pat = refresh[r].pat
      /\ refresh'[r].state = "revoked"
  BY <1>1, RefreshState
<1>3. \A s \in RefreshIds : s # r => refresh'[s] = refresh[s]
  BY DEF Exchange, TypeOK
<1> QED BY <1>1, <1>2, <1>3 DEF Dying, Live, Exchange

LEMMA DyingRevoke == ASSUME TypeOK, NEW p \in Pats, RevokeToken(p) PROVE Dying
<1>1. pats[p] \in PatRow /\ pats'[p] = [pats[p] EXCEPT !.state = "revoked"]
  BY DEF RevokeToken, TypeOK, Live, Revoked
<1>2. /\ pats'[p] \in PatRow /\ pats'[p].auth = pats[p].auth
      /\ pats'[p].user = pats[p].user /\ pats'[p].state = "revoked"
  BY <1>1, PatState
<1>3. \A q \in Pats : q # p => pats'[q] = pats[q]
  BY DEF RevokeToken, TypeOK
<1> QED BY <1>1, <1>2, <1>3 DEF Dying, Live, RevokeToken

\* Retiring the old access token leaves it dead.
LEMMA DyingRetire ==
  ASSUME TypeOK, JobInv, RetireAccess PROVE Dying /\ ~Live(pats'[job.pat])
<1>1. job.pat \in Pats
  BY DEF RetireAccess, Idle, JobInv
<1>2. pats'[job.pat] = IfLive(pats[job.pat]) /\ pats[job.pat] \in PatRow \cup {NULL}
  BY <1>1 DEF RetireAccess, TypeOK
<1>3. \A q \in Pats : q # job.pat => pats'[q] = pats[q]
  BY DEF RetireAccess, TypeOK
<1>4. UNCHANGED <<codes, refresh>>
  BY DEF RetireAccess
<1>5. CASE Live(pats[job.pat])
  <2>1. pats[job.pat] \in PatRow /\ pats'[job.pat] = [pats[job.pat] EXCEPT !.state = "revoked"]
    BY <1>2, <1>5 DEF IfLive, Live, Revoked
  <2>2. /\ pats'[job.pat] \in PatRow /\ pats'[job.pat].auth = pats[job.pat].auth
        /\ pats'[job.pat].user = pats[job.pat].user /\ pats'[job.pat].state = "revoked"
    BY <2>1, PatState
  <2> QED BY <1>1, <1>3, <1>4, <2>1, <2>2 DEF Dying, Live
<1>6. CASE ~Live(pats[job.pat])
  <2>1. pats'[job.pat] = pats[job.pat]
    BY <1>2, <1>6 DEF IfLive
  <2> QED BY <1>1, <1>3, <1>4, <1>6, <2>1 DEF Dying, Live
<1> QED BY <1>5, <1>6

LEMMA DyingPaired == ASSUME TypeOK, RevokePaired PROVE Dying
<1>1. ASSUME NEW r \in RefreshIds
      PROVE  /\ refresh'[r] = NULL <=> refresh[r] = NULL
             /\ refresh[r] # NULL => /\ refresh'[r].auth = refresh[r].auth
                                     /\ refresh'[r].user = refresh[r].user
                                     /\ refresh'[r].pat = refresh[r].pat
             /\ Live(refresh[r])' => Live(refresh[r])
  <2>0. /\ refresh[r] \in RefreshRow \cup {NULL}
        /\ refresh'[r] \in {refresh[r], IfLive(refresh[r])}
    BY DEF RevokePaired, TypeOK
  <2>1. \/ refresh'[r] = refresh[r]
        \/ /\ refresh[r] \in RefreshRow
           /\ refresh'[r] = [refresh[r] EXCEPT !.state = "revoked"]
    BY <2>0 DEF IfLive, Live, Revoked
  <2>2. CASE refresh'[r] = refresh[r]
    BY <2>2 DEF Live
  <2>3. CASE refresh[r] \in RefreshRow /\ refresh'[r] = [refresh[r] EXCEPT !.state = "revoked"]
    BY <2>3, RefreshState DEF Live
  <2> QED BY <2>1, <2>2, <2>3
<1> QED BY <1>1 DEF Dying, RevokePaired, Live

LEMMA DyingCrash == ASSUME Crash PROVE Dying
BY DEF Dying, Live, Crash

-----------------------------------------------------------------------------
\* The steps in which something is granted.  What each changes, token by token.

\* A new access token is live for the authorization it descends from only.
LEMMA NewPat ==
  ASSUME TypeOK, NEW p \in Pats, pats[p] = NULL, NEW row \in PatRow, row.state = "live",
         pats' = [pats EXCEPT ![p] = row]
  PROVE  \A c \in Codes : LivePats(c)' = IF row.auth = c THEN LivePats(c) \cup {p} ELSE LivePats(c)
<1>1. pats'[p] = row /\ \A q \in Pats : q # p => pats'[q] = pats[q]
  BY DEF TypeOK
<1>2. row # NULL /\ row.state = "live"
  BY DEF PatRow
<1> QED BY <1>1, <1>2 DEF LivePats, Live

\* A code that was just made has no tokens, and the tokens of others stay.
LEMMA CoreConsent == ASSUME TypeOK, Core, NEW u \in Users, NEW c \in Codes, Consent(u, c) PROVE Core'
<1>1. codes[c] = NULL /\ \A d \in Codes : d # c => codes'[d] = codes[d]
  BY DEF Consent, TypeOK
<1>2. pats' = pats /\ refresh' = refresh
  BY DEF Consent
<1>3. \A p \in Pats : pats[p] # NULL /\ pats[p].auth # NULL => pats[p].auth \in Codes \ {c}
  BY <1>1 DEF Core, Descent, TypeOK, PatRow
<1>4. \A r \in RefreshIds : refresh[r] # NULL => refresh[r].auth \in Codes \ {c}
  BY <1>1 DEF Core, Descent, TypeOK, RefreshRow
<1>5. Descent'
  BY <1>1, <1>2, <1>3, <1>4 DEF Core, Descent
<1>6. \A d \in Codes : LivePats(d)' = LivePats(d) /\ LiveRefresh(d)' = LiveRefresh(d)
  BY <1>2 DEF LivePats, LiveRefresh, Live
<1>7. OneLivePair'
  BY <1>6 DEF Core, OneLivePair
<1>8. RefreshRenewsItsPair'
  <2>1. ASSUME NEW d \in Codes, NEW r \in LiveRefresh(d)
        PROVE  refresh[r].user = codes'[d].user /\ \A p \in LivePats(d) : refresh[r].pat = p
    <3>1. d # c
      BY <1>4, <2>1 DEF LiveRefresh, Live
    <3> QED BY <1>1, <2>1, <3>1 DEF Core, RefreshRenewsItsPair
  <2> QED BY <1>2, <1>6, <2>1 DEF RefreshRenewsItsPair
<1> QED BY <1>5, <1>7, <1>8 DEF Core

\* Redeeming marks the code, and leaves the tokens alone.
LEMMA RedeemMarks ==
  ASSUME TypeOK, NEW c \in Codes, Redeem(c)
  PROVE  /\ codes[c] # NULL /\ codes'[c] # NULL /\ ~codes[c].used /\ codes'[c].used
         /\ codes'[c].user = codes[c].user /\ codes[c].user \in Users
         /\ \A d \in Codes : d # c => codes'[d] = codes[d]
         /\ UNCHANGED <<accounts, pats, refresh>>
         /\ \A d \in Codes : LivePats(d)' = LivePats(d) /\ LiveRefresh(d)' = LiveRefresh(d)
<1>1. codes[c] \in CodeRow /\ ~codes[c].used
  BY DEF Redeem, Redeemable, TypeOK
<1>2. codes'[c] = [codes[c] EXCEPT !.used = TRUE]
  BY DEF Redeem, TypeOK
<1>3. codes'[c] \in CodeRow /\ codes'[c].used /\ codes'[c].user = codes[c].user
  BY <1>1, <1>2 DEF CodeRow
<1>4. UNCHANGED <<accounts, pats, refresh>> /\ \A d \in Codes : d # c => codes'[d] = codes[d]
  BY DEF Redeem, TypeOK
<1>5. \A d \in Codes : LivePats(d)' = LivePats(d) /\ LiveRefresh(d)' = LiveRefresh(d)
  BY <1>4 DEF LivePats, LiveRefresh, Live
<1>6. codes[c].user \in Users
  BY <1>1 DEF CodeRow
<1> QED BY <1>1, <1>3, <1>4, <1>5, <1>6

LEMMA CoreRedeem == ASSUME TypeOK, Core, NEW c \in Codes, Redeem(c) PROVE Core'
<1>1. /\ codes[c] # NULL /\ codes'[c] # NULL /\ ~codes[c].used /\ codes'[c].used
      /\ codes'[c].user = codes[c].user /\ \A d \in Codes : d # c => codes'[d] = codes[d]
      /\ pats' = pats /\ refresh' = refresh
      /\ \A d \in Codes : LivePats(d)' = LivePats(d) /\ LiveRefresh(d)' = LiveRefresh(d)
  BY RedeemMarks
<1>2. \A p \in Pats : pats[p] # NULL /\ pats[p].auth # NULL => pats[p].auth \in Codes
  BY DEF TypeOK, PatRow
<1>3. \A r \in RefreshIds : refresh[r] # NULL => refresh[r].auth \in Codes
  BY DEF TypeOK, RefreshRow
<1>4. Descent'
  BY <1>1, <1>2, <1>3 DEF Core, Descent
<1>5. OneLivePair' /\ RefreshRenewsItsPair'
  BY <1>1 DEF Core, OneLivePair, RefreshRenewsItsPair
<1> QED BY <1>4, <1>5 DEF Core

\* A new access token: the authorization had none, and no refresh token.
LEMMA CoreMintAccess ==
  ASSUME TypeOK, Core, JobInv, NEW p \in Pats, MintAccess(p)
  PROVE  /\ Core'
         /\ job.auth \in Codes /\ LivePats(job.auth) = {} /\ LiveRefresh(job.auth) = {}
         /\ \A c \in Codes : LivePats(c)' = IF c = job.auth THEN {p} ELSE LivePats(c)
         /\ \A c \in Codes : LiveRefresh(c)' = LiveRefresh(c)
<1> DEFINE row == [user |-> job.user, auth |-> job.auth, state |-> "live"]
<1>1. /\ job \in Job /\ job.auth \in Codes /\ Active(job.user) /\ LiveRefresh(job.auth) = {}
      /\ LivePats(job.auth) = {} /\ codes[job.auth] # NULL /\ codes[job.auth].used
      /\ codes[job.auth].user = job.user
  BY DEF MintAccess, Idle, JobInv, TypeOK
<1>2. row \in PatRow /\ row.state = "live" /\ row.auth = job.auth /\ row.user = job.user
  BY <1>1 DEF Job, PatRow
<1>3. pats[p] = NULL /\ pats' = [pats EXCEPT ![p] = row] /\ UNCHANGED <<accounts, codes, refresh>>
  BY DEF MintAccess
<1>4. pats'[p] = row /\ \A q \in Pats : q # p => pats'[q] = pats[q]
  BY <1>3 DEF TypeOK
<1> HIDE DEF row
<1>5. \A c \in Codes : LivePats(c)' = IF row.auth = c THEN LivePats(c) \cup {p} ELSE LivePats(c)
  BY <1>2, <1>3, NewPat
<1>6. \A c \in Codes : LiveRefresh(c)' = LiveRefresh(c)
  BY <1>3 DEF LiveRefresh, Live
<1>7. Descent'
  BY <1>1, <1>2, <1>3, <1>4 DEF Core, Descent
<1>8. \A c \in Codes : LivePats(c)' = IF c = job.auth THEN {p} ELSE LivePats(c)
  BY <1>1, <1>2, <1>5
<1>9. OneLivePair'
  BY <1>6, <1>8 DEF Core, OneLivePair
<1>10. RefreshRenewsItsPair'
  BY <1>1, <1>3, <1>6, <1>8 DEF Core, RefreshRenewsItsPair
<1> QED BY <1>1, <1>6, <1>7, <1>8, <1>9, <1>10 DEF Core

\* The refresh token that completes a pair: the authorization had none.
LEMMA CoreMintRefresh ==
  ASSUME TypeOK, Core, JobInv, NEW r \in RefreshIds, MintRefresh(r)
  PROVE  /\ Core'
         /\ job.auth \in Codes /\ LivePats(job.auth) # {} /\ LiveRefresh(job.auth) = {}
         /\ \A c \in Codes : LiveRefresh(c)' = IF c = job.auth THEN {r} ELSE LiveRefresh(c)
         /\ \A c \in Codes : LivePats(c)' = LivePats(c)
<1> DEFINE row == [user |-> job.user, auth |-> job.auth, pat |-> job.pat, state |-> "live"]
<1>1. /\ job \in Job /\ job.auth \in Codes /\ Active(job.user) /\ LiveRefresh(job.auth) = {}
      /\ job.pat \in Pats /\ LivePats(job.auth) = {job.pat}
      /\ codes[job.auth] # NULL /\ codes[job.auth].used /\ codes[job.auth].user = job.user
  BY DEF MintRefresh, Idle, JobInv, TypeOK
<1>2. /\ row \in RefreshRow /\ row.state = "live" /\ row.auth = job.auth
      /\ row.user = job.user /\ row.pat = job.pat
  BY <1>1 DEF Job, RefreshRow
<1>3. /\ refresh[r] = NULL /\ refresh' = [refresh EXCEPT ![r] = row]
      /\ UNCHANGED <<accounts, codes, pats>>
  BY DEF MintRefresh
<1>4. refresh'[r] = row /\ \A s \in RefreshIds : s # r => refresh'[s] = refresh[s]
  BY <1>3 DEF TypeOK
<1> HIDE DEF row
<1>5. row # NULL
  BY <1>2
<1>6. \A c \in Codes :
        LiveRefresh(c)' = IF row.auth = c THEN LiveRefresh(c) \cup {r} ELSE LiveRefresh(c)
  BY <1>2, <1>3, <1>4, <1>5 DEF LiveRefresh, Live
<1>7. \A c \in Codes : LivePats(c)' = LivePats(c)
  BY <1>3 DEF LivePats, Live
<1>8. Descent'
  BY <1>1, <1>2, <1>3, <1>4 DEF Core, Descent
<1>9. \A c \in Codes : LiveRefresh(c)' = IF c = job.auth THEN {r} ELSE LiveRefresh(c)
  BY <1>1, <1>2, <1>6
<1>10. OneLivePair'
  BY <1>7, <1>9 DEF Core, OneLivePair
<1>11. RefreshRenewsItsPair'
  <2>1. ASSUME NEW c \in Codes, NEW s \in LiveRefresh(c)'
        PROVE  refresh'[s].user = codes'[c].user /\ \A p \in LivePats(c)' : refresh'[s].pat = p
    <3>1. CASE c = job.auth
      BY <1>1, <1>2, <1>3, <1>4, <1>7, <1>9, <2>1, <3>1
    <3>2. CASE c # job.auth
      <4>1. s \in LiveRefresh(c) /\ s # r
        BY <1>3, <1>9, <2>1, <3>2 DEF LiveRefresh, Live
      <4>2. s \in RefreshIds
        BY <4>1 DEF LiveRefresh
      <4> QED BY <1>3, <1>4, <1>7, <4>1, <4>2 DEF Core, RefreshRenewsItsPair
    <3> QED BY <3>1, <3>2
  <2> QED BY <2>1 DEF RefreshRenewsItsPair
<1> QED BY <1>1, <1>7, <1>8, <1>9, <1>10, <1>11 DEF Core

\* A token created by hand belongs to no authorization.
LEMMA CoreCreate ==
  ASSUME TypeOK, Core, NEW u \in Users, NEW p \in Pats, CreateToken(u, p)
  PROVE  /\ Core'
         /\ \A c \in Codes : LivePats(c)' = LivePats(c) /\ LiveRefresh(c)' = LiveRefresh(c)
<1> DEFINE row == [user |-> u, auth |-> NULL, state |-> "live"]
<1>1. row \in PatRow /\ row.state = "live" /\ row.auth = NULL
  BY DEF PatRow
<1>2. pats[p] = NULL /\ pats' = [pats EXCEPT ![p] = row] /\ UNCHANGED <<accounts, codes, refresh>>
  BY DEF CreateToken
<1>3. pats'[p] = row /\ \A q \in Pats : q # p => pats'[q] = pats[q]
  BY <1>2 DEF TypeOK
<1> HIDE DEF row
<1>4. \A c \in Codes : LivePats(c)' = LivePats(c)
  BY <1>1, <1>2, NewPat
<1>5. \A c \in Codes : LiveRefresh(c)' = LiveRefresh(c)
  BY <1>2 DEF LiveRefresh, Live
<1>6. Descent'
  BY <1>1, <1>2, <1>3 DEF Core, Descent
<1>7. OneLivePair' /\ RefreshRenewsItsPair'
  BY <1>2, <1>4, <1>5 DEF Core, OneLivePair, RefreshRenewsItsPair
<1> QED BY <1>4, <1>5, <1>6, <1>7 DEF Core

-----------------------------------------------------------------------------

\* The running handler keeps what the rest of it relies on.
LEMMA JobKept == ASSUME TypeOK, Core, JobInv, Next PROVE JobInv'
<1>1. CASE job' = NULL
  BY <1>1 DEF JobInv
<1>2. ASSUME NEW c \in Codes, Redeem(c) PROVE JobInv'
  <2>1. CASE Active(codes[c].user)
    <3>1. job' = [todo |-> "mint", user |-> codes[c].user, auth |-> c, pat |-> NULL]
      BY <1>2, <2>1 DEF Redeem, MayMint, Todo
    <3>2. LivePats(c) = {} /\ LiveRefresh(c) = {}
      BY <1>2, RedeemMarks DEF LivePats, LiveRefresh, Live, Core, Descent
    <3>3. LivePats(c)' = {} /\ LiveRefresh(c)' = {}
      BY <1>2, <3>2, RedeemMarks
    <3>4. accounts' = accounts /\ codes'[c] # NULL /\ codes'[c].used /\ codes'[c].user = codes[c].user
      BY <1>2, RedeemMarks
    <3>5. job'.todo = "mint" /\ job'.user = codes[c].user /\ job'.auth = c
      BY <3>1
    <3> QED BY <2>1, <3>3, <3>4, <3>5 DEF JobInv, Active
  <2>2. CASE ~Active(codes[c].user)
    BY <1>2, <2>2 DEF Redeem, MayMint, JobInv
  <2> QED BY <2>1, <2>2
<1>3. ASSUME NEW r \in RefreshIds, Exchange(r) PROVE JobInv'
  <2> DEFINE old == refresh[r]
  <2>1. old \in RefreshRow /\ old # NULL /\ Active(old.user) /\ r \in LiveRefresh(old.auth)
    BY <1>3 DEF Exchange, Live, MayMint, TypeOK, LiveRefresh
  <2>2. old.auth \in Codes /\ old.pat \in Pats
    BY <2>1 DEF RefreshRow
  <2> HIDE DEF old
  <2>3. job' = [todo |-> "retire", user |-> old.user, auth |-> old.auth, pat |-> old.pat]
    BY <1>3 DEF Exchange, AfterUse, Todo, old
  <2>4. job'.todo = "retire" /\ job'.user = old.user /\ job'.auth = old.auth /\ job'.pat = old.pat
    BY <2>3
  <2>5. UNCHANGED <<accounts, codes, pats>> /\ refresh' = [refresh EXCEPT ![r] = Revoked(old)]
    BY <1>3 DEF Exchange, old
  <2>6. codes[old.auth] # NULL /\ codes[old.auth].used /\ codes[old.auth].user = old.user
    BY <2>1 DEF old, Core, Descent
  <2>7. LiveRefresh(old.auth) = {r} /\ LivePats(old.auth) \subseteq {old.pat}
    BY <2>1, <2>2 DEF Core, OneLivePair, RefreshRenewsItsPair, old
  <2>8. ~Live(Revoked(old)) /\ refresh'[r] = Revoked(old)
    BY <2>1, <2>5, RefreshState DEF Revoked, Live, TypeOK
  <2>9. ASSUME NEW c \in Codes, c = old.auth
        PROVE  LiveRefresh(c)' = {} /\ LivePats(c)' = LivePats(c)
    <3>1. Dying
      BY <1>3, DyingExchange
    <3>2. LiveRefresh(c)' \subseteq {r}
      BY <2>7, <2>9, <3>1, Shrink
    <3>3. r \notin LiveRefresh(c)'
      BY <2>8 DEF LiveRefresh, Live
    <3> QED BY <2>5, <3>2, <3>3 DEF LivePats, Live
  <2> QED BY <2>1, <2>2, <2>4, <2>5, <2>6, <2>7, <2>9 DEF JobInv, Active
<1>4. ASSUME RetireAccess PROVE JobInv'
  <2>1. /\ job \in Job /\ job.todo = "retire" /\ job.pat \in Pats /\ job.auth \in Codes
        /\ Active(job.user) /\ LiveRefresh(job.auth) = {} /\ LivePats(job.auth) \subseteq {job.pat}
        /\ codes[job.auth] # NULL /\ codes[job.auth].used /\ codes[job.auth].user = job.user
    BY <1>4 DEF RetireAccess, Idle, JobInv, TypeOK
  <2>2. Dying /\ ~Live(pats'[job.pat])
    BY <1>4, DyingRetire
  <2>3. ASSUME NEW c \in Codes, c = job.auth PROVE LiveRefresh(c)' = {} /\ LivePats(c)' = {}
    <3>1. LiveRefresh(c)' \subseteq {} /\ LivePats(c)' \subseteq {job.pat}
      BY <2>1, <2>2, <2>3, Shrink
    <3>2. job.pat \notin LivePats(c)'
      BY <2>2 DEF LivePats, Live
    <3> QED BY <3>1, <3>2
  <2>4. job' = [todo |-> "mint", user |-> job.user, auth |-> job.auth, pat |-> NULL]
    BY <1>4 DEF RetireAccess, Todo
  <2>5. job'.todo = "mint" /\ job'.user = job.user /\ job'.auth = job.auth
    BY <2>4
  <2>6. UNCHANGED <<accounts, codes>>
    BY <1>4 DEF RetireAccess
  <2> QED BY <2>1, <2>3, <2>5, <2>6 DEF JobInv, Active
<1>5. ASSUME NEW p \in Pats, MintAccess(p) PROVE JobInv'
  <2>1. /\ job.auth \in Codes /\ LiveRefresh(job.auth) = {}
        /\ \A c \in Codes : LivePats(c)' = IF c = job.auth THEN {p} ELSE LivePats(c)
        /\ \A c \in Codes : LiveRefresh(c)' = LiveRefresh(c)
    BY <1>5, CoreMintAccess
  <2>2. /\ job \in Job /\ Active(job.user) /\ codes[job.auth] # NULL /\ codes[job.auth].used
        /\ codes[job.auth].user = job.user
    BY <1>5 DEF MintAccess, Idle, JobInv, TypeOK
  <2>3. job' = [todo |-> "pair", user |-> job.user, auth |-> job.auth, pat |-> p]
    BY <1>5 DEF MintAccess, Todo
  <2>4. job'.todo = "pair" /\ job'.user = job.user /\ job'.auth = job.auth /\ job'.pat = p
    BY <2>3
  <2>5. UNCHANGED <<accounts, codes>>
    BY <1>5 DEF MintAccess
  <2>6. ASSUME NEW c \in Codes, c = job.auth PROVE LiveRefresh(c)' = {} /\ LivePats(c)' = {p}
    BY <2>1, <2>6
  <2> QED BY <2>1, <2>2, <2>4, <2>5, <2>6 DEF JobInv, Active
<1>6. ASSUME NEW p \in Pats, RevokeToken(p) PROVE JobInv'
  <2>1. job' = [todo |-> "unpair", user |-> pats[p].user, auth |-> pats[p].auth, pat |-> p]
    BY <1>6 DEF RevokeToken, Todo
  <2>2. job'.todo = "unpair" /\ job'.pat = p
    BY <2>1
  <2> QED BY <2>2 DEF JobInv
<1>7. ASSUME NEW u \in Users, NEW state \in {"active", "inactive"},
             Register(u) \/ DeleteAccount(u) \/ SetActive(u, state)
      PROVE  job' = NULL
  BY <1>7 DEF Register, DeleteAccount, SetActive, Idle
<1>8. ASSUME NEW c \in Codes, NEW u \in Users, Consent(u, c) PROVE job' = NULL
  BY <1>8 DEF Consent, Idle
<1>9. ASSUME NEW c \in Codes, ExpireCode(c) PROVE job' = NULL
  BY <1>9 DEF ExpireCode, Idle
<1>10. ASSUME NEW p \in Pats, NEW u \in Users, CreateToken(u, p) PROVE job' = NULL
  BY <1>10 DEF CreateToken, Idle
<1>11. ASSUME NEW r \in RefreshIds, MintRefresh(r) PROVE job' = NULL
  BY <1>11 DEF MintRefresh
<1>12. ASSUME RevokePaired \/ Crash PROVE job' = NULL
  BY <1>12 DEF RevokePaired, Crash
<1> QED
  BY <1>1, <1>2, <1>3, <1>4, <1>5, <1>6, <1>7, <1>8, <1>9, <1>10, <1>11, <1>12
  DEF Next, AccountSteps, CodeSteps, TokenSteps

\* Every step is a dying one or grants something, and keeps the live pairs.
LEMMA CoreKept == ASSUME TypeOK, Core, JobInv, Next PROVE Core'
<1>1. ASSUME NEW u \in Users, Register(u) \/ \E s \in {"active", "inactive"} : SetActive(u, s)
      PROVE  Core'
  BY <1>1, DyingAccounts, DyingKeeps
<1>2. ASSUME NEW u \in Users, DeleteAccount(u) PROVE Core'
  BY <1>2, DyingDelete, DyingKeeps
<1>3. ASSUME NEW c \in Codes, ExpireCode(c) PROVE Core'
  BY <1>3, DyingExpire, DyingKeeps
<1>4. ASSUME NEW c \in Codes, Redeem(c) PROVE Core'
  BY <1>4, CoreRedeem
<1>5. ASSUME NEW c \in Codes, NEW u \in Users, Consent(u, c) PROVE Core'
  BY <1>5, CoreConsent
<1>6. ASSUME NEW p \in Pats, MintAccess(p) PROVE Core'
  BY <1>6, CoreMintAccess
<1>7. ASSUME NEW p \in Pats, RevokeToken(p) PROVE Core'
  BY <1>7, DyingRevoke, DyingKeeps
<1>8. ASSUME NEW p \in Pats, NEW u \in Users, CreateToken(u, p) PROVE Core'
  BY <1>8, CoreCreate
<1>9. ASSUME NEW r \in RefreshIds, Exchange(r) PROVE Core'
  BY <1>9, DyingExchange, DyingKeeps
<1>10. ASSUME NEW r \in RefreshIds, MintRefresh(r) PROVE Core'
  BY <1>10, CoreMintRefresh
<1>11. ASSUME RetireAccess PROVE Core'
  BY <1>11, DyingRetire, DyingKeeps
<1>12. ASSUME RevokePaired PROVE Core'
  BY <1>12, DyingPaired, DyingKeeps
<1>13. ASSUME Crash PROVE Core'
  BY <1>13, DyingCrash, DyingKeeps
<1> QED
  BY <1>1, <1>2, <1>3, <1>4, <1>5, <1>6, <1>7, <1>8, <1>9, <1>10, <1>11, <1>12, <1>13
  DEF Next, AccountSteps, CodeSteps, TokenSteps

LEMMA InvInit == Init => Inv
BY DEF Init, Inv, TypeOK, Core, Descent, OneLivePair, RefreshRenewsItsPair, JobInv,
       LivePats, LiveRefresh, Live

LEMMA InvStep == Inv /\ [Next]_vars => Inv'
<1>1. ASSUME Inv, Next PROVE Inv'
  BY <1>1, GrantsType, CoreKept, JobKept DEF Inv
<1>2. ASSUME Inv, UNCHANGED vars PROVE Inv'
  BY <1>2 DEF vars, Inv, TypeOK, Core, Descent, OneLivePair, RefreshRenewsItsPair, JobInv,
              LivePats, LiveRefresh, Live, Active
<1> QED BY <1>1, <1>2

LEMMA InvAlways == Spec => []Inv
BY InvInit, InvStep, PTL DEF Spec

-----------------------------------------------------------------------------

\* The tables of oauth.js and tokens.js keep their columns, killed process
\* included.
THEOREM GrantsTypeCorrect == Spec => []TypeOK
<1>1. Inv => TypeOK
  BY DEF Inv
<1> QED BY <1>1, InvAlways, PTL

\* One "Allow" click never yields two live access tokens or two live refresh
\* tokens, for any number of tokens and kills.
THEOREM OneLivePairAlways == Spec => []OneLivePair
<1>1. Inv => OneLivePair
  BY DEF Inv, Core
<1> QED BY <1>1, InvAlways, PTL

\* The live refresh token is always the one that renews the live access token,
\* for the account that allowed it.
THEOREM RefreshRenewsAlways == Spec => []RefreshRenewsItsPair
<1>1. Inv => RefreshRenewsItsPair
  BY DEF Inv, Core
<1> QED BY <1>1, InvAlways, PTL

\* No statement mints a token for an account that is gone or inactive.
THEOREM MintedForActiveAlways == Spec => MintedForActive
<1> DEFINE Minting ==
      /\ \A p \in Pats : pats[p] = NULL /\ pats'[p] # NULL => accounts[pats'[p].user] = "active"
      /\ \A r \in RefreshIds : refresh[r] = NULL /\ refresh'[r] # NULL =>
           accounts[refresh'[r].user] = "active"
<1>1. ASSUME Dying PROVE Minting
  BY <1>1 DEF Dying
<1>2. ASSUME UNCHANGED <<pats, refresh>> PROVE Minting
  BY <1>2
<1>3. ASSUME Inv, NEW p \in Pats, MintAccess(p) PROVE Minting
  <2>1. job.user \in Users /\ Active(job.user)
    BY <1>3 DEF Inv, TypeOK, JobInv, Job, MintAccess, Idle
  <2>2. /\ pats'[p] = [user |-> job.user, auth |-> job.auth, state |-> "live"]
        /\ \A q \in Pats : q # p => pats'[q] = pats[q]
        /\ refresh' = refresh
    BY <1>3 DEF Inv, TypeOK, MintAccess
  <2>3. pats'[p].user = job.user
    BY <2>2
  <2> QED BY <2>1, <2>2, <2>3 DEF Active
<1>4. ASSUME Inv, NEW r \in RefreshIds, MintRefresh(r) PROVE Minting
  <2>1. job.user \in Users /\ Active(job.user)
    BY <1>4 DEF Inv, TypeOK, JobInv, Job, MintRefresh, Idle
  <2>2. /\ refresh'[r] = [user |-> job.user, auth |-> job.auth, pat |-> job.pat, state |-> "live"]
        /\ \A s \in RefreshIds : s # r => refresh'[s] = refresh[s]
        /\ pats' = pats
    BY <1>4 DEF Inv, TypeOK, MintRefresh
  <2>3. refresh'[r].user = job.user
    BY <2>2
  <2> QED BY <2>1, <2>2, <2>3 DEF Active
<1>5. ASSUME Inv, NEW u \in Users, NEW p \in Pats, CreateToken(u, p) PROVE Minting
  <2>1. /\ pats'[p] = [user |-> u, auth |-> NULL, state |-> "live"]
        /\ \A q \in Pats : q # p => pats'[q] = pats[q]
        /\ refresh' = refresh /\ Active(u)
    BY <1>5 DEF Inv, TypeOK, CreateToken
  <2>2. pats'[p].user = u
    BY <2>1
  <2> QED BY <2>1, <2>2 DEF Active
<1>6. ASSUME Inv, Next PROVE Minting
  <2> HIDE DEF Minting
  <2>1. TypeOK /\ JobInv
    BY <1>6 DEF Inv
  <2>2. ASSUME NEW u \in Users, Register(u) \/ \E s \in {"active", "inactive"} : SetActive(u, s)
        PROVE  Minting
    BY <1>1, <2>1, <2>2, DyingAccounts
  <2>3. ASSUME NEW u \in Users, DeleteAccount(u) PROVE Minting
    BY <1>1, <2>1, <2>3, DyingDelete
  <2>4. ASSUME NEW c \in Codes, Redeem(c) \/ ExpireCode(c) PROVE Minting
    BY <1>2, <2>4 DEF Redeem, ExpireCode
  <2>5. ASSUME NEW c \in Codes, NEW u \in Users, Consent(u, c) PROVE Minting
    BY <1>2, <2>5 DEF Consent
  <2>6. ASSUME NEW p \in Pats, RevokeToken(p) PROVE Minting
    BY <1>1, <2>1, <2>6, DyingRevoke
  <2>7. ASSUME NEW r \in RefreshIds, Exchange(r) PROVE Minting
    BY <1>1, <2>1, <2>7, DyingExchange
  <2>8. ASSUME RetireAccess PROVE Minting
    BY <1>1, <2>1, <2>8, DyingRetire
  <2>9. ASSUME RevokePaired PROVE Minting
    BY <1>1, <2>1, <2>9, DyingPaired
  <2>10. ASSUME Crash PROVE Minting
    BY <1>1, <2>10, DyingCrash
  <2> QED
    BY <1>3, <1>4, <1>5, <1>6, <2>2, <2>3, <2>4, <2>5, <2>6, <2>7, <2>8, <2>9, <2>10
    DEF Next, AccountSteps, CodeSteps, TokenSteps
<1>7. Inv /\ [Next]_vars => [Minting]_vars
  BY <1>6
<1> QED BY <1>7, InvAlways, PTL DEF Spec, MintedForActive

-----------------------------------------------------------------------------
\* Grants implements Authorization.  What Authorization sees of a state:

Opened == {c \in Codes : codes[c] # NULL /\ codes[c].used}
AccessOf == [c \in Codes |-> LivePats(c)]
RefreshOf == [c \in Codes |-> LiveRefresh(c)]
Retired ==
  {p \in Pats : pats[p] # NULL /\ pats[p].auth # NULL /\ ~Live(pats[p])}
    \cup {r \in RefreshIds : refresh[r] # NULL /\ ~Live(refresh[r])}

\* The tokens that die in a step are the ones that are retired in it.
LEMMA DyingRetires == ASSUME TypeOK, Dying PROVE Authorized!Retire
<1> DEFINE lost == UNION {(AccessOf[c] \ AccessOf'[c]) \cup (RefreshOf[c] \ RefreshOf'[c]) : c \in Codes}
<1>1. Opened' = Opened
  BY DEF Opened, Dying
<1>2. \A c \in Codes : AccessOf'[c] \subseteq AccessOf[c] /\ RefreshOf'[c] \subseteq RefreshOf[c]
  BY Shrink DEF AccessOf, RefreshOf
<1>3. \A c \in Codes : /\ AccessOf[c] = LivePats(c) /\ AccessOf'[c] = LivePats(c)'
                       /\ RefreshOf[c] = LiveRefresh(c) /\ RefreshOf'[c] = LiveRefresh(c)'
  BY DEF AccessOf, RefreshOf
<1>4. \A t : t \in lost <=>
        \E c \in Codes : \/ t \in LivePats(c) /\ t \notin LivePats(c)'
                         \/ t \in LiveRefresh(c) /\ t \notin LiveRefresh(c)'
  BY <1>3
<1> HIDE DEF lost
<1>5. ASSUME NEW t \in Retired' PROVE t \in Retired \cup lost
  <2>1. CASE t \in Pats /\ pats'[t] # NULL /\ pats'[t].auth # NULL /\ ~Live(pats[t])'
    <3>1. pats[t] \in PatRow /\ pats[t] # NULL /\ pats[t].auth = pats'[t].auth
      BY <2>1 DEF Dying, TypeOK
    <3>2. pats[t].auth \in Codes
      BY <2>1, <3>1 DEF PatRow
    <3>3. CASE Live(pats[t])
      BY <2>1, <3>2, <3>3, <1>4 DEF LivePats
    <3>4. CASE ~Live(pats[t])
      BY <2>1, <3>1, <3>4 DEF Retired
    <3> QED BY <3>3, <3>4
  <2>2. CASE t \in RefreshIds /\ refresh'[t] # NULL /\ ~Live(refresh[t])'
    <3>1. refresh[t] \in RefreshRow /\ refresh[t] # NULL
      BY <2>2 DEF Dying, TypeOK
    <3>2. refresh[t].auth \in Codes
      BY <3>1 DEF RefreshRow
    <3>3. CASE Live(refresh[t])
      BY <2>2, <3>2, <3>3, <1>4 DEF LiveRefresh
    <3>4. CASE ~Live(refresh[t])
      BY <2>2, <3>1, <3>4 DEF Retired
    <3> QED BY <3>3, <3>4
  <2> QED BY <1>5, <2>1, <2>2 DEF Retired, Live
<1>6. ASSUME NEW t \in Retired PROVE t \in Retired'
  BY <1>6 DEF Retired, Dying
<1>7. ASSUME NEW t \in lost PROVE t \in Retired'
  <2>1. PICK c \in Codes : \/ t \in LivePats(c) /\ t \notin LivePats(c)'
                           \/ t \in LiveRefresh(c) /\ t \notin LiveRefresh(c)'
    BY <1>4, <1>7
  <2>2. CASE t \in LivePats(c) /\ t \notin LivePats(c)'
    <3>1. t \in Pats /\ pats[t] # NULL /\ pats[t].auth = c /\ c # NULL
      BY <2>2 DEF LivePats, Live
    <3>2. pats'[t] # NULL /\ pats'[t].auth = c
      BY <3>1 DEF Dying
    <3> QED BY <2>2, <3>1, <3>2 DEF LivePats, Retired
  <2>3. CASE t \in LiveRefresh(c) /\ t \notin LiveRefresh(c)'
    <3>1. t \in RefreshIds /\ refresh[t] # NULL /\ refresh[t].auth = c
      BY <2>3 DEF LiveRefresh, Live
    <3>2. refresh'[t] # NULL /\ refresh'[t].auth = c
      BY <3>1 DEF Dying
    <3> QED BY <2>3, <3>1, <3>2 DEF LiveRefresh, Retired
  <2> QED BY <2>1, <2>2, <2>3
<1>8. Retired' = Retired \cup lost
  BY <1>5, <1>6, <1>7
<1> QED BY <1>1, <1>2, <1>8 DEF Authorized!Retire, Opened, AccessOf, RefreshOf, Retired, lost

\* Redeeming a code opens its authorization.
LEMMA RedeemOpens == ASSUME TypeOK, NEW c \in Codes, Redeem(c) PROVE Authorized!Open(c)
<1>1. /\ codes[c] # NULL /\ codes'[c] # NULL /\ ~codes[c].used /\ codes'[c].used
      /\ \A d \in Codes : d # c => codes'[d] = codes[d]
      /\ pats' = pats /\ refresh' = refresh
      /\ \A d \in Codes : LivePats(d)' = LivePats(d) /\ LiveRefresh(d)' = LiveRefresh(d)
  BY RedeemMarks
<1>2. c \notin Opened /\ Opened' = Opened \cup {c}
  BY <1>1 DEF Opened
<1>3. AccessOf' = AccessOf /\ RefreshOf' = RefreshOf
  BY <1>1 DEF AccessOf, RefreshOf
<1>4. Retired' = Retired
  BY <1>1 DEF Retired, Live
<1> QED BY <1>2, <1>3, <1>4 DEF Authorized!Open, Opened, AccessOf, RefreshOf, Retired

\* Inserting the access token issues the first half of a pair.
LEMMA MintAccessIssues ==
  ASSUME Inv, NEW p \in Pats, MintAccess(p), NEW c \in Codes, c = job.auth
  PROVE  Authorized!IssueAccess(c, p)
<1>1. TypeOK /\ Core /\ JobInv
  BY DEF Inv
<1>2. /\ LivePats(c) = {} /\ LiveRefresh(c) = {}
      /\ \A d \in Codes : LivePats(d)' = IF d = c THEN {p} ELSE LivePats(d)
      /\ \A d \in Codes : LiveRefresh(d)' = LiveRefresh(d)
  BY <1>1, CoreMintAccess
<1>3. c \in Opened
  BY <1>1 DEF Opened, JobInv, MintAccess, Idle
<1>4. pats[p] = NULL /\ p \notin RefreshIds /\ UNCHANGED <<codes, refresh>>
  BY DEF MintAccess
<1>5. p \notin Retired
  BY <1>4 DEF Retired
<1>6. Opened' = Opened
  BY <1>4 DEF Opened
<1>7. /\ pats'[p] = [user |-> job.user, auth |-> job.auth, state |-> "live"]
      /\ \A q \in Pats : q # p => pats'[q] = pats[q]
  BY <1>1 DEF MintAccess, TypeOK
<1>8. Live(pats[p])'
  BY <1>1, <1>2 DEF LivePats
<1>9. Retired' = Retired
  BY <1>4, <1>7, <1>8 DEF Retired, Live
<1>10. AccessOf[c] = {} /\ RefreshOf[c] = {}
  BY <1>2 DEF AccessOf, RefreshOf
<1>11. AccessOf' = [AccessOf EXCEPT ![c] = {p}]
  BY <1>2 DEF AccessOf
<1>12. RefreshOf' = RefreshOf
  BY <1>2 DEF RefreshOf
<1> QED
  BY <1>3, <1>5, <1>6, <1>9, <1>10, <1>11, <1>12
  DEF Authorized!IssueAccess, Opened, AccessOf, RefreshOf, Retired

\* Inserting the refresh token issues the other half.
LEMMA MintRefreshIssues ==
  ASSUME Inv, NEW r \in RefreshIds, MintRefresh(r), NEW c \in Codes, c = job.auth
  PROVE  Authorized!IssueRefresh(c, r)
<1>1. TypeOK /\ Core /\ JobInv
  BY DEF Inv
<1>2. /\ LivePats(c) # {} /\ LiveRefresh(c) = {}
      /\ \A d \in Codes : LiveRefresh(d)' = IF d = c THEN {r} ELSE LiveRefresh(d)
      /\ \A d \in Codes : LivePats(d)' = LivePats(d)
  BY <1>1, CoreMintRefresh
<1>3. c \in Opened
  BY <1>1 DEF Opened, JobInv, MintRefresh, Idle
<1>4. refresh[r] = NULL /\ r \notin Pats /\ UNCHANGED <<codes, pats>>
  BY DEF MintRefresh
<1>5. r \notin Retired
  BY <1>4 DEF Retired
<1>6. Opened' = Opened
  BY <1>4 DEF Opened
<1>7. \A s \in RefreshIds : s # r => refresh'[s] = refresh[s]
  BY <1>1 DEF MintRefresh, TypeOK
<1>8. Live(refresh[r])'
  BY <1>2 DEF LiveRefresh
<1>9. Retired' = Retired
  BY <1>4, <1>7, <1>8 DEF Retired, Live
<1>10. AccessOf[c] # {} /\ RefreshOf[c] = {}
  BY <1>2 DEF AccessOf, RefreshOf
<1>11. RefreshOf' = [RefreshOf EXCEPT ![c] = {r}]
  BY <1>2 DEF RefreshOf
<1>12. AccessOf' = AccessOf
  BY <1>2 DEF AccessOf
<1> QED
  BY <1>3, <1>5, <1>6, <1>9, <1>10, <1>11, <1>12
  DEF Authorized!IssueRefresh, Opened, AccessOf, RefreshOf, Retired

\* A code that nobody redeemed yet, and a token created by hand, are no
\* authorization's.
LEMMA UnseenConsent ==
  ASSUME TypeOK, NEW u \in Users, NEW c \in Codes, Consent(u, c) PROVE UNCHANGED Authorized!avars
<1>1. /\ codes[c] = NULL /\ codes'[c] = [user |-> u, used |-> FALSE, over |-> FALSE]
      /\ \A d \in Codes : d # c => codes'[d] = codes[d]
      /\ UNCHANGED <<pats, refresh>>
  BY DEF Consent, TypeOK
<1>2. ~codes'[c].used
  BY <1>1
<1>3. Opened' = Opened
  BY <1>1, <1>2 DEF Opened
<1>4. AccessOf' = AccessOf /\ RefreshOf' = RefreshOf /\ Retired' = Retired
  BY <1>1 DEF AccessOf, RefreshOf, Retired, LivePats, LiveRefresh, Live
<1> QED BY <1>3, <1>4 DEF Authorized!avars, Opened, AccessOf, RefreshOf, Retired

LEMMA UnseenCreate ==
  ASSUME TypeOK, Core, NEW u \in Users, NEW p \in Pats, CreateToken(u, p)
  PROVE  UNCHANGED Authorized!avars
<1>1. /\ pats[p] = NULL /\ pats'[p] = [user |-> u, auth |-> NULL, state |-> "live"]
      /\ \A q \in Pats : q # p => pats'[q] = pats[q]
      /\ UNCHANGED <<codes, refresh>>
  BY DEF CreateToken, TypeOK
<1>2. pats'[p].auth = NULL
  BY <1>1
<1>3. AccessOf' = AccessOf /\ RefreshOf' = RefreshOf
  BY CoreCreate DEF AccessOf, RefreshOf
<1>4. Opened' = Opened
  BY <1>1 DEF Opened
<1>5. Retired' = Retired
  BY <1>1, <1>2 DEF Retired, Live
<1> QED BY <1>3, <1>4, <1>5 DEF Authorized!avars, Opened, AccessOf, RefreshOf, Retired

\* Every statement, and every kill, is a step of Authorization or unseen.
LEMMA StepAuthorized == Inv /\ [Next]_vars => [Authorized!Next]_Authorized!avars
<1> DEFINE Seen == Authorized!Next \/ UNCHANGED Authorized!avars
<1>1. ASSUME Authorized!Retire PROVE Seen
  BY <1>1 DEF Authorized!Next
<1>2. ASSUME UNCHANGED vars PROVE UNCHANGED Authorized!avars
  BY <1>2 DEF vars, Authorized!avars, LivePats, LiveRefresh, Live
<1>3. ASSUME Inv, Next PROVE Seen
  <2>1. TypeOK /\ Core /\ JobInv
    BY <1>3 DEF Inv
  <2>2. ASSUME NEW c \in Codes, Redeem(c) PROVE Seen
    <3>1. Authorized!Open(c)
      BY <2>1, <2>2, RedeemOpens
    <3> QED BY <3>1 DEF Authorized!Next
  <2>3. ASSUME NEW p \in Pats, MintAccess(p) PROVE Seen
    <3>1. PICK c \in Codes : c = job.auth
      BY <2>1, <2>3 DEF JobInv, MintAccess, Idle
    <3>2. Authorized!IssueAccess(c, p)
      BY <1>3, <2>3, <3>1, MintAccessIssues
    <3> QED BY <3>2 DEF Authorized!Next
  <2>4. ASSUME NEW r \in RefreshIds, MintRefresh(r) PROVE Seen
    <3>1. PICK c \in Codes : c = job.auth
      BY <2>1, <2>4 DEF JobInv, MintRefresh, Idle
    <3>2. Authorized!IssueRefresh(c, r)
      BY <1>3, <2>4, <3>1, MintRefreshIssues
    <3> QED BY <3>2 DEF Authorized!Next
  <2>5. ASSUME NEW c \in Codes, NEW u \in Users, Consent(u, c) PROVE Seen
    BY <2>1, <2>5, UnseenConsent
  <2>6. ASSUME NEW p \in Pats, NEW u \in Users, CreateToken(u, p) PROVE Seen
    BY <2>1, <2>6, UnseenCreate
  <2> HIDE DEF Seen
  <2>7. ASSUME NEW u \in Users, Register(u) \/ \E s \in {"active", "inactive"} : SetActive(u, s)
        PROVE  Seen
    BY <1>1, <2>1, <2>7, DyingAccounts, DyingRetires
  <2>8. ASSUME NEW u \in Users, DeleteAccount(u) PROVE Seen
    BY <1>1, <2>1, <2>8, DyingDelete, DyingRetires
  <2>9. ASSUME NEW c \in Codes, ExpireCode(c) PROVE Seen
    BY <1>1, <2>1, <2>9, DyingExpire, DyingRetires
  <2>10. ASSUME NEW p \in Pats, RevokeToken(p) PROVE Seen
    BY <1>1, <2>1, <2>10, DyingRevoke, DyingRetires
  <2>11. ASSUME NEW r \in RefreshIds, Exchange(r) PROVE Seen
    BY <1>1, <2>1, <2>11, DyingExchange, DyingRetires
  <2>12. ASSUME RetireAccess PROVE Seen
    BY <1>1, <2>1, <2>12, DyingRetire, DyingRetires
  <2>13. ASSUME RevokePaired PROVE Seen
    BY <1>1, <2>1, <2>13, DyingPaired, DyingRetires
  <2>14. ASSUME Crash PROVE Seen
    BY <1>1, <2>1, <2>14, DyingCrash, DyingRetires
  <2> QED
    BY <1>3, <2>2, <2>3, <2>4, <2>5, <2>6, <2>7, <2>8, <2>9, <2>10, <2>11, <2>12, <2>13, <2>14
    DEF Next, AccountSteps, CodeSteps, TokenSteps
<1> QED BY <1>2, <1>3

LEMMA InitAuthorized == Init => Authorized!Init
BY DEF Init, Authorized!Init, LivePats, LiveRefresh, Live

\* Grants implements Authorization: an "Allow" click is redeemed once, each new
\* pair is issued only after the previous one is retired, and no retired token
\* comes back, whatever is killed and whenever.
THEOREM GrantsImplementsAuthorization == Spec => ImplementsAuthorization
BY InitAuthorized, StepAuthorized, InvAlways, PTL DEF Spec, ImplementsAuthorization, Authorized!Spec

==============================================================================
