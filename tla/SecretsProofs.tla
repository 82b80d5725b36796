---------------------------- MODULE SecretsProofs ----------------------------
(***************************************************************************)
(* Theorems about Secrets, for any accounts, projects and secrets: the log *)
(* lacks no reveal and no removal, and no secret lacks its file.           *)
(***************************************************************************)
EXTENDS Secrets, TLAPS

USE NullIsNobody, RolesGiven, KeptActions, NullIsNoRow, NullIsNoRole

\* What the statements that are left of a handler may rely on.
JobInv ==
  job # NULL =>
    /\ job.todo = "record" =>
         /\ job.project \in projects /\ secrets[job.secret] = NULL
         /\ job.secret \in disk /\ job.action = "created"
    /\ job.todo # "record" => Live(job.secret) /\ job.user \in accounts
    /\ job.todo = "answer" => job.action = "viewed" /\ Entry(job) \in log
    /\ job.todo = "drop" => job.action = "deleted" /\ Entry(job) \in log

\* Only the file of a deleted secret is ever handed to unlink.
FileInv ==
  /\ \A s \in doomed : secrets[s] # NULL /\ ~secrets[s].live
  /\ SecretFilesExist

\* Reveals are logged, and what was revealed was a secret.
SeenInv ==
  /\ \A s \in Secrets, u \in Users : <<s, u>> \in seen => secrets[s] # NULL
  /\ RevealsAreLogged

-----------------------------------------------------------------------------

\* Deleting rows leaves everything of a row but whether it is live.
LEMMA RemovedRows ==
  ASSUME TypeOK, NEW S \in SUBSET {s \in Secrets : secrets[s] # NULL}
  PROVE  /\ Removed(S) \in [Secrets -> SecretRow \cup {NULL}]
         /\ \A s \in Secrets : secrets[s] = NULL => Removed(S)[s] = NULL
         /\ \A s \in Secrets : secrets[s] # NULL =>
              /\ Removed(S)[s] # NULL
              /\ Removed(S)[s].project = secrets[s].project
              /\ Removed(S)[s].file = secrets[s].file
              /\ Removed(S)[s].live = (secrets[s].live /\ s \notin S)
<1>1. ASSUME NEW s \in Secrets, secrets[s] # NULL
      PROVE  /\ secrets[s] \in SecretRow
             /\ [secrets[s] EXCEPT !.live = FALSE] \in SecretRow
  <2>1. secrets[s] \in SecretRow
    BY <1>1 DEF TypeOK
  <2> QED BY <2>1 DEF SecretRow
<1>2. Removed(S) \in [Secrets -> SecretRow \cup {NULL}]
  BY <1>1 DEF Removed, TypeOK
<1>3. ASSUME NEW s \in Secrets, secrets[s] # NULL
      PROVE  /\ Removed(S)[s] # NULL
             /\ Removed(S)[s].project = secrets[s].project
             /\ Removed(S)[s].file = secrets[s].file
             /\ Removed(S)[s].live = (secrets[s].live /\ s \notin S)
  <2>1. CASE s \in S
    BY <1>1, <1>3, <2>1 DEF Removed, SecretRow
  <2>2. CASE s \notin S
    BY <1>1, <1>3, <2>2 DEF Removed, SecretRow
  <2> QED BY <2>1, <2>2
<1> QED BY <1>2, <1>3 DEF Removed

\* A row of a secret, as the two ways to create one insert it.
LEMMA NewRow ==
  ASSUME NEW p \in Projects, NEW file \in BOOLEAN
  PROVE  [project |-> p, file |-> file, live |-> TRUE] \in SecretRow
BY DEF SecretRow

\* What is left to do is about a known secret, project and caller.
LEMMA LeftType ==
  ASSUME NEW todo \in {"record", "log", "answer", "drop"}, NEW u \in Users, NEW s \in Secrets,
         NEW p \in Projects, NEW action \in Actions
  PROVE  Left(todo, u, s, p, action) \in Job
BY DEF Left, Job

-----------------------------------------------------------------------------

\* Memberships, accounts and projects that go keep the tables well-typed.
LEMMA TenancyType == ASSUME TypeOK, TenancySteps PROVE TypeOK'
<1>1. ASSUME NEW u \in Users, DeleteAccount(u) PROVE TypeOK'
  <2>1. log' \subseteq LogRow
    <3>1. \A e \in LogRow : [e EXCEPT !.user = NULL] \in LogRow
      BY DEF LogRow
    <3> QED BY <1>1, <3>1 DEF DeleteAccount, TypeOK
  <2>2. shares' \in [Secrets -> [Users -> {"use", "reshare", NULL}]]
    BY <1>1 DEF DeleteAccount, TypeOK
  <2> QED BY <1>1, <2>1, <2>2 DEF DeleteAccount, TypeOK, Live
<1>2. ASSUME NEW u \in Users, NEW r \in RoleArgs, SetRole(u, r) PROVE TypeOK'
  BY <1>2 DEF SetRole, TypeOK, Live
<1>3. ASSUME NEW u \in Users, NEW p \in Projects, DeleteProject(u, p) PROVE TypeOK'
  <2>1. Of(p) \in SUBSET {s \in Secrets : secrets[s] # NULL}
    BY DEF Of, Live
  <2>2. shares' \in [Secrets -> [Users -> {"use", "reshare", NULL}]]
    BY <1>3 DEF DeleteProject, SharesWithout, Unshared, TypeOK
  <2>3. ASSUME NEW s \in Secrets, Live(s)' PROVE secrets'[s].project \in projects'
    <3>1. secrets' = Removed(Of(p)) /\ projects' = projects \ {p}
      BY <1>3 DEF DeleteProject
    <3>2. secrets[s] # NULL
      BY <2>1, <2>3, <3>1, RemovedRows DEF Live
    <3>3. /\ secrets'[s].project = secrets[s].project
          /\ secrets[s].live /\ s \notin Of(p)
      BY <2>1, <2>3, <3>1, <3>2, RemovedRows DEF Live
    <3>4. Live(s) /\ secrets[s].project # p
      BY <3>2, <3>3 DEF Live, Of
    <3> QED BY <3>1, <3>3, <3>4 DEF TypeOK
  <2>4. secrets' \in [Secrets -> SecretRow \cup {NULL}]
    BY <1>3, <2>1, RemovedRows DEF DeleteProject
  <2> QED BY <1>3, <2>2, <2>3, <2>4 DEF DeleteProject, TypeOK
<1> QED BY <1>1, <1>2, <1>3 DEF TenancySteps

\* A request leaves its handler with something to do about a known secret.
LEMMA RequestType == ASSUME TypeOK, Requests PROVE TypeOK'
<1>0. ASSUME NEW s \in Secrets, Live(s) PROVE secrets[s].project \in Projects
  BY <1>0 DEF Live, TypeOK
<1> USE DEF Actions
<1>1. ASSUME NEW u \in Users, BeginUpload(u) PROVE TypeOK'
  BY <1>1 DEF BeginUpload, TypeOK, Live
<1>2. ASSUME NEW u \in Users, RefuseUpload(u) PROVE TypeOK'
  BY <1>2 DEF RefuseUpload, TypeOK, Live
<1>3. ASSUME NEW u \in Users, NEW p \in Projects, NEW s \in Secrets, CreateValue(u, p, s)
      PROVE  TypeOK'
  <2>1. job' \in Job
    BY <1>3, LeftType DEF CreateValue
  <2> DEFINE row == [project |-> p, file |-> FALSE, live |-> TRUE]
  <2>2. row \in SecretRow /\ row.project = p
    BY NewRow
  <2>3. secrets' = [secrets EXCEPT ![s] = row]
    BY <1>3 DEF CreateValue
  <2> HIDE DEF row
  <2>4. secrets' \in [Secrets -> SecretRow \cup {NULL}]
    BY <2>2, <2>3 DEF TypeOK
  <2>5. ASSUME NEW x \in Secrets, Live(x)' PROVE secrets'[x].project \in projects
    <3>1. CASE x = s
      BY <1>3, <2>2, <2>3, <3>1 DEF CreateValue, TypeOK
    <3>2. CASE x # s
      BY <2>3, <2>5, <3>2 DEF TypeOK, Live
    <3> QED BY <3>1, <3>2
  <2> QED BY <1>3, <2>1, <2>4, <2>5 DEF CreateValue, TypeOK
<1>4. ASSUME NEW u \in Users, NEW p \in Projects, NEW s \in Secrets, StoreFile(u, p, s)
      PROVE  TypeOK'
  <2>1. job' \in Job
    BY <1>4, LeftType DEF StoreFile
  <2> QED BY <1>4, <2>1 DEF StoreFile, Written, TypeOK, Live
<1>5. ASSUME NEW u \in Users, NEW s \in Secrets, Reveal(u, s) \/ Update(u, s) \/ Delete(u, s)
      PROVE  TypeOK'
  <2>1. Live(s)
    BY <1>5 DEF Reveal, Update, Delete, MayRead
  <2>2. job' \in Job
    BY <1>0, <1>5, <2>1, LeftType DEF Reveal, Update, Delete, ToReveal, ToDelete
  <2> QED BY <1>5, <2>2 DEF Reveal, Update, Delete, TypeOK, Live
<1>6. ASSUME NEW u \in Users, NEW s \in Secrets, NEW v \in Users, Unshare(u, s, v) PROVE TypeOK'
  <2>1. job' \in Job
    BY <1>0, <1>6, LeftType DEF Unshare, MayShare
  <2> QED BY <1>6, <2>1 DEF Unshare, TypeOK, Live
<1>7. ASSUME NEW u \in Users, NEW s \in Secrets, NEW v \in Users, NEW level \in {"use", "reshare"},
             Share(u, s, v, level) PROVE TypeOK'
  <2>1. job' \in Job
    BY <1>0, <1>7, LeftType DEF Share, MayShare
  <2> QED BY <1>7, <2>1 DEF Share, TypeOK, Live
<1> QED BY <1>1, <1>2, <1>3, <1>4, <1>5, <1>6, <1>7 DEF Requests

\* Every later statement keeps the types; a row is inserted into a project
\* that is still there.
LEMMA StatementType == ASSUME TypeOK, JobInv, Statements PROVE TypeOK'
<1>1. ASSUME Record PROVE TypeOK'
  <2>1. job \in Job /\ job.project \in projects /\ job.secret \in Secrets
    BY <1>1 DEF Record, Idle, JobInv, TypeOK, Job
  <2> DEFINE row == [project |-> job.project, file |-> TRUE, live |-> TRUE]
  <2>2. row \in SecretRow /\ row.project = job.project
    BY <2>1, NewRow DEF TypeOK
  <2>3. secrets' = [secrets EXCEPT ![job.secret] = row]
    BY <1>1 DEF Record
  <2>4. job' \in Job
    BY <1>1, <2>1 DEF Record, Job
  <2> HIDE DEF row
  <2> QED BY <1>1, <2>1, <2>2, <2>3, <2>4 DEF Record, TypeOK, Live
<1>2. ASSUME Log PROVE TypeOK'
  <2>1. job \in Job
    BY <1>2 DEF Log, Idle, TypeOK
  <2>2. Entry(job) \in LogRow
    BY <2>1 DEF Entry, LogRow, Job
  <2>3. job' \in Job \cup {NULL}
    BY <1>2, <2>1 DEF Log, AfterLog, Job
  <2> QED BY <1>2, <2>2, <2>3 DEF Log, TypeOK, Live
<1>3. ASSUME Answer PROVE TypeOK'
  BY <1>3 DEF Answer, Idle, TypeOK, Job, Live
<1>4. ASSUME Drop PROVE TypeOK'
  <2>1. job.secret \in Secrets /\ secrets[job.secret] # NULL
    BY <1>4 DEF Drop, Idle, JobInv, TypeOK, Job, Live
  <2> DEFINE S == {job.secret}
  <2>2. S \in SUBSET {s \in Secrets : secrets[s] # NULL}
    BY <2>1
  <2>3. secrets' = Removed(S) /\ shares' = SharesWithout(S)
    BY <1>4 DEF Drop
  <2>4. shares' \in [Secrets -> [Users -> {"use", "reshare", NULL}]]
    BY <2>3 DEF SharesWithout, Unshared, TypeOK
  <2>5. doomed' \subseteq Secrets
    BY <1>4, <2>1 DEF Drop, TypeOK
  <2>6. secrets' \in [Secrets -> SecretRow \cup {NULL}]
    BY <2>2, <2>3, RemovedRows
  <2>7. ASSUME NEW s \in Secrets, Live(s)' PROVE secrets'[s].project \in projects
    <3>1. secrets[s] # NULL
      BY <2>2, <2>3, <2>7, RemovedRows DEF Live
    <3>2. secrets'[s].project = secrets[s].project /\ secrets[s].live
      BY <2>2, <2>3, <2>7, <3>1, RemovedRows DEF Live
    <3> QED BY <3>1, <3>2 DEF TypeOK, Live
  <2> QED BY <1>4, <2>4, <2>5, <2>6, <2>7 DEF Drop, TypeOK
<1>5. ASSUME NEW s \in Secrets, Unlink(s) PROVE TypeOK'
  BY <1>5 DEF Unlink, TypeOK, Live
<1> QED BY <1>1, <1>2, <1>3, <1>4, <1>5 DEF Statements
-----------------------------------------------------------------------------

\* Whoever has a role in the workspace has an account.
MemberInv == \A u \in Users : role[u] # NULL => u \in accounts

\* Roles are given to accounts, and deleting an account takes them away.
LEMMA MemberSafe == ASSUME TypeOK, MemberInv, Next PROVE MemberInv'
<1>1. ASSUME UNCHANGED <<role, accounts>> PROVE MemberInv'
  BY <1>1 DEF MemberInv
<1>2. ASSUME NEW u \in Users, DeleteAccount(u) PROVE MemberInv'
  BY <1>2 DEF DeleteAccount, MemberInv, TypeOK
<1>3. ASSUME NEW u \in Users, NEW r \in RoleArgs, SetRole(u, r) PROVE MemberInv'
  BY <1>3 DEF SetRole, MemberInv, TypeOK
<1>4. ASSUME NEW u \in Users, NEW p \in Projects, DeleteProject(u, p) PROVE MemberInv'
  BY <1>1, <1>4 DEF DeleteProject
<1>5. ASSUME Requests PROVE MemberInv'
  BY <1>1, <1>5 DEF Requests, BeginUpload, RefuseUpload, CreateValue, StoreFile, Reveal, Update,
     Delete, Share, Unshare
<1>6. ASSUME Statements \/ Kill \/ RecordThrows PROVE MemberInv'
  BY <1>1, <1>6 DEF Statements, Record, Log, Answer, Drop, Unlink, Kill, RecordThrows, Restarted
<1> QED BY <1>2, <1>3, <1>4, <1>5, <1>6 DEF Next, TenancySteps

-----------------------------------------------------------------------------

\* A request starts its handler with a live secret and a caller with an
\* account, or with a file on disk for a project that is there.
LEMMA RequestJob == ASSUME TypeOK, JobInv, MemberInv, Requests PROVE JobInv'
<1>1. ASSUME NEW s \in Secrets, NEW u \in Users, NEW p, NEW action,
             u \in accounts, UNCHANGED accounts, Live(s)', job' = Left("log", u, s, p, action)
      PROVE  JobInv'
  BY <1>1 DEF JobInv, Left
<1>2. ASSUME NEW u \in Users, role[u] # NULL PROVE u \in accounts
  BY <1>2 DEF MemberInv
<1>3. ASSUME NEW u \in Users, Manages(u) PROVE role[u] # NULL
  BY <1>3 DEF Manages, AtLeast
<1>4. ASSUME NEW u \in Users, BeginUpload(u) \/ RefuseUpload(u) PROVE JobInv'
  BY <1>4 DEF BeginUpload, RefuseUpload, Idle, JobInv
<1>5. ASSUME NEW u \in Users, NEW p \in Projects, NEW s \in Secrets, CreateValue(u, p, s)
      PROVE  JobInv'
  <2>1. Live(s)'
    <3> DEFINE row == [project |-> p, file |-> FALSE, live |-> TRUE]
    <3>1. row \in SecretRow /\ row.live
      BY NewRow
    <3>2. secrets' = [secrets EXCEPT ![s] = row]
      BY <1>5 DEF CreateValue
    <3> HIDE DEF row
    <3> QED BY <3>1, <3>2 DEF Live, TypeOK
  <2> QED BY <1>1, <1>2, <1>3, <1>5, <2>1 DEF CreateValue
<1>6. ASSUME NEW u \in Users, NEW p \in Projects, NEW s \in Secrets, StoreFile(u, p, s)
      PROVE  JobInv'
  <2>1. job' = Left("record", u, s, p, "created") /\ disk' = disk \cup {s}
    BY <1>6 DEF StoreFile, Written
  <2>2. p \in projects /\ secrets[s] = NULL /\ UNCHANGED <<projects, secrets>>
    BY <1>6 DEF StoreFile, MayStore
  <2> QED BY <2>1, <2>2 DEF JobInv, Left
<1>7. ASSUME NEW u \in Users, NEW s \in Secrets, Reveal(u, s) \/ Update(u, s) \/ Delete(u, s)
      PROVE  JobInv'
  <2>1. Live(s) /\ u \in accounts
    BY <1>2, <1>3, <1>7 DEF Reveal, Update, Delete, MayRead
  <2>2. /\ UNCHANGED <<secrets, accounts>>
        /\ \E action \in Actions : job' = Left("log", u, s, secrets[s].project, action)
    BY <1>7 DEF Reveal, Update, Delete, ToReveal, ToDelete, Actions
  <2> QED BY <1>1, <2>1, <2>2 DEF Live
<1>8. ASSUME NEW u \in Users, NEW s \in Secrets, NEW v \in Users, Unshare(u, s, v) PROVE JobInv'
  BY <1>1, <1>2, <1>8 DEF Unshare, MayShare, Live
<1>9. ASSUME NEW u \in Users, NEW s \in Secrets, NEW v \in Users, NEW level \in {"use", "reshare"},
             Share(u, s, v, level) PROVE JobInv'
  BY <1>1, <1>2, <1>9 DEF Share, MayShare, Live
<1> QED BY <1>4, <1>5, <1>6, <1>7, <1>8, <1>9 DEF Requests

\* Each statement hands the next one what it relies on; without a running
\* handler there is nothing to rely on.
LEMMA JobSafe == ASSUME TypeOK, JobInv, MemberInv, FileInv, Next PROVE JobInv'
<1>1. ASSUME job' = NULL PROVE JobInv'
  BY <1>1 DEF JobInv
<1>2. ASSUME TenancySteps \/ Answer \/ Drop \/ Kill \/ RecordThrows PROVE JobInv'
  BY <1>1, <1>2 DEF TenancySteps, DeleteAccount, SetRole, DeleteProject, Idle, Answer, Drop,
     Kill, RecordThrows, Restarted
<1>3. ASSUME Record PROVE JobInv'
  <2>1. job \in Job /\ job.user \in accounts /\ job.action = "created"
    BY <1>3 DEF Record, Idle, JobInv, TypeOK
  <2>2. job' = [job EXCEPT !.todo = "log"] /\ UNCHANGED accounts
    BY <1>3 DEF Record
  <2>3. job'.todo = "log" /\ job'.secret = job.secret /\ job'.user = job.user
    BY <2>1, <2>2 DEF Job
  <2>4. secrets'[job.secret] # NULL /\ secrets'[job.secret].live
    <3> DEFINE row == [project |-> job.project, file |-> TRUE, live |-> TRUE]
    <3>1. job.secret \in Secrets /\ row \in SecretRow /\ row.live
      BY <2>1 DEF Job, SecretRow
    <3>2. secrets' = [secrets EXCEPT ![job.secret] = row]
      BY <1>3 DEF Record
    <3> HIDE DEF row
    <3> QED BY <3>1, <3>2 DEF TypeOK
  <2>5. Live(job.secret)'
    BY <2>3, <2>4 DEF Live
  <2> QED BY <2>1, <2>2, <2>3, <2>5 DEF JobInv
<1>4. ASSUME Log PROVE JobInv'
  <2>1. job \in Job /\ Live(job.secret) /\ job.user \in accounts
    BY <1>4 DEF Log, Idle, JobInv, TypeOK
  <2>2. UNCHANGED <<secrets, accounts>>
    BY <1>4 DEF Log
  <2>3. CASE job.action \in {"viewed", "deleted"}
    <3>1. /\ job' = [job EXCEPT !.todo = IF job.action = "viewed" THEN "answer" ELSE "drop"]
          /\ log' = log \cup {Entry(job)}
      BY <1>4, <2>3 DEF Log, AfterLog
    <3>2. /\ job'.todo = (IF job.action = "viewed" THEN "answer" ELSE "drop")
          /\ job'.secret = job.secret /\ job'.user = job.user /\ job'.action = job.action
      BY <2>1, <3>1 DEF Job
    <3>3. Entry(job') = Entry(job)
      BY <3>2 DEF Entry
    <3> QED BY <2>1, <2>2, <2>3, <3>1, <3>2, <3>3 DEF JobInv, Live, Entry
  <2>4. CASE job.action \notin {"viewed", "deleted"}
    BY <1>1, <1>4, <2>4 DEF Log, AfterLog
  <2> QED BY <2>3, <2>4
<1>5. ASSUME NEW s \in Secrets, Unlink(s) PROVE JobInv'
  BY <1>5 DEF Unlink, JobInv, FileInv, Live, Entry
<1> QED BY <1>2, <1>3, <1>4, <1>5, RequestJob DEF Next, Statements

-----------------------------------------------------------------------------

-----------------------------------------------------------------------------

\* Only a deleted row is handed to unlink, and a row is inserted over its file.
LEMMA FileSafe == ASSUME TypeOK, JobInv, FileInv, Next PROVE FileInv'
<1>0. SUFFICES ASSUME NEW s \in Secrets
      PROVE  /\ s \in doomed' => secrets'[s] # NULL /\ ~secrets'[s].live
             /\ secrets'[s] # NULL /\ secrets'[s].live /\ secrets'[s].file => s \in disk' \ doomed'
  <2>1. TypeOK'
    BY TenancyType, RequestType, StatementType DEF Next, Kill, RecordThrows, Restarted, TypeOK, Live
  <2> QED BY <1>0, <2>1 DEF FileInv, SecretFilesExist, Live, TypeOK
<1> DEFINE Fine == /\ s \in doomed => secrets[s] # NULL /\ ~secrets[s].live
                   /\ secrets[s] # NULL /\ secrets[s].live /\ secrets[s].file => s \in disk \ doomed
<1>1. Fine
  BY DEF FileInv, SecretFilesExist, Live
<1>2. ASSUME UNCHANGED <<secrets, disk, doomed>> PROVE Fine'
  BY <1>1, <1>2
<1>3. ASSUME NEW S \in SUBSET {x \in Secrets : secrets[x] # NULL}, secrets' = Removed(S),
             UNCHANGED disk, doomed' \subseteq doomed \cup S
      PROVE  Fine'
  <2>1. CASE secrets[s] = NULL
    BY <1>1, <1>3, <2>1, RemovedRows
  <2>2. CASE secrets[s] # NULL
    <3>1. /\ secrets'[s] # NULL /\ secrets'[s].file = secrets[s].file
          /\ secrets'[s].live = (secrets[s].live /\ s \notin S)
      BY <1>3, <2>2, RemovedRows
    <3> QED BY <1>1, <1>3, <2>2, <3>1
  <2> QED BY <2>1, <2>2
<1>4. ASSUME TenancySteps PROVE Fine'
  <2>1. ASSUME NEW u \in Users, NEW p \in Projects, DeleteProject(u, p) PROVE Fine'
    BY <1>3, <2>1 DEF DeleteProject, Of, Live
  <2> QED BY <1>2, <1>4, <2>1 DEF TenancySteps, DeleteAccount, SetRole
<1>5. ASSUME NEW u \in Users, NEW p \in Projects, NEW x \in Secrets, CreateValue(u, p, x) PROVE Fine'
  BY <1>1, <1>5 DEF CreateValue, TypeOK
<1>6. ASSUME NEW u \in Users, NEW p \in Projects, NEW x \in Secrets, StoreFile(u, p, x) PROVE Fine'
  BY <1>1, <1>6 DEF StoreFile, Written
<1>7. ASSUME Requests PROVE Fine'
  BY <1>2, <1>5, <1>6, <1>7 DEF Requests, BeginUpload, RefuseUpload, Reveal, Update, Delete, Share,
     Unshare
<1>8. ASSUME Record PROVE Fine'
  <2>1. secrets[job.secret] = NULL /\ job.secret \in disk
    BY <1>8 DEF Record, Idle, JobInv
  <2>2. job.secret \notin doomed
    BY <2>1 DEF FileInv
  <2> QED BY <1>1, <1>8, <2>1, <2>2 DEF Record, TypeOK
<1>9. ASSUME Drop PROVE Fine'
  <2>1. job.secret \in Secrets /\ secrets[job.secret] # NULL
    BY <1>9 DEF Drop, Idle, JobInv, TypeOK, Job, Live
  <2> QED BY <1>3, <1>9, <2>1 DEF Drop
<1>10. ASSUME NEW x \in Secrets, Unlink(x) PROVE Fine'
  BY <1>1, <1>10 DEF Unlink, FileInv
<1>11. ASSUME Kill \/ RecordThrows PROVE Fine'
  BY <1>1, <1>11 DEF Kill, RecordThrows, Restarted
<1> QED
  BY <1>2, <1>4, <1>7, <1>8, <1>9, <1>10, <1>11 DEF Next, Statements, Log, Answer

-----------------------------------------------------------------------------

\* Log entries stay, apart from those of a deleted project; those of a deleted
\* account lose its name, which is how they are looked up from then on.
LEMMA EntriesStay ==
  ASSUME TypeOK, Next, NEW s \in Secrets, NEW u \in Users, NEW action,
         secrets[s] # NULL, secrets[s].project \in projects', Entries(s, u, action) # {}
  PROVE  Entries(s, u, action)' # {}
<1>1. PICK e \in log : e.secret = s /\ e.action = action /\ e.user = IF u \in accounts THEN u ELSE NULL
  BY DEF Entries
<1>2. e \in LogRow
  BY DEF TypeOK
<1>3. ASSUME e \in log', UNCHANGED accounts PROVE Entries(s, u, action)' # {}
  BY <1>1, <1>3 DEF Entries
<1>4. ASSUME NEW v \in Users, DeleteAccount(v) PROVE Entries(s, u, action)' # {}
  <2> DEFINE d == IF e.user = v THEN [e EXCEPT !.user = NULL] ELSE e
  <2>1. d \in log'
    BY <1>4 DEF DeleteAccount
  <2>2. d.secret = s /\ d.action = action /\ d.user = IF u \in accounts' THEN u ELSE NULL
    <3>1. CASE e.user = v
      BY <1>1, <1>2, <1>4, <3>1 DEF DeleteAccount, LogRow
    <3>2. CASE e.user # v
      BY <1>1, <1>4, <3>2 DEF DeleteAccount
    <3> QED BY <3>1, <3>2
  <2> HIDE DEF d
  <2> QED BY <2>1, <2>2 DEF Entries
<1>5. ASSUME NEW v \in Users, NEW p \in Projects, DeleteProject(v, p)
      PROVE  Entries(s, u, action)' # {}
  BY <1>1, <1>3, <1>5 DEF DeleteProject
<1>6. ASSUME NEW v \in Users, NEW r \in RoleArgs, SetRole(v, r) PROVE Entries(s, u, action)' # {}
  BY <1>3, <1>6 DEF SetRole
<1>7. ASSUME Requests PROVE Entries(s, u, action)' # {}
  BY <1>3, <1>7 DEF Requests, BeginUpload, RefuseUpload, CreateValue, StoreFile, Reveal, Update,
     Delete, Share, Unshare
<1>8. ASSUME Statements \/ Kill \/ RecordThrows PROVE Entries(s, u, action)' # {}
  BY <1>3, <1>8 DEF Statements, Record, Log, Answer, Drop, Unlink, Kill, RecordThrows, Restarted
<1> QED BY <1>4, <1>5, <1>6, <1>7, <1>8 DEF Next, TenancySteps

-----------------------------------------------------------------------------

\* Rows keep their project, and ids are not reused.
LEMMA RowsStay ==
  ASSUME TypeOK, JobInv, Next, NEW s \in Secrets, secrets[s] # NULL
  PROVE  secrets'[s] # NULL /\ secrets'[s].project = secrets[s].project
<1>1. ASSUME UNCHANGED secrets PROVE secrets'[s] # NULL /\ secrets'[s].project = secrets[s].project
  BY <1>1
<1>2. ASSUME NEW S \in SUBSET {x \in Secrets : secrets[x] # NULL}, secrets' = Removed(S)
      PROVE  secrets'[s] # NULL /\ secrets'[s].project = secrets[s].project
  BY <1>2, RemovedRows
<1>3. ASSUME NEW u \in Users, NEW p \in Projects, DeleteProject(u, p)
      PROVE  secrets'[s] # NULL /\ secrets'[s].project = secrets[s].project
  BY <1>2, <1>3 DEF DeleteProject, Of, Live
<1>4. ASSUME NEW u \in Users, NEW p \in Projects, NEW x \in Secrets, CreateValue(u, p, x)
      PROVE  UNCHANGED secrets[s]
  BY <1>4 DEF CreateValue, TypeOK
<1>5. ASSUME Record PROVE UNCHANGED secrets[s]
  <2>1. secrets[job.secret] = NULL
    BY <1>5 DEF Record, Idle, JobInv
  <2> QED BY <1>5, <2>1 DEF Record, TypeOK
<1>6. ASSUME Drop PROVE secrets'[s] # NULL /\ secrets'[s].project = secrets[s].project
  <2>1. job.secret \in Secrets /\ secrets[job.secret] # NULL
    BY <1>6 DEF Drop, Idle, JobInv, TypeOK, Job, Live
  <2> QED BY <1>2, <1>6, <2>1 DEF Drop
<1>7. ASSUME Requests PROVE UNCHANGED secrets[s]
  BY <1>4, <1>7 DEF Requests, BeginUpload, RefuseUpload, StoreFile, Reveal, Update, Delete, Share,
     Unshare
<1>8. ASSUME \/ Log \/ Answer \/ Kill \/ RecordThrows
             \/ \E x \in Secrets : Unlink(x)
             \/ \E u \in Users : DeleteAccount(u) \/ \E r \in RoleArgs : SetRole(u, r)
      PROVE  UNCHANGED secrets[s]
  BY <1>8 DEF Log, Answer, Kill, RecordThrows, Restarted, Unlink, DeleteAccount, SetRole
<1> QED BY <1>3, <1>5, <1>6, <1>7, <1>8 DEF Next, TenancySteps, Statements

\* A project that is there was there before.
LEMMA ProjectsShrink == ASSUME Next PROVE projects' \subseteq projects
BY DEF Next, TenancySteps, Requests, Statements, DeleteAccount, SetRole, DeleteProject, BeginUpload,
   RefuseUpload, CreateValue, StoreFile, Reveal, Update, Delete, Share, Unshare, Record, Log, Answer,
   Drop, Unlink, Kill, RecordThrows, Restarted

\* What is sent was logged by the statement before.
LEMMA SeenSafe == ASSUME TypeOK, JobInv, SeenInv, Next PROVE SeenInv'
<1>1. ASSUME NEW s \in Secrets, NEW u \in Users, <<s, u>> \in seen
      PROVE  /\ secrets'[s] # NULL
             /\ secrets'[s].project \in projects' => Entries(s, u, "viewed")' # {}
  <2>1. secrets[s] # NULL
    BY <1>1 DEF SeenInv
  <2>2. secrets'[s] # NULL /\ secrets'[s].project = secrets[s].project
    BY <2>1, RowsStay
  <2>3. ASSUME secrets'[s].project \in projects' PROVE Entries(s, u, "viewed") # {}
    BY <1>1, <2>2, <2>3, ProjectsShrink DEF SeenInv, RevealsAreLogged
  <2> QED BY <2>1, <2>2, <2>3, EntriesStay
<1>2. ASSUME NEW s \in Secrets, NEW u \in Users, <<s, u>> \in seen', <<s, u>> \notin seen
      PROVE  /\ secrets'[s] # NULL
             /\ secrets'[s].project \in projects' => Entries(s, u, "viewed")' # {}
  <2>1. Answer
    BY <1>2 DEF Next, TenancySteps, Requests, Statements, DeleteAccount, SetRole, DeleteProject,
       BeginUpload, RefuseUpload, CreateValue, StoreFile, Reveal, Update, Delete, Share, Unshare,
       Record, Log, Drop, Unlink, Kill, RecordThrows, Restarted
  <2>2. s = job.secret /\ u = job.user /\ UNCHANGED <<secrets, log, accounts>>
    BY <1>2, <2>1 DEF Answer
  <2>3. Live(s) /\ u \in accounts /\ job.action = "viewed" /\ Entry(job) \in log
    BY <2>1, <2>2 DEF Answer, Idle, JobInv
  <2>4. Entry(job) \in Entries(s, u, "viewed")'
    BY <2>2, <2>3 DEF Entry, Entries
  <2> QED BY <2>2, <2>3, <2>4 DEF Live
<1> QED BY <1>1, <1>2 DEF SeenInv, RevealsAreLogged

\* What is dropped was logged by the statement before.
LEMMA RemovalSafe == ASSUME TypeOK, JobInv, RemovalIsLogged, Next PROVE RemovalIsLogged'
<1> SUFFICES ASSUME NEW s \in Secrets, secrets'[s] # NULL, ~Live(s)', secrets'[s].project \in projects'
             PROVE  \E u \in Users : Entries(s, u, "deleted")' # {}
  BY DEF RemovalIsLogged
<1>1. CASE secrets[s] # NULL /\ ~Live(s)
  <2>1. secrets[s].project \in projects'
    BY <1>1, RowsStay
  <2>2. PICK u \in Users : Entries(s, u, "deleted") # {}
    BY <1>1, <2>1, ProjectsShrink DEF RemovalIsLogged
  <2> QED BY <1>1, <2>1, <2>2, EntriesStay
<1>2. CASE secrets[s] = NULL \/ Live(s)
  <2>1. ASSUME UNCHANGED secrets PROVE FALSE
    BY <1>2, <2>1 DEF Live
  <2>2. ASSUME NEW v \in Users, NEW p \in Projects, DeleteProject(v, p) PROVE FALSE
    <3>1. Of(p) \in SUBSET {x \in Secrets : secrets[x] # NULL}
      BY DEF Of, Live
    <3>2. secrets' = Removed(Of(p)) /\ projects' = projects \ {p}
      BY <2>2 DEF DeleteProject
    <3>3. secrets[s] # NULL
      BY <3>1, <3>2, RemovedRows
    <3>4. secrets'[s].project = secrets[s].project /\ secrets'[s].live = (secrets[s].live /\ s \notin Of(p))
      BY <3>1, <3>2, <3>3, RemovedRows
    <3>5. s \in Of(p)
      BY <1>2, <3>3, <3>4 DEF Live
    <3> QED BY <3>2, <3>4, <3>5 DEF Of
  <2>3. ASSUME NEW v \in Users, NEW p \in Projects, NEW x \in Secrets, CreateValue(v, p, x) PROVE FALSE
    <3> DEFINE row == [project |-> p, file |-> FALSE, live |-> TRUE]
    <3>1. secrets' = [secrets EXCEPT ![x] = row] /\ row.live
      BY <2>3 DEF CreateValue
    <3> HIDE DEF row
    <3> QED BY <1>2, <3>1 DEF Live, TypeOK
  <2>4. ASSUME Record PROVE FALSE
    <3> DEFINE row == [project |-> job.project, file |-> TRUE, live |-> TRUE]
    <3>1. secrets' = [secrets EXCEPT ![job.secret] = row] /\ row.live
      BY <2>4 DEF Record
    <3> HIDE DEF row
    <3> QED BY <1>2, <3>1 DEF Live, TypeOK
  <2>5. ASSUME Requests PROVE FALSE
    BY <2>1, <2>3, <2>5 DEF Requests, BeginUpload, RefuseUpload, StoreFile, Reveal, Update, Delete,
       Share, Unshare
  <2>6. ASSUME \/ Log \/ Answer \/ Kill \/ RecordThrows
               \/ \E x \in Secrets : Unlink(x)
               \/ \E u \in Users : DeleteAccount(u) \/ \E r \in RoleArgs : SetRole(u, r)
        PROVE  FALSE
    BY <2>1, <2>6 DEF Log, Answer, Kill, RecordThrows, Restarted, Unlink, DeleteAccount, SetRole
  <2>7. Drop
    BY <2>2, <2>4, <2>5, <2>6 DEF Next, TenancySteps, Statements
  <2>8. job.secret \in Secrets /\ secrets[job.secret] # NULL /\ job.user \in Users
    BY <2>7 DEF Drop, Idle, JobInv, TypeOK, Job, Live
  <2>9. s = job.secret
    <3>1. secrets' = Removed({job.secret})
      BY <2>7 DEF Drop
    <3>2. secrets[s] # NULL
      BY <2>8, <3>1, RemovedRows
    <3>3. secrets'[s].live = (secrets[s].live /\ s \notin {job.secret})
      BY <2>8, <3>1, <3>2, RemovedRows
    <3>4. secrets[s].live /\ ~secrets'[s].live
      BY <1>2, <3>2 DEF Live
    <3> QED BY <3>3, <3>4
  <2>10. job.user \in accounts /\ job.action = "deleted" /\ Entry(job) \in log
    BY <2>7 DEF Drop, Idle, JobInv
  <2>11. Entry(job) \in Entries(s, job.user, "deleted") /\ UNCHANGED <<log, accounts>>
    BY <2>7, <2>9, <2>10 DEF Drop, Entry, Entries
  <2> QED BY <2>8, <2>11 DEF Entries
<1> QED BY <1>1, <1>2

-----------------------------------------------------------------------------

\* Together with the types these are inductive.
Inv == TypeOK /\ JobInv /\ MemberInv /\ FileInv /\ SeenInv /\ RemovalIsLogged

\* The inductive invariant holds in every reachable state.
LEMMA SecretsInvariant == Spec => []Inv
<1>1. Init => Inv
  BY DEF Init, Inv, TypeOK, JobInv, MemberInv, FileInv, SeenInv, RemovalIsLogged, SecretFilesExist,
     RevealsAreLogged, Live, Unshared, Roles
<1>2. ASSUME Inv, [Next]_vars PROVE Inv'
  <2>1. CASE UNCHANGED vars
    BY <1>2, <2>1 DEF vars, Inv, TypeOK, JobInv, MemberInv, FileInv, SeenInv, RemovalIsLogged,
       SecretFilesExist, RevealsAreLogged, Live, Entry, Entries
  <2>2. CASE Next
    <3>1. TypeOK'
      <4>1. ASSUME Restarted PROVE TypeOK'
        BY <1>2, <4>1 DEF Restarted, Inv, TypeOK, Live
      <4> QED BY <1>2, <2>2, <4>1, TenancyType, RequestType, StatementType DEF Inv, Next, Kill, RecordThrows
    <3> QED BY <1>2, <2>2, <3>1, JobSafe, MemberSafe, FileSafe, SeenSafe, RemovalSafe DEF Inv
  <2> QED BY <1>2, <2>1, <2>2
<1> QED BY <1>1, <1>2, PTL DEF Spec

\* Tables, files, the log and the running handler keep their types, and a
\* secret its project.
THEOREM SecretsTypeCorrect == Spec => []TypeOK
<1>1. Inv => TypeOK
  BY DEF Inv
<1> QED BY <1>1, SecretsInvariant, PTL

\* Nobody is sent a value without an entry in the log.
THEOREM RevealsAlwaysLogged == Spec => []RevealsAreLogged
<1>1. Inv => RevealsAreLogged
  BY DEF Inv, SeenInv
<1> QED BY <1>1, SecretsInvariant, PTL

\* No secret goes from a project that stays without an entry in the log.
THEOREM RemovalsAlwaysLogged == Spec => []RemovalIsLogged
<1>1. Inv => RemovalIsLogged
  BY DEF Inv
<1> QED BY <1>1, SecretsInvariant, PTL

\* No listed file secret lacks its file.
THEOREM SecretFilesAlwaysExist == Spec => []SecretFilesExist
<1>1. Inv => SecretFilesExist
  BY DEF Inv, FileInv
<1> QED BY <1>1, SecretsInvariant, PTL

-----------------------------------------------------------------------------

\* Only the share request opens a secret to somebody; its caller could read it.
LEMMA GrantStep ==
  ASSUME TypeOK, Next, NEW s \in Secrets, NEW v \in Users,
         shares[s][v] = NULL, shares'[s][v] # NULL
  PROVE  MayRead(job'.user, s)
<1>1. ASSUME UNCHANGED shares PROVE FALSE
  BY <1>1
<1>2. ASSUME NEW S, shares' = SharesWithout(S) PROVE FALSE
  BY <1>2 DEF SharesWithout, Unshared
<1>3. ASSUME NEW u \in Users, DeleteAccount(u) PROVE FALSE
  BY <1>3 DEF DeleteAccount, TypeOK
<1>4. ASSUME NEW u \in Users, NEW x \in Secrets, NEW w \in Users, Unshare(u, x, w) PROVE FALSE
  BY <1>4 DEF Unshare, TypeOK
<1>5. ASSUME NEW u \in Users, NEW x \in Secrets, NEW w \in Users, NEW level \in {"use", "reshare"},
             Share(u, x, w, level) PROVE MayRead(job'.user, s)
  <2>1. x = s
    BY <1>5 DEF Share, TypeOK
  <2>2. job'.user = u
    BY <1>5 DEF Share, Left
  <2> QED BY <1>5, <2>1, <2>2, NullIsNoLevel DEF Share, MayShare, MayRead
<1>6. ASSUME Requests PROVE MayRead(job'.user, s)
  BY <1>1, <1>4, <1>5, <1>6 DEF Requests, BeginUpload, RefuseUpload, CreateValue, StoreFile, Reveal,
     Update, Delete
<1>7. ASSUME \/ Statements \/ Kill \/ RecordThrows
             \/ \E u \in Users : (\E r \in RoleArgs : SetRole(u, r)) \/ \E p \in Projects : DeleteProject(u, p)
      PROVE  FALSE
  BY <1>1, <1>2, <1>7 DEF Statements, Record, Log, Answer, Drop, Unlink, Kill, RecordThrows,
     Restarted, SetRole, DeleteProject
<1> QED BY <1>3, <1>6, <1>7 DEF Next, TenancySteps

\* Whoever opens a secret to somebody could read it at that moment.
THEOREM GrantersAlwaysRead == Spec => GrantersCanRead
<1>1. ASSUME Inv, [Next]_vars
      PROVE  [ \A s \in Secrets, v \in Users :
                 shares[s][v] = NULL /\ shares'[s][v] # NULL => MayRead(job'.user, s) ]_vars
  BY <1>1, GrantStep DEF Inv
<1> QED BY <1>1, SecretsInvariant, PTL DEF Spec, GrantersCanRead

==============================================================================
