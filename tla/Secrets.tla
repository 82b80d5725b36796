------------------------------- MODULE Secrets -------------------------------
(***************************************************************************)
(* The secrets of the projects of one workspace, who they are shared with  *)
(* and the log of who did what: routes/secrets.js.                         *)
(*                                                                         *)
(* A handler runs alone, but its statements are separate autocommits and   *)
(* its files a second store: `job` is what the running handler has left to *)
(* do, and the process may be killed before it.  A secret file is received *)
(* into memory first; the sender's role is the one requireWorkspace read   *)
(* before that, the project is looked up after it.                         *)
(*                                                                         *)
(* Encryption is a library; values, names and notes are data nothing here  *)
(* depends on.  A secret and its file share an identifier, both are fresh. *)
(***************************************************************************)
EXTENDS Permissions

CONSTANTS
  Users,        \* the accounts of the organization
  Projects,
  Secrets,      \* bound: secrets ever created
  RoleArgs,     \* workspace roles people get in this instance
  Kept          \* the actions whose log entries this instance tells apart

Actions == {"viewed", "created", "updated", "deleted", "shared", "unshared"}

ASSUME NullIsNobody == NULL \notin Users
ASSUME NullIsNoLevel == NULL \notin {"use", "reshare"}
ASSUME RolesGiven == RoleArgs \subseteq Roles \cup {NULL}
ASSUME KeptActions == Kept \subseteq Actions /\ {"viewed", "deleted"} \subseteq Kept

VARIABLES
  accounts,     \* the accounts that are left
  role,         \* roleFor: account -> effective role in the workspace, or NULL
  projects,     \* the projects that are left
  secrets,      \* project_secrets: secret -> row or NULL
  shares,       \* project_secret_shares: secret -> account -> "use", "reshare" or NULL
  log,          \* project_secret_access_log
  disk,         \* files in data/secrets/
  doomed,       \* files handed to unlink
  uploads,      \* account -> role read when its file upload began, or NULL
  job,          \* what the running handler has left to do, or NULL
  seen          \* history: who was sent the value of which secret

vars == <<accounts, role, projects, secrets, shares, log, disk, doomed, uploads, job, seen>>

\* A deleted row is kept as not live: ids are not reused.
SecretRow == [project : Projects, file : BOOLEAN, live : BOOLEAN]
LogRow == [secret : Secrets, user : Users \cup {NULL}, action : Actions]
Job == [todo : {"record", "log", "answer", "drop"}, secret : Secrets, project : Projects,
        user : Users, action : Actions]

ASSUME NullIsNoRow == NULL \notin SecretRow /\ NULL \notin Job

Live(s) == secrets[s] # NULL /\ secrets[s].live

\* Every row has its columns, and a secret belongs to a project that exists
\* even when its file arrived after the project was deleted.
TypeOK ==
  /\ accounts \subseteq Users
  /\ role \in [Users -> Roles \cup {NULL}]
  /\ projects \subseteq Projects
  /\ secrets \in [Secrets -> SecretRow \cup {NULL}]
  /\ shares \in [Secrets -> [Users -> {"use", "reshare", NULL}]]
  /\ log \subseteq LogRow
  /\ disk \subseteq Secrets /\ doomed \subseteq Secrets
  /\ uploads \in [Users -> Roles \cup {NULL}]
  /\ job \in Job \cup {NULL}
  /\ seen \subseteq Secrets \X Users
  /\ \A s \in Secrets : Live(s) => secrets[s].project \in projects

Unshared == [u \in Users |-> NULL]

\* A workspace whose creator is alone in it, with its projects.
Init ==
  /\ accounts = Users
  /\ \E creator \in Users : role = [u \in Users |-> IF u = creator THEN "owner" ELSE NULL]
  /\ projects = Projects
  /\ secrets = [s \in Secrets |-> NULL]
  /\ shares = [s \in Secrets |-> Unshared]
  /\ log = {}
  /\ disk = {}
  /\ doomed = {}
  /\ uploads = [u \in Users |-> NULL]
  /\ job = NULL
  /\ seen = {}

------------------------------------------------------------------------------
(* Permission checks and the order of statements.  A name that ends in a    *)
(* suffix after an underscore is a deliberately wrong variant of the        *)
(* definition after it.                                                     *)

Idle == job = NULL
Manages(u) == AtLeast(role[u], "manager")

\* accessLevel: a share is not enough for a viewer.
MayRead(u, s) ==
  /\ Live(s)
  /\ \/ Manages(u)
     \/ role[u] \notin {NULL, "viewer"} /\ shares[s][u] # NULL

\* canManageShares, behind requireWorkspace, which refuses a viewer's writes.
MayShare(u, s) ==
  /\ Live(s) /\ role[u] \notin {NULL, "viewer"}
  /\ Manages(u) \/ shares[s][u] = "reshare"

\* A file that has arrived is kept in a project that still exists, for a sender
\* who managed the workspace when the upload began.
MayStore(began, p) == p \in projects /\ AtLeast(began, "manager")

Left(todo, u, s, p, action) ==
  [todo |-> todo, secret |-> s, project |-> p, user |-> u, action |-> action]

\* The first statement of a reveal or a download and of a deletion is the log entry.
ToReveal_AnswerFirst(u, s) == Left("answer", u, s, secrets[s].project, "viewed")
ToReveal(u, s) == Left("log", u, s, secrets[s].project, "viewed")
ToDelete_DropFirst(u, s) == Left("drop", u, s, secrets[s].project, "deleted")
ToDelete(u, s) == Left("log", u, s, secrets[s].project, "deleted")

\* What comes after the log entry.
AfterLog(j) ==
  CASE j.action = "viewed"  -> [j EXCEPT !.todo = "answer"]
    [] j.action = "deleted" -> [j EXCEPT !.todo = "drop"]
    [] OTHER -> NULL

\* writeFileSync: the file is there before the row is inserted.
Written_Later(s) == disk
Written(s) == disk \cup {s}

Entry(j) == [secret |-> j.secret, user |-> j.user, action |-> j.action]

Of(p) == {s \in Secrets : Live(s) /\ secrets[s].project = p}
Removed(S) == [s \in Secrets |-> IF s \in S THEN [secrets[s] EXCEPT !.live = FALSE] ELSE secrets[s]]
SharesWithout(S) == [s \in Secrets |-> IF s \in S THEN Unshared ELSE shares[s]]

------------------------------------------------------------------------------
(* Memberships, accounts and projects, as Tenancy describes them.           *)

SetRole(u, r) ==
  /\ Idle /\ u \in accounts
  /\ role' = [role EXCEPT ![u] = r]
  /\ UNCHANGED <<accounts, projects, secrets, shares, log, disk, doomed, uploads, job, seen>>

\* DELETE /admin/users/:id: shares cascade, log entries lose the name.
DeleteAccount(u) ==
  /\ Idle /\ u \in accounts /\ accounts # {u}
  /\ accounts' = accounts \ {u}
  /\ role' = [role EXCEPT ![u] = NULL]
  /\ shares' = [s \in Secrets |-> [shares[s] EXCEPT ![u] = NULL]]
  /\ log' = {IF e.user = u THEN [e EXCEPT !.user = NULL] ELSE e : e \in log}
  /\ UNCHANGED <<projects, secrets, disk, doomed, uploads, job, seen>>

\* DELETE /projects/:id: secrets, their shares and their log cascade; their
\* files stay.
DeleteProject(u, p) ==
  /\ Idle /\ Manages(u) /\ p \in projects
  /\ projects' = projects \ {p}
  /\ secrets' = Removed(Of(p))
  /\ shares' = SharesWithout(Of(p))
  /\ log' = {e \in log : secrets[e.secret].project # p}
  /\ UNCHANGED <<accounts, role, disk, doomed, uploads, job, seen>>

------------------------------------------------------------------------------
(* Secrets.                                                                 *)

\* POST /secrets
CreateValue(u, p, s) ==
  /\ Idle /\ Manages(u) /\ p \in projects /\ secrets[s] = NULL
  /\ secrets' = [secrets EXCEPT ![s] = [project |-> p, file |-> FALSE, live |-> TRUE]]
  /\ job' = Left("log", u, s, p, "created")
  /\ UNCHANGED <<accounts, role, projects, shares, log, disk, doomed, uploads, seen>>

\* POST /secrets/files by any member but a viewer; the body is still to come.
BeginUpload(u) ==
  /\ Idle /\ uploads[u] = NULL /\ role[u] \notin {NULL, "viewer"}
  /\ uploads' = [uploads EXCEPT ![u] = role[u]]
  /\ UNCHANGED <<accounts, role, projects, secrets, shares, log, disk, doomed, job, seen>>

\* The body has arrived: it is written under a fresh name.
StoreFile(u, p, s) ==
  /\ Idle /\ uploads[u] # NULL /\ MayStore(uploads[u], p)
  /\ secrets[s] = NULL /\ s \notin disk
  /\ disk' = Written(s)
  /\ job' = Left("record", u, s, p, "created")
  /\ uploads' = [uploads EXCEPT ![u] = NULL]
  /\ UNCHANGED <<accounts, role, projects, secrets, shares, log, doomed, seen>>

\* Too large, broken off, or refused: it was in memory only.
RefuseUpload(u) ==
  /\ Idle /\ uploads[u] # NULL
  /\ uploads' = [uploads EXCEPT ![u] = NULL]
  /\ UNCHANGED <<accounts, role, projects, secrets, shares, log, disk, doomed, job, seen>>

\* ... then its row is inserted.
Record ==
  /\ ~Idle /\ job.todo = "record" /\ job.user \in accounts
  /\ secrets' = [secrets EXCEPT ![job.secret] =
                   [project |-> job.project, file |-> TRUE, live |-> TRUE]]
  /\ job' = [job EXCEPT !.todo = "log"]
  /\ UNCHANGED <<accounts, role, projects, shares, log, disk, doomed, uploads, seen>>

\* GET /secrets/:id/reveal, and /download of a file that is there
Reveal(u, s) ==
  /\ Idle /\ MayRead(u, s)
  /\ secrets[s].file => s \in disk
  /\ job' = ToReveal(u, s)
  /\ UNCHANGED <<accounts, role, projects, secrets, shares, log, disk, doomed, uploads, seen>>

\* PATCH /secrets/:id that changes something
Update(u, s) ==
  /\ Idle /\ Manages(u) /\ Live(s)
  /\ job' = Left("log", u, s, secrets[s].project, "updated")
  /\ UNCHANGED <<accounts, role, projects, secrets, shares, log, disk, doomed, uploads, seen>>

\* DELETE /secrets/:id
Delete(u, s) ==
  /\ Idle /\ Manages(u) /\ Live(s)
  /\ job' = ToDelete(u, s)
  /\ UNCHANGED <<accounts, role, projects, secrets, shares, log, disk, doomed, uploads, seen>>

\* POST /secrets/:id/shares: never to a viewer; a second one changes the level.
Share(u, s, v, level) ==
  /\ Idle /\ MayShare(u, s) /\ role[v] \notin {NULL, "viewer"}
  /\ shares' = [shares EXCEPT ![s][v] = level]
  /\ job' = Left("log", u, s, secrets[s].project, "shared")
  /\ UNCHANGED <<accounts, role, projects, secrets, log, disk, doomed, uploads, seen>>

\* DELETE /secrets/:id/shares/:userId
Unshare(u, s, v) ==
  /\ Idle /\ MayShare(u, s)
  /\ shares' = [shares EXCEPT ![s][v] = NULL]
  /\ job' = Left("log", u, s, secrets[s].project, "unshared")
  /\ UNCHANGED <<accounts, role, projects, secrets, log, disk, doomed, uploads, seen>>

\* logAccess
Log ==
  /\ ~Idle /\ job.todo = "log"
  /\ log' = IF job.action \in Kept THEN log \cup {Entry(job)} ELSE log
  /\ job' = AfterLog(job)
  /\ UNCHANGED <<accounts, role, projects, secrets, shares, disk, doomed, uploads, seen>>

\* The value or the file goes out.
Answer ==
  /\ ~Idle /\ job.todo = "answer"
  /\ seen' = seen \cup {<<job.secret, job.user>>}
  /\ job' = NULL
  /\ UNCHANGED <<accounts, role, projects, secrets, shares, log, disk, doomed, uploads>>

\* The row is deleted, its shares cascade, its file is handed to unlink.
Drop ==
  /\ ~Idle /\ job.todo = "drop"
  /\ secrets' = Removed({job.secret})
  /\ shares' = SharesWithout({job.secret})
  /\ doomed' = doomed \cup {s \in {job.secret} : secrets[s].file}
  /\ job' = NULL
  /\ UNCHANGED <<accounts, role, projects, log, disk, uploads, seen>>

Unlink(s) ==
  /\ s \in doomed
  /\ disk' = disk \ {s}
  /\ doomed' = doomed \ {s}
  /\ UNCHANGED <<accounts, role, projects, secrets, shares, log, uploads, job, seen>>

\* The process ends and is started again.
Restarted ==
  /\ uploads' = [u \in Users |-> NULL]
  /\ job' = NULL
  /\ doomed' = {}
  /\ UNCHANGED <<accounts, role, projects, secrets, shares, log, disk, seen>>

Kill ==
  /\ ~Idle \/ doomed # {} \/ \E u \in Users : uploads[u] # NULL
  /\ Restarted

\* The sender's account is gone: the insert breaks a foreign key inside the
\* upload's callback, which ends the process.
RecordThrows ==
  /\ ~Idle /\ job.todo = "record" /\ job.user \notin accounts
  /\ Restarted

------------------------------------------------------------------------------

TenancySteps ==
  \E u \in Users :
    \/ DeleteAccount(u)
    \/ \E r \in RoleArgs : SetRole(u, r)
    \/ \E p \in Projects : DeleteProject(u, p)

Requests ==
  \E u \in Users :
    \/ BeginUpload(u) \/ RefuseUpload(u)
    \/ \E p \in Projects, s \in Secrets : CreateValue(u, p, s) \/ StoreFile(u, p, s)
    \/ \E s \in Secrets :
         \/ Reveal(u, s) \/ Update(u, s) \/ Delete(u, s)
         \/ \E v \in Users :
              Unshare(u, s, v) \/ \E level \in {"use", "reshare"} : Share(u, s, v, level)

Statements == Record \/ Log \/ Answer \/ Drop \/ \E s \in Secrets : Unlink(s)

Next == TenancySteps \/ Requests \/ Statements \/ Kill \/ RecordThrows

Spec == Init /\ [][Next]_vars

------------------------------------------------------------------------------
(* Properties.                                                              *)

\* The entries about an action of u; they lose the name of a deleted account.
Entries(s, u, action) ==
  {e \in log : /\ e.secret = s /\ e.action = action
               /\ e.user = IF u \in accounts THEN u ELSE NULL}

\* Nobody was ever sent a value without an entry that says so, as long as the
\* project is there, even if the process is killed right after the answer
\* ("Immutable audit trail -- who viewed/downloaded", schema.sql).
RevealsAreLogged ==
  \A s \in Secrets, u \in Users :
    <<s, u>> \in seen /\ secrets[s].project \in projects => Entries(s, u, "viewed") # {}

\* A secret that is gone from a project that is still there has the entry of
\* its deletion: "removing a secret must never remove its own history"
\* (schema.sql), whichever statement the process dies after.
RemovalIsLogged ==
  \A s \in Secrets :
    secrets[s] # NULL /\ ~Live(s) /\ secrets[s].project \in projects =>
      \E u \in Users : Entries(s, u, "deleted") # {}

\* A file secret that is listed can be downloaded: its file is on disk and not
\* about to be removed.
SecretFilesExist == \A s \in Secrets : Live(s) /\ secrets[s].file => s \in disk \ doomed

\* Whoever opens a secret to somebody could read it at that moment.  Sharing and
\* reading are checked by different functions, and only the reading one asks
\* about viewers: for sharing that rests on the middleware.
GrantersCanRead ==
  [][ \A s \in Secrets, v \in Users :
        shares[s][v] = NULL /\ shares'[s][v] # NULL => MayRead(job'.user, s) ]_vars
==============================================================================
