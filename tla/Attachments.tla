----------------------------- MODULE Attachments -----------------------------
(***************************************************************************)
(* Images attached to the tasks of one workspace: routes/attachments.js    *)
(* and the deletions that take attachments along.  A row in `attachments`  *)
(* names a file under data/uploads/; the two live in different stores and  *)
(* change in separate steps.                                               *)
(*                                                                         *)
(* An upload is received asynchronously, straight to disk, before anything *)
(* about the task or the sender's role is read; other requests run in      *)
(* between.  The callback that ends it is synchronous, with one autocommit *)
(* per row.  Unlinking is handed to the thread pool and happens later, or  *)
(* never when the process dies first.                                      *)
(*                                                                         *)
(* Captions and the order of a task's images are left out: they are        *)
(* columns of a row that nothing else depends on.                          *)
(***************************************************************************)
EXTENDS Permissions

CONSTANTS
  Users,
  Tasks,        \* bound: tasks ever created
  Files,        \* bound: file names ever generated (crypto.randomUUID: all fresh)
  RoleArgs      \* membership roles handed out in this instance

ASSUME NullIsNoTask == NULL \notin Users \cup Tasks
ASSUME RolesGiven == RoleArgs \subseteq Roles \cup {NULL}

VARIABLES
  exists,       \* the workspace is there
  users,        \* account -> "owner" of the organization, "member" of it, or NULL
  role,         \* workspace_members: account -> role or NULL
  tasks,        \* task -> row or NULL; a deleted row is kept, ids are not reused
  rows,         \* attachments: file name -> row or NULL
  disk,         \* data/uploads/: file name -> "unused", "stored" or "removed"
  uploads,      \* account -> the upload it has in progress, or NULL
  job,          \* the callback in progress, between two of its inserts, or NULL
  doomed        \* files the running process still has to unlink

vars == <<exists, users, role, tasks, rows, disk, uploads, job, doomed>>

TaskRow == [parent : Tasks \cup {NULL}, live : BOOLEAN]
Row == [task : Tasks, user : Users \cup {NULL}]

\* `owner`: whether req.user, read when the request began, owned the organization.
Upload == [task : Tasks, files : SUBSET Files, owner : BOOLEAN]
Job == [task : Tasks, user : Users, owner : BOOLEAN, files : (SUBSET Files) \ {{}}]

ASSUME NullIsNoRow == NULL \notin TaskRow /\ NULL \notin Row /\ NULL \notin Upload /\ NULL \notin Job

\* Every row has its columns, every file one place in its life, and a callback
\* in progress has something left to insert.
TypeOK ==
  /\ exists \in BOOLEAN
  /\ users \in [Users -> {"owner", "member", NULL}]
  /\ role \in [Users -> Roles \cup {NULL}]
  /\ tasks \in [Tasks -> TaskRow \cup {NULL}]
  /\ rows \in [Files -> Row \cup {NULL}]
  /\ disk \in [Files -> {"unused", "stored", "removed"}]
  /\ uploads \in [Users -> Upload \cup {NULL}]
  /\ job \in Job \cup {NULL}
  /\ doomed \subseteq Files

\* A new workspace of an organization with one account, its owner.
Init ==
  /\ exists = TRUE
  /\ \E founder \in Users :
       /\ users = [u \in Users |-> IF u = founder THEN "owner" ELSE NULL]
       /\ role = [u \in Users |-> IF u = founder THEN "owner" ELSE NULL]
  /\ tasks = [t \in Tasks |-> NULL]
  /\ rows = [f \in Files |-> NULL]
  /\ disk = [f \in Files |-> "unused"]
  /\ uploads = [u \in Users |-> NULL]
  /\ job = NULL
  /\ doomed = {}

------------------------------------------------------------------------------
(* Queries.  A name that ends in a suffix after an underscore is a          *)
(* deliberately wrong variant of the definition after it.                   *)

Idle == job = NULL
Live(t) == t \in Tasks /\ tasks[t] # NULL /\ tasks[t].live

\* roleFor, for an account whose users row was read as `owner` or not.
RoleFor(u, owner) ==
  IF ~exists THEN NULL ELSE IF owner THEN "owner" ELSE role[u]

Does(u, min) == users[u] # NULL /\ AtLeast(RoleFor(u, users[u] = "owner"), min)

\* The task and its sub-tasks, which cascade with it.
Family(t) == {x \in Tasks : Live(x) /\ (x = t \/ tasks[x].parent = t)}
FilesOn(T) == {f \in Files : rows[f] # NULL /\ rows[f].task \in T}

\* What DELETE /tasks/:id unlinks: the names are read before the rows cascade.
Unlinked_OwnOnly(t) == FilesOn({t})
Unlinked(t) == FilesOn(Family(t))

\* What the callback finds when an upload has arrived: the task, the sender's
\* access and right to write, and at least one file.
MayAttach_Members(u, up) ==
  /\ Live(up.task) /\ RoleFor(u, up.owner) # NULL /\ up.files # {}
MayAttach(u, up) ==
  /\ Live(up.task) /\ AtLeast(RoleFor(u, up.owner), "developer") /\ up.files # {}

\* The files of an upload that are not kept.
Discarded_Always(u, up) == up.files
Discarded(u, up) == IF MayAttach(u, up) THEN {} ELSE up.files

Received == UNION {uploads[u].files : u \in {v \in Users : uploads[v] # NULL}}
Pending == IF Idle THEN {} ELSE job.files

\* Files on disk that nothing refers to and nobody is going to remove.
Orphans ==
  {f \in Files : disk[f] = "stored" /\ rows[f] = NULL} \ (Received \cup Pending \cup doomed)

------------------------------------------------------------------------------
(* Accounts and the workspace, as Tenancy describes them.                   *)

SetRole(u, r) ==
  /\ Idle /\ exists /\ users[u] # NULL
  /\ role' = [role EXCEPT ![u] = r]
  /\ UNCHANGED <<exists, users, tasks, rows, disk, uploads, job, doomed>>

AnotherOwner(u) == \E o \in Users \ {u} : users[o] = "owner"

\* Registration, and a change of the rank inside the organization.
SetRank(u, rank) ==
  /\ Idle
  /\ users[u] = "owner" => AnotherOwner(u)
  /\ users' = [users EXCEPT ![u] = rank]
  /\ UNCHANGED <<exists, role, tasks, rows, disk, uploads, job, doomed>>

\* DELETE /admin/users/:id: the membership goes, attachments stay without an
\* uploader.  A request of the account that is in progress goes on.
DeleteAccount(u) ==
  /\ Idle /\ users[u] # NULL /\ AnotherOwner(u)
  /\ users' = [users EXCEPT ![u] = NULL]
  /\ role' = [role EXCEPT ![u] = NULL]
  /\ rows' = [f \in Files |-> IF rows[f] # NULL /\ rows[f].user = u
                              THEN [rows[f] EXCEPT !.user = NULL] ELSE rows[f]]
  /\ UNCHANGED <<exists, tasks, disk, uploads, job, doomed>>

\* DELETE /workspaces/:id: tasks and attachment rows cascade; no file is touched.
DeleteWorkspace(u) ==
  /\ Idle /\ exists /\ Does(u, "owner")
  /\ exists' = FALSE
  /\ role' = [v \in Users |-> NULL]
  /\ tasks' = [t \in Tasks |-> IF tasks[t] = NULL THEN NULL ELSE [tasks[t] EXCEPT !.live = FALSE]]
  /\ rows' = [f \in Files |-> NULL]
  /\ UNCHANGED <<users, disk, uploads, job, doomed>>

------------------------------------------------------------------------------
(* Tasks, as the module Tasks describes them.                               *)

\* POST /tasks: there is one level of sub-tasks.
CreateTask(u, t, parent) ==
  /\ Idle /\ Does(u, "developer") /\ tasks[t] = NULL
  /\ parent # NULL => Live(parent) /\ tasks[parent].parent = NULL
  /\ tasks' = [tasks EXCEPT ![t] = [parent |-> parent, live |-> TRUE]]
  /\ UNCHANGED <<exists, users, role, rows, disk, uploads, job, doomed>>

\* DELETE /tasks/:id: rows cascade, then the files are handed to unlink.
DeleteTask(u, t) ==
  /\ Idle /\ Live(t)
  /\ Does(u, IF tasks[t].parent = NULL THEN "manager" ELSE "developer")
  /\ tasks' = [x \in Tasks |-> IF x \in Family(t) THEN [tasks[x] EXCEPT !.live = FALSE] ELSE tasks[x]]
  /\ rows' = [f \in Files |-> IF f \in FilesOn(Family(t)) THEN NULL ELSE rows[f]]
  /\ doomed' = doomed \cup Unlinked(t)
  /\ UNCHANGED <<exists, users, role, disk, uploads, job>>

------------------------------------------------------------------------------
(* Attachments.                                                             *)

\* POST /tasks/:taskId/attachments by anybody signed in, about any id.
Begin(u, t) ==
  /\ Idle /\ users[u] # NULL /\ uploads[u] = NULL
  /\ uploads' = [uploads EXCEPT ![u] = [task |-> t, files |-> {}, owner |-> users[u] = "owner"]]
  /\ UNCHANGED <<exists, users, role, tasks, rows, disk, job, doomed>>

\* multer stores one more file under a fresh name.
Receive(u, f) ==
  /\ Idle /\ uploads[u] # NULL /\ disk[f] = "unused"
  /\ disk' = [disk EXCEPT ![f] = "stored"]
  /\ uploads' = [uploads EXCEPT ![u].files = @ \cup {f}]
  /\ UNCHANGED <<exists, users, role, tasks, rows, job, doomed>>

\* multer gives up: no image, too large, too many files.
Fail(u) ==
  /\ Idle /\ uploads[u] # NULL
  /\ doomed' = doomed \cup uploads[u].files
  /\ uploads' = [uploads EXCEPT ![u] = NULL]
  /\ UNCHANGED <<exists, users, role, tasks, rows, disk, job>>

\* The callback: task, access and role are read now, not when the request began.
Arrive(u) ==
  LET up == uploads[u] IN
  /\ Idle /\ up # NULL
  /\ doomed' = doomed \cup Discarded(u, up)
  /\ job' = IF MayAttach(u, up)
            THEN [task |-> up.task, user |-> u, owner |-> up.owner, files |-> up.files] ELSE NULL
  /\ uploads' = [uploads EXCEPT ![u] = NULL]
  /\ UNCHANGED <<exists, users, role, tasks, rows, disk>>

\* ... and one insert per file, each committed by itself.
Insert(f) ==
  /\ ~Idle /\ f \in job.files /\ users[job.user] # NULL
  /\ rows' = [rows EXCEPT ![f] = [task |-> job.task, user |-> job.user]]
  /\ job' = IF job.files = {f} THEN NULL ELSE [job EXCEPT !.files = @ \ {f}]
  /\ UNCHANGED <<exists, users, role, tasks, disk, uploads, doomed>>

\* DELETE /attachments/:id: the row first, then the file.
DeleteAttachment(u, f) ==
  /\ Idle /\ rows[f] # NULL /\ Does(u, "developer")
  /\ rows' = [rows EXCEPT ![f] = NULL]
  /\ doomed' = doomed \cup {f}
  /\ UNCHANGED <<exists, users, role, tasks, disk, uploads, job>>

\* fs.unlink gets there; its result is ignored.
Unlink(f) ==
  /\ f \in doomed
  /\ disk' = [disk EXCEPT ![f] = "removed"]
  /\ doomed' = doomed \ {f}
  /\ UNCHANGED <<exists, users, role, tasks, rows, uploads, job>>

\* The process ends and is started again: what it had in memory is gone.
Restarted ==
  /\ uploads' = [u \in Users |-> NULL]
  /\ job' = NULL
  /\ doomed' = {}
  /\ UNCHANGED <<exists, users, role, tasks, rows, disk>>

Kill ==
  /\ ~Idle \/ doomed # {} \/ \E u \in Users : uploads[u] # NULL
  /\ Restarted

\* The uploader's account is gone (an owner's, whose rank is not read again):
\* the insert breaks a foreign key, the callback throws, and the handler of
\* uncaught exceptions ends the process.
InsertThrows ==
  /\ ~Idle /\ users[job.user] = NULL
  /\ Restarted

------------------------------------------------------------------------------

TenancySteps ==
  \E u \in Users :
    \/ DeleteAccount(u) \/ DeleteWorkspace(u)
    \/ \E r \in RoleArgs : SetRole(u, r)
    \/ \E rank \in {"owner", "member"} : SetRank(u, rank)

TaskSteps ==
  \E u \in Users, t \in Tasks :
    DeleteTask(u, t) \/ \E parent \in Tasks \cup {NULL} : CreateTask(u, t, parent)

AttachmentSteps ==
  \/ \E u \in Users : Fail(u) \/ Arrive(u) \/ \E t \in Tasks : Begin(u, t)
  \/ \E u \in Users, f \in Files : Receive(u, f) \/ DeleteAttachment(u, f)
  \/ \E f \in Files : Insert(f) \/ Unlink(f)

Next == TenancySteps \/ TaskSteps \/ AttachmentSteps \/ Kill \/ InsertThrows

Spec == Init /\ [][Next]_vars

------------------------------------------------------------------------------
(* Properties.                                                              *)

\* An attachment that is listed can be opened: its file is on disk and nobody
\* is about to remove it, whatever was refused, deleted or killed meanwhile
\* (a refused upload is cleaned up, an accepted one never).
RowsHaveFiles ==
  \A f \in Files : rows[f] # NULL => disk[f] = "stored" /\ f \notin doomed

\* A file is left behind for ever only by a process that died or by the
\* deletion of the whole workspace: refusing an upload and deleting a task with
\* its sub-tasks (tasks.js: "Attachment rows cascade via FK [...] but the files
\* on disk don't -- clean those up first") leave nothing.
OrphansOnlyFromDeath ==
  [][Orphans' \subseteq Orphans \/ (exists /\ ~exists') \/ Kill \/ InsertThrows]_vars

\* Whoever's upload ends up on a task could write to the workspace when it
\* ended, not only when it began; a former owner of the organization is the one
\* exception, since the account row is not read again.
UploadsByWriters ==
  [][ \A f \in Files : rows[f] = NULL /\ rows'[f] # NULL =>
        job.owner \/ AtLeast(role[job.user], "developer") ]_vars
==============================================================================
