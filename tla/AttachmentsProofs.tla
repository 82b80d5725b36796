-------------------------- MODULE AttachmentsProofs --------------------------
(***************************************************************************)
(* Theorems about Attachments, for any accounts, tasks and files: every    *)
(* attachment row has its file, whatever is refused, deleted or killed.    *)
(***************************************************************************)
EXTENDS Attachments, TLAPS

USE NullIsNoTask, RolesGiven, NullIsNoRow, NullIsNoRole

\* Between two uploads, one upload and a callback, or a callback and unlink, no
\* file is shared: a file is in one place at a time.
Sent(u, f) == uploads[u] # NULL /\ f \in uploads[u].files
Waiting(f) == job # NULL /\ f \in job.files

\* The inductive invariant: RowsHaveFiles for one file, and what keeps it so
\* while the file is on its way.
Placed(f) ==
  /\ f \in doomed => disk[f] # "unused"
  /\ rows[f] # NULL => disk[f] = "stored" /\ f \notin doomed
  /\ Waiting(f) => disk[f] = "stored" /\ f \notin doomed
  /\ \A u \in Users : Sent(u, f) =>
       /\ disk[f] = "stored" /\ f \notin doomed /\ rows[f] = NULL /\ ~Waiting(f)
       /\ \A v \in Users : Sent(v, f) => u = v

FilesPlaced == \A f \in Files : Placed(f)

-----------------------------------------------------------------------------

\* Accounts, memberships and the workspace change no types.
LEMMA TenancyType == ASSUME TypeOK, TenancySteps PROVE TypeOK'
<1> USE DEF TypeOK
<1>1. ASSUME NEW u \in Users, DeleteAccount(u) PROVE TypeOK'
  <2>1. ASSUME NEW f \in Files, rows[f] # NULL, rows[f].user = u
        PROVE  [rows[f] EXCEPT !.user = NULL] \in Row
    BY <2>1 DEF Row
  <2> QED BY <1>1, <2>1 DEF DeleteAccount
<1>2. ASSUME NEW u \in Users, DeleteWorkspace(u) PROVE TypeOK'
  <2>1. ASSUME NEW t \in Tasks, tasks[t] # NULL
        PROVE  [tasks[t] EXCEPT !.live = FALSE] \in TaskRow
    <3>1. tasks[t] \in TaskRow
      BY <2>1
    <3> QED BY <3>1 DEF TaskRow
  <2>2. tasks' \in [Tasks -> TaskRow \cup {NULL}]
    BY <1>2, <2>1 DEF DeleteWorkspace
  <2>3. rows' \in [Files -> Row \cup {NULL}] /\ role' \in [Users -> Roles \cup {NULL}]
    BY <1>2 DEF DeleteWorkspace
  <2> QED BY <1>2, <2>2, <2>3 DEF DeleteWorkspace
<1>3. ASSUME NEW u \in Users, NEW r \in RoleArgs, SetRole(u, r) PROVE TypeOK'
  BY <1>3 DEF SetRole
<1>4. ASSUME NEW u \in Users, NEW rank \in {"owner", "member"}, SetRank(u, rank) PROVE TypeOK'
  BY <1>4 DEF SetRank
<1> QED BY <1>1, <1>2, <1>3, <1>4 DEF TenancySteps

\* Nor do tasks that come and go.
LEMMA TaskType == ASSUME TypeOK, TaskSteps PROVE TypeOK'
<1> USE DEF TypeOK
<1>1. ASSUME NEW u \in Users, NEW t \in Tasks, DeleteTask(u, t) PROVE TypeOK'
  <2>1. ASSUME NEW x \in Tasks, x \in Family(t)
        PROVE  [tasks[x] EXCEPT !.live = FALSE] \in TaskRow
    <3>1. tasks[x] \in TaskRow
      BY <2>1 DEF Family, Live
    <3> QED BY <3>1 DEF TaskRow
  <2>2. tasks' \in [Tasks -> TaskRow \cup {NULL}]
    BY <1>1, <2>1 DEF DeleteTask
  <2>3. doomed' \subseteq Files /\ rows' \in [Files -> Row \cup {NULL}]
    BY <1>1 DEF DeleteTask, Unlinked, FilesOn
  <2> QED BY <1>1, <2>2, <2>3 DEF DeleteTask
<1>2. ASSUME NEW u \in Users, NEW t \in Tasks, NEW parent \in Tasks \cup {NULL},
             CreateTask(u, t, parent) PROVE TypeOK'
  <2>1. [parent |-> parent, live |-> TRUE] \in TaskRow
    BY DEF TaskRow
  <2> QED BY <1>2, <2>1 DEF CreateTask
<1> QED BY <1>1, <1>2 DEF TaskSteps

\* An accepted upload leaves its callback with files to insert.
LEMMA AcceptedJob ==
  ASSUME TypeOK, NEW u \in Users, uploads[u] # NULL, MayAttach(u, uploads[u])
  PROVE  [task |-> uploads[u].task, user |-> u, owner |-> uploads[u].owner,
          files |-> uploads[u].files] \in Job
<1>1. uploads[u] \in Upload
  BY DEF TypeOK
<1>2. uploads[u].files \in (SUBSET Files) \ {{}}
  BY <1>1 DEF MayAttach, Upload
<1> QED BY <1>1, <1>2 DEF Upload, Job

\* The row it inserts names its task and its sender.
LEMMA InsertedRow ==
  ASSUME TypeOK, NEW f \in Files, Insert(f)
  PROVE  [task |-> job.task, user |-> job.user] \in Row
<1>1. job \in Job
  BY DEF Insert, Idle, TypeOK
<1> QED BY <1>1 DEF Row, Job

\* Uploads, callbacks and deletions keep rows, files and requests well-typed.
LEMMA AttachmentType == ASSUME TypeOK, AttachmentSteps PROVE TypeOK'
<1> USE DEF TypeOK
<1>1. ASSUME NEW u \in Users, Fail(u) PROVE TypeOK'
  BY <1>1 DEF Fail, Upload
<1>2. ASSUME NEW u \in Users, Arrive(u) PROVE TypeOK'
  <2>1. uploads[u] \in Upload
    BY <1>2 DEF Arrive
  <2>2. job' \in Job \cup {NULL}
    BY <1>2, AcceptedJob DEF Arrive
  <2>3. doomed' \subseteq Files
    BY <1>2, <2>1 DEF Arrive, Discarded, Upload
  <2> QED BY <1>2, <2>2, <2>3 DEF Arrive
<1>3. ASSUME NEW u \in Users, NEW t \in Tasks, Begin(u, t) PROVE TypeOK'
  <2>1. [task |-> t, files |-> {}, owner |-> users[u] = "owner"] \in Upload
    BY DEF Upload
  <2> QED BY <1>3, <2>1 DEF Begin
<1>4. ASSUME NEW u \in Users, NEW f \in Files, Receive(u, f) PROVE TypeOK'
  <2>1. uploads[u] \in Upload
    BY <1>4 DEF Receive
  <2>2. [uploads[u] EXCEPT !.files = @ \cup {f}] \in Upload
    BY <2>1 DEF Upload
  <2> QED BY <1>4, <2>2 DEF Receive
<1>5. ASSUME NEW u \in Users, NEW f \in Files, DeleteAttachment(u, f) PROVE TypeOK'
  BY <1>5 DEF DeleteAttachment
<1>6. ASSUME NEW f \in Files, Insert(f) PROVE TypeOK'
  <2>1. job \in Job
    BY <1>6 DEF Insert, Idle
  <2>2. [task |-> job.task, user |-> job.user] \in Row
    BY <1>6, InsertedRow
  <2>3. ASSUME job.files # {f} PROVE [job EXCEPT !.files = @ \ {f}] \in Job
    BY <1>6, <2>1, <2>3 DEF Job, Insert
  <2> QED BY <1>6, <2>2, <2>3 DEF Insert
<1>7. ASSUME NEW f \in Files, Unlink(f) PROVE TypeOK'
  BY <1>7 DEF Unlink
<1> QED BY <1>1, <1>2, <1>3, <1>4, <1>5, <1>6, <1>7 DEF AttachmentSteps

\* Tables, files on disk and requests in progress keep their types.
THEOREM AttachmentsTypeCorrect == Spec => []TypeOK
<1>1. Init => TypeOK
  BY DEF Init, TypeOK, Roles
<1>2. ASSUME TypeOK, [Next]_vars PROVE TypeOK'
  <2>1. ASSUME Restarted PROVE TypeOK'
    BY <1>2, <2>1 DEF Restarted, TypeOK
  <2>2. CASE UNCHANGED vars
    BY <1>2, <2>2 DEF vars, TypeOK
  <2> QED
    BY <1>2, <2>1, <2>2, TenancyType, TaskType, AttachmentType DEF Next, Kill, InsertThrows
<1> QED BY <1>1, <1>2, PTL DEF Spec

-----------------------------------------------------------------------------

\* What happens to accounts, roles and the workspace can only take rows away.
LEMMA TenancyPlaced == ASSUME TypeOK, FilesPlaced, TenancySteps PROVE FilesPlaced'
<1>1. /\ \A f \in Files : rows'[f] # NULL => rows[f] # NULL
      /\ UNCHANGED <<disk, doomed, job, uploads>>
  <2>1. ASSUME NEW u \in Users, DeleteAccount(u) PROVE <1>1!:
    BY <2>1 DEF DeleteAccount
  <2>2. ASSUME NEW u \in Users, DeleteWorkspace(u) PROVE <1>1!:
    BY <2>2 DEF DeleteWorkspace
  <2>3. ASSUME NEW u \in Users, NEW r \in RoleArgs, SetRole(u, r) PROVE <1>1!:
    BY <2>3 DEF SetRole
  <2>4. ASSUME NEW u \in Users, NEW rank \in {"owner", "member"}, SetRank(u, rank) PROVE <1>1!:
    BY <2>4 DEF SetRank
  <2> QED BY <2>1, <2>2, <2>3, <2>4 DEF TenancySteps
<1> QED BY <1>1 DEF FilesPlaced, Placed, Sent, Waiting

\* A deleted task takes exactly the rows whose files are unlinked.
LEMMA TaskPlaced == ASSUME TypeOK, FilesPlaced, TaskSteps PROVE FilesPlaced'
<1>1. ASSUME NEW u \in Users, NEW t \in Tasks, DeleteTask(u, t) PROVE FilesPlaced'
  <2>1. ASSUME NEW f \in Files PROVE Placed(f)'
    <3>1. Placed(f) /\ rows' = [g \in Files |-> IF g \in FilesOn(Family(t)) THEN NULL ELSE rows[g]]
      BY <1>1 DEF FilesPlaced, DeleteTask
    <3>2. doomed' = doomed \cup FilesOn(Family(t)) /\ UNCHANGED <<disk, uploads, job>> /\ job = NULL
      BY <1>1 DEF DeleteTask, Unlinked, Idle
    <3>3. f \in FilesOn(Family(t)) => rows[f] # NULL
      BY DEF FilesOn
    <3> QED BY <3>1, <3>2, <3>3 DEF Placed, Sent, Waiting
  <2> QED BY <2>1 DEF FilesPlaced
<1>2. ASSUME NEW u \in Users, NEW t \in Tasks, NEW parent \in Tasks \cup {NULL},
             CreateTask(u, t, parent) PROVE FilesPlaced'
  BY <1>2 DEF CreateTask, FilesPlaced, Placed, Sent, Waiting
<1> QED BY <1>1, <1>2 DEF TaskSteps

\* A file moves from an upload to a callback to a row, or to unlink, and is
\* never in two of these places.
LEMMA AttachmentPlaced == ASSUME TypeOK, FilesPlaced, AttachmentSteps PROVE FilesPlaced'
<1> SUFFICES ASSUME NEW g \in Files PROVE Placed(g)'
  BY DEF FilesPlaced
<1>0. Placed(g)
  BY DEF FilesPlaced
<1> USE DEF Sent, Waiting, Idle
<1>1. ASSUME NEW u \in Users, Fail(u) PROVE Placed(g)'
  <2>1. \A v \in Users : Sent(v, g)' => v # u /\ Sent(v, g)
    BY <1>1 DEF Fail, TypeOK
  <2>2. g \in doomed' => g \in doomed \/ Sent(u, g)
    BY <1>1 DEF Fail
  <2>3. UNCHANGED <<rows, disk, job>>
    BY <1>1 DEF Fail
  <2> QED BY <1>0, <2>1, <2>2, <2>3 DEF Placed
<1>2. ASSUME NEW u \in Users, Arrive(u) PROVE Placed(g)'
  <2>1. \A v \in Users : Sent(v, g)' => v # u /\ Sent(v, g)
    BY <1>2 DEF Arrive, TypeOK
  <2>2. /\ g \in doomed' => g \in doomed \/ (Sent(u, g) /\ ~MayAttach(u, uploads[u]))
        /\ Waiting(g)' => Sent(u, g) /\ MayAttach(u, uploads[u])
    BY <1>2 DEF Arrive, Discarded
  <2>3. UNCHANGED <<rows, disk>> /\ job = NULL
    BY <1>2 DEF Arrive
  <2> QED BY <1>0, <2>1, <2>2, <2>3 DEF Placed
<1>3. ASSUME NEW u \in Users, NEW t \in Tasks, Begin(u, t) PROVE Placed(g)'
  <2>1. \A v \in Users : Sent(v, g)' => Sent(v, g)
    BY <1>3 DEF Begin, TypeOK
  <2>2. UNCHANGED <<rows, disk, job, doomed>>
    BY <1>3 DEF Begin
  <2> QED BY <1>0, <2>1, <2>2 DEF Placed
<1>4. ASSUME NEW u \in Users, NEW f \in Files, Receive(u, f) PROVE Placed(g)'
  <2>1. \A v \in Users : Sent(v, g)' => Sent(v, g) \/ (v = u /\ g = f)
    BY <1>4 DEF Receive, TypeOK
  <2>2. UNCHANGED <<rows, job, doomed>> /\ disk[f] = "unused" /\ disk' = [disk EXCEPT ![f] = "stored"]
    BY <1>4 DEF Receive
  <2>3. CASE g = f
    BY <1>0, <2>1, <2>2, <2>3 DEF Placed, TypeOK
  <2>4. CASE g # f
    BY <1>0, <2>1, <2>2, <2>4 DEF Placed, TypeOK
  <2> QED BY <2>3, <2>4
<1>5. ASSUME NEW u \in Users, NEW f \in Files, DeleteAttachment(u, f) PROVE Placed(g)'
  BY <1>0, <1>5 DEF DeleteAttachment, Placed, TypeOK
<1>6. ASSUME NEW f \in Files, Insert(f) PROVE Placed(g)'
  BY <1>0, <1>6 DEF Insert, Placed, TypeOK
<1>7. ASSUME NEW f \in Files, Unlink(f) PROVE Placed(g)'
  BY <1>0, <1>7 DEF Unlink, Placed, TypeOK
<1> QED BY <1>1, <1>2, <1>3, <1>4, <1>5, <1>6, <1>7 DEF AttachmentSteps

\* Every file is in one place at a time.
LEMMA FilesAlwaysPlaced == Spec => []FilesPlaced
<1>1. Init => FilesPlaced
  BY DEF Init, FilesPlaced, Placed, Sent, Waiting
<1>2. ASSUME TypeOK, FilesPlaced, [Next]_vars PROVE FilesPlaced'
  <2>1. ASSUME Restarted PROVE FilesPlaced'
    BY <1>2, <2>1 DEF Restarted, FilesPlaced, Placed, Sent, Waiting
  <2>2. CASE UNCHANGED vars
    BY <1>2, <2>2 DEF vars, FilesPlaced, Placed, Sent, Waiting
  <2> QED
    BY <1>2, <2>1, <2>2, TenancyPlaced, TaskPlaced, AttachmentPlaced DEF Next, Kill, InsertThrows
<1> QED BY <1>1, <1>2, AttachmentsTypeCorrect, PTL DEF Spec

\* Every attachment row has its file on disk, and nobody is about to remove it.
THEOREM RowsAlwaysHaveFiles == Spec => []RowsHaveFiles
<1>1. FilesPlaced => RowsHaveFiles
  BY DEF FilesPlaced, Placed, RowsHaveFiles
<1> QED BY <1>1, FilesAlwaysPlaced, PTL

-----------------------------------------------------------------------------

\* A callback that inserts rows has just read the role of its sender, and no
\* other request runs before it is done.
MayInsert == job # NULL => job.owner \/ AtLeast(role[job.user], "developer")

LEMMA WritersOnly ==
  Spec => [](MayInsert)
<1>1. Init => MayInsert
  BY DEF Init, MayInsert
<1>2. ASSUME TypeOK, MayInsert, [Next]_vars PROVE MayInsert'
  <2>1. ASSUME job' = NULL PROVE MayInsert'
    BY <2>1 DEF MayInsert
  <2>2. CASE TenancySteps
    BY <2>1, <2>2 DEF TenancySteps, DeleteAccount, DeleteWorkspace, SetRole, SetRank, Idle
  <2>3. CASE TaskSteps
    BY <2>1, <2>3 DEF TaskSteps, DeleteTask, CreateTask, Idle
  <2>4. ASSUME NEW u \in Users, Arrive(u) PROVE MayInsert'
    <3>1. CASE MayAttach(u, uploads[u])
      <4>1. job'.owner = uploads[u].owner /\ job'.user = u /\ role' = role
        BY <2>4, <3>1 DEF Arrive
      <4>2. uploads[u].owner \in BOOLEAN
        BY <1>2, <2>4 DEF Arrive, TypeOK, Upload
      <4>3. uploads[u].owner \/ AtLeast(role[u], "developer")
        BY <3>1, <4>2 DEF MayAttach, RoleFor, AtLeast
      <4> QED BY <4>1, <4>3 DEF MayInsert
    <3>2. CASE ~MayAttach(u, uploads[u])
      BY <2>1, <2>4, <3>2 DEF Arrive
    <3> QED BY <3>1, <3>2
  <2>5. ASSUME NEW f \in Files, Insert(f) PROVE MayInsert'
    <3>1. job \in Job
      BY <1>2, <2>5 DEF Insert, Idle, TypeOK
    <3>2. CASE job.files = {f}
      BY <2>1, <2>5, <3>2 DEF Insert
    <3>3. CASE job.files # {f}
      BY <1>2, <2>5, <3>1, <3>3 DEF Insert, Idle, MayInsert, Job
    <3> QED BY <3>2, <3>3
  <2>6. ASSUME NEW f \in Files, Unlink(f) PROVE MayInsert'
    BY <1>2, <2>6 DEF Unlink, MayInsert
  <2>7. CASE AttachmentSteps
    BY <2>1, <2>4, <2>5, <2>6, <2>7 DEF AttachmentSteps, Fail, Begin, Receive, DeleteAttachment, Idle
  <2>8. CASE Kill \/ InsertThrows
    BY <2>1, <2>8 DEF Kill, InsertThrows, Restarted
  <2>9. CASE UNCHANGED vars
    BY <1>2, <2>9 DEF vars, MayInsert
  <2> QED BY <1>2, <2>2, <2>3, <2>7, <2>8, <2>9 DEF Next
<1> QED BY <1>1, <1>2, AttachmentsTypeCorrect, PTL DEF Spec

\* Whoever's upload ends up on a task could write when it ended, or owned the
\* organization when it began.
THEOREM UploadsAlwaysByWriters == Spec => UploadsByWriters
<1>1. ASSUME TypeOK, MayInsert, [Next]_vars
      PROVE  [ \A f \in Files : rows[f] = NULL /\ rows'[f] # NULL =>
                 job.owner \/ AtLeast(role[job.user], "developer") ]_vars
  <2> SUFFICES ASSUME Next, NEW f \in Files, rows[f] = NULL, rows'[f] # NULL
               PROVE  job.owner \/ AtLeast(role[job.user], "developer")
    BY <1>1
  <2>1. ASSUME NEW u \in Users,
               \/ DeleteAccount(u) \/ DeleteWorkspace(u)
               \/ \E t \in Tasks : DeleteTask(u, t)
               \/ \E g \in Files : DeleteAttachment(u, g)
        PROVE  FALSE
    BY <1>1, <2>1 DEF DeleteAccount, DeleteWorkspace, DeleteTask, DeleteAttachment, TypeOK
  <2>2. ASSUME UNCHANGED rows PROVE FALSE
    BY <2>2
  <2>3. ASSUME TenancySteps \/ TaskSteps PROVE FALSE
    BY <2>1, <2>2, <2>3 DEF TenancySteps, SetRole, SetRank, TaskSteps, CreateTask
  <2>4. CASE job # NULL
    BY <1>1, <2>4 DEF MayInsert
  <2>5. CASE job = NULL
    BY <2>1, <2>2, <2>3, <2>5 DEF Next, AttachmentSteps, Fail, Arrive, Begin, Receive, Insert, Idle,
       Unlink, Kill, InsertThrows, Restarted
  <2> QED BY <2>4, <2>5
<1> QED BY <1>1, WritersOnly, AttachmentsTypeCorrect, PTL DEF Spec, UploadsByWriters

-----------------------------------------------------------------------------

\* What a step does with the files it takes out of an upload, a callback or a
\* row: they go on to the next place or to unlink.
LEMMA OrphanStep ==
  ASSUME TypeOK, FilesPlaced, Next, ~Kill, ~InsertThrows, ~(exists /\ ~exists'),
         NEW g \in Orphans'
  PROVE  g \in Orphans
<1>0. /\ g \in Files /\ disk'[g] = "stored" /\ rows'[g] = NULL /\ g \notin doomed'
      /\ ~Waiting(g)' /\ \A v \in Users : ~Sent(v, g)'
  BY DEF Orphans, Received, Pending, Idle, Waiting, Sent
<1> DEFINE Before == /\ disk[g] = "stored" /\ rows[g] = NULL /\ g \notin doomed
                     /\ ~Waiting(g) /\ \A v \in Users : ~Sent(v, g)
<1>1. SUFFICES Before
  BY <1>0 DEF Orphans, Received, Pending, Idle, Waiting, Sent
<1>2. Placed(g)
  BY <1>0 DEF FilesPlaced
<1> USE DEF Waiting, Sent, Idle
<1>3. CASE TenancySteps
  <2>1. ASSUME NEW u \in Users, DeleteAccount(u) PROVE Before
    BY <1>0, <2>1, NullIsNoRow DEF DeleteAccount, TypeOK, Row
  <2> QED BY <1>0, <1>3, <2>1 DEF TenancySteps, DeleteWorkspace, SetRole, SetRank
<1>4. CASE TaskSteps
  <2>1. ASSUME NEW u \in Users, NEW t \in Tasks, DeleteTask(u, t) PROVE Before
    BY <1>0, <2>1 DEF DeleteTask, Unlinked
  <2> QED BY <1>0, <1>4, <2>1 DEF TaskSteps, CreateTask
<1>5. ASSUME NEW u \in Users, Fail(u) PROVE Before
  BY <1>0, <1>5 DEF Fail, TypeOK
<1>6. ASSUME NEW u \in Users, Arrive(u) PROVE Before
  <2>1. ~Sent(u, g)
    <3>1. CASE MayAttach(u, uploads[u])
      <4>1. job' # NULL /\ job'.files = uploads[u].files
        BY <1>6, <3>1, AcceptedJob DEF Arrive
      <4> QED BY <1>0, <4>1
    <3>2. CASE ~MayAttach(u, uploads[u])
      BY <1>0, <1>6, <3>2 DEF Arrive, Discarded
    <3> QED BY <3>1, <3>2
  <2> QED BY <1>0, <1>6, <2>1 DEF Arrive, TypeOK
<1>7. ASSUME NEW u \in Users, NEW t \in Tasks, Begin(u, t) PROVE Before
  BY <1>0, <1>7 DEF Begin, TypeOK
<1>8. ASSUME NEW u \in Users, NEW f \in Files, Receive(u, f) PROVE Before
  <2>1. uploads'[u] # NULL /\ uploads'[u].files = uploads[u].files \cup {f}
    BY <1>8 DEF Receive, TypeOK, Upload
  <2>2. g # f /\ ~Sent(u, g)
    BY <1>0, <2>1
  <2> QED BY <1>0, <1>8, <2>2 DEF Receive, TypeOK
<1>9. ASSUME NEW u \in Users, NEW f \in Files, DeleteAttachment(u, f) PROVE Before
  BY <1>0, <1>9 DEF DeleteAttachment, TypeOK
<1>10. ASSUME NEW f \in Files, Insert(f) PROVE Before
  <2>1. g # f
    <3>1. [task |-> job.task, user |-> job.user] \in Row
      BY <1>10, InsertedRow
    <3> QED BY <1>0, <1>10, <3>1 DEF Insert, TypeOK
  <2>2. ~Waiting(g)
    <3>1. job \in Job
      BY <1>10 DEF Insert, TypeOK
    <3> QED BY <1>0, <1>10, <2>1, <3>1 DEF Insert, Job
  <2> QED BY <1>0, <1>10, <2>1, <2>2 DEF Insert, TypeOK
<1>11. ASSUME NEW f \in Files, Unlink(f) PROVE Before
  BY <1>0, <1>11 DEF Unlink, TypeOK
<1> QED BY <1>3, <1>4, <1>5, <1>6, <1>7, <1>8, <1>9, <1>10, <1>11 DEF Next, AttachmentSteps

\* Only a death of the process or the deletion of the workspace leaves a file
\* behind.
THEOREM OrphansAlwaysFromDeath == Spec => OrphansOnlyFromDeath
<1>1. ASSUME TypeOK, FilesPlaced, [Next]_vars
      PROVE  [Orphans' \subseteq Orphans \/ (exists /\ ~exists') \/ Kill \/ InsertThrows]_vars
  BY <1>1, OrphanStep
<1> QED BY <1>1, FilesAlwaysPlaced, AttachmentsTypeCorrect, PTL DEF Spec, OrphansOnlyFromDeath

==============================================================================
