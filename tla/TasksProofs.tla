----------------------------- MODULE TasksProofs -----------------------------
(***************************************************************************)
(* Theorems about Tasks, for any number of people, workspaces, projects,   *)
(* sections, statuses and tasks.                                           *)
(***************************************************************************)
EXTENDS Tasks, TLAPS

USE SeedsAreNames, RolesGiven, NamesMentioned, FlagsAreBoolean, AbsentIsNoValue,
    NullIsNoRole, NullIsNoTableRow

------------------------------------------------------------------------------
(* Types.                                                                  *)

\* What a request carries is ABSENT or of the field's type.
LEMMA BodyType ==
  ASSUME NEW w \in Workspaces, NEW b \in Bodies(w)
  PROVE  /\ b.project \in Projects \cup {NULL, ABSENT}
         /\ b.section \in Sections \cup {NULL, ABSENT}
         /\ b.parent \in Tasks \cup {NULL, ABSENT}
         /\ b.status \in Names \cup {ABSENT}
         /\ b.completed \in BOOLEAN \cup {ABSENT}
         /\ b.members \in (SUBSET Users) \cup {ABSENT}
BY DEF Bodies, Field, Mentioned

\* The timeline entries of a step by u on t.
LEMMA TimelineType ==
  ASSUME NEW u \in Users, NEW t \in Tasks, NEW old \in TaskRow, NEW new \in TaskRow, NEW asked
  PROVE  Timeline(u, t, old, new, asked) \subseteq LogRow
BY DEF Timeline, Entry, LogRow, TaskRow

\* Losing a project or section leaves a task row.
LEMMA DetachedType ==
  ASSUME NEW row \in TaskRow, NEW pr \in Projects
  PROVE  Detached(row, pr) \in TaskRow
BY DEF Detached, TaskRow

\* Renaming or reassigning a status leaves task rows.
LEMMA RenamedType ==
  ASSUME TypeOK, NEW w \in Workspaces, NEW n \in Names, NEW m \in Names
  PROVE  Renamed(w, n, m) \in [Tasks -> TaskRow \cup {NULL}]
<1>1. ASSUME NEW row \in TaskRow PROVE [row EXCEPT !.status = m] \in TaskRow
  BY <1>1 DEF TaskRow
<1> QED BY <1>1 DEF TypeOK, Renamed

\* Workspaces and memberships keep every table well-typed.
LEMMA TenancyStepsType == ASSUME TypeOK, TenancySteps PROVE TypeOK'
<1>1. ASSUME NEW u \in Users, NEW w \in Workspaces, CreateWorkspace(u, w) PROVE TypeOK'
  <2>1. Seeded \in [Names -> StatusRow \cup {NULL}]
    BY DEF Seeded, NoStatuses, StatusRow
  <2>2. [Nobody EXCEPT ![u] = "owner"] \in [Users -> Roles \cup {NULL}]
    BY DEF Nobody, Roles
  <2> QED BY <1>1, <2>1, <2>2 DEF CreateWorkspace, TypeOK
<1>2. ASSUME NEW u \in Users, NEW w \in Workspaces, DeleteWorkspace(u, w) PROVE TypeOK'
  BY <1>2 DEF DeleteWorkspace, TypeOK, Nobody, NoStatuses
<1>3. ASSUME NEW u \in Users, NEW w \in Workspaces, NEW r \in RoleArgs,
             MembershipChanges(w, u, r) PROVE TypeOK'
  BY <1>3 DEF MembershipChanges, TypeOK
<1>4. ASSUME NEW a \in Users, NEW u \in Users, AccountDeleted(a, u) PROVE TypeOK'
  <2>1. ASSUME NEW row \in TaskRow PROVE [row EXCEPT !.members = @ \ {u}] \in TaskRow
    BY <2>1 DEF TaskRow
  <2>2. tasks' \in [Tasks -> TaskRow \cup {NULL}]
    BY <1>4, <2>1 DEF AccountDeleted, TypeOK
  <2>3. role' \in [Workspaces -> [Users -> Roles \cup {NULL}]]
    BY <1>4 DEF AccountDeleted, TypeOK
  <2>4. logged' \subseteq LogRow
    BY <1>4 DEF AccountDeleted, Entry, LogRow, LiveTasks
  <2> QED BY <1>4, <2>2, <2>3, <2>4 DEF AccountDeleted, TypeOK
<1> QED BY <1>1, <1>2, <1>3, <1>4 DEF TenancySteps

\* So do the handlers of projects and sections.
LEMMA ProjectStepsType == ASSUME TypeOK, ProjectSteps PROVE TypeOK'
<1>1. ASSUME NEW u \in Users, NEW w \in Workspaces, NEW pr \in Projects,
             CreateProject(u, w, pr) PROVE TypeOK'
  BY <1>1 DEF CreateProject, TypeOK
<1>2. ASSUME NEW u \in Users, NEW pr \in Projects, DeleteProject(u, pr) PROVE TypeOK'
  <2>1. tasks' \in [Tasks -> TaskRow \cup {NULL}]
    BY <1>2, DetachedType DEF DeleteProject, TypeOK
  <2> QED BY <1>2, <2>1 DEF DeleteProject, TypeOK
<1>3. ASSUME NEW u \in Users, NEW pr \in Projects, NEW s \in Sections,
             CreateSection(u, pr, s) PROVE TypeOK'
  BY <1>3 DEF CreateSection, TypeOK
<1>4. ASSUME NEW u \in Users, NEW s \in Sections, DeleteSection(u, s) PROVE TypeOK'
  <2>1. ASSUME NEW row \in TaskRow
        PROVE  [row EXCEPT !.section = IF @ = s THEN NULL ELSE @] \in TaskRow
    BY <2>1 DEF TaskRow
  <2>2. tasks' \in [Tasks -> TaskRow \cup {NULL}]
    BY <1>4, <2>1 DEF DeleteSection, TypeOK
  <2> QED BY <1>4, <2>2 DEF DeleteSection, TypeOK
<1> QED BY <1>1, <1>2, <1>3, <1>4 DEF ProjectSteps

\* So do the handlers of statuses.
LEMMA WorkflowStepsType == ASSUME TypeOK, WorkflowSteps PROVE TypeOK'
<1> SUFFICES ASSUME NEW u \in Users, NEW w \in Workspaces, NEW n \in CallerNames,
                    \/ \E done \in BOOLEAN : CreateStatus(u, w, n, done)
                    \/ \E m \in CallerNames, done \in BOOLEAN \cup {ABSENT},
                          default \in DefaultArgs \cup {ABSENT} :
                         UpdateStatus(u, w, n, m, done, default)
                    \/ \E m \in CallerNames \cup {NULL} : DeleteStatus(u, w, n, m)
             PROVE TypeOK'
  BY DEF WorkflowSteps
<1>1. ASSUME NEW done \in BOOLEAN, CreateStatus(u, w, n, done) PROVE TypeOK'
  <2>1. [done |-> done, default |-> FALSE] \in StatusRow
    BY DEF StatusRow
  <2> QED BY <1>1, <2>1 DEF CreateStatus, TypeOK
<1>2. ASSUME NEW m \in CallerNames, NEW done \in BOOLEAN \cup {ABSENT},
             NEW default \in DefaultArgs \cup {ABSENT},
             UpdateStatus(u, w, n, m, done, default) PROVE TypeOK'
  <2>1. tasks' \in [Tasks -> TaskRow \cup {NULL}]
    BY <1>2, RenamedType DEF UpdateStatus
  <2>2. statuses[w] \in [Names -> StatusRow \cup {NULL}] /\ statuses[w][n] \in StatusRow
    BY <1>2 DEF UpdateStatus, TypeOK
  <2> DEFINE Edited == [done |-> IF done = ABSENT THEN statuses[w][n].done ELSE done,
                        default |-> IF default = ABSENT THEN statuses[w][n].default ELSE default]
             Table == [k \in Names |->
                         CASE k = m -> Edited
                           [] k = n /\ k # m -> NULL
                           [] k \notin {n, m} -> OthersOf(statuses[w][k], default)]
  <2>3. Edited \in StatusRow
    BY <2>2 DEF StatusRow
  <2>4. ASSUME NEW k \in Names PROVE OthersOf(statuses[w][k], default) \in StatusRow \cup {NULL}
    <3>1. statuses[w][k] \in StatusRow \cup {NULL}
      BY <2>2
    <3>2. CASE statuses[w][k] # NULL /\ default = TRUE
      <4>1. statuses[w][k] \in StatusRow
        BY <3>1, <3>2
      <4>2. [statuses[w][k] EXCEPT !.default = FALSE] \in StatusRow
        BY <4>1 DEF StatusRow
      <4> QED BY <3>2, <4>2 DEF OthersOf
    <3>3. CASE ~(statuses[w][k] # NULL /\ default = TRUE)
      BY <3>1, <3>3 DEF OthersOf
    <3> QED BY <3>2, <3>3
  <2>5. Table \in [Names -> StatusRow \cup {NULL}]
    <3>1. ASSUME NEW k \in Names PROVE Table[k] \in StatusRow \cup {NULL}
      <4>1. CASE k = m
        BY <4>1, <2>3
      <4>2. CASE k = n /\ k # m
        BY <4>2
      <4>3. CASE k \notin {n, m}
        BY <4>3, <2>4
      <4> QED BY <4>1, <4>2, <4>3
    <3> HIDE DEF Edited
    <3> QED BY <3>1
  <2>6. statuses' = [statuses EXCEPT ![w] = Table]
    BY <1>2 DEF UpdateStatus
  <2> HIDE DEF Table
  <2>7. statuses' \in [Workspaces -> [Names -> StatusRow \cup {NULL}]]
    BY <2>5, <2>6 DEF TypeOK
  <2> QED BY <1>2, <2>1, <2>7 DEF UpdateStatus, TypeOK
<1>3. ASSUME NEW m \in CallerNames \cup {NULL}, DeleteStatus(u, w, n, m) PROVE TypeOK'
  <2>1. tasks' \in [Tasks -> TaskRow \cup {NULL}]
    <3>1. CASE InUse(w, n)
      <4>1. m \in Names
        BY <1>3, <3>1 DEF DeleteStatus, MayDelete
      <4> QED BY <1>3, <3>1, <4>1, RenamedType DEF DeleteStatus
    <3>2. CASE ~InUse(w, n)
      BY <1>3, <3>2 DEF DeleteStatus, TypeOK
    <3> QED BY <3>1, <3>2
  <2>2. OtherStatus(w, n)
    BY <1>3 DEF DeleteStatus, MayDelete
  <2>3. PICK d \in LiveStatuses(w) \ {n} :
          statuses' = [statuses EXCEPT ![w] = Without(w, n, d)]
    BY <1>3, <2>2 DEF DeleteStatus
  <2>4. statuses[w] \in [Names -> StatusRow \cup {NULL}] /\ statuses[w][d] \in StatusRow
    BY <2>3 DEF LiveStatuses, TypeOK
  <2>5. [statuses[w][d] EXCEPT !.default = TRUE] \in StatusRow
    BY <2>4 DEF StatusRow
  <2>6. d \in Names /\ d # n
    BY <2>3 DEF LiveStatuses
  <2>7. Without(w, n, d) \in [Names -> StatusRow \cup {NULL}]
    <3>1. [statuses[w] EXCEPT ![n] = NULL] \in [Names -> StatusRow \cup {NULL}]
      BY <2>4
    <3>2. [statuses[w] EXCEPT ![n] = NULL, ![d].default = TRUE] \in [Names -> StatusRow \cup {NULL}]
      BY <2>4, <2>5, <2>6
    <3> QED BY <3>1, <3>2 DEF Without
  <2>8. statuses' \in [Workspaces -> [Names -> StatusRow \cup {NULL}]]
    BY <2>3, <2>7 DEF TypeOK
  <2> QED BY <1>3, <2>1, <2>8 DEF DeleteStatus, TypeOK
<1> QED BY <1>1, <1>2, <1>3

\* A created task is a well-typed row.
LEMMA CreateTaskType ==
  ASSUME TypeOK, NEW u \in Users, NEW t \in Tasks, NEW w \in workspaces, NEW b \in Bodies(w),
         CreateTask(u, w, t, b)
  PROVE  TypeOK' /\ tasks'[t] \in TaskRow
<1> DEFINE nested == b.parent \in Tasks
           project == IF nested THEN tasks[b.parent].project ELSE Given(b.project, NULL)
           section == IF nested THEN NULL ELSE Given(b.section, NULL)
           wanted == Given(b.members, {})
<1>1. w \in Workspaces
  BY DEF TypeOK
<1>2. project \in Projects \cup {NULL}
  <2>1. CASE nested
    <3>1. tasks[b.parent] \in TaskRow
      BY <2>1 DEF CreateTask, ParentIn, TypeOK
    <3> QED BY <2>1, <3>1 DEF TaskRow
  <2>2. CASE ~nested
    BY <1>1, <2>2, BodyType DEF Given
  <2> QED BY <2>1, <2>2
<1>3. section \in Sections \cup {NULL}
  BY <1>1, BodyType DEF Given
<1>4. Given(b.parent, NULL) \in Tasks \cup {NULL}
  BY <1>1, BodyType DEF Given
<1>5. Kept(w, wanted) \in SUBSET Users
  BY <1>1, BodyType DEF Given, Kept
<1>6. PICK s \in IF b.status = ABSENT THEN DefaultStatuses(w) ELSE {b.status} :
        tasks' = [tasks EXCEPT ![t] =
           [ws |-> w, project |-> project, section |-> section,
            parent |-> Given(b.parent, NULL), status |-> s, completed |-> FALSE,
            members |-> Kept(w, wanted)]]
  BY DEF CreateTask
<1>7. s \in Names
  BY <1>1, <1>6, BodyType DEF DefaultStatuses, LiveStatuses
<1> HIDE DEF project, section, wanted
<1>8. [ws |-> w, project |-> project, section |-> section,
       parent |-> Given(b.parent, NULL), status |-> s, completed |-> FALSE,
       members |-> Kept(w, wanted)] \in TaskRow
  BY <1>1, <1>2, <1>3, <1>4, <1>5, <1>7 DEF TaskRow
<1>9. tasks' \in [Tasks -> TaskRow \cup {NULL}] /\ tasks'[t] \in TaskRow
  BY <1>6, <1>8 DEF TypeOK
<1>10. logged' \subseteq LogRow
  BY DEF CreateTask, Entry, LogRow
<1> QED BY <1>9, <1>10 DEF CreateTask, TypeOK

\* An updated task is one too.
LEMMA UpdateTaskType ==
  ASSUME TypeOK, NEW u \in Users, NEW t \in Tasks, tasks[t] # NULL,
         NEW b \in Bodies(tasks[t].ws), UpdateTask(u, t, b)
  PROVE  TypeOK' /\ tasks'[t] \in TaskRow
<1> DEFINE old == tasks[t]
           w == old.ws
           nested == b.parent \in Tasks
           project == IF nested THEN tasks[b.parent].project ELSE Given(b.project, old.project)
           asked == IF nested THEN NULL ELSE b.section
           members == IF b.members = ABSENT THEN old.members ELSE Kept(w, b.members)
<1>1. old \in TaskRow
  BY DEF TypeOK
<1>2. w \in Workspaces /\ old.project \in Projects \cup {NULL} /\ old.section \in Sections \cup {NULL}
      /\ old.parent \in Tasks \cup {NULL} /\ old.status \in Names /\ old.completed \in BOOLEAN
      /\ old.members \in SUBSET Users
  BY <1>1 DEF TaskRow
<1>3. project \in Projects \cup {NULL}
  <2>1. CASE nested
    <3>1. tasks[b.parent] \in TaskRow
      BY <2>1 DEF UpdateTask, ParentIn, TypeOK
    <3> QED BY <2>1, <3>1 DEF TaskRow
  <2>2. CASE ~nested
    BY <1>2, <2>2, BodyType DEF Given
  <2> QED BY <2>1, <2>2
<1>4. NextSection(old, project, asked) \in Sections \cup {NULL}
  BY <1>2, BodyType DEF Given, NextSection
<1>5. Given(b.parent, old.parent) \in Tasks \cup {NULL}
  BY <1>2, BodyType DEF Given
<1>6. members \in SUBSET Users
  BY <1>2, BodyType DEF Kept
<1>7. NextCompleted(w, old, b) \in BOOLEAN
  <2>1. CASE b.completed # ABSENT
    BY <1>2, <2>1, BodyType DEF NextCompleted
  <2>2. CASE b.completed = ABSENT /\ b.status # ABSENT
    <3>1. b.status \in Names
      BY <1>2, <2>2, BodyType
    <3>2. IsDone(w, b.status) \in BOOLEAN
      BY <1>2, <3>1 DEF IsDone, TypeOK, StatusRow
    <3> QED BY <2>2, <3>2 DEF NextCompleted
  <2>3. CASE b.completed = ABSENT /\ b.status = ABSENT
    BY <1>2, <2>3 DEF NextCompleted
  <2> QED BY <2>1, <2>2, <2>3
<1>8. PICK s \in NextStatuses(w, old, b) :
        tasks' = [tasks EXCEPT ![t] =
           [ws |-> w, project |-> project, section |-> NextSection(old, project, asked),
            parent |-> Given(b.parent, old.parent), status |-> s,
            completed |-> NextCompleted(w, old, b), members |-> members]]
  BY DEF UpdateTask
<1>9. s \in Names
  BY <1>2, <1>8, BodyType DEF NextStatuses, DefaultStatuses, LiveStatuses, DoneStatuses
<1> HIDE DEF old, project, asked, members
<1>10. [ws |-> w, project |-> project, section |-> NextSection(old, project, asked),
        parent |-> Given(b.parent, old.parent), status |-> s,
        completed |-> NextCompleted(w, old, b), members |-> members] \in TaskRow
  BY <1>2, <1>3, <1>4, <1>5, <1>6, <1>7, <1>9 DEF TaskRow
<1>11. tasks' \in [Tasks -> TaskRow \cup {NULL}] /\ tasks'[t] \in TaskRow
  BY <1>8, <1>10 DEF TypeOK
<1>12. logged' \subseteq LogRow
  BY <1>1, <1>11, TimelineType DEF UpdateTask, old
<1> QED BY <1>11, <1>12 DEF UpdateTask, TypeOK

\* So the handlers of tasks keep every table well-typed.
LEMMA TaskStepsType == ASSUME TypeOK, TaskSteps PROVE TypeOK'
<1>1. ASSUME NEW u \in Users, NEW t \in Tasks, DeleteTask(u, t) PROVE TypeOK'
  BY <1>1 DEF DeleteTask, TypeOK
<1> QED BY <1>1, CreateTaskType, UpdateTaskType DEF TaskSteps

\* So do the tools.
LEMMA ToolStepsType == ASSUME TypeOK, ToolSteps PROVE TypeOK'
<1>1. ASSUME NEW u \in Users, NEW t \in Tasks, NEW n \in CallerNames, ToolUpdateStatus(u, t, n)
      PROVE TypeOK'
  <2>1. tasks[t] \in TaskRow
    BY <1>1 DEF ToolUpdateStatus, TypeOK
  <2>2. IsDone(tasks[t].ws, n) \in BOOLEAN
    BY <1>1, <2>1 DEF ToolUpdateStatus, IsDone, TypeOK, StatusRow, TaskRow
  <2>3. [tasks[t] EXCEPT !.status = n, !.completed = IsDone(tasks[t].ws, n)] \in TaskRow
    BY <2>1, <2>2 DEF TaskRow
  <2>4. tasks' = [tasks EXCEPT ![t] =
                    [tasks[t] EXCEPT !.status = n, !.completed = IsDone(tasks[t].ws, n)]]
    BY <1>1, <2>1 DEF ToolUpdateStatus, TypeOK
  <2>5. tasks' \in [Tasks -> TaskRow \cup {NULL}] /\ tasks'[t] \in TaskRow
    BY <2>3, <2>4 DEF TypeOK
  <2>6. logged' \subseteq LogRow
    BY <1>1, <2>1, <2>5, TimelineType DEF ToolUpdateStatus
  <2> QED BY <1>1, <2>5, <2>6 DEF ToolUpdateStatus, TypeOK
<1>2. ASSUME NEW u \in Users, NEW t \in Tasks, NEW assigned \in BOOLEAN,
             ToolAssignSelf(u, t, assigned) PROVE TypeOK'
  <2>1. tasks[t] \in TaskRow
    BY <1>2 DEF ToolAssignSelf, TypeOK
  <2> DEFINE members == IF assigned THEN tasks[t].members \cup {u} ELSE tasks[t].members \ {u}
  <2>2. [tasks[t] EXCEPT !.members = members] \in TaskRow
    BY <2>1 DEF TaskRow
  <2>3. tasks' = [tasks EXCEPT ![t] = [tasks[t] EXCEPT !.members = members]]
    BY <1>2, <2>1 DEF ToolAssignSelf, TypeOK
  <2> HIDE DEF members
  <2>4. tasks' \in [Tasks -> TaskRow \cup {NULL}] /\ tasks'[t] \in TaskRow
    BY <2>2, <2>3 DEF TypeOK
  <2>5. logged' \subseteq LogRow
    BY <1>2, <2>1, <2>4, TimelineType DEF ToolAssignSelf
  <2> QED BY <1>2, <2>4, <2>5 DEF ToolAssignSelf, TypeOK
<1> QED BY <1>1, <1>2 DEF ToolSteps

\* Every table of the work keeps its type: tasks, statuses, projects and sections
\* refer to rows of the right table, and is_completed is always a Boolean.
THEOREM TasksTypeCorrect == Spec => []TypeOK
<1>1. Init => TypeOK
  BY DEF Init, TypeOK, Nobody, NoStatuses
<1>2. TypeOK /\ [Next]_vars => TypeOK'
  <2>1. ASSUME TypeOK, UNCHANGED vars PROVE TypeOK'
    BY <2>1 DEF TypeOK, vars
  <2> QED BY <2>1, TenancyStepsType, ProjectStepsType, WorkflowStepsType, TaskStepsType,
             ToolStepsType DEF Next
<1> QED BY <1>1, <1>2, PTL DEF Spec

------------------------------------------------------------------------------
(* Nesting and filing.                                                     *)

\* The inductive invariant: both properties need the tables they read well-typed,
\* and each protects the other when a task becomes a sub-task.
FilingInv == TypeOK /\ OneLevelOfNesting /\ FiledConsistently

\* The parts of a task row that say where it is.
SamePlace(t) ==
  /\ (tasks[t] = NULL) <=> (tasks'[t] = NULL)
  /\ tasks[t] # NULL =>
       /\ tasks'[t].ws = tasks[t].ws /\ tasks'[t].project = tasks[t].project
       /\ tasks'[t].section = tasks[t].section /\ tasks'[t].parent = tasks[t].parent

\* A step that neither creates, deletes nor re-parents a task.
LEMMA NestingKept ==
  ASSUME TypeOK, OneLevelOfNesting,
         \A t \in Tasks :
           /\ (tasks[t] = NULL) <=> (tasks'[t] = NULL)
           /\ tasks[t] # NULL => tasks'[t].ws = tasks[t].ws /\ tasks'[t].parent = tasks[t].parent
  PROVE  OneLevelOfNesting'
<1>1. LiveTasks' = LiveTasks
  BY DEF LiveTasks
<1>2. ASSUME NEW t \in LiveTasks, tasks[t].parent # NULL
      PROVE  /\ tasks'[tasks[t].parent] # NULL
             /\ tasks'[tasks[t].parent].ws = tasks[t].ws
             /\ tasks'[tasks[t].parent].parent = NULL
  <2>1. tasks[t].parent \in Tasks
    BY <1>2 DEF TypeOK, TaskRow, LiveTasks
  <2>2. tasks[tasks[t].parent] # NULL /\ tasks[tasks[t].parent].ws = tasks[t].ws
        /\ tasks[tasks[t].parent].parent = NULL
    BY <1>2 DEF OneLevelOfNesting
  <2> QED BY <2>1, <2>2
<1>3. \A t \in LiveTasks : tasks'[t].ws = tasks[t].ws /\ tasks'[t].parent = tasks[t].parent
  BY DEF LiveTasks
<1> QED BY <1>1, <1>2, <1>3 DEF OneLevelOfNesting

\* A step that moves no task and leaves workspaces, projects and sections alone.
LEMMA NothingMoves ==
  ASSUME FilingInv, TypeOK', workspaces' = workspaces, projects' = projects,
         sections' = sections, \A t \in Tasks : SamePlace(t),
         \A w \in Workspaces, n \in Names : statuses'[w][n] # NULL => w \in workspaces
  PROVE  FilingInv'
<1>1. LiveTasks' = LiveTasks
  BY DEF LiveTasks, SamePlace
<1>2. ASSUME NEW t \in LiveTasks PROVE t \in Tasks /\ tasks[t] \in TaskRow
  BY <1>2 DEF FilingInv, TypeOK, LiveTasks
<1>3. OneLevelOfNesting'
  BY NestingKept DEF FilingInv, SamePlace
<1>4. FiledConsistently'
  <2>1. ASSUME NEW t \in LiveTasks
        PROVE  /\ tasks'[t].ws \in workspaces'
               /\ tasks'[t].project # NULL => projects'[tasks'[t].project] = tasks'[t].ws
               /\ tasks'[t].section # NULL =>
                    sections'[tasks'[t].section] # NULL /\ sections'[tasks'[t].section] = tasks'[t].project
    BY <1>2 DEF FilingInv, FiledConsistently, SamePlace, LiveTasks
  <2> QED BY <1>1, <2>1 DEF FilingInv, FiledConsistently
<1> QED BY <1>3, <1>4 DEF FilingInv

\* A task moves, or a new one appears, in workspace w: what the two handlers
\* that write a place check.
LEMMA OneMoves ==
  ASSUME FilingInv, TypeOK', UNCHANGED <<workspaces, projects, sections, statuses>>,
         NEW t \in Tasks, NEW w \in workspaces, NEW row \in TaskRow,
         tasks' = [tasks EXCEPT ![t] = row],
         row.ws = w,
         tasks[t] # NULL => tasks[t].ws = w,
         row.project # NULL => projects[row.project] = w,
         row.section # NULL => sections[row.section] # NULL /\ sections[row.section] = row.project,
         row.parent # NULL => row.parent # t /\ ParentIn(w, row.parent) /\ SubtasksOf(t) = {}
  PROVE  FilingInv'
<1>1. tasks'[t] = row /\ \A x \in Tasks \ {t} : tasks'[x] = tasks[x]
  BY DEF FilingInv, TypeOK
<1>2. OneLevelOfNesting'
  <2> SUFFICES ASSUME NEW x \in Tasks, tasks'[x] # NULL, tasks'[x].parent # NULL
               PROVE  /\ tasks'[tasks'[x].parent] # NULL
                      /\ tasks'[tasks'[x].parent].ws = tasks'[x].ws
                      /\ tasks'[tasks'[x].parent].parent = NULL
    BY DEF OneLevelOfNesting, LiveTasks
  <2>1. tasks'[x] \in TaskRow /\ tasks'[x].parent \in Tasks
    BY DEF TypeOK, TaskRow
  <2>2. CASE x = t
    BY <1>1, <2>1, <2>2 DEF ParentIn
  <2>3. CASE x # t
    <3>1. x \in LiveTasks /\ tasks'[x] = tasks[x]
      BY <1>1, <2>3 DEF LiveTasks
    <3>2. tasks[tasks[x].parent] # NULL /\ tasks[tasks[x].parent].ws = tasks[x].ws
          /\ tasks[tasks[x].parent].parent = NULL
      BY <3>1 DEF FilingInv, OneLevelOfNesting
    <3>3. CASE tasks[x].parent = t
      <4>1. x \in SubtasksOf(t)
        BY <3>1, <3>3 DEF SubtasksOf
      <4> QED BY <1>1, <3>1, <3>2, <3>3, <4>1
    <3>4. CASE tasks[x].parent # t
      BY <1>1, <2>1, <3>1, <3>2, <3>4
    <3> QED BY <3>3, <3>4
  <2> QED BY <2>2, <2>3
<1>3. FiledConsistently'
  <2>1. ASSUME NEW x \in Tasks, tasks'[x] # NULL
        PROVE  /\ tasks'[x].ws \in workspaces
               /\ tasks'[x].project # NULL => projects[tasks'[x].project] = tasks'[x].ws
               /\ tasks'[x].section # NULL =>
                    sections[tasks'[x].section] # NULL /\ sections[tasks'[x].section] = tasks'[x].project
    <3>1. CASE x = t
      BY <1>1, <3>1
    <3>2. CASE x # t
      BY <1>1, <2>1, <3>2 DEF FilingInv, FiledConsistently, LiveTasks
    <3> QED BY <3>1, <3>2
  <2> QED BY <2>1 DEF FilingInv, FiledConsistently, LiveTasks
<1> QED BY <1>2, <1>3 DEF FilingInv

\* Workspaces, memberships and accounts.
LEMMA TenancyStepsFiling == ASSUME FilingInv, TenancySteps PROVE FilingInv'
<1>0. TypeOK /\ TypeOK'
  BY TenancyStepsType DEF FilingInv
<1>1. ASSUME NEW u \in Users, NEW w \in Workspaces, CreateWorkspace(u, w) PROVE FilingInv'
  <2>1. OneLevelOfNesting'
    BY <1>1 DEF CreateWorkspace, FilingInv, OneLevelOfNesting, LiveTasks
  <2>2. \A v \in Workspaces, n \in Names : statuses'[v][n] # NULL => v \in workspaces'
    BY <1>1 DEF CreateWorkspace, FilingInv, TypeOK, FiledConsistently
  <2>3. FiledConsistently'
    BY <1>1, <2>2 DEF CreateWorkspace, FilingInv, FiledConsistently, LiveTasks
  <2> QED BY <1>0, <2>1, <2>3 DEF FilingInv
<1>2. ASSUME NEW u \in Users, NEW w \in Workspaces, DeleteWorkspace(u, w) PROVE FilingInv'
  <2> USE <1>2 DEF DeleteWorkspace
  <2>1. ASSUME NEW t \in Tasks, tasks'[t] # NULL
        PROVE  tasks'[t] = tasks[t] /\ t \in LiveTasks /\ tasks[t].ws # w /\ tasks[t] \in TaskRow
    BY <1>0, <2>1 DEF TypeOK, LiveTasks
  <2>2. OneLevelOfNesting'
    <3> SUFFICES ASSUME NEW t \in Tasks, tasks'[t] # NULL, tasks[t].parent # NULL
                 PROVE  /\ tasks'[tasks[t].parent] # NULL
                        /\ tasks'[tasks[t].parent].ws = tasks[t].ws
                        /\ tasks'[tasks[t].parent].parent = NULL
      BY SMTT(30), <2>1 DEF OneLevelOfNesting, LiveTasks
    <3>1. tasks[t].parent \in Tasks
      BY <2>1 DEF TaskRow
    <3>2. tasks[tasks[t].parent] # NULL /\ tasks[tasks[t].parent].ws = tasks[t].ws
          /\ tasks[tasks[t].parent].parent = NULL
      BY <2>1 DEF FilingInv, OneLevelOfNesting
    <3> QED BY <2>1, <3>1, <3>2
  <2>3. \A pr \in Projects : projects'[pr] # NULL => projects'[pr] = projects[pr] /\ projects[pr] # w
    OBVIOUS
  <2>4. \A pr \in Projects : projects[pr] # NULL /\ projects[pr] # w => projects'[pr] = projects[pr]
    OBVIOUS
  <2>5. \A s \in Sections : sections'[s] # NULL =>
          sections'[s] = sections[s] /\ projects[sections[s]] # w
    OBVIOUS
  <2>6. \A v \in Workspaces, n \in Names : statuses'[v][n] # NULL => v \in workspaces'
    <3> SUFFICES ASSUME NEW v \in Workspaces, NEW n \in Names, statuses'[v][n] # NULL
                 PROVE  v \in workspaces'
      OBVIOUS
    <3>1. v # w
      BY <1>0 DEF TypeOK, NoStatuses
    <3>2. statuses'[v] = statuses[v]
      BY <1>0, <3>1 DEF TypeOK
    <3> QED BY <3>1, <3>2 DEF FilingInv, FiledConsistently
  <2>7. ASSUME NEW t \in Tasks, tasks'[t] # NULL
        PROVE  /\ tasks'[t].ws \in workspaces'
               /\ tasks'[t].project # NULL => projects'[tasks'[t].project] = tasks'[t].ws
               /\ tasks'[t].section # NULL =>
                    sections'[tasks'[t].section] # NULL /\ sections'[tasks'[t].section] = tasks'[t].project
    <3>1. tasks'[t] = tasks[t] /\ t \in LiveTasks /\ tasks[t].ws # w /\ tasks[t] \in TaskRow
      BY <2>1, <2>7
    <3>2. tasks[t].ws \in workspaces'
      BY <3>1 DEF FilingInv, FiledConsistently
    <3>3. ASSUME tasks[t].project # NULL PROVE projects'[tasks[t].project] = tasks[t].ws
      BY <3>1, <3>3, <2>4 DEF FilingInv, FiledConsistently, TaskRow
    <3>4. ASSUME tasks[t].section # NULL
          PROVE  sections'[tasks[t].section] # NULL /\ sections'[tasks[t].section] = tasks[t].project
      <4>1. tasks[t].section \in Sections /\ sections[tasks[t].section] # NULL
            /\ sections[tasks[t].section] = tasks[t].project
        BY <3>1, <3>4 DEF FilingInv, FiledConsistently, TaskRow
      <4>2. projects[sections[tasks[t].section]] = tasks[t].ws
        BY <3>1, <4>1 DEF FilingInv, FiledConsistently
      <4> QED BY <3>1, <4>1, <4>2
    <3> QED BY <3>1, <3>2, <3>3, <3>4
  <2>8. \A pr \in Projects : projects'[pr] # NULL => projects'[pr] \in workspaces'
    BY <2>3 DEF FilingInv, FiledConsistently
  <2>9. \A s \in Sections : sections'[s] # NULL => projects'[sections'[s]] # NULL
    BY <1>0, <2>4, <2>5 DEF FilingInv, FiledConsistently, TypeOK
  <2> QED BY <1>0, <2>2, <2>6, <2>7, <2>8, <2>9 DEF FilingInv, FiledConsistently, LiveTasks
<1>3. ASSUME NEW u \in Users, NEW w \in Workspaces, NEW r \in RoleArgs,
             MembershipChanges(w, u, r) PROVE FilingInv'
  <2>1. \A t \in Tasks : SamePlace(t)
    BY <1>3 DEF MembershipChanges, SamePlace
  <2> QED BY <1>0, <1>3, <2>1, NothingMoves DEF MembershipChanges, FilingInv, FiledConsistently
<1>4. ASSUME NEW a \in Users, NEW u \in Users, AccountDeleted(a, u) PROVE FilingInv'
  <2>1. ASSUME NEW t \in Tasks PROVE SamePlace(t)
    <3>1. CASE tasks[t] = NULL
      BY <1>4, <3>1 DEF AccountDeleted, SamePlace
    <3>2. CASE tasks[t] # NULL
      <4>1. tasks[t] \in TaskRow /\ tasks'[t] = [tasks[t] EXCEPT !.members = @ \ {u}]
        BY <1>0, <1>4, <3>2 DEF AccountDeleted, TypeOK
      <4>2. tasks'[t] \in TaskRow
        BY <4>1 DEF TaskRow
      <4> QED BY <3>2, <4>1, <4>2 DEF SamePlace, TaskRow
    <3> QED BY <3>1, <3>2
  <2> QED BY <1>0, <1>4, <2>1, NothingMoves DEF AccountDeleted, FilingInv, FiledConsistently
<1> QED BY <1>1, <1>2, <1>3, <1>4 DEF TenancySteps

\* Projects and sections come and go.
LEMMA ProjectStepsFiling == ASSUME FilingInv, ProjectSteps PROVE FilingInv'
<1>0. TypeOK /\ TypeOK'
  BY ProjectStepsType DEF FilingInv
<1>a. ASSUME NEW t \in Tasks, tasks[t] # NULL
      PROVE  /\ t \in LiveTasks /\ tasks[t] \in TaskRow
             /\ tasks[t].ws \in workspaces
             /\ tasks[t].project # NULL => projects[tasks[t].project] = tasks[t].ws
             /\ tasks[t].section # NULL =>
                  sections[tasks[t].section] # NULL /\ sections[tasks[t].section] = tasks[t].project
  BY <1>0, <1>a DEF FilingInv, FiledConsistently, LiveTasks, TypeOK
<1>1. ASSUME NEW u \in Users, NEW w \in Workspaces, NEW pr \in Projects,
             CreateProject(u, w, pr) PROVE FilingInv'
  <2> USE <1>1 DEF CreateProject
  <2>1. OneLevelOfNesting'
    BY DEF FilingInv, OneLevelOfNesting, LiveTasks
  <2>2. w \in workspaces
    BY DEF Manages
  <2>3. \A q \in Projects : projects[q] # NULL => projects'[q] = projects[q]
    BY <1>0 DEF TypeOK
  <2>4. \A q \in Projects : projects'[q] # NULL => projects'[q] \in workspaces
    BY <1>0, <2>2 DEF TypeOK, FilingInv, FiledConsistently
  <2>5. \A s \in Sections : sections[s] # NULL => projects'[sections[s]] # NULL
    BY <1>0, <2>3 DEF TypeOK, FilingInv, FiledConsistently
  <2>6. ASSUME NEW t \in Tasks, tasks[t] # NULL, tasks[t].project # NULL
        PROVE  projects'[tasks[t].project] = tasks[t].ws
    <3>1. tasks[t].project \in Projects /\ projects[tasks[t].project] = tasks[t].ws
          /\ tasks[t].ws # NULL
      BY <1>a, <2>6 DEF TaskRow
    <3> QED BY <2>3, <3>1
  <2>7. FiledConsistently'
    BY <1>a, <2>4, <2>5, <2>6 DEF FilingInv, FiledConsistently, LiveTasks
  <2> QED BY <1>0, <2>1, <2>7 DEF FilingInv
<1>2. ASSUME NEW u \in Users, NEW pr \in Projects, DeleteProject(u, pr) PROVE FilingInv'
  <2> USE <1>2 DEF DeleteProject
  <2>1. ASSUME NEW t \in Tasks
        PROVE  /\ tasks'[t] = NULL <=> tasks[t] = NULL
               /\ tasks[t] # NULL =>
                    /\ tasks'[t].ws = tasks[t].ws /\ tasks'[t].parent = tasks[t].parent
                    /\ tasks'[t].project = IF tasks[t].project = pr THEN NULL ELSE tasks[t].project
                    /\ tasks'[t].section = IF tasks[t].section # NULL /\ sections[tasks[t].section] = pr
                                           THEN NULL ELSE tasks[t].section
    <3>1. CASE tasks[t] = NULL
      BY <3>1
    <3>2. CASE tasks[t] # NULL
      <4>1. tasks'[t] = Detached(tasks[t], pr) /\ tasks[t] \in TaskRow /\ Detached(tasks[t], pr) \in TaskRow
        BY <1>a, <3>2, DetachedType
      <4>2. Detached(tasks[t], pr) # NULL
        BY <4>1
      <4> QED BY <3>2, <4>1, <4>2 DEF Detached, TaskRow
    <3> QED BY <3>1, <3>2
  <2>2. OneLevelOfNesting'
    BY <1>0, <2>1, NestingKept DEF FilingInv
  <2>3. \A q \in Projects : projects[q] # NULL /\ q # pr => projects'[q] = projects[q]
    BY <1>0 DEF TypeOK
  <2>4. \A q \in Projects : projects'[q] # NULL => projects'[q] \in workspaces
    BY <1>0 DEF TypeOK, FilingInv, FiledConsistently
  <2>5. \A s \in Sections : sections'[s] # NULL => projects'[sections'[s]] # NULL
    BY <1>0, <2>3 DEF TypeOK, FilingInv, FiledConsistently
  <2>6. ASSUME NEW t \in Tasks, tasks[t] # NULL
        PROVE  /\ tasks'[t].ws \in workspaces
               /\ tasks'[t].project # NULL => projects'[tasks'[t].project] = tasks'[t].ws
               /\ tasks'[t].section # NULL =>
                    sections'[tasks'[t].section] # NULL /\ sections'[tasks'[t].section] = tasks'[t].project
    <3>1. tasks[t].project \in Projects \cup {NULL} /\ tasks[t].section \in Sections \cup {NULL}
          /\ tasks[t].ws # NULL
      BY <1>a, <2>6 DEF TaskRow
    <3>2. tasks'[t].project # NULL => projects'[tasks'[t].project] = tasks'[t].ws
      BY <1>a, <2>1, <2>3, <2>6, <3>1
    <3>3. ASSUME tasks'[t].section # NULL
          PROVE  sections'[tasks'[t].section] # NULL /\ sections'[tasks'[t].section] = tasks'[t].project
      BY <1>a, <2>1, <2>6, <3>1, <3>3
    <3> QED BY <1>a, <2>1, <2>6, <3>2, <3>3
  <2>7. FiledConsistently'
    BY <2>1, <2>4, <2>5, <2>6 DEF FilingInv, FiledConsistently, LiveTasks
  <2> QED BY <1>0, <2>2, <2>7 DEF FilingInv
<1>3. ASSUME NEW u \in Users, NEW pr \in Projects, NEW s \in Sections,
             CreateSection(u, pr, s) PROVE FilingInv'
  <2> USE <1>3 DEF CreateSection
  <2>1. OneLevelOfNesting'
    BY DEF FilingInv, OneLevelOfNesting, LiveTasks
  <2>2. \A q \in Sections : sections[q] # NULL => sections'[q] = sections[q]
    BY <1>0 DEF TypeOK
  <2>3. \A q \in Sections : sections'[q] # NULL => projects[sections'[q]] # NULL
    BY <1>0 DEF TypeOK, FilingInv, FiledConsistently
  <2>4. ASSUME NEW t \in Tasks, tasks[t] # NULL, tasks[t].section # NULL
        PROVE  sections'[tasks[t].section] # NULL /\ sections'[tasks[t].section] = tasks[t].project
    BY <1>a, <2>2, <2>4 DEF TaskRow
  <2>5. FiledConsistently'
    BY <1>a, <2>3, <2>4 DEF FilingInv, FiledConsistently, LiveTasks
  <2> QED BY <1>0, <2>1, <2>5 DEF FilingInv
<1>4. ASSUME NEW u \in Users, NEW s \in Sections, DeleteSection(u, s) PROVE FilingInv'
  <2> USE <1>4 DEF DeleteSection
  <2>1. ASSUME NEW t \in Tasks
        PROVE  /\ tasks'[t] = NULL <=> tasks[t] = NULL
               /\ tasks[t] # NULL =>
                    /\ tasks'[t].ws = tasks[t].ws /\ tasks'[t].parent = tasks[t].parent
                    /\ tasks'[t].project = tasks[t].project
                    /\ tasks'[t].section = IF tasks[t].section = s THEN NULL ELSE tasks[t].section
    <3>1. CASE tasks[t] = NULL
      BY <3>1
    <3>2. CASE tasks[t] # NULL
      <4>1. tasks[t] \in TaskRow
            /\ tasks'[t] = [tasks[t] EXCEPT !.section = IF @ = s THEN NULL ELSE @]
        BY <1>a, <3>2
      <4>2. tasks'[t] \in TaskRow
        BY <4>1 DEF TaskRow
      <4> QED BY <3>2, <4>1, <4>2 DEF TaskRow
    <3> QED BY <3>1, <3>2
  <2>2. OneLevelOfNesting'
    BY <1>0, <2>1, NestingKept DEF FilingInv
  <2>3. \A q \in Sections \ {s} : sections'[q] = sections[q]
    BY <1>0 DEF TypeOK
  <2>4. \A q \in Sections : sections'[q] # NULL => projects[sections'[q]] # NULL
    BY <1>0 DEF TypeOK, FilingInv, FiledConsistently
  <2>5. ASSUME NEW t \in Tasks, tasks[t] # NULL, tasks'[t].section # NULL
        PROVE  sections'[tasks'[t].section] # NULL /\ sections'[tasks'[t].section] = tasks'[t].project
    BY <1>a, <2>1, <2>3, <2>5 DEF TaskRow
  <2>6. FiledConsistently'
    BY <1>a, <2>1, <2>4, <2>5 DEF FilingInv, FiledConsistently, LiveTasks
  <2> QED BY <1>0, <2>2, <2>6 DEF FilingInv
<1> QED BY <1>1, <1>2, <1>3, <1>4 DEF ProjectSteps

\* Renaming or reassigning a status moves no task.
LEMMA RenamedStays ==
  ASSUME TypeOK, NEW w \in Workspaces, NEW n \in Names, NEW m \in Names,
         tasks' = Renamed(w, n, m), NEW t \in Tasks
  PROVE  SamePlace(t)
<1>1. CASE tasks[t] # NULL /\ tasks[t].ws = w /\ tasks[t].status = n
  <2>1. tasks[t] \in TaskRow /\ tasks'[t] = [tasks[t] EXCEPT !.status = m]
    BY <1>1 DEF TypeOK, Renamed
  <2>2. tasks'[t] \in TaskRow
    BY <2>1 DEF TaskRow
  <2> QED BY <1>1, <2>1, <2>2 DEF SamePlace, TaskRow
<1>2. CASE ~(tasks[t] # NULL /\ tasks[t].ws = w /\ tasks[t].status = n)
  BY <1>2 DEF SamePlace, Renamed
<1> QED BY <1>1, <1>2

\* Editing the workflow moves no task.
LEMMA WorkflowStepsFiling == ASSUME FilingInv, WorkflowSteps PROVE FilingInv'
<1>0. TypeOK /\ TypeOK'
  BY WorkflowStepsType DEF FilingInv
<1>a. \A v \in Workspaces, k \in Names : statuses[v][k] # NULL => v \in workspaces
  BY DEF FilingInv, FiledConsistently
<1> SUFFICES ASSUME NEW u \in Users, NEW w \in Workspaces, NEW n \in CallerNames,
                    \/ \E done \in BOOLEAN : CreateStatus(u, w, n, done)
                    \/ \E m \in CallerNames, done \in BOOLEAN \cup {ABSENT},
                          default \in DefaultArgs \cup {ABSENT} :
                         UpdateStatus(u, w, n, m, done, default)
                    \/ \E m \in CallerNames \cup {NULL} : DeleteStatus(u, w, n, m)
             PROVE FilingInv'
  BY DEF WorkflowSteps
<1>1. w \in workspaces /\ UNCHANGED <<workspaces, projects, sections>>
  BY DEF CreateStatus, UpdateStatus, DeleteStatus, Manages
<1>2. \A v \in Workspaces \ {w} : statuses'[v] = statuses[v]
  BY <1>0 DEF TypeOK, CreateStatus, UpdateStatus, DeleteStatus
<1>3. \A v \in Workspaces, k \in Names : statuses'[v][k] # NULL => v \in workspaces
  BY <1>a, <1>1, <1>2
<1>4. \A t \in Tasks : SamePlace(t)
  <2>1. ASSUME NEW done \in BOOLEAN, CreateStatus(u, w, n, done), NEW t \in Tasks PROVE SamePlace(t)
    BY <2>1 DEF CreateStatus, SamePlace
  <2>2. ASSUME NEW m \in CallerNames, NEW done \in BOOLEAN \cup {ABSENT},
               NEW default \in DefaultArgs \cup {ABSENT},
               UpdateStatus(u, w, n, m, done, default), NEW t \in Tasks
        PROVE  SamePlace(t)
    BY <1>0, <2>2, RenamedStays DEF UpdateStatus
  <2>3. ASSUME NEW m \in CallerNames \cup {NULL}, DeleteStatus(u, w, n, m), NEW t \in Tasks
        PROVE  SamePlace(t)
    <3>1. CASE InUse(w, n)
      BY <1>0, <2>3, <3>1, RenamedStays DEF DeleteStatus, MayDelete
    <3>2. CASE ~InUse(w, n)
      BY <2>3, <3>2 DEF DeleteStatus, SamePlace
    <3> QED BY <3>1, <3>2
  <2> QED BY <2>1, <2>2, <2>3
<1> QED BY <1>0, <1>1, <1>3, <1>4, NothingMoves

\* The tools move no task either.
LEMMA ToolStepsFiling == ASSUME FilingInv, ToolSteps PROVE FilingInv'
<1>0. TypeOK /\ TypeOK'
  BY ToolStepsType DEF FilingInv
<1>1. UNCHANGED <<workspaces, projects, sections, statuses>>
  BY DEF ToolSteps, ToolUpdateStatus, ToolAssignSelf
<1>2. ASSUME NEW x \in Tasks PROVE SamePlace(x)
  <2>1. ASSUME NEW u \in Users, NEW t \in Tasks, NEW n \in CallerNames, ToolUpdateStatus(u, t, n)
        PROVE  SamePlace(x)
    <3>1. tasks[t] \in TaskRow
      BY <1>0, <2>1 DEF ToolUpdateStatus, TypeOK
    <3>2. x # t => tasks'[x] = tasks[x]
      BY <1>0, <2>1 DEF ToolUpdateStatus, TypeOK
    <3>3. tasks'[t] = [tasks[t] EXCEPT !.status = n, !.completed = IsDone(tasks[t].ws, n)]
      BY <1>0, <2>1, <3>1 DEF ToolUpdateStatus, TypeOK
    <3>4. IsDone(tasks[t].ws, n) \in BOOLEAN
      BY <1>0, <2>1, <3>1 DEF ToolUpdateStatus, IsDone, TypeOK, StatusRow, TaskRow
    <3>5. [tasks[t] EXCEPT !.status = n, !.completed = IsDone(tasks[t].ws, n)] \in TaskRow
      BY <3>1, <3>4 DEF TaskRow
    <3> DEFINE done == IsDone(tasks[t].ws, n)
    <3>6. tasks'[t] = [tasks[t] EXCEPT !.status = n, !.completed = done] /\ tasks'[t] \in TaskRow
      BY <3>3, <3>5
    <3> HIDE DEF done
    <3> QED BY ZenonT(30), <3>1, <3>2, <3>6 DEF SamePlace, TaskRow
  <2>2. ASSUME NEW u \in Users, NEW t \in Tasks, NEW assigned \in BOOLEAN,
               ToolAssignSelf(u, t, assigned) PROVE SamePlace(x)
    <3>1. tasks[t] \in TaskRow
      BY <1>0, <2>2 DEF ToolAssignSelf, TypeOK
    <3>2. x # t => tasks'[x] = tasks[x]
      BY <1>0, <2>2 DEF ToolAssignSelf, TypeOK
    <3> DEFINE members == IF assigned THEN tasks[t].members \cup {u} ELSE tasks[t].members \ {u}
    <3>3. tasks'[t] = [tasks[t] EXCEPT !.members = members]
      BY <1>0, <2>2, <3>1 DEF ToolAssignSelf, TypeOK
    <3>4. [tasks[t] EXCEPT !.members = members] \in TaskRow
      BY <3>1 DEF TaskRow
    <3> HIDE DEF members
    <3> QED BY <3>1, <3>2, <3>3, <3>4 DEF SamePlace, TaskRow
  <2> QED BY <2>1, <2>2 DEF ToolSteps
<1> QED BY <1>0, <1>1, <1>2, NothingMoves DEF FilingInv, FiledConsistently

\* The handlers of tasks check what OneMoves needs.
LEMMA TaskStepsFiling == ASSUME FilingInv, TaskSteps PROVE FilingInv'
<1>0. TypeOK /\ TypeOK'
  BY TaskStepsType DEF FilingInv
<1>1. ASSUME NEW u \in Users, NEW t \in Tasks, NEW w \in workspaces, NEW b \in Bodies(w),
             CreateTask(u, w, t, b) PROVE FilingInv'
  <2> DEFINE nested == b.parent \in Tasks
             project == IF nested THEN tasks[b.parent].project ELSE Given(b.project, NULL)
             section == IF nested THEN NULL ELSE Given(b.section, NULL)
             wanted == Given(b.members, {})
  <2>1. w \in Workspaces
    BY <1>0 DEF TypeOK
  <2>2. PICK s : tasks' = [tasks EXCEPT ![t] =
             [ws |-> w, project |-> project, section |-> section,
              parent |-> Given(b.parent, NULL), status |-> s, completed |-> FALSE,
              members |-> Kept(w, wanted)]]
    BY <1>1 DEF CreateTask
  <2> DEFINE row == [ws |-> w, project |-> project, section |-> section,
                     parent |-> Given(b.parent, NULL), status |-> s, completed |-> FALSE,
                     members |-> Kept(w, wanted)]
  <2>3. row \in TaskRow
    <3>1. tasks'[t] = row
      BY <1>0, <2>2 DEF TypeOK
    <3> QED BY <1>0, <1>1, <3>1, CreateTaskType
  <2>4. project # NULL => projects[project] = w
    <3>1. CASE nested
      <4>1. b.parent \in LiveTasks /\ tasks[b.parent].ws = w
        BY <1>1, <3>1 DEF CreateTask, ParentIn, LiveTasks
      <4> QED BY <3>1, <4>1 DEF FilingInv, FiledConsistently
    <3>2. CASE ~nested
      BY <1>1, <2>1, <3>2, BodyType DEF CreateTask, ProjectIn, Given
    <3> QED BY <3>1, <3>2
  <2>5. section # NULL => ~nested /\ section \in Sections
    BY <2>1, BodyType DEF Given
  <2>6. section # NULL => sections[section] # NULL /\ sections[section] = project
    BY <1>1, <2>5 DEF CreateTask, SectionMatches
  <2>7. Given(b.parent, NULL) # NULL => nested /\ Given(b.parent, NULL) = b.parent
    BY <2>1, BodyType DEF Given
  <2>8. nested => b.parent # t /\ ParentIn(w, b.parent) /\ SubtasksOf(t) = {}
    <3>1. SubtasksOf(t) = {}
      BY <1>0, <1>1 DEF CreateTask, SubtasksOf, FilingInv, OneLevelOfNesting, LiveTasks
    <3> QED BY <1>1, <3>1 DEF CreateTask, ParentIn
  <2>9. row.ws = w /\ row.project = project /\ row.section = section
        /\ row.parent = Given(b.parent, NULL)
    OBVIOUS
  <2>10. tasks[t] = NULL /\ UNCHANGED <<workspaces, projects, sections, statuses>>
    BY <1>1 DEF CreateTask
  <2>11. tasks' = [tasks EXCEPT ![t] = row]
    BY <2>2
  <2> HIDE DEF nested, project, section, row
  <2> QED BY <1>0, <2>3, <2>4, <2>6, <2>7, <2>8, <2>9, <2>10, <2>11, OneMoves
<1>2. ASSUME NEW u \in Users, NEW t \in Tasks, tasks[t] # NULL,
             NEW b \in Bodies(tasks[t].ws), UpdateTask(u, t, b) PROVE FilingInv'
  <2> DEFINE old == tasks[t]
             w == old.ws
             nested == b.parent \in Tasks
             project == IF nested THEN tasks[b.parent].project ELSE Given(b.project, old.project)
             asked == IF nested THEN NULL ELSE b.section
             section == NextSection(old, project, asked)
             parent == Given(b.parent, old.parent)
  <2>1. /\ old \in TaskRow /\ t \in LiveTasks
        /\ w \in Workspaces /\ w \in workspaces
        /\ old.project # NULL => projects[old.project] = w
        /\ old.section # NULL => old.section \in Sections /\ sections[old.section] # NULL
                                 /\ sections[old.section] = old.project
        /\ old.parent # NULL => old.parent \in Tasks /\ ParentIn(w, old.parent)
    BY <1>0, <1>2 DEF FilingInv, FiledConsistently, OneLevelOfNesting, LiveTasks, TypeOK, TaskRow,
                      ParentIn
  <2>2. PICK s, completed, members :
          tasks' = [tasks EXCEPT ![t] =
             [ws |-> w, project |-> project, section |-> section, parent |-> parent, status |-> s,
              completed |-> completed, members |-> members]]
    BY <1>2 DEF UpdateTask
  <2> DEFINE row == [ws |-> w, project |-> project, section |-> section, parent |-> parent,
                     status |-> s, completed |-> completed, members |-> members]
  <2>3. row \in TaskRow
    <3>1. tasks'[t] = row
      BY <1>0, <2>2 DEF TypeOK
    <3> QED BY <1>0, <1>2, <3>1, UpdateTaskType
  <2>4. project # NULL => projects[project] = w
    <3>1. CASE nested
      <4>1. b.parent \in LiveTasks /\ tasks[b.parent].ws = w
        BY <1>2, <3>1 DEF UpdateTask, ParentIn, LiveTasks
      <4> QED BY <3>1, <4>1 DEF FilingInv, FiledConsistently
    <3>2. CASE ~nested
      BY <1>2, <2>1, <3>2, BodyType DEF UpdateTask, ProjectIn, Given
    <3> QED BY <3>1, <3>2
  <2>5. section # NULL => sections[section] # NULL /\ sections[section] = project
    <3>1. CASE asked \in Sections
      <4>1. section = asked /\ ~nested /\ asked = b.section
        BY <3>1 DEF NextSection, Given
      <4> QED BY <1>2, <3>1, <4>1 DEF UpdateTask, SectionMatches
    <3>2. CASE asked = NULL
      BY <3>2 DEF NextSection, Given
    <3>3. CASE asked = ABSENT
      BY <2>1, <3>3 DEF NextSection, Given
    <3> QED BY <2>1, <3>1, <3>2, <3>3, BodyType
  <2>6. parent # NULL => parent # t /\ ParentIn(w, parent) /\ SubtasksOf(t) = {}
    <3>1. CASE nested
      BY <1>2, <3>1 DEF UpdateTask, Given
    <3>2. CASE b.parent = NULL
      BY <3>2 DEF Given
    <3>3. CASE b.parent = ABSENT /\ old.parent # NULL
      <4>1. parent = old.parent /\ old.parent # t
        BY <2>1, <3>3 DEF Given, ParentIn
      <4>2. ASSUME NEW x \in SubtasksOf(t) PROVE FALSE
        BY <2>1, <3>3, <4>2 DEF SubtasksOf, FilingInv, OneLevelOfNesting
      <4> QED BY <2>1, <3>3, <4>1, <4>2
    <3>4. CASE b.parent = ABSENT /\ old.parent = NULL
      BY <3>4 DEF Given
    <3> QED BY <2>1, <3>1, <3>2, <3>3, <3>4, BodyType
  <2>7. row.ws = w /\ row.project = project /\ row.section = section /\ row.parent = parent
    OBVIOUS
  <2>8. UNCHANGED <<workspaces, projects, sections, statuses>>
    BY <1>2 DEF UpdateTask
  <2>9. tasks' = [tasks EXCEPT ![t] = row]
    BY <2>2
  <2>10. tasks[t].ws = w
    OBVIOUS
  <2> HIDE DEF w, nested, project, section, parent, row
  <2> QED BY <1>0, <2>1, <2>3, <2>4, <2>5, <2>6, <2>7, <2>8, <2>9, <2>10, OneMoves
<1>3. ASSUME NEW u \in Users, NEW t \in Tasks, DeleteTask(u, t) PROVE FilingInv'
  <2> USE <1>3 DEF DeleteTask
  <2>1. ASSUME NEW x \in Tasks, tasks'[x] # NULL
        PROVE  tasks'[x] = tasks[x] /\ x \in LiveTasks /\ x # t /\ tasks[x].parent # t
    BY <2>1 DEF SubtasksOf, LiveTasks
  <2>2. OneLevelOfNesting'
    <3> SUFFICES ASSUME NEW x \in Tasks, tasks'[x] # NULL, tasks[x].parent # NULL
                 PROVE  tasks'[tasks[x].parent] = tasks[tasks[x].parent]
      BY <2>1 DEF FilingInv, OneLevelOfNesting, LiveTasks
    <3>1. tasks[x].parent \in Tasks
      BY <1>0, <2>1 DEF TypeOK, LiveTasks, TaskRow
    <3>2. tasks[tasks[x].parent].parent = NULL /\ tasks[x].parent # t
      BY <2>1 DEF FilingInv, OneLevelOfNesting
    <3>3. tasks[x].parent \notin SubtasksOf(t)
      BY <3>2 DEF SubtasksOf
    <3> QED BY <3>1, <3>2, <3>3
  <2>3. FiledConsistently'
    BY <2>1 DEF FilingInv, FiledConsistently, LiveTasks
  <2> QED BY <1>0, <2>2, <2>3 DEF FilingInv
<1> QED BY <1>1, <1>2, <1>3 DEF TaskSteps

\* Neither is inductive alone: the project and section of a sub-task come from
\* its parent.
LEMMA NestedAndFiled == Spec => [](OneLevelOfNesting /\ FiledConsistently)
<1>1. Init => FilingInv
  BY DEF Init, FilingInv, TypeOK, OneLevelOfNesting, FiledConsistently, LiveTasks, Nobody, NoStatuses
<1>2. FilingInv /\ [Next]_vars => FilingInv'
  <2>1. ASSUME FilingInv, UNCHANGED vars PROVE FilingInv'
    BY <2>1 DEF FilingInv, TypeOK, OneLevelOfNesting, FiledConsistently, LiveTasks, vars
  <2> QED BY <2>1, TenancyStepsFiling, ProjectStepsFiling, WorkflowStepsFiling, TaskStepsFiling,
             ToolStepsFiling DEF Next
<1>3. FilingInv => OneLevelOfNesting /\ FiledConsistently
  BY DEF FilingInv
<1> QED BY <1>1, <1>2, <1>3, PTL DEF Spec

\* Sub-tasks nest one level deep in their own workspace, whatever requests, each
\* legal when it is checked, come together (resolveParent, tasks.js).
THEOREM NestingCorrect == Spec => []OneLevelOfNesting
BY NestedAndFiled, PTL

\* Every task is filed under a project of its workspace and a section of that
\* project, whatever people move, delete or leave, in whatever order (tasks.js,
\* projects.js, sections.js and the cascades of schema.sql).
THEOREM FilingCorrect == Spec => []FiledConsistently
BY NestedAndFiled, PTL

------------------------------------------------------------------------------
(* The workflow.                                                           *)

\* The table of a new workspace.
LEMMA SeededDefault == SomeStatus(Seeded) /\ OneDefault(Seeded)
<1>1. /\ Seeded[NotStarted] = [done |-> FALSE, default |-> TRUE]
      /\ Seeded[InProgress] = [done |-> FALSE, default |-> FALSE]
      /\ Seeded[Done] = [done |-> TRUE, default |-> FALSE]
      /\ \A n \in Names \ {NotStarted, InProgress, Done} : Seeded[n] = NULL
  BY DEF Seeded, NoStatuses
<1>2. Seeded[NotStarted] \in StatusRow
  BY <1>1 DEF StatusRow
<1>3. NotStarted \in Names /\ Seeded[NotStarted] # NULL
  BY <1>2
<1>4. ASSUME NEW k \in Names, Seeded[k] # NULL PROVE Seeded[k].default <=> k = NotStarted
  BY <1>1, <1>4
<1> QED BY <1>3, <1>4 DEF SomeStatus, OneDefault

\* A handler of statuses keeps a default in the table of its workspace.
LEMMA WorkflowStepsDefault ==
  ASSUME TypeOK, OneDefaultStatus, WorkflowSteps PROVE OneDefaultStatus'
<1> SUFFICES ASSUME NEW u \in Users, NEW w \in Workspaces, NEW n \in CallerNames,
                    \/ \E done \in BOOLEAN : CreateStatus(u, w, n, done)
                    \/ \E m \in CallerNames, done \in BOOLEAN \cup {ABSENT},
                          default \in DefaultArgs \cup {ABSENT} :
                         UpdateStatus(u, w, n, m, done, default)
                    \/ \E m \in CallerNames \cup {NULL} : DeleteStatus(u, w, n, m)
             PROVE OneDefaultStatus'
  BY DEF WorkflowSteps
<1>1. w \in workspaces /\ workspaces' = workspaces
  BY DEF CreateStatus, UpdateStatus, DeleteStatus, Manages
<1>2. \A v \in Workspaces \ {w} : statuses'[v] = statuses[v]
  BY DEF TypeOK, CreateStatus, UpdateStatus, DeleteStatus
<1> DEFINE table == statuses[w]
           next == statuses'[w]
<1>3. table \in [Names -> StatusRow \cup {NULL}]
  BY DEF TypeOK
<1>4. SomeStatus(table) /\ (FALSE \notin DefaultArgs => OneDefault(table))
  BY <1>1 DEF OneDefaultStatus
<1>5. ASSUME NEW done \in BOOLEAN, CreateStatus(u, w, n, done)
      PROVE  SomeStatus(next) /\ (FALSE \notin DefaultArgs => OneDefault(next))
  <2>1. next = [table EXCEPT ![n] = [done |-> done, default |-> FALSE]] /\ table[n] = NULL
    BY <1>5 DEF CreateStatus, TypeOK
  <2>2. [done |-> done, default |-> FALSE] \in StatusRow
    BY DEF StatusRow
  <2>0. n \in Names
    OBVIOUS
  <2> HIDE DEF table, next
  <2>6. next[n] = [done |-> done, default |-> FALSE]
    BY <1>3, <2>0, <2>1
  <2>7. next[n].default = FALSE /\ next[n] # NULL
    <3>1. next[n].default = FALSE
      BY <2>6
    <3>2. next[n] # NULL
      BY <2>2, <2>6
    <3> QED BY <3>1, <3>2
  <2>3. next[n] # NULL /\ \A k \in Names \ {n} : next[k] = table[k]
    BY <1>3, <2>1, <2>7
  <2>4. SomeStatus(next)
    BY <2>3 DEF SomeStatus
  <2>5. ASSUME OneDefault(table) PROVE OneDefault(next)
    BY <2>1, <2>3, <2>5, <2>7 DEF OneDefault
  <2> QED BY <1>4, <2>4, <2>5
<1>6. ASSUME NEW m \in CallerNames, NEW done \in BOOLEAN \cup {ABSENT},
             NEW default \in DefaultArgs \cup {ABSENT}, UpdateStatus(u, w, n, m, done, default)
      PROVE  SomeStatus(next) /\ (FALSE \notin DefaultArgs => OneDefault(next))
  <2> DEFINE Edited == [done |-> IF done = ABSENT THEN table[n].done ELSE done,
                        default |-> IF default = ABSENT THEN table[n].default ELSE default]
  <2>1. table[n] \in StatusRow /\ (m # n => table[m] = NULL)
    BY <1>3, <1>6 DEF UpdateStatus
  <2>2. Edited \in StatusRow
    BY <2>1 DEF StatusRow
  <2>3. next = [k \in Names |-> CASE k = m -> Edited
                                  [] k = n /\ k # m -> NULL
                                  [] k \notin {n, m} -> OthersOf(table[k], default)]
    BY <1>6 DEF UpdateStatus, TypeOK
  <2>4. /\ next[m] = Edited
        /\ m # n => next[n] = NULL
        /\ \A k \in Names \ {n, m} : next[k] = OthersOf(table[k], default)
    BY <2>3
  <2>5. Edited.default = IF default = ABSENT THEN table[n].default ELSE default
    OBVIOUS
  <2> HIDE DEF table, next, Edited
  <2>6. SomeStatus(next)
    BY <2>2, <2>4 DEF SomeStatus
  <2>7. ASSUME FALSE \notin DefaultArgs, OneDefault(table) PROVE OneDefault(next)
    <3>1. PICK d \in Names : table[d] # NULL
                             /\ \A k \in Names : table[k] # NULL => (table[k].default <=> k = d)
      BY <2>7 DEF OneDefault
    <3>2. CASE default = ABSENT
      <4>1. \A k \in Names \ {n, m} : next[k] = table[k]
        BY <2>4, <3>2 DEF OthersOf
      <4>2. next[m] # NULL /\ (next[m].default <=> n = d)
        BY <2>1, <2>2, <2>4, <2>5, <3>1, <3>2
      <4>3. CASE n = d
        <5>1. \A k \in Names : next[k] # NULL => (next[k].default <=> k = m)
          BY <2>4, <3>1, <4>1, <4>2, <4>3
        <5> QED BY <4>2, <5>1 DEF OneDefault
      <4>4. CASE n # d
        <5>1. d # m
          BY <2>1, <3>1, <4>4
        <5>2. next[d] # NULL /\ \A k \in Names : next[k] # NULL => (next[k].default <=> k = d)
          BY <2>4, <3>1, <4>1, <4>2, <4>4, <5>1
        <5> QED BY <5>2 DEF OneDefault
      <4> QED BY <4>3, <4>4
    <3>3. CASE default # ABSENT
      <4>1. default = TRUE
        BY <2>7, <3>3
      <4>2. next[m] # NULL /\ next[m].default
        BY <2>2, <2>4, <2>5, <4>1
      <4>3. ASSUME NEW k \in Names, k # m, next[k] # NULL PROVE next[k].default = FALSE
        <5>1. k \notin {n, m} /\ next[k] = OthersOf(table[k], default)
          BY <2>4, <4>3
        <5>2. table[k] \in StatusRow
          BY <1>3, <4>3, <5>1 DEF OthersOf, table
        <5>3. next[k] = [table[k] EXCEPT !.default = FALSE]
          BY <4>1, <4>3, <5>1, <5>2 DEF OthersOf
        <5> QED BY <5>2, <5>3 DEF StatusRow
      <4> QED BY <4>2, <4>3 DEF OneDefault
    <3> QED BY <3>2, <3>3
  <2> QED BY <1>4, <2>6, <2>7
<1>7. ASSUME NEW m \in CallerNames \cup {NULL}, DeleteStatus(u, w, n, m)
      PROVE  SomeStatus(next) /\ (FALSE \notin DefaultArgs => OneDefault(next))
  <2>1. OtherStatus(w, n)
    BY <1>7 DEF DeleteStatus, MayDelete
  <2>2. PICK d \in LiveStatuses(w) \ {n} : next = Without(w, n, d)
    BY <1>7, <2>1 DEF DeleteStatus, TypeOK
  <2>3. d \in Names /\ d # n /\ table[d] \in StatusRow /\ d # NULL /\ table[n] \in StatusRow
    BY <1>3, <1>7, <2>2 DEF LiveStatuses, DeleteStatus
  <2>4. [table[d] EXCEPT !.default = TRUE] \in StatusRow
    BY <2>3 DEF StatusRow
  <2>5. CASE table[n].default
    <3>1. next = [table EXCEPT ![n] = NULL, ![d] = [table[d] EXCEPT !.default = TRUE]]
      BY <1>3, <2>2, <2>3, <2>5 DEF Without
    <3>2. next[n] = NULL /\ next[d] = [table[d] EXCEPT !.default = TRUE]
          /\ \A k \in Names \ {n, d} : next[k] = table[k]
      BY <1>3, <2>3, <3>1
    <3>3. next[d] # NULL /\ next[d].default = TRUE
      BY <2>3, <2>4, <3>2 DEF StatusRow
    <3> HIDE DEF table, next
    <3>4. ASSUME OneDefault(table) PROVE OneDefault(next)
      <4>1. \A k \in Names : table[k] # NULL => (table[k].default <=> k = n)
        BY <2>3, <2>5, <3>4 DEF OneDefault
      <4>2. ASSUME NEW k \in Names, next[k] # NULL PROVE next[k].default <=> k = d
        <5>1. CASE k = d
          BY <3>3, <5>1
        <5>2. CASE k # d
          BY <3>2, <4>1, <4>2, <5>2
        <5> QED BY <5>1, <5>2
      <4> QED BY <2>3, <3>3, <4>2 DEF OneDefault
    <3> QED BY <1>4, <2>3, <3>3, <3>4 DEF SomeStatus
  <2>6. CASE ~table[n].default
    <3>1. next = [table EXCEPT ![n] = NULL]
      BY <2>2, <2>6 DEF Without
    <3>2. next[n] = NULL /\ \A k \in Names \ {n} : next[k] = table[k]
      BY <1>3, <3>1
    <3> HIDE DEF table, next
    <3>3. ASSUME OneDefault(table) PROVE OneDefault(next)
      BY <2>3, <2>6, <3>2, <3>3 DEF OneDefault
    <3> QED BY <1>4, <2>3, <3>2, <3>3 DEF SomeStatus
  <2> QED BY <2>5, <2>6
<1>8. SomeStatus(next) /\ (FALSE \notin DefaultArgs => OneDefault(next))
  BY <1>5, <1>6, <1>7
<1> QED BY <1>1, <1>2, <1>8 DEF TypeOK, OneDefaultStatus

\* A workspace always has a status, and one default as long as requests only
\* ever move the flag: no sequence of renames, deletions and edits loses it.
THEOREM DefaultAlways == Spec => []OneDefaultStatus
<1>1. Init => TypeOK /\ OneDefaultStatus
  BY DEF Init, TypeOK, OneDefaultStatus, Nobody, NoStatuses
<1>2. TypeOK /\ OneDefaultStatus /\ [Next]_vars => OneDefaultStatus'
  <2> SUFFICES ASSUME TypeOK, OneDefaultStatus, [Next]_vars PROVE OneDefaultStatus'
    OBVIOUS
  <2>1. CASE TenancySteps
    <3>1. ASSUME NEW u \in Users, NEW w \in Workspaces, CreateWorkspace(u, w) PROVE OneDefaultStatus'
      <4>1. workspaces' = workspaces \cup {w} /\ statuses'[w] = Seeded
            /\ \A v \in Workspaces \ {w} : statuses'[v] = statuses[v]
        BY <3>1 DEF CreateWorkspace, TypeOK
      <4> QED BY <4>1, SeededDefault DEF TypeOK, OneDefaultStatus
    <3>2. ASSUME NEW u \in Users, NEW w \in Workspaces, DeleteWorkspace(u, w) PROVE OneDefaultStatus'
      <4>1. workspaces' = workspaces \ {w}
            /\ \A v \in Workspaces \ {w} : statuses'[v] = statuses[v]
        BY <3>2 DEF DeleteWorkspace, TypeOK
      <4> QED BY <4>1 DEF TypeOK, OneDefaultStatus
    <3>3. ASSUME UNCHANGED <<workspaces, statuses>> PROVE OneDefaultStatus'
      BY <3>3 DEF OneDefaultStatus
    <3> QED BY <2>1, <3>1, <3>2, <3>3 DEF TenancySteps, MembershipChanges, AccountDeleted
  <2>2. CASE WorkflowSteps
    BY <2>2, WorkflowStepsDefault
  <2>3. ASSUME UNCHANGED <<workspaces, statuses>> PROVE OneDefaultStatus'
    BY <2>3 DEF OneDefaultStatus
  <2>4. CASE ProjectSteps
    BY <2>3, <2>4 DEF ProjectSteps, CreateProject, DeleteProject, CreateSection, DeleteSection
  <2>5. CASE TaskSteps
    BY <2>3, <2>5 DEF TaskSteps, CreateTask, UpdateTask, DeleteTask
  <2>6. CASE ToolSteps
    BY <2>3, <2>6 DEF ToolSteps, ToolUpdateStatus, ToolAssignSelf
  <2> QED BY <2>1, <2>2, <2>3, <2>4, <2>5, <2>6 DEF Next, vars
<1>3. Spec => []TypeOK
  BY TasksTypeCorrect
<1> QED BY <1>1, <1>2, <1>3, PTL DEF Spec

\* A status name is one of the workspace of a task.
Known(w, n) == n \in Names /\ statuses[w][n] # NULL

\* Renaming or deleting a status takes the tasks that have it along.
LEMMA WorkflowStepsStatus ==
  ASSUME FilingInv, ~StaleNames, StatusExists, WorkflowSteps PROVE StatusExists'
<1>0. TypeOK /\ TypeOK'
  BY WorkflowStepsType DEF FilingInv
<1>a. \A t \in Tasks : tasks[t] # NULL =>
        tasks[t] \in TaskRow /\ tasks[t].status \in Names /\ tasks[t].ws \in Workspaces
        /\ statuses[tasks[t].ws][tasks[t].status] # NULL
  BY <1>0 DEF StatusExists, LiveTasks, TypeOK, TaskRow
<1> SUFFICES ASSUME NEW u \in Users, NEW w \in Workspaces, NEW n \in CallerNames,
                    \/ \E done \in BOOLEAN : CreateStatus(u, w, n, done)
                    \/ \E m \in CallerNames, done \in BOOLEAN \cup {ABSENT},
                          default \in DefaultArgs \cup {ABSENT} :
                         UpdateStatus(u, w, n, m, done, default)
                    \/ \E m \in CallerNames \cup {NULL} : DeleteStatus(u, w, n, m),
                    NEW t \in Tasks, tasks'[t] # NULL
             PROVE  statuses'[tasks'[t].ws][tasks'[t].status] # NULL
  BY DEF WorkflowSteps, StatusExists, LiveTasks
<1>1. \A v \in Workspaces \ {w} : statuses'[v] = statuses[v]
  BY <1>0 DEF TypeOK, CreateStatus, UpdateStatus, DeleteStatus
<1>2. ASSUME NEW done \in BOOLEAN, CreateStatus(u, w, n, done)
      PROVE  statuses'[tasks'[t].ws][tasks'[t].status] # NULL
  <2>1. tasks' = tasks /\ \A k \in Names : statuses[w][k] # NULL => statuses'[w][k] = statuses[w][k]
    BY <1>0, <1>2 DEF CreateStatus, TypeOK
  <2> QED BY <1>a, <1>1, <2>1
<1>3. ASSUME NEW m \in CallerNames, tasks' = Renamed(w, n, m), statuses'[w][m] # NULL,
             \A k \in Names \ {n} : statuses[w][k] # NULL => statuses'[w][k] # NULL
      PROVE  statuses'[tasks'[t].ws][tasks'[t].status] # NULL
  <2>1. tasks[t] # NULL /\ tasks'[t] = IF tasks[t].ws = w /\ tasks[t].status = n
                                       THEN [tasks[t] EXCEPT !.status = m] ELSE tasks[t]
    BY <1>3 DEF Renamed
  <2>2. CASE tasks[t].ws = w /\ tasks[t].status = n
    <3>1. tasks'[t].ws = w /\ tasks'[t].status = m
      BY <1>a, <2>1, <2>2 DEF TaskRow
    <3> QED BY <1>3, <3>1
  <2>3. CASE ~(tasks[t].ws = w /\ tasks[t].status = n)
    BY <1>a, <1>1, <1>3, <2>1, <2>3
  <2> QED BY <2>2, <2>3
<1>4. ASSUME NEW m \in CallerNames, NEW done \in BOOLEAN \cup {ABSENT},
             NEW default \in DefaultArgs \cup {ABSENT}, UpdateStatus(u, w, n, m, done, default)
      PROVE  statuses'[tasks'[t].ws][tasks'[t].status] # NULL
  <2> DEFINE edited == [done |-> IF done = ABSENT THEN statuses[w][n].done ELSE done,
                        default |-> IF default = ABSENT THEN statuses[w][n].default ELSE default]
  <2>1. statuses[w] \in [Names -> StatusRow \cup {NULL}] /\ statuses[w][n] \in StatusRow
    BY <1>0, <1>4 DEF TypeOK, UpdateStatus
  <2>2. edited \in StatusRow
    BY <2>1 DEF StatusRow
  <2>3. statuses'[w] = [k \in Names |-> CASE k = m -> edited
                                          [] k = n /\ k # m -> NULL
                                          [] k \notin {n, m} -> OthersOf(statuses[w][k], default)]
    BY <1>0, <1>4 DEF UpdateStatus, TypeOK
  <2> HIDE DEF edited
  <2>4. statuses'[w][m] = edited
        /\ \A k \in Names \ {n, m} : statuses'[w][k] = OthersOf(statuses[w][k], default)
    BY <2>3
  <2>5. ASSUME NEW k \in Names, statuses[w][k] # NULL PROVE OthersOf(statuses[w][k], default) # NULL
    <3>1. statuses[w][k] \in StatusRow
      BY <2>1, <2>5
    <3>2. [statuses[w][k] EXCEPT !.default = FALSE] \in StatusRow
      BY <3>1 DEF StatusRow
    <3> QED BY <3>1, <3>2 DEF OthersOf
  <2>6. statuses'[w][m] # NULL
    BY <2>2, <2>4
  <2>7. \A k \in Names \ {n} : statuses[w][k] # NULL => statuses'[w][k] # NULL
    BY <2>4, <2>5, <2>6
  <2>8. tasks' = Renamed(w, n, m)
    BY <1>4 DEF UpdateStatus
  <2> QED BY <1>3, <2>6, <2>7, <2>8
<1>5. ASSUME NEW m \in CallerNames \cup {NULL}, DeleteStatus(u, w, n, m)
      PROVE  statuses'[tasks'[t].ws][tasks'[t].status] # NULL
  <2>1. OtherStatus(w, n)
    BY <1>5 DEF DeleteStatus, MayDelete
  <2>2. PICK d \in LiveStatuses(w) \ {n} : statuses'[w] = Without(w, n, d)
    BY <1>0, <1>5, <2>1 DEF DeleteStatus, TypeOK
  <2>3. d \in Names /\ d # n /\ statuses[w][d] \in StatusRow
        /\ statuses[w] \in [Names -> StatusRow \cup {NULL}]
    BY <1>0, <2>2 DEF LiveStatuses, TypeOK
  <2>4. [statuses[w][d] EXCEPT !.default = TRUE] \in StatusRow
    BY <2>3 DEF StatusRow
  <2>5. ASSUME NEW k \in Names \ {n}, statuses[w][k] # NULL PROVE statuses'[w][k] # NULL
    <3>1. CASE statuses[w][n].default /\ d # NULL
      <4>1. statuses'[w] = [statuses[w] EXCEPT ![n] = NULL,
                                               ![d] = [statuses[w][d] EXCEPT !.default = TRUE]]
        BY <2>2, <2>3, <3>1 DEF Without
      <4> DEFINE promoted == [statuses[w][d] EXCEPT !.default = TRUE]
      <4>2. promoted # NULL
        BY <2>4
      <4> HIDE DEF promoted
      <4>3. CASE k = d
        BY <2>3, <4>1, <4>2, <4>3 DEF promoted
      <4>4. CASE k # d
        BY <2>3, <2>5, <4>1, <4>4
      <4> QED BY <4>3, <4>4
    <3>2. CASE ~(statuses[w][n].default /\ d # NULL)
      BY <2>2, <2>3, <2>5, <3>2 DEF Without
    <3> QED BY <3>1, <3>2
  <2>6. CASE InUse(w, n)
    <3>1. m \in CallerNames /\ m # n /\ statuses[w][m] # NULL /\ tasks' = Renamed(w, n, m)
      BY <1>5, <2>6 DEF DeleteStatus, MayDelete
    <3> QED BY <1>3, <2>5, <3>1
  <2>7. CASE ~InUse(w, n)
    <3>1. tasks' = tasks
      BY <1>5, <2>7 DEF DeleteStatus
    <3>2. ~(tasks[t].ws = w /\ tasks[t].status = n)
      BY <2>7, <3>1 DEF InUse, LiveTasks
    <3> QED BY <1>a, <1>1, <2>5, <3>1, <3>2
  <2> QED BY <2>6, <2>7
<1> QED BY <1>2, <1>4, <1>5

\* A task handler gives a task a status of its workspace.
LEMMA TaskStepsStatus ==
  ASSUME FilingInv, ~StaleNames, StatusExists, TaskSteps PROVE StatusExists'
<1>0. TypeOK /\ TypeOK'
  BY TaskStepsType DEF FilingInv
<1>a. \A t \in Tasks : tasks[t] # NULL =>
        tasks[t] \in TaskRow /\ Known(tasks[t].ws, tasks[t].status)
  BY <1>0 DEF StatusExists, LiveTasks, TypeOK, TaskRow, Known
<1>b. \A w \in Workspaces : \A n \in DefaultStatuses(w) \cup DoneStatuses(w) : Known(w, n)
  BY DEF DefaultStatuses, DoneStatuses, LiveStatuses, IsDone, Known
<1>c. \A w \in Workspaces : \A b \in Bodies(w) : b.status # ABSENT => Known(w, b.status)
  BY DEF Bodies, Field, Mentioned, Known
<1>1. ASSUME NEW t \in Tasks, NEW w \in Workspaces, statuses' = statuses,
             \A x \in Tasks \ {t} : tasks'[x] = tasks[x],
             tasks'[t].ws = w, Known(w, tasks'[t].status)
      PROVE  StatusExists'
  BY <1>a, <1>1 DEF StatusExists, LiveTasks, Known
<1>2. ASSUME NEW u \in Users, NEW t \in Tasks, NEW w \in workspaces, NEW b \in Bodies(w),
             CreateTask(u, w, t, b) PROVE StatusExists'
  <2>1. w \in Workspaces
    BY <1>0 DEF TypeOK
  <2>2. PICK s \in IF b.status = ABSENT THEN DefaultStatuses(w) ELSE {b.status} :
          \E project, section, members : tasks' = [tasks EXCEPT ![t] =
             [ws |-> w, project |-> project, section |-> section,
              parent |-> Given(b.parent, NULL), status |-> s, completed |-> FALSE,
              members |-> members]]
    BY <1>2 DEF CreateTask
  <2>3. Known(w, s)
    BY <1>b, <1>c, <2>1, <2>2
  <2>4. tasks'[t].ws = w /\ tasks'[t].status = s /\ \A x \in Tasks \ {t} : tasks'[x] = tasks[x]
    BY <1>0, <2>2 DEF TypeOK
  <2> QED BY <1>1, <1>2, <2>1, <2>3, <2>4 DEF CreateTask
<1>3. ASSUME NEW u \in Users, NEW t \in Tasks, tasks[t] # NULL,
             NEW b \in Bodies(tasks[t].ws), UpdateTask(u, t, b) PROVE StatusExists'
  <2> DEFINE w == tasks[t].ws
  <2>1. w \in Workspaces
    BY <1>a, <1>3 DEF TaskRow
  <2>2. PICK s \in NextStatuses(w, tasks[t], b) : \E project, section, parent, completed, members :
          tasks' = [tasks EXCEPT ![t] =
             [ws |-> w, project |-> project, section |-> section, parent |-> parent,
              status |-> s, completed |-> completed, members |-> members]]
    BY <1>3 DEF UpdateTask
  <2>3. Known(w, s)
    BY <1>a, <1>b, <1>c, <1>3, <2>1, <2>2 DEF NextStatuses
  <2>4. tasks'[t].ws = w /\ tasks'[t].status = s /\ \A x \in Tasks \ {t} : tasks'[x] = tasks[x]
    BY <1>0, <2>2 DEF TypeOK
  <2> HIDE DEF w
  <2> QED BY <1>1, <1>3, <2>1, <2>3, <2>4 DEF UpdateTask
<1>4. ASSUME NEW u \in Users, NEW t \in Tasks, DeleteTask(u, t) PROVE StatusExists'
  BY <1>4 DEF DeleteTask, StatusExists, LiveTasks
<1> QED BY <1>2, <1>3, <1>4 DEF TaskSteps

\* When requests name statuses the workspace has at that moment, every task has a
\* status of its workspace, so none drops off the board.
THEOREM StatusAlwaysExists == Spec => []StatusExists
<1> DEFINE Inv == FilingInv /\ StatusExists
<1>1. Init => Inv
  BY DEF Init, FilingInv, TypeOK, OneLevelOfNesting, FiledConsistently, StatusExists, LiveTasks,
         Nobody, NoStatuses
<1>2. Inv /\ [Next]_vars => Inv'
  <2> SUFFICES ASSUME FilingInv, StatusExists, [Next]_vars PROVE Inv'
    OBVIOUS
  <2>0. FilingInv'
    <3>1. ASSUME UNCHANGED vars PROVE FilingInv'
      BY <3>1 DEF FilingInv, TypeOK, OneLevelOfNesting, FiledConsistently, LiveTasks, vars
    <3> QED BY <3>1, TenancyStepsFiling, ProjectStepsFiling, WorkflowStepsFiling, TaskStepsFiling,
               ToolStepsFiling DEF Next
  <2> SUFFICES StatusExists'
    BY <2>0
  <2>1. CASE StaleNames
    BY <2>1 DEF StatusExists
  <2>2. CASE ~StaleNames
    <3>0. \A t \in Tasks : tasks[t] # NULL =>
            tasks[t] \in TaskRow /\ Known(tasks[t].ws, tasks[t].status) /\ tasks[t].ws \in workspaces
      BY <2>2 DEF FilingInv, FiledConsistently, StatusExists, LiveTasks, TypeOK, TaskRow, Known
    <3>1. ASSUME NEW t \in Tasks, tasks'[t] # NULL, tasks[t] # NULL,
                 tasks'[t].ws = tasks[t].ws, tasks'[t].status = tasks[t].status,
                 statuses'[tasks[t].ws] = statuses[tasks[t].ws]
          PROVE  statuses'[tasks'[t].ws][tasks'[t].status] # NULL
      BY <3>0, <3>1 DEF Known
    <3>2. CASE TenancySteps
      <4>1. ASSUME NEW u \in Users, NEW w \in Workspaces, CreateWorkspace(u, w) PROVE StatusExists'
        <5>1. \A t \in Tasks : tasks[t] # NULL => statuses'[tasks[t].ws] = statuses[tasks[t].ws]
          BY <3>0, <4>1 DEF CreateWorkspace, TaskRow, FilingInv, TypeOK
        <5> QED BY <3>1, <4>1, <5>1 DEF CreateWorkspace, StatusExists, LiveTasks
      <4>2. ASSUME NEW u \in Users, NEW w \in Workspaces, DeleteWorkspace(u, w) PROVE StatusExists'
        <5>1. \A t \in Tasks : tasks'[t] # NULL => tasks'[t] = tasks[t] /\ tasks[t].ws # w
          BY <4>2 DEF DeleteWorkspace
        <5>2. \A t \in Tasks : tasks'[t] # NULL => statuses'[tasks[t].ws] = statuses[tasks[t].ws]
          BY <3>0, <4>2, <5>1 DEF DeleteWorkspace, TaskRow, FilingInv, TypeOK
        <5> QED BY <3>1, <5>1, <5>2 DEF StatusExists, LiveTasks
      <4>3. ASSUME NEW u \in Users, NEW w \in Workspaces, NEW r \in RoleArgs,
                   MembershipChanges(w, u, r) PROVE StatusExists'
        BY <4>3 DEF MembershipChanges, StatusExists, LiveTasks
      <4>4. ASSUME NEW a \in Users, NEW u \in Users, AccountDeleted(a, u) PROVE StatusExists'
        <5>1. \A t \in Tasks : tasks'[t] # NULL => tasks[t] # NULL
                /\ tasks'[t].ws = tasks[t].ws /\ tasks'[t].status = tasks[t].status
          BY <3>0, <4>4 DEF AccountDeleted, TaskRow
        <5> QED BY <3>1, <4>4, <5>1 DEF AccountDeleted, StatusExists, LiveTasks
      <4> QED BY <3>2, <4>1, <4>2, <4>3, <4>4 DEF TenancySteps
    <3>3. CASE ProjectSteps
      <4>1. statuses' = statuses
        BY <3>3 DEF ProjectSteps, CreateProject, DeleteProject, CreateSection, DeleteSection
      <4>2. ASSUME NEW t \in Tasks, tasks'[t] # NULL
            PROVE  tasks[t] # NULL /\ tasks'[t].ws = tasks[t].ws /\ tasks'[t].status = tasks[t].status
        <5>1. ASSUME UNCHANGED tasks
              PROVE tasks[t] # NULL /\ tasks'[t].ws = tasks[t].ws /\ tasks'[t].status = tasks[t].status
          BY <4>2, <5>1
        <5>2. ASSUME NEW u \in Users, NEW pr \in Projects, DeleteProject(u, pr)
              PROVE tasks[t] # NULL /\ tasks'[t].ws = tasks[t].ws /\ tasks'[t].status = tasks[t].status
          <6>1. tasks[t] # NULL /\ tasks'[t] = Detached(tasks[t], pr)
            BY <4>2, <5>2 DEF DeleteProject
          <6> QED BY <3>0, <6>1 DEF Detached, TaskRow
        <5>3. ASSUME NEW u \in Users, NEW s \in Sections, DeleteSection(u, s)
              PROVE tasks[t] # NULL /\ tasks'[t].ws = tasks[t].ws /\ tasks'[t].status = tasks[t].status
          <6>1. tasks[t] # NULL /\ tasks'[t] = [tasks[t] EXCEPT !.section = IF @ = s THEN NULL ELSE @]
            BY <4>2, <5>3 DEF DeleteSection
          <6> QED BY <3>0, <6>1 DEF TaskRow
        <5> QED BY <3>3, <5>1, <5>2, <5>3 DEF ProjectSteps, CreateProject, CreateSection
      <4> QED BY <3>1, <4>1, <4>2 DEF StatusExists, LiveTasks
    <3>4. CASE WorkflowSteps
      BY <2>2, <3>4, WorkflowStepsStatus
    <3>5. CASE TaskSteps
      BY <2>2, <3>5, TaskStepsStatus
    <3>6. CASE ToolSteps
      <4>1. statuses' = statuses
        BY <3>6 DEF ToolSteps, ToolUpdateStatus, ToolAssignSelf
      <4>2. ASSUME NEW u \in Users, NEW t \in Tasks, NEW n \in CallerNames, ToolUpdateStatus(u, t, n)
            PROVE  StatusExists'
        <5>1. tasks[t] \in TaskRow /\ Known(tasks[t].ws, n)
          BY <3>0, <4>2 DEF ToolUpdateStatus, Known
        <5>2. \A x \in Tasks \ {t} : tasks'[x] = tasks[x]
          BY <4>2 DEF ToolUpdateStatus, FilingInv, TypeOK
        <5>3. tasks'[t].ws = tasks[t].ws /\ tasks'[t].status = n
          BY <4>2, <5>1 DEF ToolUpdateStatus, FilingInv, TypeOK, TaskRow
        <5> QED BY <3>1, <4>1, <5>1, <5>2, <5>3 DEF StatusExists, LiveTasks, Known
      <4>3. ASSUME NEW u \in Users, NEW t \in Tasks, NEW assigned \in BOOLEAN,
                   ToolAssignSelf(u, t, assigned) PROVE StatusExists'
        <5>1. tasks[t] \in TaskRow
          BY <3>0, <4>3 DEF ToolAssignSelf
        <5>2. \A x \in Tasks \ {t} : tasks'[x] = tasks[x]
          BY <4>3 DEF ToolAssignSelf, FilingInv, TypeOK
        <5>3. tasks'[t].ws = tasks[t].ws /\ tasks'[t].status = tasks[t].status
          BY <4>3, <5>1 DEF ToolAssignSelf, FilingInv, TypeOK, TaskRow
        <5> QED BY <3>0, <3>1, <4>1, <5>1, <5>2, <5>3 DEF StatusExists, LiveTasks, Known
      <4> QED BY <3>6, <4>2, <4>3 DEF ToolSteps
    <3>7. CASE UNCHANGED vars
      BY <3>7 DEF vars, StatusExists, LiveTasks
    <3> QED BY <3>2, <3>3, <3>4, <3>5, <3>6, <3>7 DEF Next
  <2> QED BY <2>1, <2>2
<1> QED BY <1>1, <1>2, PTL DEF Spec


------------------------------------------------------------------------------
(* The timeline.  What one step may add to it.                             *)

\* Who gains or loses an assignment, and by whom.
AssignmentStep ==
  \A t \in Tasks, q \in Users :
    /\ tasks[t] # NULL /\ tasks'[t] # NULL
    /\ (q \in tasks[t].members) # (q \in tasks'[t].members)
    => \E e \in logged' :
         /\ e.task = t /\ e.who = q
         /\ role'[tasks[t].ws][q] # NULL => e.by = q \/ Manages(e.by, tasks[t].ws)

\* What is completed or reopened.
CompletionStep ==
  \A t \in Tasks :
    tasks[t] # NULL /\ tasks'[t] # NULL =>
      /\ tasks'[t].completed # tasks[t].completed <=>
           \E e \in logged' : e.task = t /\ e.type \in {"completed", "reopened"}
      /\ tasks'[t].completed # tasks[t].completed => statuses' = statuses

\* The timeline of a change is of one task and one person; it has an entry for
\* everybody who comes or goes, and one for the completion exactly if that changes.
LEMMA TimelineTells ==
  ASSUME NEW u, NEW t, NEW old, NEW new, NEW asked
  PROVE  /\ \A e \in Timeline(u, t, old, new, asked) : e.task = t /\ e.by = u
         /\ \A q : (q \in new.members /\ q \notin old.members)
                     \/ (q \in old.members /\ q \notin new.members) =>
              \E e \in Timeline(u, t, old, new, asked) : e.who = q
         /\ (\E e \in Timeline(u, t, old, new, asked) : e.type \in {"completed", "reopened"})
              <=> new.completed # old.completed
<1>1. \A e \in Timeline(u, t, old, new, asked) : e.task = t /\ e.by = u
  BY DEF Timeline, Entry
<1>2. ASSUME NEW q, q \in new.members \ old.members
      PROVE  \E e \in Timeline(u, t, old, new, asked) : e.who = q
  <2>1. Entry(t, "assignee_added", u, q) \in Timeline(u, t, old, new, asked)
    BY <1>2 DEF Timeline
  <2> QED BY <2>1 DEF Entry
<1>3. ASSUME NEW q, q \in old.members \ new.members
      PROVE  \E e \in Timeline(u, t, old, new, asked) : e.who = q
  <2>1. Entry(t, "assignee_removed", u, q) \in Timeline(u, t, old, new, asked)
    BY <1>3 DEF Timeline
  <2> QED BY <2>1 DEF Entry
<1>4. ASSUME new.completed # old.completed
      PROVE  \E e \in Timeline(u, t, old, new, asked) : e.type \in {"completed", "reopened"}
  <2>1. Entry(t, IF new.completed THEN "completed" ELSE "reopened", u, NULL)
          \in Timeline(u, t, old, new, asked)
    BY <1>4 DEF Timeline
  <2> QED BY <2>1 DEF Entry
<1>5. ASSUME NEW e \in Timeline(u, t, old, new, asked), e.type \in {"completed", "reopened"}
      PROVE  new.completed # old.completed
  BY <1>5 DEF Timeline, Entry
<1> QED BY <1>1, <1>2, <1>3, <1>4, <1>5

\* A handler that changes one row and logs the change tells what it did, if those
\* who came or went did so by the hand of somebody who may assign them.
LEMMA OneChange ==
  ASSUME TypeOK, NEW u \in Users, NEW t \in Tasks, tasks[t] # NULL,
         NEW row, tasks' = [tasks EXCEPT ![t] = row], NEW asked,
         logged' = Timeline(u, t, tasks[t], tasks'[t], asked),
         statuses' = statuses,
         \A q \in Users : (q \in tasks[t].members) # (q \in row.members) =>
           \/ role'[tasks[t].ws][q] = NULL
           \/ u = q \/ Manages(u, tasks[t].ws)
  PROVE  AssignmentStep /\ CompletionStep
<1>1. tasks'[t] = row /\ \A x \in Tasks : x # t => tasks'[x] = tasks[x]
  BY DEF TypeOK
<1>2. \A e \in logged' : e.task = t /\ e.by = u
  BY TimelineTells
<1>3. \A q : (q \in row.members /\ q \notin tasks[t].members)
               \/ (q \in tasks[t].members /\ q \notin row.members) =>
        \E e \in logged' : e.who = q
  BY <1>1, TimelineTells
<1>4. (\E e \in logged' : e.type \in {"completed", "reopened"})
        <=> row.completed # tasks[t].completed
  BY <1>1, TimelineTells
<1>5. AssignmentStep
  <2> SUFFICES ASSUME NEW x \in Tasks, NEW q \in Users,
                      (q \in tasks[x].members) # (q \in tasks'[x].members)
               PROVE  \E e \in logged' :
                        /\ e.task = x /\ e.who = q
                        /\ role'[tasks[x].ws][q] # NULL => e.by = q \/ Manages(e.by, tasks[x].ws)
    BY DEF AssignmentStep
  <2>1. x = t
    BY <1>1
  <2>2. PICK e \in logged' : e.who = q
    BY <1>1, <1>3, <2>1
  <2> QED BY <1>1, <1>2, <2>1, <2>2
<1>6. CompletionStep
  BY <1>1, <1>2, <1>4 DEF CompletionStep
<1> QED BY <1>5, <1>6

\* A handler that logs nothing of the kind leaves members and completion alone.
LEMMA NothingTold ==
  ASSUME logged' = {} \/ \E t \in Tasks, u \in Users : logged' = {Entry(t, "created", u, NULL)},
         \A t \in Tasks : tasks[t] # NULL /\ tasks'[t] # NULL =>
           tasks'[t].members = tasks[t].members /\ tasks'[t].completed = tasks[t].completed
  PROVE  AssignmentStep /\ CompletionStep
BY DEF AssignmentStep, CompletionStep, Entry

LEMMA TenancyStepsTold ==
  ASSUME TypeOK, TenancySteps PROVE AssignmentStep /\ CompletionStep
<1>1. ASSUME NEW u \in Users, NEW w \in Workspaces, CreateWorkspace(u, w)
      PROVE  AssignmentStep /\ CompletionStep
  BY <1>1, NothingTold DEF CreateWorkspace
<1>2. ASSUME NEW u \in Users, NEW w \in Workspaces, DeleteWorkspace(u, w)
      PROVE  AssignmentStep /\ CompletionStep
  BY <1>2, NothingTold DEF DeleteWorkspace
<1>3. ASSUME NEW u \in Users, NEW w \in Workspaces, NEW r \in RoleArgs, MembershipChanges(w, u, r)
      PROVE  AssignmentStep /\ CompletionStep
  BY <1>3, NothingTold DEF MembershipChanges
<1>4. ASSUME NEW a \in Users, NEW u \in Users, AccountDeleted(a, u)
      PROVE  AssignmentStep /\ CompletionStep
  <2>1. ASSUME NEW t \in Tasks, tasks[t] # NULL
        PROVE  /\ tasks'[t].members = tasks[t].members \ {u}
               /\ tasks'[t].completed = tasks[t].completed
               /\ tasks[t].ws \in Workspaces
    <3>1. tasks[t] \in TaskRow
      BY <2>1 DEF TypeOK
    <3>2. tasks'[t] = [tasks[t] EXCEPT !.members = @ \ {u}]
      BY <1>4, <2>1 DEF AccountDeleted
    <3> QED BY <3>1, <3>2 DEF TaskRow
  <2>2. \A e \in logged' : e.type = "assignee_removed"
    BY <1>4 DEF AccountDeleted, Entry
  <2>3. ASSUME NEW t \in Tasks, tasks[t] # NULL, u \in tasks[t].members
        PROVE  \E e \in logged' : e.task = t /\ e.who = u
    <3>1. Entry(t, "assignee_removed", a, u) \in logged'
      BY <1>4, <2>3 DEF AccountDeleted, LiveTasks
    <3> QED BY <3>1 DEF Entry
  <2>4. \A w \in Workspaces : role'[w][u] = NULL
    BY <1>4 DEF AccountDeleted, TypeOK
  <2> QED BY <2>1, <2>2, <2>3, <2>4 DEF AssignmentStep, CompletionStep
<1> QED BY <1>1, <1>2, <1>3, <1>4 DEF TenancySteps

LEMMA ProjectStepsTold ==
  ASSUME TypeOK, ProjectSteps PROVE AssignmentStep /\ CompletionStep
<1>1. ASSUME NEW u \in Users, NEW w \in Workspaces, NEW pr \in Projects, CreateProject(u, w, pr)
      PROVE  AssignmentStep /\ CompletionStep
  BY <1>1, NothingTold DEF CreateProject
<1>2. ASSUME NEW u \in Users, NEW pr \in Projects, DeleteProject(u, pr)
      PROVE  AssignmentStep /\ CompletionStep
  <2>1. ASSUME NEW row \in TaskRow
        PROVE  Detached(row, pr).members = row.members /\ Detached(row, pr).completed = row.completed
    BY DEF Detached, TaskRow
  <2> QED BY <1>2, <2>1, NothingTold DEF DeleteProject, TypeOK
<1>3. ASSUME NEW u \in Users, NEW pr \in Projects, NEW s \in Sections, CreateSection(u, pr, s)
      PROVE  AssignmentStep /\ CompletionStep
  BY <1>3, NothingTold DEF CreateSection
<1>4. ASSUME NEW u \in Users, NEW s \in Sections, DeleteSection(u, s)
      PROVE  AssignmentStep /\ CompletionStep
  <2>1. ASSUME NEW row \in TaskRow, NEW new,
               new = [row EXCEPT !.section = IF @ = s THEN NULL ELSE @]
        PROVE  new.members = row.members /\ new.completed = row.completed
    BY <2>1 DEF TaskRow
  <2> QED BY <1>4, <2>1, NothingTold DEF DeleteSection, TypeOK
<1> QED BY <1>1, <1>2, <1>3, <1>4 DEF ProjectSteps

LEMMA WorkflowStepsTold ==
  ASSUME TypeOK, WorkflowSteps PROVE AssignmentStep /\ CompletionStep
<1>1. ASSUME NEW w, NEW n, NEW m, tasks' \in {tasks, Renamed(w, n, m)}, logged' = {}
      PROVE  AssignmentStep /\ CompletionStep
  <2>1. ASSUME NEW row \in TaskRow, NEW new, new = [row EXCEPT !.status = m]
        PROVE  new.members = row.members /\ new.completed = row.completed
    BY <2>1 DEF TaskRow
  <2> QED BY <1>1, <2>1, NothingTold DEF Renamed, TypeOK
<1>2. ASSUME NEW u \in Users, NEW w \in Workspaces, NEW n \in CallerNames, NEW done \in BOOLEAN,
             CreateStatus(u, w, n, done)
      PROVE  AssignmentStep /\ CompletionStep
  BY <1>2, NothingTold DEF CreateStatus
<1>3. ASSUME NEW u \in Users, NEW w \in Workspaces, NEW n \in CallerNames, NEW m \in CallerNames,
             NEW done \in BOOLEAN \cup {ABSENT}, NEW default \in DefaultArgs \cup {ABSENT},
             UpdateStatus(u, w, n, m, done, default)
      PROVE  AssignmentStep /\ CompletionStep
  BY <1>1, <1>3 DEF UpdateStatus
<1>4. ASSUME NEW u \in Users, NEW w \in Workspaces, NEW n \in CallerNames,
             NEW m \in CallerNames \cup {NULL}, DeleteStatus(u, w, n, m)
      PROVE  AssignmentStep /\ CompletionStep
  BY <1>1, <1>4 DEF DeleteStatus
<1> QED BY <1>2, <1>3, <1>4 DEF WorkflowSteps

\* The check of PATCH counts everybody who comes or goes but the caller, except
\* for those the write then drops for want of a role.
LEMMA UpdateTaskTold ==
  ASSUME TypeOK, NEW u \in Users, NEW t \in Tasks, tasks[t] # NULL,
         NEW b \in Bodies(tasks[t].ws), UpdateTask(u, t, b)
  PROVE  AssignmentStep /\ CompletionStep
<1> DEFINE w == tasks[t].ws
           row == tasks'[t]
<1>1. w \in Workspaces /\ tasks[t] \in TaskRow
  BY DEF TypeOK, TaskRow
<1>2. tasks' = [tasks EXCEPT ![t] = row]
  BY DEF UpdateTask, TypeOK
<1>3. row.members = IF b.members = ABSENT THEN tasks[t].members ELSE Kept(w, b.members)
  BY DEF UpdateTask, TypeOK
<1>4. b.members # ABSENT => MayAssign(u, w, b.members, tasks[t].members)
  BY DEF UpdateTask
<1>5. role' = role /\ statuses' = statuses
      /\ logged' = Timeline(u, t, tasks[t], tasks'[t], b.status)
  BY DEF UpdateTask
<1> HIDE DEF row
<1>6. \A q \in Users : (q \in tasks[t].members) # (q \in row.members) =>
        \/ role'[w][q] = NULL
        \/ u = q \/ Manages(u, w)
  BY <1>3, <1>4, <1>5 DEF MayAssign, Kept
<1> QED BY <1>2, <1>5, <1>6, OneChange

LEMMA TaskStepsTold ==
  ASSUME TypeOK, TaskSteps PROVE AssignmentStep /\ CompletionStep
<1>1. ASSUME NEW u \in Users, NEW t \in Tasks, NEW w \in workspaces, NEW b \in Bodies(w),
             CreateTask(u, w, t, b)
      PROVE  AssignmentStep /\ CompletionStep
  <2>1. tasks[t] = NULL /\ \A x \in Tasks : x # t => tasks'[x] = tasks[x]
    BY <1>1 DEF CreateTask, TypeOK
  <2>2. logged' = {Entry(t, "created", u, NULL)}
    BY <1>1 DEF CreateTask
  <2> QED BY <2>1, <2>2, NothingTold
<1>2. ASSUME NEW u \in Users, NEW t \in Tasks, DeleteTask(u, t)
      PROVE  AssignmentStep /\ CompletionStep
  BY <1>2, NothingTold DEF DeleteTask
<1> QED BY <1>1, <1>2, UpdateTaskTold DEF TaskSteps

LEMMA ToolStepsTold ==
  ASSUME TypeOK, ToolSteps PROVE AssignmentStep /\ CompletionStep
<1>1. ASSUME NEW u \in Users, NEW t \in Tasks, NEW n \in CallerNames, ToolUpdateStatus(u, t, n)
      PROVE  AssignmentStep /\ CompletionStep
  <2> DEFINE row == [tasks[t] EXCEPT !.status = n, !.completed = IsDone(tasks[t].ws, n)]
  <2>1. tasks[t] # NULL /\ tasks[t] \in TaskRow
    BY <1>1 DEF ToolUpdateStatus, TypeOK
  <2>2. tasks' = [tasks EXCEPT ![t] = row] /\ row.members = tasks[t].members
    BY <1>1, <2>1 DEF ToolUpdateStatus, TypeOK, TaskRow
  <2>3. logged' = Timeline(u, t, tasks[t], tasks'[t], n) /\ statuses' = statuses
    BY <1>1 DEF ToolUpdateStatus
  <2> HIDE DEF row
  <2> QED BY <2>1, <2>2, <2>3, OneChange
<1>2. ASSUME NEW u \in Users, NEW t \in Tasks, NEW assigned \in BOOLEAN,
             ToolAssignSelf(u, t, assigned)
      PROVE  AssignmentStep /\ CompletionStep
  <2> DEFINE members == IF assigned THEN tasks[t].members \cup {u} ELSE tasks[t].members \ {u}
             row == [tasks[t] EXCEPT !.members = members]
  <2>1. tasks[t] # NULL /\ tasks[t] \in TaskRow
    BY <1>2 DEF ToolAssignSelf, TypeOK
  <2>2. tasks' = [tasks EXCEPT ![t] = row]
    BY <1>2, <2>1 DEF ToolAssignSelf, TypeOK
  <2>3. \A q \in Users : (q \in tasks[t].members) # (q \in row.members) => u = q
    BY <2>1 DEF TaskRow
  <2>4. logged' = Timeline(u, t, tasks[t], tasks'[t], ABSENT) /\ statuses' = statuses
    BY <1>2 DEF ToolAssignSelf
  <2> HIDE DEF row
  <2> QED BY <2>1, <2>2, <2>3, <2>4, OneChange
<1> QED BY <1>1, <1>2 DEF ToolSteps

LEMMA EveryStepTold ==
  ASSUME TypeOK, Next PROVE AssignmentStep /\ CompletionStep
BY TenancyStepsTold, ProjectStepsTold, WorkflowStepsTold, TaskStepsTold, ToolStepsTold DEF Next

\* Nobody comes to a task or leaves it without an entry in its timeline, by their
\* own hand or a manager's as long as they have a role in the workspace: in PATCH
\* and the tools, and through departures and deleted accounts (tasks.js 250-262,
\* mcp/server.js).
THEOREM AssignmentsAlwaysRuled == Spec => AssignmentRule
<1>1. TypeOK /\ [Next]_vars => [AssignmentStep]_vars
  BY EveryStepTold
<1> QED BY <1>1, TasksTypeCorrect, PTL DEF Spec, AssignmentRule, AssignmentStep

\* In all three code paths that complete or reopen a task, the timeline says so,
\* and nothing else does; a change of the workflow completes no task (tasks.js
\* 292-322, statuses.js 38-75, mcp/server.js).
THEOREM CompletionsAlwaysLogged == Spec => CompletionIsLogged
<1>1. TypeOK /\ [Next]_vars => [CompletionStep]_vars
  BY EveryStepTold
<1> QED BY <1>1, TasksTypeCorrect, PTL DEF Spec, CompletionIsLogged, CompletionStep
==============================================================================
