-------------------------------- MODULE Tasks --------------------------------
(***************************************************************************)
(* The work itself: projects and their sections, tasks and sub-tasks, the  *)
(* customizable statuses of a workspace and the people assigned.  One      *)
(* action per handler of routes/tasks.js, statuses.js, sections.js and     *)
(* projects.js and per writing tool of mcp/server.js.  Every one of them   *)
(* runs in one turn of the event loop over a synchronous database.         *)
(*                                                                         *)
(* A row that does not exist is NULL; a field missing from a request body  *)
(* is ABSENT.  A status is identified by its name, which is what tasks     *)
(* store.  sort_order is left out: "the first" status of a kind is any one *)
(* of them.  Memberships change as Tenancy describes; here a role is what  *)
(* roleFor answers, and it may change between any two requests.            *)
(***************************************************************************)
EXTENDS Permissions

CONSTANTS
  ABSENT,         \* a field the request body does not have
  Users,
  Workspaces, Projects, Sections, Tasks,   \* bounds: rows of each table alive at once
  Names,          \* bound: status names
  NotStarted, InProgress, Done,            \* the names seeded into a new workspace
  RoleArgs,       \* what a membership may become: roles, or NULL for none
  CallerNames,    \* the status names requests mention
  Fields,         \* bound: the fields of a task that requests carry
  DefaultArgs,    \* what requests send as is_default: the client only ever sends TRUE
  StaleNames      \* whether a request may name a status the workspace does not
                  \* have (any more): a client picks from the list it last loaded

ASSUME SeedsAreNames ==
  /\ {NotStarted, InProgress, Done} \subseteq Names
  /\ NotStarted # InProgress /\ InProgress # Done /\ NotStarted # Done
ASSUME RolesGiven == RoleArgs \subseteq Roles \cup {NULL}
ASSUME NamesMentioned == CallerNames \subseteq Names
ASSUME FlagsAreBoolean ==
  DefaultArgs \subseteq BOOLEAN /\ StaleNames \in BOOLEAN
ASSUME AbsentIsNoValue ==
  /\ NULL \notin Users \cup Workspaces \cup Projects \cup Sections \cup Tasks \cup Names
  /\ ABSENT \notin Projects \cup Sections \cup Tasks \cup Names \cup BOOLEAN \cup {NULL}
  /\ \A S \in SUBSET Users : S # ABSENT

VARIABLES
  role,      \* roleFor: workspace -> user -> role or NULL
  workspaces,\* the workspaces that exist
  projects,  \* projects: id -> workspace or NULL
  sections,  \* sections: id -> project or NULL
  statuses,  \* statuses: workspace -> name -> [done, default] or NULL
  tasks,     \* tasks with task_members: id -> row or NULL
  logged     \* the task_activity rows inserted by the last handler

vars == <<role, workspaces, projects, sections, statuses, tasks, logged>>

StatusRow == [done : BOOLEAN, default : BOOLEAN]

TaskRow ==
  [ws : Workspaces, project : Projects \cup {NULL}, section : Sections \cup {NULL},
   parent : Tasks \cup {NULL}, status : Names, completed : BOOLEAN, members : SUBSET Users]

LogRow ==
  [task : Tasks, type : {"created", "status", "completed", "reopened",
                         "assignee_added", "assignee_removed"},
   by : Users, who : Users \cup {NULL}]

ASSUME NullIsNoTableRow == NULL \notin StatusRow /\ NULL \notin TaskRow

\* Every row has its columns; is_completed is a boolean and a status one of the
\* names, whatever mixture of fields a request carries.
TypeOK ==
  /\ role \in [Workspaces -> [Users -> Roles \cup {NULL}]]
  /\ workspaces \subseteq Workspaces
  /\ projects \in [Projects -> Workspaces \cup {NULL}]
  /\ sections \in [Sections -> Projects \cup {NULL}]
  /\ statuses \in [Workspaces -> [Names -> StatusRow \cup {NULL}]]
  /\ tasks \in [Tasks -> TaskRow \cup {NULL}]
  /\ logged \subseteq LogRow

Nobody == [u \in Users |-> NULL]
NoStatuses == [n \in Names |-> NULL]

Init ==
  /\ role = [w \in Workspaces |-> Nobody]
  /\ workspaces = {}
  /\ projects = [pr \in Projects |-> NULL]
  /\ sections = [s \in Sections |-> NULL]
  /\ statuses = [w \in Workspaces |-> NoStatuses]
  /\ tasks = [t \in Tasks |-> NULL]
  /\ logged = {}

------------------------------------------------------------------------------
(* Permission checks and queries.  A name that ends in a suffix after an    *)
(* underscore is a deliberately wrong variant of the definition after it.   *)

\* requireWorkspace on a writing method: a member, not a viewer.
CanWrite(u, w) == w \in workspaces /\ AtLeast(role[w][u], "developer")
Manages(u, w) == w \in workspaces /\ AtLeast(role[w][u], "manager")

LiveTasks == {t \in Tasks : tasks[t] # NULL}
SubtasksOf_None(t) == {}
SubtasksOf(t) == {x \in LiveTasks : tasks[x].parent = t}

LiveStatuses(w) == {n \in Names : statuses[w][n] # NULL}
IsDone(w, n) == statuses[w][n] # NULL /\ statuses[w][n].done
DoneStatuses(w) == {n \in Names : IsDone(w, n)}

\* defaultStatusName: the default status, or the first one when none is.
DefaultStatuses(w) ==
  LET default == {n \in LiveStatuses(w) : statuses[w][n].default}
  IN  IF default # {} THEN default ELSE LiveStatuses(w)

InUse(w, n) == \E t \in LiveTasks : tasks[t].ws = w /\ tasks[t].status = n

\* requiresManagerForAssignment: only additions and removals of somebody else count.
MayAssign_AddsOnly(u, w, requested, current) ==
  requested \ current \subseteq {u} \/ Manages(u, w)
MayAssign(u, w, requested, current) ==
  (requested \ current) \cup (current \ requested) \subseteq {u} \/ Manages(u, w)

\* setTaskMembers silently drops whoever has no role in the workspace.
Kept(w, requested) == {q \in requested : role[w][q] # NULL}

\* resolveParent: in the workspace, and not a sub-task itself.
ParentIn(w, p) == tasks[p] # NULL /\ tasks[p].ws = w /\ tasks[p].parent = NULL

ProjectIn(w, pr) == pr \in Projects => projects[pr] = w

\* sectionMatchesProject
SectionMatches(s, pr) == s \in Sections => sections[s] # NULL /\ sections[s] = pr

\* The status names a request may carry for a task of w.
Mentioned(w) == {n \in CallerNames : StaleNames \/ statuses[w][n] # NULL}

Entry(t, type, u, who) == [task |-> t, type |-> type, by |-> u, who |-> who]

\* What a change of a row adds to the timeline; a status entry is written only
\* for a status the request itself asks for.
Timeline_NoCompletion(u, t, old, new, asked) ==
  {Entry(t, "status", u, NULL) : n \in {asked} \ {ABSENT, old.status}}
    \cup {Entry(t, "assignee_added", u, q) : q \in new.members \ old.members}
    \cup {Entry(t, "assignee_removed", u, q) : q \in old.members \ new.members}
Timeline(u, t, old, new, asked) ==
  {Entry(t, "status", u, NULL) : n \in {asked} \ {ABSENT, old.status}}
    \cup {Entry(t, IF new.completed THEN "completed" ELSE "reopened", u, NULL) :
            c \in {new.completed} \ {old.completed}}
    \cup {Entry(t, "assignee_added", u, q) : q \in new.members \ old.members}
    \cup {Entry(t, "assignee_removed", u, q) : q \in old.members \ new.members}

------------------------------------------------------------------------------
(* Workspaces and memberships, as Tenancy describes them.                  *)

Seeded ==
  [NoStatuses EXCEPT ![NotStarted] = [done |-> FALSE, default |-> TRUE],
                     ![InProgress] = [done |-> FALSE, default |-> FALSE],
                     ![Done] = [done |-> TRUE, default |-> FALSE]]

\* POST /workspaces: one transaction with seedDefaultWorkflow.
CreateWorkspace(u, w) ==
  /\ w \notin workspaces
  /\ workspaces' = workspaces \cup {w}
  /\ role' = [role EXCEPT ![w] = [Nobody EXCEPT ![u] = "owner"]]
  /\ statuses' = [statuses EXCEPT ![w] = Seeded]
  /\ logged' = {}
  /\ UNCHANGED <<projects, sections, tasks>>

\* DELETE /workspaces/:id: everything in it cascades.
DeleteWorkspace(u, w) ==
  /\ w \in workspaces /\ AtLeast(role[w][u], "owner")
  /\ workspaces' = workspaces \ {w}
  /\ role' = [role EXCEPT ![w] = Nobody]
  /\ projects' = [pr \in Projects |-> IF projects[pr] = w THEN NULL ELSE projects[pr]]
  /\ sections' = [s \in Sections |-> IF sections[s] # NULL /\ projects[sections[s]] = w
                                     THEN NULL ELSE sections[s]]
  /\ statuses' = [statuses EXCEPT ![w] = NoStatuses]
  /\ tasks' = [t \in Tasks |-> IF tasks[t] # NULL /\ tasks[t].ws = w THEN NULL ELSE tasks[t]]
  /\ logged' = {}

\* A membership is granted, changed or removed.  Nothing else is touched: the
\* task_members rows of somebody who leaves stay.
MembershipChanges(w, u, r) ==
  /\ w \in workspaces
  /\ role' = [role EXCEPT ![w][u] = r]
  /\ logged' = {}
  /\ UNCHANGED <<workspaces, projects, sections, statuses, tasks>>

\* DELETE /admin/users/:id by another account: memberships and assignments
\* cascade, after an entry for each task that loses its assignee.
AccountDeleted(a, u) ==
  /\ a # u
  /\ role' = [w \in Workspaces |-> [role[w] EXCEPT ![u] = NULL]]
  /\ tasks' = [t \in Tasks |-> IF tasks[t] = NULL THEN NULL
                               ELSE [tasks[t] EXCEPT !.members = @ \ {u}]]
  /\ logged' = {Entry(t, "assignee_removed", a, u) :
                  t \in {x \in LiveTasks : u \in tasks[x].members}}
  /\ UNCHANGED <<workspaces, projects, sections, statuses>>

------------------------------------------------------------------------------
(* Projects and sections.                                                  *)

\* POST /projects
CreateProject(u, w, pr) ==
  /\ Manages(u, w)
  /\ projects[pr] = NULL
  /\ projects' = [projects EXCEPT ![pr] = w]
  /\ logged' = {}
  /\ UNCHANGED <<role, workspaces, sections, statuses, tasks>>

\* What the foreign keys do to a task whose project or section goes: SET NULL.
Detached(row, pr) ==
  [row EXCEPT !.project = IF @ = pr THEN NULL ELSE @,
              !.section = IF @ # NULL /\ sections[@] = pr THEN NULL ELSE @]

\* DELETE /projects/:id: its sections cascade, its tasks stay without either.
DeleteProject(u, pr) ==
  /\ projects[pr] # NULL /\ Manages(u, projects[pr])
  /\ projects' = [projects EXCEPT ![pr] = NULL]
  /\ sections' = [s \in Sections |-> IF sections[s] = pr THEN NULL ELSE sections[s]]
  /\ tasks' = [t \in Tasks |-> IF tasks[t] = NULL THEN NULL ELSE Detached(tasks[t], pr)]
  /\ logged' = {}
  /\ UNCHANGED <<role, workspaces, statuses>>

\* POST /sections
CreateSection(u, pr, s) ==
  /\ projects[pr] # NULL /\ Manages(u, projects[pr])
  /\ sections[s] = NULL
  /\ sections' = [sections EXCEPT ![s] = pr]
  /\ logged' = {}
  /\ UNCHANGED <<role, workspaces, projects, statuses, tasks>>

\* DELETE /sections/:id: the tasks in it lose their section.
DeleteSection(u, s) ==
  /\ sections[s] # NULL /\ Manages(u, projects[sections[s]])
  /\ sections' = [sections EXCEPT ![s] = NULL]
  /\ tasks' = [t \in Tasks |->
                 IF tasks[t] = NULL THEN NULL
                 ELSE [tasks[t] EXCEPT !.section = IF @ = s THEN NULL ELSE @]]
  /\ logged' = {}
  /\ UNCHANGED <<role, workspaces, projects, statuses>>

------------------------------------------------------------------------------
(* The workflow of a workspace.                                            *)

\* Tasks of w that have status n get status m.
Renamed(w, n, m) ==
  [t \in Tasks |-> IF tasks[t] # NULL /\ tasks[t].ws = w /\ tasks[t].status = n
                   THEN [tasks[t] EXCEPT !.status = m] ELSE tasks[t]]

\* POST /statuses: names are unique in a workspace; never the default.
CreateStatus(u, w, n, done) ==
  /\ Manages(u, w)
  /\ statuses[w][n] = NULL
  /\ statuses' = [statuses EXCEPT ![w][n] = [done |-> done, default |-> FALSE]]
  /\ logged' = {}
  /\ UNCHANGED <<role, workspaces, projects, sections, tasks>>

\* The other statuses when one of them is edited: a new default clears theirs.
OthersOf(row, default) ==
  IF row # NULL /\ default = TRUE THEN [row EXCEPT !.default = FALSE] ELSE row

\* PATCH /statuses/:id, one transaction: rename (n to m, and its tasks with it)
\* and flags.  Tasks already in the status keep their is_completed.
UpdateStatus(u, w, n, m, done, default) ==
  /\ Manages(u, w)
  /\ statuses[w][n] # NULL
  /\ m # n => statuses[w][m] = NULL
  /\ tasks' = Renamed(w, n, m)
  /\ statuses' = [statuses EXCEPT ![w] =
       [k \in Names |->
          CASE k = m -> [done |-> IF done = ABSENT THEN statuses[w][n].done ELSE done,
                         default |-> IF default = ABSENT THEN statuses[w][n].default ELSE default]
            [] k = n /\ k # m -> NULL
            [] k \notin {n, m} -> OthersOf(statuses[w][k], default)]]
  /\ logged' = {}
  /\ UNCHANGED <<role, workspaces, projects, sections>>

\* The checks of DELETE /statuses/:id: another status is named for the tasks
\* that have n, and "at least one status must remain".
OtherStatus(w, n) == LiveStatuses(w) \ {n} # {}
MayDelete_ToItself(w, n, m) ==
  /\ InUse(w, n) => m # NULL /\ statuses[w][m] # NULL
  /\ OtherStatus(w, n)
MayDelete(w, n, m) ==
  /\ InUse(w, n) => m # NULL /\ m # n /\ statuses[w][m] # NULL
  /\ OtherStatus(w, n)

\* The status table without n: if n was the default, d takes over.
Without_NoDefault(w, n, d) == [statuses[w] EXCEPT ![n] = NULL]
Without(w, n, d) ==
  IF statuses[w][n].default /\ d # NULL
  THEN [statuses[w] EXCEPT ![n] = NULL, ![d].default = TRUE]
  ELSE [statuses[w] EXCEPT ![n] = NULL]

\* DELETE /statuses/:id, with reassign_to = m or NULL: refused while tasks have
\* the status and no other status is named for them.
DeleteStatus(u, w, n, m) ==
  /\ Manages(u, w)
  /\ statuses[w][n] # NULL
  /\ MayDelete(w, n, m)
  /\ tasks' = IF InUse(w, n) THEN Renamed(w, n, m) ELSE tasks
  /\ \E d \in IF OtherStatus(w, n) THEN LiveStatuses(w) \ {n} ELSE {NULL} :
       statuses' = [statuses EXCEPT ![w] = Without(w, n, d)]
  /\ logged' = {}
  /\ UNCHANGED <<role, workspaces, projects, sections>>

------------------------------------------------------------------------------
(* Tasks.                                                                  *)

\* A request about a task of w, reduced to the fields the model tells apart.
Field(name, values) == {ABSENT} \cup IF name \in Fields THEN values ELSE {}

Bodies(w) ==
  [project   : Field("project", Projects \cup {NULL}),
   section   : Field("section", Sections \cup {NULL}),
   parent    : Field("parent", Tasks \cup {NULL}),
   status    : Field("status", Mentioned(w)),
   completed : Field("completed", BOOLEAN),
   members   : Field("members", SUBSET Users)]

Given(value, otherwise) == IF value = ABSENT THEN otherwise ELSE value

\* POST /tasks: a sub-task goes to its parent's project and to no section; a
\* given status is taken as it is, and is_completed starts at 0 whatever it is.
CreateTask(u, w, t, b) ==
  LET nested  == b.parent \in Tasks
      project == IF nested THEN tasks[b.parent].project ELSE Given(b.project, NULL)
      section == IF nested THEN NULL ELSE Given(b.section, NULL)
      wanted  == Given(b.members, {})
  IN
  /\ CanWrite(u, w)
  /\ tasks[t] = NULL
  /\ nested => ParentIn(w, b.parent)
  /\ ~nested => ProjectIn(w, project) /\ SectionMatches(section, project)
  /\ MayAssign(u, w, wanted, {})
  /\ \E s \in IF b.status = ABSENT THEN DefaultStatuses(w) ELSE {b.status} :
       tasks' = [tasks EXCEPT ![t] =
         [ws |-> w, project |-> project, section |-> section,
          parent |-> Given(b.parent, NULL), status |-> s, completed |-> FALSE,
          members |-> Kept(w, wanted)]]
  /\ logged' = {Entry(t, "created", u, NULL)}
  /\ UNCHANGED <<role, workspaces, projects, sections, statuses>>

\* The status a task may get: the one asked for; completing without one moves
\* to a done status if there is any; reopening from a done status moves to the
\* default.
NextStatuses(w, old, b) ==
  CASE b.status # ABSENT -> {b.status}
    [] b.status = ABSENT /\ b.completed = TRUE /\ DoneStatuses(w) # {} -> DoneStatuses(w)
    [] b.status = ABSENT /\ b.completed = FALSE /\ IsDone(w, old.status) -> DefaultStatuses(w)
    [] OTHER -> {old.status}

\* Without an explicit flag, is_completed follows the status asked for.
NextCompleted(w, old, b) ==
  CASE b.completed # ABSENT -> b.completed
    [] b.completed = ABSENT /\ b.status # ABSENT -> IsDone(w, b.status)
    [] OTHER -> old.completed

\* The section a moved task keeps: the one asked for, else none when the task
\* changes project.
NextSection_Kept(old, project, asked) == Given(asked, old.section)
NextSection(old, project, asked) ==
  IF project # old.project THEN Given(asked, NULL) ELSE Given(asked, old.section)

\* PATCH /tasks/:id.  Becoming a sub-task takes the parent's project and no section.
UpdateTask(u, t, b) ==
  LET old     == tasks[t]
      w       == old.ws
      nested  == b.parent \in Tasks
      project == IF nested THEN tasks[b.parent].project ELSE Given(b.project, old.project)
      asked   == IF nested THEN NULL ELSE b.section
  IN
  /\ old # NULL /\ CanWrite(u, w)
  /\ b.members # ABSENT => MayAssign(u, w, b.members, old.members)
  /\ nested => b.parent # t /\ ParentIn(w, b.parent) /\ SubtasksOf(t) = {}
  /\ ~nested => ProjectIn(w, b.project) /\ SectionMatches(b.section, project)
  /\ \E s \in NextStatuses(w, old, b) :
       tasks' = [tasks EXCEPT ![t] =
         [ws |-> w, project |-> project, section |-> NextSection(old, project, asked),
          parent |-> Given(b.parent, old.parent), status |-> s,
          completed |-> NextCompleted(w, old, b),
          members |-> IF b.members = ABSENT THEN old.members ELSE Kept(w, b.members)]]
  /\ logged' = Timeline(u, t, old, tasks'[t], b.status)
  /\ UNCHANGED <<role, workspaces, projects, sections, statuses>>

\* DELETE /tasks/:id: a task needs a manager, a sub-task any writer; sub-tasks
\* cascade (there is one level of them).
DeleteTask(u, t) ==
  /\ tasks[t] # NULL /\ CanWrite(u, tasks[t].ws)
  /\ tasks[t].parent = NULL => Manages(u, tasks[t].ws)
  /\ tasks' = [x \in Tasks |-> IF x = t \/ x \in SubtasksOf(t) THEN NULL ELSE tasks[x]]
  /\ logged' = {}
  /\ UNCHANGED <<role, workspaces, projects, sections, statuses>>

------------------------------------------------------------------------------
(* The tools of the MCP server, for the signed-in person.                  *)

\* update_task_status: the name must be one of the workspace's statuses.
ToolUpdateStatus(u, t, n) ==
  LET old == tasks[t] IN
  /\ old # NULL /\ CanWrite(u, old.ws)
  /\ statuses[old.ws][n] # NULL
  /\ tasks' = [tasks EXCEPT ![t].status = n, ![t].completed = IsDone(old.ws, n)]
  /\ logged' = Timeline(u, t, old, tasks'[t], n)
  /\ UNCHANGED <<role, workspaces, projects, sections, statuses>>

\* self_assign_task and self_unassign_task
ToolAssignSelf(u, t, assigned) ==
  LET old == tasks[t] IN
  /\ old # NULL /\ CanWrite(u, old.ws)
  /\ (u \in old.members) # assigned
  /\ tasks' = [tasks EXCEPT ![t].members = IF assigned THEN @ \cup {u} ELSE @ \ {u}]
  /\ logged' = Timeline(u, t, old, tasks'[t], ABSENT)
  /\ UNCHANGED <<role, workspaces, projects, sections, statuses>>

------------------------------------------------------------------------------

TenancySteps ==
  \/ \E u \in Users, w \in Workspaces :
       \/ CreateWorkspace(u, w) \/ DeleteWorkspace(u, w)
       \/ \E r \in RoleArgs : MembershipChanges(w, u, r)
  \/ \E a, u \in Users : AccountDeleted(a, u)

ProjectSteps ==
  \E u \in Users :
    \/ \E w \in Workspaces, pr \in Projects : CreateProject(u, w, pr)
    \/ \E pr \in Projects : DeleteProject(u, pr)
    \/ \E pr \in Projects, s \in Sections : CreateSection(u, pr, s)
    \/ \E s \in Sections : DeleteSection(u, s)

WorkflowSteps ==
  \E u \in Users, w \in Workspaces, n \in CallerNames :
    \/ \E done \in BOOLEAN : CreateStatus(u, w, n, done)
    \/ \E m \in CallerNames, done \in BOOLEAN \cup {ABSENT}, default \in DefaultArgs \cup {ABSENT} :
         UpdateStatus(u, w, n, m, done, default)
    \/ \E m \in CallerNames \cup {NULL} : DeleteStatus(u, w, n, m)

TaskSteps ==
  \E u \in Users, t \in Tasks :
    \/ \E w \in workspaces : \E b \in Bodies(w) : CreateTask(u, w, t, b)
    \/ tasks[t] # NULL /\ \E b \in Bodies(tasks[t].ws) : UpdateTask(u, t, b)
    \/ DeleteTask(u, t)

ToolSteps ==
  \E u \in Users, t \in Tasks :
    \/ \E n \in CallerNames : ToolUpdateStatus(u, t, n)
    \/ \E assigned \in BOOLEAN : ToolAssignSelf(u, t, assigned)

Next == TenancySteps \/ ProjectSteps \/ WorkflowSteps \/ TaskSteps \/ ToolSteps

Spec == Init /\ [][Next]_vars

------------------------------------------------------------------------------
(* Safety.                                                                 *)

\* Sub-tasks nest one level deep and never leave their workspace: a task's
\* parent exists, is in the same workspace and has no parent itself (tasks.js:
\* "Only one level of nesting is allowed").  Two requests, each legal when
\* checked, must not add up to a chain.
OneLevelOfNesting ==
  \A t \in LiveTasks : tasks[t].parent # NULL =>
    LET p == tasks[t].parent
    IN  tasks[p] # NULL /\ tasks[p].ws = tasks[t].ws /\ tasks[p].parent = NULL

\* A task's project is in the task's workspace and its section is a section of
\* that project (tasks.js: "a task's section must match its own project"),
\* however tasks are moved and projects, sections and workspaces deleted; and
\* nothing outlives the workspace or project it belongs to.
FiledConsistently ==
  /\ \A t \in LiveTasks :
       /\ tasks[t].ws \in workspaces
       /\ tasks[t].project # NULL => projects[tasks[t].project] = tasks[t].ws
       /\ tasks[t].section # NULL =>
            sections[tasks[t].section] # NULL /\ sections[tasks[t].section] = tasks[t].project
  /\ \A pr \in Projects : projects[pr] # NULL => projects[pr] \in workspaces
  /\ \A s \in Sections : sections[s] # NULL => projects[sections[s]] # NULL
  /\ \A w \in Workspaces, n \in Names : statuses[w][n] # NULL => w \in workspaces

\* As long as requests name statuses the workspace has, every task has one of
\* them: renaming takes the tasks along and deleting moves them first, so a
\* task never drops off the board.
StatusExists ==
  ~StaleNames => \A t \in LiveTasks : statuses[tasks[t].ws][tasks[t].status] # NULL

SomeStatus(table) == \E n \in Names : table[n] # NULL
OneDefault(table) ==
  \E n \in Names :
    /\ table[n] # NULL
    /\ \A k \in Names : table[k] # NULL => (table[k].default <=> k = n)

\* A workspace always has a status, and exactly one of them is the default
\* when the flag is only ever moved, never switched off.
OneDefaultStatus ==
  \A w \in workspaces :
    /\ SomeStatus(statuses[w])
    /\ FALSE \notin DefaultArgs => OneDefault(statuses[w])

------------------------------------------------------------------------------
(* What a step may never do.                                               *)

\* Whenever somebody gains or loses an assignment of an existing task the
\* timeline says so; and unless it is a person without a role in the workspace
\* (whom any edit drops), the step was that person's own or a manager's.
AssignmentRule ==
  [][ \A t \in Tasks, q \in Users :
        /\ tasks[t] # NULL /\ tasks'[t] # NULL
        /\ (q \in tasks[t].members) # (q \in tasks'[t].members)
        => \E e \in logged' :
             /\ e.task = t /\ e.who = q
             /\ role'[tasks[t].ws][q] # NULL => e.by = q \/ Manages(e.by, tasks[t].ws) ]_vars

\* The timeline has an entry "completed" or "reopened" exactly for the steps
\* that change is_completed, which are steps of a task handler: editing the
\* workflow never completes or reopens a task.
CompletionIsLogged ==
  [][ \A t \in Tasks :
        tasks[t] # NULL /\ tasks'[t] # NULL =>
          /\ tasks'[t].completed # tasks[t].completed <=>
               \E e \in logged' : e.task = t /\ e.type \in {"completed", "reopened"}
          /\ tasks'[t].completed # tasks[t].completed => statuses' = statuses ]_vars
==============================================================================
