\* Renaming, adding, deleting and flagging statuses under a task, and who may
\* assign whom while memberships change.
SPECIFICATION Spec
CONSTANTS
  NULL = NULL
  ABSENT = ABSENT
  NotStarted = open
  InProgress = busy
  Done = done
  Users = {u1, u2}
  Workspaces = {w1}
  Projects = {}
  Sections = {}
  Tasks = {t1}
  Names = {open, busy, done}
  RoleArgs = {NULL, "developer"}
  CallerNames = {open, busy, done}
  Fields = {"status", "completed", "members"}
  DefaultArgs = {TRUE}
  StaleNames = FALSE
SYMMETRY Symmetry
INVARIANTS StatusExists OneDefaultStatus
PROPERTIES CompletionIsLogged AssignmentRule
