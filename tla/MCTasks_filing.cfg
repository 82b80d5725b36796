\* Moving tasks between projects, sections and parents while those come and go.
SPECIFICATION Spec
CONSTANTS
  NULL = NULL
  ABSENT = ABSENT
  NotStarted = open
  InProgress = busy
  Done = done
  Users = {u1}
  Workspaces = {w1, w2}
  Projects = {r1, r2}
  Sections = {s1}
  Tasks = {t1, t2, t3}
  Names = {open, busy, done}
  RoleArgs = {}
  CallerNames = {}
  Fields = {"project", "section", "parent"}
  DefaultArgs = {TRUE}
  StaleNames = FALSE
SYMMETRY Symmetry
INVARIANTS OneLevelOfNesting FiledConsistently
