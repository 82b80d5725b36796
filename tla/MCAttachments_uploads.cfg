\* Two accounts upload at once to a task and its sub-task.
SPECIFICATION Spec
CONSTANTS
  NULL = NULL
  Users = {u1, u2}
  Tasks = {t1, t2}
  Files = {f1, f2}
  RoleArgs = {NULL, "developer", "viewer"}
SYMMETRY Symmetry
INVARIANT RowsHaveFiles
PROPERTIES OrphansOnlyFromDeath UploadsByWriters
