\* Two people, one of them the owner for as long as nobody changes that, and a
\* secret that is created, shared, read, deleted and killed in the middle.
SPECIFICATION Spec
CONSTANTS
  NULL = NULL
  Users = {u1, u2}
  Projects = {p1}
  Secrets = {s1}
  RoleArgs = {"manager", "developer", "viewer"}
  Kept = {"viewed", "deleted"}
SYMMETRY Symmetry
INVARIANTS RevealsAreLogged RemovalIsLogged SecretFilesExist
