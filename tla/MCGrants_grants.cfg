\* Two authorizations, three access and three refresh tokens, kills anywhere.
SPECIFICATION Spec
CONSTANTS
  NULL = NULL
  Users = {u1, u2}
  Codes = {c1, c2}
  Pats = {p1, p2, p3}
  RefreshIds = {r1, r2, r3}
SYMMETRY Symmetry
INVARIANTS OneLivePair RefreshRenewsItsPair
PROPERTY ImplementsAuthorization
