\* A kill in the middle of a revocation.
SPECIFICATION Spec
CONSTANTS
  NULL = NULL
  Users = {u1}
  Codes = {c1}
  Pats = {p1, p2}
  RefreshIds = {r1, r2}
SYMMETRY Symmetry
INVARIANT RevokedStaysRevoked
