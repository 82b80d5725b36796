\* Two accounts, two sessions, one link, two sign-ins that wait for a second
\* factor, one recovery code, restarts anywhere.
SPECIFICATION Spec
CONSTANTS
  NULL = NULL
  Users = {u1, u2}
  SessionIds = {s1, s2}
  Links = {l1}
  Attempts = {a1, a2}
  Codes = {k1}
SYMMETRY Symmetry
INVARIANTS ResetForcesSignIn RecoveryCodeOnce
PROPERTIES SecondFactorShown
