------------------------------- MODULE MCScreen -------------------------------
(* Finite instance of Screen for TLC.                                      *)
EXTENDS Screen
CONSTANTS u1, u2, w1, w2, w3, w4, p1
MCHomes == [p \in {p1} |-> w1]

\* The second account has a workspace, so that one created from the sidebar is
\* not its first; w3 and w4 are not there at first, ids go up, and workspaces are
\* made only where the accounts do not share the first one.
Existing == UNION {members[u] : u \in Users}
Founded == clicks = 0 => {w3, w4} \cap Existing = {} /\ w1 \in members[u2]
Numbered ==
  /\ w4 \in Existing => w3 \in Existing
  /\ w3 \in Existing => w1 \notin members[u1]
==============================================================================
