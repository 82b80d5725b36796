----------------------------- MODULE Permissions -----------------------------
(***************************************************************************)
(* The five-tier role vocabulary shared by users.role (rank inside the     *)
(* organization) and workspace_members.role (rank inside one workspace):   *)
(* server/src/lib/permissions.js.                                          *)
(***************************************************************************)
EXTENDS Naturals, Null

Roles == {"owner", "admin", "manager", "developer", "viewer"}

Rank == [viewer |-> 0, developer |-> 1, manager |-> 2, admin |-> 3, owner |-> 4]

\* A null role ranks below every minimum (the `?? -1` of the source).
AtLeast(role, min) == role \in Roles /\ Rank[role] >= Rank[min]

\* Roles an invitation or an "add member" call may carry: never owner.
InviteRoles == Roles \ {"owner"}

ASSUME NullIsNoRole == NULL \notin Roles
==============================================================================
