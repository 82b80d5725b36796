\* Accounts, two organizations, the boot seed and an invitation: who may be what,
\* and nothing crosses, outlives what it points at or is left unowned.
SPECIFICATION Spec
CONSTANTS
  NULL = NULL
  Persons = {p1, p2, p3}
  Third = p3
  MaxOrgs = 2
  Workspaces = {w1}
  Projects = {r1}
  InviteIds = {i1}
  GrantRoles = {"owner", "admin", "developer"}
  ActiveArgs = {"true", "false", "zero"}
  AdminEmail = p1
SYMMETRY RowSymmetry
CONSTRAINT ThirdInOneOrg
INVARIANTS OrgHasOwner MembersInOrg InvitesAnchored
PROPERTIES LastAdministratorOnlySteppedDown LastOwnerLeavesOnlyWithAccount OwnershipFromOwners
\* Once MaxOrgs organizations are founded with nobody in them, nothing is left to do.
CHECK_DEADLOCK FALSE
