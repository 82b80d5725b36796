------------------------------- MODULE Tenancy -------------------------------
(***************************************************************************)
(* Who belongs where: organizations, accounts, workspaces, memberships,    *)
(* projects with their stakeholders, and the invitations that grant a      *)
(* membership or a stakeholder seat.  One action per HTTP handler of       *)
(* routes/auth.js (register), routes/workspaces.js, routes/invites.js,     *)
(* routes/projects.js and routes/admin.js, plus the boot-time owner seed   *)
(* of db/index.js.  Every handler runs its reads and writes in one turn of *)
(* the event loop over a synchronous database, so it is one step; the only *)
(* handler that a killed process can cut in a visible way is the founding  *)
(* registration, which inserts two rows in two autocommits.                *)
(*                                                                         *)
(* A row that does not exist is NULL.  Accounts are identified by their    *)
(* e-mail address, which the schema keeps unique; every foreign key to a   *)
(* deleted account cascades or is nulled, so a later account under the     *)
(* same address inherits nothing but the pending invitations addressed to  *)
(* it, exactly as in the code.                                             *)
(***************************************************************************)
EXTENDS Permissions

CONSTANTS
  Persons,      \* e-mail addresses people may register with
  MaxOrgs,      \* bound: organizations ever founded (AUTOINCREMENT ids 1..MaxOrgs)
  Workspaces,   \* bound: workspace ids
  Projects,     \* bound: project ids
  InviteIds,    \* bound: invitation rows alive at once
  GrantRoles,   \* the roles callers hand out (a subset of Roles that keeps runs small)
  ActiveArgs,   \* what callers send as is_active: the client sends a JSON boolean;
                \* "zero" stands for the other falsy values a caller may send
  AdminEmail    \* ADMIN_EMAIL of the environment, or NULL when it is not set

ASSUME MaxOrgsIsPos == MaxOrgs \in Nat \ {0}
ASSUME GrantRolesAreRoles == GrantRoles \subseteq Roles
ASSUME ActiveArgsAreJson == ActiveArgs \subseteq {"true", "false", "zero"}
ASSUME AdminEmailIsPerson == AdminEmail \in Persons \cup {NULL}
ASSUME NullIsNoRow ==
  NULL \notin Persons \cup Workspaces \cup Projects \cup InviteIds \cup Nat

VARIABLES
  orgCount,     \* organizations rows: ids 1..orgCount, never deleted
  users,        \* users: e-mail -> [org, role, active] or NULL
  workspaces,   \* workspaces: id -> organization or NULL
  members,      \* workspace_members: id -> e-mail -> role or NULL
  projects,     \* projects: id -> workspace or NULL
  stakeholders, \* project_stakeholders: id -> set of e-mails
  invites       \* invites: id -> row or NULL

vars == <<orgCount, users, workspaces, members, projects, stakeholders, invites>>

Orgs == 1..MaxOrgs

UserRow == [org : Orgs, role : Roles, active : BOOLEAN]

\* `project` is set for a stakeholder invitation only.  `expired` says whether
\* expires_at has passed.
InviteRow ==
  [ws : Workspaces, project : Projects \cup {NULL}, email : Persons,
   role : InviteRoles, status : {"pending", "accepted", "revoked"}, expired : BOOLEAN]

ASSUME NullIsNoRecord == NULL \notin UserRow /\ NULL \notin InviteRow

\* Every row has its columns, every reference is to a row of the right table,
\* roles are of the vocabulary and an invitation never carries rank owner.
TypeOK ==
  /\ orgCount \in 0..MaxOrgs
  /\ users \in [Persons -> UserRow \cup {NULL}]
  /\ workspaces \in [Workspaces -> Orgs \cup {NULL}]
  /\ members \in [Workspaces -> [Persons -> Roles \cup {NULL}]]
  /\ projects \in [Projects -> Workspaces \cup {NULL}]
  /\ stakeholders \in [Projects -> SUBSET Persons]
  /\ invites \in [InviteIds -> InviteRow \cup {NULL}]

Init ==
  /\ orgCount = 0
  /\ users = [p \in Persons |-> NULL]
  /\ workspaces = [w \in Workspaces |-> NULL]
  /\ members = [w \in Workspaces |-> [p \in Persons |-> NULL]]
  /\ projects = [pr \in Projects |-> NULL]
  /\ stakeholders = [pr \in Projects |-> {}]
  /\ invites = [i \in InviteIds |-> NULL]

------------------------------------------------------------------------------
(* Permission checks and queries shared by the handlers.  A name that ends  *)
(* in a suffix after an underscore is a deliberately wrong variant, used    *)
(* to show that a property depends on the check.                            *)

\* requireAuth: the account exists and is active.
SignedIn(p) == users[p] # NULL /\ users[p].active

\* requireAdmin: organization rank owner or admin.
OrgAdmin(p) == SignedIn(p) /\ AtLeast(users[p].role, "admin")

\* The organization's owner has the run of every workspace in it; everybody
\* else has the role of their membership row, if the workspace is in their
\* organization.
RoleFor(p, w) ==
  CASE workspaces[w] = NULL \/ workspaces[w] # users[p].org -> NULL
    [] workspaces[w] = users[p].org /\ users[p].role = "owner" -> "owner"
    [] OTHER -> members[w][p]

Can(p, w, min) == SignedIn(p) /\ workspaces[w] # NULL /\ AtLeast(RoleFor(p, w), min)

\* "Workspace needs at least one owner": the count of owner rows exceeds one,
\* given that p holds one of them.
AnotherWorkspaceOwner_AnyMember(w, p) == \E q \in Persons \ {p} : members[w][q] # NULL
AnotherWorkspaceOwner(w, p) == \E q \in Persons \ {p} : members[w][q] = "owner"

\* "The organization needs at least one owner": inactive owners count too.
AnotherOrgOwner(p) ==
  \E q \in Persons \ {p} :
    users[q] # NULL /\ users[q].org = users[p].org /\ users[q].role = "owner"

\* An existing account may be added to what belongs to w only from inside the
\* organization of w.
SameOrg_Unchecked(p, w) == TRUE
SameOrg(p, w) == users[p].org = workspaces[w]

\* VALID_INVITE_ROLES: anything else becomes "developer".
InviteRoleOf(r) == IF r \in InviteRoles THEN r ELSE "developer"

\* The invitation rows the "(re)issue" lookups match.  The member lookup does
\* not look at project_id.
PendingFor(w, e) ==
  {i \in InviteIds : /\ invites[i] # NULL /\ invites[i].ws = w /\ invites[i].email = e
                     /\ invites[i].status = "pending"}
PendingForProject(pr, e) ==
  {i \in InviteIds : /\ invites[i] # NULL /\ invites[i].project = pr
                     /\ invites[i].email = e /\ invites[i].status = "pending"}

FreeInvite(i) == invites[i] = NULL

NewInvite(w, pr, e, r) ==
  [ws |-> w, project |-> pr, email |-> e, role |-> r, status |-> "pending",
   expired |-> FALSE]

\* A new token and expiry for a pending row: the link mailed earlier is dead.
Reissued(i, r) == [invites[i] EXCEPT !.role = r, !.expired = FALSE]

------------------------------------------------------------------------------
(* Registration and the boot-time seed.                                    *)

NewUser(o, r) == [org |-> o, role |-> r, active |-> TRUE]

\* POST /register with an organization name: found it and own it.
RegisterFounding(p) ==
  /\ users[p] = NULL
  /\ orgCount < MaxOrgs
  /\ orgCount' = orgCount + 1
  /\ users' = [users EXCEPT ![p] = NewUser(orgCount + 1, "owner")]
  /\ UNCHANGED <<workspaces, members, projects, stakeholders, invites>>

\* The process is killed between the two inserts of that handler: the
\* organization stays, nobody is in it.
RegisterFoundingCut(p) ==
  /\ users[p] = NULL
  /\ orgCount < MaxOrgs
  /\ orgCount' = orgCount + 1
  /\ UNCHANGED <<users, workspaces, members, projects, stakeholders, invites>>

\* POST /register with an invite token: only the status is looked at, not the
\* expiry; the membership itself comes from AcceptInvite.
RegisterInvited(p, i) ==
  /\ users[p] = NULL
  /\ invites[i] # NULL /\ invites[i].status = "pending" /\ invites[i].email = p
  /\ workspaces[invites[i].ws] # NULL
  /\ users' = [users EXCEPT ![p] = NewUser(workspaces[invites[i].ws], "developer")]
  /\ UNCHANGED <<orgCount, workspaces, members, projects, stakeholders, invites>>

\* Every boot: the ADMIN_EMAIL account exists and is an owner.  A missing
\* account joins the organization with the lowest id, founded here if there is none.
Boot ==
  /\ AdminEmail # NULL
  /\ \/ /\ users[AdminEmail] = NULL
        /\ orgCount' = IF orgCount = 0 THEN 1 ELSE orgCount
        /\ users' = [users EXCEPT ![AdminEmail] = NewUser(1, "owner")]
     \/ /\ users[AdminEmail] # NULL /\ users[AdminEmail].role # "owner"
        /\ users' = [users EXCEPT ![AdminEmail].role = "owner"]
        /\ UNCHANGED orgCount
  /\ UNCHANGED <<workspaces, members, projects, stakeholders, invites>>

------------------------------------------------------------------------------
(* Workspaces and their members.                                           *)

\* POST /workspaces, one transaction: the row and its first owner.
CreateWorkspace(a, w) ==
  /\ SignedIn(a) /\ users[a].role = "owner"
  /\ workspaces[w] = NULL
  /\ workspaces' = [workspaces EXCEPT ![w] = users[a].org]
  /\ members' = [members EXCEPT ![w][a] = "owner"]
  /\ UNCHANGED <<orgCount, users, projects, stakeholders, invites>>

\* DELETE /workspaces/:id: memberships, projects with their stakeholders and
\* invitations cascade.
DeleteWorkspace(a, w) ==
  /\ Can(a, w, "owner")
  /\ workspaces' = [workspaces EXCEPT ![w] = NULL]
  /\ members' = [members EXCEPT ![w] = [p \in Persons |-> NULL]]
  /\ projects' = [pr \in Projects |-> IF projects[pr] = w THEN NULL ELSE projects[pr]]
  /\ stakeholders' = [pr \in Projects |-> IF projects[pr] = w THEN {} ELSE stakeholders[pr]]
  /\ invites' = [i \in InviteIds |-> IF invites[i] # NULL /\ invites[i].ws = w
                                     THEN NULL ELSE invites[i]]
  /\ UNCHANGED <<orgCount, users>>

\* POST /workspaces/:id/members for an address that has an account.
AddMember(a, w, p, r) ==
  /\ Can(a, w, "admin")
  /\ users[p] # NULL /\ SameOrg(p, w)
  /\ members[w][p] = NULL
  /\ members' = [members EXCEPT ![w][p] = InviteRoleOf(r)]
  /\ UNCHANGED <<orgCount, users, workspaces, projects, stakeholders, invites>>

\* The same for an address without an account: re-issue whatever pending
\* invitation the workspace has for it (new role, token and expiry), or insert one.
InviteMember(a, w, e, r) ==
  /\ Can(a, w, "admin")
  /\ users[e] = NULL
  /\ \/ \E i \in PendingFor(w, e) :
          invites' = [invites EXCEPT ![i] = Reissued(i, InviteRoleOf(r))]
     \/ /\ PendingFor(w, e) = {}
        /\ \E i \in InviteIds :
             /\ FreeInvite(i)
             /\ invites' = [invites EXCEPT ![i] = NewInvite(w, NULL, e, InviteRoleOf(r))]
  /\ UNCHANGED <<orgCount, users, workspaces, members, projects, stakeholders>>

\* Ownership is touched when the row is or becomes an owner's; then only an
\* owner may do it.
RoleNeeded(old, new) == IF "owner" \in {old, new} THEN "owner" ELSE "admin"

\* PATCH /workspaces/:id/members/:userId
ChangeMemberRole(a, w, p, r) ==
  /\ SignedIn(a) /\ workspaces[w] # NULL
  /\ members[w][p] # NULL
  /\ Can(a, w, RoleNeeded(members[w][p], r))
  /\ members[w][p] = "owner" /\ r # "owner" => AnotherWorkspaceOwner(w, p)
  /\ members' = [members EXCEPT ![w][p] = r]
  /\ UNCHANGED <<orgCount, users, workspaces, projects, stakeholders, invites>>

\* DELETE /workspaces/:id/members/:userId: anyone may leave; admins remove
\* others, owners remove owners; the last owner stays.
RemoveMember(a, w, p) ==
  /\ SignedIn(a) /\ workspaces[w] # NULL
  /\ members[w][p] # NULL
  /\ a # p => Can(a, w, RoleNeeded(members[w][p], NULL))
  /\ members[w][p] = "owner" => AnotherWorkspaceOwner(w, p)
  /\ members' = [members EXCEPT ![w][p] = NULL]
  /\ UNCHANGED <<orgCount, users, workspaces, projects, stakeholders, invites>>

------------------------------------------------------------------------------
(* Invitations.                                                            *)

\* DELETE /workspaces/:id/invites/:inviteId, whatever the row's status.
RevokeInvite(a, i) ==
  /\ invites[i] # NULL /\ Can(a, invites[i].ws, "admin")
  /\ invites' = [invites EXCEPT ![i].status = "revoked"]
  /\ UNCHANGED <<orgCount, users, workspaces, members, projects, stakeholders>>

\* Seven days pass.
ExpireInvite(i) ==
  /\ invites[i] # NULL /\ ~invites[i].expired
  /\ invites' = [invites EXCEPT ![i].expired = TRUE]
  /\ UNCHANGED <<orgCount, users, workspaces, members, projects, stakeholders>>

\* POST /invites/:token/accept by the person it is addressed to, from the
\* organization of its workspace: a stakeholder seat or a membership (an
\* existing membership keeps its role), and the row becomes accepted.
Acceptable(p, i) ==
  /\ invites[i] # NULL /\ invites[i].status = "pending" /\ ~invites[i].expired
  /\ invites[i].email = p /\ SameOrg(p, invites[i].ws)

AcceptInvite(p, i) ==
  /\ SignedIn(p)
  /\ Acceptable(p, i)
  /\ \/ /\ invites[i].project # NULL
        /\ stakeholders' = [stakeholders EXCEPT ![invites[i].project] = @ \cup {p}]
        /\ UNCHANGED members
     \/ /\ invites[i].project = NULL
        /\ members' = [members EXCEPT ![invites[i].ws][p] =
                         IF @ = NULL THEN invites[i].role ELSE @]
        /\ UNCHANGED stakeholders
  /\ invites' = [invites EXCEPT ![i].status = "accepted"]
  /\ UNCHANGED <<orgCount, users, workspaces, projects>>

------------------------------------------------------------------------------
(* Projects and their stakeholders (mounted behind requireWorkspace, where *)
(* a viewer may not write).                                                *)

\* POST /projects
CreateProject(a, w, pr) ==
  /\ Can(a, w, "manager")
  /\ projects[pr] = NULL
  /\ projects' = [projects EXCEPT ![pr] = w]
  /\ UNCHANGED <<orgCount, users, workspaces, members, stakeholders, invites>>

\* What becomes of the invitations to a deleted project: ON DELETE CASCADE.
InvitesWithoutProject_Kept(pr) == invites
InvitesWithoutProject(pr) ==
  [i \in InviteIds |-> IF invites[i] # NULL /\ invites[i].project = pr
                       THEN NULL ELSE invites[i]]

\* DELETE /projects/:id: stakeholders and invitations to it cascade.
DeleteProject(a, pr) ==
  /\ projects[pr] # NULL /\ Can(a, projects[pr], "manager")
  /\ projects' = [projects EXCEPT ![pr] = NULL]
  /\ stakeholders' = [stakeholders EXCEPT ![pr] = {}]
  /\ invites' = InvitesWithoutProject(pr)
  /\ UNCHANGED <<orgCount, users, workspaces, members>>

\* POST /projects/:id/stakeholders for an address that has an account.
AddStakeholder(a, pr, p) ==
  /\ projects[pr] # NULL /\ Can(a, projects[pr], "manager")
  /\ users[p] # NULL /\ SameOrg(p, projects[pr])
  /\ stakeholders' = [stakeholders EXCEPT ![pr] = @ \cup {p}]
  /\ UNCHANGED <<orgCount, users, workspaces, members, projects, invites>>

\* The same for an address without an account: re-issue the project's pending
\* invitation or insert one (role defaults to developer in the schema).
InviteStakeholder(a, pr, e) ==
  /\ projects[pr] # NULL /\ Can(a, projects[pr], "manager")
  /\ users[e] = NULL
  /\ \/ \E i \in PendingForProject(pr, e) :
          invites' = [invites EXCEPT ![i] = Reissued(i, invites[i].role)]
     \/ /\ PendingForProject(pr, e) = {}
        /\ \E i \in InviteIds :
             /\ FreeInvite(i)
             /\ invites' = [invites EXCEPT
                              ![i] = NewInvite(projects[pr], pr, e, "developer")]
  /\ UNCHANGED <<orgCount, users, workspaces, members, projects, stakeholders>>

\* DELETE /projects/:id/stakeholders/:userId: managers, or oneself; either way
\* the caller is a writing member of the workspace (requireWorkspace).
RemoveStakeholder(a, pr, p) ==
  /\ projects[pr] # NULL
  /\ Can(a, projects[pr], IF a = p THEN "developer" ELSE "manager")
  /\ stakeholders' = [stakeholders EXCEPT ![pr] = @ \ {p}]
  /\ UNCHANGED <<orgCount, users, workspaces, members, projects, invites>>

------------------------------------------------------------------------------
(* Organization administration.                                            *)

\* The checks of PATCH /admin/users/:id on is_active.  Only the JSON value
\* false is refused for oneself; every falsy value deactivates.
MayActivate(a, p, arg) == ~(a = p /\ arg = "false")

\* The checks of the same handler on role (NULL when the body has none): not
\* one's own, ownership only by an owner, never the last owner.
MayChangeRole_OwnersMay(a, p, r) ==
  r # NULL /\ "owner" \in {r, users[p].role} => users[a].role = "owner"
MayChangeRole_Oneself(a, p, r) ==
  /\ r # NULL /\ "owner" \in {r, users[p].role} => users[a].role = "owner"
  /\ r # NULL /\ r # "owner" /\ users[p].role = "owner" => AnotherOrgOwner(p)
MayChangeRole_AnyRank(a, p, r) ==
  /\ r # NULL /\ a = p => r = users[p].role
  /\ r # NULL /\ r # "owner" /\ users[p].role = "owner" => AnotherOrgOwner(p)
MayChangeRole(a, p, r) ==
  /\ r # NULL /\ a = p => r = users[p].role
  /\ r # NULL /\ "owner" \in {r, users[p].role} => users[a].role = "owner"
  /\ r # NULL /\ r # "owner" /\ users[p].role = "owner" => AnotherOrgOwner(p)

\* PATCH /admin/users/:id; a body without is_active behaves as one that sends
\* the current value.
UpdateUser(a, p, r, arg) ==
  /\ OrgAdmin(a)
  /\ users[p] # NULL /\ users[p].org = users[a].org
  /\ MayActivate(a, p, arg) /\ MayChangeRole(a, p, r)
  /\ users' = [users EXCEPT ![p] =
                 [org |-> users[p].org, role |-> IF r = NULL THEN users[p].role ELSE r,
                  active |-> arg = "true"]]
  /\ UNCHANGED <<orgCount, workspaces, members, projects, stakeholders, invites>>

\* DELETE /admin/users/:id: owners only, not oneself, not the last owner.
\* Memberships and stakeholder seats cascade.
DeleteUser(a, p) ==
  /\ SignedIn(a) /\ users[a].role = "owner"
  /\ a # p
  /\ users[p] # NULL /\ users[p].org = users[a].org
  /\ users[p].role = "owner" => AnotherOrgOwner(p)
  /\ users' = [users EXCEPT ![p] = NULL]
  /\ members' = [w \in Workspaces |-> [members[w] EXCEPT ![p] = NULL]]
  /\ stakeholders' = [pr \in Projects |-> stakeholders[pr] \ {p}]
  /\ UNCHANGED <<orgCount, workspaces, projects, invites>>

------------------------------------------------------------------------------

Registration ==
  \/ \E p \in Persons : RegisterFounding(p) \/ RegisterFoundingCut(p)
  \/ \E p \in Persons, i \in InviteIds : RegisterInvited(p, i)

\* The requests the account a may send, route by route.
WorkspaceRequest(a) ==
  \E w \in Workspaces :
    \/ CreateWorkspace(a, w) \/ DeleteWorkspace(a, w)
    \/ \E p \in Persons : RemoveMember(a, w, p)
    \/ \E p \in Persons, r \in GrantRoles :
         AddMember(a, w, p, r) \/ InviteMember(a, w, p, r) \/ ChangeMemberRole(a, w, p, r)

InviteRequest(a) ==
  \E i \in InviteIds : RevokeInvite(a, i) \/ AcceptInvite(a, i)

ProjectRequest(a) ==
  \E pr \in Projects :
    \/ \E w \in Workspaces : CreateProject(a, w, pr)
    \/ DeleteProject(a, pr)
    \/ \E p \in Persons :
         AddStakeholder(a, pr, p) \/ InviteStakeholder(a, pr, p) \/ RemoveStakeholder(a, pr, p)

AdminRequest(a) ==
  \E p \in Persons :
    \/ DeleteUser(a, p)
    \/ \E r \in GrantRoles \cup {NULL}, arg \in ActiveArgs : UpdateUser(a, p, r, arg)

Request(a) ==
  WorkspaceRequest(a) \/ InviteRequest(a) \/ ProjectRequest(a) \/ AdminRequest(a)

WorkspaceSteps == \E a \in Persons : WorkspaceRequest(a)

InviteSteps ==
  \/ \E a \in Persons : InviteRequest(a)
  \/ \E i \in InviteIds : ExpireInvite(i)

ProjectSteps == \E a \in Persons : ProjectRequest(a)

AdminSteps == \E a \in Persons : AdminRequest(a)

Next ==
  \/ Registration
  \/ Boot
  \/ WorkspaceSteps
  \/ InviteSteps
  \/ ProjectSteps
  \/ AdminSteps

Spec == Init /\ [][Next]_vars

------------------------------------------------------------------------------
(* Safety.                                                                 *)

\* No membership, stakeholder seat or project crosses an organization or
\* outlives the account, workspace or project it refers to (permissions.js:
\* "there is no cross-org access anywhere in the app").  Every handler that
\* grants something compares organizations itself, and the cascades must
\* remove what the checks let in.
MembersInOrg ==
  /\ \A w \in Workspaces, p \in Persons :
       members[w][p] # NULL =>
         workspaces[w] # NULL /\ users[p] # NULL /\ users[p].org = workspaces[w]
  /\ \A pr \in Projects : projects[pr] # NULL => workspaces[projects[pr]] # NULL
  /\ \A pr \in Projects : \A p \in stakeholders[pr] :
       projects[pr] # NULL /\ users[p] # NULL /\ users[p].org = workspaces[projects[pr]]

\* A live invitation points at an existing workspace, and a stakeholder
\* invitation at an existing project of that same workspace.
InvitesAnchored ==
  \A i \in InviteIds : invites[i] # NULL =>
    /\ workspaces[invites[i].ws] # NULL
    /\ invites[i].project # NULL => projects[invites[i].project] = invites[i].ws

\* At most one pending membership invitation per workspace and address, and
\* one pending stakeholder invitation per project and address: "(re)issue"
\* never leaves two live links behind.
OnePendingInvite ==
  \A i, j \in InviteIds :
    /\ i # j /\ invites[i] # NULL /\ invites[j] # NULL
    /\ invites[i].status = "pending" /\ invites[j].status = "pending"
    => <<invites[i].ws, invites[i].project, invites[i].email>>
         # <<invites[j].ws, invites[j].project, invites[j].email>>

\* The organizations that anybody or any workspace belongs to.
Populated(o) ==
  \/ \E p \in Persons : users[p] # NULL /\ users[p].org = o
  \/ \E w \in Workspaces : workspaces[w] = o

\* A populated organization has an account of rank owner.
OrgHasOwner ==
  \A o \in Orgs : Populated(o) =>
    \E q \in Persons : users[q] # NULL /\ users[q].org = o /\ users[q].role = "owner"

------------------------------------------------------------------------------
(* What a step may never do.                                               *)

\* A workspace that has an owner loses its last one only together with that
\* owner's account: no membership operation leaves it without.
LastOwnerLeavesOnlyWithAccount ==
  [][ \A w \in Workspaces :
        /\ workspaces[w] # NULL /\ workspaces'[w] # NULL
        /\ \E p \in Persons : members[w][p] = "owner"
        /\ ~ \E p \in Persons : members'[w][p] = "owner"
        => \E p \in Persons : members[w][p] = "owner" /\ users'[p] = NULL ]_vars

\* An organization has an active owner or admin from the moment it has an
\* account, and loses the last one in one way only: that administrator sends
\* its own account a falsy is_active other than false, which the check of
\* admin.js ("You can't deactivate your own account") lets through.  Whatever
\* administrators do to one another, one of them is left to undo it.
Administrable(o) == \E q \in Persons : OrgAdmin(q) /\ users[q].org = o

LastAdministratorOnlySteppedDown ==
  [][ \A o \in Orgs :
        /\ ~Populated(o) /\ Populated(o)' => Administrable(o)'
        /\ Administrable(o) /\ ~Administrable(o)' =>
             \E a \in Persons, r \in GrantRoles \cup {NULL} :
               OrgAdmin(a) /\ users[a].org = o /\ UpdateUser(a, a, r, "zero") ]_vars

OwnsOrg(p) == users[p] # NULL /\ users[p].role = "owner"
OwnsWorkspace(p, w) == members[w][p] = "owner"

\* Only owners hand ownership on or take it away: no request of anybody else can
\* be the step that makes an account an owner of its organization or ends it
\* (admin.js: "Only an existing owner can hand out or take away the owner role"),
\* or that does so in a workspace that exists, except that anyone may leave.  A
\* new account is an owner only of the organization it founds, or as ADMIN_EMAIL.
\* No membership granted, invitation accepted or rank changed goes around this,
\* through any chain of them.
OwnershipFromOwners ==
  [][ /\ \A p \in Persons : users[p] = NULL /\ OwnsOrg(p)' =>
           users'[p].org > orgCount \/ p = AdminEmail
      /\ \A p \in Persons : users[p] # NULL /\ OwnsOrg(p)' # OwnsOrg(p) =>
           \A a \in Persons :
             SignedIn(a) /\ ~(OwnsOrg(a) /\ users[a].org = users[p].org) => ~Request(a)
      /\ \A w \in Workspaces, p \in Persons :
           /\ workspaces[w] # NULL /\ workspaces'[w] # NULL
           /\ OwnsWorkspace(p, w)' # OwnsWorkspace(p, w)
           => \A a \in Persons :
                SignedIn(a) /\ ~Can(a, w, "owner") =>
                  ~Request(a) \/ (a = p /\ OwnsWorkspace(p, w)) ]_vars
==============================================================================
