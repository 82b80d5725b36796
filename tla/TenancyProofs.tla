---------------------------- MODULE TenancyProofs ----------------------------
(***************************************************************************)
(* Theorems about Tenancy, for any number of organizations, accounts,      *)
(* workspaces, projects and invitations.                                   *)
(***************************************************************************)
EXTENDS Tenancy, TLAPS

USE MaxOrgsIsPos, GrantRolesAreRoles, AdminEmailIsPerson, NullIsNoRow, NullIsNoRole, NullIsNoRecord

\* Whatever role a caller sends, an invitation carries one that may be granted.
LEMMA InviteRoleOfType == \A r : InviteRoleOf(r) \in InviteRoles
BY DEF InviteRoleOf, InviteRoles, Roles

\* A freshly inserted invitation is a well-typed row.
LEMMA NewInviteType ==
  ASSUME NEW w \in Workspaces, NEW pr \in Projects \cup {NULL}, NEW e \in Persons,
         NEW r \in InviteRoles
  PROVE  NewInvite(w, pr, e, r) \in InviteRow
BY DEF NewInvite, InviteRow

\* So is a re-issued one.
LEMMA ReissuedType ==
  ASSUME TypeOK, NEW i \in InviteIds, invites[i] # NULL, NEW r \in InviteRoles
  PROVE  Reissued(i, r) \in InviteRow
<1>1. invites[i] \in InviteRow
  BY DEF TypeOK
<1> QED BY <1>1 DEF Reissued, InviteRow

\* Registering keeps the tables well-typed.
LEMMA RegistrationType ==
  ASSUME TypeOK, Registration PROVE TypeOK'
<1> USE DEF TypeOK, UserRow, Orgs, NewUser, Roles
<1>1. ASSUME NEW p \in Persons, RegisterFounding(p) PROVE TypeOK'
  BY <1>1 DEF RegisterFounding
<1>2. ASSUME NEW p \in Persons, RegisterFoundingCut(p) PROVE TypeOK'
  BY <1>2 DEF RegisterFoundingCut
<1>3. ASSUME NEW p \in Persons, NEW i \in InviteIds, RegisterInvited(p, i) PROVE TypeOK'
  <2>1. workspaces[invites[i].ws] \in Orgs
    BY <1>3 DEF RegisterInvited, InviteRow
  <2> QED BY <1>3, <2>1 DEF RegisterInvited
<1> QED BY <1>1, <1>2, <1>3 DEF Registration

\* The boot-time seed keeps the tables well-typed.
LEMMA BootType ==
  ASSUME TypeOK, Boot PROVE TypeOK'
<1> USE DEF TypeOK, Boot
<1>1. AdminEmail \in Persons
  OBVIOUS
<1>2. CASE users[AdminEmail] = NULL
  <2>1. NewUser(1, "owner") \in UserRow
    BY DEF NewUser, UserRow, Orgs, Roles
  <2>2. orgCount' \in 0..MaxOrgs
    BY <1>2
  <2> QED BY <1>1, <1>2, <2>1, <2>2
<1>3. CASE users[AdminEmail] # NULL
  <2>1. users[AdminEmail] \in UserRow
    BY <1>1, <1>3
  <2>2. [users[AdminEmail] EXCEPT !.role = "owner"] \in UserRow
    BY <2>1 DEF UserRow, Roles
  <2>3. users' \in [Persons -> UserRow \cup {NULL}]
    BY <1>1, <1>3, <2>2
  <2> QED BY <1>3, <2>3
<1> QED BY <1>2, <1>3

\* So do the handlers of workspaces and memberships,
LEMMA WorkspaceStepsType ==
  ASSUME TypeOK, WorkspaceSteps PROVE TypeOK'
<1> USE DEF TypeOK
<1>1. PICK a \in Persons, w \in Workspaces :
        \/ CreateWorkspace(a, w) \/ DeleteWorkspace(a, w)
        \/ \E p \in Persons : RemoveMember(a, w, p)
        \/ \E p \in Persons, r \in GrantRoles :
             AddMember(a, w, p, r) \/ InviteMember(a, w, p, r) \/ ChangeMemberRole(a, w, p, r)
  BY DEF WorkspaceSteps, WorkspaceRequest
<1>2. CASE CreateWorkspace(a, w)
  BY <1>2 DEF CreateWorkspace, SignedIn, UserRow, Roles
<1>3. CASE DeleteWorkspace(a, w)
  BY <1>3 DEF DeleteWorkspace
<1>4. ASSUME NEW p \in Persons, RemoveMember(a, w, p) PROVE TypeOK'
  BY <1>4 DEF RemoveMember
<1>5. ASSUME NEW p \in Persons, NEW r \in GrantRoles, AddMember(a, w, p, r) PROVE TypeOK'
  BY <1>5, InviteRoleOfType DEF AddMember, InviteRoles
<1>6. ASSUME NEW p \in Persons, NEW r \in GrantRoles, InviteMember(a, w, p, r) PROVE TypeOK'
  <2>1. NewInvite(w, NULL, p, InviteRoleOf(r)) \in InviteRow
    BY NewInviteType, InviteRoleOfType
  <2>2. invites' \in [InviteIds -> InviteRow \cup {NULL}]
    <3>1. ASSUME NEW i \in PendingFor(w, p),
                 invites' = [invites EXCEPT ![i] = Reissued(i, InviteRoleOf(r))]
          PROVE  invites' \in [InviteIds -> InviteRow \cup {NULL}]
      BY <3>1, InviteRoleOfType, ReissuedType DEF PendingFor
    <3>2. ASSUME NEW i \in InviteIds,
                 invites' = [invites EXCEPT ![i] = NewInvite(w, NULL, p, InviteRoleOf(r))]
          PROVE  invites' \in [InviteIds -> InviteRow \cup {NULL}]
      BY <2>1, <3>2
    <3> QED BY <1>6, <3>1, <3>2 DEF InviteMember
  <2> QED BY <1>6, <2>2 DEF InviteMember
<1>7. ASSUME NEW p \in Persons, NEW r \in GrantRoles, ChangeMemberRole(a, w, p, r) PROVE TypeOK'
  BY <1>7 DEF ChangeMemberRole
<1> QED BY <1>1, <1>2, <1>3, <1>4, <1>5, <1>6, <1>7

\* of invitations,
LEMMA InviteStepsType ==
  ASSUME TypeOK, InviteSteps PROVE TypeOK'
<1> USE DEF TypeOK, InviteRow
<1>1. ASSUME NEW a \in Persons, NEW i \in InviteIds, RevokeInvite(a, i) PROVE TypeOK'
  BY <1>1 DEF RevokeInvite
<1>2. ASSUME NEW p \in Persons, NEW i \in InviteIds, AcceptInvite(p, i) PROVE TypeOK'
  <2>1. invites[i] \in InviteRow
    BY <1>2 DEF AcceptInvite, Acceptable
  <2>2. invites' \in [InviteIds -> InviteRow \cup {NULL}]
    BY <1>2, <2>1 DEF AcceptInvite
  <2>3. /\ invites[i].ws \in Workspaces /\ invites[i].role \in Roles
        /\ invites[i].project \in Projects \cup {NULL}
    BY <2>1 DEF InviteRoles
  <2>4. /\ members' \in [Workspaces -> [Persons -> Roles \cup {NULL}]]
        /\ stakeholders' \in [Projects -> SUBSET Persons]
    <3>1. CASE invites[i].project # NULL
      <4>1. /\ stakeholders' = [stakeholders EXCEPT ![invites[i].project] = @ \cup {p}]
            /\ members' = members
        BY <1>2, <3>1 DEF AcceptInvite
      <4>2. stakeholders[invites[i].project] \cup {p} \in SUBSET Persons
        BY <2>3, <3>1
      <4> QED BY <4>1, <4>2
    <3>2. CASE invites[i].project = NULL
      <4>1. /\ members' = [members EXCEPT ![invites[i].ws][p] =
                             IF @ = NULL THEN invites[i].role ELSE @]
            /\ stakeholders' = stakeholders
        BY <1>2, <3>2 DEF AcceptInvite
      <4>2. members[invites[i].ws] \in [Persons -> Roles \cup {NULL}]
        BY <2>3
      <4> QED BY <2>3, <4>1, <4>2
    <3> QED BY <3>1, <3>2
  <2> QED BY <1>2, <2>2, <2>4 DEF AcceptInvite
<1>3. ASSUME NEW i \in InviteIds, ExpireInvite(i) PROVE TypeOK'
  BY ZenonT(30), <1>3 DEF ExpireInvite
<1> QED BY <1>1, <1>2, <1>3 DEF InviteSteps, InviteRequest

\* of projects and stakeholders,
LEMMA ProjectStepsType ==
  ASSUME TypeOK, ProjectSteps PROVE TypeOK'
<1> USE DEF TypeOK
<1>1. PICK a \in Persons, pr \in Projects :
        \/ \E w \in Workspaces : CreateProject(a, w, pr)
        \/ DeleteProject(a, pr)
        \/ \E p \in Persons :
             AddStakeholder(a, pr, p) \/ InviteStakeholder(a, pr, p) \/ RemoveStakeholder(a, pr, p)
  BY DEF ProjectSteps, ProjectRequest
<1>2. ASSUME NEW w \in Workspaces, CreateProject(a, w, pr) PROVE TypeOK'
  BY <1>2 DEF CreateProject
<1>3. CASE DeleteProject(a, pr)
  BY <1>3 DEF DeleteProject, InvitesWithoutProject
<1>4. ASSUME NEW p \in Persons, AddStakeholder(a, pr, p) PROVE TypeOK'
  BY <1>4 DEF AddStakeholder
<1>5. ASSUME NEW p \in Persons, InviteStakeholder(a, pr, p) PROVE TypeOK'
  <2>1. NewInvite(projects[pr], pr, p, "developer") \in InviteRow
    BY <1>5, NewInviteType DEF InviteStakeholder, InviteRoles, Roles
  <2>2. invites' \in [InviteIds -> InviteRow \cup {NULL}]
    <3>1. ASSUME NEW i \in PendingForProject(pr, p),
                 invites' = [invites EXCEPT ![i] = Reissued(i, invites[i].role)]
          PROVE  invites' \in [InviteIds -> InviteRow \cup {NULL}]
      <4>1. invites[i] \in InviteRow /\ invites[i] # NULL
        BY DEF PendingForProject
      <4>2. Reissued(i, invites[i].role) \in InviteRow
        BY <4>1, ReissuedType DEF PendingForProject, InviteRow
      <4> QED BY <3>1, <4>2
    <3>2. ASSUME NEW i \in InviteIds,
                 invites' = [invites EXCEPT ![i] = NewInvite(projects[pr], pr, p, "developer")]
          PROVE  invites' \in [InviteIds -> InviteRow \cup {NULL}]
      BY <2>1, <3>2
    <3> QED BY <1>5, <3>1, <3>2 DEF InviteStakeholder
  <2> QED BY <1>5, <2>2 DEF InviteStakeholder
<1>6. ASSUME NEW p \in Persons, RemoveStakeholder(a, pr, p) PROVE TypeOK'
  BY <1>6 DEF RemoveStakeholder
<1> QED BY <1>1, <1>2, <1>3, <1>4, <1>5, <1>6

\* and of organization administration.
LEMMA AdminStepsType ==
  ASSUME TypeOK, AdminSteps PROVE TypeOK'
<1> USE DEF TypeOK
<1>1. ASSUME NEW a \in Persons, NEW p \in Persons, DeleteUser(a, p) PROVE TypeOK'
  BY <1>1 DEF DeleteUser
<1>2. ASSUME NEW a \in Persons, NEW p \in Persons, NEW r \in GrantRoles \cup {NULL},
             NEW arg \in ActiveArgs, UpdateUser(a, p, r, arg)
      PROVE TypeOK'
  <2>1. (arg = "true") \in BOOLEAN
    OBVIOUS
  <2>2. users[p] \in UserRow
    BY <1>2 DEF UpdateUser
  <2>3. users'[p] \in UserRow
    BY <1>2, <2>1, <2>2 DEF UpdateUser, UserRow
  <2> QED BY <1>2, <2>3 DEF UpdateUser
<1> QED BY <1>1, <1>2 DEF AdminSteps, AdminRequest

\* Every table keeps its type: rows reference rows of the right table, roles
\* stay in the vocabulary and no invitation ever carries the role owner.
THEOREM TypeCorrect == Spec => []TypeOK
<1>1. Init => TypeOK
  BY DEF Init, TypeOK
<1>2. TypeOK /\ [Next]_vars => TypeOK'
  <2>1. CASE UNCHANGED vars
    BY <2>1 DEF vars, TypeOK
  <2> QED
    BY <2>1, RegistrationType, BootType, WorkspaceStepsType, InviteStepsType,
       ProjectStepsType, AdminStepsType DEF Next
<1> QED BY <1>1, <1>2, PTL DEF Spec

------------------------------------------------------------------------------
(* Organizations keep an owner, and somebody who can administer them.      *)

\* Only these handlers change an account, and what they do to it.
LEMMA AccountSteps ==
  ASSUME TypeOK, [Next]_vars
  PROVE  \/ users' = users
         \/ \E p \in Persons :
              /\ users[p] = NULL
              /\ orgCount + 1 \in Orgs
              /\ users' = [users EXCEPT ![p] = NewUser(orgCount + 1, "owner")]
         \/ \E p \in Persons, w \in Workspaces :
              /\ users[p] = NULL /\ workspaces[w] # NULL
              /\ users' = [users EXCEPT ![p] = NewUser(workspaces[w], "developer")]
         \/ Boot
         \/ \E a, p \in Persons : DeleteUser(a, p)
         \/ \E a, p \in Persons, r \in GrantRoles \cup {NULL}, arg \in ActiveArgs :
              UpdateUser(a, p, r, arg)
<1>1. CASE UNCHANGED vars
  BY <1>1 DEF vars
<1>2. CASE Registration
  <2>1. ASSUME NEW p \in Persons, RegisterFounding(p)
        PROVE  users[p] = NULL /\ orgCount + 1 \in Orgs
               /\ users' = [users EXCEPT ![p] = NewUser(orgCount + 1, "owner")]
    BY <2>1 DEF RegisterFounding, Orgs, TypeOK
  <2>2. ASSUME NEW p \in Persons, RegisterFoundingCut(p) PROVE users' = users
    BY <2>2 DEF RegisterFoundingCut
  <2>3. ASSUME NEW p \in Persons, NEW i \in InviteIds, RegisterInvited(p, i)
        PROVE  \E w \in Workspaces :
                 /\ users[p] = NULL /\ workspaces[w] # NULL
                 /\ users' = [users EXCEPT ![p] = NewUser(workspaces[w], "developer")]
    BY <2>3 DEF RegisterInvited, TypeOK, InviteRow
  <2> QED BY <1>2, <2>1, <2>2, <2>3 DEF Registration
<1>3. CASE WorkspaceSteps
  BY <1>3 DEF WorkspaceSteps, WorkspaceRequest, CreateWorkspace, DeleteWorkspace, RemoveMember,
              AddMember, InviteMember, ChangeMemberRole
<1>4. CASE InviteSteps
  BY <1>4 DEF InviteSteps, InviteRequest, RevokeInvite, AcceptInvite, ExpireInvite
<1>5. CASE ProjectSteps
  BY <1>5 DEF ProjectSteps, ProjectRequest, CreateProject, DeleteProject,
              AddStakeholder, InviteStakeholder, RemoveStakeholder
<1>6. CASE AdminSteps
  BY <1>6 DEF AdminSteps, AdminRequest
<1> QED BY <1>1, <1>2, <1>3, <1>4, <1>5, <1>6 DEF Next

\* A workspace appears only in the organization of the owner who creates it.
LEMMA WorkspaceOrgSteps ==
  ASSUME TypeOK, [Next]_vars, NEW w \in Workspaces, workspaces'[w] # NULL
  PROVE  \/ workspaces'[w] = workspaces[w]
         \/ users' = users /\ \E a \in Persons :
              SignedIn(a) /\ users[a].role = "owner" /\ workspaces'[w] = users[a].org
<1>1. CASE UNCHANGED vars
  BY <1>1 DEF vars
<1>2. CASE Registration
  BY <1>2 DEF Registration, RegisterFounding, RegisterFoundingCut, RegisterInvited
<1>3. CASE Boot
  BY <1>3 DEF Boot
<1>4. ASSUME NEW a \in Persons, NEW v \in Workspaces, CreateWorkspace(a, v)
      PROVE  \/ workspaces'[w] = workspaces[w]
             \/ users' = users /\ \E b \in Persons :
                  SignedIn(b) /\ users[b].role = "owner" /\ workspaces'[w] = users[b].org
  BY <1>4 DEF CreateWorkspace, TypeOK
<1>5. ASSUME NEW a \in Persons, NEW v \in Workspaces, DeleteWorkspace(a, v)
      PROVE  workspaces'[w] = workspaces[w]
  BY <1>5 DEF DeleteWorkspace, TypeOK
<1>6. CASE WorkspaceSteps
  BY <1>4, <1>5, <1>6 DEF WorkspaceSteps, WorkspaceRequest, RemoveMember, AddMember, InviteMember,
                          ChangeMemberRole
<1>7. CASE InviteSteps
  BY <1>7 DEF InviteSteps, InviteRequest, RevokeInvite, AcceptInvite, ExpireInvite
<1>8. CASE ProjectSteps
  BY <1>8 DEF ProjectSteps, ProjectRequest, CreateProject, DeleteProject,
              AddStakeholder, InviteStakeholder, RemoveStakeholder
<1>9. CASE AdminSteps
  BY <1>9 DEF AdminSteps, AdminRequest, DeleteUser, UpdateUser
<1> QED BY <1>1, <1>2, <1>3, <1>6, <1>7, <1>8, <1>9 DEF Next

\* A workspace or account that refers to an organization is not NULL.
LEMMA NullIsNoOrg == NULL \notin Orgs
BY DEF Orgs

\* An organization that becomes populated does so with an active owner: its
\* founder, or the account seeded from ADMIN_EMAIL.
LEMMA PopulationGrows ==
  ASSUME TypeOK, [Next]_vars, NEW o \in Orgs, Populated(o)'
  PROVE  \/ Populated(o)
         \/ \E q \in Persons : /\ users'[q] # NULL /\ users'[q].org = o
                               /\ users'[q].role = "owner" /\ users'[q].active
<1>1. CASE \E w \in Workspaces : workspaces'[w] = o
  <2>1. PICK w \in Workspaces : workspaces'[w] = o
    BY <1>1
  <2>2. workspaces'[w] # NULL
    BY <2>1 DEF Orgs
  <2>3. CASE workspaces'[w] = workspaces[w]
    BY <2>1, <2>3 DEF Populated
  <2>4. CASE \E a \in Persons : SignedIn(a) /\ workspaces'[w] = users[a].org
    BY <2>1, <2>4 DEF Populated, SignedIn
  <2> QED BY <2>2, <2>3, <2>4, WorkspaceOrgSteps
<1>2. CASE \E p \in Persons : users'[p] # NULL /\ users'[p].org = o
  <2>1. PICK p \in Persons : users'[p] # NULL /\ users'[p].org = o
    BY <1>2
  <2>2. CASE users[p] # NULL /\ users[p].org = users'[p].org
    BY <2>1, <2>2 DEF Populated
  <2>3. CASE users' = users
    BY <2>1, <2>3 DEF Populated
  <2>4. ASSUME NEW q \in Persons, users[q] = NULL, orgCount + 1 \in Orgs,
               users' = [users EXCEPT ![q] = NewUser(orgCount + 1, "owner")]
        PROVE  \/ users[p] # NULL /\ users[p].org = users'[p].org
               \/ users'[p].role = "owner" /\ users'[p].active
    BY <2>1, <2>4 DEF NewUser, TypeOK
  <2>5. ASSUME NEW q \in Persons, NEW w \in Workspaces, users[q] = NULL, workspaces[w] # NULL,
               users' = [users EXCEPT ![q] = NewUser(workspaces[w], "developer")]
        PROVE  Populated(o)
    BY <2>1, <2>5 DEF NewUser, TypeOK, Populated
  <2>6. CASE Boot
    BY <2>1, <2>6 DEF Boot, NewUser, TypeOK, Populated, UserRow
  <2>7. ASSUME NEW a \in Persons, NEW q \in Persons, DeleteUser(a, q) PROVE Populated(o)
    BY <2>1, <2>7 DEF DeleteUser, TypeOK, Populated
  <2>8. ASSUME NEW a \in Persons, NEW q \in Persons, NEW r \in GrantRoles \cup {NULL},
               NEW arg \in ActiveArgs, UpdateUser(a, q, r, arg)
        PROVE  Populated(o)
    BY <2>1, <2>8 DEF UpdateUser, TypeOK, Populated
  <2> QED BY <2>1, <2>2, <2>3, <2>4, <2>5, <2>6, <2>7, <2>8, AccountSteps
<1> QED BY <1>1, <1>2 DEF Populated

\* The owner-rank account of an organization that a step finds is still there
\* afterwards, or another one is.
LEMMA OwnerStays ==
  ASSUME TypeOK, [Next]_vars, NEW o \in Orgs,
         \E q \in Persons : users[q] # NULL /\ users[q].org = o /\ users[q].role = "owner"
  PROVE  \E q \in Persons : users'[q] # NULL /\ users'[q].org = o /\ users'[q].role = "owner"
<1>1. PICK q \in Persons : users[q] # NULL /\ users[q].org = o /\ users[q].role = "owner"
  OBVIOUS
<1>2. ASSUME NEW p \in Persons, NEW u, users[p] = NULL, users' = [users EXCEPT ![p] = u]
      PROVE  users'[q] = users[q]
  BY <1>1, <1>2 DEF TypeOK
<1>3. CASE Boot
  BY <1>1, <1>3 DEF Boot, TypeOK, UserRow
<1>4. ASSUME NEW a \in Persons, NEW p \in Persons, DeleteUser(a, p)
      PROVE  \E x \in Persons : users'[x] # NULL /\ users'[x].org = o /\ users'[x].role = "owner"
  <2>1. CASE p # q
    BY <1>1, <1>4, <2>1 DEF DeleteUser, TypeOK
  <2>2. CASE p = q
    BY <1>1, <1>4, <2>2 DEF DeleteUser, TypeOK, AnotherOrgOwner
  <2> QED BY <2>1, <2>2
<1>5. ASSUME NEW a \in Persons, NEW p \in Persons, NEW r \in GrantRoles \cup {NULL},
             NEW arg \in ActiveArgs, UpdateUser(a, p, r, arg)
      PROVE  \E x \in Persons : users'[x] # NULL /\ users'[x].org = o /\ users'[x].role = "owner"
  <2>1. CASE p # q
    BY <1>1, <1>5, <2>1 DEF UpdateUser, TypeOK
  <2>2. CASE p = q /\ r \in {NULL, "owner"}
    <3>1. users'[q] = [org |-> o, role |-> "owner", active |-> arg = "true"]
      BY <1>1, <1>5, <2>2 DEF UpdateUser, TypeOK
    <3>2. users'[q] # NULL
      <4>1. (arg = "true") \in BOOLEAN
        OBVIOUS
      <4>2. users'[q] \in UserRow
        BY <3>1, <4>1 DEF UserRow, Roles
      <4> QED BY <4>2
    <3> QED BY <3>1, <3>2
  <2>3. CASE p = q /\ r \notin {NULL, "owner"}
    BY <1>1, <1>5, <2>3 DEF UpdateUser, MayChangeRole, TypeOK, AnotherOrgOwner
  <2> QED BY <2>1, <2>2, <2>3
<1> QED BY <1>1, <1>2, <1>3, <1>4, <1>5, AccountSteps

\* An organization with any account or workspace in it always has an account of
\* rank owner, whatever its people do to one another.
THEOREM OwnerAlways == Spec => []OrgHasOwner
<1>1. Init => OrgHasOwner
  BY ZenonT(30), NullIsNoOrg DEF Init, OrgHasOwner, Populated
<1>2. TypeOK /\ OrgHasOwner /\ [Next]_vars => OrgHasOwner'
  <2> SUFFICES ASSUME TypeOK, OrgHasOwner, [Next]_vars, NEW o \in Orgs, Populated(o)'
               PROVE  \E q \in Persons : /\ users'[q] # NULL /\ users'[q].org = o
                                         /\ users'[q].role = "owner"
    BY DEF OrgHasOwner
  <2> QED BY PopulationGrows, OwnerStays DEF OrgHasOwner
<1> QED BY <1>1, <1>2, TypeCorrect, PTL DEF Spec

\* An active owner or admin of an organization that a step finds is still one
\* afterwards, or the caller is, unless the caller stepped down with a "zero".
LEMMA AdministratorStays ==
  ASSUME TypeOK, [Next]_vars, NEW o \in Orgs,
         \E q \in Persons : OrgAdmin(q) /\ users[q].org = o
  PROVE  \/ \E q \in Persons : OrgAdmin(q)' /\ users'[q].org = o
         \/ \E a \in Persons, r \in GrantRoles \cup {NULL} :
              OrgAdmin(a) /\ users[a].org = o /\ UpdateUser(a, a, r, "zero")
<1> USE DEF OrgAdmin, SignedIn
<1>1. PICK q \in Persons : OrgAdmin(q) /\ users[q].org = o
  OBVIOUS
<1>2. ASSUME NEW x \in Persons, OrgAdmin(x), users[x].org = o, users'[x] = users[x]
      PROVE  OrgAdmin(x)' /\ users'[x].org = o
  BY <1>2
<1>3. ASSUME NEW p \in Persons, NEW u, users[p] = NULL, users' = [users EXCEPT ![p] = u]
      PROVE  users'[q] = users[q]
  BY <1>1, <1>3 DEF TypeOK
<1>4. CASE Boot
  <2>1. CASE users[AdminEmail] = NULL
    BY <1>1, <1>2, <1>4, <2>1 DEF Boot, TypeOK
  <2>2. CASE users[AdminEmail] # NULL
    <3>1. users'[q].active /\ users'[q].org = o
      BY <1>1, <1>4, <2>2 DEF Boot, TypeOK, UserRow
    <3>2. AtLeast(users'[q].role, "admin")
      BY <1>1, <1>4, <2>2 DEF Boot, TypeOK, UserRow, AtLeast, Rank, Roles
    <3>3. users'[q] # NULL
      <4>1. users'[q] \in UserRow
        BY <1>1, <1>4, <2>2 DEF Boot, TypeOK, UserRow, Roles
      <4> QED BY <4>1
    <3> QED BY <3>1, <3>2, <3>3
  <2> QED BY <2>1, <2>2
<1>5. ASSUME NEW a \in Persons, NEW p \in Persons, DeleteUser(a, p)
      PROVE  \E x \in Persons : OrgAdmin(x)' /\ users'[x].org = o
  <2>1. OrgAdmin(a) /\ users'[a] = users[a]
    BY <1>5 DEF DeleteUser, TypeOK, AtLeast, Rank, Roles
  <2>2. CASE p = q
    BY <1>1, <1>2, <1>5, <2>1, <2>2 DEF DeleteUser
  <2>3. CASE p # q
    BY <1>1, <1>2, <1>5, <2>3 DEF DeleteUser, TypeOK
  <2> QED BY <2>2, <2>3
<1>6. ASSUME NEW a \in Persons, NEW p \in Persons, NEW r \in GrantRoles \cup {NULL},
             NEW arg \in ActiveArgs, UpdateUser(a, p, r, arg), ~(a = p /\ arg = "zero")
      PROVE  \E x \in Persons : OrgAdmin(x)' /\ users'[x].org = o
  <2>1. CASE p # q
    BY <1>1, <1>2, <1>6, <2>1 DEF UpdateUser, TypeOK
  <2>2. CASE p = q /\ a # q
    BY <1>1, <1>2, <1>6, <2>2 DEF UpdateUser, TypeOK
  <2>3. CASE p = q /\ a = q
    <3>1. arg = "true"
      BY <1>6, <2>3, ActiveArgsAreJson DEF UpdateUser, MayActivate
    <3>2. users'[q] = [org |-> o, role |-> users[q].role, active |-> TRUE]
      BY <1>1, <1>6, <2>3, <3>1 DEF UpdateUser, MayChangeRole, TypeOK
    <3>3. users'[q] # NULL
      <4>1. users'[q] \in UserRow
        BY <1>1, <3>2 DEF UserRow, TypeOK
      <4> QED BY <4>1
    <3> QED BY <1>1, <3>2, <3>3
  <2> QED BY <2>1, <2>2, <2>3
<1>7. ASSUME NEW p \in Persons, NEW r \in GrantRoles \cup {NULL}, UpdateUser(p, p, r, "zero")
      PROVE  \/ \E x \in Persons : OrgAdmin(x)' /\ users'[x].org = o
             \/ \E a \in Persons, k \in GrantRoles \cup {NULL} :
                  OrgAdmin(a) /\ users[a].org = o /\ UpdateUser(a, a, k, "zero")
  <2>1. OrgAdmin(p)
    BY <1>7 DEF UpdateUser
  <2>2. CASE p = q
    BY <1>1, <1>7, <2>1, <2>2
  <2>3. CASE p # q
    BY <1>1, <1>2, <1>7, <2>3 DEF UpdateUser, TypeOK
  <2> QED BY <2>2, <2>3
<1>8. ASSUME NEW a \in Persons, NEW p \in Persons, NEW r \in GrantRoles \cup {NULL},
             NEW arg \in ActiveArgs, UpdateUser(a, p, r, arg)
      PROVE  \/ \E x \in Persons : OrgAdmin(x)' /\ users'[x].org = o
             \/ \E x \in Persons, k \in GrantRoles \cup {NULL} :
                  OrgAdmin(x) /\ users[x].org = o /\ UpdateUser(x, x, k, "zero")
  <2>1. CASE a = p /\ arg = "zero"
    BY <1>7, <1>8, <2>1
  <2>2. CASE ~(a = p /\ arg = "zero")
    BY <1>6, <1>8, <2>2
  <2> QED BY <2>1, <2>2
<1>9. users' = users => OrgAdmin(q)' /\ users'[q].org = o
  BY <1>1
<1> HIDE DEF OrgAdmin, SignedIn
<1>10. \/ \E p \in Persons, u \in {NewUser(orgCount + 1, "owner")} :
             users[p] = NULL /\ users' = [users EXCEPT ![p] = u]
       \/ \E p \in Persons, w \in Workspaces :
             users[p] = NULL /\ users' = [users EXCEPT ![p] = NewUser(workspaces[w], "developer")]
       => OrgAdmin(q)' /\ users'[q].org = o
  BY <1>1, <1>2, <1>3
<1> QED BY <1>4, <1>5, <1>8, <1>9, <1>10, AccountSteps

\* What one step may do to the administrators of an organization.
AdministratorsLast ==
  \A o \in Orgs :
    /\ ~Populated(o) /\ Populated(o)' => Administrable(o)'
    /\ Administrable(o) /\ ~Administrable(o)' =>
         \E a \in Persons, r \in GrantRoles \cup {NULL} :
           OrgAdmin(a) /\ users[a].org = o /\ UpdateUser(a, a, r, "zero")

\* An organization has an active owner or admin from its first account on, and
\* its administrators cannot take the last one from one another: that one is
\* only lost by deactivating itself (admin.js 124-128, 165-190), for any number
\* of accounts and any values sent as is_active.
THEOREM AdministratorAlwaysLast == Spec => LastAdministratorOnlySteppedDown
<1>1. TypeOK /\ [Next]_vars => [AdministratorsLast]_vars
  <2> SUFFICES ASSUME TypeOK, [Next]_vars, NEW o \in Orgs
               PROVE  /\ ~Populated(o) /\ Populated(o)' => Administrable(o)'
                      /\ Administrable(o) /\ ~Administrable(o)' =>
                           \E a \in Persons, r \in GrantRoles \cup {NULL} :
                             OrgAdmin(a) /\ users[a].org = o /\ UpdateUser(a, a, r, "zero")
    BY DEF AdministratorsLast
  <2>1. ASSUME NEW q \in Persons, users'[q] # NULL, users'[q].role = "owner", users'[q].active
        PROVE  OrgAdmin(q)'
    BY <2>1 DEF OrgAdmin, SignedIn, AtLeast, Rank, Roles
  <2>2. ~Populated(o) /\ Populated(o)' => Administrable(o)'
    BY <2>1, PopulationGrows DEF Administrable
  <2>3. Administrable(o) /\ ~Administrable(o)' =>
          \E a \in Persons, r \in GrantRoles \cup {NULL} :
            OrgAdmin(a) /\ users[a].org = o /\ UpdateUser(a, a, r, "zero")
    BY AdministratorStays DEF Administrable
  <2> QED BY <2>2, <2>3
<1> QED
  BY <1>1, TypeCorrect, PTL DEF Spec, LastAdministratorOnlySteppedDown, AdministratorsLast

------------------------------------------------------------------------------
(* Nothing crosses an organization or outlives what it refers to.          *)

\* A membership or seat is only as good as the invitation it may come from, so
\* the two are kept together.
Anchored == MembersInOrg /\ InvitesAnchored

\* Sending a pending invitation again leaves what it is for as it was.
LEMMA ReissuedKeeps ==
  ASSUME TypeOK, NEW i \in InviteIds, invites[i] # NULL, NEW r
  PROVE  /\ Reissued(i, r).ws = invites[i].ws
         /\ Reissued(i, r).project = invites[i].project
         /\ Reissued(i, r).email = invites[i].email
         /\ Reissued(i, r).status = invites[i].status
<1>1. invites[i] \in InviteRow
  BY DEF TypeOK
<1> QED BY <1>1 DEF Reissued, InviteRow

\* A row that keeps its workspace and its project stays anchored.
LEMMA SameAnchor ==
  ASSUME InvitesAnchored, invites \in [InviteIds -> InviteRow \cup {NULL}],
         NEW i \in InviteIds, invites[i] # NULL, NEW row,
         row.ws = invites[i].ws, row.project = invites[i].project,
         invites' = [invites EXCEPT ![i] = row],
         UNCHANGED <<workspaces, projects>>
  PROVE  InvitesAnchored'
BY DEF InvitesAnchored

\* Registration gives an organization to somebody who had neither membership nor
\* seat, and the boot-time seed only raises a rank.
LEMMA RegistrationAnchored ==
  ASSUME TypeOK, Anchored, Registration \/ Boot PROVE Anchored'
<1> USE DEF TypeOK, Anchored, MembersInOrg, InvitesAnchored
<1>1. ASSUME NEW p \in Persons, NEW u \in UserRow, users[p] = NULL,
             users' = [users EXCEPT ![p] = u],
             UNCHANGED <<workspaces, members, projects, stakeholders, invites>>
      PROVE  Anchored'
  BY <1>1
<1>2. ASSUME NEW p \in Persons, RegisterFounding(p) PROVE Anchored'
  BY <1>1, <1>2 DEF RegisterFounding, NewUser, UserRow, Orgs, Roles
<1>3. ASSUME NEW p \in Persons, RegisterFoundingCut(p) PROVE Anchored'
  BY <1>3 DEF RegisterFoundingCut
<1>4. ASSUME NEW p \in Persons, NEW i \in InviteIds, RegisterInvited(p, i) PROVE Anchored'
  <2>1. NewUser(workspaces[invites[i].ws], "developer") \in UserRow
    BY <1>4 DEF RegisterInvited, InviteRow, NewUser, UserRow, Roles
  <2> QED BY <1>1, <1>4, <2>1 DEF RegisterInvited
<1>5. CASE Boot /\ users[AdminEmail] = NULL
  BY SMTT(30), <1>1, <1>5 DEF Boot, NewUser, UserRow, Orgs, Roles
<1>6. CASE Boot /\ users[AdminEmail] # NULL
  <2>1. [users[AdminEmail] EXCEPT !.role = "owner"] \in UserRow
    BY <1>6 DEF Boot, UserRow, Roles
  <2>2. \A p \in Persons : users[p] # NULL => users'[p] # NULL /\ users'[p].org = users[p].org
    BY <1>6, <2>1 DEF Boot, UserRow
  <2> QED BY <1>6, <2>2 DEF Boot
<1> QED BY <1>2, <1>3, <1>4, <1>5, <1>6 DEF Registration

\* A membership is granted inside the organization and goes with its workspace;
\* so does an invitation.
LEMMA WorkspaceStepsAnchored ==
  ASSUME TypeOK, Anchored, WorkspaceSteps PROVE Anchored'
<1> USE DEF TypeOK, Anchored, MembersInOrg, InvitesAnchored
<1>1. PICK a \in Persons, w \in Workspaces :
        \/ CreateWorkspace(a, w) \/ DeleteWorkspace(a, w)
        \/ \E p \in Persons : RemoveMember(a, w, p)
        \/ \E p \in Persons, r \in GrantRoles :
             AddMember(a, w, p, r) \/ InviteMember(a, w, p, r) \/ ChangeMemberRole(a, w, p, r)
  BY DEF WorkspaceSteps, WorkspaceRequest
<1>2. CASE CreateWorkspace(a, w)
  <2>1. users[a].org # NULL
    BY <1>2, NullIsNoOrg DEF CreateWorkspace, SignedIn, UserRow
  <2> QED BY <1>2, <2>1 DEF CreateWorkspace, SignedIn
<1>3. CASE DeleteWorkspace(a, w)
  BY <1>3, NullIsNoOrg DEF DeleteWorkspace, InviteRow
<1>4. ASSUME NEW p \in Persons, RemoveMember(a, w, p) PROVE Anchored'
  BY <1>4 DEF RemoveMember
<1>5. ASSUME NEW p \in Persons, NEW r \in GrantRoles, AddMember(a, w, p, r) PROVE Anchored'
  BY <1>5 DEF AddMember, Can, SameOrg
<1>6. ASSUME NEW p \in Persons, NEW r \in GrantRoles, InviteMember(a, w, p, r) PROVE Anchored'
  <2>1. workspaces[w] # NULL
    BY <1>6 DEF InviteMember, Can
  <2>2. ASSUME NEW i \in PendingFor(w, p),
               invites' = [invites EXCEPT ![i] = Reissued(i, InviteRoleOf(r))]
        PROVE  InvitesAnchored'
    <3>1. i \in InviteIds /\ invites[i] # NULL
      BY <2>2 DEF PendingFor
    <3> QED BY <1>6, <2>2, <3>1, ReissuedKeeps, SameAnchor DEF InviteMember
  <2>3. ASSUME NEW i \in InviteIds,
               invites' = [invites EXCEPT ![i] = NewInvite(w, NULL, p, InviteRoleOf(r))]
        PROVE  InvitesAnchored'
    BY <1>6, <2>1, <2>3 DEF InviteMember, NewInvite
  <2> QED BY <1>6, <2>2, <2>3 DEF InviteMember
<1>7. ASSUME NEW p \in Persons, NEW r \in GrantRoles, ChangeMemberRole(a, w, p, r) PROVE Anchored'
  BY <1>7 DEF ChangeMemberRole
<1> QED BY <1>1, <1>2, <1>3, <1>4, <1>5, <1>6, <1>7

\* What an invitation gives lies in the organization of the workspace it names,
\* which is the one whoever accepts it belongs to.
LEMMA InviteStepsAnchored ==
  ASSUME TypeOK, Anchored, InviteSteps PROVE Anchored'
<1> USE DEF TypeOK, Anchored, MembersInOrg, InvitesAnchored
<1>1. ASSUME NEW i \in InviteIds, invites[i] # NULL, NEW row,
             row.ws = invites[i].ws, row.project = invites[i].project,
             invites' = [invites EXCEPT ![i] = row],
             UNCHANGED <<workspaces, projects>>
      PROVE  InvitesAnchored'
  BY <1>1
<1>2. ASSUME NEW a \in Persons, NEW i \in InviteIds, RevokeInvite(a, i) PROVE Anchored'
  BY <1>1, <1>2 DEF RevokeInvite, InviteRow
<1>3. ASSUME NEW i \in InviteIds, ExpireInvite(i) PROVE Anchored'
  BY <1>1, <1>3 DEF ExpireInvite, InviteRow
<1>4. ASSUME NEW p \in Persons, NEW i \in InviteIds, AcceptInvite(p, i) PROVE Anchored'
  <2>1. InvitesAnchored'
    BY <1>1, <1>4 DEF AcceptInvite, Acceptable, InviteRow
  <2>2. /\ invites[i] \in InviteRow
        /\ users[p] # NULL /\ users[p].org = workspaces[invites[i].ws]
        /\ workspaces[invites[i].ws] # NULL
    BY <1>4 DEF AcceptInvite, Acceptable, SignedIn, SameOrg
  <2>3. CASE invites[i].project # NULL
    <3>1. /\ projects[invites[i].project] = invites[i].ws
          /\ invites[i].project \in Projects /\ invites[i].ws \in Workspaces
          /\ invites[i].ws # NULL
      BY <1>4, <2>2, <2>3 DEF AcceptInvite, Acceptable, InviteRow
    <3>2. /\ stakeholders' = [stakeholders EXCEPT ![invites[i].project] = @ \cup {p}]
          /\ members' = members
      BY <1>4, <2>3 DEF AcceptInvite
    <3> QED BY SMTT(30), <1>4, <2>1, <2>2, <3>1, <3>2 DEF AcceptInvite
  <2>4. CASE invites[i].project = NULL
    <3>1. /\ members' = [members EXCEPT ![invites[i].ws][p] =
                           IF @ = NULL THEN invites[i].role ELSE @]
          /\ stakeholders' = stakeholders
      BY <1>4, <2>4 DEF AcceptInvite
    <3> QED BY SMTT(30), <1>4, <2>1, <2>2, <3>1 DEF AcceptInvite, InviteRow
  <2> QED BY <2>3, <2>4
<1> QED BY <1>2, <1>3, <1>4 DEF InviteSteps, InviteRequest

\* A project has its seats and its invitations only while it exists.
LEMMA ProjectStepsAnchored ==
  ASSUME TypeOK, Anchored, ProjectSteps PROVE Anchored'
<1> USE DEF TypeOK, Anchored, MembersInOrg, InvitesAnchored
<1>1. PICK a \in Persons, pr \in Projects :
        \/ \E w \in Workspaces : CreateProject(a, w, pr)
        \/ DeleteProject(a, pr)
        \/ \E p \in Persons :
             AddStakeholder(a, pr, p) \/ InviteStakeholder(a, pr, p) \/ RemoveStakeholder(a, pr, p)
  BY DEF ProjectSteps, ProjectRequest
<1>2. ASSUME NEW w \in Workspaces, CreateProject(a, w, pr) PROVE Anchored'
  <2>1. \A i \in InviteIds : invites[i] # NULL => invites[i].project # pr
    BY <1>2 DEF CreateProject, InviteRow
  <2>2. stakeholders[pr] = {} /\ workspaces[w] # NULL
    BY <1>2 DEF CreateProject, Can
  <2> QED BY <1>2, <2>1, <2>2 DEF CreateProject
<1>3. CASE DeleteProject(a, pr)
  BY <1>3 DEF DeleteProject, InvitesWithoutProject
<1>4. ASSUME NEW p \in Persons, AddStakeholder(a, pr, p) PROVE Anchored'
  BY <1>4 DEF AddStakeholder, SameOrg
<1>5. ASSUME NEW p \in Persons, InviteStakeholder(a, pr, p) PROVE Anchored'
  <2>1. projects[pr] # NULL /\ workspaces[projects[pr]] # NULL
    BY <1>5 DEF InviteStakeholder
  <2>2. ASSUME NEW i \in PendingForProject(pr, p),
               invites' = [invites EXCEPT ![i] = Reissued(i, invites[i].role)]
        PROVE  InvitesAnchored'
    <3>1. i \in InviteIds /\ invites[i] # NULL
      BY <2>2 DEF PendingForProject
    <3> QED BY <1>5, <2>2, <3>1, ReissuedKeeps, SameAnchor DEF InviteStakeholder
  <2>3. ASSUME NEW i \in InviteIds,
               invites' = [invites EXCEPT ![i] = NewInvite(projects[pr], pr, p, "developer")]
        PROVE  InvitesAnchored'
    BY <1>5, <2>1, <2>3 DEF InviteStakeholder, NewInvite
  <2> QED BY <1>5, <2>2, <2>3 DEF InviteStakeholder
<1>6. ASSUME NEW p \in Persons, RemoveStakeholder(a, pr, p) PROVE Anchored'
  BY <1>6 DEF RemoveStakeholder
<1> QED BY <1>1, <1>2, <1>3, <1>4, <1>5, <1>6

\* An account keeps its organization, and takes memberships and seats with it.
LEMMA AdminStepsAnchored ==
  ASSUME TypeOK, Anchored, AdminSteps PROVE Anchored'
<1> USE DEF TypeOK, Anchored, MembersInOrg, InvitesAnchored
<1>1. ASSUME NEW a \in Persons, NEW p \in Persons, DeleteUser(a, p) PROVE Anchored'
  BY <1>1 DEF DeleteUser
<1>2. ASSUME NEW a \in Persons, NEW p \in Persons, NEW r \in GrantRoles \cup {NULL},
             NEW arg \in ActiveArgs, UpdateUser(a, p, r, arg)
      PROVE Anchored'
  <2>1. users'[p] \in UserRow /\ users'[p].org = users[p].org
    <3>1. (arg = "true") \in BOOLEAN
      OBVIOUS
    <3>2. users[p] \in UserRow
      BY <1>2 DEF UpdateUser
    <3> QED BY <1>2, <3>1, <3>2 DEF UpdateUser, UserRow
  <2> QED BY <1>2, <2>1 DEF UpdateUser
<1> QED BY <1>1, <1>2 DEF AdminSteps, AdminRequest

\* Neither is inductive alone: accepting an invitation gives a seat in the
\* project its row names.
LEMMA AnchoredAlways == Spec => [](MembersInOrg /\ InvitesAnchored)
<1>1. Init => Anchored
  BY DEF Init, Anchored, MembersInOrg, InvitesAnchored
<1>2. TypeOK /\ Anchored /\ [Next]_vars => Anchored'
  <2>1. CASE UNCHANGED vars
    BY <2>1 DEF vars, Anchored, MembersInOrg, InvitesAnchored
  <2> QED
    BY <2>1, RegistrationAnchored, WorkspaceStepsAnchored, InviteStepsAnchored,
       ProjectStepsAnchored, AdminStepsAnchored DEF Next
<1> QED BY <1>1, <1>2, TypeCorrect, PTL DEF Spec, Anchored

\* No membership, seat or project crosses an organization or outlives what it
\* refers to (permissions.js and the cascades of schema.sql).
THEOREM MembersAlwaysInOrg == Spec => []MembersInOrg
BY AnchoredAlways, PTL

\* No invitation outlives its workspace or project, or leads to a project of
\* another workspace (workspaces.js 100-125, projects.js, the cascades).
THEOREM InvitesAlwaysAnchored == Spec => []InvitesAnchored
BY AnchoredAlways, PTL

------------------------------------------------------------------------------
(* One invitation at a time.                                               *)

\* Rows that keep what they are for, none of them becoming pending, stay apart.
LEMMA KeptRows ==
  ASSUME OnePendingInvite,
         \A i \in InviteIds : invites'[i] # NULL =>
           /\ invites[i] # NULL
           /\ invites'[i].ws = invites[i].ws
           /\ invites'[i].project = invites[i].project
           /\ invites'[i].email = invites[i].email
           /\ invites'[i].status = "pending" => invites[i].status = "pending"
  PROVE  OnePendingInvite'
BY DEF OnePendingInvite

\* So does a new row nobody pending is for.
LEMMA AddedRow ==
  ASSUME TypeOK, OnePendingInvite, NEW k \in InviteIds, invites[k] = NULL, NEW row,
         \A j \in InviteIds :
           ~ /\ invites[j] # NULL /\ invites[j].status = "pending"
             /\ invites[j].ws = row.ws /\ invites[j].project = row.project
             /\ invites[j].email = row.email,
         invites' = [invites EXCEPT ![k] = row]
  PROVE  OnePendingInvite'
<1>1. invites'[k] = row
  BY DEF TypeOK
<1>2. \A j \in InviteIds : j # k => invites'[j] = invites[j]
  BY DEF TypeOK
<1> QED BY <1>1, <1>2 DEF OnePendingInvite

\* A colleague or a client is asked into a workspace or a project by one pending
\* invitation at most: asking again looks the pending row up and reissues it.
THEOREM OnePendingAlways == Spec => []OnePendingInvite
<1>1. Init => OnePendingInvite
  BY DEF Init, OnePendingInvite
<1>2. TypeOK /\ OnePendingInvite /\ [Next]_vars => OnePendingInvite'
  <2> SUFFICES ASSUME TypeOK, OnePendingInvite, [Next]_vars PROVE OnePendingInvite'
    OBVIOUS
  <2>1. ASSUME UNCHANGED invites PROVE OnePendingInvite'
    BY <2>1, KeptRows
  <2>2. ASSUME NEW i \in InviteIds, invites[i] # NULL, NEW row,
               row.ws = invites[i].ws, row.project = invites[i].project,
               row.email = invites[i].email,
               row.status = "pending" => invites[i].status = "pending",
               invites' = [invites EXCEPT ![i] = row]
        PROVE  OnePendingInvite'
    BY <2>2, KeptRows DEF TypeOK
  <2>3. ASSUME NEW a \in Persons, NEW w \in Workspaces, DeleteWorkspace(a, w)
        PROVE  OnePendingInvite'
    BY <2>3, KeptRows DEF DeleteWorkspace
  <2>4. ASSUME NEW a \in Persons, NEW w \in Workspaces, NEW p \in Persons,
               NEW r \in GrantRoles, InviteMember(a, w, p, r)
        PROVE  OnePendingInvite'
    <3>1. ASSUME NEW i \in PendingFor(w, p),
                 invites' = [invites EXCEPT ![i] = Reissued(i, InviteRoleOf(r))]
          PROVE  OnePendingInvite'
      <4>1. i \in InviteIds /\ invites[i] # NULL
        BY <3>1 DEF PendingFor
      <4> QED BY <2>2, <3>1, <4>1, ReissuedKeeps
    <3>2. ASSUME NEW i \in InviteIds, PendingFor(w, p) = {}, FreeInvite(i),
                 invites' = [invites EXCEPT ![i] = NewInvite(w, NULL, p, InviteRoleOf(r))]
          PROVE  OnePendingInvite'
      <4>1. \A j \in InviteIds :
              ~ /\ invites[j] # NULL /\ invites[j].status = "pending"
                /\ invites[j].ws = w /\ invites[j].project = NULL
                /\ invites[j].email = p
        BY <3>2 DEF PendingFor
      <4>2. invites[i] = NULL
        BY <3>2 DEF FreeInvite
      <4> DEFINE row == NewInvite(w, NULL, p, InviteRoleOf(r))
      <4>3. row.ws = w /\ row.project = NULL /\ row.email = p
        BY DEF NewInvite
      <4>4. invites' = [invites EXCEPT ![i] = row]
        BY <3>2
      <4> HIDE DEF row
      <4> QED BY ZenonT(30), <4>1, <4>2, <4>3, <4>4, AddedRow
    <3> QED BY <2>4, <3>1, <3>2 DEF InviteMember
  <2>5. ASSUME NEW a \in Persons, NEW pr \in Projects, NEW p \in Persons,
               InviteStakeholder(a, pr, p)
        PROVE  OnePendingInvite'
    <3>1. ASSUME NEW i \in PendingForProject(pr, p),
                 invites' = [invites EXCEPT ![i] = Reissued(i, invites[i].role)]
          PROVE  OnePendingInvite'
      <4>1. i \in InviteIds /\ invites[i] # NULL
        BY <3>1 DEF PendingForProject
      <4> QED BY <2>2, <3>1, <4>1, ReissuedKeeps
    <3>2. ASSUME NEW i \in InviteIds, PendingForProject(pr, p) = {}, FreeInvite(i),
                 invites' = [invites EXCEPT ![i] =
                               NewInvite(projects[pr], pr, p, "developer")]
          PROVE  OnePendingInvite'
      <4>1. \A j \in InviteIds :
              ~ /\ invites[j] # NULL /\ invites[j].status = "pending"
                /\ invites[j].ws = projects[pr] /\ invites[j].project = pr
                /\ invites[j].email = p
        BY <3>2 DEF PendingForProject
      <4>2. invites[i] = NULL
        BY <3>2 DEF FreeInvite
      <4> DEFINE row == NewInvite(projects[pr], pr, p, "developer")
      <4>3. row.ws = projects[pr] /\ row.project = pr /\ row.email = p
        BY DEF NewInvite
      <4>4. invites' = [invites EXCEPT ![i] = row]
        BY <3>2
      <4> HIDE DEF row
      <4>5. \A j \in InviteIds :
              ~ /\ invites[j] # NULL /\ invites[j].status = "pending"
                /\ invites[j].ws = row.ws /\ invites[j].project = row.project
                /\ invites[j].email = row.email
        BY <4>1, <4>3
      <4>6. TypeOK /\ OnePendingInvite
        OBVIOUS
      <4> QED BY <4>2, <4>4, <4>5, <4>6, AddedRow
    <3> QED BY <2>5, <3>1, <3>2 DEF InviteStakeholder
  <2>6. ASSUME NEW a \in Persons, NEW i \in InviteIds, RevokeInvite(a, i)
        PROVE  OnePendingInvite'
    BY ZenonT(30), <2>2, <2>6 DEF RevokeInvite, InviteRow, TypeOK
  <2>7. ASSUME NEW i \in InviteIds, ExpireInvite(i) PROVE OnePendingInvite'
    BY ZenonT(30), <2>2, <2>7 DEF ExpireInvite, InviteRow, TypeOK
  <2>8. ASSUME NEW p \in Persons, NEW i \in InviteIds, AcceptInvite(p, i)
        PROVE  OnePendingInvite'
    <3>1. invites[i] \in InviteRow
      BY <2>8 DEF AcceptInvite, Acceptable, TypeOK
    <3>2. /\ invites[i] # NULL /\ invites[i].status = "pending"
          /\ invites' = [invites EXCEPT ![i].status = "accepted"]
      BY <2>8 DEF AcceptInvite, Acceptable
    <3> QED BY <2>2, <3>1, <3>2 DEF InviteRow
  <2>9. ASSUME NEW a \in Persons, NEW pr \in Projects, DeleteProject(a, pr)
        PROVE  OnePendingInvite'
    BY <2>9, KeptRows DEF DeleteProject, InvitesWithoutProject
  <2>10. CASE UNCHANGED vars
    BY <2>1, <2>10 DEF vars
  <2>11. CASE Registration \/ Boot
    BY <2>1, <2>11 DEF Registration, RegisterFounding, RegisterFoundingCut,
       RegisterInvited, Boot
  <2>12. CASE WorkspaceSteps
    BY <2>1, <2>3, <2>4, <2>12 DEF WorkspaceSteps, WorkspaceRequest, CreateWorkspace, AddMember,
       ChangeMemberRole, RemoveMember
  <2>13. CASE InviteSteps
    BY <2>6, <2>7, <2>8, <2>13 DEF InviteSteps, InviteRequest
  <2>14. CASE ProjectSteps
    BY <2>1, <2>5, <2>9, <2>14 DEF ProjectSteps, ProjectRequest, CreateProject, AddStakeholder,
       RemoveStakeholder
  <2>15. CASE AdminSteps
    BY <2>1, <2>15 DEF AdminSteps, AdminRequest, UpdateUser, DeleteUser
  <2> QED BY <2>10, <2>11, <2>12, <2>13, <2>14, <2>15 DEF Next
<1> QED BY <1>1, <1>2, TypeCorrect, PTL DEF Spec

------------------------------------------------------------------------------
(* Ownership.  What one step may do to it, and why no step does otherwise.  *)

\* A new account is an owner of what it founds, or by the boot seed.
FoundersOwn ==
  \A p \in Persons : users[p] = NULL /\ OwnsOrg(p)' => users'[p].org > orgCount \/ p = AdminEmail

\* Rank owner in an organization changes by requests of its owners only.
RanksByOwners ==
  \A p \in Persons : users[p] # NULL /\ OwnsOrg(p)' # OwnsOrg(p) =>
    \A a \in Persons :
      SignedIn(a) /\ ~(OwnsOrg(a) /\ users[a].org = users[p].org) => ~Request(a)

\* An owner's seat in a workspace changes by requests of whoever acts as its
\* owner, or its holder leaves.
SeatsByOwners ==
  \A w \in Workspaces, p \in Persons :
    /\ workspaces[w] # NULL /\ workspaces'[w] # NULL
    /\ OwnsWorkspace(p, w)' # OwnsWorkspace(p, w)
    => \A a \in Persons :
         SignedIn(a) /\ ~Can(a, w, "owner") => ~Request(a) \/ (a = p /\ OwnsWorkspace(p, w))

\* The last owner of a workspace leaves with their account.
OwnerLeavesWithAccount ==
  \A w \in Workspaces :
    /\ workspaces[w] # NULL /\ workspaces'[w] # NULL
    /\ \E p \in Persons : members[w][p] = "owner"
    /\ ~ \E p \in Persons : members'[w][p] = "owner"
    => \E p \in Persons : members[w][p] = "owner" /\ users'[p] = NULL

\* Registering with an invitation gives rank developer, founding a rank in a
\* new organization, and the other handlers make no accounts.
LEMMA FoundersOwnTheirs ==
  ASSUME TypeOK, [Next]_vars PROVE FoundersOwn
<1> SUFFICES ASSUME NEW p \in Persons, users[p] = NULL, OwnsOrg(p)', p # AdminEmail
             PROVE  users'[p].org > orgCount
  BY DEF FoundersOwn
<1>1. CASE users' = users
  BY <1>1 DEF OwnsOrg
<1>2. ASSUME NEW q \in Persons, users[q] = NULL, orgCount + 1 \in Orgs,
             users' = [users EXCEPT ![q] = NewUser(orgCount + 1, "owner")]
      PROVE  users'[p].org > orgCount
  <2>1. q = p
    BY <1>2 DEF OwnsOrg, TypeOK
  <2>2. users'[p].org = orgCount + 1
    BY <1>2, <2>1 DEF TypeOK, NewUser
  <2> QED BY <2>2 DEF TypeOK
<1>3. ASSUME NEW q \in Persons, NEW w \in Workspaces,
             users' = [users EXCEPT ![q] = NewUser(workspaces[w], "developer")]
      PROVE  FALSE
  BY <1>3 DEF OwnsOrg, TypeOK, NewUser
<1>4. CASE Boot
  BY <1>4 DEF Boot, OwnsOrg, TypeOK
<1>5. ASSUME NEW a \in Persons, NEW q \in Persons, DeleteUser(a, q) PROVE FALSE
  BY <1>5 DEF DeleteUser, OwnsOrg, TypeOK
<1>6. ASSUME NEW a \in Persons, NEW q \in Persons, NEW r \in GrantRoles \cup {NULL},
             NEW arg \in ActiveArgs, UpdateUser(a, q, r, arg)
      PROVE  FALSE
  BY <1>6 DEF UpdateUser, OwnsOrg, TypeOK
<1> QED BY <1>1, <1>2, <1>3, <1>4, <1>5, <1>6, AccountSteps

\* Of the requests, only those to /admin/users write accounts, and they ask for
\* an owner of the same organization when ownership is touched.
LEMMA OwnersChangeRanks ==
  ASSUME TypeOK PROVE RanksByOwners
<1> SUFFICES ASSUME NEW p \in Persons, users[p] # NULL, OwnsOrg(p)' # OwnsOrg(p),
                    NEW a \in Persons, Request(a)
             PROVE  OwnsOrg(a) /\ users[a].org = users[p].org
  BY DEF RanksByOwners
<1>1. users' # users
  BY DEF OwnsOrg
<1>2. ~WorkspaceRequest(a)
  BY <1>1 DEF WorkspaceRequest, CreateWorkspace, DeleteWorkspace, AddMember, InviteMember,
     ChangeMemberRole, RemoveMember
<1>3. ~InviteRequest(a)
  BY <1>1 DEF InviteRequest, RevokeInvite, AcceptInvite
<1>4. ~ProjectRequest(a)
  BY <1>1 DEF ProjectRequest, CreateProject, DeleteProject, AddStakeholder, InviteStakeholder,
     RemoveStakeholder
<1>5. ASSUME NEW q \in Persons, DeleteUser(a, q)
      PROVE  OwnsOrg(a) /\ users[a].org = users[p].org
  <2>1. q = p
    BY <1>5 DEF DeleteUser, OwnsOrg, TypeOK
  <2> QED BY <1>5, <2>1 DEF DeleteUser, OwnsOrg, SignedIn
<1>6. ASSUME NEW q \in Persons, NEW r \in GrantRoles \cup {NULL}, NEW arg \in ActiveArgs,
             UpdateUser(a, q, r, arg)
      PROVE  OwnsOrg(a) /\ users[a].org = users[p].org
  <2>1. q = p
    BY <1>6 DEF UpdateUser, OwnsOrg, TypeOK
  <2>2. users'[p] = [org |-> users[p].org, role |-> IF r = NULL THEN users[p].role ELSE r,
                     active |-> arg = "true"]
    BY <1>6, <2>1 DEF UpdateUser, TypeOK
  <2>3. users'[p] # NULL
    <3>1. users[p] \in UserRow /\ (arg = "true") \in BOOLEAN
      BY DEF TypeOK
    <3>2. (IF r = NULL THEN users[p].role ELSE r) \in Roles
      BY <3>1, GrantRolesAreRoles DEF UserRow
    <3>3. users'[p] \in UserRow
      BY <2>2, <3>1, <3>2 DEF UserRow
    <3> QED BY <3>3, NullIsNoRecord
  <2>4. r # NULL /\ "owner" \in {r, users[p].role}
    BY <2>2, <2>3 DEF OwnsOrg
  <2>5. users[a].role = "owner"
    BY <1>6, <2>1, <2>4 DEF UpdateUser, MayChangeRole
  <2> QED BY <1>6, <2>1, <2>5 DEF UpdateUser, OrgAdmin, SignedIn, OwnsOrg
<1> QED BY <1>2, <1>3, <1>4, <1>5, <1>6 DEF Request, AdminRequest

\* One seat of one workspace changes.
LEMMA SeatChanged ==
  ASSUME TypeOK, NEW w \in Workspaces, NEW p \in Persons, NEW r,
         members' = [members EXCEPT ![w][p] = r]
  PROVE  \A v \in Workspaces, q \in Persons :
           members'[v][q] = IF v = w /\ q = p THEN r ELSE members[v][q]
<1>1. members[w] \in [Persons -> Roles \cup {NULL}]
  BY DEF TypeOK
<1> QED BY <1>1 DEF TypeOK

\* Accepting an invitation gives a seat to somebody who has none, below owner.
LEMMA AcceptedSeat ==
  ASSUME TypeOK, NEW a \in Persons, NEW i \in InviteIds, AcceptInvite(a, i)
  PROVE  \A v \in Workspaces, q \in Persons :
           \/ members'[v][q] = members[v][q]
           \/ members[v][q] = NULL /\ members'[v][q] # "owner"
<1>1. invites[i] \in InviteRow
  BY DEF AcceptInvite, Acceptable, TypeOK
<1>2. invites[i].ws \in Workspaces /\ invites[i].role # "owner"
  BY <1>1 DEF InviteRow, InviteRoles
<1>3. CASE UNCHANGED members
  BY <1>3
<1>4. CASE members' = [members EXCEPT ![invites[i].ws][a] =
                         IF @ = NULL THEN invites[i].role ELSE @]
  <2>1. members[invites[i].ws] \in [Persons -> Roles \cup {NULL}]
    BY <1>2 DEF TypeOK
  <2>2. \A v \in Workspaces, q \in Persons :
          members'[v][q] = IF v = invites[i].ws /\ q = a
                           THEN IF members[v][q] = NULL THEN invites[i].role ELSE members[v][q]
                           ELSE members[v][q]
    BY <1>2, <1>4, <2>1 DEF TypeOK
  <2> QED BY <1>2, <2>2
<1> QED BY <1>3, <1>4 DEF AcceptInvite

\* Whoever gives the role of an owner to somebody acts as one, and so does
\* whoever takes it from somebody else; an account is deleted by an owner of its
\* organization, which is the one of the workspaces it is in.
LEMMA OwnersChangeSeats ==
  ASSUME TypeOK, MembersInOrg PROVE SeatsByOwners
<1> SUFFICES ASSUME NEW w \in Workspaces, NEW p \in Persons, NEW a \in Persons,
                    workspaces[w] # NULL, workspaces'[w] # NULL,
                    OwnsWorkspace(p, w)' # OwnsWorkspace(p, w), Request(a)
             PROVE  Can(a, w, "owner") \/ (a = p /\ OwnsWorkspace(p, w))
  BY DEF SeatsByOwners
<1> DEFINE Owner == Can(a, w, "owner") \/ (a = p /\ OwnsWorkspace(p, w))
<1> USE DEF OwnsWorkspace
<1>1. members'[w][p] # members[w][p]
  OBVIOUS
<1>2. NULL # "owner"
  BY NullIsNoRole DEF Roles
<1>3. ASSUME NEW v \in Workspaces, CreateWorkspace(a, v) PROVE Owner
  <2>1. v = w
    BY <1>1, <1>3, SeatChanged DEF CreateWorkspace
  <2> QED BY <1>3, <2>1 DEF CreateWorkspace
<1>4. ASSUME NEW v \in Workspaces, DeleteWorkspace(a, v) PROVE Owner
  <2>1. v # w
    BY <1>4 DEF DeleteWorkspace, TypeOK
  <2> QED BY <1>1, <1>4, <2>1 DEF DeleteWorkspace, TypeOK
<1>5. ASSUME NEW v \in Workspaces, NEW q \in Persons, NEW r \in GrantRoles, AddMember(a, v, q, r)
      PROVE  Owner
  <2>1. InviteRoleOf(r) # "owner"
    BY InviteRoleOfType DEF InviteRoles
  <2>2. v = w /\ q = p /\ members[w][p] = NULL /\ members'[w][p] = InviteRoleOf(r)
    BY <1>1, <1>5, SeatChanged DEF AddMember
  <2> QED BY <1>2, <2>1, <2>2
<1>6. ASSUME NEW v \in Workspaces, NEW q \in Persons, NEW r \in GrantRoles,
             ChangeMemberRole(a, v, q, r)
      PROVE  Owner
  <2>1. members' = [members EXCEPT ![v][q] = r]
    BY <1>6 DEF ChangeMemberRole
  <2>2. v = w /\ q = p /\ members'[w][p] = r
    BY <1>1, <2>1, SeatChanged
  <2>3. "owner" \in {members[w][p], r}
    BY <2>2
  <2> QED BY <1>6, <2>2, <2>3 DEF ChangeMemberRole, RoleNeeded
<1>7. ASSUME NEW v \in Workspaces, NEW q \in Persons, RemoveMember(a, v, q) PROVE Owner
  <2>1. members' = [members EXCEPT ![v][q] = NULL]
    BY <1>7 DEF RemoveMember
  <2>2. v = w /\ q = p /\ members'[w][p] = NULL
    BY <1>1, <2>1, SeatChanged
  <2>3. members[w][p] = "owner"
    BY <1>2, <2>2
  <2> QED BY <1>7, <2>2, <2>3 DEF RemoveMember, RoleNeeded
<1>8. ASSUME NEW i \in InviteIds, AcceptInvite(a, i) PROVE Owner
  BY <1>2, <1>8, AcceptedSeat
<1>9. ASSUME NEW q \in Persons, DeleteUser(a, q) PROVE Owner
  <2>1. q = p /\ members[w][p] = "owner"
    BY <1>2, <1>9 DEF DeleteUser, TypeOK
  <2>2. users[p].org = workspaces[w]
    BY <1>2, <2>1 DEF MembersInOrg
  <2>3. RoleFor(a, w) = "owner"
    BY <1>9, <2>1, <2>2 DEF DeleteUser, RoleFor
  <2> QED BY <1>9, <2>3 DEF DeleteUser, Can, AtLeast, Rank, Roles
<1> QED
  BY <1>1, <1>3, <1>4, <1>5, <1>6, <1>7, <1>8, <1>9 DEF Request, AdminRequest, UpdateUser,
     WorkspaceRequest, InviteMember, InviteRequest, RevokeInvite, ProjectRequest, CreateProject,
     DeleteProject, AddStakeholder, InviteStakeholder, RemoveStakeholder

\* Ownership, of an organization or a workspace, is handed on and taken away by
\* the requests of its owners alone, through any sequence of calls of any number
\* of accounts: admins, invitations and the adding of members give lower ranks
\* (admin.js 125-150, 165-190, workspaces.js 90-170, invites.js 40-70).
THEOREM OwnershipAlwaysFromOwners == Spec => OwnershipFromOwners
<1>1. TypeOK /\ MembersInOrg /\ [Next]_vars => [FoundersOwn /\ RanksByOwners /\ SeatsByOwners]_vars
  BY FoundersOwnTheirs, OwnersChangeRanks, OwnersChangeSeats
<1> QED
  BY <1>1, TypeCorrect, MembersAlwaysInOrg, PTL
  DEF Spec, OwnershipFromOwners, FoundersOwn, RanksByOwners, SeatsByOwners

\* No membership operation takes the last owner: those that take an owner's
\* row or role look for another one first.
LEMMA LastOwnerStays ==
  ASSUME TypeOK, [Next]_vars PROVE OwnerLeavesWithAccount
<1>1. CASE UNCHANGED members
  BY <1>1 DEF OwnerLeavesWithAccount
<1>2. ASSUME NEW a \in Persons, NEW w \in Workspaces, CreateWorkspace(a, w)
      PROVE  OwnerLeavesWithAccount
  BY <1>2, SeatChanged DEF CreateWorkspace, OwnerLeavesWithAccount
<1>3. ASSUME NEW a \in Persons, NEW w \in Workspaces, DeleteWorkspace(a, w)
      PROVE  OwnerLeavesWithAccount
  <2>1. workspaces'[w] = NULL
    BY <1>3 DEF DeleteWorkspace, TypeOK
  <2>2. \A v \in Workspaces : v # w => members'[v] = members[v]
    BY <1>3 DEF DeleteWorkspace, TypeOK
  <2> QED BY <2>1, <2>2 DEF OwnerLeavesWithAccount
<1>4. ASSUME NEW a \in Persons, NEW w \in Workspaces, NEW p \in Persons,
             NEW r \in GrantRoles, AddMember(a, w, p, r)
      PROVE  OwnerLeavesWithAccount
  <2>1. members[w][p] # "owner"
    BY <1>4, NullIsNoRole DEF AddMember, Roles
  <2> QED BY <1>4, <2>1, SeatChanged DEF AddMember, OwnerLeavesWithAccount
<1>5. ASSUME NEW a \in Persons, NEW w \in Workspaces, NEW p \in Persons,
             NEW r \in GrantRoles, ChangeMemberRole(a, w, p, r)
      PROVE  OwnerLeavesWithAccount
  <2>1. /\ members' = [members EXCEPT ![w][p] = r]
        /\ members[w][p] = "owner" /\ r # "owner" =>
             \E q \in Persons \ {p} : members[w][q] = "owner"
    BY <1>5 DEF ChangeMemberRole, AnotherWorkspaceOwner
  <2> QED BY <2>1, SeatChanged DEF OwnerLeavesWithAccount
<1>6. ASSUME NEW a \in Persons, NEW w \in Workspaces, NEW p \in Persons, RemoveMember(a, w, p)
      PROVE  OwnerLeavesWithAccount
  <2>1. /\ members' = [members EXCEPT ![w][p] = NULL]
        /\ members[w][p] = "owner" => \E q \in Persons \ {p} : members[w][q] = "owner"
    BY <1>6 DEF RemoveMember, AnotherWorkspaceOwner
  <2> QED BY <2>1, SeatChanged DEF OwnerLeavesWithAccount
<1>7. ASSUME NEW a \in Persons, NEW i \in InviteIds, AcceptInvite(a, i)
      PROVE  OwnerLeavesWithAccount
  <2>1. NULL # "owner"
    BY NullIsNoRole DEF Roles
  <2> QED BY <1>7, <2>1, AcceptedSeat DEF OwnerLeavesWithAccount
<1>8. ASSUME NEW a \in Persons, NEW p \in Persons, DeleteUser(a, p)
      PROVE  OwnerLeavesWithAccount
  <2>1. users'[p] = NULL
    BY <1>8 DEF DeleteUser, TypeOK
  <2>2. \A w \in Workspaces, q \in Persons : q # p => members'[w][q] = members[w][q]
    BY <1>8 DEF DeleteUser, TypeOK
  <2> QED BY <2>1, <2>2 DEF OwnerLeavesWithAccount
<1> QED
  BY <1>1, <1>2, <1>3, <1>4, <1>5, <1>6, <1>7, <1>8 DEF Next, vars, Registration, RegisterFounding,
     RegisterFoundingCut, RegisterInvited, Boot, AdminSteps, AdminRequest, UpdateUser,
     WorkspaceSteps, WorkspaceRequest, InviteMember, InviteSteps, InviteRequest, RevokeInvite,
     ExpireInvite, ProjectSteps, ProjectRequest, CreateProject,
     DeleteProject, AddStakeholder, InviteStakeholder, RemoveStakeholder

\* A workspace that has an owner keeps one, for any number of members and
\* whatever they do to one another, until the account of its last owner is
\* deleted (the two counts of workspaces.js 143-146 and 166-169).
THEOREM LastOwnerAlwaysStays == Spec => LastOwnerLeavesOnlyWithAccount
<1>1. TypeOK /\ [Next]_vars => [OwnerLeavesWithAccount]_vars
  BY LastOwnerStays
<1> QED
  BY <1>1, TypeCorrect, PTL DEF Spec, LastOwnerLeavesOnlyWithAccount, OwnerLeavesWithAccount
==============================================================================
