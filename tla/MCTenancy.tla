------------------------------ MODULE MCTenancy ------------------------------
(* Finite instance of Tenancy for TLC.                                     *)
EXTENDS Tenancy, TLC

CONSTANT Third   \* the account that only ever joins one organization

ASSUME ThirdIsPerson == Third \in Persons

\* Workspaces, projects and invitation rows are interchangeable; accounts are
\* not, since ADMIN_EMAIL singles one out.
RowSymmetry ==
  Permutations(Workspaces) \cup Permutations(Projects) \cup Permutations(InviteIds)

\* Bound: two accounts live in up to two organizations with everything there is.
\* A third one is there to be promoted and demoted by the other two, which takes
\* one organization whose accounts are active, no project, workspaces with
\* owners only and the one invitation that brings it in.
ThirdIsThere == users[Third] # NULL \/ \E i \in InviteIds : invites[i] # NULL /\ invites[i].email = Third

ThirdInOneOrg ==
  ThirdIsThere =>
    /\ orgCount = 1
    /\ \A pr \in Projects : projects[pr] = NULL
    /\ \A p \in Persons : users[p] # NULL => users[p].active
    /\ \A w \in Workspaces, p \in Persons : members[w][p] \in {NULL, "owner"}
    /\ \A i \in InviteIds : invites[i] # NULL =>
         invites[i].email = Third /\ invites[i].status = "pending" /\ ~invites[i].expired
==============================================================================
