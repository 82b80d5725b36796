\* Two accounts use one browser, with one invitation, two workspaces and two more
\* to be made: navigation, changes, signing in and out while calls are under way.
SPECIFICATION PageSpec
CONSTANTS
  u1 = u1
  NULL = NULL
  w1 = w1
  w2 = w2
  w3 = w3
  w4 = w4
  u2 = u2
  p1 = p1
  Users = {u1, u2}
  Workspaces = {w1, w2, w3, w4}
  Projects = {p1}
  Persons = {m1}
  HomeOf <- MCHomes
  Invited = w2
  Invitee = u1
  MaxClicks = 3
  MaxCalls = 2
CONSTRAINTS Founded Numbered
CHECK_DEADLOCK FALSE
INVARIANTS ListsMatchScreen WorkspacesAreTheirs
PROPERTIES InvitePageStays BusyEnds
