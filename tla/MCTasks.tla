------------------------------- MODULE MCTasks -------------------------------
(* Instances of Tasks for TLC.                                             *)
EXTENDS Tasks, TLC

\* Rows of a table are interchangeable, and so are the people.  Status names
\* are not: three of them are seeded.
Symmetry ==
  Permutations(Users) \cup Permutations(Workspaces) \cup Permutations(Projects)
    \cup Permutations(Sections) \cup Permutations(Tasks)
==============================================================================
