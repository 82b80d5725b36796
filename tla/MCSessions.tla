------------------------------ MODULE MCSessions ------------------------------
(* Instances of Sessions for TLC.                                          *)
EXTENDS Sessions, TLC

\* Accounts and the rows of each table are interchangeable.
Symmetry ==
  Permutations(Users) \cup Permutations(SessionIds) \cup Permutations(Links)
    \cup Permutations(Attempts) \cup Permutations(Codes)
==============================================================================
