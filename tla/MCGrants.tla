------------------------------- MODULE MCGrants -------------------------------
(* Instances of Grants for TLC.                                            *)
EXTENDS Grants, TLC

\* Accounts, codes and tokens are interchangeable.
Symmetry ==
  Permutations(Users) \cup Permutations(Codes) \cup Permutations(Pats)
    \cup Permutations(RefreshIds)
==============================================================================
