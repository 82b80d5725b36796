------------------------------ MODULE MCSecrets ------------------------------
(* Instances of Secrets for TLC.                                            *)
EXTENDS Secrets, TLC

\* Accounts, projects and secrets are interchangeable.
Symmetry == Permutations(Users) \cup Permutations(Projects) \cup Permutations(Secrets)
==============================================================================
