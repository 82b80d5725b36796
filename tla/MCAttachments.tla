----------------------------- MODULE MCAttachments -----------------------------
(* Instances of Attachments for TLC.                                        *)
EXTENDS Attachments, TLC

\* Accounts, tasks and file names are interchangeable.
Symmetry == Permutations(Users) \cup Permutations(Tasks) \cup Permutations(Files)
==============================================================================
