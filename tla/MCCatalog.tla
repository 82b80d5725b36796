------------------------------ MODULE MCCatalog ------------------------------
(* Finite instance of Catalog for TLC.                                     *)
EXTENDS Catalog
CONSTANTS a, b, ab
\* "a, b" is one label to the settings and two to the form.
MCParts == [n \in {a, b, ab} |-> IF n = ab THEN {a, b} ELSE {n}]
MCSeeded == <<a, b>>
\* The clients are interchangeable.
Symmetry == Permutations(Clients)
==============================================================================
