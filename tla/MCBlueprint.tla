---------------------------- MODULE MCBlueprint ----------------------------
(* Small blueprints for model checking Blueprint.                           *)
EXTENDS Blueprint, TLC

CONSTANTS n1, n2, l1, l2, l3, l4

Symmetry == Permutations({n1, n2}) \cup Permutations({l1, l2, l3, l4})

=============================================================================
