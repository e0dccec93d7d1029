------------------------------ MODULE MCBuilder ------------------------------
(* Instance of Builder for TLC: two tabs, symmetric, and their rules. *)
EXTENDS Builder, TLC

Symmetry == Permutations(Tabs) \cup Permutations(Rules \ (Seeded \cup Drafted))

=============================================================================
