--------------------------- MODULE MCDelegationBudget ---------------------------
(* Four allocations of one task: a root, two children and a grandchild. *)
EXTENDS DelegationBudget, TLC

Interchangeable == Permutations(Allocations) \cup Permutations(Reservations)

=============================================================================
