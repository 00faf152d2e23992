------------------------- MODULE MC_RefreshCoordinator -------------------------
(* Model values for RefreshCoordinator; tabs and tokens are interchangeable. *)
EXTENDS RefreshCoordinator, TLC

Symmetry == Permutations(Tabs) \cup Permutations(Tokens)

===============================================================================
