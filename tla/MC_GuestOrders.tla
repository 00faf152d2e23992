-------------------------- MODULE MC_GuestOrders ---------------------------
(***************************************************************************)
(* Model values and symmetry for checking GuestOrders with TLC.            *)
(***************************************************************************)
EXTENDS GuestOrders, TLC

Symmetry == Permutations(Requests) \cup Permutations(Accounts)
=============================================================================
