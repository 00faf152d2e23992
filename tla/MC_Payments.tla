---------------------------- MODULE MC_Payments ----------------------------
(* Instances of Payments for TLC; deliveries are interchangeable. *)
EXTENDS Payments, TLC

Symmetry == Permutations(Deliveries) \cup Permutations(PaymentIDs)
=============================================================================
