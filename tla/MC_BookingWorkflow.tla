------------------------ MODULE MC_BookingWorkflow ------------------------
(* Instances of BookingWorkflow for TLC. *)
EXTENDS BookingWorkflow, TLC

\* Consoles and calls are interchangeable.
Symmetry == Permutations(Staff) \cup Permutations(Calls)
=============================================================================
