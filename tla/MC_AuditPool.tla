---------------------------- MODULE MC_AuditPool ----------------------------
(* Instances of AuditPool for TLC. *)
EXTENDS AuditPool
=============================================================================
