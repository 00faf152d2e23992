---------------------------- MODULE MC_AuthSessions ----------------------------
(* Model values for AuthSessions; tokens and requests are interchangeable. *)
EXTENDS AuthSessions, TLC

Symmetry == Permutations(Tokens) \cup Permutations(Requests)

===============================================================================
