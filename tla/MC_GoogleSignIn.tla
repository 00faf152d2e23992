-------------------------- MODULE MC_GoogleSignIn ---------------------------
(* Model values of GoogleSignIn for TLC. *)
EXTENDS GoogleSignIn, TLC

CONSTANTS s1, s2, e1, e2

\* The first Google account changes its address; the second has one of them.
MCIdentities == {<<s1, e1>>, <<s1, e2>>, <<s2, e1>>}
MCSymmetry == Permutations(Callbacks) \cup Permutations(States)
=============================================================================
