----------------------------- MODULE MCKeyHistory -----------------------------
(***************************************************************************)
(* KeyHistory on small sets.                                               *)
(***************************************************************************)
EXTENDS KeyHistory, TLC

\* Administration processes differ in name only.
SessionsAreAlike == Permutations(Session)
=============================================================================
