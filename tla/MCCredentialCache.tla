--------------------------- MODULE MCCredentialCache ---------------------------
(***************************************************************************)
(* CredentialCache on small sets.                                          *)
(***************************************************************************)
EXTENDS CredentialCache, TLC

\* Processes differ in name only, and so do clients.
NamesAreAlike == Permutations(Process) \cup Permutations(Client)
=============================================================================
