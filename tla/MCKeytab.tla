------------------------------- MODULE MCKeytab -------------------------------
(***************************************************************************)
(* Keytab with the file servers of two realms, whose short names are the   *)
(* same, and words so narrow that the second kvno no longer fits a byte.   *)
(***************************************************************************)
EXTENDS Keytab, TLC

CONSTANTS demo, partner, fileserver

AliasesOf == [p \in {demo, partner} |-> {fileserver}]
Defaults == <<demo, partner>>

\* Administration processes differ in name only.
SessionsAreAlike == Permutations(Session)
=============================================================================
