------------------------------- MODULE MCRealms -------------------------------
(***************************************************************************)
(* Realms with the default principals: one realm leads to the other and    *)
(* not back, and a file server stands in each.                             *)
(***************************************************************************)
EXTENDS Realms, TLC

CONSTANTS demo, partner, alice, charlie, fileserver, users, admins

At2(local, realm) == [local |-> local, realm |-> realm]

DefaultPrincipals ==
    {At2(alice, demo), At2(charlie, partner), At2(fileserver, demo),
     At2(fileserver, partner), Tgs(demo, demo), Tgs(partner, partner),
     Tgs(demo, partner)}

Groups ==
    (At2(alice, demo) :> {users, admins}) @@ (At2(charlie, partner) :> {users})

InKeytab == {At2(fileserver, demo), At2(fileserver, partner)}

ProcessesAreAlike == Permutations(Process)
=============================================================================
