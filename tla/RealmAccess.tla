------------------------------ MODULE RealmAccess ------------------------------
(***************************************************************************)
(* What users and services of two realms are promised: only a user whose   *)
(* password was proved is served, under its own name and in its own groups,*)
(* and only by a service of its realm or of one its realm leads to.        *)
(***************************************************************************)
CONSTANTS User, Service,     \* principals
          groupsOf,          \* the groups of each user
          Leads(_, _)        \* the realm of a user, of a service

VARIABLES proved,            \* users whose password was proved
          served             \* who was served, where and in which groups

Init == proved = {} /\ served = {}

Prove(user) ==
    /\ proved' = proved \cup {user}
    /\ UNCHANGED served

Serve(user, service) ==
    /\ user \in proved
    /\ Leads(user, service)
    /\ served' = served \cup
           {[client |-> user, service |-> service, groups |-> groupsOf[user]]}
    /\ UNCHANGED proved

Next ==
    \E user \in User :
        \/ Prove(user)
        \/ \E service \in Service : Serve(user, service)

Spec == Init /\ [][Next]_<<proved, served>>
=============================================================================
