------------------------------ MODULE MCFormats ------------------------------
(***************************************************************************)
(* A client and a service of either realm.  A second has four ticks and    *)
(* two microseconds, so that times fall on, between and half way between   *)
(* the microseconds; a block has two bytes, and its cipher is any          *)
(* permutation; n-folds of one to three bytes to one to three.             *)
(***************************************************************************)
EXTENDS Formats

HomeRealm == "DEMO"
Clients == {[parts |-> <<"alice">>, realm |-> "DEMO"],
            [parts |-> <<"bob">>, realm |-> "PARTNER"]}
Services == {[parts |-> <<"fileserver", "localhost">>, realm |-> r] :
                 r \in {"DEMO", "PARTNER"}}
Strangers == {[parts |-> <<"print", "localhost">>, realm |-> "DEMO"]}

HomeKeys == {p \in Services : p.realm = HomeRealm} \cup {TGS_PRINCIPAL}

Permutation == {k \in [Block -> Block] : \A c \in Block : \E p \in Block : k[p] = c}
Bytes == UNION {[1..n -> {0, 1, 107, 255}] : n \in 1..3}
Lengths == 1..3

=============================================================================
