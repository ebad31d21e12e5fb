------------------------------- MODULE Formats -------------------------------
(***************************************************************************)
(* The two layers that carry the protocol, each on its own: the messages   *)
(* and the cache file (Wire), and the encryption of one of them (Crypto).  *)
(* Wire takes for granted what Crypto shows, that what was encrypted comes *)
(* out whole or not at all.                                                *)
(***************************************************************************)
EXTENDS Wire, Crypto

VARIABLE layer

vars == <<layer, wireVars, cryptoVars>>

Init == WireInit /\ CryptoInit /\ layer \in {"wire", "crypto"}

Next ==
    \/ layer = "wire" /\ WireNext /\ UNCHANGED <<layer, cryptoVars>>
    \/ layer = "crypto" /\ CryptoNext /\ UNCHANGED <<layer, wireVars>>

Spec == Init /\ [][Next]_vars
=============================================================================
