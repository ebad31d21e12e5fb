--------------------------- MODULE MCAuthLockout ---------------------------
(* Small instances of AuthLockout: one client and the TGS, the two         *)
(* principals an AS_REQ touches.                                            *)
EXTENDS AuthLockout

CONSTANTS t1, t2, alice, krbtgt

TwoThreads == {t1, t2}
Principals == {alice, krbtgt}
=============================================================================
