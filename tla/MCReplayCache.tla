--------------------------- MODULE MCReplayCache ---------------------------
(* Small instances of ReplayCache.  OneCtime: the client's clock reads 2, so *)
(* that it may be ahead of the server's or behind it.                        *)
EXTENDS ReplayCache, TLC

CONSTANTS t1, t2, a1

TwoThreads == {t1, t2}
OneAuth == {a1}
OneCtime == a1 :> 2
ThreadSymmetry == Permutations(TwoThreads)
=============================================================================
