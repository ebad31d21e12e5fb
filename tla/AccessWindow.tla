---------------------------- MODULE AccessWindow ----------------------------
(***************************************************************************)
(* What tickets are for, with no ticket in sight: a client is served only  *)
(* if it asks within RENEWABLE_LIFETIME after it has proved its password,  *)
(* and disabling it stops new proofs at once.  All times are those of the  *)
(* KDC's clock: an application server whose clock lags keeps the window    *)
(* open for longer, and one that is slow to answer serves after its end.   *)
(***************************************************************************)
EXTENDS Integers

CONSTANTS Client, RENEWABLE_LIFETIME,
          Lag           \* how late the application server's clock is

VARIABLES clock,        \* the KDC's clock
          disabled,     \* disabled[c]
          disabledAt,   \* when c was last disabled
          proofs,       \* times at which c proved its password to the AS
          served        \* when c last asked and was served

accessVars == <<clock, disabled, disabledAt, proofs, served>>

Init ==
    /\ clock = 0
    /\ disabled = [c \in Client |-> FALSE]
    /\ disabledAt = [c \in Client |-> 0]
    /\ proofs = [c \in Client |-> {}]
    /\ served = [c \in Client |-> [asked |-> 0, at |-> 0]]

Pass == clock' = clock + 1 /\ UNCHANGED <<disabled, disabledAt, proofs, served>>

Disable(c) ==
    /\ ~disabled[c]
    /\ disabled' = [disabled EXCEPT ![c] = TRUE]
    /\ disabledAt' = [disabledAt EXCEPT ![c] = clock]
    /\ UNCHANGED <<clock, proofs, served>>

Enable(c) ==
    /\ disabled[c]
    /\ disabled' = [disabled EXCEPT ![c] = FALSE]
    /\ UNCHANGED <<clock, disabledAt, proofs, served>>

\* A proof that was under way when c was disabled carries an earlier time.
Prove(c) ==
    /\ \E now \in 0..clock :
           /\ disabled[c] => now <= disabledAt[c]
           /\ proofs' = [proofs EXCEPT ![c] = @ \cup {now}]
    /\ UNCHANGED <<clock, disabled, disabledAt, served>>

\* Whoever is served now asked inside the window of one of its proofs.
Grant(c) ==
    /\ \E proof \in proofs[c] :
           \E asked \in proof..(proof + RENEWABLE_LIFETIME + Lag) :
               /\ asked <= clock
               /\ served' = [served EXCEPT ![c] = [asked |-> asked, at |-> clock]]
    /\ UNCHANGED <<clock, disabled, disabledAt, proofs>>

Next ==
    \/ Pass
    \/ \E c \in Client : Disable(c) \/ Enable(c) \/ Prove(c) \/ Grant(c)

Spec == Init /\ [][Next]_accessVars
=============================================================================
