---------------------------- MODULE TicketsProofs ----------------------------
(***************************************************************************)
(* Proofs about Tickets, for every set of threads and clients and every    *)
(* lifetime that is a whole number of seconds.                             *)
(*                                                                         *)
(* What a ticket promises is checked when a request arrives and used when  *)
(* it is answered, so the inductive invariant says what each handler still *)
(* knows about the ticket it holds (Held, HeldByAp) next to the properties *)
(* of the tickets themselves.                                              *)
(***************************************************************************)
EXTENDS Tickets, TLAPS

-----------------------------------------------------------------------------
(* KerberosTime: cutting a time to whole seconds. *)

LEMMA CutParts ==
    ASSUME NEW t \in Nat
    PROVE  /\ Second \in Nat /\ Second > 0
           /\ t \div Second \in Nat
           /\ t % Second \in Nat /\ t % Second < Second
           /\ t = Second * (t \div Second) + (t % Second)
  BY SecondAssumption

LEMMA KrbTimeIs ==
    ASSUME NEW t \in Nat
    PROVE  /\ KrbTime(t) = Second * (t \div Second)
           /\ KrbTime(t) \in Nat /\ KrbTime(t) <= t /\ t < KrbTime(t) + Second
<1> DEFINE q == Second * (t \div Second)
           r == t % Second
<1>1. q \in Nat /\ r \in Nat /\ Second \in Nat /\ r < Second /\ t = q + r
  BY CutParts
<1>2. KrbTime(t) = t - r
  BY DEF KrbTime
<1>3. KrbTime(t) = q /\ q <= t /\ t < q + Second
  <2> HIDE DEF q, r
  <2>1. QED
    BY ONLY <1>1, <1>2
<1>4. QED
  BY <1>1, <1>3

\* Multiples of Second are ordered as their factors are.
LEMMA Multiples ==
    ASSUME NEW n \in Int, NEW m \in Int, n < m
    PROVE  Second * n + Second <= Second * m
<1>1. m - n \in Nat /\ m - n >= 1
  OBVIOUS
<1>2. Second * (m - n) >= Second
  BY <1>1, SecondAssumption
<1>3. Second * (m - n) = Second * m - Second * n
  BY SecondAssumption
<1>4. QED
  BY <1>2, <1>3, SecondAssumption

\* The order of times survives the cut.
LEMMA KrbTimeMonotonic ==
    ASSUME NEW s \in Nat, NEW t \in Nat, s <= t
    PROVE  KrbTime(s) <= KrbTime(t)
<1> DEFINE n == s \div Second
           m == t \div Second
<1>1. /\ n \in Nat /\ m \in Nat
      /\ s % Second \in Nat /\ s % Second < Second
      /\ t % Second \in Nat /\ t % Second < Second
      /\ s = Second * n + (s % Second)
      /\ t = Second * m + (t % Second)
  BY CutParts
<1>2. Second * n \in Nat /\ Second * m \in Nat /\ Second \in Nat
  BY <1>1, SecondAssumption
<1>3. ~(m < n)
  <2>1. SUFFICES ASSUME m < n PROVE FALSE
    OBVIOUS
  <2>2. Second * m + Second <= Second * n
    BY <1>1, <2>1, Multiples
  <2> HIDE DEF n, m
  <2>3. QED
    BY <1>1, <1>2, <2>2
<1>4. Second * n <= Second * m
  <2>1. CASE n = m
    BY <1>2, <2>1
  <2>2. CASE n < m
    BY <1>1, <1>2, <2>2, Multiples
  <2>3. QED
    BY <1>1, <1>3, <2>1, <2>2
<1>5. QED
  BY <1>4, KrbTimeIs

\* A whole number of seconds can be added before or after the cut.
LEMMA KrbTimeShift ==
    ASSUME NEW t \in Nat, NEW d \in Nat, d % Second = 0
    PROVE  KrbTime(t + d) = KrbTime(t) + d
<1> DEFINE n == t \div Second
           k == d \div Second
           m == (t + d) \div Second
           r == t % Second
           u == (t + d) % Second
<1>1. /\ n \in Nat /\ m \in Nat /\ k \in Nat
      /\ r \in Nat /\ r < Second /\ u \in Nat /\ u < Second
      /\ t = Second * n + r
      /\ t + d = Second * m + u
      /\ d = Second * k + 0
  <2>1. t + d \in Nat
    OBVIOUS
  <2>2. /\ k \in Nat /\ d = Second * k + (d % Second)
    BY CutParts
  <2>3. d = Second * k + 0
    BY ONLY <2>2, d % Second = 0
  <2>4. QED
    BY <2>1, <2>2, <2>3, CutParts
<1>2. /\ Second * n \in Nat /\ Second * k \in Nat /\ Second * m \in Nat
      /\ Second \in Nat
  BY <1>1, SecondAssumption
<1>3. Second * (n + k) = Second * n + Second * k
  BY <1>1, SecondAssumption
<1>4. m = n + k
  <2>1. CASE m < n + k
    <3>1. Second * m + Second <= Second * (n + k)
      BY <1>1, <2>1, Multiples
    <3> HIDE DEF n, k, m, r, u
    <3>2. QED
      BY ONLY <1>1, <1>2, <1>3, <3>1, t \in Nat, d \in Nat
  <2>2. CASE n + k < m
    <3>1. Second * (n + k) + Second <= Second * m
      BY <1>1, <2>2, Multiples
    <3> HIDE DEF n, k, m, r, u
    <3>2. QED
      BY ONLY <1>1, <1>2, <1>3, <3>1, t \in Nat, d \in Nat
  <2>3. QED
    BY <1>1, <2>1, <2>2
<1>5. KrbTime(t) = Second * n /\ KrbTime(t + d) = Second * m
  BY KrbTimeIs
<1>6. Second * m = Second * n + d
  <2> HIDE DEF n, k, m, r, u
  <2>1. QED
    BY ONLY <1>1, <1>2, <1>3, <1>4
<1>7. QED
  BY <1>5, <1>6

-----------------------------------------------------------------------------
(* The inductive invariant. *)

ProofsPast == \A c \in Client : \A proof \in proofs[c] : proof <= clock

Ordered == \A tk \in tickets : tk.authtime <= tk.starttime

\* tk stems from a proof made no later than `time`.
Genuine(tk, time) ==
    \E proof \in proofs[tk.client] :
        tk.authtime = KrbTime(proof) /\ proof <= time

\* What a connection thread knows about the request it is serving.
HoldsAs(s) == s.now <= clock
HoldsTgs(s) ==
    /\ s.ticket \in tickets
    /\ s.now <= clock
    /\ Genuine(s.ticket, s.now)
    /\ s.renew => s.ticket.renew_till # None /\ s.now <= s.ticket.renew_till
    /\ ~s.renew => s.now <= s.ticket.endtime
Held ==
    \A t \in Thread :
        /\ kdc[t].pc \in {"received", "verified"} => HoldsAs(kdc[t])
        /\ kdc[t].pc = "validated" => HoldsTgs(kdc[t])

HeldByAp ==
    ap.pc = "validated" =>
        /\ ap.ticket \in tickets
        /\ ap.now = ap.asked + ApSkew /\ ap.now <= ap.ticket.endtime
        /\ ap.asked <= clock
        /\ Genuine(ap.ticket, ap.asked)

IInv == /\ TypeOK /\ ProofsPast /\ Ordered /\ Held /\ HeldByAp
        /\ WithinRenewal /\ AuthtimeGenuine /\ ServiceWithinTgt
        /\ NoProofAfterDisabling

-----------------------------------------------------------------------------
(* The states of the handlers. *)

LEMMA KdcStates ==
    ASSUME TypeOK, NEW t \in Thread
    PROVE  /\ kdc[t] \in {Idle} \cup AsState \cup TgsState
           /\ kdc[t].pc \in {"received", "verified"} =>
                  kdc[t].client \in Client /\ kdc[t].now \in Nat
           /\ kdc[t].pc = "validated" =>
                  /\ kdc[t].ticket \in Ticket
                  /\ kdc[t].renew \in BOOLEAN /\ kdc[t].now \in Nat
<1>1. kdc[t] \in {Idle} \cup AsState \cup TgsState
  BY DEF TypeOK
<1>2. CASE kdc[t] = Idle
  BY <1>1, <1>2 DEF Idle
<1>3. CASE kdc[t] \in AsState
  BY <1>1, <1>3 DEF AsState
<1>4. CASE kdc[t] \in TgsState
  BY <1>1, <1>4 DEF TgsState
<1>5. QED
  BY <1>1, <1>2, <1>3, <1>4

LEMMA ApStates ==
    ASSUME TypeOK, ap.pc = "validated"
    PROVE  ap.ticket \in Ticket /\ ap.now \in Int /\ ap.asked \in Nat
  BY DEF TypeOK, ApState, Idle

LEMMA TicketFields ==
    ASSUME NEW tk \in Ticket
    PROVE  /\ tk.client \in Client
           /\ tk.authtime \in Nat /\ tk.starttime \in Nat
           /\ tk.endtime \in Nat /\ tk.renew_till \in Nat
  BY DEF Ticket

-----------------------------------------------------------------------------
(* The invariant is inductive. *)

LEMMA InitIInv == Init => IInv
<1> SUFFICES ASSUME Init PROVE IInv
  OBVIOUS
<1>1. TypeOK
  BY DEF Init, TypeOK, Service
<1>2. \A t \in Thread : kdc[t].pc = "idle"
  BY DEF Init, Idle
<1>3. ap.pc = "idle"
  BY DEF Init, Idle
<1>4. QED
  BY <1>1, <1>2, <1>3
     DEF Init, IInv, ProofsPast, Ordered, Held, HeldByAp, WithinRenewal,
         AuthtimeGenuine, ServiceWithinTgt, NoProofAfterDisabling

\* A connection thread moves on, and nothing else changes.
LEMMA ThreadStep ==
    ASSUME IInv, NEW t \in Thread, NEW s \in {Idle} \cup AsState \cup TgsState,
           kdc' = [kdc EXCEPT ![t] = s],
           UNCHANGED <<clock, disabled, tickets, ap, disabledAt, proofs, served>>,
           s.pc \in {"received", "verified"} => HoldsAs(s),
           s.pc = "validated" => HoldsTgs(s),
           s.pc = "verified" => ~disabled[s.client] \/ s.now <= disabledAt[s.client]
    PROVE  IInv'
<1>1. \A u \in Thread : kdc'[u] = IF u = t THEN s ELSE kdc[u]
  BY DEF IInv, TypeOK
<1>2. TypeOK'
  BY DEF IInv, TypeOK
<1>3. Held'
  BY <1>1 DEF IInv, Held, HoldsAs, HoldsTgs, Genuine
<1>4. NoProofAfterDisabling'
  BY <1>1 DEF IInv, NoProofAfterDisabling
<1>5. /\ ProofsPast' /\ Ordered' /\ HeldByAp' /\ WithinRenewal'
      /\ AuthtimeGenuine' /\ ServiceWithinTgt'
  BY DEF IInv, ProofsPast, Ordered, HeldByAp, Genuine, WithinRenewal, AuthtimeGenuine,
         ServiceWithinTgt
<1>6. QED
  BY <1>2, <1>3, <1>4, <1>5 DEF IInv

\* A connection thread issues a ticket, possibly noting a new proof.
LEMMA IssueStep ==
    ASSUME IInv, NEW t \in Thread, NEW new \in Ticket,
           tickets' = tickets \cup {new},
           kdc' = [kdc EXCEPT ![t] = Idle],
           UNCHANGED <<clock, disabled, ap, disabledAt, served>>,
           new.authtime <= new.starttime, new.starttime <= new.endtime,
           new.endtime <= new.authtime + RENEWABLE_LIFETIME,
           new.renew_till \in {None, new.authtime + RENEWABLE_LIFETIME},
           new.renew_till = None =>
               \E tgt \in tickets :
                   /\ tgt.client = new.client /\ tgt.authtime = new.authtime
                   /\ tgt.renew_till # None /\ new.endtime <= tgt.endtime,
           proofs' \in [Client -> SUBSET Nat],
           \A c \in Client : proofs[c] \subseteq proofs'[c],
           \A c \in Client : \A proof \in proofs'[c] :
               proof <= clock /\ (disabled[c] => proof <= disabledAt[c]),
           \E proof \in proofs'[new.client] : new.authtime = KrbTime(proof)
    PROVE  IInv'
<1>1. \A u \in Thread : kdc'[u] = IF u = t THEN Idle ELSE kdc[u]
  BY DEF IInv, TypeOK
<1>2. Idle.pc = "idle"
  BY DEF Idle
<1>3. \A tk \in tickets : tk \in Ticket /\ tk.client \in Client
  BY TicketFields DEF IInv, TypeOK
<1>4. TypeOK'
  BY DEF IInv, TypeOK
<1>5. ProofsPast'
  BY DEF ProofsPast
<1>6. Ordered'
  BY DEF IInv, Ordered
<1>7. Held'
  <2> SUFFICES ASSUME NEW u \in Thread, u # t
               PROVE  /\ kdc[u].pc \in {"received", "verified"} => HoldsAs(kdc[u])'
                      /\ kdc[u].pc = "validated" => HoldsTgs(kdc[u])'
    BY <1>1, <1>2 DEF Held, HoldsAs, HoldsTgs, Genuine
  <2>0. kdc'[u] = kdc[u]
    BY <1>1
  <2>1. kdc[u].pc \in {"received", "verified"} => HoldsAs(kdc[u])'
    BY <2>0 DEF IInv, Held, HoldsAs
  <2>2. ASSUME kdc[u].pc = "validated" PROVE HoldsTgs(kdc[u])'
    <3>1. HoldsTgs(kdc[u])
      BY <2>2 DEF IInv, Held
    <3>2. kdc[u].ticket.client \in Client
      BY <1>3, <3>1 DEF HoldsTgs
    <3>3. QED
      BY <2>0, <3>1, <3>2 DEF HoldsTgs, Genuine
  <2>3. QED
    BY <2>1, <2>2
<1>8. HeldByAp'
  <2> SUFFICES ASSUME ap.pc = "validated"
               PROVE  ap.ticket \in tickets' /\ Genuine(ap.ticket, ap.asked)'
    BY DEF IInv, HeldByAp
  <2>1. ap.ticket \in tickets /\ Genuine(ap.ticket, ap.asked)
    BY DEF IInv, HeldByAp
  <2>2. ap.ticket.client \in Client
    BY <1>3, <2>1
  <2>3. QED
    BY <2>1, <2>2 DEF Genuine
<1>9. WithinRenewal'
  BY DEF IInv, WithinRenewal
<1>10. AuthtimeGenuine'
  BY <1>3 DEF IInv, AuthtimeGenuine
<1>11. ServiceWithinTgt'
  BY DEF IInv, ServiceWithinTgt
<1>12. NoProofAfterDisabling'
  BY <1>1, <1>2 DEF IInv, NoProofAfterDisabling
<1>13. QED
  BY <1>4, <1>5, <1>6, <1>7, <1>8, <1>9, <1>10, <1>11, <1>12 DEF IInv

LEMMA StepAsReceive ==
    ASSUME IInv, NEW t \in Thread, NEW c \in Client, AsReceive(t, c)
    PROVE  IInv'
<1> DEFINE s == [pc |-> "received", client |-> c, now |-> clock]
<1>1. s \in AsState /\ s.pc = "received" /\ HoldsAs(s)
  BY DEF IInv, TypeOK, AsState, HoldsAs
<1>2. /\ kdc' = [kdc EXCEPT ![t] = s]
      /\ UNCHANGED <<clock, disabled, tickets, ap, disabledAt, proofs, served>>
  BY DEF AsReceive
<1> HIDE DEF s
<1>3. QED
  BY <1>1, <1>2, ThreadStep

LEMMA StepAbandon ==
    ASSUME IInv, NEW t \in Thread, kdc' = [kdc EXCEPT ![t] = Idle],
           UNCHANGED <<clock, disabled, tickets, ap, disabledAt, proofs, served>>
    PROVE  IInv'
<1>1. Idle.pc = "idle"
  BY DEF Idle
<1>2. QED
  BY <1>1, ThreadStep

LEMMA StepAsLookup ==
    ASSUME IInv, NEW t \in Thread, AsLookup(t)
    PROVE  IInv'
<1>1. kdc[t].pc = "received" /\ HoldsAs(kdc[t])
  BY DEF AsLookup, IInv, Held
<1>2. UNCHANGED <<clock, disabled, tickets, ap, disabledAt, proofs, served>>
  BY DEF AsLookup
<1>3. CASE disabled[kdc[t].client]
  <2>1. kdc' = [kdc EXCEPT ![t] = Idle]
    BY <1>3 DEF AsLookup
  <2>2. QED
    BY <1>2, <2>1, StepAbandon
<1>4. CASE ~disabled[kdc[t].client]
  <2> DEFINE s == [kdc[t] EXCEPT !.pc = "verified"]
  <2>1. kdc' = [kdc EXCEPT ![t] = s]
    BY <1>4 DEF AsLookup
  <2>2. kdc[t] \in AsState
    BY <1>1, KdcStates DEF IInv, Idle, TgsState
  <2>3. /\ s \in AsState /\ s.pc = "verified"
        /\ s.client = kdc[t].client /\ s.now = kdc[t].now
    BY <2>2 DEF AsState
  <2>4. HoldsAs(s)
    BY <1>1, <2>3 DEF HoldsAs
  <2> HIDE DEF s
  <2>5. QED
    BY <1>2, <1>4, <2>1, <2>3, <2>4, ThreadStep
<1>5. QED
  BY <1>3, <1>4

LEMMA StepAsIssue ==
    ASSUME IInv, NEW t \in Thread, AsIssue(t)
    PROVE  IInv'
<1> DEFINE c == kdc[t].client
           now == kdc[t].now
           new == InitialTicket(c, now)
<1>1. /\ kdc[t].pc = "verified"
      /\ tickets' = tickets \cup {new}
      /\ proofs' = [proofs EXCEPT ![c] = @ \cup {now}]
      /\ kdc' = [kdc EXCEPT ![t] = Idle]
      /\ UNCHANGED <<clock, disabled, ap, disabledAt, served>>
  BY DEF AsIssue, Issue
<1>2. c \in Client /\ now \in Nat /\ now <= clock
  BY <1>1, KdcStates DEF IInv, Held, HoldsAs
<1>3. disabled[c] => now <= disabledAt[c]
  BY <1>1, <1>2 DEF IInv, NoProofAfterDisabling
<1> HIDE DEF c, now
<1>4. /\ KrbTime(now) \in Nat
      /\ KrbTime(now + TICKET_LIFETIME) = KrbTime(now) + TICKET_LIFETIME
      /\ KrbTime(now + RENEWABLE_LIFETIME) = KrbTime(now) + RENEWABLE_LIFETIME
  BY <1>2, KrbTimeIs, KrbTimeShift, LifetimeAssumption
<1>5. /\ new.client = c /\ new.authtime = KrbTime(now)
      /\ new.starttime = KrbTime(now)
      /\ new.endtime = KrbTime(now) + TICKET_LIFETIME
      /\ new.renew_till = KrbTime(now) + RENEWABLE_LIFETIME
  BY <1>4 DEF InitialTicket
<1>6. new \in Ticket
  BY <1>2, <1>4, LifetimeAssumption DEF InitialTicket, Ticket
<1> HIDE DEF new
<1>7. /\ new.authtime <= new.starttime /\ new.starttime <= new.endtime
      /\ new.endtime <= new.authtime + RENEWABLE_LIFETIME
      /\ new.renew_till = new.authtime + RENEWABLE_LIFETIME
      /\ new.renew_till # None
  BY <1>4, <1>5, LifetimeAssumption DEF None
<1>8. /\ proofs' \in [Client -> SUBSET Nat]
      /\ \A d \in Client : proofs[d] \subseteq proofs'[d]
      /\ now \in proofs'[c]
      /\ \A d \in Client : \A proof \in proofs'[d] :
             proof \in proofs[d] \/ (d = c /\ proof = now)
  BY <1>1, <1>2 DEF IInv, TypeOK
<1>9. \A d \in Client : \A proof \in proofs'[d] :
          proof <= clock /\ (disabled[d] => proof <= disabledAt[d])
  BY <1>2, <1>3, <1>8 DEF IInv, ProofsPast, NoProofAfterDisabling
<1>10. \E proof \in proofs'[new.client] : new.authtime = KrbTime(proof)
  BY <1>5, <1>8
<1>11. QED
  BY <1>1, <1>6, <1>7, <1>8, <1>9, <1>10, IssueStep

LEMMA StepTgsReceive ==
    ASSUME IInv, NEW t \in Thread, NEW tk \in tickets, NEW renew \in BOOLEAN,
           TgsReceive(t, tk, renew)
    PROVE  IInv'
<1> DEFINE s == [pc |-> "validated", ticket |-> tk, renew |-> renew, now |-> clock]
<1>1. /\ kdc' = [kdc EXCEPT ![t] = s]
      /\ UNCHANGED <<clock, disabled, tickets, ap, disabledAt, proofs, served>>
      /\ renew => tk.renew_till # None /\ clock <= tk.renew_till
      /\ ~renew => ~(clock > tk.endtime)
  BY DEF TgsReceive, Expired
<1>2. tk \in Ticket /\ clock \in Nat
  BY DEF IInv, TypeOK
<1>3. s \in TgsState /\ s.pc = "validated"
  BY <1>2 DEF TgsState
<1>4. Genuine(tk, clock)
  <2>1. PICK proof \in proofs[tk.client] : tk.authtime = KrbTime(proof)
    BY DEF IInv, AuthtimeGenuine
  <2>2. proof <= clock
    BY <1>2, <2>1, TicketFields DEF IInv, ProofsPast
  <2>3. QED
    BY <2>1, <2>2 DEF Genuine
<1>5. HoldsTgs(s)
  BY <1>1, <1>2, <1>4, TicketFields DEF HoldsTgs
<1> HIDE DEF s
<1>6. QED
  BY <1>1, <1>3, <1>5, ThreadStep

\* A ticket stamped with the captured time and cut off at `till`.
LEMMA Stamped ==
    ASSUME NEW now \in Nat, NEW till \in Nat, now <= till
    PROVE  LET end == KrbTime(Lesser(now + TICKET_LIFETIME, till))
           IN  /\ KrbTime(now) \in Nat /\ end \in Nat
               /\ KrbTime(now) <= end /\ end <= till
<1> DEFINE cut == Lesser(now + TICKET_LIFETIME, till)
<1>1. cut \in Nat /\ now <= cut /\ cut <= till
  BY LifetimeAssumption DEF Lesser
<1> HIDE DEF cut
<1>2. KrbTime(now) \in Nat /\ KrbTime(cut) \in Nat /\ KrbTime(cut) <= cut
  BY <1>1, KrbTimeIs
<1>3. KrbTime(now) <= KrbTime(cut)
  BY <1>1, KrbTimeMonotonic
<1>4. KrbTime(cut) <= till
  BY <1>1, <1>2
<1>5. QED
  BY <1>2, <1>3, <1>4 DEF cut

\* The ticket a thread holds started before the time it has captured.
LEMMA HeldAuthtime ==
    ASSUME IInv, NEW tk \in tickets, NEW now \in Nat, Genuine(tk, now)
    PROVE  tk.authtime <= KrbTime(now)
<1>1. PICK proof \in proofs[tk.client] : tk.authtime = KrbTime(proof) /\ proof <= now
  BY DEF Genuine
<1>2. proof \in Nat
  BY TicketFields DEF IInv, TypeOK
<1>3. QED
  BY <1>1, <1>2, KrbTimeMonotonic

LEMMA StepTgsRenew ==
    ASSUME IInv, NEW t \in Thread, TgsRenew(t)
    PROVE  IInv'
<1> DEFINE tk == kdc[t].ticket
           now == kdc[t].now
           new == RenewedTicket(tk, now)
<1>1. /\ tickets' = tickets \cup {new}
      /\ kdc' = [kdc EXCEPT ![t] = Idle]
      /\ UNCHANGED <<clock, disabled, ap, disabledAt, proofs, served>>
  BY DEF TgsRenew, Issue
<1>2. /\ tk \in tickets /\ tk \in Ticket /\ now \in Nat /\ Genuine(tk, now)
      /\ tk.renew_till # None /\ now <= tk.renew_till
  BY KdcStates DEF TgsRenew, IInv, Held, HoldsTgs
<1> HIDE DEF tk, now
<1>3. /\ tk.client \in Client /\ tk.authtime \in Nat /\ tk.renew_till \in Nat
  BY <1>2, TicketFields
<1>4. /\ KrbTime(now) \in Nat /\ new.endtime \in Nat
      /\ new.starttime = KrbTime(now)
      /\ KrbTime(now) <= new.endtime /\ new.endtime <= tk.renew_till
      /\ new.client = tk.client /\ new.authtime = tk.authtime
      /\ new.renew_till = tk.renew_till
  BY <1>2, <1>3, Stamped DEF RenewedTicket, Ticket
<1>5. new \in Ticket
  BY <1>2, <1>4 DEF RenewedTicket, Ticket
<1> HIDE DEF new
<1>6. tk.authtime <= KrbTime(now)
  BY <1>2, HeldAuthtime
<1>7. tk.renew_till = tk.authtime + RENEWABLE_LIFETIME
  BY <1>2 DEF IInv, WithinRenewal
<1>8. /\ proofs' = proofs /\ proofs \in [Client -> SUBSET Nat]
      /\ \A c \in Client : \A proof \in proofs[c] :
             proof <= clock /\ (disabled[c] => proof <= disabledAt[c])
  BY <1>1 DEF IInv, TypeOK, ProofsPast, NoProofAfterDisabling
<1>9. \E proof \in proofs'[new.client] : new.authtime = KrbTime(proof)
  BY <1>2, <1>4, <1>8 DEF Genuine
<1>10. QED
  BY <1>1, <1>2, <1>4, <1>5, <1>6, <1>7, <1>8, <1>9, IssueStep

LEMMA StepTgsIssue ==
    ASSUME IInv, NEW t \in Thread, NEW kind \in {"tgs", "service"},
           TgsIssue(t, kind)
    PROVE  IInv'
<1> DEFINE tk == kdc[t].ticket
           now == kdc[t].now
           new == DerivedTicket(tk, kind, now)
<1>1. /\ tickets' = tickets \cup {new}
      /\ kdc' = [kdc EXCEPT ![t] = Idle]
      /\ UNCHANGED <<clock, disabled, ap, disabledAt, proofs, served>>
  BY DEF TgsIssue, Issue
<1>2. /\ tk \in tickets /\ tk \in Ticket /\ now \in Nat /\ Genuine(tk, now)
      /\ now <= tk.endtime
  BY KdcStates DEF TgsIssue, IInv, Held, HoldsTgs
<1> HIDE DEF tk, now
<1>3. /\ tk.client \in Client /\ tk.authtime \in Nat /\ tk.endtime \in Nat
  BY <1>2, TicketFields
<1>4. /\ KrbTime(now) \in Nat /\ new.endtime \in Nat
      /\ new.starttime = KrbTime(now)
      /\ KrbTime(now) <= new.endtime /\ new.endtime <= tk.endtime
      /\ new.client = tk.client /\ new.authtime = tk.authtime
      /\ new.renew_till = None /\ None \in Nat
  BY <1>2, <1>3, Stamped DEF DerivedTicket, Ticket, None
<1>5. new \in Ticket
  BY <1>2, <1>4 DEF DerivedTicket, Ticket
<1> HIDE DEF new
<1>6. tk.authtime <= KrbTime(now)
  BY <1>2, HeldAuthtime
<1>7. tk.endtime <= tk.authtime + RENEWABLE_LIFETIME
  BY <1>2 DEF IInv, WithinRenewal
<1>8. new.endtime <= new.authtime + RENEWABLE_LIFETIME
  BY <1>3, <1>4, <1>7, LifetimeAssumption
<1>9. \E tgt \in tickets :
          /\ tgt.client = new.client /\ tgt.authtime = new.authtime
          /\ tgt.renew_till # None /\ new.endtime <= tgt.endtime
  <2>1. CASE tk.renew_till # None
    BY <1>2, <1>4, <2>1
  <2>2. CASE tk.renew_till = None
    <3>1. PICK tgt \in tickets :
              /\ tgt.client = tk.client /\ tgt.authtime = tk.authtime
              /\ tgt.renew_till # None /\ tk.endtime <= tgt.endtime
      BY <1>2, <2>2 DEF IInv, ServiceWithinTgt
    <3>2. tgt.endtime \in Nat
      BY TicketFields DEF IInv, TypeOK
    <3>3. QED
      BY <1>3, <1>4, <3>1, <3>2
  <2>3. QED
    BY <2>1, <2>2
<1>10. /\ proofs' = proofs /\ proofs \in [Client -> SUBSET Nat]
       /\ \A c \in Client : \A proof \in proofs[c] :
              proof <= clock /\ (disabled[c] => proof <= disabledAt[c])
  BY <1>1 DEF IInv, TypeOK, ProofsPast, NoProofAfterDisabling
<1>11. \E proof \in proofs'[new.client] : new.authtime = KrbTime(proof)
  BY <1>2, <1>4, <1>10 DEF Genuine
<1>12. QED
  BY <1>1, <1>4, <1>5, <1>6, <1>8, <1>9, <1>10, <1>11, IssueStep

LEMMA StepTick ==
    ASSUME IInv, Tick
    PROVE  IInv'
<1>1. /\ clock \in Nat /\ clock' = clock + 1
      /\ UNCHANGED <<disabled, tickets, kdc, ap, disabledAt, proofs, served>>
  BY DEF Tick, IInv, TypeOK
<1>2. TypeOK'
  BY <1>1 DEF IInv, TypeOK
<1>3. ProofsPast'
  BY <1>1 DEF IInv, TypeOK, ProofsPast
<1>4. Held'
  <2> SUFFICES ASSUME NEW t \in Thread
               PROVE  /\ kdc[t].pc \in {"received", "verified"} => HoldsAs(kdc[t])'
                      /\ kdc[t].pc = "validated" => HoldsTgs(kdc[t])'
    BY <1>1 DEF Held, HoldsAs, HoldsTgs, Genuine
  <2>1. kdc[t].pc \in {"received", "verified"} => HoldsAs(kdc[t])'
    BY <1>1, KdcStates DEF IInv, Held, HoldsAs
  <2>2. kdc[t].pc = "validated" => HoldsTgs(kdc[t])'
    BY <1>1, KdcStates DEF IInv, Held, HoldsTgs, Genuine
  <2>3. QED
    BY <2>1, <2>2
<1>5. /\ Ordered' /\ WithinRenewal' /\ AuthtimeGenuine'
      /\ ServiceWithinTgt' /\ NoProofAfterDisabling'
  <2>1. /\ Ordered /\ WithinRenewal /\ AuthtimeGenuine
        /\ ServiceWithinTgt /\ NoProofAfterDisabling
    BY DEF IInv
  <2>2. QED
    BY ONLY <1>1, <2>1 DEF Ordered, WithinRenewal, AuthtimeGenuine,
                           ServiceWithinTgt, NoProofAfterDisabling
<1>6. HeldByAp'
  <2>1. ap.pc = "validated" => ap.asked \in Nat
    BY ApStates DEF IInv
  <2>2. QED
    BY <1>1, <2>1 DEF IInv, HeldByAp, Genuine
<1>7. QED
  BY <1>2, <1>3, <1>4, <1>5, <1>6 DEF IInv

\* Only the application server moves on.
LEMMA ApStep ==
    ASSUME IInv, UNCHANGED <<clock, disabled, tickets, kdc, disabledAt, proofs>>,
           ap' \in {Idle} \cup ApState, served' \in [Client -> Service],
           HeldByAp'
    PROVE  IInv'
<1>1. TypeOK'
  BY DEF IInv, TypeOK
<1>2. Held'
  BY DEF IInv, Held, HoldsAs, HoldsTgs, Genuine
<1>3. /\ ProofsPast' /\ Ordered' /\ WithinRenewal' /\ AuthtimeGenuine'
      /\ ServiceWithinTgt' /\ NoProofAfterDisabling'
  BY DEF IInv, ProofsPast, Ordered, WithinRenewal, AuthtimeGenuine,
         ServiceWithinTgt, NoProofAfterDisabling
<1>4. QED
  BY <1>1, <1>2, <1>3 DEF IInv

LEMMA StepApReceive ==
    ASSUME IInv, NEW tk \in tickets, ApReceive(tk)
    PROVE  IInv'
<1> DEFINE now == clock + ApSkew
<1>1. /\ now \in Int /\ tk \in Ticket /\ clock \in Nat
  BY SkewAssumption DEF IInv, TypeOK
<1>2. ap' = [pc |-> "validated", ticket |-> tk, now |-> now, asked |-> clock]
  BY DEF ApReceive
<1>3. ap' \in ApState /\ ap'.ticket = tk /\ ap'.now = now /\ ap'.asked = clock
  BY <1>1, <1>2 DEF ApState
<1>4. now <= tk.endtime
  <2>1. ~(now > tk.endtime)
    BY DEF ApReceive, Expired
  <2> HIDE DEF now
  <2>2. QED
    BY <1>1, <2>1, TicketFields
<1>5. Genuine(tk, clock)
  <2>1. tk.client \in Client
    BY <1>1, TicketFields
  <2>2. QED
    BY <2>1 DEF IInv, AuthtimeGenuine, ProofsPast, Genuine
<1>6. HeldByAp'
  BY <1>1, <1>3, <1>4, <1>5 DEF ApReceive, HeldByAp, Genuine
<1>7. QED
  BY <1>3, <1>6, ApStep DEF ApReceive, IInv, TypeOK

LEMMA StepApServe ==
    ASSUME IInv, ApServe
    PROVE  IInv'
<1>1. ap' = Idle /\ Idle.pc = "idle"
  BY DEF ApServe, Idle
<1>2. served' \in [Client -> Service]
  BY ApStates, TicketFields DEF ApServe, IInv, TypeOK, Service
<1>3. QED
  BY <1>1, <1>2, ApStep DEF ApServe, HeldByAp

LEMMA StepApAbandon ==
    ASSUME IInv, ApAbandon
    PROVE  IInv'
<1>1. ap' = Idle /\ Idle.pc = "idle"
  BY DEF ApAbandon, Idle
<1>2. QED
  BY <1>1, ApStep DEF ApAbandon, HeldByAp, IInv, TypeOK

LEMMA StepToggle ==
    ASSUME IInv, NEW c \in Client, Toggle(c)
    PROVE  IInv'
<1>1. /\ disabled' = [disabled EXCEPT ![c] = ~disabled[c]]
      /\ disabledAt' = [disabledAt EXCEPT ![c] = IF disabled[c] THEN disabledAt[c]
                                                 ELSE clock]
      /\ UNCHANGED <<clock, tickets, kdc, ap, proofs, served>>
  BY DEF Toggle
<1>2. TypeOK'
  <2>1. disabled' \in [Client -> BOOLEAN]
    BY <1>1, Zenon DEF IInv, TypeOK
  <2>2. disabledAt' \in [Client -> Nat]
    BY <1>1 DEF IInv, TypeOK
  <2>3. QED
    BY <1>1, <2>1, <2>2 DEF IInv, TypeOK
<1>3. /\ ProofsPast' /\ Ordered' /\ HeldByAp' /\ WithinRenewal'
      /\ AuthtimeGenuine' /\ ServiceWithinTgt'
  BY <1>1 DEF IInv, ProofsPast, Ordered, HeldByAp, Genuine, WithinRenewal,
              AuthtimeGenuine, ServiceWithinTgt
<1>4. Held'
  BY <1>1 DEF IInv, Held, HoldsAs, HoldsTgs, Genuine
<1>5. NoProofAfterDisabling'
  <2> SUFFICES ASSUME NEW d \in Client, disabled'[d]
               PROVE  /\ \A proof \in proofs[d] : proof <= disabledAt'[d]
                      /\ \A t \in Thread :
                             kdc[t].pc = "verified" /\ kdc[t].client = d =>
                                 kdc[t].now <= disabledAt'[d]
    BY <1>1 DEF NoProofAfterDisabling
  <2>1. CASE d # c
    <3>1. disabled[d] /\ disabledAt'[d] = disabledAt[d]
      BY <1>1, <2>1 DEF IInv, TypeOK
    <3>2. QED
      BY <3>1 DEF IInv, NoProofAfterDisabling
  <2>2. CASE d = c
    <3>1. ~disabled[c]
      BY <1>1, <2>2 DEF IInv, TypeOK
    <3>2. disabledAt'[d] = clock
      BY <1>1, <2>2, <3>1 DEF IInv, TypeOK
    <3>3. \A t \in Thread : kdc[t].pc = "verified" => kdc[t].now <= clock
      BY DEF IInv, Held, HoldsAs
    <3>4. QED
      BY <3>2, <3>3 DEF IInv, ProofsPast
  <2>3. QED
    BY <2>1, <2>2
<1>6. QED
  BY <1>2, <1>3, <1>4, <1>5 DEF IInv

LEMMA StepIInv == IInv /\ [Next]_vars => IInv'
<1> SUFFICES ASSUME IInv, [Next]_vars PROVE IInv'
  OBVIOUS
<1>1. CASE Tick
  BY <1>1, StepTick
<1>2. ASSUME NEW t \in Thread, NEW c \in Client, AsReceive(t, c) PROVE IInv'
  BY <1>2, StepAsReceive
<1>3. ASSUME NEW t \in Thread, NEW tk \in tickets, NEW renew \in BOOLEAN,
             TgsReceive(t, tk, renew)
      PROVE  IInv'
  BY <1>3, StepTgsReceive
<1>4. ASSUME NEW t \in Thread, NEW kind \in {"tgs", "service"}, TgsIssue(t, kind)
      PROVE  IInv'
  BY <1>4, StepTgsIssue
<1>5. ASSUME NEW t \in Thread, AsLookup(t) PROVE IInv'
  BY <1>5, StepAsLookup
<1>6. ASSUME NEW t \in Thread, AsIssue(t) PROVE IInv'
  BY <1>6, StepAsIssue
<1>7. ASSUME NEW t \in Thread, TgsRenew(t) PROVE IInv'
  BY <1>7, StepTgsRenew
<1>8. ASSUME NEW t \in Thread, Abandon(t) PROVE IInv'
  BY <1>8, StepAbandon DEF Abandon
<1>9. ASSUME NEW tk \in tickets, ApReceive(tk) PROVE IInv'
  BY <1>9, StepApReceive
<1>10. CASE ApServe
  BY <1>10, StepApServe
<1>11. CASE ApAbandon
  BY <1>11, StepApAbandon
<1>12. ASSUME NEW c \in Client, Toggle(c) PROVE IInv'
  BY <1>12, StepToggle
<1>13. CASE UNCHANGED vars
  <2>1. UNCHANGED <<clock, disabled, tickets, kdc, ap, disabledAt, proofs, served>>
    BY <1>13 DEF vars
  <2>2. HeldByAp' /\ ap' \in {Idle} \cup ApState /\ served' \in [Client -> Service]
    BY <2>1 DEF IInv, TypeOK, HeldByAp, Genuine
  <2>3. QED
    BY <2>1, <2>2, ApStep
<1>14. QED
  BY <1>1, <1>2, <1>3, <1>4, <1>5, <1>6, <1>7, <1>8, <1>9, <1>10, <1>11,
     <1>12, <1>13 DEF Next

LEMMA Invariance == Spec => []IInv
  BY InitIInv, StepIInv, PTL DEF Spec

-----------------------------------------------------------------------------
\* Type correctness, and no ticket is born expired.
THEOREM TypeCorrect == Spec => []TypeOK
  BY Invariance, PTL DEF IInv

\* No chain of renewals and derivations outlives the renewable lifetime that
\* began with the password (the two min() of kdc/tgs_handler.py).
THEOREM TicketsEnd == Spec => []WithinRenewal
  BY Invariance, PTL DEF IInv

\* The authtime of every ticket is that of a password proof of its client.
THEOREM AuthtimesAreGenuine == Spec => []AuthtimeGenuine
  BY Invariance, PTL DEF IInv

\* No derived ticket outlives every TGT of its authentication.
THEOREM ServiceTicketsEndWithTgt == Spec => []ServiceWithinTgt
  BY Invariance, PTL DEF IInv

\* Disabling a client ends its password proofs, those under way apart.
THEOREM DisablingStopsProofs == Spec => []NoProofAfterDisabling
  BY Invariance, PTL DEF IInv

-----------------------------------------------------------------------------
(* Access after the password proof. *)

\* What the application server grants was asked for in the window of some proof.
LEMMA ServedInWindow ==
    ASSUME IInv, ap.pc = "validated"
    PROVE  /\ ap.asked \in Nat /\ ap.asked <= clock
           /\ \E proof \in proofs[ap.ticket.client] :
                  /\ proof \in Nat /\ proof <= ap.asked
                  /\ ap.asked + ApSkew <= proof + RENEWABLE_LIFETIME
<1> DEFINE tk == ap.ticket
           asked == ap.asked
<1>1. /\ tk \in tickets /\ asked <= clock /\ Genuine(tk, asked)
      /\ asked + ApSkew <= tk.endtime
  BY DEF IInv, HeldByAp
<1>2. tk \in Ticket /\ asked \in Nat
  BY ApStates DEF IInv
<1> HIDE DEF tk, asked
<1>3. tk.client \in Client /\ tk.authtime \in Nat /\ tk.endtime \in Nat
  BY <1>2, TicketFields
<1>4. PICK proof \in proofs[tk.client] :
          tk.authtime = KrbTime(proof) /\ proof <= asked
  BY <1>1 DEF Genuine
<1>5. proof \in Nat
  BY <1>3, <1>4 DEF IInv, TypeOK
<1>6. tk.authtime <= proof
  BY <1>4, <1>5, KrbTimeIs
<1>7. tk.endtime <= tk.authtime + RENEWABLE_LIFETIME
  BY <1>1 DEF IInv, WithinRenewal
<1>8. asked + ApSkew <= proof + RENEWABLE_LIFETIME
  BY <1>1, <1>2, <1>3, <1>5, <1>6, <1>7, SkewAssumption, LifetimeAssumption
<1>9. QED
  BY <1>1, <1>2, <1>4, <1>5, <1>8 DEF tk, asked

LEMMA StepAccessEnds ==
    ASSUME IInv, [Next]_vars, NEW c \in Client,
           served'[c] # served[c], disabled[c]
    PROVE  served'[c].at - disabledAt[c]
               <= RENEWABLE_LIFETIME + (-ApSkew) + (served'[c].at - served'[c].asked)
<1>1. ApServe
  BY DEF Next, vars, Tick, AsReceive, TgsReceive, TgsIssue, AsLookup, AsIssue,
         TgsRenew, Abandon, ApReceive, ApAbandon, Toggle
<1>2. /\ ap.pc = "validated"
      /\ served' = [served EXCEPT ![ap.ticket.client] =
                       [asked |-> ap.asked, at |-> clock]]
  BY <1>1 DEF ApServe
<1>3. /\ ap.ticket.client = c
      /\ served'[c].asked = ap.asked /\ served'[c].at = clock
  BY <1>2 DEF IInv, TypeOK
<1>4. PICK proof \in proofs[c] :
          /\ proof \in Nat /\ ap.asked \in Nat
          /\ ap.asked + ApSkew <= proof + RENEWABLE_LIFETIME
  BY <1>2, <1>3, ServedInWindow
<1>5. proof <= disabledAt[c] /\ disabledAt[c] \in Nat /\ clock \in Nat
  BY DEF IInv, NoProofAfterDisabling, TypeOK
<1>6. QED
  BY <1>3, <1>4, <1>5, LifetimeAssumption, SkewAssumption

\* A disabled client is served no later, by the KDC's clock, than RENEWABLE_LIFETIME
\* after it was disabled, plus the lag of the application server's clock and the
\* time that server takes over the request, although only the AS looks at `disabled`.
THEOREM AccessIsBounded == Spec => AccessEnds
<1>1. IInv /\ [Next]_vars =>
          [\A c \in Client :
               served'[c] # served[c] /\ disabled[c] =>
                   LET lag == -ApSkew
                       handling == served'[c].at - served'[c].asked
                   IN  served'[c].at - disabledAt[c]
                           <= RENEWABLE_LIFETIME + lag + handling]_vars
  BY StepAccessEnds
<1>2. QED
  BY <1>1, Invariance, PTL DEF Spec, AccessEnds

-----------------------------------------------------------------------------
(* The access window is implemented: each action is a step of AccessWindow *)
(* or changes none of its variables.                                       *)

LEMMA InitAccess == Init => Access!Init
  BY DEF Init, Access!Init

LEMMA AsIssueProves ==
    ASSUME IInv, NEW t \in Thread, AsIssue(t)
    PROVE  Access!Next
<1> DEFINE c == kdc[t].client
           now == kdc[t].now
<1>1. /\ kdc[t].pc = "verified"
      /\ proofs' = [proofs EXCEPT ![c] = @ \cup {now}]
      /\ UNCHANGED <<clock, disabled, disabledAt, served>>
  BY DEF AsIssue
<1>2. c \in Client /\ now \in 0..clock
  BY <1>1, KdcStates DEF IInv, Held, HoldsAs, TypeOK
<1>3. disabled[c] => now <= disabledAt[c]
  BY <1>1, <1>2 DEF IInv, NoProofAfterDisabling
<1> HIDE DEF c, now
<1>4. Access!Prove(c)
  BY <1>1, <1>2, <1>3 DEF Access!Prove
<1>5. QED
  BY <1>2, <1>4 DEF Access!Next

LEMMA ApServeGrants ==
    ASSUME IInv, ApServe
    PROVE  Access!Next
<1> DEFINE c == ap.ticket.client
           asked == ap.asked
<1>1. /\ ap.pc = "validated"
      /\ served' = [served EXCEPT ![c] = [asked |-> asked, at |-> clock]]
      /\ UNCHANGED <<clock, disabled, disabledAt, proofs>>
  BY DEF ApServe
<1>2. c \in Client
  BY <1>1, ApStates, TicketFields DEF IInv
<1>3. /\ asked \in Nat /\ asked <= clock
      /\ \E proof \in proofs[c] : /\ proof \in Nat /\ proof <= asked
                                  /\ asked + ApSkew <= proof + RENEWABLE_LIFETIME
  BY <1>1, ServedInWindow
<1> HIDE DEF c, asked
<1>4. PICK proof \in proofs[c] :
          asked \in proof..(proof + RENEWABLE_LIFETIME + (-ApSkew))
  BY <1>3, SkewAssumption, LifetimeAssumption
<1>5. Access!Grant(c)
  BY <1>1, <1>3, <1>4 DEF Access!Grant
<1>6. QED
  BY <1>2, <1>5 DEF Access!Next

LEMMA ToggleDisablesOrEnables ==
    ASSUME IInv, NEW c \in Client, Toggle(c)
    PROVE  Access!Next
<1>1. /\ disabled' = [disabled EXCEPT ![c] = ~disabled[c]]
      /\ disabledAt' = [disabledAt EXCEPT ![c] = IF disabled[c] THEN disabledAt[c]
                                                 ELSE clock]
      /\ UNCHANGED <<clock, proofs, served>>
  BY DEF Toggle
<1>2. CASE disabled[c]
  <2>1. (~disabled[c]) = FALSE
    BY <1>2
  <2>2. disabled' = [disabled EXCEPT ![c] = FALSE]
    BY <1>1, <2>1, Zenon
  <2>3. disabledAt' = disabledAt
    BY <1>1, <1>2 DEF IInv, TypeOK
  <2>4. QED
    BY <1>1, <1>2, <2>2, <2>3 DEF Access!Next, Access!Enable
<1>3. CASE ~disabled[c]
  <2>1. (~disabled[c]) = TRUE
    BY <1>3
  <2>2. disabled' = [disabled EXCEPT ![c] = TRUE]
    BY <1>1, <2>1, Zenon
  <2>3. disabledAt' = [disabledAt EXCEPT ![c] = clock]
    BY <1>1, <1>3
  <2>4. QED
    BY <1>1, <1>3, <2>2, <2>3 DEF Access!Next, Access!Disable
<1>4. QED
  BY <1>2, <1>3

LEMMA StepAccess ==
    ASSUME IInv, [Next]_vars
    PROVE  [Access!Next]_(Access!accessVars)
<1>1. CASE Tick
  BY <1>1 DEF Tick, Access!Next, Access!Pass
<1>2. ASSUME NEW t \in Thread, AsIssue(t) PROVE Access!Next
  BY <1>2, AsIssueProves
<1>3. CASE ApServe
  BY <1>3, ApServeGrants
<1>4. ASSUME NEW c \in Client, Toggle(c) PROVE Access!Next
  BY <1>4, ToggleDisablesOrEnables
<1>5. CASE UNCHANGED <<clock, disabled, disabledAt, proofs, served>>
  BY <1>5 DEF Access!accessVars
<1>6. QED
  BY <1>1, <1>2, <1>3, <1>4, <1>5
     DEF Next, vars, AsReceive, TgsReceive, TgsIssue, AsLookup, TgsRenew,
         Abandon, ApReceive, ApAbandon

\* Tickets implement the access window: a client is served only inside the
\* window that a password proof of its own has opened.
THEOREM AccessWindowImplemented == Spec => RefinesAccess
<1>1. IInv /\ [Next]_vars => [Access!Next]_(Access!accessVars)
  BY StepAccess
<1>2. QED
  BY <1>1, InitAccess, Invariance, PTL DEF Spec, RefinesAccess, Access!Spec
=============================================================================
