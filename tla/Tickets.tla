------------------------------- MODULE Tickets -------------------------------
(***************************************************************************)
(* The life of tickets: issued by the AS (kdc/as_handler.py), renewed and  *)
(* turned into further tickets by the TGS (kdc/tgs_handler.py), honoured   *)
(* by the application server (app_server/service_server.py).               *)
(*                                                                         *)
(* Every handler captures `now` once and finishes later, so the clock may  *)
(* move and an administrator may disable the client in between.  Only the  *)
(* AS looks at `disabled`.  Ticket times are KerberosTime: encoding cuts   *)
(* them to whole seconds, while `now` keeps its fraction; the clock below  *)
(* ticks Second times a second.  What lets a request fail for other        *)
(* reasons (password, authenticator, replay, lost reply) is Abandon here   *)
(* and has modules of its own.                                             *)
(***************************************************************************)
EXTENDS Integers, FiniteSets

CONSTANTS Thread,               \* connection threads of the KDC
          Client,
          Second,               \* clock ticks in a second
          TICKET_LIFETIME,      \* in ticks, as are the next three
          RENEWABLE_LIFETIME,
          MAX_CLOCK_SKEW,
          ApSkew,               \* application server's clock minus the KDC's
          MaxTickets,           \* bound of the tickets issued
          MaxTime               \* bound of the clock

ASSUME SecondAssumption == Second \in Nat \ {0}
\* The code's lifetimes are whole numbers of seconds (600 and 3600).
ASSUME LifetimeAssumption ==
    /\ TICKET_LIFETIME \in Nat \ {0} /\ TICKET_LIFETIME % Second = 0
    /\ RENEWABLE_LIFETIME \in Nat /\ RENEWABLE_LIFETIME % Second = 0
    /\ TICKET_LIFETIME <= RENEWABLE_LIFETIME
ASSUME SkewAssumption == MAX_CLOCK_SKEW \in Nat /\ ApSkew \in Int

VARIABLES clock,        \* time.time() on the KDC's host
          disabled,     \* principals.disabled of each client
          tickets,      \* every ticket issued so far
          kdc,          \* the local state of each connection thread
          ap,           \* the local state of the application server
          disabledAt,   \* when a client was last disabled (history)
          proofs,       \* times of accepted pre-authentications (history)
          served        \* the last service of each client: when its request was
                        \* checked and when it was served, by the KDC's host (history)

vars == <<clock, disabled, tickets, kdc, ap, disabledAt, proofs, served>>

None == 0     \* no renew-till field

\* EncTicketPart, with the kind of principal whose key encrypts it.
Ticket == [client : Client, for : {"tgs", "service"}, authtime : Nat,
           starttime : Nat, endtime : Nat, renew_till : Nat]

Idle == [pc |-> "idle"]
AsState == [pc : {"received", "verified"}, client : Client, now : Nat]
TgsState == [pc : {"validated"}, ticket : Ticket, renew : BOOLEAN, now : Nat]
\* asked: what the KDC's clock shows when the application server reads its own.
ApState == [pc : {"validated"}, ticket : Ticket, now : Int, asked : Nat]
Service == [asked : Nat, at : Nat]

Init ==
    /\ clock = 0
    /\ disabled = [c \in Client |-> FALSE]
    /\ tickets = {}
    /\ kdc = [t \in Thread |-> Idle]
    /\ ap = Idle
    /\ disabledAt = [c \in Client |-> 0]
    /\ proofs = [c \in Client |-> {}]
    /\ served = [c \in Client |-> [asked |-> 0, at |-> 0]]

-----------------------------------------------------------------------------
\* _to_krb_time: "%Y%m%d%H%M%SZ" drops the fraction of a second.
KrbTime(t) == t - (t % Second)

Lesser(s, t) == IF s <= t THEN s ELSE t

InitialTicket(c, now) ==
    [client |-> c, for |-> "tgs",
     authtime |-> KrbTime(now), starttime |-> KrbTime(now),
     endtime |-> KrbTime(now + TICKET_LIFETIME),
     renew_till |-> KrbTime(now + RENEWABLE_LIFETIME)]

\* The renewed TGT: a new start and end, everything else copied.  The mutants
\* forget min(.., renew_till), and move renew_till along.
RenewedPastTill(tk, now) ==
    [tk EXCEPT !.starttime = KrbTime(now),
               !.endtime = KrbTime(now + TICKET_LIFETIME)]
RenewedAgain(tk, now) ==
    [tk EXCEPT !.starttime = KrbTime(now),
               !.endtime = KrbTime(now + TICKET_LIFETIME),
               !.renew_till = KrbTime(now + RENEWABLE_LIFETIME)]
RenewedTicket(tk, now) ==
    [tk EXCEPT !.starttime = KrbTime(now),
               !.endtime = KrbTime(Lesser(now + TICKET_LIFETIME, tk.renew_till))]

\* A ticket for a service, or for another TGS, made from the ticket tk; it has
\* no renew-till.  The mutant forgets min(.., tgt.endtime).
DerivedFullLife(tk, kind, now) ==
    [tk EXCEPT !.for = kind, !.starttime = KrbTime(now),
               !.endtime = KrbTime(now + TICKET_LIFETIME), !.renew_till = None]
DerivedTicket(tk, kind, now) ==
    [tk EXCEPT !.for = kind, !.starttime = KrbTime(now),
               !.endtime = KrbTime(Lesser(now + TICKET_LIFETIME, tk.endtime)),
               !.renew_till = None]

NotYetValid(tk, now) == now + MAX_CLOCK_SKEW < tk.starttime

ExpiredNever(tk, now) == FALSE                        \* mutant of Expired
Expired(tk, now) == now > tk.endtime

Issue(tk) ==
    /\ Cardinality(tickets) < MaxTickets
    /\ tickets' = tickets \cup {tk}

-----------------------------------------------------------------------------
Tick ==
    /\ clock < MaxTime
    /\ clock' = clock + 1
    /\ UNCHANGED <<disabled, tickets, kdc, ap, disabledAt, proofs, served>>

AsReceive(t, c) ==
    /\ kdc[t] = Idle
    /\ kdc' = [kdc EXCEPT ![t] = [pc |-> "received", client |-> c, now |-> clock]]
    /\ UNCHANGED <<clock, disabled, tickets, ap, disabledAt, proofs, served>>

\* get_principal(include_disabled=True) and the checks on the client; the
\* mutant does not look at `disabled`.
AsLookupAny(t) ==
    /\ kdc[t].pc = "received"
    /\ kdc' = [kdc EXCEPT ![t].pc = "verified"]
    /\ UNCHANGED <<clock, disabled, tickets, ap, disabledAt, proofs, served>>
AsLookup(t) ==
    /\ kdc[t].pc = "received"
    /\ kdc' = [kdc EXCEPT ![t] = IF disabled[@.client] THEN Idle
                                 ELSE [@ EXCEPT !.pc = "verified"]]
    /\ UNCHANGED <<clock, disabled, tickets, ap, disabledAt, proofs, served>>

AsIssue(t) ==
    LET c == kdc[t].client
    IN  /\ kdc[t].pc = "verified"
        /\ Issue(InitialTicket(c, kdc[t].now))
        /\ proofs' = [proofs EXCEPT ![c] = @ \cup {kdc[t].now}]
        /\ kdc' = [kdc EXCEPT ![t] = Idle]
        /\ UNCHANGED <<clock, disabled, ap, disabledAt, served>>

\* The TGS opens the ticket with the key of the principal the request names,
\* so tk may be any ticket; it checks its times against the `now` it captures.
\* A renewal needs a renew-till: without one, float(None) ends the request.
TgsReceive(t, tk, renew) ==
    /\ kdc[t] = Idle
    /\ ~NotYetValid(tk, clock)
    /\ IF renew THEN tk.renew_till # None /\ clock <= tk.renew_till
                ELSE ~Expired(tk, clock)
    /\ kdc' = [kdc EXCEPT ![t] = [pc |-> "validated", ticket |-> tk,
                                  renew |-> renew, now |-> clock]]
    /\ UNCHANGED <<clock, disabled, tickets, ap, disabledAt, proofs, served>>

TgsRenew(t) ==
    /\ kdc[t].pc = "validated" /\ kdc[t].renew
    /\ Issue(RenewedTicket(kdc[t].ticket, kdc[t].now))
    /\ kdc' = [kdc EXCEPT ![t] = Idle]
    /\ UNCHANGED <<clock, disabled, ap, disabledAt, proofs, served>>

\* The requested principal is of type "service" or "tgs".
TgsIssue(t, kind) ==
    /\ kdc[t].pc = "validated" /\ ~kdc[t].renew
    /\ Issue(DerivedTicket(kdc[t].ticket, kind, kdc[t].now))
    /\ kdc' = [kdc EXCEPT ![t] = Idle]
    /\ UNCHANGED <<clock, disabled, ap, disabledAt, proofs, served>>

\* A KDC thread ends a request without issuing: any later check of it fails,
\* or the reply is not delivered.
Abandon(t) ==
    /\ kdc[t] # Idle
    /\ kdc' = [kdc EXCEPT ![t] = Idle]
    /\ UNCHANGED <<clock, disabled, tickets, ap, disabledAt, proofs, served>>

ApReceive(tk) ==
    LET now == clock + ApSkew
    IN  /\ ap = Idle
        /\ tk.for = "service"
        /\ ~NotYetValid(tk, now) /\ ~Expired(tk, now)
        /\ ap' = [pc |-> "validated", ticket |-> tk, now |-> now, asked |-> clock]
        /\ UNCHANGED <<clock, disabled, tickets, kdc, disabledAt, proofs, served>>

ApServe ==
    /\ ap.pc = "validated"
    /\ served' = [served EXCEPT ![ap.ticket.client] =
                      [asked |-> ap.asked, at |-> clock]]
    /\ ap' = Idle
    /\ UNCHANGED <<clock, disabled, tickets, kdc, disabledAt, proofs>>

ApAbandon ==
    /\ ap # Idle
    /\ ap' = Idle
    /\ UNCHANGED <<clock, disabled, tickets, kdc, disabledAt, proofs, served>>

\* The administrator's toggle.
Toggle(c) ==
    /\ disabled' = [disabled EXCEPT ![c] = ~@]
    /\ disabledAt' = [disabledAt EXCEPT ![c] = IF disabled[c] THEN @ ELSE clock]
    /\ UNCHANGED <<clock, tickets, kdc, ap, proofs, served>>

Next ==
    \/ Tick
    \/ \E t \in Thread :
           \/ \E c \in Client : AsReceive(t, c)
           \/ \E tk \in tickets, renew \in BOOLEAN : TgsReceive(t, tk, renew)
           \/ \E kind \in {"tgs", "service"} : TgsIssue(t, kind)
           \/ AsLookup(t) \/ AsIssue(t) \/ TgsRenew(t) \/ Abandon(t)
    \/ \E tk \in tickets : ApReceive(tk)
    \/ ApServe \/ ApAbandon
    \/ \E c \in Client : Toggle(c)

Spec == Init /\ [][Next]_vars

-----------------------------------------------------------------------------
\* Every variable keeps its type, and no ticket is born expired: a handler
\* that stamps a ticket with its captured time has checked it at that time.
TypeOK ==
    /\ clock \in Nat
    /\ disabled \in [Client -> BOOLEAN]
    /\ tickets \subseteq {tk \in Ticket : tk.starttime <= tk.endtime}
    /\ kdc \in [Thread -> {Idle} \cup AsState \cup TgsState]
    /\ ap \in {Idle} \cup ApState
    /\ disabledAt \in [Client -> Nat]
    /\ proofs \in [Client -> SUBSET Nat]
    /\ served \in [Client -> Service]

\* No ticket, renewed and derived as often as may be, outlives the renewable
\* lifetime that started with the password (min(.., renew_till) and
\* min(.., tgt.endtime) in kdc/tgs_handler.py).
WithinRenewal ==
    \A tk \in tickets :
        /\ tk.endtime <= tk.authtime + RENEWABLE_LIFETIME
        /\ tk.renew_till \in {None, tk.authtime + RENEWABLE_LIFETIME}

\* The authtime of every ticket is the (whole) second of a password proof of
\* its own client: neither renewal nor a service ticket ever refreshes it.
AuthtimeGenuine ==
    \A tk \in tickets : \E proof \in proofs[tk.client] : tk.authtime = KrbTime(proof)

\* A derived ticket ends no later than some TGT of the same authentication.
ServiceWithinTgt ==
    \A tk \in tickets :
        tk.renew_till = None =>
            \E tgt \in tickets :
                /\ tgt.client = tk.client /\ tgt.authtime = tk.authtime
                /\ tgt.renew_till # None /\ tk.endtime <= tgt.endtime

\* The proof the AS has in hand for a disabled client, finished or under way,
\* is older than the disabling.
NoProofAfterDisabling ==
    \A c \in Client : disabled[c] =>
        /\ \A proof \in proofs[c] : proof <= disabledAt[c]
        /\ \A t \in Thread : kdc[t].pc = "verified" /\ kdc[t].client = c =>
               kdc[t].now <= disabledAt[c]

\* A disabled client that is served was disabled no longer ago, by the KDC's clock,
\* than RENEWABLE_LIFETIME, the lag of the application server's clock, and the time
\* this server took between reading its clock (service_server.py:459) and serving.
\* Neither the TGS nor the application server ever asks whether it is disabled.
AccessEnds ==
    [][\A c \in Client :
           served'[c] # served[c] /\ disabled[c] =>
               LET lag == -ApSkew
                   handling == served'[c].at - served'[c].asked
               IN  served'[c].at - disabledAt[c] <= RENEWABLE_LIFETIME + lag + handling]_vars

Access == INSTANCE AccessWindow WITH
    Client <- Client, RENEWABLE_LIFETIME <- RENEWABLE_LIFETIME, Lag <- -ApSkew,
    clock <- clock, disabled <- disabled, disabledAt <- disabledAt,
    proofs <- proofs, served <- served
\* Tickets implement the access window.
RefinesAccess == Access!Spec
=============================================================================
