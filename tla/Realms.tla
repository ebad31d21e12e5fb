-------------------------------- MODULE Realms --------------------------------
(***************************************************************************)
(* The three exchanges end to end, between two realms that one KDC and one *)
(* application server serve: the route the client takes                    *)
(* (client/client_app.py), what the codec leaves of names                  *)
(* (core/asn1_codec.py), whose key opens which ticket                      *)
(* (kdc/as_handler.py, kdc/tgs_handler.py) and who is served               *)
(* (app_server/service_server.py).                                         *)
(*                                                                         *)
(* Every request has a connection of its own, on which its reply comes     *)
(* back or nothing does.  A principal's key goes by its name and a session *)
(* key by a serial number; times, key versions, lockouts and replays are   *)
(* those of the other modules, where a request they refuse ends its        *)
(* process.  A client process works on its copy of the cache file, and two *)
(* saves at a time may mix (CredentialCache).                              *)
(***************************************************************************)
EXTENDS Naturals, FiniteSets

CONSTANTS Realm, User, Service,  \* first components of names
          Group,
          Home,                  \* REALM
          Registered,            \* names in the database
          groupsOf,              \* the groups of every registered user
          Exported,              \* services whose keys are in the keytab
          Login,                 \* APP_SERVICE_NAME
          Unnamed,               \* the realm of a service named in short
          Nobody,                \* no user yet
          Process,
          MaxKeys                \* bound of the keys made

\* The principal krbtgt/B@A is B at A.
Name == [local : User \cup Service \cup Realm, realm : Realm]
UserName == {n \in Name : n.local \in User}
ServiceName == {n \in Name : n.local \in Service}
Tgs(from, to) == [local |-> to, realm |-> from]
HomeTgs == Tgs(Home, Home)

ASSUME NameAssumption ==
    /\ User \cap Service = {} /\ User \cap Realm = {} /\ Service \cap Realm = {}
    /\ Home \in Realm /\ Unnamed \notin Realm /\ Login \in Service
    /\ Registered \subseteq Name /\ HomeTgs \in Registered
    /\ Exported \subseteq ServiceName \cap Registered
    /\ Nobody \notin Name
    /\ groupsOf \in [UserName \cap Registered -> SUBSET Group]
ASSUME BoundAssumption == MaxKeys \in Nat

VARIABLES keys,     \* how many session keys and subkeys were made
          file,     \* the credential cache
          proc,     \* client processes
          net,      \* the message on each process's connection
          proved,   \* users that logged in (history)
          served,   \* requests the application server granted (history)
          mixed     \* a cache holds credentials of two logins (history)

vars == <<keys, file, proc, net, proved, served, mixed>>

Key == 1..MaxKeys
\* EncTicketPart, sealed under the key of a principal.  login: who proved the
\* password this ticket comes from (history).
Ticket == [under : Name, client : Name, session : Key, groups : SUBSET Group,
           login : Name]
\* A credential of the cache: the ticket, for which server, and of which client
\* it is said to be.
Cred == [server : Name, client : Name, ticket : Ticket]

Refusal == [type |-> "KRB_ERROR"]
Nothing == [type |-> "none"]
Idle == [pc |-> "idle"]

Init ==
    /\ keys = 0
    /\ file = {}
    /\ proc = [p \in Process |-> Idle]
    /\ net = [p \in Process |-> Nothing]
    /\ proved = {}
    /\ served = {}
    /\ mixed = FALSE

-----------------------------------------------------------------------------
(* Names *)

\* A name crosses the wire without its realm, which is that of another field.
AtRealm(name, realm) == [name EXCEPT !.realm = realm]

\* service_principal: a service named in short is one of the given realm.  The
\* mutant takes every name for a short one.
CanonicalShort(arg, realm) == AtRealm(arg, realm)
Canonical(arg, realm) == IF arg.realm = Unnamed THEN AtRealm(arg, realm) ELSE arg

Argument == [local : Service, realm : Realm \cup {Unnamed}]

-----------------------------------------------------------------------------
(* KDC *)

Fresh == keys + 1

\* handle_as_request, for a client that proved its password.
AsReply(req) ==
    LET realm == req.client.realm
    IN  IF req.client \notin Registered \/ Tgs(realm, realm) \notin Registered
        THEN Refusal
        ELSE [type |-> "AS_REP", client |-> req.client, service |-> Tgs(realm, realm),
              ticket |-> [under |-> Tgs(realm, realm),
                          client |-> AtRealm(req.client, realm), session |-> Fresh,
                          groups |-> groupsOf[req.client], login |-> req.client]]

\* The principal whose key has to open the TGT.
Opener(req) == IF req.tgtService \in Registered THEN req.tgtService ELSE HomeTgs

\* A TGT of another realm comes with the principal between the two.
RealmAccepted(req) ==
    \/ req.tgt.client.realm = req.realm
    \/ req.tgtService = Tgs(req.tgt.client.realm, req.realm)

\* The TGT opens, is of a realm accepted, and the authenticator matches it.
Validated(req) ==
    /\ req.tgt.under = Opener(req)
    /\ RealmAccepted(req)
    /\ req.auth.under = req.tgt.session
    /\ req.auth.client = req.tgt.client

\* handle_tgs_request: "realm": REALM.
Renewed(req) ==
    [under |-> Opener(req), client |-> AtRealm(req.tgt.client, Home),
     session |-> Fresh, groups |-> req.tgt.groups, login |-> req.tgt.login]

\* handle_tgs_request: "realm": tgt.get("realm", REALM).  One mutant puts the
\* realm that was asked for, the other loses the groups.
DerivedHere(req) ==
    [under |-> req.service, client |-> AtRealm(req.tgt.client, req.realm),
     session |-> Fresh, groups |-> req.tgt.groups, login |-> req.tgt.login]
DerivedBare(req) ==
    [under |-> req.service, client |-> AtRealm(req.tgt.client, req.tgt.client.realm),
     session |-> Fresh, groups |-> {}, login |-> req.tgt.login]
Derived(req) ==
    [under |-> req.service, client |-> AtRealm(req.tgt.client, req.tgt.client.realm),
     session |-> Fresh, groups |-> req.tgt.groups, login |-> req.tgt.login]

\* The reply names the client at REALM, whatever its realm.
TgsReply(req) ==
    IF ~Validated(req) THEN Refusal
    ELSE IF req.renew
    THEN [type |-> "TGS_REP", client |-> AtRealm(req.tgt.client, Home),
          service |-> HomeTgs, ticket |-> Renewed(req)]
    ELSE IF req.service \in Registered /\ req.service.local \notin User
    THEN [type |-> "TGS_REP", client |-> AtRealm(req.tgt.client, Home),
          service |-> AtRealm(req.service, req.realm), ticket |-> Derived(req)]
    ELSE Refusal

\* handle_client.
Kdc(p) ==
    LET req == net[p]
    IN  /\ req.type \in {"AS_REQ", "TGS_REQ"}
        /\ keys < MaxKeys
        /\ LET reply == IF req.type = "AS_REQ" THEN AsReply(req) ELSE TgsReply(req)
           IN  /\ net' = [net EXCEPT ![p] = reply]
               /\ keys' = IF reply = Refusal THEN keys ELSE Fresh
               /\ proved' = IF reply.type = "AS_REP" THEN proved \cup {req.client}
                            ELSE proved
        /\ UNCHANGED <<file, proc, served, mixed>>

-----------------------------------------------------------------------------
(* Application server *)

\* do_GET: the keytab's key of the service named opens the ticket, and the
\* authenticator matches it.  The mutant does not compare the names.
AuthenticApSealed(req) ==
    /\ req.service \in Exported
    /\ req.ticket.under = req.service
    /\ req.auth.under = req.ticket.session
AuthenticAp(req) ==
    /\ req.service \in Exported
    /\ req.ticket.under = req.service
    /\ req.auth.under = req.ticket.session
    /\ req.auth.client = req.ticket.client

ApServer(p) ==
    LET req == net[p]
    IN  /\ \/ /\ req.type = "GET"
              /\ net' = [net EXCEPT ![p] = [type |-> "401"]]
              /\ UNCHANGED served
           \/ /\ req.type = "AP_REQ" /\ AuthenticAp(req)
              /\ net' = [net EXCEPT ![p] =
                     [type |-> "AP_REP", under |-> req.auth.subkey]]
              /\ served' = served \cup
                     {[client |-> req.ticket.client, service |-> req.service,
                       groups |-> req.ticket.groups, subkey |-> req.auth.subkey]}
           \/ /\ req.type = "AP_REQ" /\ ~AuthenticAp(req)
              /\ net' = [net EXCEPT ![p] = Refusal]
              /\ UNCHANGED served
        /\ UNCHANGED <<keys, file, proc, proved, mixed>>

-----------------------------------------------------------------------------
(* Client *)

At(p, pc) == proc[p].pc = pc
IsTgt(c) == c.server.local \in Realm
For(cache, server) == {c \in cache : c.server = server}
TgtOf(u) == {c \in u.cache : IsTgt(c)}

\* A credential replaces that of the same server.
Put(cache, cred) == (cache \ For(cache, cred.server)) \cup {cred}

Goto(p, pc) ==
    /\ proc' = [proc EXCEPT ![p].pc = pc]
    /\ UNCHANGED <<keys, file, net, proved, served, mixed>>

Send(p, u, request) ==
    /\ proc' = [proc EXCEPT ![p] = u]
    /\ net' = [net EXCEPT ![p] = request]
    /\ UNCHANGED <<keys, file, proved, served, mixed>>

\* The cache is saved.  Where another command saves too, a service ticket of its
\* cache may stay behind.
Save(p, u) ==
    /\ proc' = [proc EXCEPT ![p] = IF u.pc = "idle" THEN Idle ELSE u]
    /\ net' = [net EXCEPT ![p] = Nothing]
    /\ \/ file' = u.cache
       \/ \E q \in Process \ {p}, c \in file :
              /\ proc[q] # Idle /\ ~IsTgt(c)
              /\ file' = Put(u.cache, c)
    /\ mixed' = (mixed \/ file' # u.cache)
    /\ UNCHANGED <<keys, proved, served>>

\* A process starts and loads the file; without a login, it goes on for the
\* client of the TGT there (_require_cached_client).
Begin(p, command, user, arg) ==
    /\ At(p, "idle")
    /\ LET u == [pc |-> "start", command |-> command, client |-> user, arg |-> arg,
                 want |-> HomeTgs, cache |-> file, subkey |-> 0]
       IN  \/ /\ command = "login"
              /\ proc' = [proc EXCEPT ![p] = u]
           \/ /\ command \in {"kvno", "kaccess", "krenew"}
              /\ \E tgt \in TgtOf(u) :
                     proc' = [proc EXCEPT ![p] =
                         [u EXCEPT !.client = tgt.client, !.pc = "service"]]
    /\ UNCHANGED <<keys, file, net, proved, served, mixed>>

\* main: phase1_as_exchange.  cmd_kinit ends after it.
SendAsReq(p) ==
    /\ At(p, "start")
    /\ Send(p, [proc[p] EXCEPT !.pc = "as"],
            [type |-> "AS_REQ", client |-> proc[p].client])

\* store_tgt, under the name the reply gives its client.
ReceiveAsRep(p) ==
    LET u == proc[p]
    IN  /\ At(p, "as") /\ net[p].type = "AS_REP"
        /\ Save(p, [u EXCEPT
               !.cache = {[server |-> Tgs(u.client.realm, u.client.realm),
                           client |-> net[p].client, ticket |-> net[p].ticket]},
               !.pc = "service"])

\* main: without a password, the cached TGT must be the user's.
Reuse(p) ==
    /\ At(p, "start")
    /\ \E tgt \in TgtOf(proc[p]) : tgt.client = proc[p].client
    /\ Goto(p, "service")

\* has_service_ticket: cmd_access looks under the client's realm, main under
\* REALM; cmd_kvno does not look.
HasTicket(u) ==
    /\ u.command \in {"kaccess", "login"}
    /\ For(u.cache, Canonical(u.arg, IF u.command = "login" THEN Home
                                    ELSE u.client.realm)) # {}

Authenticator(u, ticket) == [under |-> ticket.session, client |-> u.client]

\* The TGS_REQ for a service.  The mutant leaves the TGT's server to the
\* default.
TgsReqDefault(u, realm, service, ticket, server) ==
    [type |-> "TGS_REQ", realm |-> realm, service |-> AtRealm(service, realm),
     tgt |-> ticket, tgtService |-> HomeTgs, auth |-> Authenticator(u, ticket),
     renew |-> FALSE]
TgsReq(u, realm, service, ticket, server) ==
    [type |-> "TGS_REQ", realm |-> realm, service |-> AtRealm(service, realm),
     tgt |-> ticket, tgtService |-> server, auth |-> Authenticator(u, ticket),
     renew |-> FALSE]

\* phase2_tgs_exchange: straight to a service of the client's realm, otherwise
\* by way of the principal between the two realms.
SendTgsReq(p) ==
    LET u == proc[p]
        home == u.client.realm
        want == Canonical(u.arg, home)
    IN  /\ At(p, "service") /\ u.command # "krenew" /\ ~HasTicket(u)
        /\ \E tgt \in TgtOf(u) :
               Send(p, [u EXCEPT !.want = want,
                                 !.pc = IF want.realm = home THEN "tgs" ELSE "hop"],
                    TgsReq(u, home,
                           IF want.realm = home THEN want ELSE Tgs(home, want.realm),
                           tgt.ticket, Tgs(home, home)))

\* Step 2 of the cross-realm path.
ReceiveCrossTgt(p) ==
    LET u == proc[p]
    IN  /\ At(p, "hop") /\ net[p].type = "TGS_REP"
        /\ Send(p, [u EXCEPT !.pc = "tgs"],
                TgsReq(u, u.want.realm, u.want, net[p].ticket,
                       Tgs(u.client.realm, u.want.realm)))

\* store_service_ticket.
ReceiveTgsRep(p) ==
    LET u == proc[p]
        service == IF u.want.realm = u.client.realm THEN net[p].service ELSE u.want
        cred == [server |-> service, client |-> net[p].client, ticket |-> net[p].ticket]
    IN  /\ At(p, "tgs") /\ net[p].type = "TGS_REP"
        /\ Save(p, [u EXCEPT
               !.cache = Put(@, cred),
               !.pc = IF u.command = "kvno" THEN "idle" ELSE "ap"])

\* renew_tgt_exchange: REALM and TGS_PRINCIPAL, whoever the client is.
SendRenewal(p) ==
    LET u == proc[p]
    IN  /\ At(p, "service") /\ u.command = "krenew"
        /\ \E tgt \in TgtOf(u) :
               Send(p, [u EXCEPT !.pc = "renewing"],
                    [type |-> "TGS_REQ", realm |-> Home, service |-> HomeTgs,
                     tgt |-> tgt.ticket, tgtService |-> HomeTgs,
                     auth |-> Authenticator([u EXCEPT !.client = AtRealm(@, Home)],
                                            tgt.ticket),
                     renew |-> TRUE])

ReceiveRenewal(p) ==
    LET u == proc[p]
    IN  /\ At(p, "renewing") /\ net[p].type = "TGS_REP"
        /\ Save(p, [u EXCEPT
               !.cache = {[server |-> Tgs(u.client.realm, u.client.realm),
                           client |-> net[p].client, ticket |-> net[p].ticket]},
               !.pc = "idle"])

\* phase3_ap_exchange: the ticket is looked up under REALM.
Present(p) ==
    LET u == proc[p]
        service == Canonical(u.arg, Home)
    IN  /\ (At(p, "ap") \/ (At(p, "service") /\ HasTicket(u)))
        /\ IF For(u.cache, service) = {} THEN Goto(p, "missing")
           ELSE Send(p, [u EXCEPT !.pc = "get", !.want = service], [type |-> "GET"])

\* The server's challenge, answered with a subkey of the client's own.
SendApReq(p) ==
    LET u == proc[p]
    IN  /\ At(p, "get") /\ net[p].type = "401"
        /\ keys < MaxKeys
        /\ \E c \in For(u.cache, u.want) :
               /\ proc' = [proc EXCEPT ![p] = [u EXCEPT !.pc = "present", !.subkey = Fresh]]
               /\ net' = [net EXCEPT ![p] =
                      [type |-> "AP_REQ", service |-> u.want, ticket |-> c.ticket,
                       auth |-> [under |-> c.ticket.session, client |-> u.client,
                                 subkey |-> Fresh]]]
        /\ keys' = Fresh
        /\ UNCHANGED <<file, proved, served, mixed>>

\* Mutual authentication: the reply opens with the subkey, or else with the session
\* key of the ticket that was presented.
Verified(p) ==
    LET u == proc[p]
    IN  /\ net[p].type = "AP_REP"
        /\ \/ net[p].under = u.subkey
           \/ \E c \in For(u.cache, u.want) : net[p].under = c.ticket.session

ReceiveApRep(p) ==
    /\ At(p, "present")
    /\ Verified(p)
    /\ Goto(p, "done")

\* It ends: an error, no answer in time, nothing in the cache, or it is done.
\* What it had asked for may be handled all the same, to nobody's use.
End(p) ==
    /\ proc[p] # Idle
    /\ proc' = [proc EXCEPT ![p] = Idle]
    /\ net' = [net EXCEPT ![p] = Nothing]
    /\ UNCHANGED <<keys, file, proved, served, mixed>>

Next ==
    \E p \in Process :
        \/ \E user \in UserName \cap Registered :
               Begin(p, "login", user, [local |-> Login, realm |-> Unnamed])
        \/ \E command \in {"kvno", "kaccess"}, arg \in Argument :
               Begin(p, command, Nobody, arg)
        \/ Begin(p, "krenew", Nobody, [local |-> Login, realm |-> Unnamed])
        \/ SendAsReq(p) \/ ReceiveAsRep(p) \/ Reuse(p)
        \/ SendTgsReq(p) \/ ReceiveCrossTgt(p) \/ ReceiveTgsRep(p)
        \/ SendRenewal(p) \/ ReceiveRenewal(p)
        \/ Present(p) \/ SendApReq(p) \/ ReceiveApRep(p) \/ End(p)
        \/ Kdc(p) \/ ApServer(p)

Spec == Init /\ [][Next]_vars

-----------------------------------------------------------------------------
Command == {"login", "kvno", "kaccess", "krenew"}
PC == {"start", "as", "service", "hop", "tgs", "renewing", "ap", "missing", "get",
       "present", "done"}
Running == [pc : PC, command : Command, client : UserName \cup {Nobody},
            arg : Argument, want : Name, cache : SUBSET Cred, subkey : 0..MaxKeys]

OnePerServer(cache) == \A c, d \in cache : c.server = d.server => c = d

\* Every variable keeps its type, and no cache has two tickets of one server.
TypeOK ==
    /\ keys \in 0..MaxKeys
    /\ file \subseteq Cred /\ OnePerServer(file)
    /\ \A p \in Process :
           \/ proc[p] = Idle
           \/ proc[p] \in Running /\ OnePerServer(proc[p].cache)
    /\ proved \subseteq UserName
    /\ mixed \in BOOLEAN

Caches == {file} \cup {proc[p].cache : p \in {q \in Process : proc[q] # Idle}}
Tickets ==
    {c.ticket : c \in UNION Caches}
        \cup {net[p].ticket : p \in
                 {q \in Process : net[q].type \in {"AS_REP", "TGS_REP", "AP_REQ"}}}
        \cup {net[p].tgt : p \in {q \in Process : net[q].type = "TGS_REQ"}}

\* A ticket names the user whose password it comes from, realm and all, and
\* carries its groups: through AS, TGS, renewal and the principal between the
\* realms, though no message carries a client's realm with its name (the realm
\* fields that as_handler.py and tgs_handler.py put in a ticket).
TicketsNameTheirClient ==
    \A t \in Tickets :
        /\ t.login \in proved
        /\ t.client = t.login
        /\ t.groups = groupsOf[t.login]

\* KDC and application server refuse a request of the client's only if it
\* renews a TGT of the other realm, or if there is no such service, no way to
\* its realm or no key of it in the keytab; or if the cache mixes two logins.
RefusalsExplained ==
    \A p \in Process :
        net[p] = Refusal =>
            LET u == proc[p]
            IN  \/ mixed
                \/ u.command = "krenew" /\ u.client.realm # Home
                \/ Tgs(u.client.realm, u.client.realm) \notin Registered
                \/ /\ u.pc = "hop"
                   /\ Tgs(u.client.realm, u.want.realm) \notin Registered
                \/ u.pc = "tgs" /\ u.want \notin Registered
                \/ u.pc = "present" /\ u.want \notin Exported

\* The AP exchange finds the ticket of the TGS exchange before it, unless the
\* service was named in short by a client of the other realm
\* (phase2_tgs_exchange stores it under the client's realm, phase3_ap_exchange
\* looks under REALM).
TicketFound ==
    \A p \in Process :
        At(p, "missing") =>
            /\ proc[p].arg.realm = Unnamed
            /\ proc[p].client.realm # Home

\* A client that believes itself served was served by the service it asked for,
\* in its own name and groups, upon this very request: not upon another's
\* ticket, which a mixed cache may hold.
AccessIsMutual ==
    \A p \in Process :
        At(p, "done") =>
            \E s \in served :
                /\ s.subkey = proc[p].subkey
                /\ s.client = proc[p].client
                /\ s.service = proc[p].want
                /\ s.groups = groupsOf[s.client]

Leads(user, service) ==
    user.realm = service.realm \/ Tgs(user.realm, service.realm) \in Registered

Promise == INSTANCE RealmAccess WITH
    User <- UserName \cap Registered,
    Service <- Exported,
    served <- {[client |-> s.client, service |-> s.service, groups |-> s.groups] :
                  s \in served}

\* Whatever the route, a user is served under its own name, in its own groups,
\* after its password was proved, where its realm leads.
RefinesPromise == Promise!Spec
=============================================================================
