----------------------------- MODULE RealmsProofs -----------------------------
(***************************************************************************)
(* Proofs about Realms for any number of realms, users, services, groups   *)
(* and processes and any database.                                         *)
(*                                                                         *)
(* The argument: every ticket there is, in a cache, in a process or on its *)
(* way, names the user whose password it comes from (GoodTicket); the KDC  *)
(* keeps it so because a request names the server of its TGT truthfully    *)
(* (GoodMessage) and the TGT between two realms was sealed under a         *)
(* registered principal (OnRoute).                                         *)
(*                                                                         *)
(* On it rest two further invariants.  Dialogues: a process gets the       *)
(* ticket it asked for, and an answer to the very request it sent.         *)
(* Sessions: while no two logins mixed in a cache, both ends of every      *)
(* exchange agree on names, realms and keys, so that a refusal has another *)
(* cause.                                                                  *)
(***************************************************************************)
EXTENDS Realms, TLAPS

\* The user of a ticket is proved, named and in its groups, and a ticket of a
\* service leads there.
GoodTicket(t, known) ==
    /\ t \in Ticket
    /\ t.login \in known /\ t.client = t.login /\ t.groups = groupsOf[t.login]
    /\ t.under.local \in Service => Leads(t.client, t.under)

GoodCache(cache, known) ==
    /\ cache \subseteq Cred /\ OnePerServer(cache)
    /\ \A c \in cache : c.client \in UserName /\ GoodTicket(c.ticket, known)

GoodProcess(u, known) ==
    u # Idle => u \in Running /\ u.client \in UserName /\ GoodCache(u.cache, known)

\* The messages.
AsReq == [type : {"AS_REQ"}, client : UserName]
TgsReqs == [type : {"TGS_REQ"}, realm : Realm, service : Name, tgt : Ticket,
            tgtService : Name, auth : [under : Key, client : Name], renew : BOOLEAN]
Rep == [type : {"AS_REP", "TGS_REP"}, client : UserName, service : Name,
        ticket : Ticket]
ApReq == [type : {"AP_REQ"}, service : Name, ticket : Ticket,
          auth : [under : Key, client : Name, subkey : Key]]
Plain == [type : {"none", "KRB_ERROR", "GET", "401"}]
            \cup [type : {"AP_REP"}, under : Key]
Message == AsReq \cup TgsReqs \cup Rep \cup ApReq \cup Plain

\* Its tickets are good; a TGS_REQ is for a service of the realm it names, with a
\* TGT of a registered server or of a realm's own; a renewal is one of Home.
GoodMessage(m, known) ==
    /\ m \in Message
    /\ m.type \in {"AS_REP", "TGS_REP", "AP_REQ"} => GoodTicket(m.ticket, known)
    /\ m.type = "TGS_REQ" =>
           /\ GoodTicket(m.tgt, known)
           /\ m.service.realm = m.realm
           /\ m.tgtService \in Registered \/ m.tgtService.local = m.tgtService.realm
           /\ m.renew => m.tgtService = HomeTgs /\ m.auth.client.realm = Home

\* What comes back on the way to another realm is sealed under the principal
\* between the two.
OnRoute(u, m) ==
    u.pc = "hop" =>
        LET between == Tgs(u.client.realm, u.want.realm)
        IN  /\ m.type = "TGS_REQ" => ~m.renew /\ m.service = between
            /\ m.type = "TGS_REP" => m.ticket.under = between /\ between \in Registered

\* The inductive invariant.
IInv ==
    /\ keys \in 0..MaxKeys
    /\ GoodCache(file, proved)
    /\ proc = [p \in Process |-> proc[p]] /\ net = [p \in Process |-> net[p]]
    /\ \A p \in Process :
           /\ GoodProcess(proc[p], proved) /\ GoodMessage(net[p], proved)
           /\ OnRoute(proc[p], net[p])
    /\ proved \subseteq UserName \cap Registered
    /\ mixed \in BOOLEAN

-----------------------------------------------------------------------------
(* Names *)

LEMMA AtRealmIs ==
    ASSUME NEW n \in Name, NEW r \in Realm
    PROVE  /\ AtRealm(n, r) \in Name
           /\ AtRealm(n, r).local = n.local /\ AtRealm(n, r).realm = r
           /\ r = n.realm => AtRealm(n, r) = n
           /\ n \in UserName => AtRealm(n, r) \in UserName
<1>1. AtRealm(n, r) = [local |-> n.local, realm |-> r]
  BY DEF AtRealm, Name
<1>2. n = [local |-> n.local, realm |-> n.realm]
  BY DEF Name
<1>3. QED
  BY <1>1, <1>2 DEF Name, UserName

LEMMA TgsIs ==
    ASSUME NEW a \in Realm, NEW b \in Realm
    PROVE  /\ Tgs(a, b) \in Name /\ Tgs(a, b).local = b /\ Tgs(a, b).realm = a
           /\ Tgs(a, b).local \notin Service
BY NameAssumption DEF Tgs, Name

LEMMA HomeTgsIs == HomeTgs \in Name /\ HomeTgs.local = Home /\ HomeTgs.realm = Home
BY TgsIs, NameAssumption DEF HomeTgs

\* A service's full name.
LEMMA CanonicalIs ==
    ASSUME NEW arg \in Argument, NEW r \in Realm
    PROVE  Canonical(arg, r) \in Name
<1>1. CASE arg.realm = Unnamed
  <2>1. AtRealm(arg, r) = [local |-> arg.local, realm |-> r]
    BY DEF AtRealm, Argument
  <2>2. QED
    BY <1>1, <2>1 DEF Canonical, Argument, Name
<1>2. CASE arg.realm # Unnamed
  BY <1>2 DEF Canonical, Argument, Name
<1>3. QED
  BY <1>1, <1>2

LEMMA UserIs == \A n \in UserName : n \in Name /\ n.realm \in Realm
BY DEF UserName, Name

-----------------------------------------------------------------------------
(* What goes on being good *)

\* Those that are proved stay it.
LEMMA Monotone ==
    ASSUME NEW known, NEW more, known \subseteq more
    PROVE  /\ \A t : GoodTicket(t, known) => GoodTicket(t, more)
           /\ \A c : GoodCache(c, known) => GoodCache(c, more)
           /\ \A u : GoodProcess(u, known) => GoodProcess(u, more)
           /\ \A m : GoodMessage(m, known) => GoodMessage(m, more)
<1>1. \A t : GoodTicket(t, known) => GoodTicket(t, more)
  BY DEF GoodTicket
<1>2. \A c : GoodCache(c, known) => GoodCache(c, more)
  BY <1>1 DEF GoodCache
<1>3. \A u : GoodProcess(u, known) => GoodProcess(u, more)
  BY <1>2 DEF GoodProcess
<1>4. \A m : GoodMessage(m, known) => GoodMessage(m, more)
  BY <1>1 DEF GoodMessage
<1>5. QED
  BY <1>1, <1>2, <1>3, <1>4

LEMMA PutKeeps ==
    ASSUME NEW cache, NEW cred, NEW known, GoodCache(cache, known),
           cred \in Cred, cred.client \in UserName, GoodTicket(cred.ticket, known)
    PROVE  GoodCache(Put(cache, cred), known)
BY DEF GoodCache, Put, For, OnePerServer

LEMMA AloneIsGood ==
    ASSUME NEW cred \in Cred, NEW known,
           cred.client \in UserName, GoodTicket(cred.ticket, known)
    PROVE  GoodCache({cred}, known)
BY DEF GoodCache, OnePerServer

LEMMA PlainIsGood ==
    ASSUME NEW u, NEW known
    PROVE  /\ GoodMessage(Nothing, known) /\ OnRoute(u, Nothing)
           /\ GoodMessage(Refusal, known) /\ OnRoute(u, Refusal)
           /\ GoodProcess(Idle, known) /\ \A m : OnRoute(Idle, m)
BY DEF GoodMessage, Message, Plain, OnRoute, Nothing, Refusal, GoodProcess, Idle

\* A process and the message on its connection change.
LEMMA ProcessStep ==
    ASSUME IInv, NEW p \in Process, NEW u, NEW m,
           proc' = [proc EXCEPT ![p] = u], net' = [net EXCEPT ![p] = m],
           GoodProcess(u, proved), GoodMessage(m, proved), OnRoute(u, m),
           GoodCache(file', proved), keys' \in 0..MaxKeys, mixed' \in BOOLEAN,
           UNCHANGED proved
    PROVE  IInv'
<1>1. /\ proc' = [q \in Process |-> IF q = p THEN u ELSE proc[q]]
      /\ net' = [q \in Process |-> IF q = p THEN m ELSE net[q]]
  BY DEF IInv
<1>2. \A q \in Process : /\ proc'[q] = IF q = p THEN u ELSE proc[q]
                         /\ net'[q] = IF q = p THEN m ELSE net[q]
  BY <1>1
<1>3. proc' = [q \in Process |-> proc'[q]] /\ net' = [q \in Process |-> net'[q]]
  BY <1>1
<1>4. \A q \in Process : /\ GoodProcess(proc'[q], proved)
                         /\ GoodMessage(net'[q], proved)
                         /\ OnRoute(proc'[q], net'[q])
  BY <1>2 DEF IInv
<1>5. QED
  BY <1>3, <1>4 DEF IInv

\* The message alone changes, and a user may have been proved.
LEMMA MessageStep ==
    ASSUME IInv, NEW p \in Process, NEW m,
           net' = [net EXCEPT ![p] = m],
           GoodMessage(m, proved'), OnRoute(proc[p], m),
           keys' \in 0..MaxKeys,
           proved \subseteq proved', proved' \subseteq UserName \cap Registered,
           UNCHANGED <<file, proc, mixed>>
    PROVE  IInv'
<1>1. net' = [q \in Process |-> IF q = p THEN m ELSE net[q]]
  BY DEF IInv
<1>2. \A q \in Process : net'[q] = IF q = p THEN m ELSE net[q]
  BY <1>1
<1>3. net' = [q \in Process |-> net'[q]]
  BY <1>1
<1>4. GoodCache(file, proved')
  BY Monotone DEF IInv
<1>5. \A q \in Process : /\ GoodProcess(proc[q], proved')
                         /\ GoodMessage(net'[q], proved')
                         /\ OnRoute(proc[q], net'[q])
  BY <1>2, Monotone DEF IInv
<1>6. QED
  BY <1>3, <1>4, <1>5 DEF IInv

\* What is known of a process that runs.
LEMMA Knows ==
    ASSUME IInv, NEW p \in Process, proc[p] # Idle
    PROVE  /\ proc[p] \in Running /\ proc[p].client \in UserName
           /\ proc[p].client.realm \in Realm /\ proc[p].want \in Name
           /\ GoodCache(proc[p].cache, proved)
BY UserIs DEF IInv, GoodProcess, Running

LEMMA NotIdle == \A p : proc[p].pc # "idle" => proc[p] # Idle
BY DEF Idle

\* What is known of a credential of a process.
LEMMA KnowsCred ==
    ASSUME NEW cache, NEW known, GoodCache(cache, known), NEW c \in cache
    PROVE  /\ c \in Cred /\ c.client \in UserName
           /\ GoodTicket(c.ticket, known) /\ c.ticket \in Ticket
           /\ c.ticket.session \in Key
BY DEF GoodCache, GoodTicket, Cred, Ticket

\* What is known of a message.
LEMMA KnowsMessage ==
    ASSUME NEW m, NEW known, GoodMessage(m, known)
    PROVE  /\ m.type = "AS_REQ" => m \in AsReq
           /\ m.type = "TGS_REQ" => m \in TgsReqs /\ GoodTicket(m.tgt, known)
           /\ m.type \in {"AS_REP", "TGS_REP"} => m \in Rep /\ GoodTicket(m.ticket, known)
           /\ m.type = "AP_REQ" => m \in ApReq /\ GoodTicket(m.ticket, known)
BY DEF GoodMessage, Message, AsReq, TgsReqs, Rep, ApReq, Plain

-----------------------------------------------------------------------------
(* Client *)

LEMMA SendKeeps ==
    ASSUME IInv, NEW p \in Process, NEW u, NEW m, Send(p, u, m),
           GoodProcess(u, proved), GoodMessage(m, proved), OnRoute(u, m)
    PROVE  IInv'
<1>1. GoodCache(file', proved) /\ keys' \in 0..MaxKeys /\ mixed' \in BOOLEAN
  BY DEF Send, IInv
<1>2. QED
  BY <1>1, ProcessStep DEF Send

LEMMA GotoKeeps ==
    ASSUME IInv, NEW p \in Process, proc[p] # Idle, NEW pc \in PC, pc # "hop",
           Goto(p, pc)
    PROVE  IInv'
<1> DEFINE u == [proc[p] EXCEPT !.pc = pc]
<1>1. /\ u \in Running /\ u.pc = pc /\ u.client = proc[p].client
      /\ u.cache = proc[p].cache
  BY Knows DEF Running
<1>2. proc' = [proc EXCEPT ![p] = u] /\ net' = [net EXCEPT ![p] = net[p]]
  BY DEF Goto, IInv
<1> HIDE DEF u
<1>3. GoodProcess(u, proved) /\ OnRoute(u, net[p]) /\ GoodMessage(net[p], proved)
  BY <1>1, Knows DEF GoodProcess, OnRoute, IInv
<1>4. GoodCache(file', proved) /\ keys' \in 0..MaxKeys /\ mixed' \in BOOLEAN
      /\ proved' = proved
  BY DEF Goto, IInv
<1>5. QED
  BY <1>2, <1>3, <1>4, ProcessStep

\* Whatever the file holds after it.
LEMMA SaveKeeps ==
    ASSUME IInv, NEW p \in Process, NEW u \in Running, u.client \in UserName,
           GoodCache(u.cache, proved), u.pc # "hop", Save(p, u)
    PROVE  IInv'
<1> DEFINE v == IF u.pc = "idle" THEN Idle ELSE u
<1>1. GoodProcess(v, proved) /\ OnRoute(v, Nothing) /\ GoodMessage(Nothing, proved)
  BY PlainIsGood DEF GoodProcess
<1>2. proc' = [proc EXCEPT ![p] = v] /\ net' = [net EXCEPT ![p] = Nothing]
  BY DEF Save
<1> HIDE DEF v
<1>3. ASSUME NEW c \in file
      PROVE  GoodCache(Put(u.cache, c), proved)
  BY <1>3, PutKeeps, KnowsCred DEF IInv
<1>4. GoodCache(file', proved)
  BY <1>3 DEF Save
<1>5. keys' \in 0..MaxKeys /\ mixed' \in BOOLEAN /\ proved' = proved
  BY DEF Save, IInv
<1>6. QED
  BY <1>1, <1>2, <1>4, <1>5, ProcessStep

\* The save of a command that ends with it.
LEMMA SaveEndsKeeps ==
    ASSUME IInv, NEW p \in Process, NEW u, u.pc = "idle",
           GoodCache(u.cache, proved), Save(p, u)
    PROVE  IInv'
<1>1. proc' = [proc EXCEPT ![p] = Idle] /\ net' = [net EXCEPT ![p] = Nothing]
  BY DEF Save
<1>2. ASSUME NEW c \in file
      PROVE  GoodCache(Put(u.cache, c), proved)
  BY <1>2, PutKeeps, KnowsCred DEF IInv
<1>3. GoodCache(file', proved)
  BY <1>2 DEF Save
<1>4. keys' \in 0..MaxKeys /\ mixed' \in BOOLEAN /\ proved' = proved
  BY DEF Save, IInv
<1>5. QED
  BY <1>1, <1>3, <1>4, PlainIsGood, ProcessStep

LEMMA BeginKeeps ==
    ASSUME IInv, NEW p \in Process, NEW command \in Command, NEW user,
           NEW arg \in Argument,
           command = "login" => user \in UserName,
           command # "login" => user = Nobody, Begin(p, command, user, arg)
    PROVE  IInv'
<1> DEFINE u == [pc |-> "start", command |-> command, client |-> user, arg |-> arg,
                 want |-> HomeTgs, cache |-> file, subkey |-> 0]
<1>1. GoodCache(file, proved) /\ file \in SUBSET Cred
  BY DEF IInv, GoodCache
<1>2. 0 \in 0..MaxKeys
  BY BoundAssumption
<1>3. /\ u \in Running /\ u.client = user /\ u.cache = file /\ u.pc = "start"
      /\ \A n \in UserName :
             LET w == [u EXCEPT !.client = n, !.pc = "service"]
             IN  /\ w \in Running /\ w.client = n /\ w.cache = file
                 /\ w.pc = "service"
  BY <1>1, <1>2, HomeTgsIs DEF Running, PC
<1>4. CASE command = "login" /\ proc' = [proc EXCEPT ![p] = u]
  <2> HIDE DEF u
  <2>1. GoodProcess(u, proved) /\ OnRoute(u, net[p])
    BY <1>1, <1>3, <1>4 DEF GoodProcess, OnRoute
  <2>2. QED
    BY <1>1, <1>4, <2>1, ProcessStep DEF Begin, IInv
<1>5. ASSUME NEW tgt \in TgtOf(u),
             proc' = [proc EXCEPT ![p] =
                 [u EXCEPT !.client = tgt.client, !.pc = "service"]]
      PROVE  IInv'
  <2> DEFINE w == [u EXCEPT !.client = tgt.client, !.pc = "service"]
  <2>1. tgt \in file /\ tgt.client \in UserName
    BY <1>1, KnowsCred DEF TgtOf
  <2>2. /\ w \in Running /\ w.client = tgt.client /\ w.cache = file
        /\ w.pc = "service"
    BY <1>3, <2>1
  <2>3. proc' = [proc EXCEPT ![p] = w]
    BY <1>5
  <2> HIDE DEF w, u
  <2>4. GoodProcess(w, proved) /\ OnRoute(w, net[p])
    BY <1>1, <2>1, <2>2 DEF GoodProcess, OnRoute
  <2>5. QED
    BY <1>1, <2>3, <2>4, ProcessStep DEF Begin, IInv
<1>6. QED
  BY <1>4, <1>5 DEF Begin

LEMMA SendAsReqKeeps ==
    ASSUME IInv, NEW p \in Process, SendAsReq(p)
    PROVE  IInv'
<1> DEFINE u == [proc[p] EXCEPT !.pc = "as"]
           m == [type |-> "AS_REQ", client |-> proc[p].client]
<1>1. proc[p] # Idle
  BY NotIdle DEF SendAsReq, At
<1>2. /\ u \in Running /\ u.pc = "as" /\ u.client = proc[p].client
      /\ u.cache = proc[p].cache
  BY <1>1, Knows DEF Running, PC
<1>3. m \in AsReq
  BY <1>1, Knows DEF AsReq
<1>4. m.type = "AS_REQ"
  OBVIOUS
<1>5. Send(p, u, m)
  BY DEF SendAsReq
<1> HIDE DEF u, m
<1>6. GoodProcess(u, proved)
  BY <1>1, <1>2, Knows DEF GoodProcess
<1>7. GoodMessage(m, proved) /\ OnRoute(u, m)
  BY <1>2, <1>3, <1>4 DEF GoodMessage, Message, OnRoute
<1>8. QED
  BY <1>5, <1>6, <1>7, SendKeeps

LEMMA ReceiveAsRepKeeps ==
    ASSUME IInv, NEW p \in Process, ReceiveAsRep(p)
    PROVE  IInv'
<1> DEFINE cred == [server |-> Tgs(proc[p].client.realm, proc[p].client.realm),
                    client |-> net[p].client, ticket |-> net[p].ticket]
           u == [proc[p] EXCEPT !.cache = {cred}, !.pc = "service"]
<1>1. proc[p] # Idle /\ net[p].type = "AS_REP" /\ Save(p, u)
  BY NotIdle DEF ReceiveAsRep, At
<1>2. /\ net[p] \in Rep /\ GoodTicket(net[p].ticket, proved)
  BY <1>1, KnowsMessage DEF IInv
<1>3. cred \in Cred /\ cred.client = net[p].client /\ cred.ticket = net[p].ticket
      /\ cred.client \in UserName
  BY <1>1, <1>2, Knows, TgsIs, UserIs DEF Cred, Rep
<1> HIDE DEF cred
<1>4. /\ u \in Running /\ u.pc = "service" /\ u.client = proc[p].client
      /\ u.cache = {cred}
  BY <1>1, <1>3, Knows DEF Running, PC
<1> HIDE DEF u
<1>5. GoodCache(u.cache, proved)
  BY <1>2, <1>3, <1>4, AloneIsGood
<1>6. QED
  BY <1>1, <1>4, <1>5, Knows, SaveKeeps

LEMMA ReuseKeeps ==
    ASSUME IInv, NEW p \in Process, Reuse(p)
    PROVE  IInv'
<1>1. proc[p] # Idle /\ Goto(p, "service")
  BY NotIdle DEF Reuse, At
<1>2. QED
  BY <1>1, GotoKeeps DEF PC

\* The requests of the TGS exchange.
LEMMA TgsReqIs ==
    ASSUME NEW u, u \in Running, u.client \in UserName, NEW realm \in Realm,
           NEW service \in Name, NEW ticket, GoodTicket(ticket, proved),
           NEW server \in Name,
           server \in Registered \/ server.local = server.realm
    PROVE  /\ GoodMessage(TgsReq(u, realm, service, ticket, server), proved)
           /\ LET m == TgsReq(u, realm, service, ticket, server)
              IN  m.type = "TGS_REQ" /\ ~m.renew /\ m.service = AtRealm(service, realm)
<1> DEFINE m == TgsReq(u, realm, service, ticket, server)
           auth == Authenticator(u, ticket)
<1>1. auth \in [under : Key, client : Name]
  BY UserIs DEF Authenticator, GoodTicket, Ticket
<1> HIDE DEF auth
<1>2. /\ m = [type |-> "TGS_REQ", realm |-> realm, service |-> AtRealm(service, realm),
              tgt |-> ticket, tgtService |-> server, auth |-> auth, renew |-> FALSE]
  BY DEF TgsReq, auth
<1>3. m \in TgsReqs
  BY <1>1, <1>2, AtRealmIs DEF TgsReqs, GoodTicket
<1>4. /\ m.type = "TGS_REQ" /\ m.realm = realm /\ m.service = AtRealm(service, realm)
      /\ m.tgt = ticket /\ m.tgtService = server /\ m.renew = FALSE
  BY <1>2
<1> HIDE DEF m
<1>5. m.service.realm = m.realm
  BY <1>4, AtRealmIs
<1>6. GoodMessage(m, proved)
  BY <1>3, <1>4, <1>5 DEF GoodMessage, Message
<1>7. QED
  BY <1>4, <1>6 DEF m

LEMMA SendTgsReqKeeps ==
    ASSUME IInv, NEW p \in Process, SendTgsReq(p)
    PROVE  IInv'
<1> DEFINE home == proc[p].client.realm
           want == Canonical(proc[p].arg, home)
           pc == IF want.realm = home THEN "tgs" ELSE "hop"
           service == IF want.realm = home THEN want ELSE Tgs(home, want.realm)
           u == [proc[p] EXCEPT !.want = want, !.pc = pc]
<1>1. proc[p] # Idle
  BY NotIdle DEF SendTgsReq, At
<1>2. PICK tgt \in TgtOf(proc[p]) :
          Send(p, u, TgsReq(proc[p], home, service, tgt.ticket, Tgs(home, home)))
  BY DEF SendTgsReq
<1>3. home \in Realm /\ want \in Name /\ want.realm \in Realm
  BY <1>1, Knows, CanonicalIs DEF Running, Name
<1> HIDE DEF want, home
<1>4. /\ u \in Running /\ u.pc = pc /\ u.client = proc[p].client
      /\ u.cache = proc[p].cache /\ u.want = want
  BY <1>1, <1>3, Knows DEF Running, PC
<1> HIDE DEF u
<1>5. GoodTicket(tgt.ticket, proved)
  BY <1>1, Knows, KnowsCred DEF TgtOf
<1>6. service \in Name /\ (pc = "hop" => service = Tgs(home, want.realm))
  BY <1>3, TgsIs
<1> DEFINE m == TgsReq(proc[p], home, service, tgt.ticket, Tgs(home, home))
<1>7. Tgs(home, home) \in Name /\ Tgs(home, home).local = Tgs(home, home).realm
  BY <1>3, TgsIs
<1> HIDE DEF service
<1>8. /\ GoodMessage(m, proved)
      /\ m.type = "TGS_REQ" /\ ~m.renew /\ m.service = AtRealm(service, home)
  BY <1>1, <1>3, <1>4, <1>5, <1>6, <1>7, Knows, TgsReqIs
<1>9. Send(p, u, m)
  BY <1>2
<1> HIDE DEF m, pc
<1>10. pc = "hop" => m.service = Tgs(home, want.realm)
  BY <1>3, <1>6, <1>8, AtRealmIs, TgsIs
<1>11. OnRoute(u, m)
  BY <1>4, <1>8, <1>10 DEF OnRoute, home
<1>12. GoodProcess(u, proved)
  BY <1>1, <1>4, Knows DEF GoodProcess
<1>13. QED
  BY <1>8, <1>9, <1>11, <1>12, SendKeeps

LEMMA ReceiveCrossTgtKeeps ==
    ASSUME IInv, NEW p \in Process, ReceiveCrossTgt(p)
    PROVE  IInv'
<1> DEFINE between == Tgs(proc[p].client.realm, proc[p].want.realm)
           u == [proc[p] EXCEPT !.pc = "tgs"]
           m == TgsReq(proc[p], proc[p].want.realm, proc[p].want, net[p].ticket, between)
<1>1. proc[p] # Idle /\ proc[p].pc = "hop" /\ net[p].type = "TGS_REP" /\ Send(p, u, m)
  BY NotIdle DEF ReceiveCrossTgt, At
<1>2. GoodTicket(net[p].ticket, proved) /\ between \in Registered
  BY <1>1, KnowsMessage DEF IInv, OnRoute
<1>3. /\ u \in Running /\ u.pc = "tgs" /\ u.client = proc[p].client
      /\ u.cache = proc[p].cache
  BY <1>1, Knows DEF Running, PC
<1>4. proc[p].want.realm \in Realm
  BY <1>1, Knows DEF Name
<1>5. between \in Name
  BY <1>1, <1>4, Knows, TgsIs
<1> HIDE DEF between
<1>6. GoodMessage(m, proved)
  BY <1>1, <1>2, <1>4, <1>5, Knows, TgsReqIs
<1> HIDE DEF u, m
<1>7. GoodProcess(u, proved) /\ OnRoute(u, m)
  BY <1>1, <1>3, Knows DEF GoodProcess, OnRoute
<1>8. QED
  BY <1>1, <1>6, <1>7, SendKeeps

LEMMA ReceiveTgsRepKeeps ==
    ASSUME IInv, NEW p \in Process, ReceiveTgsRep(p)
    PROVE  IInv'
<1> DEFINE service == IF proc[p].want.realm = proc[p].client.realm
                      THEN net[p].service ELSE proc[p].want
           cred == [server |-> service, client |-> net[p].client,
                    ticket |-> net[p].ticket]
           pc == IF proc[p].command = "kvno" THEN "idle" ELSE "ap"
           cache == Put(proc[p].cache, cred)
           u == [proc[p] EXCEPT !.cache = cache, !.pc = pc]
<1>1. proc[p] # Idle /\ net[p].type = "TGS_REP"
  BY NotIdle DEF ReceiveTgsRep, At
<1>2. Save(p, u)
  BY DEF ReceiveTgsRep
<1>3. net[p] \in Rep /\ GoodTicket(net[p].ticket, proved)
  BY <1>1, KnowsMessage DEF IInv
<1>4. /\ cred \in Cred /\ cred.client = net[p].client /\ cred.ticket = net[p].ticket
      /\ cred.client \in UserName
  BY <1>1, <1>3, Knows, UserIs DEF Cred, Rep
<1> HIDE DEF cred
<1>5. GoodCache(cache, proved)
  BY <1>1, <1>3, <1>4, Knows, PutKeeps
<1>6. cache \subseteq Cred
  BY <1>5 DEF GoodCache
<1> HIDE DEF cache
<1>7. /\ pc = "ap" =>
             /\ u \in Running /\ u.pc = "ap" /\ u.client = proc[p].client
             /\ u.cache = cache
      /\ u.pc = pc
  BY <1>1, <1>6, Knows DEF Running, PC
<1>8. CASE pc = "ap"
  <2> HIDE DEF u, pc
  <2>1. u \in Running /\ u.client \in UserName /\ GoodCache(u.cache, proved)
        /\ u.pc # "hop"
    BY <1>1, <1>5, <1>7, <1>8, Knows
  <2>2. QED
    BY <1>2, <2>1, SaveKeeps
<1>9. CASE pc = "idle"
  <2>1. u.cache = cache /\ u.pc = "idle"
    BY <1>1, <1>7, <1>9, Knows DEF Running
  <2> HIDE DEF u, pc
  <2>2. QED
    BY <1>2, <1>5, <2>1, SaveEndsKeeps
<1>10. QED
  BY <1>8, <1>9

LEMMA SendRenewalKeeps ==
    ASSUME IInv, NEW p \in Process, SendRenewal(p)
    PROVE  IInv'
<1> DEFINE u == [proc[p] EXCEPT !.pc = "renewing"]
           v == [proc[p] EXCEPT !.client = AtRealm(proc[p].client, Home)]
<1>1. proc[p] # Idle
  BY NotIdle DEF SendRenewal, At
<1>2. PICK tgt \in TgtOf(proc[p]) :
          Send(p, u, [type |-> "TGS_REQ", realm |-> Home, service |-> HomeTgs,
                      tgt |-> tgt.ticket, tgtService |-> HomeTgs,
                      auth |-> Authenticator(v, tgt.ticket), renew |-> TRUE])
  BY DEF SendRenewal
<1>3. GoodTicket(tgt.ticket, proved) /\ tgt.ticket.session \in Key
  BY <1>1, Knows, KnowsCred DEF TgtOf
<1>4. v.client = AtRealm(proc[p].client, Home)
  BY <1>1, Knows DEF Running
<1> DEFINE auth == Authenticator(v, tgt.ticket)
           m == [type |-> "TGS_REQ", realm |-> Home, service |-> HomeTgs,
                 tgt |-> tgt.ticket, tgtService |-> HomeTgs, auth |-> auth,
                 renew |-> TRUE]
<1>5. Home \in Realm /\ proc[p].client \in Name
  BY <1>1, Knows, UserIs, NameAssumption
<1> HIDE DEF v
<1>6. auth \in [under : Key, client : Name] /\ auth.client.realm = Home
  BY <1>3, <1>4, <1>5, AtRealmIs DEF Authenticator
<1>7. Send(p, u, m)
  BY <1>2
<1> HIDE DEF auth
<1>8. /\ m \in TgsReqs /\ m.type = "TGS_REQ" /\ m.tgt = tgt.ticket
      /\ m.service.realm = m.realm /\ m.tgtService = HomeTgs /\ m.auth = auth
  BY <1>3, <1>5, <1>6, HomeTgsIs DEF TgsReqs, GoodTicket
<1>9. /\ u \in Running /\ u.pc = "renewing" /\ u.client = proc[p].client
      /\ u.cache = proc[p].cache
  BY <1>1, Knows DEF Running, PC
<1> HIDE DEF m, u
<1>10. GoodMessage(m, proved)
  BY <1>3, <1>6, <1>8, HomeTgsIs DEF GoodMessage, Message
<1>11. GoodProcess(u, proved) /\ OnRoute(u, m)
  BY <1>1, <1>9, Knows DEF GoodProcess, OnRoute
<1>12. QED
  BY <1>7, <1>10, <1>11, SendKeeps

LEMMA ReceiveRenewalKeeps ==
    ASSUME IInv, NEW p \in Process, ReceiveRenewal(p)
    PROVE  IInv'
<1> DEFINE cred == [server |-> Tgs(proc[p].client.realm, proc[p].client.realm),
                    client |-> net[p].client, ticket |-> net[p].ticket]
           u == [proc[p] EXCEPT !.cache = {cred}, !.pc = "idle"]
<1>1. proc[p] # Idle /\ net[p].type = "TGS_REP" /\ Save(p, u)
  BY NotIdle DEF ReceiveRenewal, At
<1>2. /\ net[p] \in Rep /\ GoodTicket(net[p].ticket, proved)
  BY <1>1, KnowsMessage DEF IInv
<1>3. cred \in Cred /\ cred.client = net[p].client /\ cred.ticket = net[p].ticket
      /\ cred.client \in UserName
  BY <1>1, <1>2, Knows, TgsIs, UserIs DEF Cred, Rep
<1> HIDE DEF cred
<1>4. u.pc = "idle" /\ u.cache = {cred}
  BY <1>1, Knows DEF Running
<1> HIDE DEF u
<1>5. GoodCache(u.cache, proved)
  BY <1>2, <1>3, <1>4, AloneIsGood
<1>6. QED
  BY <1>1, <1>4, <1>5, SaveEndsKeeps

LEMMA PresentKeeps ==
    ASSUME IInv, NEW p \in Process, Present(p)
    PROVE  IInv'
<1> DEFINE service == Canonical(proc[p].arg, Home)
           u == [proc[p] EXCEPT !.pc = "get", !.want = service]
           m == [type |-> "GET"]
<1>1. proc[p] # Idle
  BY NotIdle DEF Present, At
<1>2. Goto(p, "missing") \/ Send(p, u, m)
  BY DEF Present
<1>3. service \in Name
  BY <1>1, Knows, CanonicalIs, NameAssumption DEF Running
<1> HIDE DEF service
<1>4. /\ u \in Running /\ u.pc = "get" /\ u.client = proc[p].client
      /\ u.cache = proc[p].cache
  BY <1>1, <1>3, Knows DEF Running, PC
<1>5. m.type = "GET" /\ m \in Plain
  BY DEF Plain
<1> HIDE DEF u, m
<1>6. GoodProcess(u, proved) /\ OnRoute(u, m) /\ GoodMessage(m, proved)
  BY <1>1, <1>4, <1>5, Knows DEF GoodProcess, OnRoute, GoodMessage, Message
<1>7. "missing" \in PC /\ "missing" # "hop"
  BY DEF PC
<1>8. QED
  BY <1>1, <1>2, <1>6, <1>7, GotoKeeps, SendKeeps

LEMMA SendApReqKeeps ==
    ASSUME IInv, NEW p \in Process, SendApReq(p)
    PROVE  IInv'
<1> DEFINE u == [proc[p] EXCEPT !.pc = "present", !.subkey = Fresh]
<1>1. proc[p] # Idle
  BY NotIdle DEF SendApReq, At
<1>2. Fresh \in Key /\ Fresh \in 0..MaxKeys /\ keys' = Fresh
  BY BoundAssumption DEF SendApReq, Fresh, Key, IInv
<1>3. PICK c \in For(proc[p].cache, proc[p].want) :
        /\ proc' = [proc EXCEPT ![p] = u]
        /\ net' = [net EXCEPT ![p] =
               [type |-> "AP_REQ", service |-> proc[p].want, ticket |-> c.ticket,
                auth |-> [under |-> c.ticket.session, client |-> proc[p].client,
                          subkey |-> Fresh]]]
  BY DEF SendApReq
<1> DEFINE m == [type |-> "AP_REQ", service |-> proc[p].want, ticket |-> c.ticket,
                 auth |-> [under |-> c.ticket.session, client |-> proc[p].client,
                           subkey |-> Fresh]]
<1>4. GoodTicket(c.ticket, proved) /\ c.ticket \in Ticket /\ c.ticket.session \in Key
  BY <1>1, Knows, KnowsCred DEF For
<1>5. m \in ApReq /\ m.type = "AP_REQ" /\ m.ticket = c.ticket
  BY <1>1, <1>2, <1>4, Knows, UserIs DEF ApReq
<1>6. /\ u \in Running /\ u.pc = "present" /\ u.client = proc[p].client
      /\ u.cache = proc[p].cache
  BY <1>1, <1>2, Knows DEF Running, PC
<1>7. net' = [net EXCEPT ![p] = m]
  BY <1>3
<1> HIDE DEF m, u
<1>8. GoodProcess(u, proved) /\ OnRoute(u, m) /\ GoodMessage(m, proved)
  BY <1>1, <1>4, <1>5, <1>6, Knows DEF GoodProcess, OnRoute, GoodMessage, Message
<1>9. GoodCache(file', proved) /\ mixed' \in BOOLEAN /\ proved' = proved
  BY DEF SendApReq, IInv
<1>10. QED
  BY <1>2, <1>3, <1>7, <1>8, <1>9, ProcessStep

LEMMA ReceiveApRepKeeps ==
    ASSUME IInv, NEW p \in Process, ReceiveApRep(p)
    PROVE  IInv'
<1>1. proc[p] # Idle /\ Goto(p, "done") /\ "done" \in PC
  BY NotIdle DEF ReceiveApRep, At, PC
<1>2. QED
  BY <1>1, GotoKeeps

LEMMA EndKeeps ==
    ASSUME IInv, NEW p \in Process, End(p)
    PROVE  IInv'
<1>1. GoodCache(file', proved) /\ keys' \in 0..MaxKeys /\ mixed' \in BOOLEAN
      /\ proved' = proved
  BY DEF End, IInv
<1>2. QED
  BY <1>1, PlainIsGood, ProcessStep DEF End

-----------------------------------------------------------------------------
(* KDC and application server *)

\* A ticket that is like another one but for its server and session key.
LEMMA DerivedIsGood ==
    ASSUME NEW t, NEW known, GoodTicket(t, known),
           NEW under \in Name, NEW session \in Key,
           under.local \in Service => Leads(t.client, under)
    PROVE  GoodTicket([under |-> under, client |-> t.client, session |-> session,
                       groups |-> t.groups, login |-> t.login], known)
BY DEF GoodTicket, Ticket

LEMMA AsReplyIs ==
    ASSUME IInv, NEW m \in AsReq, keys < MaxKeys
    PROVE  LET reply == AsReply(m)
           IN  \/ reply = Refusal
               \/ /\ reply.type = "AS_REP" /\ m.client \in Registered
                  /\ GoodMessage(reply, proved \cup {m.client})
<1> DEFINE realm == m.client.realm
           ticket == [under |-> Tgs(realm, realm), client |-> AtRealm(m.client, realm),
                      session |-> Fresh, groups |-> groupsOf[m.client],
                      login |-> m.client]
           reply == [type |-> "AS_REP", client |-> m.client,
                     service |-> Tgs(realm, realm), ticket |-> ticket]
<1>1. m.client \in UserName /\ m.client \in Name /\ realm \in Realm
  BY UserIs DEF AsReq
<1>2. Fresh \in Key
  BY BoundAssumption DEF Fresh, Key, IInv
<1>3. ASSUME m.client \in Registered
      PROVE  reply.type = "AS_REP" /\ GoodMessage(reply, proved \cup {m.client})
  <2>1. groupsOf[m.client] \in SUBSET Group
    BY <1>1, <1>3, NameAssumption
  <2>2. AtRealm(m.client, realm) = m.client
    BY <1>1, AtRealmIs
  <2>3. /\ Tgs(realm, realm) \in Name /\ Tgs(realm, realm).local \notin Service
    BY <1>1, TgsIs
  <2>4. /\ ticket \in Ticket /\ ticket.login = m.client /\ ticket.client = m.client
        /\ ticket.groups = groupsOf[m.client] /\ ticket.under = Tgs(realm, realm)
    BY <1>1, <1>2, <2>1, <2>2, <2>3 DEF Ticket
  <2> HIDE DEF ticket
  <2>5. GoodTicket(ticket, proved \cup {m.client})
    BY <2>3, <2>4 DEF GoodTicket
  <2>6. reply \in Rep /\ reply.type = "AS_REP" /\ reply.ticket = ticket
    BY <1>1, <2>3, <2>4 DEF Rep
  <2> HIDE DEF reply
  <2>7. QED
    BY <2>5, <2>6 DEF GoodMessage, Message
<1>4. m.client \notin Registered => AsReply(m) = Refusal
  BY DEF AsReply
<1>5. AsReply(m) = Refusal \/ AsReply(m) = reply
  BY DEF AsReply
<1>6. QED
  BY <1>3, <1>4, <1>5

\* The key that opens the TGT: of the server it names, if that is registered.
LEMMA TgsReplyIs ==
    ASSUME IInv, NEW m, GoodMessage(m, proved), m.type = "TGS_REQ", keys < MaxKeys
    PROVE  LET reply == TgsReply(m)
           IN  \/ reply = Refusal
               \/ /\ reply.type = "TGS_REP" /\ GoodMessage(reply, proved)
                  /\ ~m.renew => /\ reply.ticket.under = m.service
                                 /\ m.service \in Registered
<1>1. m \in TgsReqs /\ GoodTicket(m.tgt, proved)
  BY KnowsMessage
<1>2. /\ m.realm \in Realm /\ m.service \in Name /\ m.service.realm = m.realm
      /\ m.tgtService \in Name /\ m.renew \in BOOLEAN
      /\ m.tgtService \in Registered \/ m.tgtService.local = m.tgtService.realm
      /\ m.renew => m.tgtService = HomeTgs /\ m.auth.client.realm = Home
  BY <1>1 DEF TgsReqs, GoodMessage
<1>3. Fresh \in Key
  BY BoundAssumption DEF Fresh, Key, IInv
<1>4. /\ m.tgt.client \in UserName /\ m.tgt.client \in Name /\ m.tgt.client.realm \in Realm
  BY <1>1, UserIs DEF GoodTicket, IInv
<1>5. ASSUME Validated(m), m.renew
      PROVE  /\ TgsReply(m).type = "TGS_REP" /\ GoodMessage(TgsReply(m), proved)
  <2>1. m.tgt.client.realm = Home
    BY <1>2, <1>5 DEF Validated
  <2>2. Opener(m) = HomeTgs
    BY <1>2, <1>5 DEF Opener
  <2>3. AtRealm(m.tgt.client, Home) = m.tgt.client
    BY <1>4, <2>1, AtRealmIs
  <2>4. HomeTgs \in Name /\ HomeTgs.local \notin Service
    BY HomeTgsIs, NameAssumption
  <2> DEFINE ticket == Renewed(m)
             reply == [type |-> "TGS_REP", client |-> m.tgt.client,
                       service |-> HomeTgs, ticket |-> ticket]
  <2>5. GoodTicket(ticket, proved)
    BY <1>1, <1>3, <2>2, <2>3, <2>4, DerivedIsGood DEF Renewed
  <2> HIDE DEF ticket
  <2>6. reply \in Rep /\ reply.type = "TGS_REP" /\ reply.ticket = ticket
    BY <1>4, <2>4, <2>5 DEF Rep, GoodTicket
  <2>7. TgsReply(m) = reply
    BY <1>5, <2>3 DEF TgsReply, ticket
  <2> HIDE DEF reply
  <2>8. QED
    BY <2>5, <2>6, <2>7 DEF GoodMessage, Message
<1>6. ASSUME Validated(m), ~m.renew, m.service \in Registered, m.service.local \notin User
      PROVE  /\ TgsReply(m).type = "TGS_REP" /\ GoodMessage(TgsReply(m), proved)
             /\ TgsReply(m).ticket.under = m.service
  <2>1. AtRealm(m.tgt.client, m.tgt.client.realm) = m.tgt.client
    BY <1>4, AtRealmIs
  <2>2. AtRealm(m.service, m.realm) = m.service /\ Home \in Realm
    BY <1>2, AtRealmIs, NameAssumption
  <2>3. Leads(m.tgt.client, m.service)
    <3>1. CASE m.tgt.client.realm = m.realm
      BY <1>2, <3>1 DEF Leads
    <3>2. CASE m.tgtService = Tgs(m.tgt.client.realm, m.realm)
      <4>1. m.tgtService.local = m.realm /\ m.tgtService.realm = m.tgt.client.realm
        BY <1>2, <1>4, <3>2, TgsIs
      <4>2. QED
        BY <1>2, <3>2, <4>1 DEF Leads
    <3>3. QED
      BY <1>6, <3>1, <3>2 DEF Validated, RealmAccepted
  <2> DEFINE ticket == Derived(m)
             reply == [type |-> "TGS_REP", client |-> AtRealm(m.tgt.client, Home),
                       service |-> m.service, ticket |-> ticket]
  <2>4. GoodTicket(ticket, proved)
    BY <1>1, <1>2, <1>3, <2>1, <2>3, DerivedIsGood DEF Derived
  <2>5. ticket.under = m.service
    BY DEF Derived
  <2> HIDE DEF ticket
  <2>6. AtRealm(m.tgt.client, Home) \in UserName
    BY <1>4, <2>2, AtRealmIs
  <2>7. reply \in Rep /\ reply.type = "TGS_REP" /\ reply.ticket = ticket
    BY <1>2, <2>4, <2>6 DEF Rep, GoodTicket
  <2>8. TgsReply(m) = reply
    BY <1>6, <2>2 DEF TgsReply, ticket
  <2> HIDE DEF reply
  <2>9. QED
    BY <2>4, <2>5, <2>7, <2>8 DEF GoodMessage, Message
<1>7. \/ Validated(m) /\ m.renew
      \/ Validated(m) /\ ~m.renew /\ m.service \in Registered /\ m.service.local \notin User
      \/ TgsReply(m) = Refusal
  BY <1>2 DEF TgsReply
<1>8. QED
  BY <1>5, <1>6, <1>7

LEMMA KdcKeeps ==
    ASSUME IInv, NEW p \in Process, Kdc(p)
    PROVE  IInv'
<1> DEFINE req == net[p]
           reply == IF req.type = "AS_REQ" THEN AsReply(req) ELSE TgsReply(req)
<1>1. /\ req.type \in {"AS_REQ", "TGS_REQ"} /\ keys < MaxKeys
      /\ net' = [net EXCEPT ![p] = reply]
      /\ keys' = IF reply = Refusal THEN keys ELSE Fresh
      /\ proved' = IF reply.type = "AS_REP" THEN proved \cup {req.client} ELSE proved
      /\ UNCHANGED <<file, proc, served, mixed>>
  BY DEF Kdc
<1>2. keys' \in 0..MaxKeys
  BY <1>1, BoundAssumption DEF IInv, Fresh
<1>3. GoodMessage(req, proved) /\ OnRoute(proc[p], req) /\ proved \subseteq UserName \cap Registered
  BY DEF IInv
<1>4. Refusal.type = "KRB_ERROR"
  BY DEF Refusal
<1>5. CASE req.type = "AS_REQ"
  <2>1. req \in AsReq /\ req.client \in UserName
    BY <1>3, <1>5, KnowsMessage DEF AsReq
  <2>2. \/ reply = Refusal
        \/ /\ reply.type = "AS_REP" /\ req.client \in Registered
           /\ GoodMessage(reply, proved \cup {req.client})
    BY <1>1, <1>5, <2>1, AsReplyIs
  <2> HIDE DEF reply
  <2>3. GoodMessage(reply, proved') /\ OnRoute(proc[p], reply)
    BY <1>1, <1>4, <2>2, PlainIsGood DEF OnRoute
  <2>4. proved \subseteq proved' /\ proved' \subseteq UserName \cap Registered
    BY <1>1, <1>3, <1>4, <2>1, <2>2
  <2>5. QED
    BY <1>1, <1>2, <2>3, <2>4, MessageStep
<1>6. CASE req.type = "TGS_REQ"
  <2>1. \/ reply = Refusal
        \/ /\ reply.type = "TGS_REP" /\ GoodMessage(reply, proved)
           /\ ~req.renew => reply.ticket.under = req.service /\ req.service \in Registered
    BY <1>1, <1>3, <1>6, TgsReplyIs
  <2> HIDE DEF reply
  <2>2. proved' = proved
    BY <1>1, <1>4, <2>1
  <2>3. GoodMessage(reply, proved')
    BY <2>1, <2>2, PlainIsGood
  <2>4. OnRoute(proc[p], reply)
    BY <1>3, <1>4, <1>6, <2>1 DEF OnRoute
  <2>5. QED
    BY <1>1, <1>2, <1>3, <2>2, <2>3, <2>4, MessageStep
<1>7. QED
  BY <1>1, <1>5, <1>6

LEMMA ApServerKeeps ==
    ASSUME IInv, NEW p \in Process, ApServer(p)
    PROVE  IInv'
<1>1. ASSUME NEW m, net' = [net EXCEPT ![p] = m], m \in Plain,
             m.type \in {"401", "AP_REP", "KRB_ERROR"}
      PROVE  IInv'
  <2>1. GoodMessage(m, proved) /\ OnRoute(proc[p], m)
    BY <1>1 DEF GoodMessage, Message, OnRoute
  <2>2. /\ proved' = proved /\ keys' \in 0..MaxKeys
        /\ UNCHANGED <<file, proc, mixed>> /\ proved \subseteq UserName \cap Registered
    BY DEF ApServer, IInv
  <2>3. QED
    BY <1>1, <2>1, <2>2, MessageStep
<1>2. CASE net' = [net EXCEPT ![p] = [type |-> "401"]]
  <2> DEFINE m == [type |-> "401"]
  <2>1. m \in Plain /\ m.type = "401" /\ net' = [net EXCEPT ![p] = m]
    BY <1>2 DEF Plain
  <2> HIDE DEF m
  <2>2. QED
    BY <1>1, <2>1
<1>3. CASE net' = [net EXCEPT ![p] = Refusal]
  BY <1>1, <1>3 DEF Refusal, Plain
<1>4. ASSUME net[p].type = "AP_REQ",
             net' = [net EXCEPT ![p] = [type |-> "AP_REP", under |-> net[p].auth.subkey]]
      PROVE  IInv'
  <2> DEFINE m == [type |-> "AP_REP", under |-> net[p].auth.subkey]
  <2>1. net[p].auth.subkey \in Key
    BY <1>4, KnowsMessage DEF IInv, ApReq
  <2>2. m \in Plain /\ m.type = "AP_REP" /\ net' = [net EXCEPT ![p] = m]
    BY <1>4, <2>1 DEF Plain
  <2> HIDE DEF m
  <2>3. QED
    BY <1>1, <2>2
<1>5. QED
  BY <1>2, <1>3, <1>4 DEF ApServer

-----------------------------------------------------------------------------
(* Specification *)

LEMMA Initially == Init => IInv
<1> SUFFICES ASSUME Init PROVE IInv
  OBVIOUS
<1>1. \A p \in Process : proc[p] = Idle /\ net[p] = Nothing
  BY DEF Init
<1>2. GoodCache({}, {})
  BY DEF GoodCache, OnePerServer
<1>3. proc = [p \in Process |-> proc[p]] /\ net = [p \in Process |-> net[p]]
  BY DEF Init
<1>4. 0 \in 0..MaxKeys
  BY BoundAssumption
<1>5. QED
  BY <1>1, <1>2, <1>3, <1>4, PlainIsGood DEF Init, IInv

LEMMA Stuttering == IInv /\ UNCHANGED vars => IInv'
BY DEF IInv, vars

LEMMA NextKeeps == IInv /\ Next => IInv'
<1> SUFFICES ASSUME IInv, NEW p \in Process,
        \/ \E user \in UserName \cap Registered :
               Begin(p, "login", user, [local |-> Login, realm |-> Unnamed])
        \/ \E command \in {"kvno", "kaccess"}, arg \in Argument :
               Begin(p, command, Nobody, arg)
        \/ Begin(p, "krenew", Nobody, [local |-> Login, realm |-> Unnamed])
        \/ SendAsReq(p) \/ ReceiveAsRep(p) \/ Reuse(p)
        \/ SendTgsReq(p) \/ ReceiveCrossTgt(p) \/ ReceiveTgsRep(p)
        \/ SendRenewal(p) \/ ReceiveRenewal(p)
        \/ Present(p) \/ SendApReq(p) \/ ReceiveApRep(p) \/ End(p)
        \/ Kdc(p) \/ ApServer(p)
      PROVE IInv'
  BY DEF Next
<1>1. [local |-> Login, realm |-> Unnamed] \in Argument
  BY NameAssumption DEF Argument
<1>2. ASSUME NEW user \in UserName \cap Registered,
             Begin(p, "login", user, [local |-> Login, realm |-> Unnamed])
      PROVE  IInv'
  BY <1>1, <1>2, BeginKeeps DEF Command
<1>3. ASSUME NEW command \in {"kvno", "kaccess"}, NEW arg \in Argument,
             Begin(p, command, Nobody, arg)
      PROVE  IInv'
  BY <1>3, BeginKeeps DEF Command
<1>4. CASE Begin(p, "krenew", Nobody, [local |-> Login, realm |-> Unnamed])
  BY <1>1, <1>4, BeginKeeps DEF Command
<1>5. CASE SendAsReq(p) \/ ReceiveAsRep(p) \/ Reuse(p)
  BY <1>5, SendAsReqKeeps, ReceiveAsRepKeeps, ReuseKeeps
<1>6. CASE SendTgsReq(p) \/ ReceiveCrossTgt(p) \/ ReceiveTgsRep(p)
  BY <1>6, SendTgsReqKeeps, ReceiveCrossTgtKeeps, ReceiveTgsRepKeeps
<1>7. CASE SendRenewal(p) \/ ReceiveRenewal(p)
  BY <1>7, SendRenewalKeeps, ReceiveRenewalKeeps
<1>8. CASE Present(p) \/ SendApReq(p) \/ ReceiveApRep(p) \/ End(p)
  BY <1>8, PresentKeeps, SendApReqKeeps, ReceiveApRepKeeps, EndKeeps
<1>9. CASE Kdc(p) \/ ApServer(p)
  BY <1>9, KdcKeeps, ApServerKeeps
<1>10. QED
  BY <1>2, <1>3, <1>4, <1>5, <1>6, <1>7, <1>8, <1>9

LEMMA Always == Spec => []IInv
BY Initially, NextKeeps, Stuttering, PTL DEF Spec

LEMMA GoodTypes == IInv => TypeOK
BY DEF IInv, TypeOK, GoodProcess, GoodCache

\* Every variable keeps its type, and no cache has two tickets of one server,
\* whatever file two processes left to a third.
THEOREM TypeCorrect == Spec => []TypeOK
BY Always, GoodTypes, PTL

LEMMA GoodNames == IInv => TicketsNameTheirClient
<1> SUFFICES ASSUME IInv, NEW t \in Tickets
             PROVE  GoodTicket(t, proved)
  BY DEF TicketsNameTheirClient, GoodTicket
<1>1. CASE t \in {c.ticket : c \in UNION Caches}
  <2>1. \A cache \in Caches : GoodCache(cache, proved)
    BY DEF Caches, IInv, GoodProcess
  <2>2. QED
    BY <1>1, <2>1, KnowsCred
<1>2. ASSUME NEW p \in Process, net[p].type \in {"AS_REP", "TGS_REP", "AP_REQ"}
      PROVE  GoodTicket(net[p].ticket, proved)
  BY <1>2, KnowsMessage DEF IInv
<1>3. ASSUME NEW p \in Process, net[p].type = "TGS_REQ"
      PROVE  GoodTicket(net[p].tgt, proved)
  BY <1>3, KnowsMessage DEF IInv
<1>4. QED
  BY <1>1, <1>2, <1>3 DEF Tickets

\* However a ticket came about, it names the user whose password it goes back to
\* and carries that user's groups (handle_as_request, handle_tgs_request).
THEOREM NamesKept == Spec => []TicketsNameTheirClient
BY Always, GoodNames, PTL

-----------------------------------------------------------------------------
(* What the application server grants *)

\* served without the subkeys.
Granted(s) == [client |-> s.client, service |-> s.service, groups |-> s.groups]

LEMMA ServeStep ==
    ASSUME IInv, NEW p \in Process, ApServer(p)
    PROVE  \/ served' = served
           \/ \E user \in UserName \cap Registered, service \in Exported :
                  /\ user \in proved /\ Leads(user, service)
                  /\ \E s : /\ served' = served \cup {s}
                            /\ Granted(s) = [client |-> user, service |-> service,
                                             groups |-> groupsOf[user]]
<1> DEFINE s == [client |-> net[p].ticket.client, service |-> net[p].service,
                 groups |-> net[p].ticket.groups, subkey |-> net[p].auth.subkey]
<1> SUFFICES ASSUME net[p].type = "AP_REQ", AuthenticAp(net[p]),
                    served' = served \cup {s}
             PROVE  \E user \in UserName \cap Registered, service \in Exported :
                        /\ user \in proved /\ Leads(user, service)
                        /\ \E t : /\ served' = served \cup {t}
                                  /\ Granted(t) = [client |-> user, service |-> service,
                                                   groups |-> groupsOf[user]]
  BY DEF ApServer
<1>1. GoodTicket(net[p].ticket, proved)
  BY KnowsMessage DEF IInv
<1>2. net[p].service \in Exported /\ net[p].ticket.under = net[p].service
  BY DEF AuthenticAp
<1>3. net[p].service.local \in Service
  BY <1>2, NameAssumption DEF ServiceName
<1>4. /\ net[p].ticket.client \in proved /\ Leads(net[p].ticket.client, net[p].service)
      /\ net[p].ticket.groups = groupsOf[net[p].ticket.client]
  BY <1>1, <1>2, <1>3 DEF GoodTicket
<1>5. Granted(s) = [client |-> net[p].ticket.client, service |-> net[p].service,
                    groups |-> groupsOf[net[p].ticket.client]]
  BY <1>4 DEF Granted
<1> HIDE DEF s
<1>6. net[p].ticket.client \in UserName \cap Registered
  BY <1>4 DEF IInv
<1>7. QED
  BY <1>2, <1>4, <1>5, <1>6

LEMMA ProveStep ==
    ASSUME IInv, NEW p \in Process, Kdc(p)
    PROVE  \/ proved' = proved
           \/ \E user \in UserName \cap Registered : proved' = proved \cup {user}
<1>1. CASE net[p].type = "AS_REQ"
  <2>1. net[p] \in AsReq /\ net[p].client \in UserName
    BY <1>1, KnowsMessage DEF IInv, AsReq
  <2>2. AsReply(net[p]) = Refusal \/ net[p].client \in Registered
    BY DEF AsReply
  <2>3. QED
    BY <1>1, <2>1, <2>2 DEF Kdc, Refusal
<1>2. CASE net[p].type = "TGS_REQ"
  BY <1>2 DEF Kdc, TgsReply, Refusal
<1>3. QED
  BY <1>1, <1>2 DEF Kdc

\* The abstract steps.
Mapped == {Granted(s) : s \in served}

LEMMA PromiseServe ==
    ASSUME NEW user \in UserName \cap Registered, NEW service \in Exported,
           user \in proved, Leads(user, service), UNCHANGED proved,
           Mapped' = Mapped \cup {[client |-> user, service |-> service,
                                   groups |-> groupsOf[user]]}
    PROVE  Promise!Next
<1>1. Promise!Serve(user, service)
  BY DEF Promise!Serve, Mapped, Granted
<1>2. QED
  BY <1>1 DEF Promise!Next

LEMMA PromiseProve ==
    ASSUME NEW user \in UserName \cap Registered, proved' = proved \cup {user},
           UNCHANGED served
    PROVE  Promise!Next
<1>1. Promise!Prove(user)
  BY DEF Promise!Prove
<1>2. QED
  BY <1>1 DEF Promise!Next

LEMMA ClientStep ==
    ASSUME NEW p,
           \/ \E c, user, arg : Begin(p, c, user, arg)
           \/ SendAsReq(p) \/ ReceiveAsRep(p) \/ Reuse(p)
           \/ SendTgsReq(p) \/ ReceiveCrossTgt(p) \/ ReceiveTgsRep(p)
           \/ SendRenewal(p) \/ ReceiveRenewal(p)
           \/ Present(p) \/ SendApReq(p) \/ ReceiveApRep(p) \/ End(p)
    PROVE  UNCHANGED <<proved, served>>
<1>1. \A u, m : Send(p, u, m) => UNCHANGED <<proved, served>>
  BY DEF Send
<1>2. \A u : Save(p, u) => UNCHANGED <<proved, served>>
  BY DEF Save
<1>3. \A pc : Goto(p, pc) => UNCHANGED <<proved, served>>
  BY DEF Goto
<1>4. CASE \E c, user, arg : Begin(p, c, user, arg)
  BY <1>4 DEF Begin
<1>5. CASE SendAsReq(p) \/ SendRenewal(p) \/ ReceiveCrossTgt(p)
  BY <1>1, <1>5 DEF SendAsReq, SendRenewal, ReceiveCrossTgt
<1>6. CASE SendTgsReq(p) \/ Present(p)
  BY <1>1, <1>3, <1>6 DEF SendTgsReq, Present
<1>7. CASE ReceiveAsRep(p) \/ ReceiveTgsRep(p) \/ ReceiveRenewal(p)
  BY <1>2, <1>7 DEF ReceiveAsRep, ReceiveTgsRep, ReceiveRenewal
<1>8. CASE Reuse(p) \/ ReceiveApRep(p)
  BY <1>3, <1>8 DEF Reuse, ReceiveApRep
<1>9. CASE SendApReq(p) \/ End(p)
  BY <1>9 DEF SendApReq, End
<1>10. QED
  BY <1>4, <1>5, <1>6, <1>7, <1>8, <1>9

LEMMA PromiseStep ==
    IInv /\ [Next]_vars =>
        \/ Promise!Next
        \/ UNCHANGED <<proved, {[client |-> s.client, service |-> s.service,
                                 groups |-> s.groups] : s \in served}>>
<1> SUFFICES ASSUME IInv, [Next]_vars
             PROVE  Promise!Next \/ UNCHANGED <<proved, served>>
  OBVIOUS
<1>1. ASSUME NEW p \in Process, Kdc(p)
      PROVE  Promise!Next \/ UNCHANGED <<proved, served>>
  <2>1. UNCHANGED served
    BY <1>1 DEF Kdc
  <2>2. QED
    BY <1>1, <2>1, ProveStep, PromiseProve
<1>2. ASSUME NEW p \in Process, ApServer(p)
      PROVE  Promise!Next \/ UNCHANGED <<proved, served>>
  <2>1. UNCHANGED proved
    BY <1>2 DEF ApServer
  <2>2. ASSUME NEW s, NEW g, served' = served \cup {s}, Granted(s) = g
        PROVE  Mapped' = Mapped \cup {g}
    BY <2>2 DEF Mapped
  <2>3. QED
    BY <1>2, <2>1, <2>2, ServeStep, PromiseServe
<1>3. CASE UNCHANGED vars
  BY <1>3 DEF vars
<1>4. CASE Next
  BY <1>1, <1>2, <1>4, ClientStep DEF Next
<1>5. QED
  BY <1>3, <1>4

\* What the application server grants is what RealmAccess promises: to users
\* whose password was proved, in their own name and groups, where their realm
\* leads (handle_as_request, handle_tgs_request and do_GET together).
THEOREM AccessPromised == Spec => RefinesPromise
<1>1. Init => Promise!Init
  BY DEF Init, Promise!Init
<1>2. QED
  BY <1>1, Always, PromiseStep, PTL DEF RefinesPromise, Spec, Promise!Spec

-----------------------------------------------------------------------------
(* The dialogue with the application server *)

\* The service a process is after, and a grant of its request.
Want(u) == Canonical(u.arg, u.client.realm)
Grants(s, u) ==
    /\ s.subkey = u.subkey /\ s.client = u.client /\ s.service = u.want
    /\ s.groups = groupsOf[s.client]

\* A process gets the ticket it asked for, and then an answer to what it sent.
Dialogue(u, m, granted) ==
    /\ u.pc \in {"hop", "tgs"} => u.want = Want(u)
    /\ (u.pc = "tgs" /\ u.want.realm = u.client.realm) =>
           /\ m.type = "TGS_REQ" => ~m.renew /\ m.service = u.want
           /\ m.type = "TGS_REP" => m.service = u.want
    /\ u.pc = "ap" => For(u.cache, Want(u)) # {}
    /\ u.pc = "missing" => u.arg.realm = Unnamed /\ u.client.realm # Home
    /\ u.pc = "present" =>
           /\ m.type = "AP_REQ" => /\ m.service = u.want /\ m.auth.subkey = u.subkey
                                   /\ m.auth.client = u.client
           /\ m.type = "AP_REP" => \E s \in granted : Grants(s, u)
    /\ u.pc = "done" => \E s \in granted : Grants(s, u)

Dialogues == \A p \in Process : Dialogue(proc[p], net[p], served)

\* Elsewhere there is nothing to say, nor does another grant change anything.
Calm == {"idle", "start", "as", "service", "renewing", "get"}

LEMMA CalmIs == \A u, m, granted : u.pc \in Calm => Dialogue(u, m, granted)
BY DEF Calm, Dialogue

LEMMA DialogueStays ==
    ASSUME NEW u, NEW m, NEW granted, NEW more, granted \subseteq more,
           Dialogue(u, m, granted)
    PROVE  Dialogue(u, m, more)
BY DEF Dialogue

LEMMA DialogueStep ==
    ASSUME IInv, Dialogues, NEW p \in Process, NEW u, NEW m,
           proc' = [proc EXCEPT ![p] = u], net' = [net EXCEPT ![p] = m],
           served \subseteq served', Dialogue(u, m, served')
    PROVE  Dialogues'
<1>1. /\ proc' = [q \in Process |-> IF q = p THEN u ELSE proc[q]]
      /\ net' = [q \in Process |-> IF q = p THEN m ELSE net[q]]
  BY DEF IInv
<1>2. \A q \in Process : /\ proc'[q] = IF q = p THEN u ELSE proc[q]
                         /\ net'[q] = IF q = p THEN m ELSE net[q]
  BY <1>1
<1>3. \A q \in Process : Dialogue(proc[q], net[q], served')
  BY DialogueStays DEF Dialogues
<1>4. QED
  BY <1>2, <1>3 DEF Dialogues

\* A process comes to a stage where there is nothing to say.
LEMMA CalmStep ==
    ASSUME IInv, Dialogues, NEW p \in Process, NEW u, NEW m, u.pc \in Calm,
           proc' = [proc EXCEPT ![p] = u], net' = [net EXCEPT ![p] = m],
           UNCHANGED served
    PROVE  Dialogues'
BY CalmIs, DialogueStep

\* The unchanged part of a step.
LEMMA NetStays == IInv => net = [p \in Process |-> net[p]]
BY DEF IInv

LEMMA SameMessage ==
    ASSUME IInv, NEW p \in Process, UNCHANGED net
    PROVE  net' = [net EXCEPT ![p] = net[p]]
BY NetStays

LEMMA CalmMove ==
    ASSUME IInv, Dialogues, NEW p \in Process, NEW u, u.pc \in Calm,
           proc' = [proc EXCEPT ![p] = u], UNCHANGED <<net, served>>
    PROVE  Dialogues'
<1> DEFINE m == net[p]
<1>1. net' = [net EXCEPT ![p] = m]
  BY SameMessage
<1> HIDE DEF m
<1>2. QED
  BY <1>1, CalmStep

LEMMA SameProcess ==
    ASSUME IInv, NEW p \in Process, UNCHANGED proc
    PROVE  proc' = [proc EXCEPT ![p] = proc[p]]
BY DEF IInv

\* The request goes out with the right name.
LEMMA BeginTalks ==
    ASSUME IInv, Dialogues, NEW p \in Process, NEW command, NEW user, NEW arg,
           Begin(p, command, user, arg)
    PROVE  Dialogues'
<1> DEFINE u == [pc |-> "start", command |-> command, client |-> user, arg |-> arg,
                 want |-> HomeTgs, cache |-> file, subkey |-> 0]
<1>1. /\ u.pc = "start"
      /\ \A n : [u EXCEPT !.client = n, !.pc = "service"].pc = "service"
  OBVIOUS
<1>2. \/ proc' = [proc EXCEPT ![p] = u]
      \/ \E n : proc' = [proc EXCEPT ![p] = [u EXCEPT !.client = n, !.pc = "service"]]
  BY DEF Begin
<1>3. UNCHANGED <<net, served>>
  BY DEF Begin
<1> HIDE DEF u
<1>4. "start" \in Calm /\ "service" \in Calm
  BY DEF Calm
<1>5. CASE proc' = [proc EXCEPT ![p] = u]
  BY <1>1, <1>3, <1>4, <1>5, CalmMove
<1>6. ASSUME NEW n,
             proc' = [proc EXCEPT ![p] = [u EXCEPT !.client = n, !.pc = "service"]]
      PROVE  Dialogues'
  <2> DEFINE w == [u EXCEPT !.client = n, !.pc = "service"]
  <2>1. w.pc = "service" /\ proc' = [proc EXCEPT ![p] = w]
    BY <1>1, <1>6
  <2> HIDE DEF w
  <2>2. QED
    BY <1>3, <1>4, <2>1, CalmMove
<1>7. QED
  BY <1>2, <1>5, <1>6

\* Sending and saving on the way to a stage where there is nothing to say.
LEMMA SendTalks ==
    ASSUME IInv, Dialogues, NEW p \in Process, NEW u, NEW m, Send(p, u, m),
           u.pc \in Calm
    PROVE  Dialogues'
BY CalmStep DEF Send

LEMMA SaveTalks ==
    ASSUME IInv, Dialogues, NEW p \in Process, NEW u, Save(p, u), u.pc \in Calm
    PROVE  Dialogues'
<1> DEFINE v == IF u.pc = "idle" THEN Idle ELSE u
<1>1. v.pc \in Calm
  BY DEF Idle, Calm
<1>2. proc' = [proc EXCEPT ![p] = v] /\ net' = [net EXCEPT ![p] = Nothing]
      /\ UNCHANGED served
  BY DEF Save
<1> HIDE DEF v
<1>3. QED
  BY <1>1, <1>2, CalmStep

LEMMA CalmTalks ==
    ASSUME IInv, Dialogues, NEW p \in Process,
           \/ SendAsReq(p) \/ ReceiveAsRep(p) \/ Reuse(p)
           \/ SendRenewal(p) \/ ReceiveRenewal(p) \/ End(p)
    PROVE  Dialogues'
<1> DEFINE to(pc) == [proc[p] EXCEPT !.pc = pc]
           saved(cache, pc) == [proc[p] EXCEPT !.cache = cache, !.pc = pc]
<1>1. ASSUME proc[p] # Idle
      PROVE  /\ \A pc : to(pc).pc = pc
             /\ \A cache, pc : saved(cache, pc).pc = pc
  BY <1>1, Knows DEF Running
<1>2. CASE SendAsReq(p)
  <2>1. proc[p] # Idle /\ \E m : Send(p, to("as"), m)
    BY <1>2, NotIdle DEF SendAsReq, At
  <2>2. to("as").pc \in Calm
    BY <1>1, <2>1 DEF Calm
  <2> HIDE DEF to
  <2>3. QED
    BY <2>1, <2>2, SendTalks
<1>3. CASE SendRenewal(p)
  <2>1. proc[p] # Idle /\ \E m : Send(p, to("renewing"), m)
    BY <1>3, NotIdle DEF SendRenewal, At
  <2>2. to("renewing").pc \in Calm
    BY <1>1, <2>1 DEF Calm
  <2> HIDE DEF to
  <2>3. QED
    BY <2>1, <2>2, SendTalks
<1>4. CASE ReceiveAsRep(p)
  <2>1. proc[p] # Idle /\ \E cache : Save(p, saved(cache, "service"))
    BY <1>4, NotIdle DEF ReceiveAsRep, At
  <2>2. \A cache : saved(cache, "service").pc \in Calm
    BY <1>1, <2>1 DEF Calm
  <2> HIDE DEF saved
  <2>3. QED
    BY <2>1, <2>2, SaveTalks
<1>5. CASE ReceiveRenewal(p)
  <2>1. proc[p] # Idle /\ \E cache : Save(p, saved(cache, "idle"))
    BY <1>5, NotIdle DEF ReceiveRenewal, At
  <2>2. \A cache : saved(cache, "idle").pc \in Calm
    BY <1>1, <2>1 DEF Calm
  <2> HIDE DEF saved
  <2>3. QED
    BY <2>1, <2>2, SaveTalks
<1>6. CASE Reuse(p)
  <2>1. proc[p] # Idle /\ proc' = [proc EXCEPT ![p] = to("service")]
        /\ UNCHANGED <<net, served>>
    BY <1>6, NotIdle DEF Reuse, At, Goto
  <2>2. to("service").pc \in Calm
    BY <1>1, <2>1 DEF Calm
  <2> HIDE DEF to
  <2>3. QED
    BY <2>1, <2>2, CalmMove
<1>7. CASE End(p)
  <2>1. Idle.pc \in Calm
    BY DEF Idle, Calm
  <2>2. QED
    BY <1>7, <2>1, CalmStep DEF End
<1>8. QED
  BY <1>2, <1>3, <1>4, <1>5, <1>6, <1>7

LEMMA SendTgsReqTalks ==
    ASSUME IInv, Dialogues, NEW p \in Process, SendTgsReq(p)
    PROVE  Dialogues'
<1> DEFINE home == proc[p].client.realm
           want == Canonical(proc[p].arg, home)
           pc == IF want.realm = home THEN "tgs" ELSE "hop"
           service == IF want.realm = home THEN want ELSE Tgs(home, want.realm)
           u == [proc[p] EXCEPT !.want = want, !.pc = pc]
<1>1. proc[p] # Idle
  BY NotIdle DEF SendTgsReq, At
<1>2. PICK tgt \in TgtOf(proc[p]) :
          Send(p, u, TgsReq(proc[p], home, service, tgt.ticket, Tgs(home, home)))
  BY DEF SendTgsReq
<1> DEFINE m == TgsReq(proc[p], home, service, tgt.ticket, Tgs(home, home))
<1>3. home \in Realm /\ want \in Name
  BY <1>1, Knows, CanonicalIs DEF Running
<1>4. m.type = "TGS_REQ" /\ m.renew = FALSE /\ m.service = AtRealm(service, home)
  BY DEF TgsReq
<1>5. Send(p, u, m)
  BY <1>2
<1> HIDE DEF m
<1>6. want.realm = home => m.service = want
  BY <1>3, <1>4, AtRealmIs
<1>7. /\ u.pc \in {"tgs", "hop"} /\ u.client = proc[p].client /\ u.want = want
      /\ u.arg = proc[p].arg
  BY <1>1, Knows DEF Running
<1> HIDE DEF u
<1>8. Want(u) = want
  BY <1>7 DEF Want
<1> HIDE DEF want
<1>9. Dialogue(u, m, served)
  BY <1>4, <1>6, <1>7, <1>8 DEF Dialogue
<1>10. QED
  BY <1>5, <1>9, DialogueStep DEF Send

LEMMA ReceiveCrossTgtTalks ==
    ASSUME IInv, Dialogues, NEW p \in Process, ReceiveCrossTgt(p)
    PROVE  Dialogues'
<1> DEFINE between == Tgs(proc[p].client.realm, proc[p].want.realm)
           u == [proc[p] EXCEPT !.pc = "tgs"]
           m == TgsReq(proc[p], proc[p].want.realm, proc[p].want, net[p].ticket, between)
<1>1. proc[p] # Idle /\ proc[p].pc = "hop" /\ Send(p, u, m)
  BY NotIdle DEF ReceiveCrossTgt, At
<1>2. proc[p].want = Want(proc[p]) /\ proc[p].want \in Name /\ proc[p].want.realm \in Realm
  BY <1>1, Knows DEF Dialogues, Dialogue, Name
<1>3. m.type = "TGS_REQ" /\ m.renew = FALSE
      /\ m.service = AtRealm(proc[p].want, proc[p].want.realm)
  BY DEF TgsReq
<1> HIDE DEF m
<1>4. m.service = proc[p].want
  BY <1>2, <1>3, AtRealmIs
<1>5. /\ u.pc = "tgs" /\ u.client = proc[p].client /\ u.want = proc[p].want
      /\ u.arg = proc[p].arg
  BY <1>1, Knows DEF Running
<1> HIDE DEF u
<1>6. Dialogue(u, m, served)
  BY <1>2, <1>3, <1>4, <1>5 DEF Dialogue, Want
<1>7. QED
  BY <1>1, <1>6, DialogueStep DEF Send

\* What is put into a cache is found there.
LEMMA PutIsFound ==
    ASSUME NEW cache, NEW cred
    PROVE  For(Put(cache, cred), cred.server) # {}
BY DEF For, Put

LEMMA ReceiveTgsRepTalks ==
    ASSUME IInv, Dialogues, NEW p \in Process, ReceiveTgsRep(p)
    PROVE  Dialogues'
<1> DEFINE service == IF proc[p].want.realm = proc[p].client.realm
                      THEN net[p].service ELSE proc[p].want
           cred == [server |-> service, client |-> net[p].client,
                    ticket |-> net[p].ticket]
           pc == IF proc[p].command = "kvno" THEN "idle" ELSE "ap"
           cache == Put(proc[p].cache, cred)
           u == [proc[p] EXCEPT !.cache = cache, !.pc = pc]
<1>1. proc[p] # Idle /\ net[p].type = "TGS_REP" /\ proc[p].pc = "tgs"
  BY NotIdle DEF ReceiveTgsRep, At
<1>2. Save(p, u)
  BY DEF ReceiveTgsRep
<1>3. service = Want(proc[p])
  BY <1>1 DEF Dialogues, Dialogue
<1>4. cred.server = service
  OBVIOUS
<1> HIDE DEF service, cred
<1>5. For(cache, Want(proc[p])) # {}
  BY <1>3, <1>4, PutIsFound
<1> HIDE DEF cache
<1>6. /\ u.pc = pc /\ u.cache = cache /\ u.client = proc[p].client /\ u.arg = proc[p].arg
  BY <1>1, Knows DEF Running
<1> HIDE DEF u
<1>7. CASE pc = "idle"
  BY <1>2, <1>6, <1>7, SaveTalks DEF Calm
<1>8. CASE pc = "ap"
  <2>1. proc' = [proc EXCEPT ![p] = u] /\ net' = [net EXCEPT ![p] = Nothing]
        /\ UNCHANGED served
    BY <1>2, <1>6, <1>8 DEF Save
  <2>2. Dialogue(u, Nothing, served)
    BY <1>5, <1>6, <1>8 DEF Dialogue, Want
  <2>3. QED
    BY <2>1, <2>2, DialogueStep
<1>9. QED
  BY <1>7, <1>8

\* The lookups under the client's realm and under REALM differ only for a service
\* named in short by a client of another realm.
LEMMA LookedUp ==
    ASSUME NEW u \in Running, ~(u.arg.realm = Unnamed /\ u.client.realm # Home)
    PROVE  Canonical(u.arg, Home) = Canonical(u.arg, u.client.realm)
BY DEF Canonical

LEMMA PresentTalks ==
    ASSUME IInv, Dialogues, NEW p \in Process, Present(p)
    PROVE  Dialogues'
<1> DEFINE service == Canonical(proc[p].arg, Home)
           u == [proc[p] EXCEPT !.pc = "get", !.want = service]
           v == [proc[p] EXCEPT !.pc = "missing"]
<1>1. proc[p] # Idle /\ proc[p] \in Running
  BY NotIdle, Knows DEF Present, At
<1>2. CASE For(proc[p].cache, service) # {}
  <2>1. Send(p, u, [type |-> "GET"]) /\ u.pc \in Calm
    BY <1>1, <1>2 DEF Present, Running, Calm
  <2> HIDE DEF u
  <2>2. QED
    BY <2>1, SendTalks
<1>3. CASE For(proc[p].cache, service) = {}
  <2>1. proc' = [proc EXCEPT ![p] = v] /\ UNCHANGED <<net, served>>
    BY <1>3 DEF Present, Goto
  <2>2. proc[p].arg.realm = Unnamed /\ proc[p].client.realm # Home
    <3>1. CASE proc[p].pc = "ap"
      BY <1>1, <1>3, <3>1, LookedUp DEF Dialogues, Dialogue, Want
    <3>2. CASE HasTicket(proc[p])
      BY <1>1, <1>3, <3>2, LookedUp DEF HasTicket
    <3>3. QED
      BY <3>1, <3>2 DEF Present, At
  <2>3. v.pc = "missing" /\ v.arg = proc[p].arg /\ v.client = proc[p].client
    BY <1>1 DEF Running
  <2> DEFINE m == net[p]
  <2>4. net' = [net EXCEPT ![p] = m]
    BY <2>1, SameMessage
  <2> HIDE DEF v, m
  <2>5. Dialogue(v, m, served)
    BY <2>2, <2>3 DEF Dialogue
  <2>6. QED
    BY <2>1, <2>4, <2>5, DialogueStep
<1>4. QED
  BY <1>2, <1>3

LEMMA SendApReqTalks ==
    ASSUME IInv, Dialogues, NEW p \in Process, SendApReq(p)
    PROVE  Dialogues'
<1> DEFINE u == [proc[p] EXCEPT !.pc = "present", !.subkey = Fresh]
<1>1. proc[p] # Idle
  BY NotIdle DEF SendApReq, At
<1>2. PICK c \in For(proc[p].cache, proc[p].want) :
        /\ proc' = [proc EXCEPT ![p] = u]
        /\ net' = [net EXCEPT ![p] =
               [type |-> "AP_REQ", service |-> proc[p].want, ticket |-> c.ticket,
                auth |-> [under |-> c.ticket.session, client |-> proc[p].client,
                          subkey |-> Fresh]]]
  BY DEF SendApReq
<1> DEFINE m == [type |-> "AP_REQ", service |-> proc[p].want, ticket |-> c.ticket,
                 auth |-> [under |-> c.ticket.session, client |-> proc[p].client,
                           subkey |-> Fresh]]
<1>3. /\ u.pc = "present" /\ u.client = proc[p].client /\ u.want = proc[p].want
      /\ u.subkey = Fresh
  BY <1>1, Knows DEF Running
<1>4. /\ m.type = "AP_REQ" /\ m.service = proc[p].want
      /\ m.auth.subkey = Fresh /\ m.auth.client = proc[p].client
  OBVIOUS
<1>5. net' = [net EXCEPT ![p] = m] /\ UNCHANGED served
  BY <1>2 DEF SendApReq
<1> HIDE DEF m, u
<1>6. Dialogue(u, m, served)
  BY <1>3, <1>4 DEF Dialogue
<1>7. QED
  BY <1>2, <1>5, <1>6, DialogueStep

LEMMA ReceiveApRepTalks ==
    ASSUME IInv, Dialogues, NEW p \in Process, ReceiveApRep(p)
    PROVE  Dialogues'
<1> DEFINE u == [proc[p] EXCEPT !.pc = "done"]
           m == net[p]
<1>1. proc[p] # Idle /\ proc[p].pc = "present" /\ net[p].type = "AP_REP"
      /\ proc' = [proc EXCEPT ![p] = u] /\ UNCHANGED <<net, served>>
  BY NotIdle DEF ReceiveApRep, At, Goto, Verified
<1>2. \E s \in served : Grants(s, proc[p])
  BY <1>1 DEF Dialogues, Dialogue
<1>3. /\ u.pc = "done" /\ u.client = proc[p].client /\ u.want = proc[p].want
      /\ u.subkey = proc[p].subkey
  BY <1>1, Knows DEF Running
<1>4. net' = [net EXCEPT ![p] = m]
  BY <1>1, SameMessage
<1> HIDE DEF u, m
<1>5. Dialogue(u, m, served)
  BY <1>2, <1>3 DEF Dialogue, Grants
<1>6. QED
  BY <1>1, <1>4, <1>5, DialogueStep

\* The reply is for the service that was asked for.
LEMMA TgsReplyNames ==
    ASSUME IInv, NEW m, GoodMessage(m, proved), m.type = "TGS_REQ", ~m.renew,
           TgsReply(m).type = "TGS_REP"
    PROVE  TgsReply(m).service = m.service
<1>1. m.realm \in Realm /\ m.service \in Name /\ m.service.realm = m.realm
  BY KnowsMessage DEF TgsReqs, GoodMessage
<1>2. AtRealm(m.service, m.realm) = m.service
  BY <1>1, AtRealmIs
<1>3. QED
  BY <1>2 DEF TgsReply, Refusal

LEMMA KdcTalks ==
    ASSUME IInv, Dialogues, NEW p \in Process, Kdc(p)
    PROVE  Dialogues'
<1> DEFINE req == net[p]
           u == proc[p]
           m == IF req.type = "AS_REQ" THEN AsReply(req) ELSE TgsReply(req)
<1>1. /\ req.type \in {"AS_REQ", "TGS_REQ"}
      /\ net' = [net EXCEPT ![p] = m]
      /\ UNCHANGED <<proc, served>>
  BY DEF Kdc
<1>2. proc' = [proc EXCEPT ![p] = u]
  BY <1>1, SameProcess
<1>3. GoodMessage(req, proved) /\ Dialogue(u, req, served)
  BY DEF IInv, Dialogues
<1>4. CASE req.type = "AS_REQ"
  <2>1. m.type \in {"AS_REP", "KRB_ERROR"}
    BY <1>4 DEF AsReply, Refusal
  <2> HIDE DEF m, u, req
  <2>2. Dialogue(u, m, served)
    BY <1>3, <2>1 DEF Dialogue
  <2>3. QED
    BY <1>1, <1>2, <2>2, DialogueStep
<1>5. CASE req.type = "TGS_REQ"
  <2>1. m.type \in {"TGS_REP", "KRB_ERROR"}
    BY <1>5 DEF TgsReply, Refusal
  <2>2. m.type = "TGS_REP" /\ ~req.renew => m.service = req.service
    BY <1>3, <1>5, TgsReplyNames
  <2> HIDE DEF m, u, req
  <2>3. Dialogue(u, m, served)
    BY <1>3, <1>5, <2>1, <2>2 DEF Dialogue
  <2>4. QED
    BY <1>1, <1>2, <2>3, DialogueStep
<1>6. QED
  BY <1>1, <1>4, <1>5

LEMMA ApServerTalks ==
    ASSUME IInv, Dialogues, NEW p \in Process, ApServer(p)
    PROVE  Dialogues'
<1> DEFINE req == net[p]
           u == proc[p]
           s == [client |-> req.ticket.client, service |-> req.service,
                 groups |-> req.ticket.groups, subkey |-> req.auth.subkey]
           rep == [type |-> "AP_REP", under |-> req.auth.subkey]
<1>1. GoodMessage(req, proved) /\ Dialogue(u, req, served)
  BY DEF IInv, Dialogues
<1>2. proc' = [proc EXCEPT ![p] = u]
  BY SameProcess DEF ApServer
<1>3. ASSUME NEW m \in Plain, m.type \in {"401", "KRB_ERROR"},
             net' = [net EXCEPT ![p] = m], UNCHANGED served,
             req.type \in {"GET", "AP_REQ"}
      PROVE  Dialogues'
  <2> HIDE DEF u, req
  <2>1. Dialogue(u, m, served)
    BY <1>1, <1>3 DEF Dialogue
  <2>2. QED
    BY <1>2, <1>3, <2>1, DialogueStep
<1>4. ASSUME req.type = "AP_REQ", AuthenticAp(req),
             net' = [net EXCEPT ![p] = rep], served' = served \cup {s}
      PROVE  Dialogues'
  <2>1. rep.type = "AP_REP"
    OBVIOUS
  <2>2. req.auth.client = req.ticket.client /\ GoodTicket(req.ticket, proved)
    BY <1>1, <1>4, KnowsMessage DEF AuthenticAp
  <2>3. /\ s.client = req.auth.client /\ s.service = req.service
        /\ s.subkey = req.auth.subkey /\ s.groups = groupsOf[s.client]
    BY <2>2 DEF GoodTicket
  <2> HIDE DEF s, rep, u, req
  <2>4. u.pc = "present" => Grants(s, u)
    BY <1>1, <1>4, <2>3 DEF Dialogue, Grants
  <2>5. Dialogue(u, rep, served')
    BY <1>1, <1>4, <2>1, <2>4 DEF Dialogue
  <2>6. QED
    BY <1>2, <1>4, <2>5, DialogueStep
<1>5. ASSUME req.type = "GET", net' = [net EXCEPT ![p] = [type |-> "401"]],
             UNCHANGED served
      PROVE  Dialogues'
  <2> DEFINE m == [type |-> "401"]
  <2>1. m \in Plain /\ m.type = "401" /\ net' = [net EXCEPT ![p] = m]
    BY <1>5 DEF Plain
  <2> HIDE DEF m
  <2>2. QED
    BY <1>3, <1>5, <2>1
<1>6. ASSUME req.type = "AP_REQ", net' = [net EXCEPT ![p] = Refusal], UNCHANGED served
      PROVE  Dialogues'
  <2>1. Refusal \in Plain /\ Refusal.type = "KRB_ERROR"
    BY DEF Refusal, Plain
  <2>2. QED
    BY <1>3, <1>6, <2>1
<1>7. QED
  BY <1>4, <1>5, <1>6 DEF ApServer

LEMMA DialoguesNext == IInv /\ Dialogues /\ [Next]_vars => Dialogues'
<1>1. CASE UNCHANGED vars
  BY <1>1 DEF vars, Dialogues
<1>2. ASSUME IInv, Dialogues, Next
      PROVE  Dialogues'
  <2>1. PICK p \in Process :
            \/ \E c, user, arg : Begin(p, c, user, arg)
            \/ SendAsReq(p) \/ ReceiveAsRep(p) \/ Reuse(p)
            \/ SendTgsReq(p) \/ ReceiveCrossTgt(p) \/ ReceiveTgsRep(p)
            \/ SendRenewal(p) \/ ReceiveRenewal(p)
            \/ Present(p) \/ SendApReq(p) \/ ReceiveApRep(p) \/ End(p)
            \/ Kdc(p) \/ ApServer(p)
    BY <1>2 DEF Next
  <2>2. CASE \E c, user, arg : Begin(p, c, user, arg)
    BY <1>2, <2>2, BeginTalks
  <2>3. CASE \/ SendAsReq(p) \/ ReceiveAsRep(p) \/ Reuse(p)
             \/ SendRenewal(p) \/ ReceiveRenewal(p) \/ End(p)
    BY <1>2, <2>3, CalmTalks
  <2>4. CASE SendTgsReq(p) \/ ReceiveCrossTgt(p) \/ ReceiveTgsRep(p)
    BY <1>2, <2>4, SendTgsReqTalks, ReceiveCrossTgtTalks, ReceiveTgsRepTalks
  <2>5. CASE Present(p) \/ SendApReq(p) \/ ReceiveApRep(p)
    BY <1>2, <2>5, PresentTalks, SendApReqTalks, ReceiveApRepTalks
  <2>6. CASE Kdc(p) \/ ApServer(p)
    BY <1>2, <2>6, KdcTalks, ApServerTalks
  <2>7. QED
    BY <2>1, <2>2, <2>3, <2>4, <2>5, <2>6
<1>3. QED
  BY <1>1, <1>2

LEMMA AlwaysDialogues == Spec => []Dialogues
<1>1. Init => Dialogues
  <2> SUFFICES ASSUME Init, NEW p \in Process PROVE Dialogue(proc[p], net[p], served)
    BY DEF Dialogues
  <2>1. proc[p].pc \in Calm
    BY DEF Init, Idle, Calm
  <2>2. QED
    BY <2>1, CalmIs
<1>2. QED
  BY <1>1, Always, DialoguesNext, PTL DEF Spec

\* The two lookups of a service ticket, under the client's realm and under REALM,
\* part ways for nobody but a client of another realm that named the service in
\* short (phase2_tgs_exchange, phase3_ap_exchange, cmd_access, main).
THEOREM TicketsAreFound == Spec => []TicketFound
<1>1. Dialogues => TicketFound
  BY DEF Dialogues, Dialogue, TicketFound, At
<1>2. QED
  BY <1>1, AlwaysDialogues, PTL

\* However the processes interleave and whatever their caches hold of one another,
\* one whose AP_REP opens with its subkey was granted this very request (do_GET,
\* phase3_ap_exchange).
THEOREM MutualAccess == Spec => []AccessIsMutual
<1>1. Dialogues => AccessIsMutual
  BY DEF Dialogues, Dialogue, Grants, AccessIsMutual, At
<1>2. QED
  BY <1>1, AlwaysDialogues, PTL

-----------------------------------------------------------------------------
(* Refusals *)

\* A cache that is one login's: its tickets are sealed under the servers they are
\* filed under and name one client; a TGT is of its client's own realm.
OneLogin(cache) ==
    \A c \in cache :
        /\ c.ticket.under = c.server
        /\ IsTgt(c) => /\ c.client = c.ticket.client
                       /\ c.server = Tgs(c.client.realm, c.client.realm)
        /\ \A d \in cache : c.ticket.client = d.ticket.client

Explained(u) ==
    \/ u.command = "krenew" /\ u.client.realm # Home
    \/ Tgs(u.client.realm, u.client.realm) \notin Registered
    \/ u.pc = "hop" /\ Tgs(u.client.realm, u.want.realm) \notin Registered
    \/ u.pc = "tgs" /\ u.want \notin Registered
    \/ u.pc = "present" /\ u.want \notin Exported

\* What is on the connection of a process at its stage.
Requesting == {"as", "hop", "tgs", "renewing", "present"}
Speaks(u, m) ==
    /\ u.pc \notin Requesting => m.type \in {"none", "GET", "401", "AP_REP"}
    /\ u.pc = "as" => m.type \in {"AS_REQ", "AS_REP", "KRB_ERROR"}
    /\ u.pc \in {"hop", "tgs", "renewing"} => m.type \in {"TGS_REQ", "TGS_REP", "KRB_ERROR"}
    /\ u.pc = "present" => m.type \in {"AP_REQ", "AP_REP", "KRB_ERROR"}

\* The cache it relies on is its client's.
Relies(u) ==
    u.pc # "idle" =>
        /\ OneLogin(u.cache)
        /\ u.pc \in {"start", "as"} => u.client \in Registered
        /\ u.pc \notin {"start", "as"} => \A c \in u.cache : c.ticket.client = u.client

\* What is said in the three exchanges.
AsTalk(u, m) ==
    u.pc = "as" =>
        /\ m.type = "AS_REQ" => m.client = u.client
        /\ m.type = "AS_REP" =>
               /\ m.client = u.client /\ m.ticket.client = u.client
               /\ m.ticket.under = Tgs(u.client.realm, u.client.realm)
TgsTalk(u, m) ==
    u.pc \in {"hop", "tgs"} =>
        LET goal == IF u.pc = "hop" THEN Tgs(u.client.realm, u.want.realm) ELSE u.want
        IN  /\ m.type = "TGS_REQ" =>
                   /\ ~m.renew /\ m.service = goal
                   /\ m.auth.under = m.tgt.session
                   /\ m.tgt.client = u.client /\ m.auth.client = u.client
                   /\ m.tgtService = Tgs(u.client.realm, m.realm)
                   /\ m.tgt.under = m.tgtService
                   /\ m.realm = u.client.realm \/ m.tgtService \in Registered
            /\ m.type = "TGS_REP" => m.ticket.client = u.client /\ m.ticket.under = goal
RenewTalk(u, m) ==
    u.pc = "renewing" =>
        /\ u.command = "krenew"
        /\ m.type = "TGS_REQ" =>
               /\ m.renew /\ m.realm = Home /\ m.tgtService = HomeTgs
               /\ m.auth.under = m.tgt.session
               /\ m.tgt.client = u.client /\ m.auth.client = AtRealm(u.client, Home)
               /\ m.tgt.under = Tgs(u.client.realm, u.client.realm)
        /\ m.type = "TGS_REP" =>
               /\ u.client.realm = Home /\ m.client = u.client
               /\ m.ticket.client = u.client /\ m.ticket.under = HomeTgs
ApTalk(u, m) ==
    (u.pc = "present" /\ m.type = "AP_REQ") =>
        /\ m.service = u.want /\ m.ticket.under = u.want
        /\ m.auth.under = m.ticket.session
        /\ m.ticket.client = u.client /\ m.auth.client = u.client

Session(u, m) ==
    /\ Speaks(u, m) /\ Relies(u)
    /\ AsTalk(u, m) /\ TgsTalk(u, m) /\ RenewTalk(u, m) /\ ApTalk(u, m)
    /\ m.type = "KRB_ERROR" => Explained(u)

Sessions ==
    ~mixed => OneLogin(file) /\ \A p \in Process : Session(proc[p], net[p])

\* Where nothing is asked.
LEMMA RestingIs ==
    ASSUME NEW u, NEW m, u.pc \notin Requesting, Relies(u),
           m.type \in {"none", "GET", "401", "AP_REP"}
    PROVE  Session(u, m)
BY DEF Session, Speaks, AsTalk, TgsTalk, RenewTalk, ApTalk, Requesting

LEMMA SessionStep ==
    ASSUME IInv, Sessions, NEW p \in Process, NEW u, NEW m,
           proc' = [proc EXCEPT ![p] = u], net' = [net EXCEPT ![p] = m],
           mixed => mixed', ~mixed' => OneLogin(file') /\ Session(u, m)
    PROVE  Sessions'
<1>1. /\ proc' = [q \in Process |-> IF q = p THEN u ELSE proc[q]]
      /\ net' = [q \in Process |-> IF q = p THEN m ELSE net[q]]
  BY DEF IInv
<1>2. \A q \in Process : /\ proc'[q] = IF q = p THEN u ELSE proc[q]
                         /\ net'[q] = IF q = p THEN m ELSE net[q]
  BY <1>1
<1>3. ~mixed' => OneLogin(file') /\ \A q \in Process : Session(proc'[q], net'[q])
  BY <1>2 DEF Sessions
<1>4. QED
  BY <1>3 DEF Sessions

\* The process and the message at a step that saves nothing.
LEMMA AskStep ==
    ASSUME IInv, Sessions, NEW p \in Process, NEW u, NEW m,
           proc' = [proc EXCEPT ![p] = u], net' = [net EXCEPT ![p] = m],
           UNCHANGED <<file, mixed>>, ~mixed => Session(u, m)
    PROVE  Sessions'
<1>1. ~mixed => OneLogin(file)
  BY DEF Sessions
<1>2. ~mixed' => OneLogin(file') /\ Session(u, m)
  BY <1>1
<1>3. QED
  BY <1>2, SessionStep

LEMMA SavedStep ==
    ASSUME IInv, Sessions, NEW p \in Process, NEW u, Save(p, u),
           ~mixed => OneLogin(u.cache)
                     /\ (u.pc # "idle" => Relies(u) /\ u.pc \notin Requesting)
    PROVE  Sessions'
<1> DEFINE v == IF u.pc = "idle" THEN Idle ELSE u
           m == Nothing
<1>1. proc' = [proc EXCEPT ![p] = v] /\ net' = [net EXCEPT ![p] = m]
  BY DEF Save
<1>2. m.type = "none"
  BY DEF Nothing
<1>3. Idle.pc = "idle"
  BY DEF Idle
<1>4. ~mixed => Relies(v) /\ v.pc \notin Requesting
  BY <1>3 DEF Relies, Requesting
<1> HIDE DEF m, v
<1>5. ~mixed => Session(v, m)
  BY <1>2, <1>4, RestingIs
<1>6. mixed' = (mixed \/ file' # u.cache)
  BY DEF Save
<1>7. ~mixed' => OneLogin(file') /\ Session(v, m)
  BY <1>5, <1>6
<1>8. QED
  BY <1>1, <1>6, <1>7, SessionStep

\* What is known of a process and its message.
LEMMA KnowsSession ==
    ASSUME Sessions, ~mixed, NEW p \in Process
    PROVE  /\ Speaks(proc[p], net[p]) /\ Relies(proc[p]) /\ AsTalk(proc[p], net[p])
           /\ TgsTalk(proc[p], net[p]) /\ RenewTalk(proc[p], net[p])
           /\ ApTalk(proc[p], net[p]) /\ OneLogin(file)
           /\ net[p].type = "KRB_ERROR" => Explained(proc[p])
BY DEF Sessions, Session

LEMMA AloneIsOneLogin ==
    ASSUME NEW cred, cred.ticket.under = cred.server, cred.client = cred.ticket.client,
           cred.server = Tgs(cred.client.realm, cred.client.realm)
    PROVE  OneLogin({cred})
BY DEF OneLogin

LEMMA PutIsOneLogin ==
    ASSUME NEW cache, NEW cred, NEW client, OneLogin(cache),
           \A c \in cache : c.ticket.client = client,
           cred.ticket.client = client, cred.ticket.under = cred.server, ~IsTgt(cred)
    PROVE  /\ OneLogin(Put(cache, cred))
           /\ \A c \in Put(cache, cred) : c.ticket.client = client
<1>1. \A c \in Put(cache, cred) : c \in cache \/ c = cred
  BY DEF Put
<1>2. QED
  BY <1>1 DEF OneLogin

LEMMA BeginAsks ==
    ASSUME IInv, Sessions, NEW p \in Process, NEW command, NEW user, NEW arg,
           command = "login" => user \in Registered, Begin(p, command, user, arg)
    PROVE  Sessions'
<1> DEFINE u == [pc |-> "start", command |-> command, client |-> user, arg |-> arg,
                 want |-> HomeTgs, cache |-> file, subkey |-> 0]
           m == net[p]
<1>1. /\ u.pc = "start" /\ u.cache = file /\ u.client = user
      /\ \A n : LET w == [u EXCEPT !.client = n, !.pc = "service"]
                IN  w.pc = "service" /\ w.client = n /\ w.cache = file
  OBVIOUS
<1>2. \/ command = "login" /\ proc' = [proc EXCEPT ![p] = u]
      \/ \E tgt \in file : /\ IsTgt(tgt)
                           /\ proc' = [proc EXCEPT ![p] =
                                  [u EXCEPT !.client = tgt.client, !.pc = "service"]]
  BY DEF Begin, TgtOf
<1>3. /\ UNCHANGED <<file, mixed>> /\ net' = [net EXCEPT ![p] = m]
      /\ proc[p].pc = "idle"
  BY SameMessage DEF Begin, At
<1>4. ~mixed => OneLogin(file) /\ m.type \in {"none", "GET", "401", "AP_REP"}
  BY <1>3, KnowsSession DEF Speaks, Requesting
<1> HIDE DEF u, m
<1>5. CASE command = "login" /\ proc' = [proc EXCEPT ![p] = u]
  <2>1. ~mixed => Session(u, m)
    BY <1>1, <1>4, <1>5, RestingIs DEF Relies, Requesting
  <2>2. QED
    BY <1>3, <1>5, <2>1, AskStep
<1>6. ASSUME NEW tgt \in file, IsTgt(tgt),
             proc' = [proc EXCEPT ![p] =
                 [u EXCEPT !.client = tgt.client, !.pc = "service"]]
      PROVE  Sessions'
  <2> DEFINE w == [u EXCEPT !.client = tgt.client, !.pc = "service"]
  <2>1. /\ w.pc = "service" /\ w.client = tgt.client /\ w.cache = file
        /\ proc' = [proc EXCEPT ![p] = w]
    BY <1>1, <1>6
  <2> HIDE DEF w
  <2>2. ~mixed => \A c \in file : c.ticket.client = tgt.client
    BY <1>4, <1>6 DEF OneLogin
  <2>3. ~mixed => Session(w, m)
    BY <1>4, <2>1, <2>2, RestingIs DEF Relies, Requesting
  <2>4. QED
    BY <1>3, <2>1, <2>3, AskStep
<1>7. QED
  BY <1>2, <1>5, <1>6

LEMMA SendAsReqAsks ==
    ASSUME IInv, Sessions, NEW p \in Process, SendAsReq(p)
    PROVE  Sessions'
<1> DEFINE u == [proc[p] EXCEPT !.pc = "as"]
           m == [type |-> "AS_REQ", client |-> proc[p].client]
<1>1. proc[p] # Idle /\ proc[p].pc = "start" /\ Send(p, u, m)
  BY NotIdle DEF SendAsReq, At
<1>2. u.pc = "as" /\ u.client = proc[p].client /\ u.cache = proc[p].cache
  BY <1>1, Knows DEF Running
<1>3. m.type = "AS_REQ" /\ m.client = proc[p].client
  OBVIOUS
<1> HIDE DEF u, m
<1>4. ~mixed => Relies(u)
  BY <1>1, <1>2, KnowsSession DEF Relies
<1>5. ~mixed => Session(u, m)
  BY <1>2, <1>3, <1>4 DEF Session, Speaks, AsTalk, TgsTalk, RenewTalk, ApTalk, Requesting
<1>6. QED
  BY <1>1, <1>5, AskStep DEF Send

LEMMA ReceiveAsRepAsks ==
    ASSUME IInv, Sessions, NEW p \in Process, ReceiveAsRep(p)
    PROVE  Sessions'
<1> DEFINE cred == [server |-> Tgs(proc[p].client.realm, proc[p].client.realm),
                    client |-> net[p].client, ticket |-> net[p].ticket]
           u == [proc[p] EXCEPT !.cache = {cred}, !.pc = "service"]
<1>1. proc[p] # Idle /\ proc[p].pc = "as" /\ net[p].type = "AS_REP" /\ Save(p, u)
  BY NotIdle DEF ReceiveAsRep, At
<1>2. ~mixed => /\ net[p].client = proc[p].client
                /\ net[p].ticket.client = proc[p].client
                /\ net[p].ticket.under = Tgs(proc[p].client.realm, proc[p].client.realm)
  BY <1>1, KnowsSession DEF AsTalk
<1>3. /\ cred.server = Tgs(proc[p].client.realm, proc[p].client.realm)
      /\ cred.client = net[p].client /\ cred.ticket = net[p].ticket
  OBVIOUS
<1> HIDE DEF cred
<1>4. ~mixed => OneLogin({cred}) /\ cred.ticket.client = proc[p].client
  BY <1>2, <1>3, AloneIsOneLogin
<1>5. u.pc = "service" /\ u.client = proc[p].client /\ u.cache = {cred}
  BY <1>1, Knows DEF Running
<1> HIDE DEF u
<1>6. ~mixed => OneLogin(u.cache) /\ Relies(u) /\ u.pc \notin Requesting
  BY <1>4, <1>5 DEF Relies, Requesting
<1>7. QED
  BY <1>1, <1>6, SavedStep

LEMMA ReuseAsks ==
    ASSUME IInv, Sessions, NEW p \in Process, Reuse(p)
    PROVE  Sessions'
<1> DEFINE u == [proc[p] EXCEPT !.pc = "service"]
           m == net[p]
<1>1. proc[p] # Idle /\ proc[p].pc = "start" /\ proc' = [proc EXCEPT ![p] = u]
      /\ UNCHANGED <<file, net, mixed>>
  BY NotIdle DEF Reuse, At, Goto
<1>2. PICK tgt \in proc[p].cache : IsTgt(tgt) /\ tgt.client = proc[p].client
  BY DEF Reuse, TgtOf
<1>3. ~mixed => OneLogin(proc[p].cache) /\ m.type \in {"none", "GET", "401", "AP_REP"}
  BY <1>1, KnowsSession DEF Relies, Speaks, Requesting
<1>4. ~mixed => \A c \in proc[p].cache : c.ticket.client = proc[p].client
  BY <1>2, <1>3 DEF OneLogin
<1>5. u.pc = "service" /\ u.client = proc[p].client /\ u.cache = proc[p].cache
  BY <1>1, Knows DEF Running
<1>6. net' = [net EXCEPT ![p] = m]
  BY <1>1, SameMessage
<1> HIDE DEF u, m
<1>7. ~mixed => Session(u, m)
  BY <1>3, <1>4, <1>5, RestingIs DEF Relies, Requesting
<1>8. QED
  BY <1>1, <1>6, <1>7, AskStep

LEMMA SendTgsReqAsks ==
    ASSUME IInv, Sessions, NEW p \in Process, SendTgsReq(p)
    PROVE  Sessions'
<1> DEFINE home == proc[p].client.realm
           want == Canonical(proc[p].arg, home)
           pc == IF want.realm = home THEN "tgs" ELSE "hop"
           service == IF want.realm = home THEN want ELSE Tgs(home, want.realm)
           u == [proc[p] EXCEPT !.want = want, !.pc = pc]
<1>1. proc[p] # Idle /\ proc[p].pc = "service"
  BY NotIdle DEF SendTgsReq, At
<1>2. PICK tgt \in TgtOf(proc[p]) :
          Send(p, u, TgsReq(proc[p], home, service, tgt.ticket, Tgs(home, home)))
  BY DEF SendTgsReq
<1> DEFINE m == TgsReq(proc[p], home, service, tgt.ticket, Tgs(home, home))
<1>3. home \in Realm /\ want \in Name /\ want.realm \in Realm
  BY <1>1, Knows, CanonicalIs DEF Running, Name
<1>4. service \in Name /\ service.realm = home
  BY <1>3, TgsIs
<1>5. /\ m.type = "TGS_REQ" /\ m.renew = FALSE /\ m.service = AtRealm(service, home)
      /\ m.realm = home /\ m.tgt = tgt.ticket /\ m.tgtService = Tgs(home, home)
      /\ m.auth.under = tgt.ticket.session /\ m.auth.client = proc[p].client
  BY DEF TgsReq, Authenticator
<1>6. Send(p, u, m)
  BY <1>2
<1> HIDE DEF m
<1>7. m.service = service
  BY <1>3, <1>4, <1>5, AtRealmIs
<1>8. /\ u.pc = pc /\ u.client = proc[p].client /\ u.want = want
      /\ u.cache = proc[p].cache
  BY <1>1, Knows DEF Running
<1> HIDE DEF u
<1>9. ~mixed => Relies(u) /\ tgt.ticket.client = u.client
                /\ tgt.ticket.under = Tgs(home, home)
  <2>1. tgt \in proc[p].cache /\ IsTgt(tgt)
    BY DEF TgtOf
  <2>2. ~mixed => OneLogin(proc[p].cache)
                  /\ \A c \in proc[p].cache : c.ticket.client = proc[p].client
    BY <1>1, KnowsSession DEF Relies
  <2>3. ~mixed => tgt.ticket.under = Tgs(home, home)
    BY <2>1, <2>2 DEF OneLogin
  <2>4. QED
    BY <1>8, <2>1, <2>2, <2>3 DEF Relies
<1> HIDE DEF want, home
<1>10. ~mixed => TgsTalk(u, m)
  BY <1>5, <1>7, <1>8, <1>9 DEF TgsTalk, home
<1>11. ~mixed => Session(u, m)
  BY <1>5, <1>8, <1>9, <1>10 DEF Session, Speaks, AsTalk, RenewTalk, ApTalk, Requesting
<1>12. QED
  BY <1>6, <1>11, AskStep DEF Send

LEMMA ReceiveCrossTgtAsks ==
    ASSUME IInv, Sessions, NEW p \in Process, ReceiveCrossTgt(p)
    PROVE  Sessions'
<1> DEFINE between == Tgs(proc[p].client.realm, proc[p].want.realm)
           u == [proc[p] EXCEPT !.pc = "tgs"]
           m == TgsReq(proc[p], proc[p].want.realm, proc[p].want, net[p].ticket, between)
<1>1. proc[p] # Idle /\ proc[p].pc = "hop" /\ net[p].type = "TGS_REP" /\ Send(p, u, m)
  BY NotIdle DEF ReceiveCrossTgt, At
<1>2. /\ m.type = "TGS_REQ" /\ m.renew = FALSE /\ m.realm = proc[p].want.realm
      /\ m.service = AtRealm(proc[p].want, proc[p].want.realm)
      /\ m.tgt = net[p].ticket /\ m.tgtService = between
      /\ m.auth.under = net[p].ticket.session /\ m.auth.client = proc[p].client
  BY DEF TgsReq, Authenticator
<1>3. proc[p].want \in Name /\ proc[p].want.realm \in Realm
  BY <1>1, Knows DEF Name
<1>4. m.service = proc[p].want
  BY <1>2, <1>3, AtRealmIs
<1>5. between \in Registered
  BY <1>1 DEF IInv, OnRoute
<1> HIDE DEF m
<1>6. u.pc = "tgs" /\ u.client = proc[p].client /\ u.want = proc[p].want
      /\ u.cache = proc[p].cache
  BY <1>1, Knows DEF Running
<1> HIDE DEF u
<1>7. ~mixed => /\ Relies(u) /\ net[p].ticket.client = u.client
                /\ net[p].ticket.under = between
  BY <1>1, <1>6, KnowsSession DEF Relies, TgsTalk
<1>8. ~mixed => TgsTalk(u, m)
  BY <1>2, <1>4, <1>5, <1>6, <1>7 DEF TgsTalk
<1>9. ~mixed => Session(u, m)
  BY <1>2, <1>6, <1>7, <1>8 DEF Session, Speaks, AsTalk, RenewTalk, ApTalk, Requesting
<1>10. QED
  BY <1>1, <1>9, AskStep DEF Send

LEMMA ReceiveTgsRepAsks ==
    ASSUME IInv, Dialogues, Sessions, NEW p \in Process, ReceiveTgsRep(p)
    PROVE  Sessions'
<1> DEFINE service == IF proc[p].want.realm = proc[p].client.realm
                      THEN net[p].service ELSE proc[p].want
           cred == [server |-> service, client |-> net[p].client,
                    ticket |-> net[p].ticket]
           pc == IF proc[p].command = "kvno" THEN "idle" ELSE "ap"
           cache == Put(proc[p].cache, cred)
           u == [proc[p] EXCEPT !.cache = cache, !.pc = pc]
<1>1. proc[p] # Idle /\ net[p].type = "TGS_REP" /\ proc[p].pc = "tgs"
  BY NotIdle DEF ReceiveTgsRep, At
<1>2. Save(p, u)
  BY DEF ReceiveTgsRep
<1>3. service = proc[p].want /\ proc[p].want = Want(proc[p])
  BY <1>1 DEF Dialogues, Dialogue
<1>4. proc[p].want.local \in Service
  <2>1. proc[p].arg \in Argument
    BY <1>1, Knows DEF Running
  <2>2. Canonical(proc[p].arg, proc[p].client.realm).local \in Service
    BY <2>1 DEF Canonical, AtRealm, Argument
  <2>3. QED
    BY <1>3, <2>2 DEF Want
<1>5. cred.server = service /\ cred.ticket = net[p].ticket
  OBVIOUS
<1> HIDE DEF service, cred
<1>6. ~IsTgt(cred)
  BY <1>3, <1>4, <1>5, NameAssumption DEF IsTgt
<1>7. ~mixed => /\ net[p].ticket.client = proc[p].client
                /\ net[p].ticket.under = proc[p].want
                /\ OneLogin(proc[p].cache)
                /\ \A c \in proc[p].cache : c.ticket.client = proc[p].client
  BY <1>1, KnowsSession DEF TgsTalk, Relies
<1>8. ~mixed => OneLogin(cache) /\ \A c \in cache : c.ticket.client = proc[p].client
  BY <1>3, <1>5, <1>6, <1>7, PutIsOneLogin
<1> HIDE DEF cache
<1>9. u.pc = pc /\ u.cache = cache /\ u.client = proc[p].client
  BY <1>1, Knows DEF Running
<1> HIDE DEF u
<1>10. ~mixed => OneLogin(u.cache)
                 /\ (u.pc # "idle" => Relies(u) /\ u.pc \notin Requesting)
  BY <1>8, <1>9 DEF Relies, Requesting
<1>11. QED
  BY <1>2, <1>10, SavedStep

LEMMA SendRenewalAsks ==
    ASSUME IInv, Sessions, NEW p \in Process, SendRenewal(p)
    PROVE  Sessions'
<1> DEFINE u == [proc[p] EXCEPT !.pc = "renewing"]
           v == [proc[p] EXCEPT !.client = AtRealm(proc[p].client, Home)]
<1>1. proc[p] # Idle /\ proc[p].pc = "service" /\ proc[p].command = "krenew"
  BY NotIdle DEF SendRenewal, At
<1>2. PICK tgt \in TgtOf(proc[p]) :
          Send(p, u, [type |-> "TGS_REQ", realm |-> Home, service |-> HomeTgs,
                      tgt |-> tgt.ticket, tgtService |-> HomeTgs,
                      auth |-> Authenticator(v, tgt.ticket), renew |-> TRUE])
  BY DEF SendRenewal
<1> DEFINE m == [type |-> "TGS_REQ", realm |-> Home, service |-> HomeTgs,
                 tgt |-> tgt.ticket, tgtService |-> HomeTgs,
                 auth |-> Authenticator(v, tgt.ticket), renew |-> TRUE]
<1>3. v.client = AtRealm(proc[p].client, Home)
  BY <1>1, Knows DEF Running
<1> HIDE DEF v
<1>4. /\ m.type = "TGS_REQ" /\ m.renew /\ m.realm = Home /\ m.tgtService = HomeTgs
      /\ m.tgt = tgt.ticket /\ m.auth.under = tgt.ticket.session
      /\ m.auth.client = AtRealm(proc[p].client, Home)
  BY <1>3 DEF Authenticator
<1>5. /\ u.pc = "renewing" /\ u.client = proc[p].client /\ u.cache = proc[p].cache
      /\ u.command = "krenew"
  BY <1>1, Knows DEF Running
<1>6. Send(p, u, m)
  BY <1>2
<1> HIDE DEF m, u
<1>7. ~mixed => /\ Relies(u) /\ tgt.ticket.client = u.client
                /\ tgt.ticket.under = Tgs(u.client.realm, u.client.realm)
  <2>1. tgt \in proc[p].cache /\ IsTgt(tgt)
    BY DEF TgtOf
  <2>2. ~mixed => OneLogin(proc[p].cache)
                  /\ \A c \in proc[p].cache : c.ticket.client = proc[p].client
    BY <1>1, KnowsSession DEF Relies
  <2>3. QED
    BY <1>5, <2>1, <2>2 DEF Relies, OneLogin
<1>8. ~mixed => RenewTalk(u, m)
  BY <1>4, <1>5, <1>7 DEF RenewTalk
<1>9. ~mixed => Session(u, m)
  BY <1>4, <1>5, <1>7, <1>8 DEF Session, Speaks, AsTalk, TgsTalk, ApTalk, Requesting
<1>10. QED
  BY <1>6, <1>9, AskStep DEF Send

LEMMA ReceiveRenewalAsks ==
    ASSUME IInv, Sessions, NEW p \in Process, ReceiveRenewal(p)
    PROVE  Sessions'
<1> DEFINE cred == [server |-> Tgs(proc[p].client.realm, proc[p].client.realm),
                    client |-> net[p].client, ticket |-> net[p].ticket]
           u == [proc[p] EXCEPT !.cache = {cred}, !.pc = "idle"]
<1>1. proc[p] # Idle /\ proc[p].pc = "renewing" /\ net[p].type = "TGS_REP" /\ Save(p, u)
  BY NotIdle DEF ReceiveRenewal, At
<1>2. ~mixed => /\ net[p].client = proc[p].client
                /\ net[p].ticket.client = proc[p].client
                /\ net[p].ticket.under = Tgs(proc[p].client.realm, proc[p].client.realm)
  BY <1>1, KnowsSession DEF RenewTalk, HomeTgs
<1>3. /\ cred.server = Tgs(proc[p].client.realm, proc[p].client.realm)
      /\ cred.client = net[p].client /\ cred.ticket = net[p].ticket
  OBVIOUS
<1> HIDE DEF cred
<1>4. ~mixed => OneLogin({cred})
  BY <1>2, <1>3, AloneIsOneLogin
<1>5. u.pc = "idle" /\ u.cache = {cred}
  BY <1>1, Knows DEF Running
<1> HIDE DEF u
<1>6. QED
  BY <1>1, <1>4, <1>5, SavedStep

\* A process goes on with its client and its cache, and is asking nothing.
LEMMA RestsOn ==
    ASSUME Sessions, NEW p \in Process, NEW u, NEW m, ~mixed, proc[p].pc # "idle",
           proc[p].pc \notin {"start", "as"}, u.pc \notin {"start", "as"},
           u.client = proc[p].client, u.cache = proc[p].cache,
           u.pc \notin Requesting, m.type \in {"none", "GET", "401", "AP_REP"}
    PROVE  Session(u, m)
<1>1. Relies(proc[p])
  BY KnowsSession
<1>2. Relies(u)
  BY <1>1 DEF Relies
<1>3. QED
  BY <1>2, RestingIs

LEMMA PresentAsks ==
    ASSUME IInv, Sessions, NEW p \in Process, Present(p)
    PROVE  Sessions'
<1> DEFINE service == Canonical(proc[p].arg, Home)
           u == [proc[p] EXCEPT !.pc = "get", !.want = service]
           v == [proc[p] EXCEPT !.pc = "missing"]
           get == [type |-> "GET"]
           m == net[p]
<1>1. proc[p] # Idle /\ proc[p] \in Running /\ proc[p].pc \in {"ap", "service"}
  BY NotIdle, Knows DEF Present, At
<1>2. \/ Send(p, u, get)
      \/ proc' = [proc EXCEPT ![p] = v] /\ UNCHANGED <<file, net, mixed>>
  BY DEF Present, Goto
<1>3. /\ u.pc = "get" /\ u.client = proc[p].client /\ u.cache = proc[p].cache
      /\ v.pc = "missing" /\ v.client = proc[p].client /\ v.cache = proc[p].cache
      /\ get.type = "GET"
  BY <1>1 DEF Running
<1>4. UNCHANGED net => net' = [net EXCEPT ![p] = m]
  BY SameMessage
<1>5. ~mixed => m.type \in {"none", "GET", "401", "AP_REP"}
  BY <1>1, KnowsSession DEF Speaks, Requesting
<1> HIDE DEF u, v, get, m
<1>6. ~mixed => Session(u, get) /\ Session(v, m)
  BY <1>1, <1>3, <1>5, RestsOn DEF Requesting
<1>7. CASE Send(p, u, get)
  BY <1>6, <1>7, AskStep DEF Send
<1>8. CASE proc' = [proc EXCEPT ![p] = v] /\ UNCHANGED <<file, net, mixed>>
  BY <1>4, <1>6, <1>8, AskStep
<1>9. QED
  BY <1>2, <1>7, <1>8

LEMMA SendApReqAsks ==
    ASSUME IInv, Sessions, NEW p \in Process, SendApReq(p)
    PROVE  Sessions'
<1> DEFINE u == [proc[p] EXCEPT !.pc = "present", !.subkey = Fresh]
<1>1. proc[p] # Idle /\ proc[p].pc = "get"
  BY NotIdle DEF SendApReq, At
<1>2. PICK c \in For(proc[p].cache, proc[p].want) :
        /\ proc' = [proc EXCEPT ![p] = u]
        /\ net' = [net EXCEPT ![p] =
               [type |-> "AP_REQ", service |-> proc[p].want, ticket |-> c.ticket,
                auth |-> [under |-> c.ticket.session, client |-> proc[p].client,
                          subkey |-> Fresh]]]
  BY DEF SendApReq
<1> DEFINE m == [type |-> "AP_REQ", service |-> proc[p].want, ticket |-> c.ticket,
                 auth |-> [under |-> c.ticket.session, client |-> proc[p].client,
                           subkey |-> Fresh]]
<1>3. /\ u.pc = "present" /\ u.client = proc[p].client /\ u.want = proc[p].want
      /\ u.cache = proc[p].cache
  BY <1>1, Knows DEF Running
<1>4. /\ m.type = "AP_REQ" /\ m.service = proc[p].want /\ m.ticket = c.ticket
      /\ m.auth.under = c.ticket.session /\ m.auth.client = proc[p].client
  OBVIOUS
<1>5. net' = [net EXCEPT ![p] = m] /\ UNCHANGED <<file, mixed>>
  BY <1>2 DEF SendApReq
<1> HIDE DEF m, u
<1>6. c \in proc[p].cache /\ c.server = proc[p].want
  BY DEF For
<1>7. ~mixed => Relies(u) /\ c.ticket.client = u.client /\ c.ticket.under = u.want
  BY <1>1, <1>3, <1>6, KnowsSession DEF Relies, OneLogin
<1>8. ~mixed => Session(u, m)
  BY <1>3, <1>4, <1>7
     DEF Session, Speaks, AsTalk, TgsTalk, RenewTalk, ApTalk, Requesting
<1>9. QED
  BY <1>2, <1>5, <1>8, AskStep

LEMMA ReceiveApRepAsks ==
    ASSUME IInv, Sessions, NEW p \in Process, ReceiveApRep(p)
    PROVE  Sessions'
<1> DEFINE u == [proc[p] EXCEPT !.pc = "done"]
           m == net[p]
<1>1. /\ proc[p] # Idle /\ proc[p].pc = "present" /\ m.type = "AP_REP"
      /\ proc' = [proc EXCEPT ![p] = u] /\ UNCHANGED <<file, net, mixed>>
  BY NotIdle DEF ReceiveApRep, At, Goto, Verified
<1>2. u.pc = "done" /\ u.client = proc[p].client /\ u.cache = proc[p].cache
  BY <1>1, Knows DEF Running
<1>3. net' = [net EXCEPT ![p] = m]
  BY <1>1, SameMessage
<1> HIDE DEF u, m
<1>4. ~mixed => Session(u, m)
  BY <1>1, <1>2, RestsOn DEF Requesting
<1>5. QED
  BY <1>1, <1>3, <1>4, AskStep

LEMMA EndAsks ==
    ASSUME IInv, Sessions, NEW p \in Process, End(p)
    PROVE  Sessions'
<1>1. Idle.pc = "idle" /\ Nothing.type = "none"
  BY DEF Idle, Nothing
<1>2. Session(Idle, Nothing)
  BY <1>1, RestingIs DEF Relies, Requesting
<1>3. QED
  BY <1>2, AskStep DEF End

\* What the KDC makes of each request.
LEMMA AsReplyAnswers ==
    ASSUME NEW u, NEW m, Relies(u), Speaks(u, m), AsTalk(u, m), u.pc = "as",
           u.client \in UserName, m.type = "AS_REQ"
    PROVE  Session(u, AsReply(m))
<1> DEFINE r == AsReply(m)
<1>1. m.client = u.client /\ u.client \in Registered
  BY DEF AsTalk, Relies
<1>2. AtRealm(u.client, u.client.realm) = u.client
  BY AtRealmIs, UserIs
<1>3. CASE Tgs(u.client.realm, u.client.realm) \in Registered
  <2>1. /\ r.type = "AS_REP" /\ r.client = u.client /\ r.ticket.client = u.client
        /\ r.ticket.under = Tgs(u.client.realm, u.client.realm)
    BY <1>1, <1>2, <1>3 DEF AsReply
  <2> HIDE DEF r
  <2>2. Session(u, r)
    BY <2>1 DEF Session, Speaks, AsTalk, TgsTalk, RenewTalk, ApTalk, Requesting
  <2>3. QED
    BY <2>2 DEF r
<1>4. CASE Tgs(u.client.realm, u.client.realm) \notin Registered
  <2>1. r.type = "KRB_ERROR"
    BY <1>1, <1>4 DEF AsReply, Refusal
  <2> HIDE DEF r
  <2>2. Session(u, r)
    BY <1>4, <2>1
       DEF Session, Speaks, AsTalk, TgsTalk, RenewTalk, ApTalk, Requesting, Explained
  <2>3. QED
    BY <2>2 DEF r
<1>5. QED
  BY <1>3, <1>4

LEMMA TgsReplyAnswers ==
    ASSUME NEW u, NEW m, Relies(u), Speaks(u, m), TgsTalk(u, m), u.pc \in {"hop", "tgs"},
           u.client \in UserName, u.want.realm \in Realm,
           u.pc = "tgs" => u.want.local \in Service, m.type = "TGS_REQ"
    PROVE  Session(u, TgsReply(m))
<1> DEFINE r == TgsReply(m)
           goal == IF u.pc = "hop" THEN Tgs(u.client.realm, u.want.realm) ELSE u.want
           home == Tgs(u.client.realm, u.client.realm)
<1>1. /\ ~m.renew /\ m.service = goal /\ m.auth.under = m.tgt.session
      /\ m.tgt.client = u.client /\ m.auth.client = u.client
      /\ m.tgtService = Tgs(u.client.realm, m.realm) /\ m.tgt.under = m.tgtService
      /\ m.realm = u.client.realm \/ m.tgtService \in Registered
  BY DEF TgsTalk
<1>2. AtRealm(u.client, u.client.realm) = u.client /\ u.client.realm \in Realm
  BY AtRealmIs, UserIs
<1>3. goal.local \notin User
  BY <1>2, TgsIs, NameAssumption
<1> HIDE DEF goal
<1>4. home \in Registered => Validated(m)
  <2>1. home \in Registered => Opener(m) = m.tgtService
    BY <1>1 DEF Opener
  <2>2. RealmAccepted(m)
    BY <1>1 DEF RealmAccepted
  <2>3. QED
    BY <1>1, <2>1, <2>2 DEF Validated
<1> HIDE DEF home
<1>5. CASE Validated(m) /\ goal \in Registered
  <2>1. r = [type |-> "TGS_REP", client |-> AtRealm(m.tgt.client, Home),
             service |-> AtRealm(m.service, m.realm), ticket |-> Derived(m)]
    BY <1>1, <1>3, <1>5 DEF TgsReply
  <2>2. Derived(m).client = u.client /\ Derived(m).under = goal
    BY <1>1, <1>2 DEF Derived
  <2>3. r.type = "TGS_REP" /\ r.ticket.client = u.client /\ r.ticket.under = goal
    BY <2>1, <2>2
  <2> HIDE DEF r
  <2>4. TgsTalk(u, r)
    BY <2>3 DEF TgsTalk, goal
  <2>5. Session(u, r)
    BY <2>3, <2>4 DEF Session, Speaks, AsTalk, RenewTalk, ApTalk, Requesting
  <2>6. QED
    BY <2>5 DEF r
<1>6. CASE ~(Validated(m) /\ goal \in Registered)
  <2>1. r.type = "KRB_ERROR"
    BY <1>1, <1>6 DEF TgsReply, Refusal
  <2>2. home \notin Registered \/ goal \notin Registered
    BY <1>4, <1>6
  <2>3. Explained(u)
    BY <2>2 DEF Explained, home, goal
  <2> HIDE DEF r
  <2>4. Session(u, r)
    BY <2>1, <2>3 DEF Session, Speaks, AsTalk, TgsTalk, RenewTalk, ApTalk, Requesting
  <2>5. QED
    BY <2>4 DEF r
<1>7. QED
  BY <1>5, <1>6

LEMMA RenewalAnswers ==
    ASSUME NEW u, NEW m, Relies(u), Speaks(u, m), RenewTalk(u, m), u.pc = "renewing",
           u.client \in UserName, m.type = "TGS_REQ"
    PROVE  Session(u, TgsReply(m))
<1> DEFINE r == TgsReply(m)
<1>1. /\ m.renew /\ m.realm = Home /\ m.tgtService = HomeTgs
      /\ m.auth.under = m.tgt.session
      /\ m.tgt.client = u.client /\ m.auth.client = AtRealm(u.client, Home)
      /\ m.tgt.under = Tgs(u.client.realm, u.client.realm)
      /\ u.command = "krenew"
  BY DEF RenewTalk
<1>2. Opener(m) = HomeTgs
  BY <1>1, NameAssumption DEF Opener
<1>3. u.client \in Name /\ Home \in Realm
  BY UserIs, NameAssumption
<1>4. CASE u.client.realm = Home
  <2>1. AtRealm(u.client, Home) = u.client
    BY <1>3, <1>4, AtRealmIs
  <2>2. Validated(m)
    BY <1>1, <1>2, <1>4, <2>1 DEF Validated, RealmAccepted, HomeTgs
  <2>3. r = [type |-> "TGS_REP", client |-> AtRealm(m.tgt.client, Home),
             service |-> HomeTgs, ticket |-> Renewed(m)]
    BY <1>1, <2>2 DEF TgsReply
  <2>4. Renewed(m).client = u.client /\ Renewed(m).under = HomeTgs
    BY <1>1, <1>2, <2>1 DEF Renewed
  <2>5. /\ r.type = "TGS_REP" /\ r.client = u.client
        /\ r.ticket.client = u.client /\ r.ticket.under = HomeTgs
    BY <1>1, <2>1, <2>3, <2>4
  <2> HIDE DEF r
  <2>6. RenewTalk(u, r)
    BY <1>1, <1>4, <2>5 DEF RenewTalk
  <2>7. Session(u, r)
    BY <2>5, <2>6 DEF Session, Speaks, AsTalk, TgsTalk, ApTalk, Requesting
  <2>8. QED
    BY <2>7 DEF r
<1>5. CASE u.client.realm # Home
  <2>1. ~Validated(m)
    <3>1. AtRealm(u.client, Home).realm = Home
      BY <1>3, AtRealmIs
    <3>2. QED
      BY <1>1, <1>5, <3>1 DEF Validated
  <2>2. r.type = "KRB_ERROR"
    BY <2>1 DEF TgsReply, Refusal
  <2>3. Explained(u)
    BY <1>1, <1>5 DEF Explained
  <2> HIDE DEF r
  <2>4. RenewTalk(u, r)
    BY <1>1, <2>2 DEF RenewTalk
  <2>5. Session(u, r)
    BY <2>2, <2>3, <2>4 DEF Session, Speaks, AsTalk, TgsTalk, ApTalk, Requesting
  <2>6. QED
    BY <2>5 DEF r
<1>6. QED
  BY <1>4, <1>5

LEMMA KdcAsks ==
    ASSUME IInv, Dialogues, Sessions, NEW p \in Process, Kdc(p)
    PROVE  Sessions'
<1> DEFINE u == proc[p]
           req == net[p]
           m == IF req.type = "AS_REQ" THEN AsReply(req) ELSE TgsReply(req)
<1>1. /\ req.type \in {"AS_REQ", "TGS_REQ"}
      /\ net' = [net EXCEPT ![p] = m] /\ UNCHANGED <<file, proc, mixed>>
  BY DEF Kdc
<1>2. proc' = [proc EXCEPT ![p] = u]
  BY <1>1, SameProcess
<1>3. ASSUME ~mixed
      PROVE  Session(u, m)
  <2>1. /\ Speaks(u, req) /\ Relies(u) /\ AsTalk(u, req) /\ TgsTalk(u, req)
        /\ RenewTalk(u, req)
    BY <1>3, KnowsSession
  <2>2. /\ req.type = "AS_REQ" => u.pc = "as"
        /\ req.type = "TGS_REQ" => u.pc \in {"hop", "tgs", "renewing"}
    BY <1>1, <2>1 DEF Speaks, Requesting
  <2>3. u # Idle
    BY <1>1, <2>2, NotIdle
  <2>4. u.client \in UserName /\ u.want.realm \in Realm
    BY <2>3, Knows DEF Name
  <2>5. u.pc = "tgs" => u.want.local \in Service
    <3>1. u.arg \in Argument
      BY <2>3, Knows DEF Running
    <3>2. Canonical(u.arg, u.client.realm).local \in Service
      BY <3>1 DEF Canonical, AtRealm, Argument
    <3>3. QED
      BY <3>2 DEF Dialogues, Dialogue, Want
  <2>6. CASE req.type = "AS_REQ"
    BY <2>1, <2>2, <2>4, <2>6, AsReplyAnswers
  <2>7. CASE req.type = "TGS_REQ" /\ u.pc \in {"hop", "tgs"}
    BY <2>1, <2>4, <2>5, <2>7, TgsReplyAnswers
  <2>8. CASE req.type = "TGS_REQ" /\ u.pc = "renewing"
    BY <2>1, <2>4, <2>8, RenewalAnswers
  <2>9. QED
    BY <1>1, <2>2, <2>6, <2>7, <2>8
<1> HIDE DEF u, m
<1>4. QED
  BY <1>1, <1>2, <1>3, AskStep

\* The application server challenges a process that rests, and answers one that
\* presents a ticket.
LEMMA ApServerAsks ==
    ASSUME IInv, Sessions, NEW p \in Process, ApServer(p)
    PROVE  Sessions'
<1> DEFINE u == proc[p]
           req == net[p]
<1>1. UNCHANGED <<file, mixed>> /\ proc' = [proc EXCEPT ![p] = u]
  BY SameProcess DEF ApServer
<1>2. ~mixed => Speaks(u, req) /\ Relies(u) /\ ApTalk(u, req)
  BY KnowsSession
<1>3. ASSUME req.type = "GET", net' = [net EXCEPT ![p] = [type |-> "401"]]
      PROVE  Sessions'
  <2> DEFINE m == [type |-> "401"]
  <2>1. m.type = "401" /\ net' = [net EXCEPT ![p] = m]
    BY <1>3
  <2> HIDE DEF m, u, req
  <2>2. ~mixed => u.pc \notin Requesting
    BY <1>2, <1>3 DEF Speaks, Requesting
  <2>3. ~mixed => Session(u, m)
    BY <1>2, <2>1, <2>2, RestingIs
  <2>4. QED
    BY <1>1, <2>1, <2>3, AskStep
<1>4. ASSUME NEW m, req.type = "AP_REQ", net' = [net EXCEPT ![p] = m],
             m.type \in {"AP_REP", "KRB_ERROR"},
             m.type = "KRB_ERROR" => ~AuthenticAp(req)
      PROVE  Sessions'
  <2> HIDE DEF u, req
  <2>1. ~mixed => u.pc = "present"
    BY <1>2, <1>4 DEF Speaks, Requesting
  <2>2. ~mixed /\ ~AuthenticAp(req) => Explained(u)
    BY <1>2, <1>4, <2>1 DEF ApTalk, AuthenticAp, Explained
  <2>3. ~mixed => Session(u, m)
    BY <1>2, <1>4, <2>1, <2>2
       DEF Session, Speaks, AsTalk, TgsTalk, RenewTalk, ApTalk, Requesting
  <2>4. QED
    BY <1>1, <1>4, <2>3, AskStep
<1>5. ASSUME req.type = "AP_REQ",
             net' = [net EXCEPT ![p] = [type |-> "AP_REP", under |-> req.auth.subkey]]
      PROVE  Sessions'
  <2> DEFINE m == [type |-> "AP_REP", under |-> req.auth.subkey]
  <2>1. m.type = "AP_REP" /\ net' = [net EXCEPT ![p] = m]
    BY <1>5
  <2> HIDE DEF m
  <2>2. QED
    BY <1>4, <1>5, <2>1
<1>6. ASSUME req.type = "AP_REQ", ~AuthenticAp(req), net' = [net EXCEPT ![p] = Refusal]
      PROVE  Sessions'
  <2>1. Refusal.type = "KRB_ERROR"
    BY DEF Refusal
  <2>2. QED
    BY <1>4, <1>6, <2>1
<1>7. QED
  BY <1>3, <1>5, <1>6 DEF ApServer

LEMMA SessionsNext == IInv /\ Dialogues /\ Sessions /\ [Next]_vars => Sessions'
<1>1. CASE UNCHANGED vars
  BY <1>1 DEF vars, Sessions
<1>2. ASSUME IInv, Dialogues, Sessions, Next
      PROVE  Sessions'
  <2>1. PICK p \in Process :
            \/ \E c, user, arg : /\ c = "login" => user \in Registered
                                 /\ Begin(p, c, user, arg)
            \/ SendAsReq(p) \/ ReceiveAsRep(p) \/ Reuse(p)
            \/ SendTgsReq(p) \/ ReceiveCrossTgt(p) \/ ReceiveTgsRep(p)
            \/ SendRenewal(p) \/ ReceiveRenewal(p)
            \/ Present(p) \/ SendApReq(p) \/ ReceiveApRep(p) \/ End(p)
            \/ Kdc(p) \/ ApServer(p)
    BY <1>2 DEF Next
  <2>2. CASE \E c, user, arg : /\ c = "login" => user \in Registered
                               /\ Begin(p, c, user, arg)
    BY <1>2, <2>2, BeginAsks
  <2>3. CASE SendAsReq(p) \/ ReceiveAsRep(p) \/ Reuse(p)
    BY <1>2, <2>3, SendAsReqAsks, ReceiveAsRepAsks, ReuseAsks
  <2>4. CASE SendTgsReq(p) \/ ReceiveCrossTgt(p) \/ ReceiveTgsRep(p)
    BY <1>2, <2>4, SendTgsReqAsks, ReceiveCrossTgtAsks, ReceiveTgsRepAsks
  <2>5. CASE SendRenewal(p) \/ ReceiveRenewal(p) \/ End(p)
    BY <1>2, <2>5, SendRenewalAsks, ReceiveRenewalAsks, EndAsks
  <2>6. CASE Present(p) \/ SendApReq(p) \/ ReceiveApRep(p)
    BY <1>2, <2>6, PresentAsks, SendApReqAsks, ReceiveApRepAsks
  <2>7. CASE Kdc(p) \/ ApServer(p)
    BY <1>2, <2>7, KdcAsks, ApServerAsks
  <2>8. QED
    BY <2>1, <2>2, <2>3, <2>4, <2>5, <2>6, <2>7
<1>3. QED
  BY <1>1, <1>2

LEMMA AlwaysSessions == Spec => []Sessions
<1>1. Init => Sessions
  <2> SUFFICES ASSUME Init PROVE Sessions
    OBVIOUS
  <2>1. Idle.pc = "idle" /\ Nothing.type = "none"
    BY DEF Idle, Nothing
  <2>2. Session(Idle, Nothing)
    BY <2>1, RestingIs DEF Relies, Requesting
  <2>3. OneLogin(file)
    BY DEF Init, OneLogin
  <2>4. \A p \in Process : proc[p] = Idle /\ net[p] = Nothing
    BY DEF Init
  <2>5. QED
    BY <2>2, <2>3, <2>4 DEF Sessions
<1>2. QED
  BY <1>1, Always, AlwaysDialogues, SessionsNext, PTL DEF Spec

\* While no two logins mixed in a cache, an error comes back to a process only
\* because it renews a TGT of the other realm or for want of a principal, of a way
\* or of a key in the keytab: never because client and server disagree on a name, a
\* realm or a key (the *_exchange functions, the handlers, do_GET).
THEOREM CausesOfRefusals == Spec => []RefusalsExplained
<1>1. Sessions => RefusalsExplained
  <2>1. Refusal.type = "KRB_ERROR"
    BY DEF Refusal
  <2>2. QED
    BY <2>1, KnowsSession DEF RefusalsExplained, Explained
<1>2. QED
  BY <1>1, AlwaysSessions, PTL

=============================================================================
