--------------------------------- MODULE Wire ---------------------------------
(***************************************************************************)
(* What the parties say to one another and what each makes of it: the      *)
(* messages of the three exchanges as core/asn1_codec.py and               *)
(* core/network.py write and read them, the tickets and reply parts inside *)
(* their ciphers, and the credential cache file through which a ticket     *)
(* passes to the next command.  Keys are rotated and time goes by between  *)
(* any two steps.                                                          *)
(*                                                                         *)
(* One client at a time, with one request in flight; its clock and those   *)
(* of the servers agree.  A request is fresh: the replay, skew and lockout *)
(* checks, which are about several requests or clocks, are modelled in     *)
(* ReplayCache, Tickets and AuthLockout.  A cipher is a record of its key, *)
(* its usage and its text.                                                 *)
(***************************************************************************)
EXTENDS Codec

CONSTANTS Client,           \* principals, with a password each
          Service,          \* service principals of the database and the keytab
          Stranger,         \* service names in neither
          TICKET_LIFETIME, RENEWABLE_LIFETIME,      \* seconds
          MaxTime,          \* bound of the clock, in ticks
          MaxKvno,          \* bound of the key versions
          Rotating,          \* bound: the principals whose keys are
          MaxIssued         \* bound of the tickets issued

VARIABLES format,   \* KRB_WIRE_FORMAT
          now,      \* the clock, in ticks
          kvno,     \* the current key version of a principal
          memory,   \* the cache of the running command
          disk,     \* the credential cache file
          asked,    \* the client's locals while it waits for an answer
          net,      \* the bytes on the way
          issued,   \* tickets issued so far
          outcome   \* how the last exchange ended

wireVars == <<format, now, kvno, memory, disk, asked, net, issued, outcome>>

RealmName == {p.realm : p \in Client \cup Service}
Tgs == {TgsOf(r) : r \in RealmName}
Principal == Service \cup Tgs

ASSUME NamesAssumption ==
    /\ Client \cup Service \cup Stranger \subseteq Name
    /\ Rotating \subseteq Principal
ASSUME BoundsAssumption ==
    /\ TICKET_LIFETIME \in Nat \ {0} /\ RENEWABLE_LIFETIME \in Nat \ {0}
    /\ MaxTime \in Nat \ {0} /\ MaxKvno \in Nat \ {0} /\ MaxIssued \in Nat

Empty == [client |-> None, tgt |-> None, services |-> {}]

DEFAULT_TICKET_FLAGS == {"initial", "pre_authent", "renewable"}
SERVICE_TICKET_FLAGS == {"pre_authent"}
GROUPS == 100

-----------------------------------------------------------------------------
(* Keys, ciphers, transport *)

Key == {"password", "wrong"} \X Name
           \cup {"session", "subkey", "server"} \X Nat
           \cup {"key"} \X Name \X Nat
CipherOf(D) == [key : Key, usage : Nat, der : D]
SealedTicket == CipherOf(EncTicketPartType(Key))
SealedAuthenticator == CipherOf(AuthenticatorType(Key))

Cipher(der, key, usage) == [key |-> key, usage |-> usage, der |-> der]
Opens(cipher, key, usage) == cipher.key = key /\ cipher.usage = usage

PasswordKey(client) == <<"password", client>>
SessionKey(n) == <<"session", n>>
LongTermKey(p, version) == <<"key", p, version>>

\* get_principal_key: the version named, or the current one; None if there is none.
KeyOf(p, version) ==
    CASE p \notin Principal -> None
      [] p \in Principal /\ version = None -> LongTermKey(p, kvno[p])
      [] p \in Principal /\ version # None ->
             IF version \in 1..kvno[p] THEN LongTermKey(p, version) ELSE None

\* _serialize: DER, or JSON, which keeps every field and every byte string.
Serialize(m) ==
    IF format = "der" THEN EncodeMessage(m, now) ELSE [json |-> m]
Deserialize(b) == IF "json" \in DOMAIN b THEN b.json ELSE DecodeMessage(b)

Error(code) == [msg_type |-> "KRB_ERROR", error_code |-> code]

-----------------------------------------------------------------------------
(* The client's cache *)

\* What is kept of a reply: its inner part and what names the ticket's key.
ResponseMetadata(response, part, etype, version, server) ==
    [flags |-> part.flags, authtime |-> part.authtime, starttime |-> part.starttime,
     endtime |-> part.endtime, renew_till |-> part.renew_till,
     client_principal |-> response.client_principal, server_principal |-> server,
     ticket_enctype |-> etype, ticket_kvno |-> version]

CredentialType ==
    [server : Name, ticket : SealedTicket, key : Key,
     metadata : [flags : SUBSET Flag, authtime : Nat, starttime : Maybe(Nat),
                 endtime : Nat, renew_till : Maybe(Nat), client_principal : Name,
                 server_principal : Name, ticket_enctype : Nat, ticket_kvno : Nat]]
Credential(server, ticket, key, metadata) ==
    [server |-> server, ticket |-> ticket, key |-> key, metadata |-> metadata]

Seconds(t) == IF t = None THEN 0 ELSE t \div Fine

MetadataFields == {"client_principal", "server_principal", "ticket_enctype",
                   "ticket_kvno"}
FileRecord ==
    [server : Name, keytype : Nat, key : Key,
     times : [authtime : Nat, starttime : Nat, endtime : Nat, renew_till : Nat],
     ticket : SealedTicket,
     authdata : [client_principal : Name, server_principal : Name,
                 ticket_enctype : Nat, ticket_kvno : Nat]]

\* The record of the file: the times are whole seconds and never absent, the flags
\* are gone, the names and versions go into an entry of their own.
PackMetadata(m) ==
    [f \in {g \in MetadataFields : m[g] # None} |-> m[f]]
PackCredential(c, server) ==
    [server |-> server, keytype |-> DEFAULT_ENCTYPE, key |-> c.key,
     times |-> [authtime |-> Seconds(c.metadata.authtime),
                starttime |-> Seconds(c.metadata.starttime),
                endtime |-> Seconds(c.metadata.endtime),
                renew_till |-> Seconds(c.metadata.renew_till)],
     ticket |-> c.ticket, authdata |-> PackMetadata(c.metadata)]
\* The mutant reads the times in the wrong order.
UnpackCredentialSwapped(r) ==
    Credential(r.server, r.ticket, r.key,
        [flags |-> {}, authtime |-> r.times.authtime * Fine,
         starttime |-> r.times.starttime * Fine, endtime |-> r.times.renew_till * Fine,
         renew_till |-> r.times.endtime * Fine,
         client_principal |-> Get(r.authdata, "client_principal"),
         server_principal |-> Get(r.authdata, "server_principal"),
         ticket_enctype |-> r.keytype,
         ticket_kvno |-> Get(r.authdata, "ticket_kvno")])
UnpackCredential(r) ==
    Credential(r.server, r.ticket, r.key,
        [flags |-> {}, authtime |-> r.times.authtime * Fine,
         starttime |-> r.times.starttime * Fine, endtime |-> r.times.endtime * Fine,
         renew_till |-> r.times.renew_till * Fine,
         client_principal |-> Get(r.authdata, "client_principal"),
         server_principal |-> Get(r.authdata, "server_principal"),
         ticket_enctype |-> r.keytype,
         ticket_kvno |-> Get(r.authdata, "ticket_kvno")])

\* _save: the TGT under the TGS of the command's client.
File(m) ==
    [tgt |-> IF m.tgt = None THEN None
             ELSE PackCredential(m.tgt, TgsOf(m.client.realm)),
     services |-> {PackCredential(c, c.server) : c \in m.services}]

\* _load: a command acts for the client that the TGT's record names.
Loaded ==
    LET tgt == IF disk.tgt = None THEN None ELSE UnpackCredential(disk.tgt)
    IN  [client |-> IF tgt = None THEN None ELSE tgt.metadata.client_principal,
         tgt |-> tgt, services |-> {UnpackCredential(r) : r \in disk.services}]

\* store_tgt drops the service tickets.
StoreTgt(c) ==
    LET m == [memory EXCEPT !.tgt = c, !.services = {}]
    IN  memory' = m /\ disk' = File(m)
StoreService(c) ==
    LET m == [memory EXCEPT !.services =
                 {d \in @ : d.server # c.server} \cup {c}]
    IN  memory' = m /\ disk' = File(m)

Past(t) == t \notin {None, 0} /\ now > t
Expired(c) == Past(c.metadata.endtime)
Lapsed(c) == Past(c.metadata.renew_till)
\* get_tgt found the TGT too old.
Forget ==
    /\ memory' = [memory EXCEPT !.tgt = None, !.services = {}]
    /\ disk' = File(memory')
    /\ outcome' = "stopped"
    /\ UNCHANGED <<asked, net>>

-----------------------------------------------------------------------------
(* Client: requests *)

Ready == asked = None /\ memory.client # None

\* What the command remembers until the answer comes.
LocalsType ==
    [what : {"as", "tgs", "renew", "ap"}, key : Key, server : Maybe(Name), nonce : Nat,
     stamp : [ctime : Nat, cusec : Nat], at : Nat, answered : BOOLEAN]
Locals(what, key, server) ==
    [what |-> what, key |-> key, server |-> server, nonce |-> now,
     stamp |-> Stamp(now), at |-> now, answered |-> FALSE]

\* None is nothing that may be absent.
ASSUME NoneAssumption ==
    /\ None \notin Nat /\ None \notin ErrorName
    /\ None # {"renew"} /\ None # "mismatch"
    /\ None \notin Name /\ None \notin Key
    /\ None \notin CredentialType /\ None \notin FileRecord /\ None \notin LocalsType

Authenticator(realm, key, usage, subkey) ==
    LET stamp == Stamp(now)
    IN  Cipher(EncodeAuthenticator(
            [client_principal |-> memory.client, realm |-> realm, ctime |-> stamp.ctime,
             cusec |-> stamp.cusec, subkey |-> subkey,
             seq_number |-> IF subkey = None THEN None ELSE now]), key, usage)

\* phase1_as_exchange, with a password that may be wrong.
SendAsReq(client, key) ==
    /\ asked = None
    /\ memory' = [memory EXCEPT !.client = client]
    /\ asked' = Locals("as", key, None)
    /\ net' = Serialize(
           [msg_type |-> "AS_REQ", client_principal |-> client, realm |-> client.realm,
            nonce |-> now, kdc_options |-> {"renewable"},
            preauth |-> Cipher(EncodePaEncTimestamp(Stamp(now)), key, 1),
            preauth_enctype |-> DEFAULT_ENCTYPE])
    /\ outcome' = None
    /\ UNCHANGED <<format, now, kvno, disk, issued>>

\* phase2_tgs_exchange, for a service of the client's realm.
SendTgsReq(service) ==
    /\ Ready /\ memory.tgt # None /\ service.realm = memory.client.realm
    /\ LET t == memory.tgt
           realm == memory.client.realm
       IN  IF Expired(t) THEN Forget
           ELSE /\ asked' = Locals("tgs", t.key, service)
                /\ net' = Serialize(
                       [msg_type |-> "TGS_REQ", realm |-> realm,
                        service_principal |-> service, tgt |-> t.ticket,
                        tgt_service_principal |-> TgsOf(realm),
                        tgt_enctype |-> t.metadata.ticket_enctype,
                        tgt_kvno |-> t.metadata.ticket_kvno,
                        authenticator |-> Authenticator(realm, t.key, 7, None),
                        authenticator_enctype |-> DEFAULT_ENCTYPE, nonce |-> now])
                /\ outcome' = None
                /\ UNCHANGED <<memory, disk>>
    /\ UNCHANGED <<format, now, kvno, issued>>

\* renew_tgt_exchange asks the home TGS, whoever's TGT it is, and leaves the name
\* of the key that encrypts it out.
SendRenewal ==
    /\ Ready /\ memory.tgt # None
    /\ LET t == memory.tgt
       IN  IF Lapsed(t) THEN Forget
           ELSE /\ asked' = Locals("renew", t.key, TGS_PRINCIPAL)
                /\ net' = Serialize(
                       [msg_type |-> "TGS_REQ", realm |-> Home,
                        service_principal |-> TGS_PRINCIPAL, tgt |-> t.ticket,
                        tgt_enctype |-> t.metadata.ticket_enctype,
                        tgt_kvno |-> t.metadata.ticket_kvno,
                        authenticator |-> Authenticator(Home, t.key, 7, None),
                        authenticator_enctype |-> DEFAULT_ENCTYPE, nonce |-> now,
                        kdc_options |-> {"renew"}])
                /\ outcome' = None
                /\ UNCHANGED <<memory, disk>>
    /\ UNCHANGED <<format, now, kvno, issued>>

\* phase3_ap_exchange: over HTTP, always in DER.
SendApReq(c) ==
    /\ Ready /\ c \in memory.services
    /\ IF Expired(c)
       THEN /\ memory' = [memory EXCEPT !.services = @ \ {c}]
            /\ disk' = File(memory')
            /\ outcome' = "stopped"
            /\ UNCHANGED <<asked, net>>
       ELSE /\ asked' = Locals("ap", c.key, c.server)
            /\ net' = EncodeMessage(
                   [msg_type |-> "AP_REQ", service_principal |-> c.server,
                    service_ticket |-> c.ticket,
                    ticket_enctype |-> c.metadata.ticket_enctype,
                    ticket_kvno |-> c.metadata.ticket_kvno,
                    authenticator |-> Authenticator(memory.client.realm, c.key, 11,
                                                    <<"subkey", now>>),
                    authenticator_enctype |-> DEFAULT_ENCTYPE], now)
            /\ outcome' = None
            /\ UNCHANGED <<memory, disk>>
    /\ UNCHANGED <<format, now, kvno, issued>>

-----------------------------------------------------------------------------
(* KDC *)

\* A ticket under the server's current key.
Sealed(part, server) ==
    Cipher(EncodeEncTicketPart(part), LongTermKey(server, kvno[server]), 2)

\* A ticket is the client's; the inner part of a reply says the same of it, names the
\* server and answers the nonce.
TicketPart(part, client, data) ==
    [flags |-> part.flags, key |-> part.key, realm |-> part.realm,
     authtime |-> part.authtime, starttime |-> part.starttime,
     endtime |-> part.endtime, renew_till |-> part.renew_till,
     client_principal |-> client, authorization_data |-> data]
ReplyPart(part, realm, nonce, server) ==
    [flags |-> part.flags, key |-> part.key, realm |-> realm,
     authtime |-> part.authtime, starttime |-> part.starttime,
     endtime |-> part.endtime, renew_till |-> part.renew_till,
     nonce |-> nonce, service_principal |-> server]

AsRep(m) ==
    LET tgs == TgsOf(m.realm)
        part == [flags |-> DEFAULT_TICKET_FLAGS, key |-> SessionKey(issued + 1),
                 realm |-> m.realm, authtime |-> now, starttime |-> now,
                 endtime |-> now + TICKET_LIFETIME * Fine,
                 renew_till |-> now + RENEWABLE_LIFETIME * Fine]
    IN  [msg_type |-> "AS_REP", realm |-> m.realm,
         client_principal |-> m.client_principal, server_principal |-> tgs,
         encrypted_data |->
             Cipher(EncodeEncKdcRepPart(ReplyPart(part, m.realm, m.nonce, tgs), 25),
                    PasswordKey(m.client_principal), 3),
         tgt |-> Sealed(TicketPart(part, m.client_principal, {GROUPS}), tgs),
         ticket_enctype |-> DEFAULT_ENCTYPE, ticket_kvno |-> kvno[tgs],
         tgt_enctype |-> DEFAULT_ENCTYPE, tgt_kvno |-> kvno[tgs],
         enc_part_enctype |-> m.preauth_enctype]
AsReply(m) ==
    IF Opens(m.preauth, PasswordKey(m.client_principal), 1)
    THEN AsRep(m) ELSE Error("KDC_ERR_PREAUTH_FAILED")

\* The reply's own realm is always REALM; its inner part names the one asked.
TgsRep(m, tgt, part, server, realm) ==
    [msg_type |-> "TGS_REP", realm |-> Home,
     client_principal |-> tgt.client_principal, service_principal |-> server,
     encrypted_data |->
         Cipher(EncodeEncKdcRepPart(ReplyPart(part, realm, m.nonce, server), 26),
                tgt.key, 9),
     service_ticket |->
         Sealed(TicketPart(part, tgt.client_principal, tgt.authorization_data), server),
     ticket_enctype |-> DEFAULT_ENCTYPE, ticket_kvno |-> kvno[server],
     service_ticket_enctype |-> DEFAULT_ENCTYPE, service_ticket_kvno |-> kvno[server],
     enc_part_enctype |-> DEFAULT_ENCTYPE]

Lesser(a, b) == IF a < b THEN a ELSE b
Renewed(m, tgt) ==
    TgsRep(m, tgt, [flags |-> tgt.flags, key |-> SessionKey(issued + 1), realm |-> Home,
                    authtime |-> tgt.authtime, starttime |-> now,
                    endtime |-> Lesser(now + TICKET_LIFETIME * Fine, tgt.renew_till),
                    renew_till |-> tgt.renew_till], TGS_PRINCIPAL, Home)
ServiceFlags(tgt) ==
    SERVICE_TICKET_FLAGS \cup (tgt.flags \cap {"forwardable", "renewable"})
Derived(m, tgt) ==
    TgsRep(m, tgt, [flags |-> ServiceFlags(tgt), key |-> SessionKey(issued + 1),
                    realm |-> tgt.realm, authtime |-> tgt.authtime, starttime |-> now,
                    endtime |-> Lesser(now + TICKET_LIFETIME * Fine, tgt.endtime),
                    renew_till |-> None], m.service_principal, m.realm)

\* The TGS whose key encrypts the TGT: the home one for a name it does not have.
NamedTgs(m) ==
    LET p == Or(Get(m, "tgt_service_principal"), TGS_PRINCIPAL)
    IN  IF p \in Principal THEN p ELSE TGS_PRINCIPAL
TgtOpens(m) ==
    LET key == KeyOf(NamedTgs(m), m.tgt_kvno)
    IN  key # None /\ Opens(m.tgt, key, 2)
IsRenewal(m) == "renew" \in Or(Get(m, "kdc_options"), {})
TooOld(m, tgt) ==
    IF IsRenewal(m) THEN "renewable" \notin tgt.flags \/ now > tgt.renew_till
                    ELSE now > tgt.endtime
Authentic(cipher, ticket, usage) ==
    /\ Opens(cipher, ticket.key, usage)
    /\ DecodeAuthenticator(cipher.der).client_principal = ticket.client_principal

TgsReply(m) ==
    LET tgt == DecodeEncTicketPart(m.tgt.der)
    IN  IF ~TgtOpens(m) THEN Error("KRB_AP_ERR_MODIFIED")
        ELSE IF tgt.realm # m.realm THEN Error("KDC_ERR_WRONG_REALM")
        ELSE IF TooOld(m, tgt) THEN Error("KRB_AP_ERR_TKT_EXPIRED")
        ELSE IF ~Authentic(m.authenticator, tgt, 7) THEN Error("KRB_AP_ERR_MODIFIED")
        ELSE IF IsRenewal(m) THEN Renewed(m, tgt)
        ELSE IF m.service_principal \in Principal THEN Derived(m, tgt)
        ELSE Error("KDC_ERR_S_PRINCIPAL_UNKNOWN")

InFlight(what) == asked # None /\ asked.what \in what /\ ~asked.answered

KdcReply ==
    /\ InFlight({"as", "tgs", "renew"}) /\ issued < MaxIssued
    /\ LET m == Deserialize(net)
           reply == IF m.msg_type = "AS_REQ" THEN AsReply(m) ELSE TgsReply(m)
       IN  /\ net' = Serialize(reply)
           /\ issued' = IF reply.msg_type = "KRB_ERROR" THEN issued ELSE issued + 1
    /\ asked' = [asked EXCEPT !.answered = TRUE]
    /\ UNCHANGED <<format, now, kvno, memory, disk, outcome>>

-----------------------------------------------------------------------------
(* Application server *)

ApRep(m, ticket) ==
    LET auth == DecodeAuthenticator(m.authenticator.der)
    IN  [msg_type |-> "AP_REP", service_principal |-> m.service_principal,
         encrypted_data |->
             Cipher(EncodeEncApRepPart(
                         [ctime |-> auth.ctime, cusec |-> auth.cusec,
                          subkey |-> <<"server", now>>, seq_number |-> now]),
                     Or(auth.subkey, ticket.key), 12),
         enctype |-> m.ticket_enctype]

\* load_keytab: the version the ticket names, or the newest.
ApReply ==
    /\ InFlight({"ap"})
    /\ LET m == DecodeMessage(net)
           key == KeyOf(m.service_principal, m.ticket_kvno)
           ticket == DecodeEncTicketPart(m.service_ticket.der)
           reply ==
               IF key = None \/ ~Opens(m.service_ticket, key, 2)
               THEN Error("KRB_AP_ERR_MODIFIED")
               ELSE IF now > ticket.endtime THEN Error("KRB_AP_ERR_TKT_EXPIRED")
               ELSE IF ~Authentic(m.authenticator, ticket, 11)
                    THEN Error("KRB_AP_ERR_MODIFIED")
               ELSE ApRep(m, ticket)
       IN  net' = EncodeMessage(reply, now)
    /\ asked' = [asked EXCEPT !.answered = TRUE]
    /\ UNCHANGED <<format, now, kvno, memory, disk, issued, outcome>>

-----------------------------------------------------------------------------
(* Client: answers *)

Ended(how) ==
    /\ asked' = None
    /\ net' = None
    /\ outcome' = how
    /\ UNCHANGED <<format, now, kvno, issued>>

\* The reply's inner part opens under the key the client has, and answers its nonce.
Answers(reply, usage) ==
    /\ Opens(reply.encrypted_data, asked.key, usage)
    /\ reply.encrypted_data.der.nonce = asked.nonce

Receive(what) == asked # None /\ asked.what = what /\ asked.answered

\* A failed login ends the command.
ReceiveError ==
    /\ asked # None /\ asked.answered
    /\ LET reply == IF asked.what = "ap" THEN DecodeMessage(net) ELSE Deserialize(net)
       IN  reply.msg_type = "KRB_ERROR" /\ Ended(reply.error_code)
    /\ memory' = IF asked.what = "as" THEN Loaded ELSE memory
    /\ UNCHANGED disk

ReceiveAsRep ==
    /\ Receive("as")
    /\ LET reply == Deserialize(net)
           part == DecodeEncKdcRepPart(reply.encrypted_data.der)
       IN  /\ reply.msg_type = "AS_REP" /\ Answers(reply, 3)
           /\ StoreTgt(Credential(part.service_principal, reply.tgt, part.key,
                  ResponseMetadata(reply, part, reply.tgt_enctype, reply.tgt_kvno,
                                   reply.server_principal)))
    /\ Ended("granted")

ReceiveTgsRep ==
    /\ Receive("tgs") \/ Receive("renew")
    /\ LET reply == Deserialize(net)
           part == DecodeEncKdcRepPart(reply.encrypted_data.der)
           c == Credential(part.service_principal, reply.service_ticket, part.key,
                    ResponseMetadata(reply, part, reply.service_ticket_enctype,
                                     reply.service_ticket_kvno, reply.service_principal))
       IN  /\ reply.msg_type = "TGS_REP" /\ Answers(reply, 9)
           /\ IF asked.what = "renew" THEN StoreTgt(c) ELSE StoreService(c)
    /\ Ended("granted")

\* Mutual authentication: the server's stamp is the client's own.
ReceiveApRep ==
    /\ Receive("ap")
    /\ LET reply == DecodeMessage(net)
           part == DecodeEncApRepPart(reply.encrypted_data.der)
       IN  /\ reply.msg_type = "AP_REP"
           /\ \E key \in {<<"subkey", asked.at>>, asked.key} :
                  Opens(reply.encrypted_data, key, 12)
           /\ Ended(IF part.ctime = asked.stamp.ctime /\ part.cusec = asked.stamp.cusec
                    THEN "verified" ELSE "mismatch")
    /\ UNCHANGED <<memory, disk>>

\* The command ends, and the next begins.
Reload ==
    /\ Ready
    /\ memory' = Loaded
    /\ outcome' = None
    /\ UNCHANGED <<format, now, kvno, disk, asked, net, issued>>

-----------------------------------------------------------------------------
Tick ==
    /\ now < MaxTime
    /\ now' = now + 1
    /\ UNCHANGED <<format, kvno, memory, disk, asked, net, issued, outcome>>

\* cpw, and ktadd for a service.
Rotate(p) ==
    /\ kvno[p] < MaxKvno
    /\ kvno' = [kvno EXCEPT ![p] = @ + 1]
    /\ UNCHANGED <<format, now, memory, disk, asked, net, issued, outcome>>

WireInit ==
    /\ format \in {"der", "json"}
    /\ now = 1
    /\ kvno = [p \in Principal |-> 1]
    /\ memory = Empty /\ disk = File(Empty)
    /\ asked = None /\ net = None /\ issued = 0 /\ outcome = None

WireNext ==
    \/ \E c \in Client : \E key \in {PasswordKey(c), <<"wrong", c>>} : SendAsReq(c, key)
    \/ \E s \in Service \cup Stranger : SendTgsReq(s)
    \/ SendRenewal
    \/ \E c \in memory.services : SendApReq(c)
    \/ KdcReply \/ ApReply
    \/ ReceiveError \/ ReceiveAsRep \/ ReceiveTgsRep \/ ReceiveApRep
    \/ Reload \/ Tick
    \/ \E p \in Rotating : Rotate(p)

-----------------------------------------------------------------------------
(* Properties *)

\* What travels in DER, with what is inside its ciphers.
Der ==
    KDCReqType(10, PADataType(2, EncryptedDataType(CipherOf(PaEncTimestampType))))
        \cup KDCReqType(12, PADataType(1, APReqType(SealedTicket, SealedAuthenticator)))
        \cup KDCRepType(11, SealedTicket, CipherOf(EncKDCRepPartType(25, Key)))
        \cup KDCRepType(13, SealedTicket, CipherOf(EncKDCRepPartType(26, Key)))
        \cup APReqType(SealedTicket, SealedAuthenticator)
        \cup APRepType(CipherOf(EncAPRepPartType(Key)))
        \cup KRBErrorType

\* Whatever a party sends in DER has every field its type demands; the client
\* remembers what it asked; what it keeps, and its file, lack no label.
TypeOK ==
    /\ format \in {"der", "json"} /\ now \in 1..MaxTime
    /\ kvno \in [Principal -> 1..MaxKvno] /\ issued \in 0..MaxIssued
    /\ memory \in [client : Maybe(Client), tgt : Maybe(CredentialType),
                  services : SUBSET CredentialType]
    /\ disk \in [tgt : Maybe(FileRecord), services : SUBSET FileRecord]
    /\ asked \in Maybe(LocalsType)
    /\ (net # None /\ "json" \notin DOMAIN net) => net \in Der

Held(m) == m.services \cup (IF m.tgt = None THEN {} ELSE {m.tgt})
\* In the command's cache, and in that of the command that would start now.
Credentials == Held(memory) \cup Held(Loaded)
Inside(c) == DecodeEncTicketPart(c.ticket.der)

\* The labels the client keeps of a ticket are the ticket's: after the reply's
\* encoding, a renewal, the file and any rotation of the keys, the server and the
\* key version it names still open it, and it is a ticket of the client for which
\* the cache's next command acts.
LabelsKept ==
    /\ \A c \in Credentials :
           LET server == IF c \in {memory.tgt, Loaded.tgt}
                         THEN TgsOf(Inside(c).client_principal.realm) ELSE c.server
               key == KeyOf(server, c.metadata.ticket_kvno)
           IN  key # None /\ Opens(c.ticket, key, 2)
    /\ \A c \in Held(Loaded) : Inside(c).client_principal = Loaded.client
    /\ (asked = None \/ asked.what # "as") =>
           \A c \in Held(memory) : Inside(c).client_principal = memory.client

\* The client and the servers agree to the second on when a ticket ends, also after
\* the file; and no ticket got more than its lifetime, but for the rounding to the
\* microsecond.
TimesKept ==
    \A c \in Credentials :
        LET t == Inside(c)
        IN  /\ c.metadata.endtime = t.endtime
            /\ Or(c.metadata.renew_till, 0) = Or(t.renew_till, 0)
            /\ 2 * Micro * t.endtime <= 2 * Micro * (now + TICKET_LIFETIME * Fine) + Fine

\* The moment a server reads in a request is the one the client meant, to half a
\* microsecond: also in a second's last, whose microseconds are a million.
StampKept ==
    (asked # None /\ ~asked.answered) =>
        LET m == IF asked.what = "ap" THEN DecodeMessage(net) ELSE Deserialize(net)
            t == IF m.msg_type = "AS_REQ"
                 THEN DecodePaEncTimestamp(m.preauth.der).timestamp
                 ELSE DecodeAuthenticator(m.authenticator.der).timestamp
        IN  /\ 2 * Micro * t <= 2 * Micro * asked.at + Fine
            /\ 2 * Micro * asked.at <= 2 * Micro * t + Fine

\* An error the client reads has its cause: a wrong password, a service nobody
\* knows, a ticket that is over by the client's own account, or a renewal of a TGT
\* that is not of the home realm.  Mutual authentication never fails.
RefusalsExplained ==
    /\ outcome # "mismatch"
    /\ (asked # None /\ asked.answered) =>
        LET m == IF asked.what = "ap" THEN DecodeMessage(net) ELSE Deserialize(net)
        IN  m.msg_type = "KRB_ERROR" =>
              CASE m.error_code = "KDC_ERR_PREAUTH_FAILED" ->
                       asked.key # PasswordKey(memory.client)
                [] m.error_code = "KDC_ERR_S_PRINCIPAL_UNKNOWN" -> asked.server \in Stranger
                [] m.error_code = "KRB_AP_ERR_MODIFIED" ->
                       asked.what = "renew" /\ memory.client.realm # Home
                [] m.error_code = "KRB_AP_ERR_TKT_EXPIRED" ->
                       CASE asked.what = "renew" -> Lapsed(memory.tgt)
                         [] asked.what = "tgs" -> Expired(memory.tgt)
                         [] asked.what = "ap" ->
                                \E c \in memory.services :
                                    c.server = asked.server /\ Expired(c)
                [] OTHER -> FALSE
=============================================================================
