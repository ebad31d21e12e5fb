-------------------------------- MODULE Codec --------------------------------
(***************************************************************************)
(* core/asn1_codec.py: what the wire makes of the program's messages.  A   *)
(* message is a record, of the fields of the Python dictionary; its DER is *)
(* a record too, of the fields of the ASN.1 type, in which an optional     *)
(* field may be None.  Bytes are left out: what counts is which field goes *)
(* where, and what does not come back.                                     *)
(*                                                                         *)
(* A name is [parts, realm].  A time is a number of ticks, Fine to the     *)
(* second: finer than the microsecond, as Python's float is.  Micro is the *)
(* number of microseconds in a second.                                     *)
(***************************************************************************)
EXTENDS Naturals, Sequences, FiniteSets

CONSTANTS None,         \* Python's None, an absent field
          Home,         \* REALM
          Fine, Micro

ASSUME TimeAssumption ==
    Fine \in Nat \ {0} /\ Micro \in Nat \ {0} /\ Fine % Micro = 0

\* The second is true by the definition of STRING; the provers do not know it.
ASSUME StringAssumption == Home \in STRING /\ "krbtgt" \in STRING

TgsOf(realm) == [parts |-> <<"krbtgt", realm>>, realm |-> realm]
TGS_PRINCIPAL == TgsOf(Home)
DEFAULT_ENCTYPE == 18

\* message.get(field) and `a or b`.
Get(message, field) == IF field \in DOMAIN message THEN message[field] ELSE None
Or(a, b) == IF a = None THEN b ELSE a

-----------------------------------------------------------------------------
(* Times *)

\* Python's round: a tie goes to the even neighbour.
Rounded(n, d) ==
    LET q == n \div d
        r == n % d
    IN  IF 2 * r < d \/ (2 * r = d /\ q % 2 = 0) THEN q ELSE q + 1

\* GeneralizedTime has whole seconds: fromtimestamp rounds to the microsecond,
\* strftime drops the rest.
\* The mutant takes a float for text.
KrbTimeInt(t) == IF t = None \/ t % Fine # 0 THEN None ELSE t \div Fine
KrbTime(t) == IF t = None THEN None ELSE Rounded(t * Micro, Fine) \div Micro
FromKrbTime(s) == IF s = None THEN None ELSE s * Fine

\* current_kerberos_time: cusec is a whole second in the last half microsecond of
\* one.  The mutant wraps it.
StampWrapped(t) ==
    [ctime |-> t - (t % Fine), cusec |-> Rounded((t % Fine) * Micro, Fine) % Micro]
Stamp(t) ==
    [ctime |-> t - (t % Fine), cusec |-> Rounded((t % Fine) * Micro, Fine)]
\* The decoders' "timestamp".
Moment(ctime, cusec) == ctime + cusec * (Fine \div Micro)

-----------------------------------------------------------------------------
(* Names, flags, errors *)

PrincipalName(p) ==
    [type |-> IF Len(p.parts) > 1 THEN 2 ELSE 1, strings |-> p.parts]
PrincipalToString(n, realm) == [parts |-> n.strings, realm |-> realm]

\* Two tables, one a direction; a flag without a bit is dropped, and a bit without
\* a flag.
FlagBit ==
    [forwardable |-> 1, forwarded |-> 2, proxiable |-> 3, proxy |-> 4,
     may_postdate |-> 5, postdated |-> 6, invalid |-> 7, renewable |-> 8,
     initial |-> 9, pre_authent |-> 10, hw_authent |-> 11,
     transited_policy_checked |-> 12, ok_as_delegate |-> 13, anonymous |-> 14,
     renew |-> 21]
BitFlag ==
    [b \in 1..14 |->
        <<"forwardable", "forwarded", "proxiable", "proxy", "may_postdate",
          "postdated", "invalid", "renewable", "initial", "pre_authent",
          "hw_authent", "transited_policy_checked", "ok_as_delegate",
          "anonymous">>[b]]
FlagsToBitString(flags) == {FlagBit[f] : f \in flags \cap DOMAIN FlagBit}
\* The mutant's table ends before the gap.
BitStringToFlagsFewer(bits) == {BitFlag[b] : b \in bits \cap 1..14}
BitStringToFlags(bits) ==
    {BitFlag[b] : b \in bits \cap 1..14} \cup (IF 21 \in bits THEN {"renew"} ELSE {})

ErrorToCode ==
    [KDC_ERR_C_PRINCIPAL_UNKNOWN |-> 6, KDC_ERR_S_PRINCIPAL_UNKNOWN |-> 7,
     KDC_ERR_CLIENT_REVOKED |-> 18, KDC_ERR_PREAUTH_FAILED |-> 24,
     KRB_AP_ERR_TKT_EXPIRED |-> 32, KRB_AP_ERR_TKT_NYV |-> 33,
     KRB_AP_ERR_REPEAT |-> 34, KRB_AP_ERR_SKEW |-> 37, KRB_AP_ERR_MODIFIED |-> 41,
     KRB_ERR_GENERIC |-> 60, KDC_ERR_WRONG_REALM |-> 68]
CodeOf(error) ==
    ErrorToCode[IF error \in DOMAIN ErrorToCode THEN error ELSE "KRB_ERR_GENERIC"]
ErrorOf(code) == CHOOSE e \in DOMAIN ErrorToCode : ErrorToCode[e] = code

-----------------------------------------------------------------------------
(* Parts of messages *)

\* The mutant keeps a key version that is not the first.
EncryptedDataFirst(cipher, etype, kvno) ==
    [etype |-> etype, kvno |-> IF kvno = 1 THEN None ELSE kvno, cipher |-> cipher]
EncryptedData(cipher, etype, kvno) == [etype |-> etype, kvno |-> kvno, cipher |-> cipher]

Ticket(cipher, server, etype, kvno) ==
    [realm |-> server.realm, sname |-> PrincipalName(server),
     enc_part |-> EncryptedData(cipher, etype, kvno)]
TicketPrincipal(ticket) == PrincipalToString(ticket.sname, ticket.realm)

ApReq(ticket, server, etype, kvno, authenticator, authEtype) ==
    [tag |-> 14, ticket |-> Ticket(ticket, server, etype, kvno),
     authenticator |-> EncryptedData(authenticator, authEtype, None)]

ReqBody(realm, nonce, cname, sname, options) ==
    [options |-> FlagsToBitString(options), realm |-> realm, nonce |-> nonce,
     cname |-> IF cname = None THEN None ELSE PrincipalName(cname),
     sname |-> PrincipalName(sname)]

-----------------------------------------------------------------------------
(* encode_message, decode_message *)

BuildAsReq(m) ==
    [tag |-> 10,
     padata |-> [type |-> 2, value |-> EncryptedData(m.preauth, m.preauth_enctype, None)],
     body |-> ReqBody(m.realm, m.nonce, m.client_principal, TGS_PRINCIPAL, m.kdc_options)]
ParseAsReq(d) ==
    [msg_type |-> "AS_REQ",
     client_principal |-> PrincipalToString(d.body.cname, d.body.realm),
     realm |-> d.body.realm, nonce |-> d.body.nonce,
     preauth |-> d.padata.value.cipher, preauth_enctype |-> d.padata.value.etype,
     kdc_options |-> BitStringToFlags(d.body.options)]

BuildTgsReq(m) ==
    [tag |-> 12,
     padata |-> [type |-> 1,
                 value |-> ApReq(m.tgt, Or(Get(m, "tgt_service_principal"), TGS_PRINCIPAL),
                                 m.tgt_enctype, m.tgt_kvno,
                                 m.authenticator, m.authenticator_enctype)],
     body |-> ReqBody(m.realm, m.nonce, None, m.service_principal,
                      Or(Get(m, "kdc_options"), {}))]
ParseTgsReq(d) ==
    LET ap == d.padata.value
    IN  [msg_type |-> "TGS_REQ", realm |-> d.body.realm, nonce |-> d.body.nonce,
         service_principal |-> PrincipalToString(d.body.sname, d.body.realm),
         tgt |-> ap.ticket.enc_part.cipher,
         tgt_service_principal |-> TicketPrincipal(ap.ticket),
         tgt_enctype |-> ap.ticket.enc_part.etype,
         tgt_kvno |-> ap.ticket.enc_part.kvno,
         authenticator |-> ap.authenticator.cipher,
         authenticator_enctype |-> ap.authenticator.etype,
         kdc_options |-> BitStringToFlags(d.body.options)]

BuildKdcRep(m, tag) ==
    [tag |-> tag, crealm |-> m.realm, cname |-> PrincipalName(m.client_principal),
     ticket |-> Ticket(Or(Get(m, "service_ticket"), Get(m, "tgt")),
                       Or(Get(m, "service_principal"), Get(m, "server_principal")),
                       m.ticket_enctype,
                       Or(m.ticket_kvno, Or(Get(m, "tgt_kvno"),
                                            Get(m, "service_ticket_kvno")))),
     enc_part |-> EncryptedData(m.encrypted_data, m.enc_part_enctype, None)]
ParseKdcRep(d) ==
    LET common ==
            [realm |-> d.crealm,
             client_principal |-> PrincipalToString(d.cname, d.crealm),
             encrypted_data |-> d.enc_part.cipher, enc_part_enctype |-> d.enc_part.etype]
        part == d.ticket.enc_part
        server == TicketPrincipal(d.ticket)
    IN  IF d.tag = 11
        THEN [msg_type |-> "AS_REP", realm |-> common.realm,
              client_principal |-> common.client_principal,
              encrypted_data |-> common.encrypted_data,
              enc_part_enctype |-> common.enc_part_enctype,
              tgt |-> part.cipher, tgt_enctype |-> part.etype,
              tgt_kvno |-> part.kvno, server_principal |-> server]
        ELSE [msg_type |-> "TGS_REP", realm |-> common.realm,
              client_principal |-> common.client_principal,
              encrypted_data |-> common.encrypted_data,
              enc_part_enctype |-> common.enc_part_enctype,
              service_ticket |-> part.cipher, service_ticket_enctype |-> part.etype,
              service_ticket_kvno |-> part.kvno, service_principal |-> server]

BuildApReq(m) ==
    ApReq(m.service_ticket, m.service_principal, m.ticket_enctype, m.ticket_kvno,
          m.authenticator, m.authenticator_enctype)
ParseApReq(d) ==
    LET part == d.ticket.enc_part
    IN  [msg_type |-> "AP_REQ", service_principal |-> TicketPrincipal(d.ticket),
         service_ticket |-> part.cipher, ticket_enctype |-> part.etype,
         ticket_kvno |-> part.kvno, authenticator |-> d.authenticator.cipher,
         authenticator_enctype |-> d.authenticator.etype]

BuildApRep(m) ==
    [tag |-> 15, enc_part |-> EncryptedData(m.encrypted_data, m.enctype, None)]
ParseApRep(d) ==
    [msg_type |-> "AP_REP", encrypted_data |-> d.enc_part.cipher,
     enctype |-> d.enc_part.etype]

\* The code's own name of an error travels as e-data; a client would read that of
\* its number.
BuildKrbError(m, now) ==
    [tag |-> 30, stime |-> KrbTime(now), error_code |-> CodeOf(m.error_code),
     realm |-> Home, sname |-> PrincipalName(TGS_PRINCIPAL), e_data |-> m.error_code]
ParseKrbError(d) ==
    [msg_type |-> "KRB_ERROR", numeric_error_code |-> d.error_code,
     error_code |-> Or(d.e_data, ErrorOf(d.error_code))]

\* The encoder goes by msg_type, the decoder by the application tag.
EncodeMessage(m, now) ==
    CASE m.msg_type = "AS_REQ" -> BuildAsReq(m)
      [] m.msg_type = "TGS_REQ" -> BuildTgsReq(m)
      [] m.msg_type = "AS_REP" -> BuildKdcRep(m, 11)
      [] m.msg_type = "TGS_REP" -> BuildKdcRep(m, 13)
      [] m.msg_type = "AP_REQ" -> BuildApReq(m)
      [] m.msg_type = "AP_REP" -> BuildApRep(m)
      [] m.msg_type = "KRB_ERROR" -> BuildKrbError(m, now)
DecodeMessage(d) ==
    CASE d.tag = 10 -> ParseAsReq(d)
      [] d.tag = 12 -> ParseTgsReq(d)
      [] d.tag \in {11, 13} -> ParseKdcRep(d)
      [] d.tag = 14 -> ParseApReq(d)
      [] d.tag = 15 -> ParseApRep(d)
      [] d.tag = 30 -> ParseKrbError(d)

-----------------------------------------------------------------------------
(* What is encrypted *)

\* An optional time is left out when it is falsy.
OptionalTime(t) == IF t \in {None, 0} THEN None ELSE KrbTime(t)

EncodeEncTicketPart(p) ==
    [tag |-> 3, flags |-> FlagsToBitString(p.flags), key |-> p.key,
     crealm |-> p.realm, cname |-> PrincipalName(p.client_principal),
     authtime |-> KrbTime(p.authtime), starttime |-> OptionalTime(p.starttime),
     endtime |-> KrbTime(p.endtime), renew_till |-> OptionalTime(p.renew_till),
     authorization_data |-> p.authorization_data]
DecodeEncTicketPart(d) ==
    [flags |-> BitStringToFlags(d.flags), key |-> d.key, realm |-> d.crealm,
     client_principal |-> PrincipalToString(d.cname, d.crealm),
     authtime |-> FromKrbTime(d.authtime), starttime |-> FromKrbTime(d.starttime),
     endtime |-> FromKrbTime(d.endtime), renew_till |-> FromKrbTime(d.renew_till),
     authorization_data |-> d.authorization_data]

EncodeEncKdcRepPart(p, tag) ==
    [tag |-> tag, key |-> p.key, last_req |-> KrbTime(p.authtime), nonce |-> p.nonce,
     flags |-> FlagsToBitString(p.flags), authtime |-> KrbTime(p.authtime),
     starttime |-> OptionalTime(p.starttime), endtime |-> KrbTime(p.endtime),
     renew_till |-> OptionalTime(p.renew_till), srealm |-> p.realm,
     sname |-> PrincipalName(p.service_principal)]
DecodeEncKdcRepPart(d) ==
    [key |-> d.key, nonce |-> d.nonce, flags |-> BitStringToFlags(d.flags),
     authtime |-> FromKrbTime(d.authtime), starttime |-> FromKrbTime(d.starttime),
     endtime |-> FromKrbTime(d.endtime), renew_till |-> FromKrbTime(d.renew_till),
     realm |-> d.srealm, service_principal |-> PrincipalToString(d.sname, d.srealm)]

EncodeAuthenticator(p) ==
    [tag |-> 2, crealm |-> p.realm, cname |-> PrincipalName(p.client_principal),
     cusec |-> p.cusec, ctime |-> KrbTime(p.ctime), subkey |-> Get(p, "subkey"),
     seq_number |-> Get(p, "seq_number")]
DecodeAuthenticator(d) ==
    [realm |-> d.crealm, client_principal |-> PrincipalToString(d.cname, d.crealm),
     ctime |-> FromKrbTime(d.ctime), cusec |-> d.cusec,
     timestamp |-> Moment(FromKrbTime(d.ctime), d.cusec),
     subkey |-> d.subkey, seq_number |-> d.seq_number]

EncodeEncApRepPart(p) ==
    [tag |-> 27, ctime |-> KrbTime(p.ctime), cusec |-> p.cusec,
     subkey |-> p.subkey, seq_number |-> p.seq_number]
DecodeEncApRepPart(d) ==
    [ctime |-> FromKrbTime(d.ctime), cusec |-> d.cusec,
     timestamp |-> Moment(FromKrbTime(d.ctime), d.cusec),
     subkey |-> d.subkey, seq_number |-> d.seq_number]

EncodePaEncTimestamp(p) == [patimestamp |-> KrbTime(p.ctime), pausec |-> p.cusec]
DecodePaEncTimestamp(d) ==
    [ctime |-> FromKrbTime(d.patimestamp), cusec |-> Or(d.pausec, 0),
     timestamp |-> Moment(FromKrbTime(d.patimestamp), Or(d.pausec, 0))]

-----------------------------------------------------------------------------
(* The ASN.1 types: the fields of each, and which may be absent.  What a cipher *)
(* may hold, C, and what a key is, K, are for the module that uses them to say. *)

Maybe(S) == S \cup {None}
Name == [parts : Seq(STRING) \ {<<>>}, realm : STRING]

KerberosTime == Nat
KerberosFlags == SUBSET (0..31)
Flag == DOMAIN FlagBit
ErrorName == DOMAIN ErrorToCode
PrincipalNameType == [type : {1, 2}, strings : Seq(STRING) \ {<<>>}]
EncryptedDataType(C) == [etype : Nat, kvno : Maybe(Nat), cipher : C]
TicketType(C) ==
    [realm : STRING, sname : PrincipalNameType, enc_part : EncryptedDataType(C)]
PADataType(type, V) == [type : {type}, value : V]
KDCReqBodyType ==
    [options : KerberosFlags, realm : STRING, nonce : Nat,
     cname : Maybe(PrincipalNameType), sname : Maybe(PrincipalNameType)]
KDCReqType(tag, padata) == [tag : {tag}, padata : padata, body : KDCReqBodyType]
APReqType(C, A) ==
    [tag : {14}, ticket : TicketType(C), authenticator : EncryptedDataType(A)]
KDCRepType(tag, C, P) ==
    [tag : {tag}, crealm : STRING, cname : PrincipalNameType, ticket : TicketType(C),
     enc_part : EncryptedDataType(P)]
APRepType(C) == [tag : {15}, enc_part : EncryptedDataType(C)]
KRBErrorType ==
    [tag : {30}, stime : KerberosTime, error_code : Nat, realm : STRING,
     sname : PrincipalNameType, e_data : ErrorName]
EncTicketPartType(K) ==
    [tag : {3}, flags : KerberosFlags, key : K, crealm : STRING,
     cname : PrincipalNameType, authtime : KerberosTime,
     starttime : Maybe(KerberosTime), endtime : KerberosTime,
     renew_till : Maybe(KerberosTime), authorization_data : SUBSET Nat]
EncKDCRepPartType(tag, K) ==
    [tag : {tag}, key : K, last_req : KerberosTime, nonce : Nat, flags : KerberosFlags,
     authtime : KerberosTime, starttime : Maybe(KerberosTime), endtime : KerberosTime,
     renew_till : Maybe(KerberosTime), srealm : STRING, sname : PrincipalNameType]
AuthenticatorType(K) ==
    [tag : {2}, crealm : STRING, cname : PrincipalNameType, cusec : Nat,
     ctime : KerberosTime, subkey : Maybe(K), seq_number : Maybe(Nat)]
EncAPRepPartType(K) ==
    [tag : {27}, ctime : KerberosTime, cusec : Nat, subkey : Maybe(K),
     seq_number : Maybe(Nat)]
PaEncTimestampType == [patimestamp : KerberosTime, pausec : Maybe(Nat)]
=============================================================================
