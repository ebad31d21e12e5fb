---------------------------- MODULE CredentialCache ----------------------------
(***************************************************************************)
(* The client: its credential cache (client/credential_cache.py) and the   *)
(* commands that use it (client/kerberos_cli.py, client/client_app.py).    *)
(*                                                                         *)
(* Every command is a process of its own.  It loads the whole file when it *)
(* starts, works on its copy, and saves the whole copy: open(path, "wb")   *)
(* empties the file at once, the bytes come when the handle is closed.     *)
(* Another process may look, write or unlink in between.  The KDC and the  *)
(* application server appear as the answers a command waits for; a ticket  *)
(* is its client and its times.  A service is one of the client's realm.   *)
(***************************************************************************)
EXTENDS Naturals, FiniteSets

CONSTANTS Client, Service, Process,
          Tgs,                  \* the server of a TGT
          Nobody,               \* no client or service yet
          TicketLife, RenewLife,
          MaxTime               \* bound of the clock

ASSUME NameAssumption == Tgs \notin Service /\ Nobody \notin Client \cup Service
ASSUME LifeAssumption ==
    TicketLife \in Nat /\ RenewLife \in Nat /\ MaxTime \in Nat
\* 600 and 3600 seconds (core/messages.py): a TGT can be renewed while it lasts.
ASSUME RenewAssumption == TicketLife <= RenewLife

VARIABLES clock,
          file,     \* its credentials, and whether it fails to parse
          proc,     \* the state of each process
          orphans,  \* writers whose open file was unlinked
          mixed     \* a write landed on another's bytes (history)

vars == <<clock, file, proc, orphans, mixed>>

Time == 0..(MaxTime + TicketLife + RenewLife)
Tgt == [server : {Tgs}, client : Client, end : Time, till : Time]
Ticket == [server : Service, client : Client, end : Time]
Command == {"kinit", "klist", "kvno", "kaccess", "krenew", "kdestroy", "login"}
PC == {"begin", "prompt", "as", "service", "tgt", "tgs", "renew", "renewing",
       "ap", "present", "listing", "writing"}

Idle == [pc |-> "idle"]
Running == [pc : PC, command : Command, client : Client \cup {Nobody},
            service : Service \cup {Nobody}, cache : SUBSET (Tgt \cup Ticket),
            then : PC \cup {"idle"}]

Blank == [creds |-> {}, garbage |-> FALSE]
Lesser(m, n) == IF m < n THEN m ELSE n

Init ==
    /\ clock = 0
    /\ file = Blank
    /\ proc = [p \in Process |-> Idle]
    /\ orphans = {}
    /\ mixed = FALSE

-----------------------------------------------------------------------------
For(cache, server) == {c \in cache : c.server = server}
\* The mutant forgets a ticket in its last second.
ExpiredAtEnd(c) == clock >= c.end
Expired(c) == clock > c.end
Live(cache, server) == \E c \in For(cache, server) : ~Expired(c)
Stale(cache, server) == \E c \in For(cache, server) : Expired(c)

\* store_service_ticket replaces the ticket of one server.  The mutant adds.
PutBeside(cache, ticket) == cache \cup {ticket}
Put(cache, ticket) == (cache \ For(cache, ticket.server)) \cup {ticket}

\* store_tgt drops the service tickets.  The mutant keeps them.
GrantedBeside(cache, tgt) == Put(cache, tgt)
Granted(cache, tgt) == {tgt}

\* The bytes of content over those of old: where old is longer, its tail stays.
\* It parses if it starts where a credential does; the TGT comes first.
Overlays(content, old) ==
    {[creds |-> {c \in content : For(tail, c.server) = {}} \cup tail,
      garbage |-> FALSE] :
          tail \in {t \in SUBSET old :
                        /\ Cardinality(t) + Cardinality(content) = Cardinality(old)
                        /\ For(t, Tgs) = {} \/ content = {}}}
        \cup {[creds |-> {}, garbage |-> TRUE]}

Written(content) ==
    {[creds |-> content, garbage |-> FALSE]}
        \cup (IF file.garbage THEN {[creds |-> {}, garbage |-> TRUE]}
              ELSE IF Cardinality(file.creds) < Cardinality(content) THEN {}
              ELSE Overlays(content, file.creds))

-----------------------------------------------------------------------------
Goto(p, pc) ==
    /\ proc' = [proc EXCEPT ![p].pc = pc]
    /\ UNCHANGED <<clock, file, orphans, mixed>>

\* _save up to open(path, "wb"): u is the process, with its new cache.
Save(p, u, cache, then) ==
    /\ proc' = [proc EXCEPT ![p] =
           [u EXCEPT !.cache = cache, !.pc = "writing", !.then = then]]
    /\ file' = Blank
    /\ UNCHANGED <<clock, mixed>>

\* clear: where an open file can be unlinked, its writers lose it.
Clear(p, u, then) ==
    /\ Save(p, u, {}, then)
    /\ \/ orphans' = orphans \cup {q \in Process : proc[q].pc = "writing"}
       \/ UNCHANGED orphans

\* The end of _save: the handle is flushed and closed.
Write(p) ==
    LET u == proc[p]
    IN  /\ u.pc = "writing"
        /\ IF p \in orphans THEN UNCHANGED <<file, mixed>>
           ELSE \E new \in Written(u.cache) :
                    /\ file' = new
                    /\ mixed' = (mixed \/ (~new.garbage /\ new.creds # u.cache))
        /\ orphans' = orphans \ {p}
        /\ proc' = [proc EXCEPT ![p] =
               IF u.then = "idle" THEN Idle ELSE [u EXCEPT !.pc = u.then]]
        /\ UNCHANGED clock

\* A process starts: _load, and clear if that fails.
Begin(p, command, client, service) ==
    LET u == [pc |-> "begin", command |-> command, client |-> client,
              service |-> service, cache |-> file.creds, then |-> "idle"]
    IN  /\ proc[p] = Idle
        /\ IF file.garbage THEN Clear(p, u, "begin")
           ELSE /\ proc' = [proc EXCEPT ![p] = u]
                /\ UNCHANGED <<clock, file, orphans, mixed>>

\* It ends: nothing more to do, nothing in the cache, an error or no answer
\* from the KDC or the server, or it is killed.
End(p) ==
    /\ proc[p] # Idle
    /\ proc' = [proc EXCEPT ![p] = Idle]
    /\ orphans' = orphans \ {p}
    /\ UNCHANGED <<clock, file, mixed>>

At(p, pc) == proc[p].pc = pc

\* cmd_kinit, and main once it has a password: the AS_REQ is sent.
SendAsReq(p) ==
    /\ \/ At(p, "begin") /\ proc[p].command = "kinit"
       \/ At(p, "prompt")
    /\ Goto(p, "as")

AsReply(p) ==
    LET u == proc[p]
        tgt == [server |-> Tgs, client |-> u.client,
                end |-> clock + TicketLife, till |-> clock + RenewLife]
    IN  /\ At(p, "as")
        /\ Save(p, u, Granted(u.cache, tgt),
                IF u.command = "login" THEN "service" ELSE "idle")
        /\ UNCHANGED orphans

\* cmd_kdestroy.
Destroy(p) ==
    /\ At(p, "begin") /\ proc[p].command = "kdestroy"
    /\ Clear(p, proc[p], "idle")

\* get_tgt at the start of every other command: an expired TGT clears the cache.
DropTgt(p) ==
    LET u == proc[p]
    IN  /\ At(p, "begin") /\ u.command \notin {"kinit", "kdestroy"}
        /\ Stale(u.cache, Tgs)
        /\ Clear(p, u, IF u.command = "login" THEN "prompt" ELSE "idle")

\* cmd_klist: get_tgt, then list_service_tickets drops what has expired.
List(p) ==
    /\ At(p, "begin") /\ proc[p].command = "klist" /\ ~Stale(proc[p].cache, Tgs)
    /\ Goto(p, "listing")

ListDrop(p) ==
    LET u == proc[p]
    IN  /\ At(p, "listing")
        /\ \E c \in u.cache :
               /\ c.server # Tgs /\ Expired(c)
               /\ Save(p, u, u.cache \ {c}, "listing")
        /\ UNCHANGED orphans

\* main up to the prompt for a password: a live TGT or none.
Prompt(p) ==
    /\ At(p, "begin") /\ proc[p].command = "login" /\ ~Stale(proc[p].cache, Tgs)
    /\ Goto(p, "prompt")

\* No password: the TGT found must be the user's.  The mutant does not ask.
OwnsAny(u) == For(u.cache, Tgs) # {}
Owns(u) == \E tgt \in For(u.cache, Tgs) : tgt.client = u.client
Reuse(p) ==
    /\ At(p, "prompt")
    /\ Owns(proc[p])
    /\ Goto(p, "service")

\* _require_cached_client: the command acts for the client of the cached TGT.
Require(p) ==
    LET u == proc[p]
    IN  /\ At(p, "begin") /\ u.command \in {"kvno", "kaccess", "krenew"}
        /\ Live(u.cache, Tgs)
        /\ \E tgt \in For(u.cache, Tgs) :
               proc' = [proc EXCEPT ![p] = [u EXCEPT
                   !.client = tgt.client,
                   !.pc = CASE u.command = "kvno" -> "tgt"
                            [] u.command = "kaccess" -> "service"
                            [] u.command = "krenew" -> "renew"]]
        /\ UNCHANGED <<clock, file, orphans, mixed>>

\* has_service_ticket.
HasTicket(p) ==
    LET u == proc[p]
    IN  /\ At(p, "service")
        /\ \/ Live(u.cache, u.service) /\ Goto(p, "ap")
           \/ For(u.cache, u.service) = {} /\ Goto(p, "tgt")
           \/ /\ Stale(u.cache, u.service)
              /\ Save(p, u, u.cache \ For(u.cache, u.service), "tgt")
              /\ UNCHANGED orphans

\* phase2_tgs_exchange: get_tgt, TGS_REQ, and the ticket from the reply.
SendTgsReq(p) ==
    LET u == proc[p]
    IN  /\ At(p, "tgt")
        /\ \/ Live(u.cache, Tgs) /\ Goto(p, "tgs")
           \/ Stale(u.cache, Tgs) /\ Clear(p, u, "idle")

TgsReply(p) ==
    LET u == proc[p]
    IN  /\ At(p, "tgs")
        /\ \E tgt \in For(u.cache, Tgs) :
               /\ clock <= tgt.end
               /\ Save(p, u,
                       Put(u.cache, [server |-> u.service, client |-> tgt.client,
                                     end |-> Lesser(clock + TicketLife, tgt.end)]),
                       IF u.command = "kvno" THEN "idle" ELSE "ap")
        /\ UNCHANGED orphans

\* renew_tgt_exchange: get_tgt(allow_expired=True), TGS_REQ, the renewed TGT.
SendRenewal(p) ==
    LET u == proc[p]
    IN  /\ At(p, "renew")
        /\ \E tgt \in For(u.cache, Tgs) :
               \/ clock <= tgt.till /\ Goto(p, "renewing")
               \/ clock > tgt.till /\ Clear(p, u, "idle")

RenewReply(p) ==
    LET u == proc[p]
    IN  /\ At(p, "renewing")
        /\ \E tgt \in For(u.cache, Tgs) :
               /\ clock <= tgt.till
               /\ Save(p, u,
                       Granted(u.cache, [tgt EXCEPT !.end =
                                   Lesser(clock + TicketLife, tgt.till)]), "idle")
        /\ UNCHANGED orphans

\* phase3_ap_exchange: get_service_ticket; then the AP_REQ is on its way.
SendApReq(p) ==
    LET u == proc[p]
    IN  /\ At(p, "ap")
        /\ \/ Live(u.cache, u.service) /\ Goto(p, "present")
           \/ /\ Stale(u.cache, u.service)
              /\ Save(p, u, u.cache \ For(u.cache, u.service), "idle")
              /\ UNCHANGED orphans

Tick ==
    /\ clock < MaxTime
    /\ clock' = clock + 1
    /\ UNCHANGED <<file, proc, orphans, mixed>>

Next ==
    \/ \E p \in Process :
           \/ \E c \in Client : Begin(p, "kinit", c, Nobody)
           \/ \E c \in Client, s \in Service : Begin(p, "login", c, s)
           \/ \E command \in {"kvno", "kaccess"}, s \in Service :
                  Begin(p, command, Nobody, s)
           \/ \E command \in {"klist", "krenew", "kdestroy"} :
                  Begin(p, command, Nobody, Nobody)
           \/ SendAsReq(p) \/ AsReply(p) \/ Destroy(p) \/ DropTgt(p)
           \/ List(p) \/ ListDrop(p) \/ Prompt(p) \/ Reuse(p) \/ Require(p)
           \/ HasTicket(p) \/ SendTgsReq(p) \/ TgsReply(p)
           \/ SendRenewal(p) \/ RenewReply(p) \/ SendApReq(p)
           \/ Write(p) \/ End(p)
    \/ Tick

Spec == Init /\ [][Next]_vars

-----------------------------------------------------------------------------
OnePerServer(creds) == \A c, d \in creds : c.server = d.server => c = d

\* Every variable keeps its type, and no cache has two tickets of one server.
TypeOK ==
    /\ clock \in 0..MaxTime
    /\ file.creds \subseteq Tgt \cup Ticket /\ OnePerServer(file.creds)
    /\ file.garbage \in BOOLEAN
    /\ proc \in [Process -> {Idle} \cup Running]
    /\ \A p \in Process : proc[p] # Idle => OnePerServer(proc[p].cache)
    /\ orphans \subseteq Process
    /\ mixed \in BOOLEAN

\* A cache is one login's: its tickets are of one client, and stand beside a
\* TGT that ends no earlier.
Coherent(creds) ==
    /\ \A c, d \in creds : c.client = d.client
    /\ \A c \in creds : \E tgt \in For(creds, Tgs) : c.end <= tgt.end

\* However processes interleave, the file and every copy of it are one login's,
\* unless one process wrote over the bytes of another.
CoherentCache ==
    \/ mixed
    \/ /\ Coherent(file.creds)
       /\ \A p \in Process : proc[p] # Idle => Coherent(proc[p].cache)

\* With the same exception, an authenticator names the client of the ticket it
\* is sent with: the KDC or the server would refuse any other.
AuthenticatorMatches ==
    \/ mixed
    \/ \A p \in Process :
           LET server == IF At(p, "present") THEN proc[p].service ELSE Tgs
           IN  proc[p].pc \in {"tgs", "renewing", "present"} =>
                   \A c \in For(proc[p].cache, server) : c.client = proc[p].client

\* A running command forgets a TGT that is still good only if it is kdestroy.
LiveTgtKept ==
    [][\A p \in Process :
           /\ proc[p] # Idle /\ proc'[p] # Idle
           /\ \E tgt \in For(proc[p].cache, Tgs) : clock <= tgt.end
           /\ For(proc'[p].cache, Tgs) = {}
           => proc[p].command = "kdestroy"]_vars

\* "krenew: renew the TGT of the cache if it is still within renew_till"
\* (README): krenew does not drop such a TGT.
RenewKeepsRenewable ==
    [][\A p \in Process :
           /\ proc[p] # Idle /\ proc[p].command = "krenew" /\ proc'[p] # Idle
           /\ \E tgt \in For(proc[p].cache, Tgs) : clock <= tgt.till
           => For(proc'[p].cache, Tgs) # {}]_vars
=============================================================================
