------------------------- MODULE CredentialCacheProofs -------------------------
(***************************************************************************)
(* Proofs about CredentialCache for any number of processes, clients and   *)
(* services and any lifetimes.                                             *)
(*                                                                         *)
(* The argument: a command knows for which client and service it acts      *)
(* before it asks for anything (Stage), and from the moment it relies on   *)
(* its cache all the tickets there are that client's (Own); it saves what  *)
(* stays one login's, and what the file then holds is that, unless the     *)
(* bytes of two processes mixed.  No TGT there is outlasts its renewal     *)
(* (Renewals), so that what can no longer be renewed is no longer good.    *)
(***************************************************************************)
EXTENDS CredentialCache, TLAPS

\* What a process is about, also while it saves its cache.
Act(u) == IF u.pc = "writing" THEN u.then ELSE u.pc

Asking == {"service", "tgt", "tgs", "ap", "present"}
Relying == Asking \cup {"renew", "renewing"}

\* A command is at its own stages, with the names that it needs for them.
StageAt(u, a) ==
    /\ u.command \in {"kinit", "login"} => u.client \in Client
    /\ u.command \in {"kvno", "kaccess", "login"} => u.service \in Service
    /\ a = "as" => u.command \in {"kinit", "login"}
    /\ a = "prompt" => u.command = "login"
    /\ a \in Asking => u.command \in {"kvno", "kaccess", "login"}
Stage(u) == u.then # "writing" /\ StageAt(u, Act(u))

\* The tickets of a cache it relies on are those of its client.
OwnAt(u, a, cache) == a \in Relying => \A c \in cache : c.client = u.client
Own(u) == OwnAt(u, Act(u), u.cache)

GoodProcess(u, mix) ==
    u # Idle => /\ u \in Running /\ OnePerServer(u.cache) /\ Stage(u)
                /\ mix \/ (Coherent(u.cache) /\ Own(u))

GoodFile(f, mix) ==
    /\ f.creds \subseteq Tgt \cup Ticket /\ OnePerServer(f.creds)
    /\ f.garbage \in BOOLEAN
    /\ mix \/ Coherent(f.creds)

\* The inductive invariant.
IInv ==
    /\ clock \in 0..MaxTime
    /\ GoodFile(file, mixed)
    /\ proc = [p \in Process |-> proc[p]]
    /\ \A p \in Process : GoodProcess(proc[p], mixed)
    /\ orphans \subseteq Process
    /\ mixed \in BOOLEAN

-----------------------------------------------------------------------------
(* Caches *)

Credential == Tgt \cup Ticket

\* The ends and the clock are numbers.
LEMMA Times ==
    /\ TicketLife \in Nat /\ RenewLife \in Nat /\ MaxTime \in Nat
    /\ \A c \in Credential : c.end \in Nat
    /\ \A t \in Time : t \in Nat
BY LifeAssumption DEF Credential, Tgt, Ticket, Time

\* Tickets that are not TGTs leave a cache.
LEMMA DropKeeps ==
    ASSUME NEW cache, NEW gone, \A c \in gone : c.server # Tgs
    PROVE  /\ OnePerServer(cache) => OnePerServer(cache \ gone)
           /\ Coherent(cache) => Coherent(cache \ gone)
BY DEF OnePerServer, Coherent, For

\* A ticket made from the TGT of the cache comes in.
LEMMA PutKeeps ==
    ASSUME NEW cache, NEW ticket, ticket.server # Tgs
    PROVE  /\ OnePerServer(cache) => OnePerServer(Put(cache, ticket))
           /\ (/\ Coherent(cache)
               /\ \E tgt \in For(cache, Tgs) :
                      ticket.client = tgt.client /\ ticket.end <= tgt.end)
              => Coherent(Put(cache, ticket))
<1>1. OnePerServer(cache) => OnePerServer(Put(cache, ticket))
  BY DEF OnePerServer, Put, For
<1>2. ASSUME Coherent(cache),
             NEW tgt \in For(cache, Tgs), ticket.client = tgt.client, ticket.end <= tgt.end
      PROVE  Coherent(Put(cache, ticket))
  <2>1. /\ \A c \in cache : c.client = tgt.client
        /\ \A c \in cache : \E t \in For(cache, Tgs) : c.end <= t.end
    BY <1>2 DEF Coherent, For
  <2>2. For(cache, Tgs) \subseteq For(Put(cache, ticket), Tgs)
    BY DEF Put, For
  <2>3. \A c \in Put(cache, ticket) :
            /\ c.client = tgt.client
            /\ \E t \in For(Put(cache, ticket), Tgs) : c.end <= t.end
    BY <1>2, <2>1, <2>2 DEF Put
  <2>4. QED
    BY <2>3 DEF Coherent
<1>3. QED
  BY <1>1, <1>2

\* A new TGT is alone.
LEMMA GrantKeeps ==
    ASSUME NEW cache, NEW tgt \in Tgt
    PROVE  OnePerServer(Granted(cache, tgt)) /\ Coherent(Granted(cache, tgt))
<1>1. tgt.end \in Nat /\ tgt.server = Tgs
  BY Times DEF Credential, Tgt
<1>2. QED
  BY <1>1 DEF Granted, OnePerServer, Coherent, For

LEMMA EmptyKeeps == OnePerServer({}) /\ Coherent({})
BY DEF OnePerServer, Coherent

\* What the file may hold after a write.
LEMMA WrittenIs ==
    ASSUME NEW content, content \subseteq Credential, OnePerServer(content),
           file.creds \subseteq Credential, OnePerServer(file.creds),
           NEW new \in Written(content)
    PROVE  /\ new.creds \subseteq Credential /\ OnePerServer(new.creds)
           /\ new.garbage \in BOOLEAN
           /\ new.garbage => new.creds = {}
<1>1. \/ new = [creds |-> content, garbage |-> FALSE]
      \/ new = [creds |-> {}, garbage |-> TRUE]
      \/ new \in Overlays(content, file.creds)
  BY DEF Written
<1>2. CASE new = [creds |-> content, garbage |-> FALSE]
  BY <1>2
<1>3. CASE new = [creds |-> {}, garbage |-> TRUE]
  BY <1>3, EmptyKeeps
<1>4. ASSUME NEW t \in SUBSET file.creds,
             new = [creds |-> {c \in content : For(t, c.server) = {}} \cup t,
                    garbage |-> FALSE]
      PROVE  /\ new.creds \subseteq Credential /\ OnePerServer(new.creds)
             /\ new.garbage = FALSE
  BY <1>4 DEF OnePerServer, For
<1>5. CASE new \in Overlays(content, file.creds)
  BY <1>3, <1>4, <1>5 DEF Overlays
<1>6. QED
  BY <1>1, <1>2, <1>3, <1>5

-----------------------------------------------------------------------------
(* Processes *)

\* A process that runs is not idle.
LEMMA RunningType ==
    /\ \A u \in Running : u # Idle /\ u.pc \in PC
    /\ Idle.pc = "idle"
BY DEF Running, Idle, PC

\* What is known of a running process.
LEMMA Knows ==
    ASSUME IInv, NEW p \in Process, proc[p] # Idle
    PROVE  /\ proc[p] \in Running /\ OnePerServer(proc[p].cache)
           /\ proc[p].cache \subseteq Credential
           /\ Stage(proc[p])
           /\ mixed \/ (Coherent(proc[p].cache) /\ Own(proc[p]))
BY DEF IInv, GoodProcess, Running, Credential

\* A process moves, the file with it or not.
LEMMA ProcessMoves ==
    ASSUME IInv, NEW p \in Process, NEW u, GoodProcess(u, mixed'),
           proc' = [proc EXCEPT ![p] = u],
           GoodFile(file', mixed'), orphans' \subseteq Process,
           mixed' \in BOOLEAN, mixed => mixed', UNCHANGED clock
    PROVE  IInv'
<1>1. \A q \in Process : proc'[q] = IF q = p THEN u ELSE proc[q]
  BY DEF IInv
<1>2. proc' = [q \in Process |-> proc'[q]]
  BY DEF IInv
<1>3. \A q \in Process : GoodProcess(proc'[q], mixed')
  BY <1>1 DEF IInv, GoodProcess
<1>4. QED
  BY <1>2, <1>3 DEF IInv

\* It goes on to another stage with the cache it has.
LEMMA Goes ==
    ASSUME IInv, NEW p \in Process, proc[p] # Idle, proc[p].pc # "writing",
           NEW pc \in PC \ {"writing"}, Goto(p, pc),
           StageAt(proc[p], pc), mixed \/ OwnAt(proc[p], pc, proc[p].cache)
    PROVE  IInv'
<1> DEFINE u == proc[p]
           v == [u EXCEPT !.pc = pc]
<1>1. /\ u \in Running /\ OnePerServer(u.cache) /\ Stage(u)
      /\ mixed \/ Coherent(u.cache)
  BY Knows
<1>2. proc' = [proc EXCEPT ![p] = v] /\ UNCHANGED <<clock, file, orphans, mixed>>
  BY DEF Goto
<1>3. /\ v \in Running /\ v.pc = pc /\ v.then = u.then /\ v.command = u.command
      /\ v.client = u.client /\ v.service = u.service /\ v.cache = u.cache
  <2> HIDE DEF u
  <2>1. QED
    BY <1>1 DEF Running
<1> HIDE DEF v
<1>4. Act(v) = pc
  BY <1>3 DEF Act
<1>5. GoodProcess(v, mixed')
  BY <1>1, <1>2, <1>3, <1>4 DEF GoodProcess, Stage, StageAt, Own, OwnAt
<1>6. QED
  BY <1>2, <1>5, ProcessMoves DEF IInv

\* It saves a cache.
LEMMA Saves ==
    ASSUME IInv, NEW p \in Process, NEW u \in Running, NEW cache \in SUBSET Credential,
           NEW then \in (PC \cup {"idle"}) \ {"writing"},
           Save(p, u, cache, then), orphans' \subseteq Process,
           OnePerServer(cache), mixed \/ Coherent(cache),
           StageAt(u, then), mixed \/ OwnAt(u, then, cache)
    PROVE  IInv'
<1> DEFINE v == [u EXCEPT !.cache = cache, !.pc = "writing", !.then = then]
<1>1. proc' = [proc EXCEPT ![p] = v] /\ file' = Blank /\ UNCHANGED <<clock, mixed>>
  BY DEF Save
<1>2. /\ v \in Running /\ v.pc = "writing" /\ v.then = then /\ v.command = u.command
      /\ v.client = u.client /\ v.service = u.service /\ v.cache = cache
  BY DEF Running, PC, Credential
<1> HIDE DEF v
<1>3. Act(v) = then
  BY <1>2 DEF Act
<1>4. GoodProcess(v, mixed')
  BY <1>1, <1>2, <1>3 DEF GoodProcess, Stage, StageAt, Own, OwnAt
<1>5. GoodFile(file', mixed')
  BY <1>1, EmptyKeeps DEF GoodFile, Blank
<1>6. QED
  BY <1>1, <1>4, <1>5, ProcessMoves DEF IInv

\* It clears the cache.
LEMMA Clears ==
    ASSUME IInv, NEW p \in Process, NEW u \in Running,
           NEW then \in (PC \cup {"idle"}) \ {"writing"},
           Clear(p, u, then), StageAt(u, then)
    PROVE  IInv'
<1>1. Save(p, u, {}, then) /\ orphans' \subseteq Process
  BY DEF Clear, IInv
<1>2. OwnAt(u, then, {}) /\ {} \in SUBSET Credential
  BY DEF OwnAt
<1>3. QED
  BY <1>1, <1>2, EmptyKeeps, Saves

-----------------------------------------------------------------------------
(* The commands *)

\* A command begins with the cache it finds, or clears what does not parse.
LEMMA BeginStep ==
    ASSUME IInv, NEW p \in Process, NEW command \in Command,
           NEW client \in Client \cup {Nobody}, NEW service \in Service \cup {Nobody},
           command \in {"kinit", "login"} => client \in Client,
           command \in {"kvno", "kaccess", "login"} => service \in Service,
           Begin(p, command, client, service)
    PROVE  IInv'
<1> DEFINE u == [pc |-> "begin", command |-> command, client |-> client,
                 service |-> service, cache |-> file.creds, then |-> "idle"]
<1>1. file.creds \subseteq Credential /\ GoodFile(file, mixed)
  BY DEF IInv, GoodFile, Credential
<1>2. u \in Running
  BY <1>1 DEF Running, PC, Credential
<1>3. StageAt(u, "begin")
  BY DEF StageAt, Asking
<1>4. CASE file.garbage
  <2>1. Clear(p, u, "begin")
    BY <1>4 DEF Begin
  <2>2. "begin" \in (PC \cup {"idle"}) \ {"writing"}
    BY DEF PC
  <2> HIDE DEF u
  <2>3. QED
    BY <1>2, <1>3, <2>1, <2>2, Clears
<1>5. CASE ~file.garbage
  <2>1. proc' = [proc EXCEPT ![p] = u] /\ UNCHANGED <<clock, file, orphans, mixed>>
    BY <1>5 DEF Begin
  <2>2. GoodProcess(u, mixed')
    BY <1>1, <1>2, <1>3, <2>1
       DEF GoodProcess, GoodFile, Stage, Act, Own, OwnAt, Relying, Asking
  <2> HIDE DEF u
  <2>3. QED
    BY <1>1, <2>1, <2>2, ProcessMoves DEF IInv
<1>6. QED
  BY <1>4, <1>5

\* A process ends.
LEMMA EndStep ==
    ASSUME IInv, NEW p \in Process, End(p)
    PROVE  IInv'
<1>1. GoodProcess(Idle, mixed')
  BY DEF GoodProcess
<1>2. /\ proc' = [proc EXCEPT ![p] = Idle] /\ UNCHANGED <<clock, file, mixed>>
      /\ orphans' \subseteq Process
  BY DEF End, IInv
<1>3. QED
  BY <1>1, <1>2, ProcessMoves DEF IInv

\* A process that only moves on.
LEMMA GotoStep ==
    ASSUME IInv, NEW p \in Process,
           SendAsReq(p) \/ List(p) \/ Prompt(p) \/ Reuse(p)
    PROVE  IInv'
<1>1. proc[p] # Idle
  BY RunningType DEF SendAsReq, List, Prompt, Reuse, At
<1> DEFINE u == proc[p]
<1>2. /\ u \in Running /\ Stage(u)
      /\ mixed \/ (Coherent(u.cache) /\ Own(u))
  BY <1>1, Knows
<1>3. u.pc # "writing" => StageAt(u, u.pc)
  BY <1>2 DEF Stage, Act
<1>4. CASE SendAsReq(p)
  <2>1. StageAt(u, "as") /\ OwnAt(u, "as", u.cache)
    BY <1>3, <1>4 DEF SendAsReq, At, StageAt, OwnAt, Asking, Relying
  <2>2. Goto(p, "as") /\ u.pc # "writing" /\ "as" \in PC \ {"writing"}
    BY <1>4 DEF SendAsReq, At, PC
  <2>3. QED
    BY <1>1, <2>1, <2>2, Goes
<1>5. CASE List(p)
  <2>1. StageAt(u, "listing") /\ OwnAt(u, "listing", u.cache)
    BY <1>3, <1>5 DEF List, At, StageAt, OwnAt, Asking, Relying
  <2>2. Goto(p, "listing") /\ u.pc # "writing" /\ "listing" \in PC \ {"writing"}
    BY <1>5 DEF List, At, PC
  <2>3. QED
    BY <1>1, <2>1, <2>2, Goes
<1>6. CASE Prompt(p)
  <2>1. StageAt(u, "prompt") /\ OwnAt(u, "prompt", u.cache)
    BY <1>3, <1>6 DEF Prompt, At, StageAt, OwnAt, Asking, Relying
  <2>2. Goto(p, "prompt") /\ u.pc # "writing" /\ "prompt" \in PC \ {"writing"}
    BY <1>6 DEF Prompt, At, PC
  <2>3. QED
    BY <1>1, <2>1, <2>2, Goes
<1>7. CASE Reuse(p)
  <2>1. u.pc = "prompt" /\ Goto(p, "service") /\ "service" \in PC \ {"writing"}
        /\ \E tgt \in u.cache : tgt.client = u.client
    BY <1>7 DEF Reuse, At, PC, Owns, For
  <2>2. StageAt(u, "service")
    BY <1>3, <2>1 DEF StageAt, Asking
  <2>3. mixed \/ OwnAt(u, "service", u.cache)
    BY <1>2, <2>1 DEF OwnAt, Coherent
  <2>4. QED
    BY <1>1, <2>1, <2>2, <2>3, Goes
<1>8. QED
  BY <1>4, <1>5, <1>6, <1>7

\* The client of the cached TGT becomes that of the command.
LEMMA RequireStep ==
    ASSUME IInv, NEW p \in Process, Require(p)
    PROVE  IInv'
<1> DEFINE u == proc[p]
<1>1. u # Idle /\ u.pc = "begin" /\ u.command \in {"kvno", "kaccess", "krenew"}
  BY RunningType DEF Require, At
<1>2. /\ u \in Running /\ Stage(u) /\ OnePerServer(u.cache) /\ u.cache \subseteq Credential
      /\ mixed \/ (Coherent(u.cache) /\ Own(u))
  BY <1>1, Knows
<1>3. PICK tgt \in For(u.cache, Tgs), pc \in {"tgt", "service", "renew"} :
          /\ proc' = [proc EXCEPT ![p] = [u EXCEPT !.client = tgt.client, !.pc = pc]]
          /\ pc \in {"tgt", "service"} => u.command \in {"kvno", "kaccess"}
          /\ UNCHANGED <<clock, file, orphans, mixed>>
  BY <1>1 DEF Require
<1> DEFINE v == [u EXCEPT !.client = tgt.client, !.pc = pc]
<1>4. tgt \in u.cache /\ tgt.client \in Client
  BY <1>2, <1>3 DEF For, Credential, Tgt, Ticket
<1>5. /\ v \in Running /\ v.pc = pc /\ v.then = u.then /\ v.command = u.command
      /\ v.client = tgt.client /\ v.service = u.service /\ v.cache = u.cache
  <2> HIDE DEF u
  <2>1. QED
    BY <1>2, <1>4 DEF Running, PC
<1>6. proc' = [proc EXCEPT ![p] = v]
  BY <1>3
<1> HIDE DEF v
<1>7. Act(v) = pc
  BY <1>5 DEF Act
<1>8. Stage(v)
  BY <1>1, <1>2, <1>3, <1>4, <1>5, <1>7 DEF Stage, StageAt, Asking
<1>9. mixed \/ Own(v)
  BY <1>2, <1>4, <1>5 DEF Own, OwnAt, Coherent
<1>10. GoodProcess(v, mixed')
  BY <1>2, <1>3, <1>5, <1>8, <1>9 DEF GoodProcess
<1>11. QED
  BY <1>3, <1>6, <1>10, ProcessMoves DEF IInv

\* The cache is cleared, or the reply to a kinit or a login starts it anew.
LEMMA AsReplyStep ==
    ASSUME IInv, NEW p \in Process, AsReply(p)
    PROVE  IInv'
<1> DEFINE u == proc[p]
           tgt == [server |-> Tgs, client |-> u.client,
                   end |-> clock + TicketLife, till |-> clock + RenewLife]
           then == IF u.command = "login" THEN "service" ELSE "idle"
<1>1. u # Idle /\ u.pc = "as"
  BY RunningType DEF AsReply, At
<1>2. u \in Running /\ Stage(u)
  BY <1>1, Knows
<1>3. StageAt(u, "as")
  BY <1>1, <1>2 DEF Stage, Act
<1>4. tgt \in Tgt
  BY <1>3, Times DEF StageAt, IInv, Tgt, Time
<1>5. then \in (PC \cup {"idle"}) \ {"writing"} /\ StageAt(u, then)
  BY <1>3 DEF PC, StageAt, Asking
<1>6. Save(p, u, Granted(u.cache, tgt), then) /\ orphans' \subseteq Process
  BY DEF AsReply, IInv
<1>7. OwnAt(u, then, Granted(u.cache, tgt)) /\ Granted(u.cache, tgt) \in SUBSET Credential
  BY <1>4 DEF OwnAt, Granted, Credential
<1> HIDE DEF tgt, then, u
<1>8. QED
  BY <1>2, <1>4, <1>5, <1>6, <1>7, GrantKeeps, Saves

\* kdestroy, and an expired TGT found at the start.
LEMMA DropStep ==
    ASSUME IInv, NEW p \in Process, Destroy(p) \/ DropTgt(p)
    PROVE  IInv'
<1>1. proc[p] # Idle /\ proc[p].pc = "begin"
  BY RunningType DEF Destroy, DropTgt, At
<1>2. proc[p] \in Running /\ Stage(proc[p])
  BY <1>1, Knows
<1>3. PICK then \in {"idle", "prompt"} :
          /\ Clear(p, proc[p], then)
          /\ then = "prompt" => proc[p].command = "login"
  BY DEF Destroy, DropTgt
<1>4. then \in (PC \cup {"idle"}) \ {"writing"} /\ StageAt(proc[p], then)
  BY <1>1, <1>2, <1>3 DEF PC, Stage, Act, StageAt, Asking
<1>5. QED
  BY <1>2, <1>3, <1>4, Clears

\* klist drops an expired service ticket.
LEMMA ListDropStep ==
    ASSUME IInv, NEW p \in Process, ListDrop(p)
    PROVE  IInv'
<1> DEFINE u == proc[p]
<1>1. u # Idle /\ u.pc = "listing"
  BY RunningType DEF ListDrop, At
<1>2. /\ u \in Running /\ Stage(u) /\ OnePerServer(u.cache) /\ u.cache \subseteq Credential
      /\ mixed \/ Coherent(u.cache)
  BY <1>1, Knows
<1>3. PICK c \in u.cache : /\ c.server # Tgs /\ Save(p, u, u.cache \ {c}, "listing")
                           /\ orphans' = orphans
  BY DEF ListDrop
<1>4. "listing" \in (PC \cup {"idle"}) \ {"writing"} /\ StageAt(u, "listing")
  BY <1>1, <1>2 DEF PC, Stage, Act, StageAt, Asking
<1> DEFINE cache == u.cache \ {c}
<1>5. OnePerServer(cache) /\ (mixed \/ Coherent(cache))
  BY <1>2, <1>3, DropKeeps
<1>6. cache \in SUBSET Credential /\ OwnAt(u, "listing", cache) /\ orphans' \subseteq Process
  BY <1>2, <1>3 DEF OwnAt, Relying, Asking, IInv
<1> HIDE DEF u, cache
<1>7. QED
  BY <1>2, <1>3, <1>4, <1>5, <1>6, Saves DEF cache

\* An expired service ticket is dropped on the way, or the command goes on.
LEMMA ServiceStep ==
    ASSUME IInv, NEW p \in Process, HasTicket(p) \/ SendApReq(p)
    PROVE  IInv'
<1> DEFINE u == proc[p]
<1>1. u # Idle /\ u.pc \in {"service", "ap"}
  BY RunningType DEF HasTicket, SendApReq, At
<1>2. /\ u \in Running /\ Stage(u) /\ OnePerServer(u.cache) /\ u.cache \subseteq Credential
      /\ mixed \/ (Coherent(u.cache) /\ Own(u))
  BY <1>1, Knows
<1>3. /\ StageAt(u, u.pc) /\ u.service \in Service
      /\ mixed \/ \A c \in u.cache : c.client = u.client
  BY <1>1, <1>2 DEF Stage, Act, StageAt, Own, OwnAt, Relying, Asking
<1>4. ASSUME NEW then \in {"ap", "tgt", "present", "idle"}
      PROVE  then \in (PC \cup {"idle"}) \ {"writing"} /\ StageAt(u, then)
  BY <1>1, <1>3 DEF PC, StageAt, Asking
<1>5. ASSUME NEW pc \in {"ap", "tgt", "present"}, Goto(p, pc)
      PROVE  IInv'
  <2>1. pc \in PC \ {"writing"} /\ StageAt(u, pc)
    BY <1>4 DEF PC
  <2>2. mixed \/ OwnAt(u, pc, u.cache)
    BY <1>3 DEF OwnAt
  <2>3. QED
    BY <1>1, <1>5, <2>1, <2>2, Goes
<1>6. ASSUME NEW then \in {"tgt", "idle"},
             Save(p, u, u.cache \ For(u.cache, u.service), then), UNCHANGED orphans
      PROVE  IInv'
  <2> DEFINE cache == u.cache \ For(u.cache, u.service)
  <2>1. OnePerServer(cache) /\ (mixed \/ Coherent(cache))
    BY <1>2, <1>3, DropKeeps, NameAssumption DEF For
  <2>2. /\ cache \in SUBSET Credential /\ (mixed \/ OwnAt(u, then, cache))
        /\ orphans' \subseteq Process
    BY <1>2, <1>3, <1>6 DEF OwnAt, IInv
  <2>3. Save(p, u, cache, then)
    BY <1>6
  <2> HIDE DEF u, cache
  <2>4. QED
    BY <1>2, <1>4, <2>1, <2>2, <2>3, Saves
<1>7. QED
  BY <1>5, <1>6 DEF HasTicket, SendApReq

\* A request goes to the TGS, or an expired TGT is dropped.
LEMMA RequestStep ==
    ASSUME IInv, NEW p \in Process, SendTgsReq(p) \/ SendRenewal(p)
    PROVE  IInv'
<1> DEFINE u == proc[p]
<1>1. u # Idle /\ u.pc \in {"tgt", "renew"}
  BY RunningType DEF SendTgsReq, SendRenewal, At
<1>2. u \in Running /\ Stage(u) /\ (mixed \/ Own(u))
  BY <1>1, Knows
<1>3. \/ Clear(p, u, "idle")
      \/ u.pc = "tgt" /\ Goto(p, "tgs")
      \/ u.pc = "renew" /\ Goto(p, "renewing")
  BY DEF SendTgsReq, SendRenewal, At
<1>4. CASE Clear(p, u, "idle")
  <2>1. StageAt(u, "idle") /\ "idle" \in (PC \cup {"idle"}) \ {"writing"}
    BY <1>2 DEF Stage, StageAt, Asking, PC
  <2>2. QED
    BY <1>2, <1>4, <2>1, Clears
<1>5. ASSUME NEW pc \in {"tgs", "renewing"}, Goto(p, pc), pc = "tgs" => u.pc = "tgt"
      PROVE  IInv'
  <2>1. StageAt(u, pc) /\ pc \in PC \ {"writing"}
    BY <1>1, <1>2, <1>5 DEF Stage, Act, StageAt, Asking, PC
  <2>2. mixed \/ OwnAt(u, pc, u.cache)
    BY <1>1, <1>2 DEF Own, OwnAt, Act, Relying, Asking
  <2>3. QED
    BY <1>1, <1>5, <2>1, <2>2, Goes
<1>6. QED
  BY <1>3, <1>4, <1>5

\* A service ticket comes in.
LEMMA TgsReplyStep ==
    ASSUME IInv, NEW p \in Process, TgsReply(p)
    PROVE  IInv'
<1> DEFINE u == proc[p]
<1>1. u # Idle /\ u.pc = "tgs"
  BY RunningType DEF TgsReply, At
<1>2. /\ u \in Running /\ Stage(u) /\ OnePerServer(u.cache) /\ u.cache \subseteq Credential
      /\ mixed \/ (Coherent(u.cache) /\ Own(u))
  BY <1>1, Knows
<1>3. /\ u.command \in {"kvno", "kaccess", "login"} /\ u.service \in Service
      /\ u.command = "login" => u.client \in Client
      /\ mixed \/ \A c \in u.cache : c.client = u.client
  BY <1>1, <1>2 DEF Stage, Act, StageAt, Own, OwnAt, Relying, Asking
<1>4. PICK tgt \in For(u.cache, Tgs) :
          Save(p, u, Put(u.cache, [server |-> u.service, client |-> tgt.client,
                                   end |-> Lesser(clock + TicketLife, tgt.end)]),
               IF u.command = "kvno" THEN "idle" ELSE "ap")
  BY DEF TgsReply
<1> DEFINE then == IF u.command = "kvno" THEN "idle" ELSE "ap"
           end == Lesser(clock + TicketLife, tgt.end)
           ticket == [server |-> u.service, client |-> tgt.client, end |-> end]
           cache == Put(u.cache, ticket)
<1>5. tgt \in u.cache /\ tgt \in Credential /\ tgt.end \in Nat /\ tgt.client \in Client
  BY <1>2, Times DEF For, Credential, Tgt, Ticket
<1>6. tgt.end \in Time
  BY <1>5 DEF Credential, Tgt, Ticket
<1>7. end \in Time /\ end <= tgt.end
  <2>1. clock \in 0..MaxTime
    BY DEF IInv
  <2>2. QED
    BY <1>5, <1>6, <2>1, Times DEF Lesser, Time
<1> HIDE DEF end
<1>8. ticket \in Ticket /\ ticket.server # Tgs
  BY <1>3, <1>5, <1>7, NameAssumption DEF Ticket
<1>9. OnePerServer(cache) /\ (mixed \/ Coherent(cache))
  BY <1>2, <1>5, <1>7, <1>8, PutKeeps
<1>10. cache \in SUBSET Credential /\ (mixed \/ OwnAt(u, then, cache))
  BY <1>2, <1>3, <1>5, <1>8 DEF Put, Credential, OwnAt
<1>11. then \in (PC \cup {"idle"}) \ {"writing"} /\ StageAt(u, then)
  BY <1>3 DEF PC, StageAt, Asking
<1>12. Save(p, u, cache, then) /\ orphans' \subseteq Process
  BY <1>4 DEF end, TgsReply, IInv
<1> HIDE DEF u, cache, then
<1>13. QED
  BY <1>2, <1>9, <1>10, <1>11, <1>12, Saves

\* The renewed TGT comes in.
LEMMA RenewReplyStep ==
    ASSUME IInv, NEW p \in Process, RenewReply(p)
    PROVE  IInv'
<1> DEFINE u == proc[p]
<1>1. u # Idle /\ u.pc = "renewing"
  BY RunningType DEF RenewReply, At
<1>2. u \in Running /\ Stage(u) /\ u.cache \subseteq Credential
  BY <1>1, Knows
<1>3. PICK tgt \in For(u.cache, Tgs) :
          Save(p, u, Granted(u.cache, [tgt EXCEPT !.end =
                                  Lesser(clock + TicketLife, tgt.till)]), "idle")
  BY DEF RenewReply
<1> DEFINE end == Lesser(clock + TicketLife, tgt.till)
           new == [tgt EXCEPT !.end = end]
           cache == Granted(u.cache, new)
<1>4. tgt \in Tgt
  BY <1>2, NameAssumption DEF For, Credential, Tgt, Ticket
<1>5. end \in Time
  <2>1. clock \in 0..MaxTime /\ tgt.till \in Time
    BY <1>4 DEF IInv, Tgt
  <2>2. QED
    BY <2>1, Times DEF Lesser, Time
<1> HIDE DEF end
<1>6. new \in Tgt
  BY <1>4, <1>5 DEF Tgt
<1>7. OnePerServer(cache) /\ Coherent(cache) /\ cache \in SUBSET Credential
  BY <1>6, GrantKeeps DEF Granted, Credential
<1>8. "idle" \in (PC \cup {"idle"}) \ {"writing"} /\ StageAt(u, "idle")
      /\ OwnAt(u, "idle", cache)
  BY <1>2 DEF PC, Stage, StageAt, Asking, OwnAt, Relying
<1>9. Save(p, u, cache, "idle") /\ orphans' \subseteq Process
  BY <1>3 DEF end, RenewReply, IInv
<1> HIDE DEF u, cache
<1>10. QED
  BY <1>2, <1>7, <1>8, <1>9, Saves

\* A write is finished.
LEMMA WriteStep ==
    ASSUME IInv, NEW p \in Process, Write(p)
    PROVE  IInv'
<1> DEFINE u == proc[p]
           v == IF u.then = "idle" THEN Idle ELSE [u EXCEPT !.pc = u.then]
<1>1. u # Idle /\ u.pc = "writing"
  BY RunningType DEF Write
<1>2. /\ u \in Running /\ Stage(u) /\ OnePerServer(u.cache) /\ u.cache \subseteq Credential
      /\ mixed \/ (Coherent(u.cache) /\ Own(u))
  BY <1>1, Knows
<1>3. proc' = [proc EXCEPT ![p] = v] /\ UNCHANGED clock /\ orphans' \subseteq Process
  BY DEF Write, IInv
<1>4. GoodProcess(v, mixed)
  <2>1. CASE u.then = "idle"
    BY <2>1 DEF GoodProcess
  <2>2. CASE u.then # "idle"
    <3>1. /\ v \in Running /\ v.pc = u.then /\ v.then = u.then /\ v.command = u.command
          /\ v.client = u.client /\ v.service = u.service /\ v.cache = u.cache
      <4> HIDE DEF u
      <4>1. QED
        BY <1>2, <2>2 DEF Running
    <3> HIDE DEF v
    <3>2. Act(v) = u.then /\ Act(u) = u.then
      BY <1>1, <3>1 DEF Act
    <3>3. QED
      BY <1>2, <3>1, <3>2 DEF GoodProcess, Stage, StageAt, Own, OwnAt
  <2>3. QED
    BY <2>1, <2>2
<1> HIDE DEF v
<1>5. GoodFile(file', mixed') /\ mixed' \in BOOLEAN /\ (mixed => mixed')
  <2>1. CASE UNCHANGED <<file, mixed>>
    BY <2>1 DEF IInv
  <2>2. ASSUME NEW new \in Written(u.cache), file' = new,
               mixed' = (mixed \/ (~new.garbage /\ new.creds # u.cache))
        PROVE  GoodFile(file', mixed') /\ mixed' \in BOOLEAN /\ (mixed => mixed')
    <3>1. file.creds \subseteq Credential /\ OnePerServer(file.creds)
      BY DEF IInv, GoodFile, Credential
    <3>2. /\ new.creds \subseteq Credential /\ OnePerServer(new.creds)
          /\ new.garbage \in BOOLEAN
          /\ new.garbage => new.creds = {}
      <4> HIDE DEF u
      <4>1. QED
        BY <1>2, <2>2, <3>1, WrittenIs
    <3>3. mixed' \in BOOLEAN /\ (mixed => mixed')
      BY <2>2 DEF IInv
    <3>4. mixed' \/ Coherent(new.creds)
      <4>1. CASE new.garbage
        BY <3>2, <4>1, EmptyKeeps
      <4>2. CASE ~new.garbage
        BY <1>2, <2>2, <4>2
      <4>3. QED
        BY <4>1, <4>2
    <3>5. QED
      BY <2>2, <3>2, <3>3, <3>4 DEF GoodFile, Credential
  <2>3. QED
    BY <2>1, <2>2 DEF Write
<1>6. GoodProcess(v, mixed')
  BY <1>4, <1>5 DEF GoodProcess
<1>7. QED
  BY <1>3, <1>5, <1>6, ProcessMoves

-----------------------------------------------------------------------------
LEMMA InitInvariant == Init => IInv
<1> SUFFICES ASSUME Init PROVE IInv
  OBVIOUS
<1>1. GoodFile(file, mixed)
  BY EmptyKeeps DEF Init, GoodFile, Blank
<1>2. /\ proc = [p \in Process |-> proc[p]]
      /\ \A p \in Process : GoodProcess(proc[p], mixed)
  BY DEF Init, GoodProcess
<1>3. clock \in 0..MaxTime
  BY Times DEF Init
<1>4. orphans \subseteq Process /\ mixed \in BOOLEAN
  BY DEF Init
<1>5. QED
  BY <1>1, <1>2, <1>3, <1>4 DEF IInv

LEMMA NextInvariant == IInv /\ [Next]_vars => IInv'
<1> SUFFICES ASSUME IInv, [Next]_vars PROVE IInv'
  OBVIOUS
<1>1. ASSUME NEW p \in Process,
             \/ \E c \in Client : Begin(p, "kinit", c, Nobody)
             \/ \E c \in Client, s \in Service : Begin(p, "login", c, s)
             \/ \E command \in {"kvno", "kaccess"}, s \in Service :
                    Begin(p, command, Nobody, s)
             \/ \E command \in {"klist", "krenew", "kdestroy"} :
                    Begin(p, command, Nobody, Nobody)
      PROVE  IInv'
  <2>1. PICK command \in Command, c \in Client \cup {Nobody}, s \in Service \cup {Nobody} :
            /\ Begin(p, command, c, s)
            /\ command \in {"kinit", "login"} => c \in Client
            /\ command \in {"kvno", "kaccess", "login"} => s \in Service
    BY <1>1 DEF Command
  <2>2. QED
    BY <2>1, BeginStep
<1>2. ASSUME NEW p \in Process,
             \/ SendAsReq(p) \/ AsReply(p) \/ Destroy(p) \/ DropTgt(p)
             \/ List(p) \/ ListDrop(p) \/ Prompt(p) \/ Reuse(p) \/ Require(p)
             \/ HasTicket(p) \/ SendTgsReq(p) \/ TgsReply(p)
             \/ SendRenewal(p) \/ RenewReply(p) \/ SendApReq(p)
             \/ Write(p) \/ End(p)
      PROVE  IInv'
  BY <1>2, GotoStep, AsReplyStep, DropStep, ListDropStep, RequireStep, ServiceStep,
     RequestStep, TgsReplyStep, RenewReplyStep, WriteStep, EndStep
<1>3. CASE Tick
  <2>1. clock' \in 0..MaxTime
    BY <1>3, Times DEF Tick, IInv
  <2>2. QED
    BY <1>3, <2>1 DEF Tick, IInv
<1>4. CASE UNCHANGED vars
  BY <1>4 DEF vars, IInv
<1>5. QED
  BY <1>1, <1>2, <1>3, <1>4 DEF Next

LEMMA Invariant == Spec => []IInv
<1>1. QED
  BY InitInvariant, NextInvariant, PTL DEF Spec

\* Every variable keeps its type, and neither the file nor a copy of it ever has two
\* tickets of one server, also when the bytes of two processes mixed.
THEOREM TypeCorrect == Spec => []TypeOK
<1>1. IInv => TypeOK
  <2> SUFFICES ASSUME IInv PROVE TypeOK
    OBVIOUS
  <2>1. proc \in [Process -> {Idle} \cup Running]
    BY DEF IInv, GoodProcess
  <2>2. QED
    BY <2>1 DEF IInv, GoodProcess, GoodFile, TypeOK
<1>2. QED
  BY <1>1, Invariant, PTL

\* However many commands interleave, the cache and every copy of it are one login's,
\* unless the bytes of two processes mixed (CredentialCache._save).
THEOREM OneLogin == Spec => []CoherentCache
<1>1. IInv => CoherentCache
  BY DEF IInv, GoodProcess, GoodFile, CoherentCache
<1>2. QED
  BY <1>1, Invariant, PTL

\* With the same exception, a command names in its authenticator the client of the
\* ticket that goes with it (phase2_tgs_exchange, renew_tgt_exchange,
\* phase3_ap_exchange).
THEOREM OwnTickets == Spec => []AuthenticatorMatches
<1>1. IInv => AuthenticatorMatches
  <2> SUFFICES ASSUME IInv, ~mixed, NEW p \in Process,
                      proc[p].pc \in {"tgs", "renewing", "present"}
               PROVE  \A c \in proc[p].cache : c.client = proc[p].client
    BY DEF AuthenticatorMatches, For
  <2>1. proc[p] # Idle
    BY RunningType
  <2>2. Own(proc[p])
    BY <2>1, Knows
  <2>3. QED
    BY <2>2 DEF Own, OwnAt, Act, Relying, Asking
<1>2. QED
  BY <1>1, Invariant, PTL

-----------------------------------------------------------------------------
(* No command forgets a live TGT *)

\* A TGT can be renewed for as long as it lasts.
Renewable(creds) == \A c \in For(creds, Tgs) : c.end <= c.till

\* The invariant behind it, on top of IInv.
Renewals ==
    /\ Renewable(file.creds)
    /\ \A p \in Process : proc[p] # Idle => Renewable(proc[p].cache)

HasLive(u) == u # Idle /\ \E tgt \in For(u.cache, Tgs) : clock <= tgt.end

\* A process that was u and becomes v.
Keeps(u, v) ==
    v # Idle => /\ Renewable(v.cache)
                /\ HasLive(u) /\ For(v.cache, Tgs) = {} => u.command = "kdestroy"

\* What LiveTgtKept says of a step.
TgtKept ==
    \A p \in Process :
        /\ proc[p] # Idle /\ proc'[p] # Idle
        /\ \E tgt \in For(proc[p].cache, Tgs) : clock <= tgt.end
        /\ For(proc'[p].cache, Tgs) = {}
        => proc[p].command = "kdestroy"

\* A cache with less in it, of TGTs in particular.
LEMMA RenewableParts ==
    ASSUME NEW creds, Renewable(creds), NEW part,
           For(part, Tgs) \subseteq For(creds, Tgs)
    PROVE  Renewable(part)
BY DEF Renewable

LEMMA EmptyRenewable == Renewable({})
BY DEF Renewable, For

\* The file holds nothing that neither it nor the writer held.
LEMMA WrittenRenewable ==
    ASSUME NEW content, Renewable(content), Renewable(file.creds),
           NEW new \in Written(content)
    PROVE  Renewable(new.creds)
<1>1. new.creds \subseteq content \cup file.creds
  <2>1. \/ new.creds = content \/ new.creds = {}
        \/ \E t \in SUBSET file.creds :
               new.creds = {c \in content : For(t, c.server) = {}} \cup t
    BY DEF Written, Overlays
  <2>2. QED
    BY <2>1
<1>2. QED
  BY <1>1 DEF Renewable, For

\* A live TGT is the only one: it has not expired.
LEMMA LiveIsFresh ==
    ASSUME IInv, NEW p \in Process, HasLive(proc[p])
    PROVE  /\ ~Stale(proc[p].cache, Tgs)
           /\ \A tgt \in For(proc[p].cache, Tgs) : clock <= tgt.end
<1> DEFINE u == proc[p]
<1>1. OnePerServer(u.cache) /\ u.cache \subseteq Credential
  BY Knows DEF HasLive
<1>2. PICK tgt \in For(u.cache, Tgs) : clock <= tgt.end
  BY DEF HasLive
<1>3. \A c \in For(u.cache, Tgs) : c = tgt
  BY <1>1 DEF OnePerServer, For
<1>4. clock \in Nat /\ tgt.end \in Nat
  <2>1. tgt \in Credential
    BY <1>1 DEF For
  <2>2. QED
    BY <2>1, Times DEF IInv
<1>5. QED
  BY <1>2, <1>3, <1>4 DEF Stale, Expired

\* A process moves, the file with it or not.
LEMMA MovesWell ==
    ASSUME IInv, Renewals, NEW p \in Process, NEW v, Keeps(proc[p], v),
           proc' = [proc EXCEPT ![p] = v], Renewable(file'.creds)
    PROVE  Renewals' /\ TgtKept
<1>1. \A q \in Process : proc'[q] = IF q = p THEN v ELSE proc[q]
  BY DEF IInv
<1>2. Renewals'
  BY <1>1 DEF Renewals, Keeps, Renewable, For
<1>3. TgtKept
  <2> SUFFICES ASSUME NEW q \in Process, proc[q] # Idle, proc'[q] # Idle,
                      \E tgt \in For(proc[q].cache, Tgs) : clock <= tgt.end,
                      For(proc'[q].cache, Tgs) = {}
               PROVE  proc[q].command = "kdestroy"
    BY DEF TgtKept
  <2>1. CASE q = p
    BY <1>1, <2>1 DEF Keeps, HasLive
  <2>2. CASE q # p
    BY <1>1, <2>2
  <2>3. QED
    BY <2>1, <2>2
<1>4. QED
  BY <1>2, <1>3

\* It goes on with the cache it has.
LEMMA GoesWell ==
    ASSUME IInv, Renewals, NEW p \in Process, proc[p] # Idle,
           NEW v, v.cache = proc[p].cache, proc' = [proc EXCEPT ![p] = v],
           UNCHANGED file
    PROVE  Renewals' /\ TgtKept
<1>1. Renewable(proc[p].cache) /\ Renewable(file'.creds)
  BY DEF Renewals
<1>2. Keeps(proc[p], v)
  BY <1>1 DEF Keeps, HasLive
<1>3. QED
  BY <1>1, <1>2, MovesWell

LEMMA GotoWell ==
    ASSUME IInv, Renewals, NEW p \in Process, proc[p] # Idle, NEW pc, Goto(p, pc)
    PROVE  Renewals' /\ TgtKept
<1> DEFINE u == proc[p]
           v == [u EXCEPT !.pc = pc]
<1>1. proc' = [proc EXCEPT ![p] = v] /\ UNCHANGED file
  BY DEF Goto
<1>2. v.cache = u.cache
  <2>1. u \in Running
    BY Knows
  <2> HIDE DEF u
  <2>2. QED
    BY <2>1 DEF Running
<1> HIDE DEF v
<1>3. QED
  BY <1>1, <1>2, GoesWell

\* It saves a cache.
LEMMA SavesWell ==
    ASSUME IInv, Renewals, NEW p \in Process, NEW u \in Running, NEW cache, NEW then,
           Save(p, u, cache, then), Renewable(cache),
           HasLive(proc[p]) /\ For(cache, Tgs) = {} => proc[p].command = "kdestroy"
    PROVE  Renewals' /\ TgtKept
<1> DEFINE v == [u EXCEPT !.cache = cache, !.pc = "writing", !.then = then]
<1>1. proc' = [proc EXCEPT ![p] = v] /\ file' = Blank
  BY DEF Save
<1>2. v.cache = cache
  BY DEF Running
<1> HIDE DEF v
<1>3. Keeps(proc[p], v) /\ Renewable(file'.creds)
  BY <1>1, <1>2, EmptyRenewable DEF Keeps, Blank
<1>4. QED
  BY <1>1, <1>3, MovesWell

\* It clears the cache: nothing live was in it, or this is kdestroy.
LEMMA ClearsWell ==
    ASSUME IInv, Renewals, NEW p \in Process, NEW u \in Running, NEW then,
           Clear(p, u, then), HasLive(proc[p]) => proc[p].command = "kdestroy"
    PROVE  Renewals' /\ TgtKept
<1>1. Save(p, u, {}, then)
  BY DEF Clear
<1>2. QED
  BY <1>1, EmptyRenewable, SavesWell

\* It saves a cache with the TGTs it had.
LEMMA DropsWell ==
    ASSUME IInv, Renewals, NEW p \in Process, proc[p] # Idle, NEW cache, NEW then,
           Save(p, proc[p], cache, then), For(cache, Tgs) = For(proc[p].cache, Tgs)
    PROVE  Renewals' /\ TgtKept
<1>1. proc[p] \in Running
  BY Knows
<1>2. Renewable(cache)
  BY RenewableParts DEF Renewals
<1>3. HasLive(proc[p]) => For(cache, Tgs) # {}
  BY DEF HasLive
<1>4. QED
  BY <1>1, <1>2, <1>3, SavesWell

-----------------------------------------------------------------------------
LEMMA BeginWell ==
    ASSUME IInv, Renewals, NEW p \in Process, NEW command \in Command,
           NEW client \in Client \cup {Nobody}, NEW service \in Service \cup {Nobody},
           Begin(p, command, client, service)
    PROVE  Renewals' /\ TgtKept
<1> DEFINE u == [pc |-> "begin", command |-> command, client |-> client,
                 service |-> service, cache |-> file.creds, then |-> "idle"]
<1>1. proc[p] = Idle
  BY DEF Begin
<1>2. u.cache = file.creds /\ u \in Running
  BY DEF IInv, GoodFile, Running, PC
<1>3. CASE file.garbage
  <2>1. Clear(p, u, "begin")
    BY <1>3 DEF Begin
  <2> HIDE DEF u
  <2>2. QED
    BY <1>1, <1>2, <2>1, ClearsWell DEF HasLive
<1>4. CASE ~file.garbage
  <2>1. proc' = [proc EXCEPT ![p] = u] /\ UNCHANGED file
    BY <1>4 DEF Begin
  <2> HIDE DEF u
  <2>2. Keeps(proc[p], u) /\ Renewable(file'.creds)
    BY <1>1, <1>2, <2>1 DEF Keeps, HasLive, Renewals
  <2>3. QED
    BY <2>1, <2>2, MovesWell
<1>5. QED
  BY <1>3, <1>4

\* The KDC issues and renews TGTs that can be renewed.
LEMMA ReplyWell ==
    ASSUME IInv, Renewals, NEW p \in Process, AsReply(p) \/ RenewReply(p)
    PROVE  Renewals' /\ TgtKept
<1> DEFINE u == proc[p]
<1>1. u # Idle
  BY RunningType DEF AsReply, RenewReply, At
<1>2. u \in Running /\ u.cache \subseteq Credential
  BY <1>1, Knows
<1>3. clock \in Nat
  BY Times DEF IInv
<1>4. ASSUME NEW tgt, tgt.server = Tgs, tgt.end <= tgt.till, NEW then,
             Save(p, u, {tgt}, then)
      PROVE  Renewals' /\ TgtKept
  <2>1. Renewable({tgt}) /\ For({tgt}, Tgs) # {}
    BY <1>4 DEF Renewable, For
  <2>2. QED
    BY <1>2, <1>4, <2>1, SavesWell
<1>5. CASE AsReply(p)
  <2> DEFINE tgt == [server |-> Tgs, client |-> u.client,
                     end |-> clock + TicketLife, till |-> clock + RenewLife]
             then == IF u.command = "login" THEN "service" ELSE "idle"
  <2>1. Save(p, u, {tgt}, then)
    BY <1>5 DEF AsReply, Granted
  <2>2. tgt.server = Tgs /\ tgt.end <= tgt.till
    BY <1>3, Times, RenewAssumption
  <2> HIDE DEF tgt, then
  <2>3. QED
    BY <1>4, <2>1, <2>2
<1>6. CASE RenewReply(p)
  <2>1. PICK old \in For(u.cache, Tgs) :
            Save(p, u, Granted(u.cache, [old EXCEPT !.end =
                                    Lesser(clock + TicketLife, old.till)]), "idle")
    BY <1>6 DEF RenewReply
  <2>2. old \in Tgt
    BY <1>2, NameAssumption DEF For, Credential, Tgt, Ticket
  <2> DEFINE end == Lesser(clock + TicketLife, old.till)
             tgt == [old EXCEPT !.end = end]
  <2>3. end <= old.till
    <3>1. old.till \in Nat
      BY <2>2, Times DEF Tgt
    <3>2. QED
      BY <1>3, <3>1, Times DEF Lesser
  <2> HIDE DEF end
  <2>4. tgt.server = Tgs /\ tgt.end <= tgt.till
    BY <2>2, <2>3 DEF Tgt
  <2>5. Save(p, u, {tgt}, "idle")
    BY <2>1 DEF Granted, end
  <2> HIDE DEF tgt
  <2>6. QED
    BY <1>4, <2>4, <2>5
<1>7. QED
  BY <1>5, <1>6

\* Only an expired TGT is dropped on the way, or one kdestroy is asked to drop.
LEMMA ClearWell ==
    ASSUME IInv, Renewals, NEW p \in Process,
           Destroy(p) \/ DropTgt(p) \/ SendTgsReq(p) \/ SendRenewal(p)
    PROVE  Renewals' /\ TgtKept
<1> DEFINE u == proc[p]
<1>1. u # Idle
  BY RunningType DEF Destroy, DropTgt, SendTgsReq, SendRenewal, At
<1>2. u \in Running /\ u.cache \subseteq Credential
  BY <1>1, Knows
<1>3. \/ \E pc \in {"tgs", "renewing"} : Goto(p, pc)
      \/ \E then \in {"idle", "prompt"} :
             /\ Clear(p, u, then)
             /\ \/ u.command = "kdestroy" \/ Stale(u.cache, Tgs)
                \/ \E tgt \in For(u.cache, Tgs) : clock > tgt.till
  BY DEF Destroy, DropTgt, SendTgsReq, SendRenewal
<1>4. ASSUME HasLive(u), NEW tgt \in For(u.cache, Tgs), clock > tgt.till
      PROVE  FALSE
  <2>1. clock <= tgt.end
    BY <1>4, LiveIsFresh
  <2>2. tgt.end <= tgt.till
    BY <1>1 DEF Renewals, Renewable
  <2>3. tgt \in Tgt
    BY <1>2, NameAssumption DEF For, Credential, Tgt, Ticket
  <2>4. clock \in Nat /\ tgt.end \in Nat /\ tgt.till \in Nat
    BY <2>3, Times DEF IInv, Tgt
  <2>5. QED
    BY <1>4, <2>1, <2>2, <2>4
<1>5. ASSUME NEW then \in {"idle", "prompt"}, Clear(p, u, then),
             \/ u.command = "kdestroy" \/ Stale(u.cache, Tgs)
             \/ \E tgt \in For(u.cache, Tgs) : clock > tgt.till
      PROVE  Renewals' /\ TgtKept
  <2>1. HasLive(u) => u.command = "kdestroy"
    BY <1>4, <1>5, LiveIsFresh
  <2>2. QED
    BY <1>2, <1>5, <2>1, ClearsWell
<1>6. QED
  BY <1>1, <1>3, <1>5, GotoWell

\* Service tickets come and go beside the TGT.
LEMMA TicketWell ==
    ASSUME IInv, Renewals, NEW p \in Process,
           ListDrop(p) \/ HasTicket(p) \/ SendApReq(p) \/ TgsReply(p)
    PROVE  Renewals' /\ TgtKept
<1> DEFINE u == proc[p]
<1>1. u # Idle /\ u.pc \in {"listing", "service", "ap", "tgs"}
  BY RunningType DEF ListDrop, HasTicket, SendApReq, TgsReply, At
<1>2. u.pc # "listing" => u.service # Tgs
  <2>1. Stage(u)
    BY <1>1, Knows
  <2>2. QED
    BY <1>1, <2>1, NameAssumption DEF Stage, Act, StageAt, Asking
<1>3. CASE \E pc \in {"ap", "tgt", "present"} : Goto(p, pc)
  BY <1>1, <1>3, GotoWell
<1>4. ASSUME NEW cache, NEW then, Save(p, u, cache, then),
             For(cache, Tgs) = For(u.cache, Tgs)
      PROVE  Renewals' /\ TgtKept
  BY <1>1, <1>4, DropsWell
<1>5. CASE ListDrop(p)
  <2>1. PICK c \in u.cache : c.server # Tgs /\ Save(p, u, u.cache \ {c}, "listing")
    BY <1>5 DEF ListDrop
  <2> DEFINE cache == u.cache \ {c}
  <2>2. For(cache, Tgs) = For(u.cache, Tgs) /\ Save(p, u, cache, "listing")
    BY <2>1 DEF For
  <2> HIDE DEF cache
  <2>3. QED
    BY <1>4, <2>2
<1>6. ASSUME NEW then \in {"tgt", "idle"}, u.pc # "listing",
             Save(p, u, u.cache \ For(u.cache, u.service), then)
      PROVE  Renewals' /\ TgtKept
  <2> DEFINE cache == u.cache \ For(u.cache, u.service)
  <2>1. For(cache, Tgs) = For(u.cache, Tgs) /\ Save(p, u, cache, then)
    BY <1>2, <1>6 DEF For
  <2> HIDE DEF cache
  <2>2. QED
    BY <1>4, <2>1
<1>7. CASE HasTicket(p) \/ SendApReq(p)
  BY <1>3, <1>6, <1>7 DEF HasTicket, SendApReq, At
<1>8. CASE TgsReply(p)
  <2>1. PICK ticket, then :
            /\ u.pc = "tgs" /\ ticket.server = u.service
            /\ Save(p, u, Put(u.cache, ticket), then)
    BY <1>8 DEF TgsReply, At
  <2> DEFINE cache == Put(u.cache, ticket)
  <2>2. For(cache, Tgs) = For(u.cache, Tgs) /\ Save(p, u, cache, then)
    BY <1>2, <2>1 DEF Put, For
  <2> HIDE DEF cache
  <2>3. QED
    BY <1>4, <2>2
<1>9. QED
  BY <1>5, <1>7, <1>8

LEMMA GotoStepWell ==
    ASSUME IInv, Renewals, NEW p \in Process,
           SendAsReq(p) \/ List(p) \/ Prompt(p) \/ Reuse(p)
    PROVE  Renewals' /\ TgtKept
<1>1. /\ proc[p] # Idle
      /\ \E pc \in {"as", "listing", "prompt", "service"} : Goto(p, pc)
  BY RunningType DEF SendAsReq, List, Prompt, Reuse, At
<1>2. QED
  BY <1>1, GotoWell

LEMMA RequireWell ==
    ASSUME IInv, Renewals, NEW p \in Process, Require(p)
    PROVE  Renewals' /\ TgtKept
<1> DEFINE u == proc[p]
<1>1. u # Idle /\ u.command \in {"kvno", "kaccess", "krenew"}
  BY RunningType DEF Require, At
<1>2. PICK client, pc :
          proc' = [proc EXCEPT ![p] = [u EXCEPT !.client = client, !.pc = pc]]
  BY DEF Require
<1> DEFINE v == [u EXCEPT !.client = client, !.pc = pc]
<1>3. v.cache = u.cache
  <2>1. u \in Running
    BY <1>1, Knows
  <2> HIDE DEF u
  <2>2. QED
    BY <2>1 DEF Running
<1>4. proc' = [proc EXCEPT ![p] = v] /\ UNCHANGED file
  BY <1>2 DEF Require
<1> HIDE DEF v
<1>5. QED
  BY <1>1, <1>3, <1>4, GoesWell

LEMMA WriteWell ==
    ASSUME IInv, Renewals, NEW p \in Process, Write(p)
    PROVE  Renewals' /\ TgtKept
<1> DEFINE u == proc[p]
           v == IF u.then = "idle" THEN Idle ELSE [u EXCEPT !.pc = u.then]
<1>1. u # Idle
  BY RunningType DEF Write
<1>2. u \in Running /\ Renewable(u.cache)
  BY <1>1, Knows DEF Renewals
<1>3. Keeps(u, v)
  <2>1. CASE u.then = "idle"
    BY <2>1 DEF Keeps
  <2>2. CASE u.then # "idle"
    <3>1. v.cache = u.cache
      <4> HIDE DEF u
      <4>1. QED
        BY <1>2, <2>2 DEF Running
    <3> HIDE DEF v
    <3>2. QED
      BY <1>2, <3>1 DEF Keeps, HasLive
  <2>3. QED
    BY <2>1, <2>2
<1>4. Renewable(file'.creds)
  <2>1. CASE UNCHANGED file
    BY <2>1 DEF Renewals
  <2>2. CASE \E new \in Written(u.cache) : file' = new
    BY <1>2, <2>2, WrittenRenewable DEF Renewals
  <2>3. QED
    BY <2>1, <2>2 DEF Write
<1>5. proc' = [proc EXCEPT ![p] = v]
  BY DEF Write
<1> HIDE DEF v
<1>6. QED
  BY <1>3, <1>4, <1>5, MovesWell

LEMMA EndWell ==
    ASSUME IInv, Renewals, NEW p \in Process, End(p)
    PROVE  Renewals' /\ TgtKept
<1>1. Keeps(proc[p], Idle)
  BY DEF Keeps
<1>2. proc' = [proc EXCEPT ![p] = Idle] /\ Renewable(file'.creds)
  BY DEF End, Renewals
<1>3. QED
  BY <1>1, <1>2, MovesWell

-----------------------------------------------------------------------------
LEMMA InitRenewals == Init => Renewals
BY EmptyRenewable DEF Init, Renewals, Blank

LEMMA NextRenewals == IInv /\ Renewals /\ [Next]_vars => Renewals' /\ TgtKept
<1> SUFFICES ASSUME IInv, Renewals, [Next]_vars PROVE Renewals' /\ TgtKept
  OBVIOUS
<1>1. ASSUME NEW p \in Process,
             \/ \E c \in Client : Begin(p, "kinit", c, Nobody)
             \/ \E c \in Client, s \in Service : Begin(p, "login", c, s)
             \/ \E command \in {"kvno", "kaccess"}, s \in Service :
                    Begin(p, command, Nobody, s)
             \/ \E command \in {"klist", "krenew", "kdestroy"} :
                    Begin(p, command, Nobody, Nobody)
      PROVE  Renewals' /\ TgtKept
  <2>1. PICK command \in Command, c \in Client \cup {Nobody}, s \in Service \cup {Nobody} :
            Begin(p, command, c, s)
    BY <1>1 DEF Command
  <2>2. QED
    BY <2>1, BeginWell
<1>2. ASSUME NEW p \in Process,
             \/ SendAsReq(p) \/ AsReply(p) \/ Destroy(p) \/ DropTgt(p)
             \/ List(p) \/ ListDrop(p) \/ Prompt(p) \/ Reuse(p) \/ Require(p)
             \/ HasTicket(p) \/ SendTgsReq(p) \/ TgsReply(p)
             \/ SendRenewal(p) \/ RenewReply(p) \/ SendApReq(p)
             \/ Write(p) \/ End(p)
      PROVE  Renewals' /\ TgtKept
  BY <1>2, GotoStepWell, ReplyWell, ClearWell, TicketWell, RequireWell, WriteWell, EndWell
<1>3. CASE Tick \/ UNCHANGED vars
  <2>1. UNCHANGED <<file, proc>>
    BY <1>3 DEF Tick, vars
  <2>2. QED
    BY <2>1 DEF Renewals, TgtKept
<1>4. QED
  BY <1>1, <1>2, <1>3 DEF Next

\* No running command but kdestroy forgets a TGT that is still good, however long the
\* lifetimes and however many processes share the cache: what get_tgt clears has
\* expired, and krenew gives up on what can no longer be renewed
\* (CredentialCache.clear, get_tgt).
THEOREM LiveTgtStays == Spec => LiveTgtKept
<1>1. TgtKept => \A p \in Process :
          /\ proc[p] # Idle /\ proc'[p] # Idle
          /\ \E tgt \in For(proc[p].cache, Tgs) : clock <= tgt.end
          /\ For(proc'[p].cache, Tgs) = {}
          => proc[p].command = "kdestroy"
  BY DEF TgtKept
<1>2. IInv /\ Renewals /\ [Next]_vars => TgtKept
  BY NextRenewals
<1>3. QED
  BY <1>1, <1>2, InitRenewals, NextRenewals, Invariant, PTL DEF Spec, LiveTgtKept

=============================================================================
