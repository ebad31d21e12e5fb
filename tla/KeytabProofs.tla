----------------------------- MODULE KeytabProofs -----------------------------
(***************************************************************************)
(* Proofs about Keytab for any number of administration processes, of      *)
(* principals, keys and aliases, and any width of a byte and a word.       *)
(*                                                                         *)
(* The argument: a key once known, to the database, to an open transaction *)
(* or to one that was lost, stays known; every process exports what was    *)
(* known when it set out and puts back what it has read, so that nothing   *)
(* else reaches the file.  On top of it (Exports), every slot that counts  *)
(* as kept is in the file, or in the hands of the one process that writes  *)
(* it; and of the entries in a slot, which all hold the slot's one key,    *)
(* load_keytab takes one.                                                  *)
(***************************************************************************)
EXTENDS Keytab, FiniteSetTheorems, TLAPS

\* The keys that are or were somewhere.
Known == used \cup lost \cup InFlight

\* A default service.
Default(p) == \E i \in 1..Len(DefaultServices) : DefaultServices[i] = p

\* Rows of one principal or of the default services: one of them is the last to
\* claim an alias.
Ranked(rows) ==
    \/ \E p \in Principal : \A r \in rows : r.principal = p
    \/ \A r \in rows : Default(r.principal)

\* What the process u exports and puts back is known.
Stems(u, known) ==
    u # Idle => u.todo \subseteq known /\ \A e \in u.raw : RowOf(e) \in known

\* A process that looks has something to look at; only one that does handles more
\* than one principal.
Orderly(u) ==
    u # Idle =>
        /\ u.pc = "look" => u.names # << >>
        /\ \/ u.names = << >> /\ \E p \in Principal : \A r \in u.pending : r.principal = p
           \/ /\ \A i \in 1..Len(u.names) : Default(u.names[i])
              /\ \A r \in u.pending : Default(r.principal)

\* The tables agree.
Tables ==
    /\ history \subseteq used
    /\ \A p \in Principal : Exists(p) => RowOfPrincipal(p) \in used
    /\ AliasesResolve

Sessions == \A s \in Session : Stems(sessions[s], Known) /\ Orderly(sessions[s])

\* The inductive invariant.
IInv == TypeOK /\ Tables /\ Sessions /\ KeytabGenuine

-----------------------------------------------------------------------------
(* The file *)

\* An entry holds what the row holds, and the file gives its kvno back.
LEMMA EntryHoldsRow ==
    ASSUME NEW row \in Row
    PROVE  EntryOf(row) \in Entry /\ RowOf(EntryOf(row)) = row
<1>1. /\ row.kvno \in Nat /\ 0 < row.kvno /\ row.kvno < WordRange
      /\ WordRange \in Nat /\ ByteRange \in Nat \ {0}
      /\ row.principal \in Principal /\ row.key \in Key
  BY WidthAssumption DEF Row, Kvno
<1>2. row.kvno % WordRange = row.kvno
  BY <1>1
<1>3. row.kvno % ByteRange \in 0..(ByteRange - 1)
  BY <1>1
<1>4. EntryOf(row) \in Entry
  BY <1>1, <1>2, <1>3 DEF EntryOf, Entry
<1>5. KvnoOf(EntryOf(row)) = row.kvno
  BY <1>1, <1>2 DEF KvnoOf, EntryOf
<1>6. RowOf(EntryOf(row)) = [principal |-> row.principal, kvno |-> row.kvno, key |-> row.key]
  BY <1>5 DEF RowOf, EntryOf
<1>7. QED
  BY <1>4, <1>6 DEF Row

\* What a file consists of once content was written over it.
LEMMA WrittenForm ==
    ASSUME NEW f, f.torn \in BOOLEAN, f.garbled \in BOOLEAN,
           NEW content, NEW garbled \in BOOLEAN,
           NEW g \in WrittenOver(content, garbled, f)
    PROVE  \E rest \in SUBSET f.entries, torn \in BOOLEAN, dirty \in BOOLEAN :
               g = [header |-> TRUE, entries |-> content \cup rest,
                    torn |-> torn, garbled |-> dirty]
<1> DEFINE Written(rest, torn, bad) ==
               [header |-> TRUE, entries |-> content \cup rest,
                torn |-> torn, garbled |-> garbled \/ bad]
<1>1. \/ g = Written({}, FALSE, FALSE)
      \/ \E torn \in BOOLEAN, bad \in BOOLEAN : g = Written({}, torn, bad)
      \/ \E rest \in SUBSET f.entries : g = Written(rest, f.torn, f.garbled)
  BY DEF WrittenOver
<1>2. {} \in SUBSET f.entries /\ FALSE \in BOOLEAN
  OBVIOUS
<1> HIDE DEF Written
<1>3. PICK rest \in SUBSET f.entries, torn \in BOOLEAN, bad \in BOOLEAN :
          g = Written(rest, torn, bad)
  BY <1>1, <1>2
<1>4. (garbled \/ bad) \in BOOLEAN
  OBVIOUS
<1> DEFINE dirty == garbled \/ bad
<1>5. g = [header |-> TRUE, entries |-> content \cup rest,
           torn |-> torn, garbled |-> dirty]
  BY <1>3 DEF Written
<1>6. dirty \in BOOLEAN
  BY <1>4
<1> HIDE DEF dirty
<1>7. QED
  BY <1>5, <1>6

\* write_keytab writes entries it has read and the new one.
LEMMA WrittenEntries ==
    ASSUME NEW f \in File, NEW raw \in SUBSET Entry, NEW garbled \in BOOLEAN,
           NEW row \in Row, NEW g \in WrittenOver(Rewritten(raw, row), garbled, f)
    PROVE  g \in File /\ g.entries \subseteq f.entries \cup raw \cup {EntryOf(row)}
<1> DEFINE content == Rewritten(raw, row)
<1>1. content \subseteq raw \cup {EntryOf(row)} /\ content \subseteq Entry
  BY EntryHoldsRow DEF Rewritten
<1>2. f.entries \subseteq Entry /\ f.torn \in BOOLEAN /\ f.garbled \in BOOLEAN
  BY DEF File
<1>3. g \in WrittenOver(content, garbled, f)
  OBVIOUS
<1> HIDE DEF content
<1>4. PICK rest \in SUBSET f.entries, torn \in BOOLEAN, dirty \in BOOLEAN :
          g = [header |-> TRUE, entries |-> content \cup rest,
               torn |-> torn, garbled |-> dirty]
  BY <1>2, <1>3, WrittenForm
<1>5. QED
  BY <1>1, <1>2, <1>4 DEF File

-----------------------------------------------------------------------------
(* The tables *)

\* Of several claimants of an alias there is a last one.
LEMMA LastClaimant ==
    ASSUME NEW ps \in SUBSET Principal, ps # {},
           (\E p \in Principal : ps \subseteq {p}) \/ \A p \in ps : Default(p)
    PROVE  LastOf(ps) \in ps
<1> DEFINE Later(q, p) == \E i, j \in DOMAIN DefaultServices :
                              i < j /\ DefaultServices[i] = q /\ DefaultServices[j] = p
<1>1. \E p \in ps : \A q \in ps : p = q \/ Later(q, p)
  <2>1. CASE \E p \in Principal : ps \subseteq {p}
    BY <2>1
  <2>2. CASE \A p \in ps : Default(p)
    <3> DEFINE last == Len(DefaultServices)
               T == {n \in Nat : \E i \in 1..last : DefaultServices[i] \in ps /\ n = last - i}
               R == OpToRel(<, Nat)
    <3>1. last \in Nat /\ DOMAIN DefaultServices = 1..last
      BY DefaultAssumption
    <3>2. T # {} /\ \A i \in 1..last : DefaultServices[i] \in ps => last - i \in T
      <4>1. PICK q \in ps : TRUE
        OBVIOUS
      <4>2. PICK k \in 1..last : DefaultServices[k] = q
        BY <2>2 DEF Default
      <4> HIDE DEF last
      <4>3. \A i \in 1..last : last - i \in Nat
        BY <3>1
      <4>4. QED
        BY <4>1, <4>2, <4>3
    <3>3. \A x, y \in Nat : y < x => <<y, x>> \in R
      BY DEF OpToRel
    <3>4. PICK n \in T : \A m \in T : <<m, n>> \notin R
      <4>1. IsWellFoundedOn(R, Nat)
        BY NatLessThanWellFounded
      <4> HIDE DEF R
      <4>2. QED
        BY <3>2, <4>1, WFMin
    <3> HIDE DEF R
    <3>5. PICK j \in 1..last : DefaultServices[j] \in ps /\ n = last - j
      OBVIOUS
    <3>6. \A q \in ps : DefaultServices[j] = q \/ Later(q, DefaultServices[j])
      <4> SUFFICES ASSUME NEW q \in ps, q # DefaultServices[j]
                   PROVE  Later(q, DefaultServices[j])
        OBVIOUS
      <4>1. PICK i \in 1..last : DefaultServices[i] = q
        BY <2>2 DEF Default
      <4>2. last - i \in T
        BY <3>2, <4>1
      <4>3. ~(last - i < n)
        BY <3>3, <3>4, <4>2
      <4>4. i < j
        BY <3>1, <3>5, <4>1, <4>3
      <4>5. QED
        BY <3>1, <4>1, <4>4
    <3>7. QED
      BY <3>5, <3>6
  <2>3. QED
    BY <2>1, <2>2
<1>2. QED
  BY <1>1 DEF LastOf

\* Rows that are applied leave the tables in agreement.
LEMMA ApplyKeeps ==
    ASSUME TypeOK, Tables, NEW rows \in SUBSET Row, Ranked(rows), Apply(rows)
    PROVE  /\ Tables'
           /\ principals' \in [Principal -> {Absent} \cup Record]
           /\ aliases' \in [Alias -> Principal \cup {Nobody}]
           /\ history' \subseteq Row /\ used' \subseteq Row
           /\ used' = used \cup rows
<1>1. used' = used \cup rows /\ used' \subseteq Row
  BY DEF Apply, TypeOK
<1>2. history' \subseteq Row /\ history' \subseteq used'
  BY DEF Apply, TypeOK, Tables
<1>3. ASSUME NEW p \in Principal
      PROVE  /\ principals'[p] \in {Absent} \cup Record
             /\ (\E r \in rows : r.principal = p) =>
                    \E r \in rows : /\ r.principal = p
                                    /\ principals'[p] = [kvno |-> r.kvno, key |-> r.key]
             /\ (~\E r \in rows : r.principal = p) => principals'[p] = principals[p]
  <2>1. CASE \E r \in rows : r.principal = p
    <3> DEFINE r == CHOOSE r \in rows : r.principal = p
    <3>1. r \in rows /\ r.principal = p
      BY <2>1
    <3>2. principals'[p] = [kvno |-> r.kvno, key |-> r.key]
      BY <2>1 DEF Apply
    <3> HIDE DEF r
    <3>3. QED
      BY <2>1, <3>1, <3>2 DEF Row, Record
  <2>2. CASE ~\E r \in rows : r.principal = p
    BY <2>2 DEF Apply, TypeOK
  <2>3. QED
    BY <2>1, <2>2
<1>4. principals' \in [Principal -> {Absent} \cup Record]
  BY <1>3 DEF Apply
<1>5. \A p \in Principal : Exists(p)' => RowOfPrincipal(p)' \in used'
  <2> SUFFICES ASSUME NEW p \in Principal, principals'[p] # Absent
               PROVE  RowOfPrincipal(p)' \in used'
    BY DEF Exists
  <2>1. CASE \E r \in rows : r.principal = p
    <3>1. PICK r \in rows : /\ r.principal = p
                            /\ principals'[p] = [kvno |-> r.kvno, key |-> r.key]
      BY <1>3, <2>1
    <3>2. RowOfPrincipal(p)' = r
      BY <3>1 DEF RowOfPrincipal, Row
    <3>3. QED
      BY <1>1, <3>2
  <2>2. CASE ~\E r \in rows : r.principal = p
    <3>1. principals'[p] = principals[p]
      BY <1>3, <2>2
    <3>2. QED
      BY <1>1, <3>1 DEF RowOfPrincipal, Tables, Exists
  <2>3. QED
    BY <2>1, <2>2
<1>6. ASSUME NEW a \in Alias
      PROVE  \/ /\ aliases'[a] = aliases[a]
                /\ \A r \in rows : a \notin aliasesOf[r.principal]
             \/ \E r \in rows : aliases'[a] = r.principal /\ a \in aliasesOf[r.principal]
  <2> DEFINE claimants == {p \in {r.principal : r \in rows} : a \in aliasesOf[p]}
  <2>1. aliases'[a] = IF claimants = {} THEN aliases[a] ELSE LastOf(claimants)
    BY DEF Apply, Claim
  <2>2. claimants \in SUBSET Principal
    BY DEF Row
  <2>3. (\E p \in Principal : claimants \subseteq {p}) \/ \A p \in claimants : Default(p)
    BY DEF Ranked
  <2>4. CASE claimants = {}
    BY <2>1, <2>4
  <2>5. CASE claimants # {}
    <3>1. aliases'[a] \in claimants
      <4> HIDE DEF claimants
      <4>1. QED
        BY <2>1, <2>2, <2>3, <2>5, LastClaimant
    <3>2. QED
      BY <3>1
  <2>6. QED
    BY <2>4, <2>5
<1>7. aliases' \in [Alias -> Principal \cup {Nobody}]
  <2>1. \A a \in Alias : aliases'[a] \in Principal \cup {Nobody}
    BY <1>6 DEF TypeOK, Row
  <2>2. QED
    BY <2>1 DEF Apply, Claim
<1>8. \A a \in Alias : aliases'[a] # Nobody =>
          principals'[aliases'[a]] # Absent /\ a \in aliasesOf[aliases'[a]]
  <2> SUFFICES ASSUME NEW a \in Alias, aliases'[a] # Nobody
               PROVE  principals'[aliases'[a]] # Absent /\ a \in aliasesOf[aliases'[a]]
    OBVIOUS
  <2>1. ASSUME NEW r \in rows
        PROVE  principals'[r.principal] # Absent
    <3>1. r.principal \in Principal
      BY DEF Row
    <3>2. PICK n \in rows : principals'[r.principal] = [kvno |-> n.kvno, key |-> n.key]
      BY <1>3, <3>1
    <3>3. n.kvno # 0
      BY WidthAssumption DEF Row, Kvno
    <3>4. QED
      BY <3>2, <3>3 DEF Absent
  <2>2. CASE aliases'[a] = aliases[a]
    <3>1. /\ aliases[a] \in Principal /\ principals[aliases[a]] # Absent
          /\ a \in aliasesOf[aliases[a]]
      BY <2>2 DEF Tables, AliasesResolve, Exists, TypeOK
    <3>2. principals'[aliases[a]] # Absent
      BY <1>3, <2>1, <3>1
    <3>3. QED
      BY <2>2, <3>1, <3>2
  <2>3. CASE \E r \in rows : aliases'[a] = r.principal /\ a \in aliasesOf[r.principal]
    BY <2>1, <2>3
  <2>4. QED
    BY <1>6, <2>2, <2>3
<1>9. ASSUME NEW p \in Principal, principals'[p] # Absent, NEW a \in aliasesOf[p]
      PROVE  \/ aliases'[a] = p
             \/ \E row \in used' : row.principal # p /\ a \in aliasesOf[row.principal]
  <2>1. a \in Alias
    BY <1>9, AliasAssumption
  <2>2. CASE \E r \in rows : aliases'[a] = r.principal /\ a \in aliasesOf[r.principal]
    BY <1>1, <2>2
  <2>3. CASE /\ aliases'[a] = aliases[a]
             /\ \A r \in rows : a \notin aliasesOf[r.principal]
    <3>1. principals[p] # Absent
      BY <1>3, <1>9, <2>3
    <3>2. \/ aliases[a] = p
          \/ \E row \in used : row.principal # p /\ a \in aliasesOf[row.principal]
      BY <1>9, <3>1 DEF Tables, AliasesResolve, Exists
    <3>3. QED
      BY <1>1, <2>3, <3>2
  <2>4. QED
    BY <1>6, <2>1, <2>2, <2>3
<1>10. AliasesResolve'
  BY <1>8, <1>9 DEF AliasesResolve, Exists
<1>11. QED
  BY <1>1, <1>2, <1>4, <1>5, <1>7, <1>10 DEF Tables

-----------------------------------------------------------------------------
(* The processes *)

\* The rows of the transaction of a process.
PendingOf(u) == IF u = Idle THEN {} ELSE u.pending

\* Two states of a process that differ in what others did at most.
Alike(u, v) ==
    /\ u = Idle <=> v = Idle
    /\ u # Idle => /\ u.pc = v.pc /\ u.names = v.names /\ u.todo = v.todo
                   /\ u.raw = v.raw /\ u.pending = v.pending

\* A process that runs is not idle.
LEMMA RunningType ==
    ASSUME NEW u \in {Idle} \cup Running
    PROVE  /\ u.pc # "idle" => u \in Running
           /\ u # Idle => u \in Running /\ u.pc # "idle"
           /\ u \in Running => u # Idle
BY DEF Idle, Running

LEMMA StemsGrow ==
    ASSUME NEW u, NEW known, NEW more, Stems(u, known), known \subseteq more
    PROVE  Stems(u, more)
BY DEF Stems

\* A process moves and the tables stay: what it had pending it still has, or it is
\* lost.
LEMMA ProcessMoves ==
    ASSUME IInv, NEW s \in Session, NEW u \in {Idle} \cup Running,
           sessions' \in [Session -> {Idle} \cup Running], sessions'[s] = u,
           \A r \in Session \ {s} : Alike(sessions'[r], sessions[r]),
           UNCHANGED db,
           lost \subseteq lost', lost' \subseteq Row,
           Pending(s) \subseteq PendingOf(u) \cup lost',
           Stems(u, Known \cup PendingOf(u)), Orderly(u),
           file' \in File, \A e \in file'.entries : RowOf(e) \in Known,
           commands' \in 0..MaxCommands, kept' \subseteq Slot
    PROVE  IInv'
<1>1. TypeOK /\ Tables /\ Sessions
  BY DEF IInv
<1>2. UNCHANGED <<principals, history, aliases, used>>
  BY DEF db
<1>3. TypeOK'
  BY <1>1, <1>2 DEF TypeOK
<1>4. Tables'
  BY <1>1, <1>2 DEF Tables, Exists, RowOfPrincipal, AliasesResolve
<1>5. \A r \in Session : Pending(r)' = PendingOf(sessions'[r])
  BY DEF Pending, PendingOf
<1>6. \A r \in Session \ {s} : Pending(r)' = Pending(r)
  BY <1>5 DEF Pending, PendingOf, Alike
<1>7. Known \subseteq Known' /\ PendingOf(u) \subseteq Known'
  <2>1. \A r \in Session : Pending(r) \subseteq lost' \cup InFlight'
    <3>1. ASSUME NEW r \in Session PROVE Pending(r)' \subseteq InFlight'
      BY DEF InFlight
    <3>2. QED
      BY <1>5, <1>6, <3>1
  <2>2. InFlight \subseteq lost' \cup InFlight'
    BY <2>1 DEF InFlight
  <2>3. PendingOf(u) \subseteq InFlight'
    BY <1>5 DEF InFlight
  <2> HIDE DEF InFlight
  <2>4. QED
    BY <1>2, <2>2, <2>3 DEF Known
<1>8. Sessions'
  <2> SUFFICES ASSUME NEW r \in Session
               PROVE  Stems(sessions'[r], Known') /\ Orderly(sessions'[r])
    BY DEF Sessions
  <2>1. CASE r = s
    <3>1. Known \cup PendingOf(u) \subseteq Known'
      BY <1>7
    <3>2. QED
      BY <2>1, <3>1, StemsGrow
  <2>2. CASE r # s
    <3>1. Stems(sessions[r], Known) /\ Orderly(sessions[r])
      BY <1>1 DEF Sessions
    <3>2. Stems(sessions[r], Known')
      BY <1>7, <3>1, StemsGrow
    <3>3. Alike(sessions'[r], sessions[r])
      BY <2>2
    <3>4. QED
      BY <3>1, <3>2, <3>3 DEF Alike, Stems, Orderly
  <2>3. QED
    BY <2>1, <2>2
<1>9. KeytabGenuine'
  <2>1. \A e \in file'.entries : RowOf(e) \in Known'
    BY <1>7
  <2>2. QED
    BY <2>1 DEF KeytabGenuine, Known
<1>10. QED
  BY <1>3, <1>4, <1>8, <1>9 DEF IInv

\* It does so alone, without the file.
LEMMA ProcessAlone ==
    ASSUME IInv, NEW s \in Session, NEW u \in {Idle} \cup Running,
           sessions' = [sessions EXCEPT ![s] = u],
           UNCHANGED <<db, file>>,
           lost \subseteq lost', lost' \subseteq Row,
           Pending(s) \subseteq PendingOf(u) \cup lost',
           Stems(u, Known \cup PendingOf(u)), Orderly(u),
           commands' \in 0..MaxCommands, kept' \subseteq Slot
    PROVE  IInv'
<1>1. /\ sessions' \in [Session -> {Idle} \cup Running] /\ sessions'[s] = u
      /\ \A r \in Session \ {s} : sessions'[r] = sessions[r]
  BY DEF IInv, TypeOK
<1>2. \A r \in Session \ {s} : Alike(sessions'[r], sessions[r])
  BY <1>1 DEF Alike
<1>3. file' \in File /\ \A e \in file'.entries : RowOf(e) \in Known
  BY DEF IInv, TypeOK, KeytabGenuine, Known
<1>4. QED
  BY <1>1, <1>2, <1>3, ProcessMoves

LEMMA GiveType ==
    ASSUME TypeOK, Give
    PROVE  commands' \in 0..MaxCommands
<1>1. commands \in 0..MaxCommands /\ MaxCommands \in Nat
  BY BoundAssumption DEF TypeOK
<1>2. commands < MaxCommands /\ commands' = commands + 1
  BY DEF Give
<1>3. QED
  BY <1>1, <1>2

\* A command begins: what it is to export is known or its own.
LEMMA Begins ==
    ASSUME IInv, NEW s \in Session, sessions[s] = Idle, Give, NEW u \in Running,
           sessions' = [sessions EXCEPT ![s] = u],
           UNCHANGED <<db, file, lost, kept>>,
           u.todo \subseteq Known \cup u.pending, u.raw = {}, Orderly(u)
    PROVE  IInv'
<1>1. u # Idle
  BY RunningType
<1>2. PendingOf(u) = u.pending /\ Pending(s) = {}
  BY <1>1 DEF PendingOf, Pending
<1>3. Stems(u, Known \cup PendingOf(u))
  BY <1>2 DEF Stems
<1>4. lost' \subseteq Row /\ kept' \subseteq Slot /\ commands' \in 0..MaxCommands
  BY GiveType DEF IInv, TypeOK
<1>5. QED
  BY <1>1, <1>2, <1>3, <1>4, ProcessAlone

\* ktadd is given, a service added or the KDC started.
LEMMA BeginStep ==
    ASSUME IInv, NEW s \in Session,
           \/ \E name \in Name, all \in BOOLEAN : Ktadd(s, name, all)
           \/ \E p \in Principal, key \in Key : WebAdd(s, p, key)
           \/ Start(s)
    PROVE  IInv'
<1>1. TypeOK /\ Tables
  BY DEF IInv
<1>2. ASSUME NEW name \in Name, NEW all \in BOOLEAN, Ktadd(s, name, all)
      PROVE  IInv'
  <2>1. PICK p \in Principal :
            /\ Exists(p) /\ sessions[s] = Idle /\ Give
            /\ sessions' = [sessions EXCEPT ![s] =
                   [pc |-> "export", names |-> << >>,
                    todo |-> IF all THEN {r \in history : r.principal = p}
                                    ELSE {RowOfPrincipal(p)},
                    raw |-> {}, garbled |-> FALSE, pending |-> {}, overlapped |-> FALSE]]
            /\ UNCHANGED <<db, file, lost, kept>>
    BY <1>2 DEF Ktadd, Resolve
  <2> DEFINE todo == IF all THEN {r \in history : r.principal = p} ELSE {RowOfPrincipal(p)}
  <2>2. todo \subseteq used /\ todo \subseteq Row
    BY <1>1, <2>1 DEF Tables, TypeOK
  <2> DEFINE u == [pc |-> "export", names |-> << >>, todo |-> todo, raw |-> {},
                   garbled |-> FALSE, pending |-> {}, overlapped |-> FALSE]
  <2>3. u \in Running
    BY <2>2 DEF Running
  <2>4. Orderly(u) /\ u.todo \subseteq Known \cup u.pending /\ u.raw = {}
    BY <2>1, <2>2 DEF Orderly, Known
  <2>5. sessions' = [sessions EXCEPT ![s] = u]
    BY <2>1
  <2> HIDE DEF u
  <2>6. QED
    BY <2>1, <2>3, <2>4, <2>5, Begins
<1>3. ASSUME NEW p \in Principal, NEW key \in Key, WebAdd(s, p, key)
      PROVE  IInv'
  <2> DEFINE row == [principal |-> p, kvno |-> 1, key |-> key]
             u == [pc |-> "export", names |-> << >>, todo |-> {row}, raw |-> {},
                   garbled |-> FALSE, pending |-> {row}, overlapped |-> FALSE]
  <2>1. row \in Row /\ row.principal = p
    BY WidthAssumption DEF Row, Kvno
  <2>2. /\ sessions[s] = Idle /\ Give
        /\ sessions' = [sessions EXCEPT ![s] = u]
        /\ UNCHANGED <<db, file, lost, kept>>
    BY <1>3 DEF WebAdd
  <2> HIDE DEF row
  <2>3. u \in Running
    BY <2>1 DEF Running
  <2>4. Orderly(u) /\ u.todo \subseteq Known \cup u.pending /\ u.raw = {}
    BY <2>1 DEF Orderly
  <2> HIDE DEF u
  <2>5. QED
    BY <2>2, <2>3, <2>4, Begins
<1>4. ASSUME Start(s)
      PROVE  IInv'
  <2> DEFINE u == [pc |-> "look", names |-> DefaultServices, todo |-> {}, raw |-> {},
                   garbled |-> FALSE, pending |-> {}, overlapped |-> FALSE]
  <2>1. u \in Running
    BY DefaultAssumption DEF Running
  <2>2. Orderly(u) /\ u.todo \subseteq Known \cup u.pending /\ u.raw = {}
    BY DefaultAssumption DEF Orderly, Default
  <2>3. /\ sessions[s] = Idle /\ Give
        /\ sessions' = [sessions EXCEPT ![s] = u]
        /\ UNCHANGED <<db, file, lost, kept>>
    BY <1>4 DEF Start
  <2> HIDE DEF u
  <2>4. QED
    BY <2>1, <2>2, <2>3, Begins
<1>5. QED
  BY <1>2, <1>3, <1>4

\* The next default service is looked at.
LEMMA LookStep ==
    ASSUME IInv, NEW s \in Session, Look(s)
    PROVE  IInv'
<1> DEFINE u == sessions[s]
           p == Head(u.names)
           row == IF Exists(p) THEN RowOfPrincipal(p)
                  ELSE [principal |-> p, kvno |-> 1, key |-> Bootstrap]
           v == [u EXCEPT !.pc = "export", !.names = Tail(@), !.todo = {row},
                          !.pending = IF Exists(p) THEN @ ELSE @ \cup {row}]
<1>1. /\ u \in Running /\ u # Idle /\ u.pc = "look"
      /\ Stems(u, Known) /\ Orderly(u)
  BY RunningType DEF IInv, TypeOK, Look, Sessions
<1>2. /\ u.names \in Seq(Principal) /\ u.names # << >>
      /\ \A i \in 1..Len(u.names) : Default(u.names[i])
      /\ \A r \in u.pending : Default(r.principal)
      /\ u.pending \subseteq Row /\ u.raw \subseteq Entry
  BY <1>1 DEF Orderly, Running
<1>3. /\ p \in Principal /\ Default(p) /\ Tail(u.names) \in Seq(Principal)
      /\ \A i \in 1..Len(Tail(u.names)) : Default(Tail(u.names)[i])
  <2>1. /\ p = u.names[1] /\ 1 \in 1..Len(u.names) /\ p \in Principal
        /\ Tail(u.names) \in Seq(Principal)
    BY <1>2
  <2>2. \A i \in 1..Len(Tail(u.names)) :
            i + 1 \in 1..Len(u.names) /\ Tail(u.names)[i] = u.names[i + 1]
    BY <1>2
  <2>3. QED
    BY <1>2, <2>1, <2>2
<1>4. /\ row \in Row /\ row.principal = p /\ (Exists(p) => row \in used)
  <2>1. CASE Exists(p)
    <3>1. row = RowOfPrincipal(p)
      BY <2>1
    <3>2. RowOfPrincipal(p) \in used /\ RowOfPrincipal(p).principal = p
      BY <1>3, <2>1 DEF IInv, Tables, RowOfPrincipal
    <3>3. QED
      BY <3>1, <3>2 DEF IInv, TypeOK
  <2>2. CASE ~Exists(p)
    BY <1>3, <2>2, DefaultAssumption, WidthAssumption DEF Row, Kvno
  <2>3. QED
    BY <2>1, <2>2
<1>5. /\ sessions' = [sessions EXCEPT ![s] = v]
      /\ UNCHANGED <<db, file, commands, lost, kept>>
  BY DEF Look
<1> HIDE DEF row, p
<1>6. /\ v \in Running /\ v.pc = "export" /\ v.names = Tail(u.names)
      /\ v.todo = {row} /\ v.raw = u.raw
      /\ v.pending = IF Exists(p) THEN u.pending ELSE u.pending \cup {row}
  <2> HIDE DEF u
  <2>1. v \in Running
    BY <1>1, <1>2, <1>3, <1>4 DEF Running
  <2>2. QED
    BY <1>1, <2>1 DEF Running
<1> HIDE DEF v
<1>7. v # Idle
  BY <1>6, RunningType
<1>8. Orderly(v)
  BY <1>2, <1>3, <1>4, <1>6 DEF Orderly
<1>9. Stems(v, Known \cup PendingOf(v)) /\ Pending(s) \subseteq PendingOf(v)
  BY <1>1, <1>4, <1>6, <1>7 DEF Stems, PendingOf, Pending, Known
<1>10. lost' \subseteq Row /\ kept' \subseteq Slot /\ commands' \in 0..MaxCommands
  BY <1>5 DEF IInv, TypeOK
<1>11. QED
  BY <1>5, <1>6, <1>8, <1>9, <1>10, ProcessAlone

\* The file is read.
LEMMA ReadStep ==
    ASSUME IInv, NEW s \in Session, ReadEntries(s)
    PROVE  IInv'
<1> DEFINE u == sessions[s]
           v == [u EXCEPT !.pc = "raw", !.raw = RawEntries(file), !.garbled = file.garbled,
                     !.overlapped = FALSE]
<1>1. /\ u \in Running /\ u # Idle /\ u.pc = "export"
      /\ Stems(u, Known) /\ Orderly(u)
  BY RunningType DEF IInv, TypeOK, ReadEntries, Sessions
<1>2. /\ RawEntries(file) \subseteq Entry /\ file.garbled \in BOOLEAN
      /\ \A e \in RawEntries(file) : RowOf(e) \in Known
  BY DEF RawEntries, IInv, TypeOK, File, KeytabGenuine, Known
<1>3. /\ sessions' = [sessions EXCEPT ![s] = v]
      /\ UNCHANGED <<db, file, commands, lost, kept>>
  BY DEF ReadEntries
<1>4. /\ v \in Running /\ v.pc = "raw" /\ v.names = u.names
      /\ v.todo = u.todo /\ v.raw = RawEntries(file) /\ v.pending = u.pending
  <2> HIDE DEF u
  <2>1. QED
    BY <1>1, <1>2 DEF Running
<1> HIDE DEF v
<1>5. v # Idle
  BY <1>4, RunningType
<1>6. Orderly(v)
  BY <1>1, <1>4 DEF Orderly
<1>7. Stems(v, Known \cup PendingOf(v)) /\ Pending(s) \subseteq PendingOf(v)
  BY <1>1, <1>2, <1>4, <1>5 DEF Stems, PendingOf, Pending
<1>8. lost' \subseteq Row /\ kept' \subseteq Slot /\ commands' \in 0..MaxCommands
  BY <1>3 DEF IInv, TypeOK
<1>9. QED
  BY <1>3, <1>4, <1>6, <1>7, <1>8, ProcessAlone

\* Writing the file leaves a mark at most with the others.
LEMMA OthersNotice ==
    ASSUME TypeOK, NEW s \in Session, NEW v \in {Idle} \cup Running,
           sessions' = Overlapping(s, v)
    PROVE  /\ sessions' \in [Session -> {Idle} \cup Running] /\ sessions'[s] = v
           /\ \A r \in Session \ {s} : Alike(sessions'[r], sessions[r])
<1>1. sessions'[s] = v /\ sessions' = [r \in Session |-> sessions'[r]]
  BY DEF Overlapping
<1>2. ASSUME NEW r \in Session \ {s}
      PROVE  /\ sessions'[r] \in {Idle} \cup Running
             /\ Alike(sessions'[r], sessions[r])
  <2>1. sessions[r] \in {Idle} \cup Running
    BY DEF TypeOK
  <2>2. CASE sessions[r].pc \in {"raw", "open"}
    <3> DEFINE w == [sessions[r] EXCEPT !.overlapped = TRUE]
    <3>1. sessions'[r] = w
      BY <2>2 DEF Overlapping
    <3>2. sessions[r] \in Running /\ sessions[r] # Idle
      BY <2>1, <2>2, RunningType
    <3>3. /\ w \in Running /\ w.pc = sessions[r].pc /\ w.names = sessions[r].names
          /\ w.todo = sessions[r].todo /\ w.raw = sessions[r].raw
          /\ w.pending = sessions[r].pending
      BY <3>2 DEF Running
    <3>4. w # Idle
      BY <3>3, RunningType
    <3>5. QED
      BY <3>1, <3>2, <3>3, <3>4 DEF Alike
  <2>3. CASE sessions[r].pc \notin {"raw", "open"}
    <3>1. sessions'[r] = sessions[r]
      BY <2>3 DEF Overlapping
    <3>2. QED
      BY <2>1, <3>1 DEF Alike
  <2>4. QED
    BY <2>2, <2>3
<1>3. QED
  BY <1>1, <1>2

\* The file is emptied.
LEMMA OpenStep ==
    ASSUME IInv, NEW s \in Session, OpenFile(s)
    PROVE  IInv'
<1> DEFINE u == sessions[s]
           v == [u EXCEPT !.pc = "open"]
<1>1. /\ u \in Running /\ u # Idle /\ u.pc = "raw"
      /\ Stems(u, Known) /\ Orderly(u)
  BY RunningType DEF IInv, TypeOK, OpenFile, Sessions
<1>2. /\ sessions' = Overlapping(s, v) /\ file' = Emptied
      /\ UNCHANGED <<db, commands, lost, kept>>
  BY DEF OpenFile
<1>3. /\ v \in Running /\ v.pc = "open" /\ v.names = u.names
      /\ v.todo = u.todo /\ v.raw = u.raw /\ v.pending = u.pending
  <2> HIDE DEF u
  <2>1. QED
    BY <1>1 DEF Running
<1> HIDE DEF v
<1>4. v # Idle
  BY <1>3, RunningType
<1>5. Orderly(v)
  BY <1>1, <1>3 DEF Orderly
<1>6. Stems(v, Known \cup PendingOf(v)) /\ Pending(s) \subseteq PendingOf(v)
  BY <1>1, <1>3, <1>4 DEF Stems, PendingOf, Pending
<1>7. lost' \subseteq Row /\ kept' \subseteq Slot /\ commands' \in 0..MaxCommands
  BY <1>2 DEF IInv, TypeOK
<1>8. file' \in File /\ file'.entries = {}
  BY <1>2 DEF Emptied, File
<1>9. /\ sessions' \in [Session -> {Idle} \cup Running] /\ sessions'[s] = v
      /\ \A r \in Session \ {s} : Alike(sessions'[r], sessions[r])
  BY <1>2, <1>3, OthersNotice DEF IInv
<1>10. QED
  BY <1>2, <1>3, <1>5, <1>6, <1>7, <1>8, <1>9, ProcessMoves

\* Where a process goes after an export.
LEMMA GoesOn ==
    ASSUME NEW u \in Running, Orderly(u), NEW row \in u.todo
    PROVE  LET rest == [u EXCEPT !.todo = @ \ {row}, !.raw = {}, !.garbled = FALSE]
               v == IF rest.todo = {} THEN Afterwards(rest)
                    ELSE [rest EXCEPT !.pc = "export"]
           IN  /\ v \in {Idle} \cup Running /\ Orderly(v)
               /\ u.pending \subseteq PendingOf(v)
               /\ v # Idle => v.todo \subseteq u.todo /\ v.raw = {}
<1> DEFINE rest == [u EXCEPT !.todo = @ \ {row}, !.raw = {}, !.garbled = FALSE]
           v == IF rest.todo = {} THEN Afterwards(rest)
                ELSE [rest EXCEPT !.pc = "export"]
<1>1. /\ rest \in Running /\ rest.names = u.names /\ rest.pending = u.pending
      /\ rest.todo \subseteq u.todo /\ rest.raw = {}
  BY DEF Running
<1>2. /\ u.pc = "look" => u.names # << >>
      /\ \/ u.names = << >> /\ \E p \in Principal : \A r \in u.pending : r.principal = p
         \/ /\ \A i \in 1..Len(u.names) : Default(u.names[i])
            /\ \A r \in u.pending : Default(r.principal)
  BY RunningType DEF Orderly
<1> HIDE DEF rest
<1>3. \/ v = Idle /\ rest.pending = {}
      \/ \E pc \in {"export", "look", "commit"} :
             v = [rest EXCEPT !.pc = pc] /\ (pc = "look" => rest.names # << >>)
  BY DEF Afterwards
<1> HIDE DEF v
<1>4. ASSUME v = Idle, rest.pending = {}
      PROVE  /\ v \in {Idle} \cup Running /\ Orderly(v)
             /\ u.pending \subseteq PendingOf(v)
             /\ v # Idle => v.todo \subseteq u.todo /\ v.raw = {}
  BY <1>1, <1>4 DEF Orderly, PendingOf
<1>5. ASSUME NEW pc \in {"export", "look", "commit"},
             v = [rest EXCEPT !.pc = pc], pc = "look" => rest.names # << >>
      PROVE  /\ v \in {Idle} \cup Running /\ Orderly(v)
             /\ u.pending \subseteq PendingOf(v)
             /\ v # Idle => v.todo \subseteq u.todo /\ v.raw = {}
  <2>1. /\ v \in Running /\ v.pc = pc /\ v.names = u.names /\ v.pending = u.pending
        /\ v.todo = rest.todo /\ v.raw = {}
    BY <1>1, <1>5 DEF Running
  <2>2. v # Idle
    BY <2>1, RunningType
  <2>3. Orderly(v)
    BY <1>1, <1>2, <1>5, <2>1 DEF Orderly
  <2>4. QED
    BY <1>1, <2>1, <2>2, <2>3 DEF PendingOf
<1>6. /\ v \in {Idle} \cup Running /\ Orderly(v)
      /\ u.pending \subseteq PendingOf(v)
      /\ v # Idle => v.todo \subseteq u.todo /\ v.raw = {}
  BY <1>3, <1>4, <1>5
<1>7. QED
  BY <1>6 DEF rest, v

\* The file is written and closed.
LEMMA CloseStep ==
    ASSUME IInv, NEW s \in Session, CloseFile(s)
    PROVE  IInv'
<1> DEFINE u == sessions[s]
<1>1. /\ u \in Running /\ u # Idle /\ u.pc = "open"
      /\ Stems(u, Known) /\ Orderly(u)
  BY RunningType DEF IInv, TypeOK, CloseFile, Sessions
<1>2. PICK row \in Row :
          /\ row \in u.todo
          /\ file' \in WrittenOver(Rewritten(u.raw, row), u.garbled, file)
          /\ kept' = IF u.overlapped THEN Found(file', kept \cup {SlotOf(row)})
                     ELSE kept \cup {SlotOf(row)}
          /\ LET rest == [u EXCEPT !.todo = @ \ {row}, !.raw = {}, !.garbled = FALSE]
             IN  sessions' = Overlapping(s,
                     IF rest.todo = {} THEN Afterwards(rest)
                     ELSE [rest EXCEPT !.pc = "export"])
          /\ UNCHANGED <<db, commands, lost>>
  BY DEF CloseFile, IsNext
<1> DEFINE rest == [u EXCEPT !.todo = @ \ {row}, !.raw = {}, !.garbled = FALSE]
           v == IF rest.todo = {} THEN Afterwards(rest)
                ELSE [rest EXCEPT !.pc = "export"]
<1>3. sessions' = Overlapping(s, v)
  BY <1>2
<1>4. /\ v \in {Idle} \cup Running /\ Orderly(v)
      /\ u.pending \subseteq PendingOf(v)
      /\ v # Idle => v.todo \subseteq u.todo /\ v.raw = {}
  BY <1>1, <1>2, GoesOn
<1> HIDE DEF rest, v
<1>5. Stems(v, Known \cup PendingOf(v)) /\ Pending(s) \subseteq PendingOf(v)
  BY <1>1, <1>4 DEF Stems, Pending
<1>6. /\ file' \in File
      /\ \A e \in file'.entries : RowOf(e) \in Known
  <2>1. file \in File /\ u.raw \in SUBSET Entry /\ u.garbled \in BOOLEAN
    BY <1>1 DEF IInv, TypeOK, Running
  <2>2. file' \in File /\ file'.entries \subseteq file.entries \cup u.raw \cup {EntryOf(row)}
    BY <1>2, <2>1, WrittenEntries
  <2>3. RowOf(EntryOf(row)) \in Known
    BY <1>1, <1>2, EntryHoldsRow DEF Stems
  <2>4. QED
    BY <1>1, <2>2, <2>3 DEF Stems, IInv, KeytabGenuine, Known
<1>7. kept' \subseteq Slot
  <2>1. SlotOf(row) \in Slot
    BY WidthAssumption DEF SlotOf, Slot, Row, Kvno
  <2>2. kept' \subseteq kept \cup {SlotOf(row)}
    BY <1>2 DEF Found
  <2>3. QED
    BY <2>1, <2>2 DEF IInv, TypeOK
<1>8. lost' \subseteq Row /\ commands' \in 0..MaxCommands
  BY <1>2 DEF IInv, TypeOK
<1>9. /\ sessions' \in [Session -> {Idle} \cup Running] /\ sessions'[s] = v
      /\ \A r \in Session \ {s} : Alike(sessions'[r], sessions[r])
  BY <1>3, <1>4, OthersNotice DEF IInv
<1>10. QED
  BY <1>2, <1>4, <1>5, <1>6, <1>7, <1>8, <1>9, ProcessMoves

\* A process dies.
LEMMA FailStep ==
    ASSUME IInv, NEW s \in Session, Fail(s)
    PROVE  IInv'
<1>1. /\ sessions[s] # Idle /\ sessions[s] \in Running
      /\ sessions' = [sessions EXCEPT ![s] = Idle]
      /\ lost' = lost \cup sessions[s].pending
      /\ kept' \subseteq kept
      /\ UNCHANGED <<db, file, commands>>
  BY DEF IInv, TypeOK, Fail, Found
<1>2. Pending(s) \subseteq PendingOf(Idle) \cup lost'
  BY <1>1 DEF Pending
<1>3. Stems(Idle, Known \cup PendingOf(Idle)) /\ Orderly(Idle)
  BY DEF Stems, Orderly
<1>4. lost' \subseteq Row /\ kept' \subseteq Slot /\ commands' \in 0..MaxCommands
  BY <1>1 DEF IInv, TypeOK, Running
<1>5. lost \subseteq lost'
  BY <1>1
<1>6. QED
  BY <1>1, <1>2, <1>3, <1>4, <1>5, ProcessAlone

-----------------------------------------------------------------------------
(* The tables change *)

\* The processes stay as they are, but for one that was to apply the rows.
Finished(rows) ==
    \A r \in Session :
        \/ sessions'[r] = sessions[r]
        \/ sessions'[r] = Idle /\ Pending(r) \subseteq rows

\* Rows are committed, from a process or without one.
LEMMA Applied ==
    ASSUME IInv, NEW rows \in SUBSET Row, Ranked(rows), Apply(rows),
           UNCHANGED <<file, lost>>, commands' \in 0..MaxCommands, kept' \subseteq Slot,
           sessions' \in [Session -> {Idle} \cup Running],
           Finished(rows)
    PROVE  IInv'
<1>1. TypeOK /\ Tables /\ Sessions
  BY DEF IInv
<1>2. /\ Tables'
      /\ principals' \in [Principal -> {Absent} \cup Record]
      /\ aliases' \in [Alias -> Principal \cup {Nobody}]
      /\ history' \subseteq Row /\ used' \subseteq Row
      /\ used' = used \cup rows
  BY <1>1, ApplyKeeps
<1>3. TypeOK'
  BY <1>1, <1>2 DEF TypeOK
<1>4. Known \subseteq Known'
  <2>1. ASSUME NEW r \in Session
        PROVE  Pending(r) \subseteq used' \cup InFlight'
    <3> USE DEF Finished
    <3>1. CASE sessions'[r] = sessions[r]
      <4>1. Pending(r)' = Pending(r)
        BY <3>1 DEF Pending
      <4>2. Pending(r)' \subseteq InFlight'
        BY DEF InFlight
      <4>3. QED
        BY <4>1, <4>2
    <3>2. CASE Pending(r) \subseteq rows
      BY <1>2, <3>2
    <3>3. QED
      BY <3>1, <3>2
  <2>2. InFlight \subseteq used' \cup InFlight'
    BY <2>1 DEF InFlight
  <2> HIDE DEF InFlight
  <2>3. QED
    BY <1>2, <2>2 DEF Known
<1>5. Sessions'
  <2> SUFFICES ASSUME NEW r \in Session
               PROVE  Stems(sessions'[r], Known') /\ Orderly(sessions'[r])
    BY DEF Sessions
  <2>1. CASE sessions'[r] = sessions[r]
    BY <1>1, <1>4, <2>1, StemsGrow DEF Sessions
  <2>2. CASE sessions'[r] = Idle
    BY <2>2 DEF Stems, Orderly
  <2>3. QED
    BY <2>1, <2>2 DEF Finished
<1>6. KeytabGenuine'
  <2>1. \A e \in file'.entries : RowOf(e) \in Known'
    BY <1>4 DEF IInv, KeytabGenuine, Known
  <2>2. QED
    BY <2>1 DEF KeytabGenuine, Known
<1>7. QED
  BY <1>2, <1>3, <1>5, <1>6 DEF IInv

\* A transaction commits.
LEMMA CommitStep ==
    ASSUME IInv, NEW s \in Session, Commit(s)
    PROVE  IInv'
<1> DEFINE u == sessions[s]
<1>1. /\ u \in Running /\ u # Idle /\ Orderly(u)
  BY RunningType DEF IInv, TypeOK, Commit, Sessions
<1>2. /\ Apply(u.pending) /\ sessions' = [sessions EXCEPT ![s] = Idle]
      /\ UNCHANGED <<file, commands, lost, kept>>
  BY DEF Commit
<1>3. u.pending \in SUBSET Row /\ Ranked(u.pending)
  BY <1>1 DEF Running, Orderly, Ranked
<1>4. /\ sessions' \in [Session -> {Idle} \cup Running]
      /\ \A r \in Session : sessions'[r] = IF r = s THEN Idle ELSE sessions[r]
  BY <1>2 DEF IInv, TypeOK
<1>5. Pending(s) \subseteq u.pending
  BY DEF Pending
<1>6. Finished(u.pending)
  BY <1>4, <1>5 DEF Finished
<1>7. /\ commands' \in 0..MaxCommands /\ kept' \subseteq Slot
      /\ UNCHANGED <<file, lost>>
  BY <1>2 DEF IInv, TypeOK
<1> HIDE DEF u
<1>8. QED
  BY <1>2, <1>3, <1>4, <1>6, <1>7, Applied

\* A password changes, or a principal is added without the keytab.
LEMMA ChangeStep ==
    ASSUME IInv,
           \/ \E name \in Name, key \in Key : ChangePassword(name, key)
           \/ \E p \in Principal, key \in Key : Add(p, key)
    PROVE  IInv'
<1>1. PICK row \in Row :
          Apply({row}) /\ Give /\ UNCHANGED <<file, sessions, lost, kept>>
  <2>1. ASSUME NEW name \in Name, NEW key \in Key, ChangePassword(name, key)
        PROVE  \E row \in Row : Apply({row}) /\ Give
                               /\ UNCHANGED <<file, sessions, lost, kept>>
    <3>1. PICK p \in Principal :
              /\ Exists(p) /\ principals[p].kvno < MaxKvno
              /\ Apply({[principal |-> p, kvno |-> principals[p].kvno + 1, key |-> key]})
              /\ Give /\ UNCHANGED <<file, sessions, lost, kept>>
      BY <2>1 DEF ChangePassword, Resolve
    <3>2. principals[p].kvno \in Kvno
      BY <3>1 DEF IInv, TypeOK, Exists, Record
    <3>3. principals[p].kvno + 1 \in Kvno
      BY <3>1, <3>2, BoundAssumption, WidthAssumption DEF Kvno
    <3>4. [principal |-> p, kvno |-> principals[p].kvno + 1, key |-> key] \in Row
      BY <3>3 DEF Row
    <3>5. QED
      BY <3>1, <3>4
  <2>2. ASSUME NEW p \in Principal, NEW key \in Key, Add(p, key)
        PROVE  \E row \in Row : Apply({row}) /\ Give
                               /\ UNCHANGED <<file, sessions, lost, kept>>
    <3>1. [principal |-> p, kvno |-> 1, key |-> key] \in Row
      BY WidthAssumption DEF Row, Kvno
    <3>2. QED
      BY <2>2, <3>1 DEF Add
  <2>3. QED
    BY <2>1, <2>2
<1>2. Ranked({row})
  BY DEF Ranked, Row
<1>3. /\ commands' \in 0..MaxCommands /\ kept' \subseteq Slot
      /\ sessions' \in [Session -> {Idle} \cup Running]
      /\ UNCHANGED <<file, lost>>
  BY <1>1, GiveType DEF IInv, TypeOK
<1> DEFINE rows == {row}
<1>4. rows \in SUBSET Row /\ Apply(rows) /\ Ranked(rows) /\ Finished(rows)
  BY <1>1, <1>2 DEF Finished
<1> HIDE DEF rows
<1>5. QED
  BY <1>3, <1>4, Applied

\* A principal is deleted, its aliases with it.
LEMMA DeleteStep ==
    ASSUME IInv, NEW name \in Name, Delete(name)
    PROVE  IInv'
<1>1. PICK p \in Principal :
          /\ Give
          /\ principals' = [principals EXCEPT ![p] = Absent]
          /\ aliases' = [a \in Alias |-> IF aliases[a] = p THEN Nobody ELSE aliases[a]]
          /\ UNCHANGED <<history, used, file, sessions, lost, kept>>
  BY DEF Delete, Resolve
<1>2. TypeOK /\ Tables /\ Sessions /\ KeytabGenuine
  BY DEF IInv
<1>3. TypeOK'
  BY <1>1, <1>2, GiveType DEF TypeOK
<1>4. \A q \in Principal : principals'[q] = IF q = p THEN Absent ELSE principals[q]
  BY <1>1, <1>2 DEF TypeOK
<1>5. \A a \in Alias : aliases'[a] = IF aliases[a] = p THEN Nobody ELSE aliases[a]
  BY <1>1
<1>6. AliasesResolve'
  <2>1. \A a \in Alias : aliases'[a] # Nobody =>
            /\ principals'[aliases'[a]] # Absent /\ a \in aliasesOf[aliases'[a]]
    <3> SUFFICES ASSUME NEW a \in Alias, aliases'[a] # Nobody
                 PROVE  /\ principals'[aliases'[a]] # Absent
                        /\ a \in aliasesOf[aliases'[a]]
      OBVIOUS
    <3>1. aliases'[a] = aliases[a] /\ aliases[a] # p /\ aliases[a] \in Principal
      BY <1>2, <1>5 DEF TypeOK
    <3>2. QED
      BY <1>2, <1>4, <3>1 DEF Tables, AliasesResolve, Exists
  <2>2. ASSUME NEW q \in Principal, principals'[q] # Absent, NEW a \in aliasesOf[q]
        PROVE  \/ aliases'[a] = q
               \/ \E row \in used' : row.principal # q /\ a \in aliasesOf[row.principal]
    <3>1. q # p /\ principals[q] # Absent
      BY <1>4, <2>2
    <3>2. \/ aliases[a] = q
          \/ \E row \in used : row.principal # q /\ a \in aliasesOf[row.principal]
      BY <1>2, <2>2, <3>1 DEF Tables, AliasesResolve, Exists
    <3>3. a \in Alias
      BY <2>2, AliasAssumption
    <3>4. QED
      BY <1>1, <1>5, <3>1, <3>2, <3>3
  <2>3. QED
    BY <2>1, <2>2 DEF AliasesResolve, Exists
<1>7. Tables'
  BY <1>1, <1>2, <1>4, <1>6 DEF Tables, Exists, RowOfPrincipal
<1>8. UNCHANGED <<used, lost, sessions, file>>
  BY <1>1
<1>9. Sessions' /\ KeytabGenuine'
  BY <1>2, <1>8 DEF Sessions, KeytabGenuine, Known, InFlight, Pending, Stems, Orderly
<1>10. QED
  BY <1>3, <1>7, <1>9 DEF IInv

-----------------------------------------------------------------------------
LEMMA InitInvariant == Init => IInv
<1> SUFFICES ASSUME Init PROVE IInv
  OBVIOUS
<1>1. TypeOK
  BY BoundAssumption, WidthAssumption DEF Init, TypeOK, Emptied, File
<1>2. Tables
  BY AliasAssumption DEF Init, Tables, Exists, AliasesResolve
<1>3. Sessions
  BY DEF Init, Sessions, Stems, Orderly
<1>4. KeytabGenuine
  BY DEF Init, KeytabGenuine, Emptied
<1>5. QED
  BY <1>1, <1>2, <1>3, <1>4 DEF IInv

LEMMA NextInvariant == IInv /\ [Next]_vars => IInv'
<1> SUFFICES ASSUME IInv, [Next]_vars PROVE IInv'
  OBVIOUS
<1>1. ASSUME NEW s \in Session,
             \/ \E name \in Name, all \in BOOLEAN : Ktadd(s, name, all)
             \/ \E p \in Principal, key \in Key : WebAdd(s, p, key)
             \/ Start(s) \/ Look(s)
             \/ ReadEntries(s) \/ OpenFile(s) \/ CloseFile(s)
             \/ Commit(s) \/ Fail(s)
      PROVE  IInv'
  BY <1>1, BeginStep, LookStep, ReadStep, OpenStep, CloseStep, CommitStep, FailStep
<1>2. ASSUME \/ \E name \in Name, key \in Key : ChangePassword(name, key)
             \/ \E p \in Principal, key \in Key : Add(p, key)
             \/ \E name \in Name : Delete(name)
      PROVE  IInv'
  BY <1>2, ChangeStep, DeleteStep
<1>3. CASE UNCHANGED vars
  BY <1>3 DEF vars, db, IInv, TypeOK, Tables, Exists, RowOfPrincipal, AliasesResolve,
              Sessions, Stems, Orderly, Known, InFlight, Pending, KeytabGenuine
<1>4. QED
  BY <1>1, <1>2, <1>3 DEF Next

LEMMA Invariant == Spec => []IInv
<1>1. QED
  BY InitInvariant, NextInvariant, PTL DEF Spec

\* Every variable keeps its type; no kvno outgrows the word the file has for it.
THEOREM TypeCorrect == Spec => []TypeOK
<1>1. IInv => TypeOK
  BY DEF IInv
<1>2. QED
  BY <1>1, Invariant, PTL

\* However many processes export at once, are interrupted or fail to commit, an entry
\* of the keytab holds a key under the principal and kvno it was made for
\* (write_keytab).
THEOREM GenuineEntries == Spec => []KeytabGenuine
<1>1. IInv => KeytabGenuine
  BY DEF IInv
<1>2. QED
  BY <1>1, Invariant, PTL

\* A short name leads to a principal that exists and bears it, and only a homonym
\* takes it away (upsert_principal, delete_principal).
THEOREM ShortNames == Spec => []AliasesResolve
<1>1. IInv => AliasesResolve
  BY DEF IInv, Tables
<1>2. QED
  BY <1>1, Invariant, PTL

-----------------------------------------------------------------------------
(* Exported keys *)

\* A process between open and close.
Opening(s) == sessions[s].pc = "open"

\* Unless the keytab is being written, or garbled, every slot that was kept is
\* found in it.
KeptFound ==
    \/ \E s \in Session : Opening(s)
    \/ file.garbled
    \/ \A slot \in kept : LoadKeytab(file, slot) # {}

\* What a process that nobody has overlapped holds in its hands: the entries of
\* the keytab, and once it has emptied that, every slot that was kept.
HoldsEntries(u, alone) ==
    /\ u.pc \in {"raw", "open"} => IsFiniteSet(u.raw)
    /\ u.pc = "raw" /\ ~u.overlapped =>
           u.raw = RawEntries(file) /\ u.garbled = file.garbled
    /\ u.pc = "open" /\ ~u.overlapped =>
           /\ file = Emptied
           /\ alone => u.garbled \/ \A slot \in kept : \E e \in u.raw : InSlot(e, slot)

Alone(s) == \A r \in Session : Opening(r) => r = s

\* The invariant of the exports, on top of IInv.
Exports ==
    /\ IsFiniteSet(file.entries)
    /\ KeptFound
    /\ \A s \in Session : HoldsEntries(sessions[s], Alone(s))

\* The entry of a row lies in the slot of the row, and no entry lies in two.
LEMMA EntryInSlot ==
    ASSUME NEW row \in Row
    PROVE  SlotOf(row) \in Slot /\ InSlot(EntryOf(row), SlotOf(row))
<1>1. SlotOf(row) \in Slot
  BY WidthAssumption DEF SlotOf, Slot, Row, Kvno
<1>2. RowOf(EntryOf(row)) = row
  BY EntryHoldsRow
<1>3. KvnoOf(EntryOf(row)) = row.kvno
  BY <1>2 DEF RowOf
<1>4. QED
  BY <1>1, <1>3 DEF InSlot, SlotOf, EntryOf

LEMMA OneSlot ==
    ASSUME NEW e, NEW slot \in Slot, NEW other \in Slot,
           InSlot(e, slot), InSlot(e, other)
    PROVE  slot = other
<1>1. /\ slot = [principal |-> slot.principal, kvno |-> slot.kvno]
      /\ other = [principal |-> other.principal, kvno |-> other.kvno]
  BY DEF Slot
<1>2. slot.principal = other.principal /\ slot.kvno = other.kvno
  BY DEF InSlot
<1>3. QED
  BY <1>1, <1>2

\* What write_keytab writes holds the new slot and every slot it has read.
LEMMA RewrittenHolds ==
    ASSUME NEW raw \in SUBSET Entry, NEW row \in Row, NEW slot \in Slot,
           slot = SlotOf(row) \/ \E e \in raw : InSlot(e, slot)
    PROVE  \E e \in Rewritten(raw, row) : InSlot(e, slot)
<1>1. SlotOf(row) \in Slot /\ InSlot(EntryOf(row), SlotOf(row))
  BY EntryInSlot
<1>2. CASE slot = SlotOf(row)
  BY <1>1, <1>2 DEF Rewritten
<1>3. CASE slot # SlotOf(row)
  <2>1. PICK e \in raw : InSlot(e, slot)
    BY <1>3
  <2>2. ~InSlot(e, SlotOf(row))
    BY <1>1, <1>3, <2>1, OneSlot
  <2>3. QED
    BY <2>1, <2>2 DEF Rewritten
<1>4. QED
  BY <1>2, <1>3

\* A finite file stays finite.
LEMMA RewrittenFinite ==
    ASSUME NEW raw, IsFiniteSet(raw), NEW row
    PROVE  IsFiniteSet(Rewritten(raw, row)) /\ Rewritten(raw, row) # {}
<1> DEFINE rest == {e \in raw : ~InSlot(e, SlotOf(row))}
<1>1. rest \in SUBSET raw
  OBVIOUS
<1> HIDE DEF rest
<1>2. IsFiniteSet(rest)
  BY <1>1, FS_Subset
<1>3. IsFiniteSet(rest \cup {EntryOf(row)})
  BY <1>2, FS_AddElement
<1>4. Rewritten(raw, row) = rest \cup {EntryOf(row)}
  BY DEF Rewritten, rest
<1>5. QED
  BY <1>3, <1>4

LEMMA WrittenFinite ==
    ASSUME NEW f \in File, IsFiniteSet(f.entries), NEW content, IsFiniteSet(content),
           NEW garbled \in BOOLEAN, NEW g \in WrittenOver(content, garbled, f)
    PROVE  IsFiniteSet(g.entries)
<1>1. PICK rest \in SUBSET f.entries : g.entries = content \cup rest
  BY WrittenForm DEF File
<1>2. IsFiniteSet(rest)
  BY FS_Subset
<1>3. IsFiniteSet(content \cup rest)
  BY <1>2, FS_Union
<1>4. QED
  BY <1>1, <1>3

\* Over an empty file nothing but the new bytes is left.
LEMMA WrittenClean ==
    ASSUME NEW content, IsFiniteSet(content), content # {}, NEW garbled \in BOOLEAN,
           NEW g \in WrittenOver(content, garbled, Emptied)
    PROVE  g = [header |-> TRUE, entries |-> content, torn |-> FALSE, garbled |-> garbled]
<1>1. Emptied.entries = {} /\ ~Emptied.torn /\ ~Emptied.garbled
  BY DEF Emptied
<1>2. Cardinality({}) = 0
  BY FS_EmptySet
<1>3. Cardinality(content) \in Nat /\ Cardinality(content) # 0
  BY FS_CardinalityType, FS_EmptySet
<1>4. ~(Cardinality(Emptied.entries) >= Cardinality(content))
  BY <1>1, <1>2, <1>3
<1>5. ~\E t \in SUBSET Emptied.entries :
          Cardinality(content) + Cardinality(t) <= Cardinality(Emptied.entries)
  <2>1. \A t \in SUBSET Emptied.entries : t = {}
    BY <1>1
  <2>2. ~(Cardinality(content) + Cardinality({}) <= Cardinality(Emptied.entries))
    BY <1>1, <1>2, <1>3
  <2>3. QED
    BY <2>1, <2>2
<1>6. content \cup {} = content /\ (garbled \/ FALSE) = garbled
  OBVIOUS
<1>7. g = [header |-> TRUE, entries |-> content \cup {}, torn |-> FALSE,
           garbled |-> garbled \/ FALSE]
  BY <1>1, <1>4, <1>5 DEF WrittenOver
<1>8. QED
  BY <1>6, <1>7

\* A file that is neither torn nor garbled gives the slots of its entries.
LEMMA LoadFinds ==
    ASSUME NEW f, f.header, ~f.torn, ~f.garbled, NEW slot
    PROVE  LoadKeytab(f, slot) # {} <=> \E e \in f.entries : InSlot(e, slot)
<1>1. LoadKeytab(f, slot) = {e.key : e \in {x \in f.entries : InSlot(x, slot)}}
  BY DEF LoadKeytab
<1>2. QED
  BY <1>1

LEMMA LoadFound ==
    ASSUME NEW f, NEW slot, LoadKeytab(f, slot) # {}
    PROVE  /\ f.header /\ ~f.torn /\ ~f.garbled
           /\ \E e \in f.entries : InSlot(e, slot)
<1>1. f.header /\ ~f.torn /\ ~f.garbled
  BY DEF LoadKeytab
<1>2. LoadKeytab(f, slot) = {e.key : e \in {x \in f.entries : InSlot(x, slot)}}
  BY <1>1 DEF LoadKeytab
<1>3. QED
  BY <1>1, <1>2

-----------------------------------------------------------------------------
(* Each step keeps the exports *)

\* Nobody touches the keytab; a process reads it at most.
LEMMA FileStays ==
    ASSUME Exports, UNCHANGED <<file, kept>>,
           \A r \in Session :
               \/ sessions'[r] = sessions[r]
               \/ /\ sessions[r].pc # "open"
                  /\ sessions'[r].pc \notin {"raw", "open"}
               \/ /\ sessions[r].pc # "open"
                  /\ sessions'[r].pc = "raw" /\ sessions'[r].raw = RawEntries(file)
                  /\ sessions'[r].garbled = file.garbled
    PROVE  Exports'
<1>1. \A r \in Session : Opening(r)' <=> Opening(r)
  BY DEF Opening
<1>2. KeptFound'
  BY <1>1 DEF Exports, KeptFound
<1>3. ASSUME NEW s \in Session
      PROVE  HoldsEntries(sessions[s], Alone(s))'
  <2>1. Alone(s)' <=> Alone(s)
    BY <1>1 DEF Alone
  <2>2. CASE sessions'[s] = sessions[s]
    BY <2>1, <2>2 DEF Exports, HoldsEntries
  <2>3. CASE sessions'[s].pc \notin {"raw", "open"}
    BY <2>3 DEF HoldsEntries
  <2>4. CASE /\ sessions'[s].pc = "raw" /\ sessions'[s].raw = RawEntries(file)
             /\ sessions'[s].garbled = file.garbled
    <3>1. IsFiniteSet(RawEntries(file))
      BY FS_EmptySet DEF RawEntries, Exports
    <3>2. QED
      BY <2>4, <3>1 DEF HoldsEntries
  <2>5. QED
    BY <2>2, <2>3, <2>4
<1>4. QED
  BY <1>2, <1>3 DEF Exports

\* The process s goes on elsewhere.
LEMMA ElsewhereStep ==
    ASSUME IInv, Exports, NEW s \in Session, NEW u,
           sessions[s].pc # "open", u.pc \notin {"raw", "open"},
           sessions' = [sessions EXCEPT ![s] = u], UNCHANGED <<file, kept>>
    PROVE  Exports'
<1>1. \A r \in Session : sessions'[r] = IF r = s THEN u ELSE sessions[r]
  BY DEF IInv, TypeOK
<1>2. QED
  BY <1>1, FileStays

LEMMA ReadExports ==
    ASSUME IInv, Exports, NEW s \in Session, ReadEntries(s)
    PROVE  Exports'
<1> DEFINE u == sessions[s]
           v == [u EXCEPT !.pc = "raw", !.raw = RawEntries(file), !.garbled = file.garbled,
                     !.overlapped = FALSE]
<1>1. u \in Running /\ u.pc = "export"
  BY RunningType DEF IInv, TypeOK, ReadEntries
<1>2. v.pc = "raw" /\ v.raw = RawEntries(file) /\ v.garbled = file.garbled
  <2> HIDE DEF u
  <2>1. QED
    BY <1>1 DEF Running
<1>3. sessions' = [sessions EXCEPT ![s] = v] /\ UNCHANGED <<file, kept>>
  BY DEF ReadEntries
<1> HIDE DEF v
<1>4. \A r \in Session : sessions'[r] = IF r = s THEN v ELSE sessions[r]
  BY <1>3 DEF IInv, TypeOK
<1>5. QED
  BY <1>1, <1>2, <1>3, <1>4, FileStays

\* After a write the others that hold entries are overlapped.
LEMMA OthersOverlapped ==
    ASSUME TypeOK, Exports, NEW s \in Session, NEW v, sessions' = Overlapping(s, v)
    PROVE  /\ sessions'[s] = v
           /\ \A r \in Session \ {s} :
                  /\ Opening(r)' <=> Opening(r)
                  /\ sessions'[r].pc \in {"raw", "open"} =>
                         sessions'[r].overlapped /\ IsFiniteSet(sessions'[r].raw)
<1>1. sessions'[s] = v
  BY DEF Overlapping
<1>2. ASSUME NEW r \in Session \ {s}
      PROVE  /\ Opening(r)' <=> Opening(r)
             /\ sessions'[r].pc \in {"raw", "open"} =>
                    sessions'[r].overlapped /\ IsFiniteSet(sessions'[r].raw)
  <2>1. CASE sessions[r].pc \in {"raw", "open"}
    <3> DEFINE w == [sessions[r] EXCEPT !.overlapped = TRUE]
    <3>1. sessions'[r] = w
      BY <2>1 DEF Overlapping
    <3>2. sessions[r] \in Running
      BY <2>1, RunningType DEF TypeOK
    <3>3. w.pc = sessions[r].pc /\ w.raw = sessions[r].raw /\ w.overlapped = TRUE
      BY <3>2 DEF Running
    <3>4. IsFiniteSet(sessions[r].raw)
      BY <2>1 DEF Exports, HoldsEntries
    <3>5. QED
      BY <3>1, <3>3, <3>4 DEF Opening
  <2>2. CASE sessions[r].pc \notin {"raw", "open"}
    <3>1. sessions'[r] = sessions[r]
      BY <2>2 DEF Overlapping
    <3>2. QED
      BY <2>2, <3>1 DEF Opening
  <2>3. QED
    BY <2>1, <2>2
<1>3. QED
  BY <1>1, <1>2

LEMMA OpenExports ==
    ASSUME IInv, Exports, NEW s \in Session, OpenFile(s)
    PROVE  Exports'
<1> DEFINE u == sessions[s]
           v == [u EXCEPT !.pc = "open"]
<1>1. u \in Running /\ u.pc = "raw"
  BY RunningType DEF IInv, TypeOK, OpenFile
<1>2. /\ v.pc = "open" /\ v.raw = u.raw /\ v.overlapped = u.overlapped
      /\ v.garbled = u.garbled
  <2> HIDE DEF u
  <2>1. QED
    BY <1>1 DEF Running
<1>3. sessions' = Overlapping(s, v) /\ file' = Emptied /\ kept' = kept
  BY DEF OpenFile
<1> HIDE DEF v
<1>4. /\ sessions'[s] = v
      /\ \A r \in Session \ {s} :
             /\ Opening(r)' <=> Opening(r)
             /\ sessions'[r].pc \in {"raw", "open"} =>
                    sessions'[r].overlapped /\ IsFiniteSet(sessions'[r].raw)
  BY <1>3, OthersOverlapped DEF IInv
<1>5. Opening(s)'
  BY <1>2, <1>4 DEF Opening
<1>6. KeptFound'
  BY <1>5 DEF KeptFound
<1>7. HoldsEntries(sessions[s], Alone(s))'
  <2>1. HoldsEntries(u, Alone(s))
    BY DEF Exports
  <2>2. IsFiniteSet(v.raw)
    BY <1>1, <1>2, <2>1 DEF HoldsEntries
  <2>3. ASSUME ~v.overlapped, Alone(s)', ~v.garbled, NEW slot \in kept
        PROVE  \E e \in v.raw : InSlot(e, slot)
    <3>1. ~\E r \in Session : Opening(r)
      BY <1>1, <1>4, <2>3 DEF Alone, Opening
    <3>2. v.raw = RawEntries(file) /\ ~file.garbled
      BY <1>1, <1>2, <2>1, <2>3 DEF HoldsEntries
    <3>3. LoadKeytab(file, slot) # {}
      BY <2>3, <3>1, <3>2 DEF Exports, KeptFound
    <3>4. file.header /\ \E e \in file.entries : InSlot(e, slot)
      BY <3>3, LoadFound
    <3>5. QED
      BY <3>2, <3>4 DEF RawEntries
  <2>4. QED
    BY <1>2, <1>3, <1>4, <2>2, <2>3 DEF HoldsEntries
<1>8. \A r \in Session \ {s} : HoldsEntries(sessions[r], Alone(r))'
  BY <1>4 DEF HoldsEntries
<1>9. IsFiniteSet(file'.entries)
  BY <1>3, FS_EmptySet DEF Emptied
<1>10. QED
  BY <1>6, <1>7, <1>8, <1>9 DEF Exports

\* Once written, the keytab holds what was kept, and the new key.
LEMMA CloseExports ==
    ASSUME IInv, Exports, NEW s \in Session, CloseFile(s)
    PROVE  Exports'
<1> DEFINE u == sessions[s]
<1>1. /\ u \in Running /\ u.pc = "open" /\ u.raw \in SUBSET Entry
      /\ u.garbled \in BOOLEAN /\ Orderly(u)
  BY RunningType DEF IInv, TypeOK, CloseFile, Running, Sessions
<1>2. PICK row \in Row :
          /\ row \in u.todo
          /\ file' \in WrittenOver(Rewritten(u.raw, row), u.garbled, file)
          /\ kept' = IF u.overlapped THEN Found(file', kept \cup {SlotOf(row)})
                     ELSE kept \cup {SlotOf(row)}
          /\ LET rest == [u EXCEPT !.todo = @ \ {row}, !.raw = {}, !.garbled = FALSE]
             IN  sessions' = Overlapping(s,
                     IF rest.todo = {} THEN Afterwards(rest)
                     ELSE [rest EXCEPT !.pc = "export"])
  BY DEF CloseFile, IsNext
<1> DEFINE rest == [u EXCEPT !.todo = @ \ {row}, !.raw = {}, !.garbled = FALSE]
           v == IF rest.todo = {} THEN Afterwards(rest)
                ELSE [rest EXCEPT !.pc = "export"]
<1>3. sessions' = Overlapping(s, v)
  BY <1>2
<1>4. v.pc \notin {"raw", "open"}
  <2>1. rest \in Running
    <3> HIDE DEF u
    <3>1. QED
      BY <1>1 DEF Running
  <2> HIDE DEF rest
  <2>2. v = Idle \/ \E pc \in {"export", "look", "commit"} : v = [rest EXCEPT !.pc = pc]
    BY DEF Afterwards
  <2> HIDE DEF v
  <2>3. QED
    BY <2>1, <2>2 DEF Running, Idle
<1> HIDE DEF rest, v
<1>5. /\ sessions'[s] = v
      /\ \A r \in Session \ {s} :
             /\ Opening(r)' <=> Opening(r)
             /\ sessions'[r].pc \in {"raw", "open"} =>
                    sessions'[r].overlapped /\ IsFiniteSet(sessions'[r].raw)
  BY <1>3, OthersOverlapped DEF IInv
<1>6. HoldsEntries(u, Alone(s)) /\ IsFiniteSet(u.raw)
  BY <1>1 DEF Exports, HoldsEntries
<1> DEFINE content == Rewritten(u.raw, row)
<1>7. IsFiniteSet(content) /\ content # {}
  BY <1>6, RewrittenFinite
<1>8. IsFiniteSet(file'.entries)
  <2> HIDE DEF content
  <2>1. file' \in WrittenOver(content, u.garbled, file) /\ IsFiniteSet(file.entries)
        /\ file \in File
    BY <1>2 DEF content, Exports, IInv, TypeOK
  <2>2. QED
    BY <1>1, <1>7, <2>1, WrittenFinite
<1>9. KeptFound'
  <2>1. CASE \E r \in Session \ {s} : Opening(r)
    BY <1>5, <2>1 DEF KeptFound
  <2>2. CASE u.overlapped
    BY <1>2, <2>2 DEF KeptFound, Found
  <2>3. CASE ~u.overlapped /\ ~\E r \in Session \ {s} : Opening(r)
    <3>1. Alone(s)
      BY <2>3 DEF Alone
    <3>2. /\ file = Emptied
          /\ u.garbled \/ \A slot \in kept : \E e \in u.raw : InSlot(e, slot)
      BY <1>1, <1>6, <2>3, <3>1 DEF HoldsEntries
    <3>3. file' = [header |-> TRUE, entries |-> content, torn |-> FALSE,
                   garbled |-> u.garbled]
      <4> HIDE DEF content
      <4>1. file' \in WrittenOver(content, u.garbled, Emptied)
        BY <1>2, <3>2 DEF content
      <4>2. QED
        BY <1>1, <1>7, <4>1, WrittenClean
    <3>4. ASSUME ~u.garbled, NEW slot \in kept' PROVE LoadKeytab(file', slot) # {}
      <4>1. slot \in Slot /\ (slot = SlotOf(row) \/ \E e \in u.raw : InSlot(e, slot))
        BY <1>2, <2>3, <3>2, <3>4, EntryInSlot DEF IInv, TypeOK
      <4>2. \E e \in content : InSlot(e, slot)
        BY <1>1, <4>1, RewrittenHolds
      <4> HIDE DEF content
      <4>3. /\ file'.header /\ ~file'.torn /\ ~file'.garbled
            /\ \E e \in file'.entries : InSlot(e, slot)
        BY <3>3, <3>4, <4>2
      <4>4. QED
        BY <4>3, LoadFinds
    <3>5. u.garbled => file'.garbled
      BY <3>3
    <3>6. QED
      BY <3>4, <3>5 DEF KeptFound
  <2>4. QED
    BY <2>1, <2>2, <2>3
<1>10. \A r \in Session : HoldsEntries(sessions[r], Alone(r))'
  BY <1>4, <1>5 DEF HoldsEntries
<1>11. QED
  BY <1>8, <1>9, <1>10 DEF Exports

\* A process that dies over an empty keytab takes everything that was kept.
LEMMA FailExports ==
    ASSUME IInv, Exports, NEW s \in Session, Fail(s)
    PROVE  Exports'
<1>1. sessions' = [sessions EXCEPT ![s] = Idle] /\ file' = file
  BY DEF Fail
<1>2. CASE sessions[s].pc # "open"
  <2>1. kept' = kept
    BY <1>2 DEF Fail
  <2>2. Idle.pc = "idle"
    BY DEF Idle
  <2>3. QED
    BY <1>1, <1>2, <2>1, <2>2, ElsewhereStep
<1>3. CASE sessions[s].pc = "open"
  <2>1. kept' = Found(file, kept)
    BY <1>3 DEF Fail
  <2>2. \A r \in Session : sessions'[r] = IF r = s THEN Idle ELSE sessions[r]
    BY <1>1 DEF IInv, TypeOK
  <2>3. KeptFound'
    BY <1>1, <2>1 DEF KeptFound, Found
  <2>4. ASSUME NEW r \in Session
        PROVE  HoldsEntries(sessions[r], Alone(r))'
    <3>1. CASE r = s
      BY <2>2, <3>1 DEF HoldsEntries, Idle
    <3>2. CASE r # s
      <4>1. HoldsEntries(sessions[r], Alone(r)) /\ sessions'[r] = sessions[r]
        BY <2>2, <3>2 DEF Exports
      <4>2. file = Emptied => kept' = {}
        BY <2>1 DEF Found, LoadKeytab, Emptied
      <4>3. QED
        BY <1>1, <4>1, <4>2 DEF HoldsEntries
    <3>3. QED
      BY <3>1, <3>2
  <2>5. QED
    BY <1>1, <2>3, <2>4 DEF Exports
<1>4. QED
  BY <1>2, <1>3

LEMMA InitExports == Init => Exports
<1> SUFFICES ASSUME Init PROVE Exports
  OBVIOUS
<1>1. IsFiniteSet(file.entries)
  BY FS_EmptySet DEF Init, Emptied
<1>2. KeptFound
  BY DEF Init, KeptFound
<1>3. \A s \in Session : HoldsEntries(sessions[s], Alone(s))
  BY DEF Init, HoldsEntries, Idle
<1>4. QED
  BY <1>1, <1>2, <1>3 DEF Exports

\* A command begins, or goes on without the keytab.
LEMMA BeginExports ==
    ASSUME IInv, Exports, NEW s \in Session,
           \/ \E name \in Name, all \in BOOLEAN : Ktadd(s, name, all)
           \/ \E p \in Principal, key \in Key : WebAdd(s, p, key)
           \/ Start(s)
    PROVE  Exports'
<1>1. sessions[s].pc # "open" /\ UNCHANGED <<file, kept>>
  BY DEF Ktadd, WebAdd, Start, Idle
<1>2. ASSUME NEW name \in Name, NEW all \in BOOLEAN, Ktadd(s, name, all)
      PROVE  Exports'
  <2>1. PICK p \in Principal :
            sessions' = [sessions EXCEPT ![s] =
                [pc |-> "export", names |-> << >>,
                 todo |-> IF all THEN {r \in history : r.principal = p}
                                 ELSE {RowOfPrincipal(p)},
                 raw |-> {}, garbled |-> FALSE, pending |-> {}, overlapped |-> FALSE]]
    BY <1>2 DEF Ktadd, Resolve
  <2> DEFINE u == [pc |-> "export", names |-> << >>,
                   todo |-> IF all THEN {r \in history : r.principal = p}
                                   ELSE {RowOfPrincipal(p)},
                   raw |-> {}, garbled |-> FALSE, pending |-> {}, overlapped |-> FALSE]
  <2>2. u.pc = "export" /\ sessions' = [sessions EXCEPT ![s] = u]
    BY <2>1
  <2> HIDE DEF u
  <2>3. QED
    BY <1>1, ElsewhereStep, <2>2
<1>3. ASSUME NEW p \in Principal, NEW key \in Key, WebAdd(s, p, key)
      PROVE  Exports'
  <2> DEFINE row == [principal |-> p, kvno |-> 1, key |-> key]
             u == [pc |-> "export", names |-> << >>, todo |-> {row}, raw |-> {},
                   garbled |-> FALSE, pending |-> {row}, overlapped |-> FALSE]
  <2>1. u.pc = "export" /\ sessions' = [sessions EXCEPT ![s] = u]
    BY <1>3 DEF WebAdd
  <2> HIDE DEF u
  <2>2. QED
    BY <1>1, ElsewhereStep, <2>1
<1>4. ASSUME Start(s)
      PROVE  Exports'
  <2> DEFINE u == [pc |-> "look", names |-> DefaultServices, todo |-> {}, raw |-> {},
                   garbled |-> FALSE, pending |-> {}, overlapped |-> FALSE]
  <2>1. u.pc = "look" /\ sessions' = [sessions EXCEPT ![s] = u]
    BY <1>4 DEF Start
  <2> HIDE DEF u
  <2>2. QED
    BY <1>1, ElsewhereStep, <2>1
<1>5. QED
  BY <1>2, <1>3, <1>4

LEMMA LookExports ==
    ASSUME IInv, Exports, NEW s \in Session, Look(s)
    PROVE  Exports'
<1> DEFINE u == sessions[s]
<1>1. u \in Running /\ u.pc = "look"
  BY RunningType DEF IInv, TypeOK, Look
<1>2. PICK names, todo, pending :
          sessions' = [sessions EXCEPT ![s] =
              [u EXCEPT !.pc = "export", !.names = names, !.todo = todo,
                        !.pending = pending]]
  BY DEF Look
<1> DEFINE v == [u EXCEPT !.pc = "export", !.names = names, !.todo = todo,
                          !.pending = pending]
<1>3. v.pc = "export"
  <2> HIDE DEF u
  <2>1. QED
    BY <1>1 DEF Running
<1>4. sessions' = [sessions EXCEPT ![s] = v] /\ UNCHANGED <<file, kept>>
  BY <1>2 DEF Look
<1> HIDE DEF v
<1>5. QED
  BY <1>1, <1>3, <1>4, ElsewhereStep

LEMMA CommitExports ==
    ASSUME IInv, Exports, NEW s \in Session, Commit(s)
    PROVE  Exports'
<1>1. /\ sessions[s].pc = "commit" /\ sessions' = [sessions EXCEPT ![s] = Idle]
      /\ UNCHANGED <<file, kept>>
  BY DEF Commit
<1>2. Idle.pc = "idle"
  BY DEF Idle
<1>3. QED
  BY <1>1, <1>2, ElsewhereStep

LEMMA NextExports == IInv /\ Exports /\ [Next]_vars => Exports'
<1> SUFFICES ASSUME IInv, Exports, [Next]_vars PROVE Exports'
  OBVIOUS
<1>1. ASSUME NEW s \in Session,
             \/ \E name \in Name, all \in BOOLEAN : Ktadd(s, name, all)
             \/ \E p \in Principal, key \in Key : WebAdd(s, p, key)
             \/ Start(s) \/ Look(s) \/ Commit(s)
      PROVE  Exports'
  BY <1>1, BeginExports, LookExports, CommitExports
<1>2. ASSUME NEW s \in Session, ReadEntries(s) \/ OpenFile(s) \/ CloseFile(s) \/ Fail(s)
      PROVE  Exports'
  BY <1>2, ReadExports, OpenExports, CloseExports, FailExports
<1>3. ASSUME \/ \E name \in Name, key \in Key : ChangePassword(name, key)
             \/ \E p \in Principal, key \in Key : Add(p, key)
             \/ \E name \in Name : Delete(name)
             \/ UNCHANGED vars
      PROVE  Exports'
  <2>1. UNCHANGED <<file, kept, sessions>>
    BY <1>3 DEF ChangePassword, Add, Delete, vars
  <2>2. QED
    BY <2>1, FileStays
<1>4. QED
  BY <1>1, <1>2, <1>3 DEF Next

LEMMA ExportsInvariant == Spec => []Exports
<1>1. IInv /\ Exports /\ [Next]_vars => Exports'
  BY NextExports
<1>2. QED
  BY <1>1, InitExports, Invariant, PTL DEF Spec

\* What was exported opens: whatever follows, exports of other keys, changes of the
\* password, processes that die, load_keytab returns the key itself, unless the
\* keytab is being written, two overlapping exports have garbled it, or the same
\* version of the key exists twice (write_keytab, load_keytab).
THEOREM ExportedKeysOpen == Spec => []ExportedKeyOpens
<1>1. ASSUME IInv, Exports PROVE ExportedKeyOpens
  <2> SUFFICES ASSUME NEW row \in used, SlotOf(row) \in kept,
                      ~file.garbled,
                      ~\E s \in Session : sessions[s] # Idle /\ sessions[s].pc = "open",
                      ~\E other \in Known : SlotOf(other) = SlotOf(row) /\ other # row
               PROVE  LoadKeytab(file, SlotOf(row)) = {row.key}
    BY DEF ExportedKeyOpens, Known
  <2>1. ~\E s \in Session : Opening(s)
    BY DEF Opening, Idle
  <2>2. LoadKeytab(file, SlotOf(row)) # {}
    BY <1>1, <2>1 DEF Exports, KeptFound
  <2>3. /\ file.header /\ ~file.torn /\ ~file.garbled
        /\ \E e \in file.entries : InSlot(e, SlotOf(row))
    BY <2>2, LoadFound
  <2>4. ASSUME NEW e \in file.entries, InSlot(e, SlotOf(row))
        PROVE  e.key = row.key
    <3>1. RowOf(e) \in Known
      BY <1>1 DEF IInv, KeytabGenuine, Known
    <3>2. SlotOf(RowOf(e)) = SlotOf(row)
      BY <2>4 DEF InSlot, SlotOf, RowOf
    <3>3. RowOf(e) = row
      BY <3>1, <3>2
    <3>4. QED
      BY <3>3 DEF RowOf
  <2>5. QED
    BY <2>3, <2>4 DEF LoadKeytab
<1>2. QED
  BY <1>1, Invariant, ExportsInvariant, PTL

=============================================================================
