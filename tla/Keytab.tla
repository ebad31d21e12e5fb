-------------------------------- MODULE Keytab --------------------------------
(***************************************************************************)
(* Service keys on their way to the application server's keytab.           *)
(*                                                                         *)
(* Three commands write the keytab: ktadd (kdc/kadmin.py), the web console *)
(* when it adds a service (kdc/kadmin_web.py) and init_database when the   *)
(* KDC starts.  Each is a process of its own.  write_keytab reads the      *)
(* file, empties it and writes it again, in three steps; the last two      *)
(* commands do so inside a transaction that commits only afterwards.  cpw, *)
(* add and delete change the keys and the aliases and leave the keytab     *)
(* alone.  Each of these is one step here; their own races are those of    *)
(* KeyHistory, and nobody is disabled.                                     *)
(***************************************************************************)
EXTENDS KeytabFile, Sequences

CONSTANTS Alias,
          aliasesOf,        \* principal_aliases
          DefaultServices,  \* the services of DEFAULT_PRINCIPALS, in order
          Bootstrap,        \* their first key
          Nobody,           \* an alias nobody owns
          Session,          \* administration processes
          MaxKvno,          \* bound of the key versions
          MaxCommands       \* bound of the commands given

ASSUME AliasAssumption ==
    /\ aliasesOf \in [Principal -> SUBSET Alias]
    /\ Alias \cap Principal = {} /\ Nobody \notin Principal
ASSUME DefaultAssumption ==
    /\ DefaultServices \in Seq(Principal) /\ DefaultServices # << >>
    /\ Bootstrap \in Key
ASSUME BoundAssumption ==
    MaxKvno \in Kvno /\ MaxCommands \in Nat

VARIABLES principals,   \* table principals: the kvno and key of each, or Absent
          history,      \* table principal_keys
          aliases,      \* table principal_aliases
          file,         \* the keytab
          sessions,     \* the local state of each administration process
          commands,     \* how many commands were given
          used,         \* the keys a ticket may be encrypted in (history)
          lost,         \* keys exported by a transaction that did not commit
                        \* (history)
          kept          \* the slots whose export has ended, without those that
                        \* an interrupted or overlapped export took (history)

db == <<principals, history, aliases, used>>
vars == <<db, file, sessions, commands, lost, kept>>

Absent == [kvno |-> 0]
Record == [kvno : Kvno, key : Key]

Idle == [pc |-> "idle"]
\* names: the default services still to be looked at.  todo: the keys still to
\* be exported.  raw, garbled: the entries read from the keytab, and whether
\* among them are some that are none.  pending: the rows of the open
\* transaction.  overlapped: another process has written since raw was read.
Running == [pc : {"look", "export", "raw", "open", "commit"},
            names : Seq(Principal), todo : SUBSET Row, raw : SUBSET Entry,
            garbled : BOOLEAN, pending : SUBSET Row, overlapped : BOOLEAN]

Init ==
    /\ principals = [p \in Principal |-> Absent]
    /\ history = {}
    /\ aliases = [a \in Alias |-> Nobody]
    /\ file = Emptied
    /\ sessions = [s \in Session |-> Idle]
    /\ commands = 0
    /\ used = {}
    /\ lost = {}
    /\ kept = {}

-----------------------------------------------------------------------------
Exists(p) == principals[p] # Absent
RowOfPrincipal(p) ==
    [principal |-> p, kvno |-> principals[p].kvno, key |-> principals[p].key]

\* resolve_principal: a full name first, then an alias.
Resolve(name) ==
    {p \in Principal : Exists(p) /\ (p = name \/ (name \in Alias /\ aliases[name] = p))}

Pending(s) == IF sessions[s] = Idle THEN {} ELSE sessions[s].pending
\* The first write of a transaction takes SQLite's write lock.
Locked == \E s \in Session : Pending(s) # {}

\* The session's newest key still to be exported (ORDER BY kvno DESC).
IsNext(s, row) ==
    row \in sessions[s].todo /\ \A r \in sessions[s].todo : r.kvno <= row.kvno

\* Where a process goes once it has nothing more to export.
Afterwards(u) ==
    IF u.names # << >> THEN [u EXCEPT !.pc = "look"]
    ELSE IF u.pending # {} THEN [u EXCEPT !.pc = "commit"]
    ELSE Idle

Give == commands < MaxCommands /\ commands' = commands + 1

\* Rows of one transaction reach the tables.  upsert_principal claims every
\* alias of its principal, also one that is taken.
\* Where several rows claim an alias the last of DefaultServices has it.
LastOf(ps) ==
    CHOOSE p \in ps :
        \A q \in ps : p = q \/ \E i, j \in DOMAIN DefaultServices :
            i < j /\ DefaultServices[i] = q /\ DefaultServices[j] = p
Claim(rows) ==
    [a \in Alias |->
        LET claimants == {p \in {r.principal : r \in rows} : a \in aliasesOf[p]}
        IN  IF claimants = {} THEN aliases[a] ELSE LastOf(claimants)]

Apply(rows) ==
    /\ principals' = [p \in Principal |->
           IF \E r \in rows : r.principal = p
           THEN LET r == CHOOSE r \in rows : r.principal = p
                IN  [kvno |-> r.kvno, key |-> r.key]
           ELSE principals[p]]
    /\ history' = {r \in history : \A n \in rows : SlotOf(r) # SlotOf(n)} \cup rows
    /\ aliases' = Claim(rows)
    /\ used' = used \cup rows

-----------------------------------------------------------------------------
\* cmd_ktadd: the current key, or with --all-versions every one on record.
Ktadd(s, name, all) ==
    \E p \in Resolve(name) :
        /\ sessions[s] = Idle
        /\ Give
        /\ sessions' = [sessions EXCEPT ![s] =
               [pc |-> "export", names |-> << >>,
                todo |-> IF all THEN {r \in history : r.principal = p}
                                ELSE {RowOfPrincipal(p)},
                raw |-> {}, garbled |-> FALSE, pending |-> {}, overlapped |-> FALSE]]
        /\ UNCHANGED <<db, file, lost, kept>>

\* handle_api_add_principal for a service, up to write_keytab.
WebAdd(s, p, key) ==
    LET row == [principal |-> p, kvno |-> 1, key |-> key]
    IN  /\ sessions[s] = Idle /\ ~Exists(p) /\ ~Locked
        /\ Give
        /\ sessions' = [sessions EXCEPT ![s] =
               [pc |-> "export", names |-> << >>, todo |-> {row}, raw |-> {},
                garbled |-> FALSE, pending |-> {row}, overlapped |-> FALSE]]
        /\ UNCHANGED <<db, file, lost, kept>>

\* init_database.
Start(s) ==
    /\ sessions[s] = Idle
    /\ Give
    /\ sessions' = [sessions EXCEPT ![s] =
           [pc |-> "look", names |-> DefaultServices, todo |-> {}, raw |-> {},
            garbled |-> FALSE, pending |-> {}, overlapped |-> FALSE]]
    /\ UNCHANGED <<db, file, lost, kept>>

\* It takes the next default service as it is, or registers it.
Look(s) ==
    LET u == sessions[s]
        p == Head(u.names)
        row == IF Exists(p) THEN RowOfPrincipal(p)
               ELSE [principal |-> p, kvno |-> 1, key |-> Bootstrap]
    IN  /\ u.pc = "look"
        /\ Exists(p) \/ u.pending # {} \/ ~Locked
        /\ sessions' = [sessions EXCEPT ![s] =
               [u EXCEPT !.pc = "export", !.names = Tail(@), !.todo = {row},
                         !.pending = IF Exists(p) THEN @ ELSE @ \cup {row}]]
        /\ UNCHANGED <<db, file, commands, lost, kept>>

\* write_keytab: existing_entries = _read_raw_entries(path).
ReadEntries(s) ==
    /\ sessions[s].pc = "export"
    /\ sessions' = [sessions EXCEPT ![s] =
           [@ EXCEPT !.pc = "raw", !.raw = RawEntries(file), !.garbled = file.garbled,
                     !.overlapped = FALSE]]
    /\ UNCHANGED <<db, file, commands, lost, kept>>

\* The other processes between their read and their close, after s wrote.
Overlapping(s, u) ==
    [r \in Session |->
        IF r = s THEN u
        ELSE IF sessions[r].pc \in {"raw", "open"}
             THEN [sessions[r] EXCEPT !.overlapped = TRUE]
        ELSE sessions[r]]

\* open(path, "wb")
OpenFile(s) ==
    /\ sessions[s].pc = "raw"
    /\ file' = Emptied
    /\ sessions' = Overlapping(s, [sessions[s] EXCEPT !.pc = "open"])
    /\ UNCHANGED <<db, commands, lost, kept>>

Found(f, slots) == {slot \in slots : LoadKeytab(f, slot) # {}}

\* The handle is flushed and closed.
CloseFile(s) ==
    LET u == sessions[s]
    IN  /\ u.pc = "open"
        /\ \E row \in Row :
               /\ IsNext(s, row)
               /\ file' \in WrittenOver(Rewritten(u.raw, row), u.garbled, file)
               /\ kept' = IF u.overlapped THEN Found(file', kept \cup {SlotOf(row)})
                          ELSE kept \cup {SlotOf(row)}
               /\ LET rest == [u EXCEPT !.todo = @ \ {row}, !.raw = {}, !.garbled = FALSE]
                  IN  sessions' = Overlapping(s,
                          IF rest.todo = {} THEN Afterwards(rest)
                          ELSE [rest EXCEPT !.pc = "export"])
        /\ UNCHANGED <<db, commands, lost>>

\* The keytab is written; only now is the principal.
Commit(s) ==
    /\ sessions[s].pc = "commit"
    /\ Apply(sessions[s].pending)
    /\ sessions' = [sessions EXCEPT ![s] = Idle]
    /\ UNCHANGED <<file, commands, lost, kept>>

\* A process dies, or an exception ends it: the transaction rolls back, a
\* keytab it had emptied stays as it is, a key it has exported stays there.
Fail(s) ==
    /\ sessions[s] # Idle
    /\ lost' = lost \cup sessions[s].pending
    /\ kept' = IF sessions[s].pc = "open" THEN Found(file, kept) ELSE kept
    /\ sessions' = [sessions EXCEPT ![s] = Idle]
    /\ UNCHANGED <<db, file, commands>>

ChangePassword(name, key) ==
    \E p \in Resolve(name) :
        /\ principals[p].kvno < MaxKvno /\ ~Locked
        /\ Give
        /\ Apply({[principal |-> p, kvno |-> principals[p].kvno + 1, key |-> key]})
        /\ UNCHANGED <<file, sessions, lost, kept>>

\* cmd_add, which does not write the keytab.
Add(p, key) ==
    /\ ~Exists(p) /\ ~Locked
    /\ Give
    /\ Apply({[principal |-> p, kvno |-> 1, key |-> key]})
    /\ UNCHANGED <<file, sessions, lost, kept>>

\* cmd_delete and handle_api_delete_principal.  The mutant keeps the aliases.
DeleteRowOnly(name) ==
    \E p \in Resolve(name) :
        /\ ~Locked
        /\ Give
        /\ principals' = [principals EXCEPT ![p] = Absent]
        /\ UNCHANGED <<history, aliases, used, file, sessions, lost, kept>>
Delete(name) ==
    \E p \in Resolve(name) :
        /\ ~Locked
        /\ Give
        /\ principals' = [principals EXCEPT ![p] = Absent]
        /\ aliases' = [a \in Alias |-> IF aliases[a] = p THEN Nobody ELSE aliases[a]]
        /\ UNCHANGED <<history, used, file, sessions, lost, kept>>

Name == Principal \cup Alias

Next ==
    \/ \E s \in Session :
           \/ \E name \in Name, all \in BOOLEAN : Ktadd(s, name, all)
           \/ \E p \in Principal, key \in Key : WebAdd(s, p, key)
           \/ Start(s) \/ Look(s)
           \/ ReadEntries(s) \/ OpenFile(s) \/ CloseFile(s)
           \/ Commit(s) \/ Fail(s)
    \/ \E name \in Name, key \in Key : ChangePassword(name, key)
    \/ \E p \in Principal, key \in Key : Add(p, key)
    \/ \E name \in Name : Delete(name)

Spec == Init /\ [][Next]_vars

-----------------------------------------------------------------------------
\* Every variable keeps its type.
TypeOK ==
    /\ principals \in [Principal -> {Absent} \cup Record]
    /\ history \subseteq Row
    /\ aliases \in [Alias -> Principal \cup {Nobody}]
    /\ file \in File
    /\ sessions \in [Session -> {Idle} \cup Running]
    /\ commands \in 0..MaxCommands
    /\ used \subseteq Row
    /\ lost \subseteq Row
    /\ kept \subseteq Slot

InFlight == UNION {Pending(s) : s \in Session}

\* Whatever exports overlap, fail or are interrupted, an entry of the keytab
\* names the version its key really has: it is a key the database held under
\* that principal and kvno, or one of a transaction that has not committed or
\* never will (write_keytab before commit in kdc/kadmin_web.py and
\* kdc/database.py).
KeytabGenuine ==
    \A e \in file.entries : RowOf(e) \in used \cup lost \cup InFlight

\* Once a version of a key was exported the application server opens the
\* tickets made with it, however often the password changes and other keys are
\* exported, with four exceptions: the keytab is being written at the moment, an
\* export that was interrupted or overlapped by another took the entry, an
\* overlapped export garbled the keytab (load_keytab raises from then on, and
\* write_keytab never leaves the garbled bytes out), or the same version exists
\* twice because a principal was registered anew.
ExportedKeyOpens ==
    \A row \in used :
        SlotOf(row) \in kept =>
            \/ LoadKeytab(file, SlotOf(row)) = {row.key}
            \/ file.garbled
            \/ \E s \in Session : sessions[s] # Idle /\ sessions[s].pc = "open"
            \/ \E other \in used \cup lost \cup InFlight :
                   SlotOf(other) = SlotOf(row) /\ other # row

\* A short name leads to a principal that exists and bears it; and a principal
\* that exists has all its short names to itself unless a homonym was ever
\* registered (upsert_principal hands an alias to its last claimant).
AliasesResolve ==
    /\ \A a \in Alias : aliases[a] # Nobody =>
           Exists(aliases[a]) /\ a \in aliasesOf[aliases[a]]
    /\ \A p \in Principal : Exists(p) =>
           \A a \in aliasesOf[p] :
               \/ aliases[a] = p
               \/ \E row \in used : row.principal # p /\ a \in aliasesOf[row.principal]
=============================================================================
