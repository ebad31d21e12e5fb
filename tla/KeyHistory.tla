------------------------------ MODULE KeyHistory ------------------------------
(***************************************************************************)
(* The key database: principals and principal_keys (kdc/database.py), the  *)
(* administration that changes them (kdc/kadmin.py, kdc/kadmin_web.py and  *)
(* init_database when the KDC starts) and the tickets that depend on them. *)
(*                                                                         *)
(* An administration command is a process of its own, with a connection of *)
(* its own.  It reads the principal, upsert_principal reads it again, and  *)
(* only its first write takes SQLite's write lock: from there to commit    *)
(* nothing else is written, so the writes are one step, and the two reads  *)
(* before them are steps of their own.  The salt of a principal is fixed   *)
(* by its name: its key is as good as its password.                        *)
(***************************************************************************)
EXTENDS Naturals, FiniteSets

CONSTANTS Principal,
          DefaultPrincipal,     \* DEFAULT_PRINCIPALS
          Password,
          Bootstrap,            \* the password a default principal starts with
          Session,              \* administration processes
          MaxKvno,              \* bound of the key versions
          MaxTickets            \* bound of the tickets issued

ASSUME DefaultAssumption ==
    DefaultPrincipal \subseteq Principal /\ Bootstrap \in Password
ASSUME KvnoAssumption == MaxKvno \in Nat \ {0}

VARIABLES principals,   \* table principals: one record a name, or Absent
          keys,         \* table principal_keys, a set of rows
          sessions,     \* the local state of each administration process
          issued,       \* every ticket issued so far
          recreated,    \* the names added again under an old history (history)
          overtaken     \* the names whose password change was overtaken: the
                        \* principal was not what its first look saw (history)

vars == <<principals, keys, sessions, issued, recreated, overtaken>>

Kvno == 1..MaxKvno
Absent == [kvno |-> 0]
Record == [kvno : Kvno, key : Password, disabled : BOOLEAN]
KeyRow == [principal : Principal, kvno : Kvno, key : Password, retired : BOOLEAN]
\* What a reader needs to open a ticket: its outer kvno, and the key it takes.
Ticket == [principal : Principal, kvno : Kvno, key : Password]

Idle == [pc |-> "idle"]
Checked == [pc : {"checked"}, by : {"cpw", "add", "start"}, principal : Principal,
            password : Password, kvno : Kvno]
Upserting == [pc : {"upserting"}, by : {"cpw", "add", "start"},
              principal : Principal, password : Password, kvno : Kvno,
              existing : {Absent} \cup Record]

Init ==
    /\ principals = [p \in Principal |-> Absent]
    /\ keys = {}
    /\ sessions = [s \in Session |-> Idle]
    /\ issued = {}
    /\ recreated = {}
    /\ overtaken = {}

-----------------------------------------------------------------------------
\* A disabled principal is as good as absent, unless include_disabled is set:
\* the AS asks for that, the administration never does.
GetPrincipal(p) ==
    IF principals[p] = Absent \/ principals[p].disabled THEN Absent ELSE principals[p]

IsVersion(row, p, kvno) == row.principal = p /\ row.kvno = kvno

PrimaryKey(table) ==
    \A r1, r2 \in table : IsVersion(r1, r2.principal, r2.kvno) => r1 = r2

\* _store_principal_key: the row of the version, old or new, is live again.
\* The mutant inserts without ON CONFLICT.
StoredBeside(table, p, kvno, key) ==
    table \cup {[principal |-> p, kvno |-> kvno, key |-> key, retired |-> FALSE]}
Stored(table, p, kvno, key) ==
    {row \in table : ~IsVersion(row, p, kvno)}
        \cup {[principal |-> p, kvno |-> kvno, key |-> key, retired |-> FALSE]}

Retired(table, p, kvno) ==
    {row \in table : ~IsVersion(row, p, kvno)}
        \cup {[principal |-> p, kvno |-> kvno, key |-> row.key, retired |-> TRUE] :
                   row \in {r \in table : IsVersion(r, p, kvno)}}

\* The history after upsert_principal: what was current is kept and retired,
\* the new key added.  The mutant retires the new version.
HistoryRetiresLast(u) ==
    Retired(Stored(keys, u.principal, u.kvno, u.password), u.principal, u.kvno)
History(u) ==
    LET kept == IF u.existing = Absent THEN keys
                ELSE Stored(keys, u.principal, u.existing.kvno, u.existing.key)
        retired == IF u.existing = Absent \/ u.existing.kvno = u.kvno THEN kept
                   ELSE Retired(kept, u.principal, u.existing.kvno)
    IN  Stored(retired, u.principal, u.kvno, u.password)

\* _backfill_principal_keys: current keys the history does not know.
Backfilled ==
    keys \cup {[principal |-> p, kvno |-> principals[p].kvno,
                key |-> principals[p].key, retired |-> FALSE] :
               p \in {q \in Principal :
                          /\ principals[q] # Absent
                          /\ \A row \in keys : ~IsVersion(row, q, principals[q].kvno)}}

\* get_principal_key with a kvno: the keys it may return, none or one.  The
\* mutant overlooks retired keys.
PrincipalKeyLive(p, kvno) ==
    {row.key : row \in {r \in keys : IsVersion(r, p, kvno) /\ ~r.retired}}
PrincipalKey(p, kvno) ==
    LET current == GetPrincipal(p)
        versions == {row \in keys : IsVersion(row, p, kvno)}
    IN  IF current = Absent THEN {}
        ELSE IF versions = {} /\ current.kvno = kvno THEN {current.key}
        ELSE {row.key : row \in versions}

-----------------------------------------------------------------------------
\* ensure_schema, then the command's own look at the principal.
Check(s, p, by, password, kvno) ==
    /\ sessions[s] = Idle
    /\ kvno \in Kvno
    /\ keys' = Backfilled
    /\ sessions' = [sessions EXCEPT ![s] =
           [pc |-> "checked", by |-> by, principal |-> p,
            password |-> password, kvno |-> kvno]]
    /\ UNCHANGED <<principals, issued, recreated, overtaken>>

\* cmd_cpw; for a disabled principal it ends in a TypeError instead.
ChangePassword(s, p, password) ==
    /\ GetPrincipal(p) # Absent
    /\ Check(s, p, "cpw", password, GetPrincipal(p).kvno + 1)

\* cmd_add and handle_api_add_principal.
Add(s, p, password) ==
    /\ GetPrincipal(p) = Absent
    /\ Check(s, p, "add", password, 1)

\* init_database registers a default principal it does not find; what it does
\* for several of them is a session each.
Start(s, p) ==
    /\ p \in DefaultPrincipal
    /\ GetPrincipal(p) = Absent
    /\ Check(s, p, "start", Bootstrap, 1)

\* upsert_principal's own look, before its first write.
ReadExisting(s) ==
    LET c == sessions[s]
    IN  /\ c.pc = "checked"
        /\ sessions' = [sessions EXCEPT ![s] =
               [pc |-> "upserting", by |-> c.by, principal |-> c.principal,
                password |-> c.password, kvno |-> c.kvno,
                existing |-> GetPrincipal(c.principal)]]
        /\ UNCHANGED <<principals, keys, issued, recreated, overtaken>>

\* upsert_principal from its first write to the caller's commit.
Upsert(s) ==
    LET u == sessions[s]
        p == u.principal
    IN  /\ u.pc = "upserting"
        /\ principals' = [principals EXCEPT ![p] =
               [kvno |-> u.kvno, key |-> u.password, disabled |-> FALSE]]
        /\ keys' = History(u)
        /\ recreated' = IF u.by # "cpw" /\ \E row \in keys : row.principal = p
                        THEN recreated \cup {p} ELSE recreated
        /\ overtaken' = IF u.by = "cpw" /\ ~(/\ u.existing.kvno + 1 = u.kvno
                                             /\ principals[p].kvno + 1 = u.kvno)
                        THEN overtaken \cup {p} ELSE overtaken
        /\ sessions' = [sessions EXCEPT ![s] = Idle]
        /\ UNCHANGED issued

\* A command that dies or finds the database busy: its transaction rolls back.
Fail(s) ==
    /\ sessions[s] # Idle
    /\ sessions' = [sessions EXCEPT ![s] = Idle]
    /\ UNCHANGED <<principals, keys, issued, recreated, overtaken>>

\* cmd_delete and handle_api_delete_principal; principal_keys stays.
Delete(p) ==
    /\ principals[p] # Absent
    /\ principals' = [principals EXCEPT ![p] = Absent]
    /\ UNCHANGED <<keys, sessions, issued, recreated, overtaken>>

\* kadmin_web reads the flag before it writes it, but serves one request at a
\* time and nothing else disables a principal: its write flips the flag as it is
\* now, or an upsert has already enabled the principal and it changes nothing.
Toggle(p) ==
    /\ principals[p] # Absent
    /\ principals' = [principals EXCEPT ![p].disabled = ~@]
    /\ UNCHANGED <<keys, sessions, issued, recreated, overtaken>>

\* The AS or the TGS encrypts a ticket for p in its current key.
IssueTicket(p) ==
    LET server == GetPrincipal(p)
    IN  /\ server # Absent
        /\ Cardinality(issued) < MaxTickets
        /\ issued' = issued \cup
               {[principal |-> p, kvno |-> server.kvno, key |-> server.key]}
        /\ UNCHANGED <<principals, keys, sessions, recreated, overtaken>>

Next ==
    \/ \E s \in Session :
           \/ \E p \in Principal, password \in Password :
                  ChangePassword(s, p, password) \/ Add(s, p, password)
           \/ \E p \in Principal : Start(s, p)
           \/ ReadExisting(s) \/ Upsert(s) \/ Fail(s)
    \/ \E p \in Principal : Delete(p) \/ Toggle(p) \/ IssueTicket(p)

Spec == Init /\ [][Next]_vars

-----------------------------------------------------------------------------
\* Every variable keeps its type, and (principal_name, kvno) is a key of
\* principal_keys.
TypeOK ==
    /\ principals \in [Principal -> {Absent} \cup Record]
    /\ keys \subseteq KeyRow
    /\ PrimaryKey(keys)
    /\ sessions \in [Session -> {Idle} \cup Checked \cup Upserting]
    /\ issued \subseteq Ticket
    /\ recreated \subseteq Principal
    /\ overtaken \subseteq Principal

\* The history holds the current key of every principal, live, whatever stale
\* `existing` record an overtaken upsert has written back.
HistoryHoldsCurrent ==
    \A p \in Principal :
        principals[p] # Absent =>
            [principal |-> p, kvno |-> principals[p].kvno,
             key |-> principals[p].key, retired |-> FALSE] \in keys

\* The KDC still opens a ticket made with an old key of an enabled principal,
\* unless the name was added again or a password change was overtaken by
\* another.
KeyLossExplained ==
    \A t \in issued :
        GetPrincipal(t.principal) # Absent =>
            \/ PrincipalKey(t.principal, t.kvno) = {t.key}
            \/ t.principal \in recreated \cup overtaken

\* With the same exceptions every key but the current one is retired.
SupersededRetired ==
    \A row \in keys :
        LET p == row.principal
        IN  principals[p] # Absent /\ row.kvno # principals[p].kvno =>
                row.retired \/ p \in recreated \cup overtaken

\* Starting the KDC does not reset the key or the kvno of a principal that
\* exists.
StartKeepsKeys ==
    [][\A s \in Session :
           LET p == sessions[s].principal
           IN  /\ sessions[s].pc = "upserting" /\ sessions[s].by = "start"
               /\ sessions'[s] = Idle
               /\ principals[p] # Absent /\ principals'[p] # Absent
               => /\ principals'[p].key = principals[p].key
                  /\ principals'[p].kvno = principals[p].kvno]_vars
=============================================================================
