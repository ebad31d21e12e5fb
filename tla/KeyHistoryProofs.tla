--------------------------- MODULE KeyHistoryProofs ---------------------------
(***************************************************************************)
(* Proofs about KeyHistory, for every set of principals, passwords and     *)
(* administration processes.                                               *)
(*                                                                         *)
(* Nothing is known of a name once it was added again or a change of its   *)
(* password was overtaken, except that its current key is in the history.  *)
(* For every other name the inductive invariant says that versions only    *)
(* grow (VersionsBelow), that the rows tickets need are kept (TicketsKept) *)
(* and that what a session has read is still there (SessionsKnow).         *)
(***************************************************************************)
EXTENDS KeyHistory, TLAPS

Clean(p) == p \notin recreated \cup overtaken

VersionsBelow ==
    \A row \in keys :
        Clean(row.principal) /\ principals[row.principal] # Absent =>
            row.kvno <= principals[row.principal].kvno

TicketsKept ==
    \A t \in issued :
        Clean(t.principal) =>
            \E row \in keys : IsVersion(row, t.principal, t.kvno) /\ row.key = t.key

Knows(u) ==
    /\ u.by = "cpw" => u.kvno > 1
    /\ u.pc = "upserting" /\ u.existing # Absent /\ Clean(u.principal) =>
           \E row \in keys : /\ IsVersion(row, u.principal, u.existing.kvno)
                             /\ row.key = u.existing.key
SessionsKnow == \A s \in Session : sessions[s] # Idle => Knows(sessions[s])

IInv == /\ TypeOK /\ HistoryHoldsCurrent /\ SupersededRetired
        /\ VersionsBelow /\ TicketsKept /\ SessionsKnow

-----------------------------------------------------------------------------
(* Rows and records. *)

NewRow(p, kvno, key) ==
    [principal |-> p, kvno |-> kvno, key |-> key, retired |-> FALSE]

LEMMA NewRowFields ==
    ASSUME NEW p \in Principal, NEW kvno \in Kvno, NEW key \in Password
    PROVE  /\ NewRow(p, kvno, key) \in KeyRow
           /\ NewRow(p, kvno, key).principal = p /\ NewRow(p, kvno, key).kvno = kvno
           /\ NewRow(p, kvno, key).key = key /\ ~NewRow(p, kvno, key).retired
  BY DEF NewRow, KeyRow

LEMMA RowFields ==
    ASSUME NEW row \in KeyRow
    PROVE  /\ row.principal \in Principal /\ row.kvno \in Kvno
           /\ row.key \in Password /\ row.retired \in BOOLEAN
  BY DEF KeyRow

LEMMA RecordFields ==
    ASSUME NEW r \in {Absent} \cup Record
    PROVE  /\ r.kvno \in Nat
           /\ (r = Absent) <=> (r.kvno = 0)
           /\ r # Absent => r.kvno \in Kvno /\ r.key \in Password
                            /\ r.disabled \in BOOLEAN
  BY KvnoAssumption DEF Absent, Record, Kvno

LEMMA GetPrincipalIs ==
    ASSUME TypeOK, NEW p \in Principal
    PROVE  /\ GetPrincipal(p) \in {Absent} \cup Record
           /\ GetPrincipal(p) # Absent => GetPrincipal(p) = principals[p]
  BY DEF TypeOK, GetPrincipal

LEMMA SessionStates ==
    ASSUME TypeOK, NEW s \in Session
    PROVE  /\ sessions[s] \in {Idle} \cup Checked \cup Upserting
           /\ sessions[s].pc = "checked" => sessions[s] \in Checked
           /\ sessions[s].pc = "upserting" => sessions[s] \in Upserting
<1>1. sessions[s] \in {Idle} \cup Checked \cup Upserting
  BY DEF TypeOK
<1>2. /\ Idle.pc = "idle"
      /\ \A c \in Checked : c.pc = "checked"
      /\ \A u \in Upserting : u.pc = "upserting"
  BY DEF Idle, Checked, Upserting
<1>3. QED
  BY <1>1, <1>2

LEMMA UpsertingFields ==
    ASSUME NEW u \in Upserting
    PROVE  /\ u.pc = "upserting" /\ u # Idle
           /\ u.by \in {"cpw", "add", "start"}
           /\ u.principal \in Principal /\ u.password \in Password
           /\ u.kvno \in Kvno /\ u.existing \in {Absent} \cup Record
<1>1. /\ u.pc = "upserting"
      /\ u.by \in {"cpw", "add", "start"}
      /\ u.principal \in Principal /\ u.password \in Password
      /\ u.kvno \in Kvno /\ u.existing \in {Absent} \cup Record
  BY DEF Upserting
<1>2. Idle.pc = "idle"
  BY DEF Idle
<1>3. QED
  BY <1>1, <1>2

-----------------------------------------------------------------------------
(* What _store_principal_key and the retirement do to the table. *)

LEMMA StoredRows ==
    ASSUME NEW table \in SUBSET KeyRow, NEW p \in Principal, NEW kvno \in Kvno,
           NEW key \in Password
    PROVE  /\ Stored(table, p, kvno, key) \in SUBSET KeyRow
           /\ \A row : row \in Stored(table, p, kvno, key) <=>
                  \/ row = NewRow(p, kvno, key)
                  \/ row \in table /\ ~IsVersion(row, p, kvno)
           /\ PrimaryKey(table) => PrimaryKey(Stored(table, p, kvno, key))
<1>1. \A row : row \in Stored(table, p, kvno, key) <=>
          \/ row = NewRow(p, kvno, key)
          \/ row \in table /\ ~IsVersion(row, p, kvno)
  BY DEF Stored, NewRow
<1>2. /\ NewRow(p, kvno, key) \in KeyRow
      /\ IsVersion(NewRow(p, kvno, key), p, kvno)
      /\ NewRow(p, kvno, key).principal = p /\ NewRow(p, kvno, key).kvno = kvno
  BY NewRowFields DEF IsVersion
<1>3. ASSUME PrimaryKey(table) PROVE PrimaryKey(Stored(table, p, kvno, key))
  <2> SUFFICES ASSUME NEW r1 \in Stored(table, p, kvno, key),
                      NEW r2 \in Stored(table, p, kvno, key),
                      IsVersion(r1, r2.principal, r2.kvno)
               PROVE  r1 = r2
    BY DEF PrimaryKey
  <2>1. CASE r1 = NewRow(p, kvno, key)
    <3>1. IsVersion(r2, p, kvno)
      BY <1>2, <2>1 DEF IsVersion
    <3>2. QED
      BY <1>1, <2>1, <3>1
  <2>2. CASE r1 \in table /\ ~IsVersion(r1, p, kvno)
    <3>1. r2 # NewRow(p, kvno, key)
      BY <1>2, <2>2 DEF IsVersion
    <3>2. r2 \in table
      BY <1>1, <3>1
    <3>3. QED
      BY <1>3, <2>2, <3>2 DEF PrimaryKey
  <2>3. QED
    BY <1>1, <2>1, <2>2
<1>4. Stored(table, p, kvno, key) \in SUBSET KeyRow
  BY <1>1, <1>2
<1>5. QED
  BY <1>1, <1>3, <1>4

Retiree(p, kvno, key) ==
    [principal |-> p, kvno |-> kvno, key |-> key, retired |-> TRUE]

LEMMA RetireeFields ==
    ASSUME NEW p \in Principal, NEW kvno \in Kvno, NEW key \in Password
    PROVE  /\ Retiree(p, kvno, key) \in KeyRow
           /\ Retiree(p, kvno, key).principal = p /\ Retiree(p, kvno, key).kvno = kvno
           /\ Retiree(p, kvno, key).key = key /\ Retiree(p, kvno, key).retired
  BY DEF Retiree, KeyRow

LEMMA RetiredRows ==
    ASSUME NEW table \in SUBSET KeyRow, NEW p \in Principal, NEW kvno \in Kvno
    PROVE  /\ Retired(table, p, kvno) \in SUBSET KeyRow
           /\ \A row : row \in Retired(table, p, kvno) <=>
                  \/ row \in table /\ ~IsVersion(row, p, kvno)
                  \/ \E r \in table : /\ IsVersion(r, p, kvno)
                                      /\ row = Retiree(p, kvno, r.key)
           /\ PrimaryKey(table) => PrimaryKey(Retired(table, p, kvno))
<1>1. ASSUME NEW r \in table
      PROVE  /\ Retiree(p, kvno, r.key) \in KeyRow
             /\ IsVersion(Retiree(p, kvno, r.key), p, kvno)
  <2>1. r.key \in Password
    BY RowFields
  <2>2. QED
    BY <2>1, RetireeFields DEF IsVersion
<1>2. \A row : row \in Retired(table, p, kvno) <=>
          \/ row \in table /\ ~IsVersion(row, p, kvno)
          \/ \E r \in table : /\ IsVersion(r, p, kvno)
                              /\ row = Retiree(p, kvno, r.key)
  BY DEF Retired, Retiree
<1>3. ASSUME PrimaryKey(table) PROVE PrimaryKey(Retired(table, p, kvno))
  <2> SUFFICES ASSUME NEW r1 \in Retired(table, p, kvno),
                      NEW r2 \in Retired(table, p, kvno),
                      IsVersion(r1, r2.principal, r2.kvno)
               PROVE  r1 = r2
    BY DEF PrimaryKey
  <2>1. CASE IsVersion(r1, p, kvno)
    <3>1. IsVersion(r2, p, kvno)
      BY <2>1 DEF IsVersion
    <3>2. PICK t1 \in table : IsVersion(t1, p, kvno) /\ r1 = Retiree(p, kvno, t1.key)
      BY <1>2, <2>1
    <3>3. PICK t2 \in table : IsVersion(t2, p, kvno) /\ r2 = Retiree(p, kvno, t2.key)
      BY <1>2, <3>1
    <3>4. t1 = t2
      BY <1>3, <3>2, <3>3 DEF PrimaryKey, IsVersion
    <3>5. QED
      BY <3>2, <3>3, <3>4
  <2>2. CASE ~IsVersion(r1, p, kvno)
    <3>1. ~IsVersion(r2, p, kvno)
      BY <2>2 DEF IsVersion
    <3>2. r1 \in table /\ r2 \in table
      BY <1>1, <1>2, <2>2, <3>1
    <3>3. QED
      BY <1>3, <3>2 DEF PrimaryKey
  <2>3. QED
    BY <2>1, <2>2
<1>4. Retired(table, p, kvno) \in SUBSET KeyRow
  BY <1>1, <1>2
<1>5. QED
  BY <1>2, <1>3, <1>4

-----------------------------------------------------------------------------
(* The history after an upsert. *)

NewOf(u) == NewRow(u.principal, u.kvno, u.password)
OldOf(u) == Retiree(u.principal, u.existing.kvno, u.existing.key)

LEMMA HistoryRows ==
    ASSUME TypeOK, NEW u \in Upserting
    PROVE  /\ History(u) \in SUBSET KeyRow /\ PrimaryKey(History(u))
           /\ \A row : row \in History(u) <=>
                  \/ row = NewOf(u)
                  \/ /\ ~IsVersion(row, u.principal, u.kvno)
                     /\ \/ u.existing = Absent /\ row \in keys
                        \/ u.existing # Absent /\ row = OldOf(u)
                        \/ /\ u.existing # Absent /\ row \in keys
                           /\ ~IsVersion(row, u.principal, u.existing.kvno)
<1> DEFINE p == u.principal
           old == u.existing
           kept == Stored(keys, p, old.kvno, old.key)
           was == NewRow(p, old.kvno, old.key)
           retired == Retired(kept, p, old.kvno)
<1>1. /\ p \in Principal /\ u.kvno \in Kvno /\ u.password \in Password
      /\ old \in {Absent} \cup Record
      /\ old # Absent => old.kvno \in Kvno /\ old.key \in Password
  BY UpsertingFields, RecordFields
<1>2. keys \in SUBSET KeyRow /\ PrimaryKey(keys)
  BY DEF TypeOK
<1>3. CASE old = Absent
  <2>1. History(u) = Stored(keys, p, u.kvno, u.password)
    BY <1>3 DEF History
  <2>2. QED
    BY <1>1, <1>2, <1>3, <2>1, StoredRows DEF NewOf
<1>4. CASE old # Absent
  <2>1. /\ kept \in SUBSET KeyRow /\ PrimaryKey(kept)
        /\ \A row : row \in kept <=>
               row = was \/ (row \in keys /\ ~IsVersion(row, p, old.kvno))
    BY <1>1, <1>2, <1>4, StoredRows
  <2>2. /\ IsVersion(was, p, old.kvno) /\ was.key = old.key
        /\ IsVersion(OldOf(u), p, old.kvno)
    BY <1>1, <1>4, NewRowFields, RetireeFields DEF IsVersion, OldOf
  <2>3. CASE old.kvno = u.kvno
    <3>1. History(u) = Stored(kept, p, u.kvno, u.password)
      BY <1>4, <2>3 DEF History
    <3>2. /\ History(u) \in SUBSET KeyRow /\ PrimaryKey(History(u))
          /\ \A row : row \in History(u) <=>
                 row = NewOf(u) \/ (row \in kept /\ ~IsVersion(row, p, u.kvno))
      BY <1>1, <2>1, <3>1, StoredRows DEF NewOf
    <3> HIDE DEF kept, was
    <3>3. QED
      BY <1>4, <2>1, <2>2, <2>3, <3>2
  <2>4. CASE old.kvno # u.kvno
    <3>1. History(u) = Stored(retired, p, u.kvno, u.password)
      BY <1>4, <2>4 DEF History
    <3>2. /\ retired \in SUBSET KeyRow /\ PrimaryKey(retired)
          /\ \A row : row \in retired <=>
                 \/ row \in kept /\ ~IsVersion(row, p, old.kvno)
                 \/ \E r \in kept : /\ IsVersion(r, p, old.kvno)
                                    /\ row = Retiree(p, old.kvno, r.key)
      BY <1>1, <1>4, <2>1, RetiredRows
    <3>3. \A row : row \in retired <=>
              row = OldOf(u) \/ (row \in keys /\ ~IsVersion(row, p, old.kvno))
      <4>1. \A r \in kept : IsVersion(r, p, old.kvno) => r = was
        BY <2>1
      <4>2. was \in kept
        BY <2>1
      <4>3. \A row : (\E r \in kept : /\ IsVersion(r, p, old.kvno)
                                      /\ row = Retiree(p, old.kvno, r.key))
                     <=> row = OldOf(u)
        <5> HIDE DEF kept, was
        <5>1. QED
          BY <2>2, <4>1, <4>2 DEF OldOf
      <4> HIDE DEF kept, was, retired
      <4>4. QED
        BY <2>1, <2>2, <3>2, <4>3
    <3>4. /\ History(u) \in SUBSET KeyRow /\ PrimaryKey(History(u))
          /\ \A row : row \in History(u) <=>
                 row = NewOf(u) \/ (row \in retired /\ ~IsVersion(row, p, u.kvno))
      BY <1>1, <3>1, <3>2, StoredRows DEF NewOf
    <3> HIDE DEF retired
    <3>5. QED
      BY <1>4, <3>3, <3>4
  <2>5. QED
    BY <2>3, <2>4
<1>5. QED
  BY <1>3, <1>4

-----------------------------------------------------------------------------
(* The invariant is inductive. *)

LEMMA InitIInv == Init => IInv
<1> SUFFICES ASSUME Init PROVE IInv
  OBVIOUS
<1>1. TypeOK
  BY DEF Init, TypeOK, PrimaryKey
<1>2. QED
  BY <1>1 DEF Init, IInv, HistoryHoldsCurrent, SupersededRetired, VersionsBelow,
              TicketsKept, SessionsKnow

\* Only a session moves on.
LEMMA SessionStep ==
    ASSUME IInv, NEW s \in Session,
           NEW c \in {Idle} \cup Checked \cup Upserting,
           sessions' = [sessions EXCEPT ![s] = c],
           UNCHANGED <<principals, keys, issued, recreated, overtaken>>,
           c # Idle => Knows(c)
    PROVE  IInv'
<1>1. TypeOK'
  BY DEF IInv, TypeOK
<1>2. SessionsKnow'
  <2>1. \A r \in Session : sessions'[r] = IF r = s THEN c ELSE sessions[r]
    BY DEF IInv, TypeOK
  <2>2. QED
    BY <2>1 DEF IInv, SessionsKnow, Knows, Clean
<1>3. /\ HistoryHoldsCurrent' /\ SupersededRetired' /\ VersionsBelow'
      /\ TicketsKept'
  BY DEF IInv, HistoryHoldsCurrent, SupersededRetired, VersionsBelow,
         TicketsKept, Clean
<1>4. QED
  BY <1>1, <1>2, <1>3 DEF IInv

\* The history is never behind, so the backfill finds nothing to add.
LEMMA NothingToBackfill ==
    ASSUME TypeOK, HistoryHoldsCurrent
    PROVE  Backfilled = keys
<1>1. ASSUME NEW q \in Principal, principals[q] # Absent
      PROVE  \E row \in keys : IsVersion(row, q, principals[q].kvno)
  <2>1. principals[q].kvno \in Kvno /\ principals[q].key \in Password
    BY <1>1, RecordFields DEF TypeOK
  <2>2. NewRow(q, principals[q].kvno, principals[q].key) \in keys
    BY <1>1 DEF HistoryHoldsCurrent, NewRow
  <2>3. QED
    BY <2>1, <2>2, NewRowFields DEF IsVersion
<1>2. {q \in Principal :
           /\ principals[q] # Absent
           /\ \A row \in keys : ~IsVersion(row, q, principals[q].kvno)} = {}
  BY <1>1
<1>3. QED
  BY <1>2 DEF Backfilled

LEMMA StepCheck ==
    ASSUME IInv, NEW s \in Session, NEW p \in Principal, NEW password \in Password,
           NEW by \in {"cpw", "add", "start"}, NEW kvno,
           Check(s, p, by, password, kvno), by = "cpw" => kvno > 1
    PROVE  IInv'
<1> DEFINE c == [pc |-> "checked", by |-> by, principal |-> p,
                 password |-> password, kvno |-> kvno]
<1>1. /\ kvno \in Kvno
      /\ sessions' = [sessions EXCEPT ![s] = c]
      /\ UNCHANGED <<principals, keys, issued, recreated, overtaken>>
  BY NothingToBackfill DEF Check, IInv
<1>2. c \in Checked /\ c.pc = "checked" /\ c.by = by /\ c.kvno = kvno
  BY <1>1 DEF Checked
<1>3. Knows(c)
  BY <1>2 DEF Knows
<1> HIDE DEF c
<1>4. QED
  BY <1>1, <1>2, <1>3, SessionStep

LEMMA StepChangePassword ==
    ASSUME IInv, NEW s \in Session, NEW p \in Principal, NEW password \in Password,
           ChangePassword(s, p, password)
    PROVE  IInv'
<1>1. GetPrincipal(p).kvno \in Kvno
  BY GetPrincipalIs, RecordFields DEF ChangePassword, IInv
<1>2. GetPrincipal(p).kvno + 1 > 1
  BY <1>1, KvnoAssumption DEF Kvno
<1>3. QED
  BY <1>2, StepCheck DEF ChangePassword

LEMMA StepReadExisting ==
    ASSUME IInv, NEW s \in Session, ReadExisting(s)
    PROVE  IInv'
<1> DEFINE c == sessions[s]
           p == c.principal
           old == GetPrincipal(p)
           u == [pc |-> "upserting", by |-> c.by, principal |-> p,
                 password |-> c.password, kvno |-> c.kvno, existing |-> old]
<1>1. /\ c.pc = "checked"
      /\ sessions' = [sessions EXCEPT ![s] = u]
      /\ UNCHANGED <<principals, keys, issued, recreated, overtaken>>
  BY DEF ReadExisting
<1>2. c \in Checked
  BY <1>1, SessionStates DEF IInv
<1>3. /\ c.by \in {"cpw", "add", "start"} /\ p \in Principal
      /\ c.password \in Password /\ c.kvno \in Kvno
  BY <1>2 DEF Checked
<1>4. /\ old \in {Absent} \cup Record
      /\ old # Absent => old = principals[p]
  BY <1>3, GetPrincipalIs DEF IInv
<1>5. c.by = "cpw" => c.kvno > 1
  <2>1. c # Idle
    BY <1>1 DEF Idle
  <2>2. QED
    BY <2>1 DEF IInv, SessionsKnow, Knows
<1>6. old # Absent =>
          \E row \in keys : IsVersion(row, p, old.kvno) /\ row.key = old.key
  <2> SUFFICES ASSUME old # Absent
               PROVE  \E row \in keys : IsVersion(row, p, old.kvno) /\ row.key = old.key
    OBVIOUS
  <2>1. old.kvno \in Kvno /\ old.key \in Password
    BY <1>4, RecordFields
  <2>2. NewRow(p, old.kvno, old.key) \in keys
    BY <1>3, <1>4 DEF IInv, HistoryHoldsCurrent, NewRow
  <2>3. QED
    BY <1>3, <2>1, <2>2, NewRowFields DEF IsVersion
<1> HIDE DEF c, p, old
<1>7. /\ u \in Upserting /\ u.by = c.by /\ u.kvno = c.kvno
      /\ u.principal = p /\ u.existing = old
  BY <1>3, <1>4 DEF Upserting
<1> HIDE DEF u
<1>8. Knows(u)
  BY <1>5, <1>6, <1>7 DEF Knows
<1>9. QED
  BY <1>1, <1>7, <1>8, SessionStep

LEMMA StepFail ==
    ASSUME IInv, NEW s \in Session, Fail(s)
    PROVE  IInv'
  BY SessionStep DEF Fail

LEMMA StepAdd ==
    ASSUME IInv, NEW s \in Session, NEW p \in Principal, NEW password \in Password,
           Add(s, p, password)
    PROVE  IInv'
  BY StepCheck DEF Add

LEMMA StepStart ==
    ASSUME IInv, NEW s \in Session, NEW p \in Principal, Start(s, p)
    PROVE  IInv'
  BY StepCheck, DefaultAssumption DEF Start

-----------------------------------------------------------------------------
(* The upsert. *)

\* A name that is still clean afterwards was clean before, and either its
\* password changed on what the session saw, or it had no history at all.
LEMMA CleanUpsert ==
    ASSUME IInv, NEW s \in Session, Upsert(s), NEW q, Clean(q)'
    PROVE  LET u == sessions[s] IN
           /\ Clean(q)
           /\ q = u.principal =>
                  \/ /\ u.by = "cpw" /\ u.existing # Absent
                     /\ principals[q] # Absent
                     /\ principals[q].kvno = u.existing.kvno
                     /\ u.kvno = principals[q].kvno + 1
                  \/ u.by # "cpw" /\ \A row \in keys : row.principal # q
<1> DEFINE u == sessions[s]
<1>1. /\ u.pc = "upserting" /\ u \in Upserting
      /\ recreated' = IF u.by # "cpw" /\ \E row \in keys : row.principal = u.principal
                      THEN recreated \cup {u.principal} ELSE recreated
      /\ overtaken' = IF u.by = "cpw" /\ ~(/\ u.existing.kvno + 1 = u.kvno
                                           /\ principals[u.principal].kvno + 1 = u.kvno)
                      THEN overtaken \cup {u.principal} ELSE overtaken
  BY SessionStates DEF Upsert, IInv
<1>2. /\ u # Idle /\ u.principal \in Principal /\ u.kvno \in Kvno
      /\ u.existing \in {Absent} \cup Record
  BY <1>1, UpsertingFields
<1>3. u.by = "cpw" => u.kvno > 1
  BY <1>2 DEF IInv, SessionsKnow, Knows
<1>4. principals[u.principal] \in {Absent} \cup Record
  BY <1>2 DEF IInv, TypeOK
<1>5. /\ u.existing.kvno \in Nat /\ principals[u.principal].kvno \in Nat
      /\ u.existing = Absent <=> u.existing.kvno = 0
      /\ principals[u.principal] = Absent <=> principals[u.principal].kvno = 0
  BY <1>2, <1>4, RecordFields
<1>6. u.kvno \in Nat
  BY <1>2, KvnoAssumption DEF Kvno
<1> HIDE DEF u
<1>7. Clean(q)
  BY <1>1 DEF Clean
<1>8. ASSUME q = u.principal, u.by = "cpw"
      PROVE  /\ u.existing # Absent /\ principals[q] # Absent
             /\ principals[q].kvno = u.existing.kvno
             /\ u.kvno = principals[q].kvno + 1
  <2>1. u.existing.kvno + 1 = u.kvno /\ principals[q].kvno + 1 = u.kvno
    BY <1>1, <1>8 DEF Clean
  <2>2. QED
    BY <2>1, <1>3, <1>5, <1>6, <1>8
<1>9. ASSUME q = u.principal, u.by # "cpw"
      PROVE  \A row \in keys : row.principal # q
  BY <1>1, <1>9 DEF Clean
<1>10. QED
  BY <1>7, <1>8, <1>9 DEF u

\* No row of a clean name is lost: at most it is retired.
LEMMA RowKept ==
    ASSUME IInv, NEW s \in Session, Upsert(s), NEW row \in keys,
           Clean(row.principal)'
    PROVE  \E new \in keys' : /\ IsVersion(new, row.principal, row.kvno)
                              /\ new.key = row.key
<1> DEFINE u == sessions[s]
           q == row.principal
<1>1. u.pc = "upserting" /\ u \in Upserting /\ u # Idle /\ keys' = History(u)
  BY SessionStates, UpsertingFields DEF Upsert, IInv
<1>2. \A r : r \in keys' <=>
          \/ r = NewOf(u)
          \/ /\ ~IsVersion(r, u.principal, u.kvno)
             /\ \/ u.existing = Absent /\ r \in keys
                \/ u.existing # Absent /\ r = OldOf(u)
                \/ /\ u.existing # Absent /\ r \in keys
                   /\ ~IsVersion(r, u.principal, u.existing.kvno)
  BY <1>1, HistoryRows DEF IInv
<1>3. /\ row.kvno \in Kvno /\ u.principal \in Principal
      /\ u.existing \in {Absent} \cup Record
  BY <1>1, UpsertingFields, RowFields DEF IInv, TypeOK
<1>4. CASE q # u.principal
  <2>1. row \in keys'
    BY <1>2, <1>4 DEF IsVersion
  <2>2. QED
    BY <2>1 DEF IsVersion
<1>5. CASE q = u.principal
  <2>1. /\ Clean(q)
        /\ u.existing # Absent /\ principals[q] # Absent
        /\ principals[q].kvno = u.existing.kvno
        /\ u.kvno = principals[q].kvno + 1
    BY <1>5, CleanUpsert
  <2>2. row.kvno <= principals[q].kvno
    BY <2>1 DEF IInv, VersionsBelow
  <2>3. principals[q].kvno \in Nat /\ row.kvno \in Nat
    BY <1>3, <2>1, RecordFields, KvnoAssumption DEF Kvno
  <2>4. row.kvno # u.kvno
    BY <2>1, <2>2, <2>3
  <2>5. CASE row.kvno # u.existing.kvno
    <3>1. row \in keys'
      BY <1>2, <2>1, <2>4, <2>5 DEF IsVersion
    <3>2. QED
      BY <3>1 DEF IsVersion
  <2>6. CASE row.kvno = u.existing.kvno
    <3>1. PICK r \in keys : /\ IsVersion(r, u.principal, u.existing.kvno)
                            /\ r.key = u.existing.key
      BY <1>1, <1>5, <2>1 DEF IInv, SessionsKnow, Knows
    <3>2. r = row
      BY <1>5, <2>6, <3>1 DEF IInv, TypeOK, PrimaryKey, IsVersion
    <3>3. u.existing.kvno \in Kvno /\ u.existing.key \in Password
      BY <1>3, <2>1, RecordFields
    <3>4. /\ OldOf(u).principal = u.principal /\ OldOf(u).kvno = u.existing.kvno
          /\ OldOf(u).key = u.existing.key
      BY <1>3, <3>3, RetireeFields DEF OldOf
    <3> HIDE DEF u
    <3>5. ~IsVersion(OldOf(u), u.principal, u.kvno)
      BY <2>4, <2>6, <3>4 DEF IsVersion
    <3>6. OldOf(u) \in keys'
      BY <1>2, <2>1, <3>5
    <3>7. QED
      BY <1>5, <2>6, <3>1, <3>2, <3>4, <3>6 DEF IsVersion
  <2>7. QED
    BY <2>5, <2>6
<1>6. QED
  BY <1>4, <1>5

LEMMA UpsertTypeOK ==
    ASSUME IInv, NEW s \in Session, Upsert(s)
    PROVE  TypeOK'
<1> DEFINE u == sessions[s]
           new == [kvno |-> u.kvno, key |-> u.password, disabled |-> FALSE]
<1>1. u \in Upserting
  BY SessionStates DEF Upsert, IInv
<1>2. /\ u.principal \in Principal /\ u.kvno \in Kvno /\ u.password \in Password
  BY <1>1, UpsertingFields
<1>3. new \in Record
  BY <1>2 DEF Record
<1>4. principals' = [principals EXCEPT ![u.principal] = new]
  BY DEF Upsert
<1>5. keys' \subseteq KeyRow /\ PrimaryKey(keys')
  BY <1>1, HistoryRows DEF Upsert, IInv
<1>6. /\ recreated' \subseteq Principal /\ overtaken' \subseteq Principal
      /\ issued' \subseteq Ticket
  BY <1>2 DEF Upsert, IInv, TypeOK
<1>7. sessions' \in [Session -> {Idle} \cup Checked \cup Upserting]
  BY DEF Upsert, IInv, TypeOK
<1> HIDE DEF new, u
<1>8. principals' \in [Principal -> {Absent} \cup Record]
  BY <1>2, <1>3, <1>4 DEF IInv, TypeOK
<1>9. QED
  BY <1>5, <1>6, <1>7, <1>8 DEF TypeOK

\* Which rows the table has after an upsert.
LEMMA UpsertRows ==
    ASSUME IInv, NEW s \in Session, Upsert(s)
    PROVE  LET u == sessions[s] IN
           /\ u \in Upserting
           /\ principals' = [principals EXCEPT ![u.principal] =
                  [kvno |-> u.kvno, key |-> u.password, disabled |-> FALSE]]
           /\ \A p \in Principal : p # u.principal => principals'[p] = principals[p]
           /\ principals'[u.principal].kvno = u.kvno
           /\ principals'[u.principal].key = u.password
           /\ principals'[u.principal] # Absent
           /\ NewOf(u) \in keys'
           /\ \A row \in keys : row.principal # u.principal => row \in keys'
           /\ \A row \in keys' : row.principal # u.principal => row \in keys
           /\ \A row \in keys' : row.principal = u.principal =>
                  \/ row.kvno = u.kvno
                  \/ u.existing # Absent /\ row = OldOf(u)
                  \/ /\ row \in keys
                     /\ u.existing # Absent => row.kvno # u.existing.kvno
<1> DEFINE u == sessions[s]
<1>1. /\ u \in Upserting /\ keys' = History(u)
      /\ principals' = [principals EXCEPT ![u.principal] =
             [kvno |-> u.kvno, key |-> u.password, disabled |-> FALSE]]
  BY SessionStates DEF Upsert, IInv
<1>2. \A r : r \in keys' <=>
          \/ r = NewOf(u)
          \/ /\ ~IsVersion(r, u.principal, u.kvno)
             /\ \/ u.existing = Absent /\ r \in keys
                \/ u.existing # Absent /\ r = OldOf(u)
                \/ /\ u.existing # Absent /\ r \in keys
                   /\ ~IsVersion(r, u.principal, u.existing.kvno)
  BY <1>1, HistoryRows DEF IInv
<1>3. /\ u.principal \in Principal /\ u.kvno \in Kvno /\ u.password \in Password
      /\ u.existing \in {Absent} \cup Record
  BY <1>1, UpsertingFields
<1>4. NewOf(u).principal = u.principal /\ NewOf(u).kvno = u.kvno
  BY <1>3, NewRowFields DEF NewOf
<1>5. u.existing # Absent => OldOf(u).principal = u.principal
  BY <1>3, RecordFields, RetireeFields DEF OldOf
<1>6. principals \in [Principal -> {Absent} \cup Record]
  BY DEF IInv, TypeOK
<1> HIDE DEF u
<1>7. /\ \A p \in Principal : p # u.principal => principals'[p] = principals[p]
      /\ principals'[u.principal].kvno = u.kvno
      /\ principals'[u.principal].key = u.password
  BY <1>1, <1>3, <1>6
<1>8. principals'[u.principal] # Absent
  BY <1>3, <1>7, KvnoAssumption DEF Absent, Kvno
<1>9. /\ \A row \in keys : row.principal # u.principal => row \in keys'
      /\ \A row \in keys' : row.principal # u.principal => row \in keys
  BY <1>2, <1>4, <1>5 DEF IsVersion
<1>10. ASSUME NEW row \in keys', row.principal = u.principal
       PROVE  \/ row.kvno = u.kvno
              \/ u.existing # Absent /\ row = OldOf(u)
              \/ /\ row \in keys
                 /\ u.existing # Absent => row.kvno # u.existing.kvno
  BY <1>2, <1>4, <1>10 DEF IsVersion
<1>11. NewOf(u) \in keys'
  BY <1>2
<1>12. QED
  BY <1>1, <1>7, <1>8, <1>9, <1>10, <1>11 DEF u

LEMMA UpsertCurrent ==
    ASSUME IInv, NEW s \in Session, Upsert(s)
    PROVE  HistoryHoldsCurrent'
<1> DEFINE u == sessions[s]
<1> SUFFICES ASSUME NEW p \in Principal, principals'[p] # Absent
             PROVE  NewRow(p, principals'[p].kvno, principals'[p].key) \in keys'
  BY DEF HistoryHoldsCurrent, NewRow
<1>1. CASE p = u.principal
  BY <1>1, UpsertRows DEF NewOf
<1>2. CASE p # u.principal
  <2>1. principals'[p] = principals[p]
    BY <1>2, UpsertRows
  <2>2. NewRow(p, principals[p].kvno, principals[p].key) \in keys
    BY <2>1 DEF IInv, HistoryHoldsCurrent, NewRow
  <2>3. NewRow(p, principals[p].kvno, principals[p].key).principal = p
    BY DEF NewRow
  <2>4. QED
    BY <1>2, <2>1, <2>2, <2>3, UpsertRows
<1>3. QED
  BY <1>1, <1>2

LEMMA UpsertVersions ==
    ASSUME IInv, NEW s \in Session, Upsert(s)
    PROVE  VersionsBelow' /\ SupersededRetired'
<1> DEFINE u == sessions[s]
<1> SUFFICES ASSUME NEW row \in keys', Clean(row.principal)',
                    principals'[row.principal] # Absent
             PROVE  /\ row.kvno <= principals'[row.principal].kvno
                    /\ row.kvno # principals'[row.principal].kvno => row.retired
  BY DEF VersionsBelow, SupersededRetired, Clean
<1>1. /\ row \in KeyRow
      /\ row.principal \in Principal /\ row.kvno \in Nat
  BY UpsertTypeOK, RowFields, KvnoAssumption DEF TypeOK, Kvno
<1>2. Clean(row.principal)
  BY CleanUpsert
<1>3. CASE row.principal # u.principal
  <2>1. row \in keys /\ principals'[row.principal] = principals[row.principal]
    BY <1>1, <1>3, UpsertRows
  <2>2. QED
    BY <1>2, <2>1 DEF IInv, VersionsBelow, SupersededRetired, Clean
<1>4. CASE row.principal = u.principal
  <2> DEFINE p == u.principal
  <2>1. /\ u \in Upserting /\ principals'[p].kvno = u.kvno
        /\ \/ row.kvno = u.kvno
           \/ u.existing # Absent /\ row = OldOf(u)
           \/ row \in keys /\ (u.existing # Absent => row.kvno # u.existing.kvno)
    BY <1>4, UpsertRows
  <2>2. /\ u.existing \in {Absent} \cup Record /\ p \in Principal
        /\ u.kvno \in Nat
    BY <2>1, UpsertingFields, KvnoAssumption DEF Kvno
  <2>3. /\ u.existing # Absent => u.existing.kvno \in Nat /\ OldOf(u).kvno = u.existing.kvno
                                  /\ OldOf(u).retired
    BY <2>2, RecordFields, RetireeFields DEF OldOf
  <2>4. \/ /\ u.existing # Absent /\ principals[p] # Absent
           /\ principals[p].kvno = u.existing.kvno
           /\ u.kvno = principals[p].kvno + 1
        \/ \A r \in keys : r.principal # p
    BY <1>4, CleanUpsert
  <2>5. u.existing # Absent => \E r \in keys : r.principal = p
    <3>1. u.pc = "upserting" /\ u # Idle
      BY <2>1, UpsertingFields
    <3>2. QED
      BY <1>2, <1>4, <3>1 DEF IInv, SessionsKnow, Knows, IsVersion
  <2> HIDE DEF u, p
  <2>6. CASE row.kvno = u.kvno
    BY <1>4, <2>1, <2>2, <2>6 DEF p
  <2>7. CASE u.existing # Absent /\ row = OldOf(u)
    <3>1. u.kvno = u.existing.kvno + 1
      BY <2>4, <2>5, <2>7
    <3>2. QED
      BY <1>4, <2>1, <2>2, <2>3, <2>7, <3>1 DEF p
  <2>8. CASE row \in keys /\ (u.existing # Absent => row.kvno # u.existing.kvno)
    <3>1. /\ u.existing # Absent /\ principals[p] # Absent
          /\ principals[p].kvno = u.existing.kvno
          /\ u.kvno = principals[p].kvno + 1
      BY <1>4, <2>4, <2>8 DEF p
    <3>2. row.kvno <= principals[p].kvno /\ row.retired
      BY <1>2, <1>4, <2>8, <3>1
      DEF IInv, VersionsBelow, SupersededRetired, Clean, p
    <3>3. QED
      BY <1>1, <1>4, <2>1, <2>3, <3>1, <3>2 DEF p
  <2>9. QED
    BY <2>1, <2>6, <2>7, <2>8
<1>5. QED
  BY <1>3, <1>4

LEMMA KnownKept ==
    ASSUME IInv, NEW s \in Session, Upsert(s), NEW u, Knows(u)
    PROVE  Knows(u)'
<1>1. ASSUME u.pc = "upserting", u.existing # Absent, Clean(u.principal)'
      PROVE  \E row \in keys' : /\ IsVersion(row, u.principal, u.existing.kvno)
                                /\ row.key = u.existing.key
  <2>1. Clean(u.principal)
    BY <1>1, CleanUpsert
  <2>2. PICK row \in keys : /\ IsVersion(row, u.principal, u.existing.kvno)
                            /\ row.key = u.existing.key
    BY <1>1, <2>1 DEF Knows
  <2>3. row.principal = u.principal /\ row.kvno = u.existing.kvno
    BY <2>2 DEF IsVersion
  <2>4. \E new \in keys' : /\ IsVersion(new, row.principal, row.kvno)
                           /\ new.key = row.key
    BY <1>1, <2>3, RowKept
  <2>5. QED
    BY <2>2, <2>3, <2>4
<1>2. QED
  BY <1>1 DEF Knows, Clean

LEMMA StepUpsert ==
    ASSUME IInv, NEW s \in Session, Upsert(s)
    PROVE  IInv'
<1>1. TicketsKept'
  <2> SUFFICES ASSUME NEW t \in issued, Clean(t.principal)'
               PROVE  \E row \in keys' : /\ IsVersion(row, t.principal, t.kvno)
                                         /\ row.key = t.key
    BY DEF TicketsKept, Clean, Upsert
  <2>1. Clean(t.principal)
    BY CleanUpsert
  <2>2. PICK row \in keys : IsVersion(row, t.principal, t.kvno) /\ row.key = t.key
    BY <2>1 DEF IInv, TicketsKept
  <2>3. row.principal = t.principal /\ row.kvno = t.kvno
    BY <2>2 DEF IsVersion
  <2>4. \E new \in keys' : /\ IsVersion(new, row.principal, row.kvno)
                           /\ new.key = row.key
    BY <2>3, RowKept
  <2>5. QED
    BY <2>2, <2>3, <2>4
<1>2. SessionsKnow'
  <2>1. ASSUME NEW r \in Session, NEW c, c = sessions'[r], c # Idle
        PROVE  Knows(c)'
    <3>1. c = sessions[r]
      BY <2>1 DEF Upsert, IInv, TypeOK
    <3>2. Knows(c)
      BY <2>1, <3>1 DEF IInv, SessionsKnow
    <3>3. QED
      BY <3>2, KnownKept
  <2>2. QED
    BY <2>1 DEF SessionsKnow, Knows, Clean
<1>3. QED
  BY <1>1, <1>2, UpsertTypeOK, UpsertCurrent, UpsertVersions DEF IInv

-----------------------------------------------------------------------------
(* The other steps. *)

LEMMA StepDelete ==
    ASSUME IInv, NEW p \in Principal, Delete(p)
    PROVE  IInv'
<1>1. /\ principals' = [principals EXCEPT ![p] = Absent]
      /\ UNCHANGED <<keys, sessions, issued, recreated, overtaken>>
  BY DEF Delete
<1>2. \A q \in Principal : principals'[q] # Absent => principals'[q] = principals[q]
  BY <1>1 DEF IInv, TypeOK
<1>3. TypeOK'
  BY <1>1 DEF IInv, TypeOK, PrimaryKey
<1>4. \A row \in keys : row.principal \in Principal
  BY RowFields DEF IInv, TypeOK
<1>5. HistoryHoldsCurrent' /\ SupersededRetired' /\ VersionsBelow'
  BY <1>1, <1>2, <1>4
  DEF IInv, HistoryHoldsCurrent, SupersededRetired, VersionsBelow, Clean
<1>6. TicketsKept' /\ SessionsKnow'
  BY <1>1 DEF IInv, TicketsKept, SessionsKnow, Knows, Clean
<1>7. QED
  BY <1>3, <1>5, <1>6 DEF IInv

LEMMA StepToggle ==
    ASSUME IInv, NEW p \in Principal, Toggle(p)
    PROVE  IInv'
<1> DEFINE new == [principals[p] EXCEPT !.disabled = ~@]
<1>1. /\ principals[p] # Absent /\ principals' = [principals EXCEPT ![p] = new]
      /\ UNCHANGED <<keys, sessions, issued, recreated, overtaken>>
  BY DEF Toggle
<1>2. principals[p] \in Record
  BY <1>1 DEF IInv, TypeOK
<1>3. new \in Record
  <2>1. (~principals[p].disabled) \in BOOLEAN
    OBVIOUS
  <2>2. QED
    BY <1>2, <2>1, Zenon DEF Record
<1>4. new.kvno = principals[p].kvno /\ new.key = principals[p].key
  BY <1>2, Zenon DEF Record
<1> HIDE DEF new
<1>5. \A q \in Principal :
          /\ principals'[q].kvno = principals[q].kvno
          /\ principals'[q] # Absent => /\ principals[q] # Absent
                                        /\ principals'[q].key = principals[q].key
  BY <1>1, <1>4 DEF IInv, TypeOK
<1>6. TypeOK'
  BY <1>1, <1>3 DEF IInv, TypeOK, PrimaryKey
<1>7. \A row \in keys : row.principal \in Principal
  BY RowFields DEF IInv, TypeOK
<1>8. HistoryHoldsCurrent' /\ SupersededRetired' /\ VersionsBelow'
  BY <1>1, <1>5, <1>7
  DEF IInv, HistoryHoldsCurrent, SupersededRetired, VersionsBelow, Clean
<1>9. TicketsKept' /\ SessionsKnow'
  BY <1>1 DEF IInv, TicketsKept, SessionsKnow, Knows, Clean
<1>10. QED
  BY <1>6, <1>8, <1>9 DEF IInv

LEMMA StepIssueTicket ==
    ASSUME IInv, NEW p \in Principal, IssueTicket(p)
    PROVE  IInv'
<1> DEFINE server == GetPrincipal(p)
           new == [principal |-> p, kvno |-> server.kvno, key |-> server.key]
<1>1. /\ server # Absent /\ issued' = issued \cup {new}
      /\ UNCHANGED <<principals, keys, sessions, recreated, overtaken>>
  BY DEF IssueTicket
<1>2. /\ server = principals[p] /\ server.kvno \in Kvno /\ server.key \in Password
  BY <1>1, GetPrincipalIs, RecordFields DEF IInv
<1>3. NewRow(p, server.kvno, server.key) \in keys
  BY <1>1, <1>2 DEF IInv, HistoryHoldsCurrent, NewRow
<1>4. new \in Ticket
  BY <1>2 DEF Ticket
<1>5. \E row \in keys : IsVersion(row, p, server.kvno) /\ row.key = server.key
  BY <1>2, <1>3, NewRowFields DEF IsVersion
<1>6. new.principal = p /\ new.kvno = server.kvno /\ new.key = server.key
  OBVIOUS
<1> HIDE DEF new, server
<1>7. TypeOK'
  BY <1>1, <1>4 DEF IInv, TypeOK, PrimaryKey
<1>8. TicketsKept'
  BY <1>1, <1>5, <1>6 DEF IInv, TicketsKept, Clean, IsVersion
<1>9. /\ HistoryHoldsCurrent' /\ SupersededRetired' /\ VersionsBelow'
      /\ SessionsKnow'
  BY <1>1 DEF IInv, HistoryHoldsCurrent, SupersededRetired, VersionsBelow,
              SessionsKnow, Knows, Clean
<1>10. QED
  BY <1>7, <1>8, <1>9 DEF IInv

LEMMA StepIInv == IInv /\ [Next]_vars => IInv'
<1> SUFFICES ASSUME IInv, [Next]_vars PROVE IInv'
  OBVIOUS
<1>1. ASSUME NEW s \in Session, NEW p \in Principal, NEW password \in Password,
             ChangePassword(s, p, password) \/ Add(s, p, password)
      PROVE  IInv'
  BY <1>1, StepChangePassword, StepAdd
<1>2. ASSUME NEW s \in Session, NEW p \in Principal, Start(s, p)
      PROVE  IInv'
  BY <1>2, StepStart
<1>3. ASSUME NEW s \in Session, ReadExisting(s) \/ Upsert(s) \/ Fail(s)
      PROVE  IInv'
  BY <1>3, StepReadExisting, StepUpsert, StepFail
<1>4. ASSUME NEW p \in Principal, Delete(p) \/ Toggle(p) \/ IssueTicket(p)
      PROVE  IInv'
  BY <1>4, StepDelete, StepToggle, StepIssueTicket
<1>5. CASE UNCHANGED vars
  BY <1>5 DEF vars, IInv, TypeOK, PrimaryKey, HistoryHoldsCurrent,
              SupersededRetired, VersionsBelow, TicketsKept, SessionsKnow,
              Knows, Clean
<1>6. QED
  BY <1>1, <1>2, <1>3, <1>4, <1>5 DEF Next

LEMMA Invariance == Spec => []IInv
  BY InitIInv, StepIInv, PTL DEF Spec

-----------------------------------------------------------------------------
\* Every variable keeps its type, and however the administration processes
\* interleave, principal_keys never has two rows of one version.
THEOREM TypeCorrect == Spec => []TypeOK
<1>1. IInv => TypeOK
  BY DEF IInv
<1>2. QED
  BY <1>1, Invariance, PTL

\* The history always holds the current key, live: a reader that asks for the
\* version of a ticket just issued finds its key (upsert_principal).
THEOREM HistoryIsCurrent == Spec => []HistoryHoldsCurrent
<1>1. IInv => HistoryHoldsCurrent
  BY DEF IInv
<1>2. QED
  BY <1>1, Invariance, PTL

\* A key an old ticket needs is lost only by adding the name again or by a
\* password change that another writer overtook.
THEOREM KeyLossIsExplained == Spec => []KeyLossExplained
<1>1. IInv => KeyLossExplained
  <2> SUFFICES ASSUME IInv, NEW t \in issued, GetPrincipal(t.principal) # Absent,
                      Clean(t.principal)
               PROVE  PrincipalKey(t.principal, t.kvno) = {t.key}
    BY DEF KeyLossExplained, Clean
  <2>1. PICK row \in keys : IsVersion(row, t.principal, t.kvno) /\ row.key = t.key
    BY DEF IInv, TicketsKept
  <2>2. \A r \in keys : IsVersion(r, t.principal, t.kvno) => r = row
    BY <2>1 DEF IInv, TypeOK, PrimaryKey, IsVersion
  <2> DEFINE versions == {r \in keys : IsVersion(r, t.principal, t.kvno)}
  <2>3. versions = {row}
    BY <2>1, <2>2
  <2>4. PrincipalKey(t.principal, t.kvno) = {r.key : r \in versions}
    BY <2>3 DEF PrincipalKey
  <2> HIDE DEF versions
  <2>5. QED
    BY <2>1, <2>3, <2>4
<1>2. QED
  BY <1>1, Invariance, PTL

\* And with the same exceptions every key but the current one is marked
\* retired.
THEOREM SupersededAreRetired == Spec => []SupersededRetired
<1>1. IInv => SupersededRetired
  BY DEF IInv
<1>2. QED
  BY <1>1, Invariance, PTL
=============================================================================
