------------------------- MODULE AuthLockoutProofs -------------------------
(***************************************************************************)
(* Proofs about AuthLockout for every number of threads and principals and *)
(* every threshold and duration.                                           *)
(*                                                                         *)
(* What survives the stale read of record_auth_failure: the two values a   *)
(* thread is about to write come from ONE row, so they agree with each     *)
(* other, and unless the counter or the lock was changed behind the        *)
(* thread's back they are still right when they are written.               *)
(* What needs a single thread at a time: nothing a thread has read about a *)
(* row can change before it writes, other than by an administrator's reset.*)
(***************************************************************************)
EXTENDS AuthLockout, TLAPS

\* Only a request that has taken, or is about to take, the write lock has
\* something to write.
WriteKnown(c) ==
    /\ c.write = "failure" => c.pc \in {"counted", "replying", "replied"}
    /\ c.write = "reset" => c.pc \in {"succeeding", "replying", "replied"}

\* The values record_auth_failure computed and has not written yet.
CountSound(c) ==
    c.write = "failure" =>
        /\ \/ "reset" \in c.missed \/ overtaken[c.client]
           \/ c.failed_auth_count <= streak[c.client] + 1
        /\ c.locked_until <= clock + AUTH_LOCKOUT_SECONDS
        /\ c.locked_until > 0 <=> c.failed_auth_count >= AUTH_FAILURE_THRESHOLD

\* What a thread that has missed no lock may still write: no earlier lock than
\* the one it saw, and a reset only where no lock is in force.
LockSound(c) ==
    "lock" \notin c.missed =>
        /\ c.write = "failure" => db[c.client].locked_until <= c.locked_until
        /\ c.pc = "verified" \/ c.write = "reset" => db[c.client].locked_until <= c.now

ThreadSound(c) ==
    c.now <= clock /\ WriteKnown(c) /\ CountSound(c) /\ LockSound(c)

PendingSound == \A t \in Thread : ThreadSound(conn[t])

CounterBounded ==
    \A p \in Principal : overtaken[p] \/ db[p].failed_auth_count <= streak[p]

Rows == CounterBounded /\ CounterMatchesLock /\ LockIsTemporary

\* The inductive invariant, whatever the number of threads.
IInv == TypeOK /\ LockDiscipline /\ PendingSound /\ Rows

-----------------------------------------------------------------------------
LEMMA IdleType ==
    /\ Idle \in Conn /\ Idle.pc = "idle" /\ Idle.write = "none" /\ Idle.now = 0
    /\ Idle.client = Tgs
BY TgsAssumption DEF Idle, Conn, Step, Write

\* A thread that is back at the start has nothing to write.
LEMMA IdleSound ==
    ASSUME TypeOK
    PROVE  ThreadSound(Idle)
BY IdleType DEF ThreadSound, WriteKnown, CountSound, LockSound, TypeOK

LEMMA InitInv == Init => IInv
<1> SUFFICES ASSUME Init PROVE IInv
  OBVIOUS
<1> USE TgsAssumption, LockoutAssumption DEF Init, Clear
<1>1. TypeOK
  BY IdleType DEF TypeOK, Row
<1>2. LockDiscipline
  BY IdleType DEF LockDiscipline
<1>3. PendingSound
  BY <1>1, IdleSound DEF PendingSound
<1>4. Rows
  BY DEF Rows, CounterBounded, CounterMatchesLock, LockIsTemporary
<1>5. QED
  BY <1>1, <1>2, <1>3, <1>4 DEF IInv

\* The fields of a connection, once TypeOK is known.
LEMMA ConnType ==
    ASSUME TypeOK, NEW t \in Thread
    PROVE  /\ conn[t] \in Conn
           /\ conn[t].pc \in Step /\ conn[t].client \in Principal
           /\ conn[t].now \in Nat /\ conn[t].write \in Write
           /\ conn[t].failed_auth_count \in Nat /\ conn[t].locked_until \in Nat
           /\ conn[t].missed \in SUBSET {"lock", "reset"}
BY DEF TypeOK, Conn

LEMMA RowType ==
    ASSUME TypeOK, NEW p \in Principal
    PROVE  /\ db[p] \in Row /\ db[p].disabled \in BOOLEAN
           /\ db[p].failed_auth_count \in Nat /\ db[p].locked_until \in Nat
           /\ streak[p] \in Nat /\ overtaken[p] \in BOOLEAN
BY DEF TypeOK, Row

\* The rows and what is known of them.
rowVars == <<clock, db, streak, overtaken>>

\* A step of one thread that leaves the rows and the other threads alone.
LEMMA OneThread ==
    ASSUME IInv, NEW t \in Thread, NEW c, c \in Conn, conn' = [conn EXCEPT ![t] = c],
           UNCHANGED rowVars, requests' \in Nat,
           writer' \in Thread \cup {NoThread}, LockDiscipline', ThreadSound(c)
    PROVE  IInv'
<1> USE DEF IInv, rowVars
<1>1. TypeOK'
  BY DEF TypeOK
<1>2. PendingSound'
  <2> SUFFICES ASSUME NEW u \in Thread PROVE ThreadSound(conn[u])'
    BY DEF PendingSound
  <2>1. conn'[u] = IF u = t THEN c ELSE conn[u]
    BY DEF TypeOK
  <2>2. ThreadSound(conn[u])
    BY DEF PendingSound
  <2>3. QED
    BY <2>1, <2>2 DEF ThreadSound, WriteKnown, CountSound, LockSound
<1>3. Rows'
  BY DEF Rows, CounterBounded, CounterMatchesLock, LockIsTemporary
<1>4. QED
  BY <1>1, <1>2, <1>3

\* Steps that move one thread and touch neither the database nor the lock.
LEMMA ReceiveInv ==
    ASSUME IInv, NEW t \in Thread, NEW p \in Principal, NEW valid \in BOOLEAN,
           Receive(t, p, valid)
    PROVE  IInv'
<1> USE DEF Receive, IInv
<1>1. PICK c \in Conn : /\ c.pc = "received" /\ c.now = clock /\ c.write = "none"
                        /\ conn' = [conn EXCEPT ![t] = c]
  <2> DEFINE c == [Idle EXCEPT !.pc = "received", !.client = p, !.valid = valid,
                               !.now = clock]
  <2>1. c \in Conn /\ c.pc = "received" /\ c.now = clock /\ c.write = "none"
    BY DEF TypeOK, Conn, Idle, Step, Write
  <2>2. QED
    BY <2>1
<1>2. LockDiscipline'
  BY <1>1 DEF LockDiscipline, TypeOK
<1>3. ThreadSound(c)
  BY <1>1 DEF ThreadSound, WriteKnown, CountSound, LockSound, TypeOK
<1>4. UNCHANGED rowVars /\ requests' \in Nat /\ writer' \in Thread \cup {NoThread}
  BY DEF rowVars, TypeOK
<1>5. QED
  BY <1>1, <1>2, <1>3, <1>4, OneThread

LEMMA LookupInv ==
    ASSUME IInv, NEW t \in Thread, LookupClient(t) \/ LookupTgs(t)
    PROVE  IInv'
<1> USE DEF LookupClient, LookupTgs, Revoked, IInv
<1>1. ThreadSound(conn[t])
  BY DEF PendingSound
<1>2. PICK c \in Conn :
         /\ conn' = [conn EXCEPT ![t] = c]
         /\ c.client = conn[t].client /\ c.now = conn[t].now
         /\ conn[t].pc \in {"received", "verified"}
         /\ c.pc \in {"refusing", "verified", "failing", "succeeding"}
         /\ c.write # "failure"
         /\ c.write = "reset" => c.pc = "succeeding"
         /\ \/ c.missed = conn[t].missed /\ conn[t].pc = "verified"
            \/ ~(db[c.client].locked_until > c.now)
            \/ c.pc # "verified" /\ c.write # "reset"
  <2>1. CASE LookupClient(t)
    <3> DEFINE c == [conn[t] EXCEPT !.missed = {}, !.pc =
               IF Revoked(db[conn[t].client], conn[t].now) THEN "refusing"
               ELSE IF conn[t].valid THEN "verified" ELSE "failing"]
    <3>1. conn' = [conn EXCEPT ![t] = c] /\ conn[t].pc = "received"
      BY <2>1 DEF TypeOK
    <3>2. c \in Conn /\ conn[t].write = "none"
      BY <1>1, <3>1, ConnType DEF Conn, Step, ThreadSound, WriteKnown, Write
    <3>3. QED
      BY <3>1, <3>2, ConnType DEF Conn
  <2>2. CASE LookupTgs(t)
    <3>1. PICK pc \in {"refusing", "succeeding"}, write \in {"none", "reset"} :
             /\ conn' = [conn EXCEPT ![t].pc = pc, ![t].write = write]
             /\ conn[t].pc = "verified" /\ (write = "reset" => pc = "succeeding")
      BY <2>2
    <3> DEFINE c == [conn[t] EXCEPT !.pc = pc, !.write = write]
    <3>2. /\ c \in Conn /\ c.pc = pc /\ c.write = write
          /\ c.client = conn[t].client /\ c.now = conn[t].now
          /\ c.missed = conn[t].missed
      BY ConnType DEF Conn, Step, Write
    <3>3. conn' = [conn EXCEPT ![t] = c]
      BY <3>1 DEF TypeOK
    <3> HIDE DEF c
    <3>4. QED
      BY <3>1, <3>2, <3>3
  <2>3. QED
    BY <2>1, <2>2
<1>3. ThreadSound(c)
  <2>1. c.client \in Principal /\ c.now \in Nat /\ db[c.client].locked_until \in Nat
    BY <1>2, RowType DEF Conn
  <2>2. QED
    BY <1>1, <1>2, <2>1 DEF ThreadSound, WriteKnown, CountSound, LockSound
<1>4. LockDiscipline'
  BY <1>2 DEF LockDiscipline, TypeOK
<1>5. UNCHANGED rowVars /\ requests' \in Nat /\ writer' \in Thread \cup {NoThread}
  BY DEF rowVars, TypeOK
<1>6. QED
  BY <1>2, <1>3, <1>4, <1>5, OneThread

LEMMA CountInv ==
    ASSUME IInv, NEW t \in Thread, CountFailure(t)
    PROVE  IInv'
<1> USE DEF IInv
<1> DEFINE row == db[conn[t].client]
           failed == row.failed_auth_count + 1
           until == conn[t].now + AUTH_LOCKOUT_SECONDS
           newUntil == IF failed >= AUTH_FAILURE_THRESHOLD /\ until > row.locked_until
                         THEN until ELSE row.locked_until
           c == [conn[t] EXCEPT !.pc = "counted", !.write = "failure", !.missed = {},
                                !.failed_auth_count = failed,
                                !.locked_until = newUntil]
<1>1. /\ conn[t].pc = "failing"
      /\ conn' = [conn EXCEPT ![t] = c]
      /\ UNCHANGED <<clock, db, writer, requests, streak, overtaken>>
  BY DEF CountFailure, NewLock, TypeOK
<1>2. /\ conn[t].client \in Principal /\ conn[t].now \in Nat
      /\ row.failed_auth_count \in Nat /\ row.locked_until \in Nat
      /\ streak[conn[t].client] \in Nat /\ clock \in Nat
      /\ AUTH_FAILURE_THRESHOLD \in Nat \ {0} /\ AUTH_LOCKOUT_SECONDS \in Nat \ {0}
  BY ConnType, RowType, LockoutAssumption DEF TypeOK
<1>3. failed \in Nat /\ newUntil \in Nat
  BY <1>2
<1>4. /\ c \in Conn /\ c.pc = "counted" /\ c.write = "failure"
      /\ c.client = conn[t].client /\ c.now = conn[t].now
      /\ c.failed_auth_count = failed /\ c.locked_until = newUntil
  BY <1>2, <1>3, ConnType DEF Conn, Step, Write
<1>5. /\ overtaken[conn[t].client] \/ failed <= streak[conn[t].client] + 1
      /\ newUntil <= clock + AUTH_LOCKOUT_SECONDS
      /\ newUntil > 0 <=> failed >= AUTH_FAILURE_THRESHOLD
      /\ row.locked_until <= newUntil
      /\ conn[t].now <= clock
  <2>1. /\ overtaken[conn[t].client] \/ row.failed_auth_count <= streak[conn[t].client]
        /\ row.locked_until <= clock + AUTH_LOCKOUT_SECONDS
        /\ row.locked_until > 0 <=> row.failed_auth_count >= AUTH_FAILURE_THRESHOLD
    BY <1>2 DEF Rows, CounterBounded, LockIsTemporary, CounterMatchesLock
  <2>2. conn[t].now <= clock
    BY DEF PendingSound, ThreadSound
  <2>3. QED
    BY <1>2, <2>1, <2>2
<1> HIDE DEF c, failed, newUntil
<1>6. PICK e \in Conn : e = c
  BY <1>4
<1>7. ThreadSound(e)
  BY <1>4, <1>5, <1>6 DEF ThreadSound, WriteKnown, CountSound, LockSound
<1>8. LockDiscipline'
  BY <1>1, <1>4 DEF LockDiscipline, TypeOK
<1>9. UNCHANGED rowVars /\ requests' \in Nat /\ writer' \in Thread \cup {NoThread}
  BY <1>1 DEF rowVars, TypeOK
<1>10. QED
  BY <1>1, <1>6, <1>7, <1>8, <1>9, OneThread

\* The write lock is taken, and the reply sent: what is to be written stays.
LEMMA LockInv ==
    ASSUME IInv, NEW t \in Thread, TakeLock(t) \/ SendReply(t)
    PROVE  IInv'
<1> USE DEF TakeLock, SendReply, Writing, IInv
<1>1. PICK c \in Conn :
         /\ conn' = [conn EXCEPT ![t] = c]
         /\ c.pc \in {"replying", "replied"} /\ c.now = conn[t].now
         /\ c.write = conn[t].write /\ c.client = conn[t].client
         /\ c.failed_auth_count = conn[t].failed_auth_count
         /\ c.locked_until = conn[t].locked_until /\ c.missed = conn[t].missed
  <2>1. PICK pc \in {"replying", "replied"} : conn' = [conn EXCEPT ![t].pc = pc]
    OBVIOUS
  <2> DEFINE c == [conn[t] EXCEPT !.pc = pc]
  <2>2. /\ c \in Conn /\ c.pc = pc /\ c.now = conn[t].now
        /\ c.write = conn[t].write /\ c.client = conn[t].client
        /\ c.failed_auth_count = conn[t].failed_auth_count
        /\ c.locked_until = conn[t].locked_until /\ c.missed = conn[t].missed
    BY ConnType DEF Conn, Step
  <2>3. conn' = [conn EXCEPT ![t] = c]
    BY <2>1 DEF TypeOK
  <2>4. QED
    BY <2>1, <2>2, <2>3
<1>2. ThreadSound(conn[t])
  BY DEF PendingSound
<1>3. ThreadSound(c)
  BY <1>1, <1>2 DEF ThreadSound, WriteKnown, CountSound, LockSound
<1>4. LockDiscipline'
  BY <1>1, TgsAssumption DEF LockDiscipline, TypeOK
<1>5. UNCHANGED rowVars /\ requests' \in Nat /\ writer' \in Thread \cup {NoThread}
  BY DEF rowVars, TypeOK
<1>6. QED
  BY <1>1, <1>3, <1>4, <1>5, OneThread

\* Steps that abort requests: a rollback leaves the database as it was.
LEMMA AbortInv ==
    ASSUME IInv, (\E t \in Thread : Busy(t) \/ SendFails(t)) \/ Crash
    PROVE  IInv'
<1> USE IdleType DEF IInv
<1>1. /\ UNCHANGED <<clock, db, requests, streak, overtaken>>
      /\ writer' \in {writer, NoThread}
      /\ conn' \in [Thread -> Conn]
      /\ \A t \in Thread : conn'[t] \in {conn[t], Idle}
  BY DEF Busy, SendFails, Crash, TypeOK
<1>2. TypeOK'
  BY <1>1 DEF TypeOK
<1>3. LockDiscipline'
  <2>1. CASE Crash
    BY <2>1, TgsAssumption DEF Crash, LockDiscipline
  <2>2. ASSUME NEW t \in Thread, Busy(t)
        PROVE  LockDiscipline'
    BY <2>2 DEF Busy, Writing, LockDiscipline, TypeOK
  <2>3. ASSUME NEW t \in Thread, SendFails(t)
        PROVE  LockDiscipline'
    BY <2>3, TgsAssumption DEF SendFails, LockDiscipline, TypeOK
  <2>4. QED
    BY <2>1, <2>2, <2>3
<1>4. PendingSound'
  <2> SUFFICES ASSUME NEW u \in Thread PROVE ThreadSound(conn[u])'
    BY DEF PendingSound
  <2>1. ThreadSound(conn[u]) /\ ThreadSound(Idle)
    BY IdleSound DEF PendingSound
  <2>2. conn'[u] \in {conn[u], Idle}
    BY <1>1
  <2>3. QED
    BY <1>1, <2>1, <2>2 DEF ThreadSound, WriteKnown, CountSound, LockSound
<1>5. Rows'
  BY <1>1 DEF Rows, CounterBounded, CounterMatchesLock, LockIsTemporary
<1>6. QED
  BY <1>2, <1>3, <1>4, <1>5

LEMMA TickInv ==
    ASSUME IInv, Tick
    PROVE  IInv'
<1> USE DEF Tick, IInv
<1>1. TypeOK'
  BY DEF TypeOK
<1>2. LockDiscipline'
  BY DEF LockDiscipline
<1>3. PendingSound'
  <2>1. \A t \in Thread : conn[t].now \in Nat /\ conn[t].locked_until \in Nat
    BY ConnType
  <2>2. QED
    BY <2>1, LockoutAssumption
       DEF PendingSound, ThreadSound, WriteKnown, CountSound, LockSound, TypeOK
<1>4. Rows'
  <2>1. \A p \in Principal : db[p].locked_until \in Nat
    BY RowType
  <2>2. QED
    BY <2>1, LockoutAssumption
       DEF Rows, CounterBounded, CounterMatchesLock, LockIsTemporary, TypeOK
<1>5. QED
  BY <1>1, <1>2, <1>3, <1>4

\* What Missing adds: the readers of p's row have missed `what`, and no thread
\* changes otherwise.
LEMMA MissingIs ==
    ASSUME TypeOK, NEW p \in Principal, NEW what \in SUBSET {"lock", "reset"}
    PROVE  /\ Missing(p, what) \in [Thread -> Conn]
           /\ \A u \in Thread :
                 LET d == Missing(p, what)[u]
                 IN  /\ d.pc = conn[u].pc /\ d.client = conn[u].client
                     /\ d.now = conn[u].now /\ d.write = conn[u].write
                     /\ d.failed_auth_count = conn[u].failed_auth_count
                     /\ d.locked_until = conn[u].locked_until
                     /\ conn[u].missed \subseteq d.missed
                     /\ conn[u].client = p /\ conn[u].pc \in {"failing", "counted",
                                                "verified", "succeeding"}
                           => what \subseteq d.missed
<1>1. \A u \in Thread : conn[u] \in Conn
  BY ConnType
<1>2. \A u \in Thread : [conn[u] EXCEPT !.missed = @ \cup what] \in Conn
  BY <1>1 DEF Conn
<1>3. QED
  BY <1>1, <1>2 DEF Missing, Conn

\* A committed change of one row, seen by the threads that did not make it: those
\* that had read the row know that they missed it.
LEMMA OthersSound ==
    ASSUME IInv, NEW p \in Principal, NEW what \in SUBSET {"lock", "reset"},
           NEW u \in Thread, conn[u].pc \notin {"replying", "replied"},
           conn'[u] = Missing(p, what)[u], clock' = clock, db' \in [Principal -> Row],
           \A q \in Principal \ {p} : /\ db'[q] = db[q] /\ streak'[q] = streak[q]
                                      /\ overtaken'[q] = overtaken[q],
           "lock" \notin what => db'[p].locked_until = 0
                                   \/ db'[p].locked_until = db[p].locked_until,
           "reset" \notin what => /\ overtaken[p] => overtaken'[p]
                                  /\ streak'[p] \in Nat /\ streak'[p] >= streak[p]
    PROVE  ThreadSound(conn[u])'
<1> USE DEF IInv
<1> DEFINE d == Missing(p, what)[u]
           q == conn[u].client
<1>1. /\ d.pc = conn[u].pc /\ d.client = q
      /\ d.now = conn[u].now /\ d.write = conn[u].write
      /\ d.failed_auth_count = conn[u].failed_auth_count
      /\ d.locked_until = conn[u].locked_until
      /\ conn[u].missed \subseteq d.missed
      /\ q = p /\ conn[u].pc \in {"failing", "counted", "verified", "succeeding"}
            => what \subseteq d.missed
  BY MissingIs
<1>2. /\ q \in Principal /\ conn[u].now \in Nat /\ conn[u].locked_until \in Nat
      /\ conn[u].failed_auth_count \in Nat /\ streak[q] \in Nat
      /\ db[q].locked_until \in Nat /\ db'[q].locked_until \in Nat
  BY ConnType, RowType DEF Row
<1>3. ThreadSound(conn[u])
  BY DEF PendingSound
<1> HIDE DEF d, q
<1>4. d.now <= clock' /\ WriteKnown(d)
  BY <1>1, <1>3 DEF ThreadSound, WriteKnown
<1>5. /\ d.write = "failure" => d.pc = "counted"
      /\ d.write = "reset" => d.pc = "succeeding"
  BY <1>1, <1>4 DEF WriteKnown
<1>6. ASSUME d.write = "failure"
      PROVE  "reset" \in d.missed \/ overtaken'[q]
               \/ d.failed_auth_count <= streak'[q] + 1
  <2>1. "reset" \in conn[u].missed \/ overtaken[q]
          \/ d.failed_auth_count <= streak[q] + 1
    BY <1>1, <1>3, <1>6 DEF ThreadSound, CountSound, q
  <2>2. CASE q # p
    BY <1>1, <1>2, <2>1, <2>2
  <2>3. CASE q = p /\ "reset" \in what
    BY <1>1, <1>5, <1>6, <2>3
  <2>4. CASE q = p /\ "reset" \notin what
    BY <1>1, <1>2, <2>1, <2>4
  <2>5. QED
    BY <2>2, <2>3, <2>4
<1>7. ASSUME "lock" \notin d.missed, d.write = "failure" \/ d.pc = "verified" \/ d.write = "reset"
      PROVE  db'[q].locked_until = 0 \/ db'[q].locked_until = db[q].locked_until
  <2>1. CASE q # p
    BY <1>2, <2>1
  <2>2. CASE q = p
    BY <1>1, <1>5, <1>7, <2>2
  <2>3. QED
    BY <2>1, <2>2
<1>8. /\ d.write = "failure" =>
            /\ d.locked_until <= clock' + AUTH_LOCKOUT_SECONDS
            /\ d.locked_until > 0 <=> d.failed_auth_count >= AUTH_FAILURE_THRESHOLD
      /\ "lock" \notin d.missed =>
            /\ d.write = "failure" => db[q].locked_until <= d.locked_until
            /\ d.pc = "verified" \/ d.write = "reset" => db[q].locked_until <= d.now
  BY <1>1, <1>3 DEF ThreadSound, CountSound, LockSound, q
<1>9. QED
  <2>1. conn'[u] = d
    BY DEF d
  <2>2. LockSound(conn[u])'
    BY <1>1, <1>2, <1>7, <1>8, <2>1 DEF LockSound
  <2>3. CountSound(conn[u])'
    BY <1>1, <1>6, <1>8, <2>1 DEF CountSound
  <2>4. QED
    BY <1>4, <2>1, <2>2, <2>3 DEF ThreadSound, WriteKnown

\* The new row a commit leaves, and what is known of it.
LEMMA CommitRows ==
    ASSUME IInv, NEW t \in Thread, Commit(t)
    PROVE  LET p == conn[t].client
               what == CASE conn[t].write = "failure" ->
                              IF conn[t].locked_until > 0 THEN {"lock"} ELSE {}
                         [] conn[t].write = "reset" -> {"reset"}
                         [] OTHER -> {}
           IN  /\ TypeOK' /\ Rows'
               /\ \A q \in Principal \ {p} : /\ db'[q] = db[q] /\ streak'[q] = streak[q]
                                             /\ overtaken'[q] = overtaken[q]
               /\ "lock" \notin what => db'[p].locked_until = 0
                                          \/ db'[p].locked_until = db[p].locked_until
               /\ "reset" \notin what => /\ overtaken[p] => overtaken'[p]
                                         /\ streak'[p] \in Nat /\ streak'[p] >= streak[p]
<1> USE DEF IInv
<1> DEFINE c == conn[t]
           p == conn[t].client
           what == CASE conn[t].write = "failure" ->
                          IF conn[t].locked_until > 0 THEN {"lock"} ELSE {}
                     [] conn[t].write = "reset" -> {"reset"}
                     [] OTHER -> {}
           row == Updated(c)
           count == CASE c.write = "failure" -> streak[p] + 1
                      [] c.write = "reset" -> 0
                      [] OTHER -> streak[p]
           over == CASE c.write = "failure" -> overtaken[p] \/ "reset" \in c.missed
                     [] c.write = "reset" -> FALSE
                     [] OTHER -> overtaken[p]
<1>1. /\ c.pc = "replied"
      /\ db' = [db EXCEPT ![p] = row]
      /\ streak' = [streak EXCEPT ![p] = count]
      /\ overtaken' = [overtaken EXCEPT ![p] = over]
      /\ writer' = NoThread
      /\ conn' = [Missing(p, what) EXCEPT ![t] = Idle]
      /\ clock' = clock /\ requests' = requests
  BY DEF Commit
<1>2. /\ p \in Principal /\ c.write \in Write /\ clock \in Nat /\ c.now \in Nat
      /\ c.failed_auth_count \in Nat /\ c.locked_until \in Nat
      /\ db[p] \in Row /\ streak[p] \in Nat /\ overtaken[p] \in BOOLEAN
      /\ AUTH_FAILURE_THRESHOLD \in Nat \ {0} /\ AUTH_LOCKOUT_SECONDS \in Nat \ {0}
  BY ConnType, RowType, LockoutAssumption DEF TypeOK
<1>3. what \in SUBSET {"lock", "reset"}
  OBVIOUS
\* The new row is as sound as the old one.
<1>4. /\ row \in Row /\ count \in Nat /\ over \in BOOLEAN
      /\ over \/ row.failed_auth_count <= count
      /\ row.locked_until <= clock + AUTH_LOCKOUT_SECONDS
      /\ row.locked_until > 0 <=> row.failed_auth_count >= AUTH_FAILURE_THRESHOLD
      /\ "lock" \notin what => row.locked_until = 0 \/ row.locked_until = db[p].locked_until
      /\ "reset" \notin what => (overtaken[p] => over) /\ count >= streak[p]
  <2>1. CASE c.write = "failure"
    <3>1. /\ row \in Row
          /\ row.failed_auth_count = c.failed_auth_count
          /\ row.locked_until = c.locked_until
      BY <1>2, <2>1 DEF Updated, Row
    <3>2. CountSound(c)
      BY DEF PendingSound, ThreadSound
    <3>3. /\ count = streak[p] + 1
          /\ over \in BOOLEAN /\ (over <=> overtaken[p] \/ "reset" \in c.missed)
      BY <2>1
    <3>4. "lock" \notin what => c.locked_until = 0
      BY <1>2, <2>1
    <3>5. over \/ row.failed_auth_count <= count
      BY <2>1, <3>1, <3>2, <3>3 DEF CountSound
    <3> HIDE DEF row, count, over, what
    <3>6. "reset" \notin what => (overtaken[p] => over) /\ count >= streak[p]
      BY <1>2, <3>3
    <3>7. QED
      BY <1>2, <2>1, <3>1, <3>2, <3>3, <3>4, <3>5, <3>6 DEF CountSound
  <2>2. CASE c.write = "reset"
    <3>1. row \in Row /\ row.failed_auth_count = 0 /\ row.locked_until = 0
      BY <1>2, <2>2 DEF Updated, Row
    <3>2. count = 0 /\ over \in BOOLEAN /\ what = {"reset"}
      BY <2>2
    <3> HIDE DEF row, count, over, what
    <3>3. QED
      BY <1>2, <3>1, <3>2
  <2>3. CASE c.write = "none"
    <3>1. row = db[p] /\ count = streak[p] /\ over = overtaken[p]
      BY <2>3 DEF Updated
    <3> HIDE DEF row, count, over, what
    <3>2. QED
      BY <1>2, RowType, <3>1 DEF Rows, CounterBounded, CounterMatchesLock, LockIsTemporary
  <2>4. QED
    BY <1>2, <2>1, <2>2, <2>3 DEF Write
<1>5. /\ Missing(p, what) \in [Thread -> Conn]
  BY <1>2, <1>3, MissingIs
<1> HIDE DEF row, count, over, what
<1>6. TypeOK'
  BY <1>1, <1>2, <1>4, <1>5, IdleType DEF TypeOK
<1>7. \A q \in Principal :
         /\ db'[q] = (IF q = p THEN row ELSE db[q])
         /\ streak'[q] = (IF q = p THEN count ELSE streak[q])
         /\ overtaken'[q] = (IF q = p THEN over ELSE overtaken[q])
  BY <1>1, <1>2 DEF TypeOK
<1>8. Rows'
  BY <1>1, <1>4, <1>7 DEF Rows, CounterBounded, CounterMatchesLock, LockIsTemporary
<1>9. QED
  BY <1>2, <1>4, <1>6, <1>7, <1>8 DEF what

LEMMA CommitInv ==
    ASSUME IInv, NEW t \in Thread, Commit(t)
    PROVE  IInv'
<1> USE DEF IInv
<1> DEFINE p == conn[t].client
           what == CASE conn[t].write = "failure" ->
                          IF conn[t].locked_until > 0 THEN {"lock"} ELSE {}
                     [] conn[t].write = "reset" -> {"reset"}
                     [] OTHER -> {}
<1>1. p \in Principal /\ what \in SUBSET {"lock", "reset"}
  BY ConnType
<1>2. /\ conn[t].pc = "replied" /\ writer' = NoThread /\ clock' = clock
      /\ conn' = [Missing(p, what) EXCEPT ![t] = Idle]
  BY DEF Commit
<1>3. /\ TypeOK' /\ Rows'
      /\ \A q \in Principal \ {p} : /\ db'[q] = db[q] /\ streak'[q] = streak[q]
                                    /\ overtaken'[q] = overtaken[q]
      /\ "lock" \notin what => db'[p].locked_until = 0
                                 \/ db'[p].locked_until = db[p].locked_until
      /\ "reset" \notin what => /\ overtaken[p] => overtaken'[p]
                                /\ streak'[p] \in Nat /\ streak'[p] >= streak[p]
  BY CommitRows
<1> HIDE DEF p, what
<1>4. /\ conn'[t] = Idle
      /\ \A u \in Thread \ {t} : conn'[u] = Missing(p, what)[u]
      /\ \A u \in Thread \ {t} : conn[u].pc \notin {"replying", "replied"}
      /\ \A u \in Thread \ {t} : Missing(p, what)[u].pc = conn[u].pc
  <2>1. Missing(p, what) \in [Thread -> Conn]
    BY <1>1, MissingIs
  <2>2. \A u \in Thread \ {t} : Missing(p, what)[u].pc = conn[u].pc
    BY <1>1, MissingIs
  <2>3. QED
    BY <1>2, <2>1, <2>2 DEF LockDiscipline
<1>5. LockDiscipline'
  BY <1>2, <1>4, IdleType, TgsAssumption DEF LockDiscipline
<1>6. PendingSound'
  <2> SUFFICES ASSUME NEW u \in Thread PROVE ThreadSound(conn[u])'
    BY DEF PendingSound
  <2>1. CASE u = t
    BY <1>3, <1>4, <2>1, IdleType
       DEF ThreadSound, WriteKnown, CountSound, LockSound, TypeOK
  <2>2. CASE u # t
    <3>1. db' \in [Principal -> Row]
      BY <1>3 DEF TypeOK
    <3>2. QED
      BY <1>1, <1>2, <1>3, <1>4, <2>2, <3>1, OthersSound
  <2>3. QED
    BY <2>1, <2>2
<1>7. QED
  BY <1>3, <1>5, <1>6

LEMMA UpsertInv ==
    ASSUME IInv, NEW p \in Principal, AdminUpsert(p)
    PROVE  IInv'
<1> USE DEF IInv
<1> DEFINE what == {"reset"}
<1>1. /\ writer = NoThread /\ UNCHANGED <<clock, writer, requests>>
      /\ conn' = Missing(p, what)
      /\ conn' \in [Thread -> Conn]
      /\ \A u \in Thread : conn'[u].pc = conn[u].pc
  BY MissingIs DEF AdminUpsert
<1>2. /\ db' \in [Principal -> Row] /\ streak' \in [Principal -> Nat]
      /\ overtaken' \in [Principal -> BOOLEAN]
      /\ db'[p] = Clear /\ streak'[p] = 0
      /\ \A q \in Principal \ {p} : /\ db'[q] = db[q] /\ streak'[q] = streak[q]
                                    /\ overtaken'[q] = overtaken[q]
  BY DEF AdminUpsert, TypeOK, Row, Clear
<1>3. TypeOK'
  BY <1>1, <1>2 DEF TypeOK
<1>4. LockDiscipline'
  BY <1>1 DEF LockDiscipline
<1>5. PendingSound'
  <2> SUFFICES ASSUME NEW u \in Thread PROVE ThreadSound(conn[u])'
    BY DEF PendingSound
  <2>1. conn[u].pc \notin {"replying", "replied"}
    BY <1>1, TgsAssumption DEF LockDiscipline
  <2>2. db'[p].locked_until = 0
    BY <1>2 DEF Clear
  <2>3. what \in SUBSET {"lock", "reset"} /\ "reset" \in what
    OBVIOUS
  <2> HIDE DEF what
  <2>4. QED
    BY <1>1, <1>2, <2>1, <2>2, <2>3, OthersSound
<1>6. Rows'
  <2>1. clock \in Nat
    BY DEF TypeOK
  <2>2. QED
    BY <1>1, <1>2, <2>1, LockoutAssumption
       DEF Rows, CounterBounded, CounterMatchesLock, LockIsTemporary, Clear
<1>7. QED
  BY <1>3, <1>4, <1>5, <1>6

LEMMA ToggleInv ==
    ASSUME IInv, NEW p \in Principal, AdminToggle(p)
    PROVE  IInv'
<1> USE DEF IInv
<1>1. UNCHANGED <<clock, writer, conn, requests, streak, overtaken>>
  BY DEF AdminToggle
<1>2. /\ db' \in [Principal -> Row]
      /\ \A q \in Principal : /\ db'[q].failed_auth_count = db[q].failed_auth_count
                              /\ db'[q].locked_until = db[q].locked_until
  <2>1. (~db[p].disabled) \in BOOLEAN
    OBVIOUS
  <2>2. [db[p] EXCEPT !.disabled = ~db[p].disabled] \in Row
    BY <2>1, RowType DEF Row
  <2>3. QED
    BY <2>2, RowType DEF AdminToggle, TypeOK, Row
<1>3. TypeOK' /\ LockDiscipline'
  BY <1>1, <1>2 DEF TypeOK, LockDiscipline
<1>4. PendingSound'
  <2>1. \A t \in Thread : conn[t].client \in Principal
    BY ConnType
  <2>2. QED
    BY <1>1, <1>2, <2>1 DEF PendingSound, ThreadSound, WriteKnown, CountSound, LockSound
<1>5. Rows'
  BY <1>1, <1>2 DEF Rows, CounterBounded, CounterMatchesLock, LockIsTemporary
<1>6. QED
  BY <1>3, <1>4, <1>5

LEMMA NextInv == IInv /\ [Next]_vars => IInv'
<1> SUFFICES ASSUME IInv, [Next]_vars PROVE IInv'
  OBVIOUS
<1>1. CASE Tick
  BY <1>1, TickInv
<1>2. ASSUME NEW t \in Thread, NEW p \in Principal, NEW valid \in BOOLEAN,
             Receive(t, p, valid)
      PROVE  IInv'
  BY <1>2, ReceiveInv
<1>3. ASSUME NEW t \in Thread, Handle(t) PROVE IInv'
  BY <1>3, LookupInv, CountInv, LockInv, AbortInv, CommitInv DEF Handle
<1>4. CASE Crash
  BY <1>4, AbortInv
<1>5. ASSUME NEW p \in Principal, AdminUpsert(p) \/ AdminToggle(p) PROVE IInv'
  BY <1>5, UpsertInv, ToggleInv
<1>6. CASE UNCHANGED vars
  BY <1>6 DEF vars, IInv, TypeOK, LockDiscipline, PendingSound, ThreadSound,
              WriteKnown, CountSound, LockSound, Rows, CounterBounded,
              CounterMatchesLock, LockIsTemporary
<1>7. QED
  BY <1>1, <1>2, <1>3, <1>4, <1>5, <1>6 DEF Next

LEMMA Invariance == Spec => []IInv
BY InitInv, NextInv, PTL DEF Spec

\* Every variable keeps its type.
THEOREM TypeCorrect == Spec => []TypeOK
<1>1. IInv => TypeOK
  BY DEF IInv
<1>2. QED
  BY <1>1, Invariance, PTL

\* The counter and the lock written by record_auth_failure agree, whatever the
\* threads read and overwrite of each other.
THEOREM CounterAndLockAgree == Spec => []CounterMatchesLock
<1>1. IInv => CounterMatchesLock
  BY DEF IInv, Rows
<1>2. QED
  BY <1>1, Invariance, PTL

\* A locked principal has AUTH_FAILURE_THRESHOLD committed failures since its
\* counter was last reset, or one that was counted from before the reset.
THEOREM NoUnearnedLock == Spec => []LockIsEarned
<1>1. IInv => LockIsEarned
  <2> SUFFICES ASSUME IInv, NEW p \in Principal, db[p].locked_until > 0, ~overtaken[p]
               PROVE  streak[p] >= AUTH_FAILURE_THRESHOLD
    BY DEF LockIsEarned
  <2>1. /\ db[p].failed_auth_count >= AUTH_FAILURE_THRESHOLD
        /\ db[p].failed_auth_count <= streak[p]
    BY DEF IInv, Rows, CounterMatchesLock, CounterBounded
  <2>2. QED
    BY <2>1, RowType, LockoutAssumption DEF IInv
<1>2. QED
  BY <1>1, Invariance, PTL

\* No lock reaches further than AUTH_LOCKOUT_SECONDS from now.
THEOREM EveryLockExpires == Spec => []LockIsTemporary
<1>1. IInv => LockIsTemporary
  BY DEF IInv, Rows
<1>2. QED
  BY <1>1, Invariance, PTL

\* The write lock is released on every path of handle_client.
THEOREM WriteLockDiscipline == Spec => []LockDiscipline
<1>1. IInv => LockDiscipline
  BY DEF IInv
<1>2. QED
  BY <1>1, Invariance, PTL

\* A lock in force is ended early only by an administrator, or by a thread that
\* had read the row before the lock was committed.
THEOREM EarlyEndsExplained == Spec => LockEndsExplained
<1> DEFINE Explained == \A p \in Principal :
           db[p].locked_until > clock /\ db'[p].locked_until < db[p].locked_until =>
               \/ AdminUpsert(p)
               \/ \E t \in Thread : /\ conn[t].pc = "replied" /\ conn'[t] = Idle
                                    /\ conn[t].client = p /\ "lock" \in conn[t].missed
<1>1. IInv /\ [Next]_vars => [Explained]_vars
  <2> SUFFICES ASSUME IInv, Next, NEW p \in Principal, db[p].locked_until > clock,
                      db'[p].locked_until < db[p].locked_until, ~AdminUpsert(p)
               PROVE  \E t \in Thread : /\ conn[t].pc = "replied" /\ conn'[t] = Idle
                                        /\ conn[t].client = p /\ "lock" \in conn[t].missed
    OBVIOUS
  <2> USE DEF IInv
  <2>0. db[p].locked_until \in Nat /\ clock \in Nat
    BY RowType DEF TypeOK
  <2>1. ASSUME NEW t \in Thread, Commit(t)
        PROVE  /\ conn[t].pc = "replied" /\ conn'[t] = Idle
               /\ conn[t].client = p /\ "lock" \in conn[t].missed
    <3>1. conn[t].pc = "replied" /\ conn'[t] = Idle
      BY <2>1, IdleType DEF Commit, Missing
    <3>2. conn[t].client = p
      BY <2>0, <2>1 DEF Commit, TypeOK
    <3>3. ThreadSound(conn[t]) /\ conn[t] \in Conn /\ conn[t].write \in Write
          /\ conn[t].now \in Nat /\ conn[t].locked_until \in Nat /\ db[p] \in Row
      BY ConnType, RowType DEF PendingSound
    <3>4. db'[p] = Updated(conn[t])
      BY <2>1, <3>2 DEF Commit, TypeOK
    <3>5. CASE conn[t].write = "failure"
      <4>1. db'[p].locked_until = conn[t].locked_until
        BY <3>2, <3>3, <3>4, <3>5 DEF Updated, Row
      <4>2. "lock" \notin conn[t].missed => db[p].locked_until <= conn[t].locked_until
        BY <3>2, <3>3, <3>5 DEF ThreadSound, LockSound
      <4>3. QED
        BY <2>0, <3>1, <3>2, <3>3, <4>1, <4>2
    <3>6. CASE conn[t].write = "reset"
      <4>1. "lock" \notin conn[t].missed => db[p].locked_until <= conn[t].now
        BY <3>2, <3>3, <3>6 DEF ThreadSound, LockSound
      <4>2. QED
        BY <2>0, <3>1, <3>2, <3>3, <4>1 DEF ThreadSound
    <3>7. CASE conn[t].write = "none"
      BY <2>0, <3>2, <3>4, <3>7 DEF Updated
    <3>8. QED
      BY <3>3, <3>5, <3>6, <3>7 DEF Write
  <2>2. ASSUME NEW q \in Principal, AdminUpsert(q) \/ AdminToggle(q)
        PROVE  db'[p].locked_until = db[p].locked_until
    BY <2>2 DEF AdminUpsert, AdminToggle, TypeOK, Row
  <2>3. ASSUME NEW t \in Thread, Handle(t)
        PROVE  UNCHANGED db \/ Commit(t)
    BY <2>3 DEF Handle, LookupClient, CountFailure, LookupTgs, TakeLock, Busy,
                SendReply, SendFails
  <2>4. \/ UNCHANGED db
        \/ \E t \in Thread : Commit(t)
        \/ \E q \in Principal : AdminUpsert(q) \/ AdminToggle(q)
    BY <2>3 DEF Next, Tick, Receive, Crash
  <2>5. QED
    BY <2>0, <2>1, <2>2, <2>4
<1>2. QED
  BY <1>1, Invariance, PTL DEF Spec, LockEndsExplained

-----------------------------------------------------------------------------
(* One request at a time.                                                  *)

Alone == \A s, t \in Thread : s = t

\* A request past the lock check still sees an unlocked row when it writes,
\* and the counter it writes includes every failure since the last reset.
SeqInv ==
    /\ \A t \in Thread :
          LET c == conn[t]
          IN  /\ c.pc \in {"failing", "verified"} \/ c.write # "none"
                    => db[c.client].locked_until <= c.now
              /\ c.write = "failure" => c.failed_auth_count >= streak[c.client] + 1
    /\ \A p \in Principal : streak[p] <= db[p].failed_auth_count

LEMMA SeqInit == Init => SeqInv
BY TgsAssumption DEF Init, SeqInv, Idle, Clear

LEMMA SeqNext ==
    ASSUME Alone, IInv, SeqInv, [Next]_vars
    PROVE  SeqInv'
<1> USE DEF IInv
<1>0. Idle.pc = "idle" /\ Idle.write = "none" /\ Idle.client = Tgs
  BY DEF Idle
<1>1. CASE Tick
  BY <1>1 DEF Tick, SeqInv
<1>2. ASSUME NEW t \in Thread, NEW p \in Principal, NEW valid \in BOOLEAN,
             Receive(t, p, valid)
      PROVE  SeqInv'
  <2>1. /\ conn'[t].pc = "received" /\ conn'[t].write = "none"
        /\ \A u \in Thread : u = t
        /\ UNCHANGED <<db, streak>>
    BY <1>2 DEF Receive, Idle, TypeOK, Alone
  <2>2. QED
    BY <2>1 DEF SeqInv
<1>3. ASSUME NEW t \in Thread, LookupClient(t) PROVE SeqInv'
  <2>1. /\ conn[t].client \in Principal /\ conn[t].now \in Nat
        /\ db[conn[t].client].locked_until \in Nat
    BY ConnType, RowType
  <2>2. /\ \A u \in Thread : u = t
        /\ UNCHANGED <<db, streak>>
        /\ conn'[t].client = conn[t].client /\ conn'[t].now = conn[t].now
        /\ conn'[t].write = conn[t].write
        /\ conn'[t].failed_auth_count = conn[t].failed_auth_count
        /\ conn'[t].pc \in {"failing", "verified"}
              => ~(db[conn[t].client].locked_until > conn[t].now)
    BY <1>3 DEF LookupClient, Revoked, TypeOK, Conn, Alone
  <2>3. QED
    BY <2>1, <2>2 DEF SeqInv
<1>4. ASSUME NEW t \in Thread, CountFailure(t) PROVE SeqInv'
  <2>1. /\ conn[t].client \in Principal
        /\ db[conn[t].client].failed_auth_count \in Nat
        /\ streak[conn[t].client] \in Nat
    BY ConnType, RowType
  <2>2. /\ \A u \in Thread : u = t
        /\ UNCHANGED <<db, streak>>
        /\ conn[t].pc = "failing"
        /\ conn'[t].client = conn[t].client /\ conn'[t].now = conn[t].now
        /\ conn'[t].failed_auth_count = db[conn[t].client].failed_auth_count + 1
    BY <1>4 DEF CountFailure, NewLock, TypeOK, Conn, Alone
  <2>3. QED
    BY <2>1, <2>2 DEF SeqInv
<1>5. ASSUME NEW t \in Thread, LookupTgs(t) PROVE SeqInv'
  <2>1. /\ \A u \in Thread : u = t
        /\ UNCHANGED <<db, streak>>
        /\ conn[t].pc = "verified"
        /\ conn'[t].client = conn[t].client /\ conn'[t].now = conn[t].now
        /\ conn'[t].write # "failure"
    BY <1>5 DEF LookupTgs, TypeOK, Conn, Alone
  <2>2. QED
    BY <2>1 DEF SeqInv
<1>6. ASSUME NEW t \in Thread, TakeLock(t) \/ SendReply(t) PROVE SeqInv'
  <2>1. /\ \A u \in Thread : u = t
        /\ UNCHANGED <<db, streak>>
        /\ conn'[t].pc \in {"replying", "replied"}
        /\ conn'[t].client = conn[t].client /\ conn'[t].now = conn[t].now
        /\ conn'[t].write = conn[t].write
        /\ conn'[t].failed_auth_count = conn[t].failed_auth_count
    BY <1>6 DEF TakeLock, SendReply, TypeOK, Conn, Alone
  <2>2. QED
    BY <2>1 DEF SeqInv
<1>7. CASE (\E t \in Thread : Busy(t) \/ SendFails(t)) \/ Crash
  <2>1. /\ UNCHANGED <<db, streak>>
        /\ \A u \in Thread : conn'[u] \in {conn[u], Idle}
    BY <1>7 DEF Busy, SendFails, Crash, TypeOK
  <2>2. QED
    BY <1>0, <2>1 DEF SeqInv
<1>8. ASSUME NEW t \in Thread, Commit(t) PROVE SeqInv'
  <2> DEFINE c == conn[t]
  <2>1. /\ c.client \in Principal /\ c.write \in Write
        /\ c.failed_auth_count \in Nat /\ streak[c.client] \in Nat
        /\ db[c.client] \in Row /\ db[c.client].failed_auth_count \in Nat
    BY ConnType, RowType
  <2>2. \A u \in Thread : conn'[u] = Idle
    BY <1>8 DEF Commit, Missing, TypeOK, Alone
  <2>3. ASSUME NEW p \in Principal
        PROVE  streak'[p] <= db'[p].failed_auth_count
    <3>1. CASE p # c.client
      BY <1>8, <3>1 DEF Commit, TypeOK, SeqInv
    <3>2. CASE p = c.client /\ c.write = "failure"
      <4>1. /\ db'[p] = Updated(c) /\ streak'[p] = streak[p] + 1
        BY <1>8, <3>2 DEF Commit, TypeOK
      <4>2. Updated(c).failed_auth_count = c.failed_auth_count
        BY <2>1, <3>2 DEF Updated, Row
      <4>3. QED
        BY <3>2, <4>1, <4>2 DEF SeqInv
    <3>3. CASE p = c.client /\ c.write = "reset"
      <4>1. /\ db'[p] = Updated(c) /\ streak'[p] = 0
        BY <1>8, <3>3 DEF Commit, TypeOK
      <4>2. Updated(c).failed_auth_count = 0
        BY <2>1, <3>3 DEF Updated, Row
      <4>3. QED
        BY <4>1, <4>2
    <3>4. CASE p = c.client /\ c.write = "none"
      <4>1. /\ db'[p] = db[p] /\ streak'[p] = streak[p]
        BY <1>8, <3>4 DEF Commit, TypeOK, Updated
      <4>2. QED
        BY <4>1 DEF SeqInv
    <3>5. QED
      BY <2>1, <3>1, <3>2, <3>3, <3>4 DEF Write
  <2>4. QED
    BY <1>0, <2>2, <2>3 DEF SeqInv
<1>9. ASSUME NEW q \in Principal, AdminUpsert(q) \/ AdminToggle(q) PROVE SeqInv'
  <2>0. \A t \in Thread : /\ conn'[t].pc = conn[t].pc /\ conn'[t].client = conn[t].client
                          /\ conn'[t].now = conn[t].now /\ conn'[t].write = conn[t].write
                          /\ conn'[t].failed_auth_count = conn[t].failed_auth_count
    BY <1>9, MissingIs DEF AdminUpsert, AdminToggle
  <2>1.    \A p \in Principal :
              \/ /\ db'[p].failed_auth_count = db[p].failed_auth_count
                 /\ db'[p].locked_until = db[p].locked_until
                 /\ streak'[p] = streak[p]
              \/ /\ db'[p].failed_auth_count = 0 /\ db'[p].locked_until = 0
                 /\ streak'[p] = 0
    BY <1>9 DEF AdminUpsert, AdminToggle, TypeOK, Row, Clear
  <2>2. \A t \in Thread : /\ conn[t].client \in Principal /\ conn[t].now \in Nat
                          /\ conn[t].failed_auth_count \in Nat
    BY ConnType
  <2>3. \A p \in Principal : streak[p] \in Nat
    BY RowType
  <2>4. QED
    BY <2>0, <2>1, <2>2, <2>3 DEF SeqInv
<1>10. CASE UNCHANGED vars
  BY <1>10 DEF vars, SeqInv
<1>11. QED
  BY <1>1, <1>2, <1>3, <1>4, <1>5, <1>6, <1>7, <1>8, <1>9, <1>10 DEF Next, Handle

\* When the KDC serves one connection at a time, a lock in force is never
\* shortened by the AS exchange: neither by a success nor by a stale counter.
THEOREM SequentialLockHolds ==
    ASSUME Alone
    PROVE  Spec => LockHolds
<1> DEFINE Holds == \A p \in Principal :
               db[p].locked_until > clock =>
                   \/ db'[p].locked_until >= db[p].locked_until
                   \/ AdminUpsert(p)
<1>1. IInv /\ SeqInv /\ [Next]_vars => SeqInv'
  BY SeqNext
<1>2. IInv /\ SeqInv /\ [Next]_vars => [Holds]_vars
  <2> SUFFICES ASSUME IInv, SeqInv, Next, NEW p \in Principal,
                      db[p].locked_until > clock, ~AdminUpsert(p)
               PROVE  db'[p].locked_until >= db[p].locked_until
    OBVIOUS
  <2>0. db[p].locked_until \in Nat /\ clock \in Nat
    BY RowType DEF IInv, TypeOK
  <2>1. ASSUME NEW t \in Thread, Commit(t)
        PROVE  db'[p] = db[p]
    <3>1. CASE p = conn[t].client
      <4>1. conn[t].now \in Nat /\ conn[t].now <= clock
        BY ConnType DEF IInv, PendingSound, ThreadSound
      <4>2. conn[t].write = "none"
        BY <2>0, <3>1, <4>1 DEF SeqInv
      <4>3. QED
        BY <2>1, <3>1, <4>2 DEF Commit, Updated, IInv, TypeOK
    <3>2. CASE p # conn[t].client
      BY <2>1, <3>2 DEF Commit, IInv, TypeOK
    <3>3. QED
      BY <3>1, <3>2
  <2>2. ASSUME NEW q \in Principal, AdminUpsert(q)
        PROVE  db'[p] = db[p]
    BY <2>2 DEF AdminUpsert, IInv, TypeOK
  <2>3. ASSUME NEW q \in Principal, AdminToggle(q)
        PROVE  db'[p].locked_until = db[p].locked_until
    BY <2>3 DEF AdminToggle, IInv, TypeOK, Row
  <2>4. CASE UNCHANGED db
    BY <2>0, <2>4
  <2>5. ASSUME NEW t \in Thread, Handle(t)
        PROVE  UNCHANGED db \/ Commit(t)
    BY <2>5 DEF Handle, LookupClient, CountFailure, LookupTgs, TakeLock, Busy,
                SendReply, SendFails
  <2>6. \/ UNCHANGED db
        \/ \E t \in Thread : Commit(t)
        \/ \E q \in Principal : AdminUpsert(q) \/ AdminToggle(q)
    BY <2>5 DEF Next, Tick, Receive, Crash
  <2>7. CASE \E t \in Thread : Commit(t)
    BY <2>0, <2>1, <2>7
  <2>8. CASE \E q \in Principal : AdminUpsert(q) \/ AdminToggle(q)
    BY <2>0, <2>2, <2>3, <2>8
  <2>9. QED
    BY <2>4, <2>6, <2>7, <2>8
<1>3. QED
  BY <1>1, <1>2, SeqInit, Invariance, PTL DEF Spec, LockHolds

\* One at a time, the threshold-th failure in a row leaves a locked account.
THEOREM SequentialThreshold ==
    ASSUME Alone
    PROVE  Spec => []ThresholdLocks
<1>1. IInv /\ SeqInv /\ [Next]_vars => SeqInv'
  BY SeqNext
<1>2. IInv /\ SeqInv => ThresholdLocks
  <2> SUFFICES ASSUME IInv, SeqInv, NEW p \in Principal,
                      streak[p] >= AUTH_FAILURE_THRESHOLD
               PROVE  db[p].failed_auth_count >= AUTH_FAILURE_THRESHOLD
    BY DEF ThresholdLocks
  <2>1. QED
    BY RowType, LockoutAssumption DEF SeqInv, IInv
<1>3. QED
  BY <1>1, <1>2, SeqInit, Invariance, PTL DEF Spec
=============================================================================
