---------------------------- MODULE AuthLockout ----------------------------
(***************************************************************************)
(* The AS exchange of the KDC and its account lockout: handle_client       *)
(* (kdc/kdc_server.py) runs handle_as_request (kdc/as_handler.py) in one   *)
(* thread per connection, each with its own SQLite connection.             *)
(*                                                                         *)
(* Reads see the committed database.  The first write of a request takes   *)
(* SQLite's write lock, which is kept until the commit; handle_client      *)
(* commits only after the reply has been sent, so a failed send or a crash *)
(* rolls the request's write back.  record_auth_failure reads the counter  *)
(* BEFORE it takes the lock: that read can be stale when it is written.    *)
(***************************************************************************)
EXTENDS Integers, FiniteSets

CONSTANTS Thread,                  \* connection threads of the KDC
          Principal,               \* registered principals
          Tgs,                     \* krbtgt/<realm>@<realm>, one of them
          NoThread,                \* "nobody holds the write lock"
          AUTH_FAILURE_THRESHOLD,
          AUTH_LOCKOUT_SECONDS,
          MaxRequests,             \* bound of the requests received
          MaxTime                  \* bound of the clock

ASSUME TgsAssumption == Tgs \in Principal /\ NoThread \notin Thread
ASSUME LockoutAssumption ==
    /\ AUTH_FAILURE_THRESHOLD \in Nat \ {0}
    /\ AUTH_LOCKOUT_SECONDS \in Nat \ {0}

VARIABLES clock,      \* time.time()
          db,         \* committed rows of the table principals
          writer,     \* the thread that holds SQLite's write lock
          conn,       \* the local state of each connection thread
          requests,   \* number of AS_REQs received (bounded)
          streak,     \* committed authentication failures of each principal
                      \* since its counter was last reset (history)
          overtaken   \* one of them was counted from a row read before that
                      \* reset (history)

vars == <<clock, db, writer, conn, requests, streak, overtaken>>

Row == [disabled : BOOLEAN, failed_auth_count : Nat, locked_until : Nat]
Step == {"idle", "received", "failing", "counted", "verified", "succeeding",
         "refusing", "replying", "replied"}
\* What the request's write does to its client's row.
Write == {"none", "failure", "reset"}
\* missed: what was done to the client's row since the thread last read it
\* (history).
Conn == [pc : Step, client : Principal, valid : BOOLEAN, now : Nat,
         write : Write, failed_auth_count : Nat, locked_until : Nat,
         missed : SUBSET {"lock", "reset"}]

Clear == [disabled |-> FALSE, failed_auth_count |-> 0, locked_until |-> 0]
Idle == [pc |-> "idle", client |-> Tgs, valid |-> FALSE, now |-> 0,
         write |-> "none", failed_auth_count |-> 0, locked_until |-> 0,
         missed |-> {}]

Init ==
    /\ clock = 0
    /\ db = [p \in Principal |-> Clear]
    /\ writer = NoThread
    /\ conn = [t \in Thread |-> Idle]
    /\ requests = 0
    /\ streak = [p \in Principal |-> 0]
    /\ overtaken = [p \in Principal |-> FALSE]

-----------------------------------------------------------------------------
Tick ==
    /\ clock < MaxTime
    /\ clock' = clock + 1
    /\ UNCHANGED <<db, writer, conn, requests, streak, overtaken>>

\* receive_message, then now = time.time().  `valid` says whether the request
\* carries a pre-authentication that decrypts with the client's key and lies
\* inside the clock skew; a missing or malformed one is not valid either.
Receive(t, p, valid) ==
    /\ conn[t].pc = "idle"
    /\ requests < MaxRequests
    /\ requests' = requests + 1
    /\ conn' = [conn EXCEPT ![t] =
           [Idle EXCEPT !.pc = "received", !.client = p, !.valid = valid,
                        !.now = clock]]
    /\ UNCHANGED <<clock, db, writer, streak, overtaken>>

\* The AS turns away a disabled client and one whose lock is still running.  The
\* mutant lets one more request through.
RevokedLate(row, now) ==
    row.disabled \/ (row.locked_until > now /\
                        row.failed_auth_count > AUTH_FAILURE_THRESHOLD)
Revoked(row, now) == row.disabled \/ row.locked_until > now

\* The first SELECT: a revoked client is refused (and the refusal audited,
\* which is a write), any other goes on to its pre-authentication.
LookupClient(t) ==
    LET row == db[conn[t].client]
    IN  /\ conn[t].pc = "received"
        /\ conn' = [conn EXCEPT ![t].missed = {}, ![t].pc =
               IF Revoked(row, conn[t].now) THEN "refusing"
               ELSE IF conn[t].valid THEN "verified" ELSE "failing"]
        /\ UNCHANGED <<clock, db, writer, requests, streak, overtaken>>

\* The lock that the failed-th failure leaves: at the threshold and beyond it,
\* the later of the old lock and now + AUTH_LOCKOUT_SECONDS.  Its mutants lock
\* one failure late and extend a lock in force.
LateLock(row, failed, now) ==
    IF failed > AUTH_FAILURE_THRESHOLD
      THEN now + AUTH_LOCKOUT_SECONDS ELSE row.locked_until
ExtendedLock(row, failed, now) ==
    IF failed >= AUTH_FAILURE_THRESHOLD /\ row.locked_until > now
      THEN row.locked_until + AUTH_LOCKOUT_SECONDS
      ELSE IF failed >= AUTH_FAILURE_THRESHOLD
             THEN now + AUTH_LOCKOUT_SECONDS ELSE row.locked_until
NewLock(row, failed, now) ==
    LET until == now + AUTH_LOCKOUT_SECONDS
    IN  IF failed >= AUTH_FAILURE_THRESHOLD /\ until > row.locked_until
          THEN until ELSE row.locked_until

\* record_auth_failure's SELECT and the new values it computes from it.
CountFailure(t) ==
    LET row == db[conn[t].client]
        failed == row.failed_auth_count + 1
    IN  /\ conn[t].pc = "failing"
        /\ conn' = [conn EXCEPT
               ![t].pc = "counted",
               ![t].write = "failure",
               ![t].missed = {},
               ![t].failed_auth_count = failed,
               ![t].locked_until = NewLock(row, failed, conn[t].now)]
        /\ UNCHANGED <<clock, db, writer, requests, streak, overtaken>>

\* The lookup of the TGS key: without it the request fails, uncounted.
LookupTgs(t) ==
    /\ conn[t].pc = "verified"
    /\ conn' = [conn EXCEPT
           ![t].pc = IF db[Tgs].disabled THEN "refusing" ELSE "succeeding",
           ![t].write = IF db[Tgs].disabled THEN "none" ELSE "reset"]
    /\ UNCHANGED <<clock, db, writer, requests, streak, overtaken>>

\* The threads whose next step is a write: a refusal writes its audit row.
Writing(t) == conn[t].pc \in {"counted", "succeeding", "refusing"}

\* The request's UPDATE and INSERT INTO audit_log take the write lock.
TakeLock(t) ==
    /\ Writing(t)
    /\ writer = NoThread
    /\ writer' = t
    /\ conn' = [conn EXCEPT ![t].pc = "replying"]
    /\ UNCHANGED <<clock, db, requests, streak, overtaken>>

\* "database is locked" after SQLite's busy timeout: the exception reaches
\* handle_client, which closes both connections without a reply.
Busy(t) ==
    /\ Writing(t)
    /\ writer # NoThread
    /\ conn' = [conn EXCEPT ![t] = Idle]
    /\ UNCHANGED <<clock, db, writer, requests, streak, overtaken>>

SendReply(t) ==
    /\ conn[t].pc = "replying"
    /\ conn' = [conn EXCEPT ![t].pc = "replied"]
    /\ UNCHANGED <<clock, db, writer, requests, streak, overtaken>>

\* send_message raises: conn.close() without commit rolls the write back.
SendFails(t) ==
    /\ conn[t].pc = "replying"
    /\ conn' = [conn EXCEPT ![t] = Idle]
    /\ writer' = NoThread
    /\ UNCHANGED <<clock, db, requests, streak, overtaken>>

\* The row after the request's UPDATE; `disabled` is not one of its columns.  The
\* mutant's reset clears the lock and leaves the counter.
UpdatedLockOnly(c) ==
    CASE c.write = "failure" ->
            [db[c.client] EXCEPT !.failed_auth_count = c.failed_auth_count,
                                 !.locked_until = c.locked_until]
      [] c.write = "reset" -> [db[c.client] EXCEPT !.locked_until = 0]
      [] OTHER -> db[c.client]
Updated(c) ==
    CASE c.write = "failure" ->
            [db[c.client] EXCEPT !.failed_auth_count = c.failed_auth_count,
                                 !.locked_until = c.locked_until]
      [] c.write = "reset" ->
            [db[c.client] EXCEPT !.failed_auth_count = 0, !.locked_until = 0]
      [] OTHER -> db[c.client]

\* The other threads that have read p's row, when something was done to it.
Missing(p, what) ==
    [u \in Thread |->
        IF conn[u].client = p /\ conn[u].pc \in {"failing", "counted",
                                                 "verified", "succeeding"}
        THEN [conn[u] EXCEPT !.missed = @ \cup what] ELSE conn[u]]

Commit(t) ==
    LET c == conn[t]
        p == c.client
    IN  /\ c.pc = "replied"
        /\ db' = [db EXCEPT ![p] = Updated(c)]
        /\ streak' = [streak EXCEPT ![p] =
                          CASE c.write = "failure" -> @ + 1
                            [] c.write = "reset" -> 0
                            [] OTHER -> @]
        /\ overtaken' = [overtaken EXCEPT ![p] =
                             CASE c.write = "failure" -> @ \/ "reset" \in c.missed
                               [] c.write = "reset" -> FALSE
                               [] OTHER -> @]
        /\ writer' = NoThread
        /\ conn' = [Missing(p, CASE c.write = "failure" ->
                                      IF c.locked_until > 0 THEN {"lock"} ELSE {}
                                [] c.write = "reset" -> {"reset"}
                                [] OTHER -> {}) EXCEPT ![t] = Idle]
        /\ UNCHANGED <<clock, requests>>

\* The KDC process dies: SQLite rolls back whatever was not committed.
Crash ==
    /\ conn' = [t \in Thread |-> Idle]
    /\ writer' = NoThread
    /\ UNCHANGED <<clock, db, requests, streak, overtaken>>

\* An administrator's transactions, which need the write lock too:
\* upsert_principal (a new password, or adding a disabled principal again)
\* clears the lockout and enables the row; toggling flips `disabled`.
AdminUpsert(p) ==
    /\ writer = NoThread
    /\ db' = [db EXCEPT ![p] = Clear]
    /\ streak' = [streak EXCEPT ![p] = 0]
    /\ overtaken' = [overtaken EXCEPT ![p] = FALSE]
    /\ conn' = Missing(p, {"reset"})
    /\ UNCHANGED <<clock, writer, requests>>

AdminToggle(p) ==
    /\ writer = NoThread
    /\ db' = [db EXCEPT ![p].disabled = ~@]
    /\ UNCHANGED <<clock, writer, conn, requests, streak, overtaken>>

Handle(t) ==
    \/ LookupClient(t) \/ CountFailure(t) \/ LookupTgs(t)
    \/ TakeLock(t) \/ Busy(t)
    \/ SendReply(t) \/ SendFails(t) \/ Commit(t)

Next ==
    \/ Tick
    \/ \E t \in Thread, p \in Principal, valid \in BOOLEAN : Receive(t, p, valid)
    \/ \E t \in Thread : Handle(t)
    \/ Crash
    \/ \E p \in Principal : AdminUpsert(p) \/ AdminToggle(p)

Spec == Init /\ [][Next]_vars

-----------------------------------------------------------------------------
\* Every variable keeps its type.
TypeOK ==
    /\ clock \in Nat
    /\ db \in [Principal -> Row]
    /\ writer \in Thread \cup {NoThread}
    /\ conn \in [Thread -> Conn]
    /\ requests \in Nat
    /\ streak \in [Principal -> Nat]
    /\ overtaken \in [Principal -> BOOLEAN]

\* The write lock is held by the one thread between its first write and its
\* commit, and by nobody else: no path of handle_client leaves it taken.
LockDiscipline ==
    \A t \in Thread : writer = t <=> conn[t].pc \in {"replying", "replied"}

\* The counter and the lock of a row agree, stale reads or not: locked_until
\* is set exactly when the counter has reached the threshold.
CounterMatchesLock ==
    \A p \in Principal :
        db[p].locked_until > 0 <=> db[p].failed_auth_count >= AUTH_FAILURE_THRESHOLD

\* Nobody is locked out without as many failures since the last reset as the
\* threshold demands: rolled-back attempts do not count, and a stale count is
\* never too high, with one exception.  record_auth_failure may have read the
\* counter before a success or an administrator reset it, and commit after: then
\* failures that were forgiven count again.
LockIsEarned ==
    \A p \in Principal :
        db[p].locked_until > 0 => streak[p] >= AUTH_FAILURE_THRESHOLD \/ overtaken[p]

\* A lockout is temporary: it never reaches further than AUTH_LOCKOUT_SECONDS.
LockIsTemporary ==
    \A p \in Principal : db[p].locked_until <= clock + AUTH_LOCKOUT_SECONDS

\* docs/test-demo-strategy.md:124: after enough failures the AS answers
\* KDC_ERR_CLIENT_REVOKED until the lockout has run out.  A lock in force is
\* therefore never shortened, except by an administrator's new password.
LockHolds ==
    [][\A p \in Principal :
           db[p].locked_until > clock =>
               \/ db'[p].locked_until >= db[p].locked_until
               \/ AdminUpsert(p)]_vars

\* What a lock in force is worth when requests overlap: only an administrator ends
\* it early, or a request whose thread had read the client's row before the lock
\* was committed (handle_as_request checks it once, at the start).  Whoever comes
\* to a locked account is refused, right password or not.
LockEndsExplained ==
    [][\A p \in Principal :
           db[p].locked_until > clock /\ db'[p].locked_until < db[p].locked_until =>
               \/ AdminUpsert(p)
               \/ \E t \in Thread : /\ conn[t].pc = "replied" /\ conn'[t] = Idle
                                    /\ conn[t].client = p /\ "lock" \in conn[t].missed]_vars

\* tests/test_as_preauth.py: the AUTH_FAILURE_THRESHOLD-th committed failure in
\* a row leaves a counter at the threshold, that is, a lock.
ThresholdLocks ==
    \A p \in Principal :
        streak[p] >= AUTH_FAILURE_THRESHOLD =>
            db[p].failed_auth_count >= AUTH_FAILURE_THRESHOLD
=============================================================================
