---------------------------- MODULE ReplayCache ----------------------------
(***************************************************************************)
(* The replay cache of core/replay_cache.py and the two callers that       *)
(* depend on it: the TGS exchange (one KDC thread per connection) and the  *)
(* AP exchange (one request at a time), which share one SQLite table.      *)
(*                                                                         *)
(* A caller captures `now` first, checks the authenticator's ctime against *)
(* it, and only later calls check_and_store(now): the clock may move, and  *)
(* other threads may purge the table, between the two.  check_and_store    *)
(* itself is atomic, because its DELETE takes SQLite's write lock and      *)
(* holds it until the commit.  It commits on a connection of its own: what *)
(* becomes of the request afterwards does not touch the row.               *)
(***************************************************************************)
EXTENDS Integers, Sequences

CONSTANTS KdcThread,       \* the KDC's connection threads
          ApServer,        \* the application server's only thread
          Authenticator,   \* fingerprints client|service|ctime|cusec
          ctime,           \* ctime[a]: the client's time stamped on a
          MAX_CLOCK_SKEW,
          MaxTime          \* bound of the clock

Caller == KdcThread \cup {ApServer}
CacheName == {"TGS", "AP"}

ASSUME SkewAssumption == MAX_CLOCK_SKEW \in Nat
ASSUME CtimeAssumption == ctime \in [Authenticator -> Nat]
ASSUME MaxTimeAssumption == MaxTime \in Nat

VARIABLES clock,      \* time.time() on the servers' host
          table,      \* the rows of replay_cache
          caller,     \* the local state of each request handler
          latest,     \* largest `now` any check_and_store has used (history)
          accepted    \* accepted[c][a]: acceptances by commit order (history)

replayVars == <<clock, table, caller, latest, accepted>>

Row == [cache : CacheName, auth : Authenticator, seen_at : Nat]
Idle == [pc |-> "idle"]
Admitted(a, t) == [pc |-> "admitted", auth |-> a, now |-> t]
CallerState == {Idle} \cup [pc : {"admitted", "accepted", "refused"},
                            auth : Authenticator, now : Nat]
Acceptance == [now : Nat, at : Nat, overtaken : BOOLEAN]

\* The cache_name a handler passes: the KDC uses "TGS", the file server "AP".
cacheOf(h) == IF h = ApServer THEN "AP" ELSE "TGS"

ReplayInit ==
    /\ clock = 0
    /\ table = {}
    /\ caller = [h \in Caller |-> Idle]
    /\ latest = 0
    /\ accepted = [c \in CacheName |-> [a \in Authenticator |-> << >>]]

-----------------------------------------------------------------------------
Tick ==
    /\ clock < MaxTime
    /\ clock' = clock + 1
    /\ UNCHANGED <<table, caller, latest, accepted>>

\* The caller's prologue: now = time.time(), then the clock-skew check.  A
\* request outside the skew gets KRB_AP_ERR_SKEW and touches nothing.
\* The mutant takes the skew twice on the late side.
FreshTwice(a, t) ==
    ctime[a] - t <= MAX_CLOCK_SKEW /\ t - ctime[a] <= 2 * MAX_CLOCK_SKEW
Fresh(a, t) == ctime[a] - t <= MAX_CLOCK_SKEW /\ t - ctime[a] <= MAX_CLOCK_SKEW

Admit(h, a) ==
    /\ caller[h] = Idle
    /\ Fresh(a, clock)
    /\ caller' = [caller EXCEPT ![h] = Admitted(a, clock)]
    /\ UNCHANGED <<clock, table, latest, accepted>>

\* DELETE FROM replay_cache WHERE seen_at < now - max_age: rows of both caches.
\* The mutant deletes the rows at the cutoff too (<= for <).
KeptShort(now) == {r \in table : r.seen_at + MAX_CLOCK_SKEW > now}
Kept(now) == {r \in table : r.seen_at + MAX_CLOCK_SKEW >= now}

\* Is the fingerprint in the table?  The mutant takes the other cache's rows for
\* its own, as the DELETE does.
StoredByEither(c, a, now) == \E r \in Kept(now) : r.auth = a
Stored(c, a, now) == \E r \in Kept(now) : r.cache = c /\ r.auth = a

\* check_and_store returns False: the fingerprint was not there and now is.
AcceptNew(h) ==
    LET a == caller[h].auth
        now == caller[h].now
        c == cacheOf(h)
    IN  /\ caller[h].pc = "admitted"
        /\ ~Stored(c, a, now)
        /\ table' = Kept(now) \cup {[cache |-> c, auth |-> a, seen_at |-> now]}
        /\ accepted' = [accepted EXCEPT ![c][a] = Append(@,
               [now |-> now, at |-> clock, overtaken |-> now < latest])]
        /\ latest' = IF now > latest THEN now ELSE latest
        /\ caller' = [caller EXCEPT ![h].pc = "accepted"]
        /\ UNCHANGED clock

\* check_and_store returns True: IntegrityError on the INSERT.  The purge of
\* the same transaction is committed all the same.
RejectReplay(h) ==
    LET a == caller[h].auth
        now == caller[h].now
    IN  /\ caller[h].pc = "admitted"
        /\ Stored(cacheOf(h), a, now)
        /\ table' = Kept(now)
        /\ latest' = IF now > latest THEN now ELSE latest
        /\ caller' = [caller EXCEPT ![h].pc = "refused"]
        /\ UNCHANGED <<clock, accepted>>

\* The write lock is not free within SQLite's busy timeout, or the process
\* dies before the commit: nothing is stored and the client gets no reply.
Abandon(h) ==
    /\ caller[h].pc = "admitted"
    /\ caller' = [caller EXCEPT ![h] = Idle]
    /\ UNCHANGED <<clock, table, latest, accepted>>

\* The rest of the request: it is answered, or it fails, for want of the service
\* or of a client to answer, or with the process.  The row stays.  The mutant
\* lets it go with the request's own transaction.
EndUndone(h) ==
    /\ caller[h].pc \in {"accepted", "refused"}
    /\ table' = {r \in table : ~(/\ caller[h].pc = "accepted"
                                 /\ r.cache = cacheOf(h)
                                 /\ r.auth = caller[h].auth)}
    /\ caller' = [caller EXCEPT ![h] = Idle]
    /\ UNCHANGED <<clock, latest, accepted>>
End(h) ==
    /\ caller[h].pc \in {"accepted", "refused"}
    /\ caller' = [caller EXCEPT ![h] = Idle]
    /\ UNCHANGED <<clock, table, latest, accepted>>

ReplayNext ==
    \/ Tick
    \/ \E h \in Caller, a \in Authenticator : Admit(h, a)
    \/ \E h \in Caller : AcceptNew(h) \/ RejectReplay(h) \/ Abandon(h) \/ End(h)

ReplaySpec == ReplayInit /\ [][ReplayNext]_replayVars

-----------------------------------------------------------------------------
\* Every variable keeps its type, and (cache_name, cache_key) stays a key of
\* the table, as the PRIMARY KEY of core/replay_cache.py demands.
ReplayTypeOK ==
    /\ clock \in Nat
    /\ table \subseteq Row
    /\ \A r, s \in table : r.cache = s.cache /\ r.auth = s.auth => r = s
    /\ caller \in [Caller -> CallerState]
    /\ latest \in Nat
    /\ accepted \in [CacheName -> [Authenticator -> Seq(Acceptance)]]

\* Inside the window MAX_CLOCK_SKEW after an acceptance the same authenticator
\* is not accepted again, whatever the threads' interleaving and whoever
\* purges the shared table (check_and_store called with a captured `now`).
OncePerWindow ==
    \A c \in CacheName, a \in Authenticator :
        LET log == accepted[c][a]
        IN  \A i, j \in DOMAIN log :
                i < j => log[i].now + MAX_CLOCK_SKEW < log[j].at

\* A second acceptance has one of two causes only: the client's clock was
\* ahead of the server's when the first one was stored, so that ctime is fresh
\* for longer than the row is kept; or the second handler stalled between
\* capturing `now` and check_and_store, and a later request overtook it.
RepeatsExplained ==
    \A c \in CacheName, a \in Authenticator :
        LET log == accepted[c][a]
        IN  \A i, j \in DOMAIN log :
                i < j => log[i].now < ctime[a] \/ log[j].overtaken

\* An acceptance stays on file until some request's `now` is past its window,
\* also when the request it belongs to fails after check_and_store.
Remembered ==
    \A c \in CacheName, a \in Authenticator :
        \A i \in DOMAIN accepted[c][a] :
            LET now == accepted[c][a][i].now
            IN  \/ now + MAX_CLOCK_SKEW < latest
                \/ [cache |-> c, auth |-> a, seen_at |-> now] \in table

\* Nobody is refused for what he has not done: a request is refused as a replay
\* only if the same server accepted the same authenticator before, and no longer
\* ago than the window.  The table is shared, and TGS and AP authenticators of one
\* client, service and time have one cache_key: neither the other cache's rows
\* nor a row that has lived too long may refuse it.
RefusedOnlyRepeats ==
    \A h \in Caller :
        caller[h].pc = "refused" =>
            \E i \in DOMAIN accepted[cacheOf(h)][caller[h].auth] :
                accepted[cacheOf(h)][caller[h].auth][i].now + MAX_CLOCK_SKEW
                    >= caller[h].now

\* The purge a request makes, for either cache, never drops a row that is
\* still inside the window by the wall clock (DELETE ... seen_at < cutoff).
PurgeOnlyStale ==
    [][\A r \in table \ table' : r.seen_at + MAX_CLOCK_SKEW < clock]_replayVars
=============================================================================
