---------------------------- MODULE ServerProofs ----------------------------
(***************************************************************************)
(* Proofs about what the threads of the servers share: the replay cache,   *)
(* for every set of threads and authenticators, every assignment of client *)
(* times and every skew; and the connections, the audit log and its lock,  *)
(* for any number of connections, any length of a request, any backlog and *)
(* any number of stops.                                                    *)
(*                                                                         *)
(* ReplayCache: an accepted fingerprint is on file until some request's    *)
(* `now` has left its window (Remembered).  When check_and_store finds no  *)
(* row, either that purge or its own one removed it, and both happened     *)
(* at a captured time no later than the clock (CapturedPast).  Every row   *)
(* goes back to an acceptance (RowsAccepted), so that none refuses a first *)
(* request.                                                                *)
(*                                                                         *)
(* Connections: a connection waits in one queue at most, and only while no *)
(* thread has it (Queues), so that a thread starts from nothing; from then *)
(* on its steps come in one order, and what it has received, replied and   *)
(* committed follows from where it is (Lifecycle).                         *)
(***************************************************************************)
EXTENDS ReplayCache, Connections, TLAPS

-----------------------------------------------------------------------------
(* The replay cache *)

\* Times captured by handlers, and the largest used, are not in the future;
\* an admitted authenticator was fresh at the captured time.
CapturedPast ==
    /\ latest <= clock
    /\ \A h \in Caller : caller[h].pc = "admitted" =>
           /\ caller[h].now <= clock
           /\ Fresh(caller[h].auth, caller[h].now)

\* A row of the table is that of an acceptance by its own cache.
RowsAccepted ==
    \A r \in table :
        \E i \in DOMAIN accepted[r.cache][r.auth] :
            accepted[r.cache][r.auth][i].now = r.seen_at

\* The inductive invariant.
ReplayIInv ==
    /\ ReplayTypeOK /\ CapturedPast /\ Remembered /\ OncePerWindow /\ RepeatsExplained
    /\ RowsAccepted /\ RefusedOnlyRepeats

-----------------------------------------------------------------------------
\* A handler past the clock-skew check holds an authenticator and a time.
LEMMA AdmittedState ==
    ASSUME ReplayTypeOK, NEW h \in Caller,
           caller[h].pc \in {"admitted", "accepted", "refused"}
    PROVE  /\ caller[h].auth \in Authenticator
           /\ caller[h].now \in Nat
           /\ cacheOf(h) \in CacheName
BY DEF ReplayTypeOK, CallerState, Idle, cacheOf, CacheName

\* check_and_store moves a handler on and leaves the rest of its state.
LEMMA MovedOn ==
    ASSUME ReplayTypeOK, NEW h \in Caller, caller[h].pc = "admitted",
           NEW pc \in {"accepted", "refused"}
    PROVE  [caller[h] EXCEPT !.pc = pc] \in CallerState
<1> DEFINE InHand == [pc : {"admitted", "accepted", "refused"},
                       auth : Authenticator, now : Nat]
<1>1. caller[h] \in InHand
  BY DEF ReplayTypeOK, CallerState, Idle
<1>2. [caller[h] EXCEPT !.pc = pc] \in InHand
  BY <1>1
<1>3. QED
  BY <1>2 DEF CallerState

\* The log of one fingerprint is a sequence of acceptances.
LEMMA LogType ==
    ASSUME ReplayTypeOK, NEW c \in CacheName, NEW a \in Authenticator
    PROVE  /\ accepted[c][a] \in Seq(Acceptance)
           /\ \A i \in DOMAIN accepted[c][a] :
                  /\ accepted[c][a][i].now \in Nat
                  /\ accepted[c][a][i].at \in Nat
<1>1. accepted[c][a] \in Seq(Acceptance)
  BY DEF ReplayTypeOK
<1>2. \A i \in DOMAIN accepted[c][a] : accepted[c][a][i] \in Acceptance
  BY <1>1
<1>3. QED
  BY <1>1, <1>2 DEF Acceptance

\* The entries of a log that grew by one.
LEMMA AppendEntry ==
    ASSUME NEW S, NEW s \in Seq(S), NEW e \in S, NEW i \in DOMAIN Append(s, e)
    PROVE  \/ i \in DOMAIN s /\ Append(s, e)[i] = s[i]
           \/ i = Len(s) + 1 /\ Append(s, e)[i] = e
OBVIOUS

\* If check_and_store finds no row for a fingerprint, every earlier acceptance
\* of it left its window before the larger of `now` and `latest`.
LEMMA AbsentIsStale ==
    ASSUME ReplayIInv, NEW h \in Caller, caller[h].pc = "admitted",
           ~Stored(cacheOf(h), caller[h].auth, caller[h].now),
           NEW i \in DOMAIN accepted[cacheOf(h)][caller[h].auth]
    PROVE  LET past == accepted[cacheOf(h)][caller[h].auth][i].now
           IN  \/ past + MAX_CLOCK_SKEW < latest
               \/ past + MAX_CLOCK_SKEW < caller[h].now
<1> DEFINE c == cacheOf(h)
           a == caller[h].auth
           now == caller[h].now
           past == accepted[c][a][i].now
           row == [cache |-> c, auth |-> a, seen_at |-> past]
<1>1. c \in CacheName /\ a \in Authenticator /\ now \in Nat
  BY AdmittedState DEF ReplayIInv
<1>2. past \in Nat
  BY <1>1, LogType DEF ReplayIInv
<1>3. CASE past + MAX_CLOCK_SKEW < latest
  BY <1>3
<1>4. CASE row \in table
  <2>1. row \notin Kept(now)
    BY <1>1 DEF Stored
  <2>2. QED
    BY <1>1, <1>2, <1>4, <2>1, SkewAssumption DEF Kept
<1>5. QED
  BY <1>1, <1>3, <1>4 DEF ReplayIInv, Remembered

-----------------------------------------------------------------------------
LEMMA InitInv == ReplayInit => ReplayIInv
<1> SUFFICES ASSUME ReplayInit PROVE ReplayIInv
  OBVIOUS
<1> USE DEF ReplayInit
<1>1. ReplayTypeOK
  BY DEF ReplayTypeOK, CallerState, Row, Acceptance
<1>2. CapturedPast
  BY DEF CapturedPast, Idle
<1>3. Remembered /\ OncePerWindow /\ RepeatsExplained
  BY DEF Remembered, OncePerWindow, RepeatsExplained
<1>4. RowsAccepted /\ RefusedOnlyRepeats
  BY DEF RowsAccepted, RefusedOnlyRepeats, Idle
<1>5. QED
  BY <1>1, <1>2, <1>3, <1>4 DEF ReplayIInv

\* Nothing but the clock and the idle handlers change when a request is
\* admitted or abandoned and when time passes.
LEMMA AdmitInv ==
    ASSUME ReplayIInv, NEW h \in Caller, NEW a \in Authenticator, Admit(h, a)
    PROVE  ReplayIInv'
<1> USE DEF Admit, ReplayIInv
<1>1. ReplayTypeOK'
  BY DEF ReplayTypeOK, CallerState, Admitted
<1>2. CapturedPast'
  BY DEF CapturedPast, ReplayTypeOK, Admitted, Fresh
<1>3. (Remembered /\ OncePerWindow /\ RepeatsExplained)'
  BY DEF Remembered, OncePerWindow, RepeatsExplained
<1>4. (RowsAccepted /\ RefusedOnlyRepeats)'
  BY DEF RowsAccepted, RefusedOnlyRepeats, ReplayTypeOK, Admitted
<1>5. QED
  BY <1>1, <1>2, <1>3, <1>4

\* A request that ends, early or late, leaves the table as it is.
LEMMA EndInv ==
    ASSUME ReplayIInv, NEW h \in Caller, Abandon(h) \/ End(h)
    PROVE  ReplayIInv'
<1> USE DEF ReplayIInv
<1>0. /\ caller' = [caller EXCEPT ![h] = Idle]
      /\ UNCHANGED <<clock, table, latest, accepted>>
  BY DEF Abandon, End
<1>1. ReplayTypeOK'
  BY <1>0 DEF ReplayTypeOK, CallerState
<1>2. CapturedPast'
  BY <1>0 DEF CapturedPast, ReplayTypeOK, Idle, Fresh
<1>3. (Remembered /\ OncePerWindow /\ RepeatsExplained)'
  BY <1>0 DEF Remembered, OncePerWindow, RepeatsExplained
<1>4. (RowsAccepted /\ RefusedOnlyRepeats)'
  BY <1>0 DEF RowsAccepted, RefusedOnlyRepeats, ReplayTypeOK, Idle
<1>5. QED
  BY <1>1, <1>2, <1>3, <1>4

LEMMA TickInv ==
    ASSUME ReplayIInv, Tick
    PROVE  ReplayIInv'
<1> USE DEF Tick, ReplayIInv
<1>1. ReplayTypeOK'
  BY DEF ReplayTypeOK
<1>2. CapturedPast'
  <2>1. \A h \in Caller : caller[h].pc = "admitted" => caller[h].now \in Nat
    BY AdmittedState
  <2>2. QED
    BY <2>1 DEF CapturedPast, ReplayTypeOK, Fresh
<1>3. (Remembered /\ OncePerWindow /\ RepeatsExplained)'
  BY DEF Remembered, OncePerWindow, RepeatsExplained
<1>4. (RowsAccepted /\ RefusedOnlyRepeats)'
  BY DEF RowsAccepted, RefusedOnlyRepeats
<1>5. QED
  BY <1>1, <1>2, <1>3, <1>4

\* A replay is refused: the purge is all that happens to the table, and the row
\* that refused it goes back to an acceptance.
LEMMA RejectInv ==
    ASSUME ReplayIInv, NEW h \in Caller, RejectReplay(h)
    PROVE  ReplayIInv'
<1> USE DEF RejectReplay, ReplayIInv
<1> DEFINE c0 == cacheOf(h)
           a0 == caller[h].auth
<1>0. /\ caller[h].now \in Nat /\ caller[h].now <= clock
      /\ c0 \in CacheName /\ a0 \in Authenticator
  BY AdmittedState DEF CapturedPast
<1>1. ReplayTypeOK'
  <2>1. [caller[h] EXCEPT !.pc = "refused"] \in CallerState
    BY MovedOn
  <2>2. QED
    BY <1>0, <2>1 DEF ReplayTypeOK, Kept
<1>2. CapturedPast'
  BY <1>0 DEF CapturedPast, ReplayTypeOK, Fresh
<1>3. Remembered'
  <2> SUFFICES ASSUME NEW c \in CacheName, NEW a \in Authenticator,
                      NEW i \in DOMAIN accepted[c][a]
               PROVE  LET past == accepted[c][a][i].now
                      IN  \/ past + MAX_CLOCK_SKEW < latest'
                          \/ [cache |-> c, auth |-> a, seen_at |-> past] \in table'
    BY DEF Remembered
  <2> DEFINE past == accepted[c][a][i].now
             row == [cache |-> c, auth |-> a, seen_at |-> past]
  <2>1. past \in Nat /\ latest \in Nat
    BY LogType DEF ReplayTypeOK
  <2>2. CASE past + MAX_CLOCK_SKEW < latest
    BY <1>0, <2>1, <2>2, SkewAssumption
  <2>3. CASE row \in table
    BY <1>0, <2>1, <2>3, SkewAssumption DEF Kept
  <2>4. QED
    BY <2>2, <2>3 DEF Remembered
<1>4. (OncePerWindow /\ RepeatsExplained)'
  BY DEF OncePerWindow, RepeatsExplained
<1>5. RowsAccepted'
  BY DEF RowsAccepted, Kept
<1>6. RefusedOnlyRepeats'
  <2>1. PICK r \in table : /\ r.cache = c0 /\ r.auth = a0
                           /\ r.seen_at + MAX_CLOCK_SKEW >= caller[h].now
    BY DEF Stored, Kept
  <2>2. PICK i \in DOMAIN accepted[c0][a0] : accepted[c0][a0][i].now = r.seen_at
    BY <2>1 DEF RowsAccepted
  <2>3. ASSUME NEW g \in Caller, caller'[g].pc = "refused"
        PROVE  \E k \in DOMAIN accepted'[cacheOf(g)][caller'[g].auth] :
                   accepted'[cacheOf(g)][caller'[g].auth][k].now + MAX_CLOCK_SKEW
                       >= caller'[g].now
    <3>1. CASE g = h
      <4>1. caller'[g].auth = a0 /\ caller'[g].now = caller[h].now
        BY <3>1 DEF ReplayTypeOK
      <4>2. QED
        BY <2>1, <2>2, <3>1, <4>1
    <3>2. CASE g # h
      BY <2>3, <3>2 DEF RefusedOnlyRepeats, ReplayTypeOK
    <3>3. QED
      BY <3>1, <3>2
  <2>4. QED
    BY <2>3 DEF RefusedOnlyRepeats
<1>7. QED
  BY <1>1, <1>2, <1>3, <1>4, <1>5, <1>6

\* A new fingerprint is stored: the log of its cache grows by one acceptance.
LEMMA AcceptInv ==
    ASSUME ReplayIInv, NEW h \in Caller, AcceptNew(h)
    PROVE  ReplayIInv'
<1> DEFINE c0 == cacheOf(h)
           a0 == caller[h].auth
           now == caller[h].now
           entry == [now |-> now, at |-> clock, overtaken |-> now < latest]
           row0 == [cache |-> c0, auth |-> a0, seen_at |-> now]
<1>1. /\ caller[h].pc = "admitted"
      /\ ~Stored(c0, a0, now)
      /\ table' = Kept(now) \cup {row0}
      /\ accepted' = [accepted EXCEPT ![c0][a0] = Append(@, entry)]
      /\ latest' = IF now > latest THEN now ELSE latest
      /\ caller' = [caller EXCEPT ![h].pc = "accepted"]
      /\ clock' = clock
  BY DEF AcceptNew
<1>2. /\ c0 \in CacheName /\ a0 \in Authenticator
      /\ now \in Nat /\ now <= clock /\ Fresh(a0, now)
      /\ latest \in Nat /\ clock \in Nat /\ latest <= clock
      /\ ctime[a0] \in Nat /\ MAX_CLOCK_SKEW \in Nat
  BY <1>1, AdmittedState, SkewAssumption, CtimeAssumption
     DEF ReplayIInv, CapturedPast, ReplayTypeOK
<1>3. entry \in Acceptance
  BY <1>2 DEF Acceptance
<1>4. \A c \in CacheName, a \in Authenticator :
         accepted'[c][a] = IF c = c0 /\ a = a0
                             THEN Append(accepted[c][a], entry)
                             ELSE accepted[c][a]
  BY <1>1, <1>2 DEF ReplayIInv, ReplayTypeOK
\* The log after the step, entry by entry.
<1>5. ASSUME NEW c \in CacheName, NEW a \in Authenticator,
             NEW i \in DOMAIN accepted'[c][a]
      PROVE  \/ /\ i \in DOMAIN accepted[c][a]
                /\ accepted'[c][a][i] = accepted[c][a][i]
             \/ /\ c = c0 /\ a = a0 /\ i = Len(accepted[c][a]) + 1
                /\ accepted'[c][a][i] = entry
  <2>1. accepted[c][a] \in Seq(Acceptance)
    BY LogType DEF ReplayIInv
  <2>2. CASE c = c0 /\ a = a0
    <3>1. accepted'[c][a] = Append(accepted[c][a], entry)
      BY <1>4, <2>2
    <3>2. i \in DOMAIN Append(accepted[c][a], entry)
      BY <3>1
    <3>3. QED
      BY <1>3, <2>1, <2>2, <3>1, <3>2, AppendEntry
  <2>3. CASE ~(c = c0 /\ a = a0)
    BY <1>4, <2>3
  <2>4. QED
    BY <2>2, <2>3
<1>6. ReplayTypeOK'
  <2>1. table' \subseteq Row
    BY <1>1, <1>2 DEF ReplayIInv, ReplayTypeOK, Kept, Row
  <2>2. \A r, s \in table' : r.cache = s.cache /\ r.auth = s.auth => r = s
    BY <1>1 DEF ReplayIInv, ReplayTypeOK, Kept, Stored
  <2>3. caller' \in [Caller -> CallerState]
    <3>1. [caller[h] EXCEPT !.pc = "accepted"] \in CallerState
      BY <1>1, MovedOn DEF ReplayIInv
    <3>2. QED
      BY <1>1, <3>1 DEF ReplayIInv, ReplayTypeOK
  <2>4. accepted' \in [CacheName -> [Authenticator -> Seq(Acceptance)]]
    <3>1. Append(accepted[c0][a0], entry) \in Seq(Acceptance)
      BY <1>2, <1>3, LogType DEF ReplayIInv
    <3>2. QED
      BY <1>1, <1>2, <3>1 DEF ReplayIInv, ReplayTypeOK
  <2>5. QED
    BY <1>1, <1>2, <2>1, <2>2, <2>3, <2>4 DEF ReplayTypeOK
<1>7. CapturedPast'
  BY <1>1, <1>2 DEF ReplayIInv, CapturedPast, ReplayTypeOK, Fresh
<1>8. Remembered'
  <2> SUFFICES ASSUME NEW c \in CacheName, NEW a \in Authenticator,
                      NEW i \in DOMAIN accepted'[c][a]
               PROVE  LET past == accepted'[c][a][i].now
                      IN  \/ past + MAX_CLOCK_SKEW < latest'
                          \/ [cache |-> c, auth |-> a, seen_at |-> past] \in table'
    BY DEF Remembered
  <2>1. CASE c = c0 /\ a = a0 /\ accepted'[c][a][i] = entry
    BY <1>1, <2>1
  <2>2. CASE i \in DOMAIN accepted[c][a] /\ accepted'[c][a][i] = accepted[c][a][i]
    <3> DEFINE past == accepted[c][a][i].now
               row == [cache |-> c, auth |-> a, seen_at |-> past]
    <3>1. past \in Nat
      BY <2>2, LogType DEF ReplayIInv
    <3>2. CASE past + MAX_CLOCK_SKEW < latest
      BY <1>1, <1>2, <2>2, <3>1, <3>2
    <3>3. CASE row \in table
      <4>1. CASE row \in Kept(now)
        BY <1>1, <2>2, <4>1
      <4>2. CASE row \notin Kept(now)
        <5>1. past + MAX_CLOCK_SKEW < now
          BY ONLY <1>2, <3>1, <3>3, <4>2 DEF Kept
        <5>2. now <= latest' /\ latest' \in Nat
          BY ONLY <1>1, <1>2
        <5>3. past + MAX_CLOCK_SKEW < latest'
          BY ONLY <1>2, <3>1, <5>1, <5>2
        <5>4. QED
          BY ONLY <2>2, <5>3
      <4>3. QED
        BY <4>1, <4>2
    <3>4. QED
      BY <2>2, <3>2, <3>3 DEF ReplayIInv, Remembered
  <2>3. QED
    BY <1>5, <2>1, <2>2
\* An acceptance that precedes the new one has left its window.
<1>9. ASSUME NEW i \in DOMAIN accepted[c0][a0]
      PROVE  /\ accepted[c0][a0][i].now \in Nat
             /\ \/ accepted[c0][a0][i].now + MAX_CLOCK_SKEW < latest
                \/ accepted[c0][a0][i].now + MAX_CLOCK_SKEW < now
  BY <1>1, <1>2, AbsentIsStale, LogType DEF ReplayIInv
<1>10. ASSUME NEW c \in CacheName, NEW a \in Authenticator,
              NEW i \in DOMAIN accepted'[c][a], NEW j \in DOMAIN accepted'[c][a],
              i < j
       PROVE  /\ accepted'[c][a][i].now + MAX_CLOCK_SKEW < accepted'[c][a][j].at
              /\ \/ accepted'[c][a][i].now < ctime[a]
                 \/ accepted'[c][a][j].overtaken
  <2>0. Len(accepted[c][a]) \in Nat /\ DOMAIN accepted[c][a] = 1..Len(accepted[c][a])
    BY LogType DEF ReplayIInv
  <2>1. /\ i \in DOMAIN accepted[c][a]
        /\ accepted'[c][a][i] = accepted[c][a][i]
    <3>1. j \in Nat /\ j <= Len(accepted[c][a]) + 1
      <4>1. j \in DOMAIN accepted[c][a] \/ j = Len(accepted[c][a]) + 1
        BY <1>5
      <4>2. QED
        BY <4>1, <2>0
    <3>2. i # Len(accepted[c][a]) + 1
      <4>1. i \in DOMAIN accepted[c][a] \/ i = Len(accepted[c][a]) + 1
        BY <1>5
      <4>2. QED
        BY <4>1, <3>1, <2>0, <1>10
    <3>3. QED
      BY <1>5, <3>2
  <2>2. CASE /\ j \in DOMAIN accepted[c][a]
             /\ accepted'[c][a][j] = accepted[c][a][j]
    <3>1. /\ accepted[c][a][i].now + MAX_CLOCK_SKEW < accepted[c][a][j].at
          /\ \/ accepted[c][a][i].now < ctime[a]
             \/ accepted[c][a][j].overtaken
      BY <1>10, <2>1, <2>2 DEF ReplayIInv, OncePerWindow, RepeatsExplained
    <3>2. QED
      BY <2>1, <2>2, <3>1
  <2>3. CASE c = c0 /\ a = a0 /\ accepted'[c][a][j] = entry
    <3>1. /\ accepted[c][a][i].now \in Nat
          /\ \/ accepted[c][a][i].now + MAX_CLOCK_SKEW < latest
             \/ accepted[c][a][i].now + MAX_CLOCK_SKEW < now
      BY <1>9, <2>1, <2>3
    <3>2. accepted[c][a][i].now + MAX_CLOCK_SKEW < clock
      BY <1>2, <3>1
    <3>3. accepted[c][a][i].now < ctime[a] \/ now < latest
      BY <1>2, <2>3, <3>1 DEF Fresh
    <3>4. entry.at = clock /\ entry.overtaken = (now < latest)
      OBVIOUS
    <3>5. accepted'[c][a][i].now < ctime[a] \/ accepted'[c][a][j].overtaken
      BY <2>1, <2>3, <3>3, <3>4, Zenon
    <3>6. QED
      BY <2>1, <2>3, <3>2, <3>4, <3>5
  <2>4. QED
    BY <1>5, <2>2, <2>3
<1>11. (OncePerWindow /\ RepeatsExplained)'
  BY <1>10 DEF OncePerWindow, RepeatsExplained
\* What was in a log still is, and the new row has its entry.
<1>12. ASSUME NEW c \in CacheName, NEW a \in Authenticator,
              NEW i \in DOMAIN accepted[c][a]
       PROVE  /\ i \in DOMAIN accepted'[c][a]
              /\ accepted'[c][a][i] = accepted[c][a][i]
  <2>1. accepted[c][a] \in Seq(Acceptance)
    BY LogType DEF ReplayIInv
  <2>2. /\ i \in DOMAIN Append(accepted[c][a], entry)
        /\ Append(accepted[c][a], entry)[i] = accepted[c][a][i]
    BY <1>3, <2>1
  <2>3. QED
    BY <1>4, <2>2
<1>13. RowsAccepted'
  <2> SUFFICES ASSUME NEW r \in table'
               PROVE  \E i \in DOMAIN accepted'[r.cache][r.auth] :
                          accepted'[r.cache][r.auth][i].now = r.seen_at
    BY DEF RowsAccepted
  <2>1. CASE r = row0
    <3> DEFINE i == Len(accepted[c0][a0]) + 1
    <3>1. accepted[c0][a0] \in Seq(Acceptance)
      BY <1>2, LogType DEF ReplayIInv
    <3>2. /\ i \in DOMAIN Append(accepted[c0][a0], entry)
          /\ Append(accepted[c0][a0], entry)[i] = entry
      BY <1>3, <3>1
    <3>3. i \in DOMAIN accepted'[c0][a0] /\ accepted'[c0][a0][i] = entry
      BY <1>2, <1>4, <3>2
    <3>4. r.cache = c0 /\ r.auth = a0 /\ r.seen_at = now /\ entry.now = now
      BY <2>1
    <3> HIDE DEF i, entry, c0, a0, now
    <3>5. QED
      BY <3>3, <3>4
  <2>2. CASE r \in table
    <3>1. r.cache \in CacheName /\ r.auth \in Authenticator
      BY <2>2 DEF ReplayIInv, ReplayTypeOK, Row
    <3>2. PICK i \in DOMAIN accepted[r.cache][r.auth] :
              accepted[r.cache][r.auth][i].now = r.seen_at
      BY <2>2 DEF ReplayIInv, RowsAccepted
    <3>3. QED
      BY <1>12, <3>1, <3>2
  <2>3. QED
    BY <1>1, <2>1, <2>2 DEF Kept
<1>14. RefusedOnlyRepeats'
  <2> SUFFICES ASSUME NEW g \in Caller, caller'[g].pc = "refused"
               PROVE  \E i \in DOMAIN accepted'[cacheOf(g)][caller'[g].auth] :
                          accepted'[cacheOf(g)][caller'[g].auth][i].now + MAX_CLOCK_SKEW
                              >= caller'[g].now
    BY DEF RefusedOnlyRepeats
  <2>1. caller'[g] = caller[g]
    BY <1>1 DEF ReplayIInv, ReplayTypeOK
  <2>2. cacheOf(g) \in CacheName /\ caller[g].auth \in Authenticator
    BY <2>1, AdmittedState DEF ReplayIInv
  <2>3. PICK i \in DOMAIN accepted[cacheOf(g)][caller[g].auth] :
            accepted[cacheOf(g)][caller[g].auth][i].now + MAX_CLOCK_SKEW >= caller[g].now
    BY <2>1 DEF ReplayIInv, RefusedOnlyRepeats
  <2>4. QED
    BY <1>12, <2>1, <2>2, <2>3
<1>15. QED
  BY <1>6, <1>7, <1>8, <1>11, <1>13, <1>14 DEF ReplayIInv

LEMMA NextInv == ReplayIInv /\ [ReplayNext]_replayVars => ReplayIInv'
<1> SUFFICES ASSUME ReplayIInv, [ReplayNext]_replayVars PROVE ReplayIInv'
  OBVIOUS
<1>1. CASE Tick
  BY <1>1, TickInv
<1>2. ASSUME NEW h \in Caller, NEW a \in Authenticator, Admit(h, a)
      PROVE  ReplayIInv'
  BY <1>2, AdmitInv
<1>3. ASSUME NEW h \in Caller, AcceptNew(h) PROVE ReplayIInv'
  BY <1>3, AcceptInv
<1>4. ASSUME NEW h \in Caller, RejectReplay(h) PROVE ReplayIInv'
  BY <1>4, RejectInv
<1>5. ASSUME NEW h \in Caller, Abandon(h) \/ End(h) PROVE ReplayIInv'
  BY <1>5, EndInv
<1>6. CASE UNCHANGED replayVars
  BY <1>6 DEF replayVars, ReplayIInv, ReplayTypeOK, CapturedPast, Fresh,
              Remembered, OncePerWindow, RepeatsExplained,
              RowsAccepted, RefusedOnlyRepeats
<1>7. QED
  BY <1>1, <1>2, <1>3, <1>4, <1>5, <1>6 DEF ReplayNext

LEMMA Invariance == ReplaySpec => []ReplayIInv
BY InitInv, NextInv, PTL DEF ReplaySpec

\* The variables keep their types and the table keeps its primary key.
THEOREM ReplayTypeCorrect == ReplaySpec => []ReplayTypeOK
<1>1. ReplayIInv => ReplayTypeOK
  BY DEF ReplayIInv
<1>2. QED
  BY <1>1, Invariance, PTL

\* No handler, interleaving or purge lets an authenticator through twice
\* inside the window that check_and_store keeps.
THEOREM AtMostOnceInWindow == ReplaySpec => []OncePerWindow
<1>1. ReplayIInv => OncePerWindow
  BY DEF ReplayIInv
<1>2. QED
  BY <1>1, Invariance, PTL

\* A client whose clock is not ahead is accepted at most once by the requests
\* that reach check_and_store in the order of their captured times.
THEOREM RepeatCauses == ReplaySpec => []RepeatsExplained
<1>1. ReplayIInv => RepeatsExplained
  BY DEF ReplayIInv
<1>2. QED
  BY <1>1, Invariance, PTL

\* An accepted fingerprint stays in the table until its window has passed.
THEOREM AcceptedIsRemembered == ReplaySpec => []Remembered
<1>1. ReplayIInv => Remembered
  BY DEF ReplayIInv
<1>2. QED
  BY <1>1, Invariance, PTL

\* A request is refused as a replay only if its own server accepted the same
\* authenticator before, no longer than the skew before the time it captured.
THEOREM RefusalsAreRepeats == ReplaySpec => []RefusedOnlyRepeats
<1>1. ReplayIInv => RefusedOnlyRepeats
  BY DEF ReplayIInv
<1>2. QED
  BY <1>1, Invariance, PTL

\* The shared purge deletes only rows that are stale by the wall clock.
THEOREM PurgeIsSafe == ReplaySpec => PurgeOnlyStale
<1> DEFINE Safe == \A r \in table \ table' : r.seen_at + MAX_CLOCK_SKEW < clock
<1>1. ReplayIInv /\ [ReplayNext]_replayVars => [Safe]_replayVars
  <2> SUFFICES ASSUME ReplayIInv, ReplayNext PROVE Safe
    BY DEF replayVars
  <2>1. ASSUME NEW h \in Caller, AcceptNew(h) \/ RejectReplay(h)
        PROVE  Safe
    <3>1. caller[h].now \in Nat /\ caller[h].now <= clock /\ clock \in Nat
      BY <2>1, AdmittedState
      DEF ReplayIInv, CapturedPast, AcceptNew, RejectReplay, ReplayTypeOK
    <3>2. \A r \in table : r.seen_at \in Nat
      BY DEF ReplayIInv, ReplayTypeOK, Row
    <3>3. Kept(caller[h].now) \subseteq table'
      BY <2>1 DEF AcceptNew, RejectReplay
    <3>4. QED
      BY <3>1, <3>2, <3>3, SkewAssumption DEF Kept
  <2>2. QED
    BY <2>1 DEF ReplayNext, Tick, Admit, Abandon, End
<1>2. QED
  BY <1>1, Invariance, PTL DEF ReplaySpec, PurgeOnlyStale

-----------------------------------------------------------------------------
(* The connections *)

Logged(c) == \E l \in audit : l.by = c
Queued(c) == \E s \in Server : \E i \in 1..Len(queue[s]) : queue[s][i] = c

\* No connection waits twice.
Queues ==
    \A s, r \in Server : \A i \in 1..Len(queue[s]), j \in 1..Len(queue[r]) :
        queue[s][i] = queue[r][j] => s = r /\ i = j

\* What the ends of a connection, cl and h, have to do with one another.
Good(cl, h, queued, logged) ==
    /\ queued => cl.pc \notin {"idle", "connecting"} /\ h = NoHandler
    /\ cl.pc \in {"idle", "connecting"} => h = NoHandler /\ ~queued
    /\ h.got <= cl.sent
    /\ cl.pc # "idle" => (cl.server = "http" <=> cl.kind \in HttpKind)
    /\ (cl.server = "kdc" /\ h.pc \in {"handling", "replying", "committing"}) =>
           h.got = Whole /\ cl.sent = Whole
    /\ (h.outcome # "none" \/ logged) => h.got = Whole /\ cl.sent = Whole
    /\ h.pc \in {"none", "reading", "handling"} => h.outcome = "none" /\ ~logged
    /\ h.pc \in {"none", "reading", "handling", "replying"} => h.reply = "none"
    /\ h.pc = "committing" => h.reply = IF cl.server = "kdc" THEN "sent" ELSE "none"
    /\ (h.pc = "replying" /\ cl.server = "http" /\ h.outcome # "none") => logged
    /\ (h.reply = "sent" /\ h.outcome # "none") =>
           logged \/ (cl.server = "kdc" /\ h.pc \in {"committing", "killed"})
    /\ (logged /\ cl.server = "kdc") => h.reply = "sent"
    /\ cl.pc = "answered" => h.reply = "sent"
Lifecycle == \A c \in Connection : Good(client[c], handler[c], Queued(c), Logged(c))

\* The inductive invariant.
IInv == TypeOK /\ Queues /\ Lifecycle

-----------------------------------------------------------------------------
\* The ends of a connection are records of the two types.
LEMMA EndTypes ==
    ASSUME TypeOK, NEW c \in Connection
    PROVE  /\ client[c] \in [pc : ClientStep, server : Server, kind : Kind,
                              sent : 0..Whole]
           /\ handler[c] \in [pc : HandlerStep, got : 0..Whole, outcome : Outcome,
                               reply : {"none", "sent", "cut"}]
BY DEF TypeOK

\* A request has a length.
LEMMA WholeType == Whole \in Nat \ {0} /\ Length \in Nat \ {0} /\ Length < Whole
BY FrameAssumption DEF Whole

\* What a step of connection c leaves of the others.
LEMMA Frame ==
    ASSUME Lifecycle, NEW c \in Connection,
           \A d \in Connection \ {c} :
               /\ client'[d] = client[d] /\ handler'[d] = handler[d]
               /\ Queued(d)' => Queued(d)
               /\ Logged(d)' <=> Logged(d),
           Good(client[c], handler[c], Queued(c), Logged(c))'
    PROVE  Lifecycle'
<1> SUFFICES ASSUME NEW d \in Connection
             PROVE  Good(client[d], handler[d], Queued(d), Logged(d))'
  BY DEF Lifecycle
<1>1. CASE d = c
  BY <1>1
<1>2. CASE d # c
  <2>1. Good(client[d], handler[d], Queued(d), Logged(d))
    BY DEF Lifecycle
  <2>2. /\ client'[d] = client[d] /\ handler'[d] = handler[d]
        /\ Queued(d)' => Queued(d)
        /\ Logged(d)' <=> Logged(d)
    BY <1>2
  <2> HIDE DEF Queued, Logged
  <2>3. QED
    BY <2>1, <2>2 DEF Good
<1>3. QED
  BY <1>1, <1>2

\* Queues are unchanged with the variable, and so are Queued and Logged.
LEMMA QueueFrame ==
    ASSUME UNCHANGED queue
    PROVE  /\ Queues => Queues'
           /\ \A d \in Connection : Queued(d)' <=> Queued(d)
BY DEF Queues, Queued

LEMMA AuditFrame ==
    ASSUME UNCHANGED audit
    PROVE  \A d \in Connection : Logged(d)' <=> Logged(d)
BY DEF Logged

-----------------------------------------------------------------------------
LEMMA InitInvariant == Init => IInv
<1> SUFFICES ASSUME Init PROVE IInv
  OBVIOUS
<1> USE DEF Init
<1>1. TypeOK
  BY FrameAssumption, OtherAssumption, WholeType
     DEF TypeOK, Server, NoClient, NoHandler, ClientStep, HandlerStep, Kind, Outcome
<1>2. Queues
  BY DEF Queues
<1>3. Lifecycle
  <2> SUFFICES ASSUME NEW c \in Connection
               PROVE  Good(client[c], handler[c], Queued(c), Logged(c))
    BY DEF Lifecycle
  <2>1. client[c] = NoClient /\ handler[c] = NoHandler
    OBVIOUS
  <2>2. ~Queued(c) /\ ~Logged(c)
    BY DEF Queued, Logged
  <2> HIDE DEF Init
  <2>3. QED
    BY <2>1, <2>2, WholeType DEF Good, NoClient, NoHandler
<1>4. QED
  BY <1>1, <1>2, <1>3 DEF IInv

\* A client connects.
LEMMA ConnectStep ==
    ASSUME IInv, NEW c \in Connection, NEW s \in Server, NEW kind \in Kind,
           Connect(c, s, kind)
    PROVE  IInv'
<1> DEFINE cl == [pc |-> "connecting", server |-> s, kind |-> kind, sent |-> 0]
<1>1. TypeOK /\ Queues /\ Lifecycle
  BY DEF IInv
<1>2. /\ client' = [client EXCEPT ![c] = cl] /\ client[c].pc = "idle"
      /\ (s = "http") <=> (kind \in HttpKind)
      /\ UNCHANGED <<up, stops, queue, handler, writer, audit>>
  BY DEF Connect
<1>3. TypeOK'
  BY <1>1, <1>2, WholeType DEF TypeOK, ClientStep
<1>4. Queues'
  BY <1>1, <1>2, QueueFrame
<1>5. Lifecycle'
  <2>1. Good(client[c], handler[c], Queued(c), Logged(c))
    BY <1>1 DEF Lifecycle
  <2>2. client'[c] = cl /\ \A d \in Connection \ {c} : client'[d] = client[d]
    BY <1>1, <1>2 DEF TypeOK
  <2>3. /\ Queued(c)' <=> Queued(c)
        /\ Logged(c)' <=> Logged(c)
        /\ handler' = handler
    BY <1>2, QueueFrame, AuditFrame
  <2>4. Good(client[c], handler[c], Queued(c), Logged(c))'
    BY <1>2, <2>1, <2>2, <2>3, WholeType DEF Good, NoHandler
  <2>5. QED
    BY <1>1, <1>2, <2>2, <2>4, Frame, QueueFrame, AuditFrame
<1>6. QED
  BY <1>3, <1>4, <1>5 DEF IInv

\* A client that has connected goes on.
LEMMA ClientMoves ==
    ASSUME IInv, NEW c \in Connection,
           NEW cl \in [pc : ClientStep, server : Server, kind : Kind, sent : 0..Whole],
           client' = [client EXCEPT ![c] = cl],
           UNCHANGED <<up, stops, queue, handler, writer, audit>>,
           client[c].pc # "idle", cl.pc \notin {"idle", "connecting"},
           cl.sent >= client[c].sent,
           cl.server = client[c].server, cl.kind = client[c].kind,
           cl.pc = "answered" => handler[c].reply = "sent"
    PROVE  IInv'
<1>1. TypeOK /\ Queues /\ Lifecycle
  BY DEF IInv
<1>2. TypeOK'
  BY <1>1 DEF TypeOK
<1>3. Queues'
  BY <1>1, QueueFrame
<1>4. Lifecycle'
  <2>1. Good(client[c], handler[c], Queued(c), Logged(c))
    BY <1>1 DEF Lifecycle
  <2>2. client'[c] = cl /\ \A d \in Connection \ {c} : client'[d] = client[d]
    BY <1>1 DEF TypeOK
  <2>3. /\ Queued(c)' <=> Queued(c)
        /\ Logged(c)' <=> Logged(c)
        /\ handler' = handler
    BY QueueFrame, AuditFrame
  <2>4. /\ client[c].sent \in 0..Whole /\ handler[c].got \in 0..Whole
        /\ cl.sent \in 0..Whole
    BY <1>1, EndTypes
  <2>5. Good(client[c], handler[c], Queued(c), Logged(c))'
    BY <2>1, <2>2, <2>3, <2>4, WholeType DEF Good, NoHandler
  <2>6. QED
    BY <1>1, <2>2, <2>5, Frame, QueueFrame, AuditFrame
<1>5. QED
  BY <1>2, <1>3, <1>4 DEF IInv

\* Move is such a step.
LEMMA Moves ==
    ASSUME IInv, NEW c \in Connection, NEW pc \in ClientStep \ {"idle", "connecting"},
           Move(c, pc), UNCHANGED <<up, stops, queue, handler, writer, audit>>,
           client[c].pc # "idle",
           pc = "answered" => handler[c].reply = "sent"
    PROVE  IInv'
<1> DEFINE cl == [client[c] EXCEPT !.pc = pc]
<1>1. client[c] \in [pc : ClientStep, server : Server, kind : Kind, sent : 0..Whole]
  BY EndTypes DEF IInv
<1>2. /\ cl \in [pc : ClientStep, server : Server, kind : Kind, sent : 0..Whole]
      /\ cl.pc = pc /\ cl.sent = client[c].sent
      /\ cl.server = client[c].server /\ cl.kind = client[c].kind
  BY <1>1
<1>3. client' = [client EXCEPT ![c] = cl]
  BY DEF Move, IInv, TypeOK
<1>4. cl.sent >= client[c].sent
  BY <1>1, <1>2, WholeType
<1> HIDE DEF cl
<1>5. QED
  BY <1>2, <1>3, <1>4, ClientMoves

\* The queue of a server grows by one connection.
LEMMA Appended ==
    ASSUME TypeOK, NEW s \in Server, NEW c \in Connection,
           queue' = [queue EXCEPT ![s] = Append(@, c)]
    PROVE  /\ queue' \in [Server -> Seq(Connection)]
           /\ Len(queue'[s]) = Len(queue[s]) + 1
           /\ queue'[s][Len(queue[s]) + 1] = c
           /\ \A i \in 1..Len(queue[s]) : queue'[s][i] = queue[s][i]
           /\ \A r \in Server \ {s} : queue'[r] = queue[r]
           /\ Len(queue[s]) \in Nat
<1>1. queue \in [Server -> Seq(Connection)] /\ queue[s] \in Seq(Connection)
  BY DEF TypeOK
<1>2. /\ queue'[s] = Append(queue[s], c)
      /\ \A r \in Server \ {s} : queue'[r] = queue[r]
  BY <1>1
<1>3. Append(queue[s], c) \in Seq(Connection)
  BY <1>1
<1>4. queue' \in [Server -> Seq(Connection)]
  BY <1>1, <1>3
<1>5. QED
  BY <1>1, <1>2, <1>4

\* It shrinks by its first.
LEMMA Shortened ==
    ASSUME TypeOK, NEW s \in Server, queue[s] # <<>>,
           queue' = [queue EXCEPT ![s] = Tail(@)]
    PROVE  /\ queue' \in [Server -> Seq(Connection)]
           /\ Len(queue[s]) \in Nat \ {0}
           /\ Len(queue'[s]) = Len(queue[s]) - 1
           /\ Head(queue[s]) = queue[s][1]
           /\ Head(queue[s]) \in Connection
           /\ \A i \in 1..(Len(queue[s]) - 1) : queue'[s][i] = queue[s][i + 1]
           /\ \A r \in Server \ {s} : queue'[r] = queue[r]
<1>1. queue \in [Server -> Seq(Connection)] /\ queue[s] \in Seq(Connection)
  BY DEF TypeOK
<1>2. /\ queue'[s] = Tail(queue[s])
      /\ \A r \in Server \ {s} : queue'[r] = queue[r]
  BY <1>1
<1>3. Tail(queue[s]) \in Seq(Connection)
  BY <1>1
<1>4. queue' \in [Server -> Seq(Connection)]
  BY <1>1, <1>3
<1>5. Len(queue[s]) \in Nat \ {0} /\ Head(queue[s]) \in Connection
  BY <1>1
<1>6. QED
  BY <1>1, <1>2, <1>4, <1>5

\* The backlog takes a connection, or nobody listens.
LEMMA ConnectedStep ==
    ASSUME IInv, NEW c \in Connection, Connected(c)
    PROVE  IInv'
<1> DEFINE s == client[c].server
<1>1. TypeOK /\ Queues /\ Lifecycle /\ client[c].pc = "connecting"
  BY DEF IInv, Connected
<1>2. s \in Server
  BY <1>1, EndTypes
<1>3. CASE ~up[s]
  <2>1. Move(c, "failed") /\ UNCHANGED <<up, stops, queue, handler, writer, audit>>
    BY <1>3 DEF Connected
  <2>2. "failed" \in ClientStep \ {"idle", "connecting"}
    BY DEF ClientStep
  <2>3. QED
    BY <1>1, <2>1, <2>2, Moves
<1>4. CASE up[s]
  <2> DEFINE cl == [client[c] EXCEPT !.pc = "sending"]
  <2>1. /\ Room(s) /\ client' = [client EXCEPT ![c].pc = "sending"]
        /\ queue' = [queue EXCEPT ![s] = Append(@, c)]
        /\ UNCHANGED <<up, stops, handler, writer, audit>>
    BY <1>4 DEF Connected, Move
  <2>2. /\ client'[c] = cl /\ \A d \in Connection \ {c} : client'[d] = client[d]
        /\ cl.pc = "sending" /\ cl.sent = client[c].sent
        /\ cl.server = client[c].server /\ cl.kind = client[c].kind
        /\ client' \in [Connection -> [pc : ClientStep, server : Server, kind : Kind,
                                      sent : 0..Whole]]
    BY <1>1, <2>1, EndTypes DEF TypeOK, ClientStep
  <2> HIDE DEF s
  <2>3. /\ queue' \in [Server -> Seq(Connection)]
        /\ Len(queue'[s]) = Len(queue[s]) + 1
        /\ queue'[s][Len(queue[s]) + 1] = c
        /\ \A i \in 1..Len(queue[s]) : queue'[s][i] = queue[s][i]
        /\ \A r \in Server \ {s} : queue'[r] = queue[r]
        /\ Len(queue[s]) \in Nat
    BY <1>1, <1>2, <2>1, Appended
  <2>4. TypeOK'
    <3>1. \A r \in Server : Len(queue'[r]) <= Backlog
      BY <1>1, <1>2, <2>1, <2>3, OtherAssumption DEF TypeOK, Room
    <3>2. QED
      BY <1>1, <2>1, <2>2, <2>3, <3>1 DEF TypeOK
  <2>5. Good(client[c], handler[c], Queued(c), Logged(c))
    BY <1>1 DEF Lifecycle
  <2>6. handler[c] = NoHandler /\ ~Queued(c)
    BY <1>1, <2>5 DEF Good
  <2>7. Queues'
    <3> SUFFICES ASSUME NEW p \in Server, NEW r \in Server,
                        NEW i \in 1..Len(queue'[p]), NEW j \in 1..Len(queue'[r]),
                        queue'[p][i] = queue'[r][j]
                 PROVE  p = r /\ i = j
      BY DEF Queues
    <3>1. \A q \in Server : \A k \in 1..Len(queue[q]) : queue[q][k] # c
      BY <2>6 DEF Queued
    <3>2. \A q \in Server : \A k \in 1..Len(queue'[q]) :
              \/ k \in 1..Len(queue[q]) /\ queue'[q][k] = queue[q][k]
              \/ q = s /\ k = Len(queue[s]) + 1 /\ queue'[q][k] = c
      BY <1>2, <2>3
    <3>3. QED
      BY <1>1, <3>1, <3>2 DEF Queues
  <2>8. \A d \in Connection \ {c} : Queued(d)' => Queued(d)
    BY <1>2, <2>3 DEF Queued
  <2>9. Good(client[c], handler[c], Queued(c), Logged(c))'
    <3>1. handler'[c] = NoHandler /\ (Logged(c)' <=> Logged(c))
      BY <2>1, <2>6, AuditFrame
    <3>2. client[c].sent \in 0..Whole /\ client'[c].sent = client[c].sent
      BY <1>1, <2>2, EndTypes
    <3>3. ~Logged(c) /\ (client[c].server = "http" <=> client[c].kind \in HttpKind)
      BY <1>1, <2>5, <2>6 DEF Good, NoHandler
    <3>4. QED
      BY <2>2, <3>1, <3>2, <3>3, WholeType DEF Good, NoHandler
  <2>10. QED
    BY <1>1, <2>1, <2>2, <2>4, <2>7, <2>8, <2>9, Frame, AuditFrame DEF IInv
<1>5. QED
  BY <1>3, <1>4

\* The bytes of a request go out, the reply comes in, or the client leaves.
LEMMA ClientStepKeeps ==
    ASSUME IInv, NEW c \in Connection,
           SendSome(c) \/ Receive(c) \/ GiveUp(c) \/ Vanish(c)
    PROVE  IInv'
<1>1. {"waiting", "answered", "failed", "gone", "vanished"}
          \subseteq ClientStep \ {"idle", "connecting"}
  BY DEF ClientStep
<1>2. CASE SendSome(c)
  <2>1. PICK n \in (client[c].sent + 1)..Whole :
            client' = [client EXCEPT ![c].sent = n,
                                     ![c].pc = IF n = Whole THEN "waiting" ELSE @]
    BY <1>2 DEF SendSome
  <2> DEFINE cl == [client[c] EXCEPT !.sent = n,
                                     !.pc = IF n = Whole THEN "waiting" ELSE @]
  <2>2. /\ client[c] \in [pc : ClientStep, server : Server, kind : Kind, sent : 0..Whole]
        /\ client[c].pc = "sending"
        /\ UNCHANGED <<up, stops, queue, handler, writer, audit>>
    BY <1>2, EndTypes DEF SendSome, IInv
  <2>3. n \in 0..Whole /\ n >= client[c].sent
    BY <2>2, WholeType
  <2>4. /\ cl \in [pc : ClientStep, server : Server, kind : Kind, sent : 0..Whole]
        /\ cl.pc \in {"sending", "waiting"} /\ cl.sent = n
        /\ cl.server = client[c].server /\ cl.kind = client[c].kind
    BY <2>2, <2>3, <1>1
  <2>5. client' = [client EXCEPT ![c] = cl]
    BY <2>1 DEF IInv, TypeOK
  <2> HIDE DEF cl
  <2>6. QED
    BY <2>2, <2>3, <2>4, <2>5, ClientMoves
<1>3. CASE Receive(c)
  BY <1>1, <1>3, Moves DEF Receive
<1>4. CASE GiveUp(c)
  BY <1>1, <1>4, Moves DEF GiveUp, Active
<1>5. CASE Vanish(c)
  BY <1>1, <1>5, Moves DEF Vanish
<1>6. QED
  BY <1>2, <1>3, <1>4, <1>5

-----------------------------------------------------------------------------
\* A server takes the first connection of its queue.
LEMMA AcceptFirst ==
    ASSUME IInv, NEW s \in Server, Accept(s),
           NEW c \in Connection, c = Head(queue[s])
    PROVE  IInv'
<1> DEFINE h == [NoHandler EXCEPT !.pc = "reading"]
<1>1. TypeOK /\ Queues /\ Lifecycle
  BY DEF IInv
<1>2. /\ queue[s] # <<>>
      /\ queue' = [queue EXCEPT ![s] = Tail(@)]
      /\ handler' = [handler EXCEPT ![c].pc = "reading"]
      /\ UNCHANGED <<up, stops, client, writer, audit>>
  BY DEF Accept
<1>3. /\ queue' \in [Server -> Seq(Connection)]
      /\ Len(queue[s]) \in Nat \ {0}
      /\ Len(queue'[s]) = Len(queue[s]) - 1
      /\ c = queue[s][1]
      /\ \A i \in 1..(Len(queue[s]) - 1) : queue'[s][i] = queue[s][i + 1]
      /\ \A r \in Server \ {s} : queue'[r] = queue[r]
  BY <1>1, <1>2, Shortened
<1>4. Queued(c)
  BY <1>3 DEF Queued
<1>5. Good(client[c], handler[c], Queued(c), Logged(c))
  BY <1>1, <1>3 DEF Lifecycle
<1>6. handler[c] = NoHandler /\ client[c].pc \notin {"idle", "connecting"}
  BY <1>4, <1>5 DEF Good
<1>7. /\ handler'[c] = h /\ \A d \in Connection \ {c} : handler'[d] = handler[d]
      /\ handler' \in [Connection -> [pc : HandlerStep, got : 0..Whole,
                                     outcome : Outcome, reply : {"none", "sent", "cut"}]]
  <2>1. h \in [pc : HandlerStep, got : 0..Whole, outcome : Outcome,
               reply : {"none", "sent", "cut"}]
    BY WholeType DEF NoHandler, HandlerStep, Outcome
  <2>2. handler' = [handler EXCEPT ![c] = h]
    BY <1>2, <1>6
  <2> HIDE DEF h
  <2>3. QED
    BY <1>1, <2>1, <2>2 DEF TypeOK
<1>8. TypeOK'
  <2>1. \A r \in Server : Len(queue[r]) <= Backlog
    BY <1>1 DEF TypeOK
  <2>2. Len(queue'[s]) <= Backlog
    BY <1>3, <2>1, OtherAssumption
  <2>3. \A r \in Server : Len(queue'[r]) <= Backlog
    BY <1>3, <2>1, <2>2
  <2>4. QED
    BY <1>1, <1>2, <1>3, <1>7, <2>3 DEF TypeOK
<1>9. \A r \in Server : \A k \in 1..Len(queue'[r]) :
          \E l \in 1..Len(queue[r]) :
              queue'[r][k] = queue[r][l] /\ l = IF r = s THEN k + 1 ELSE k
  <2> SUFFICES ASSUME NEW r \in Server, NEW k \in 1..Len(queue'[r])
               PROVE  \E l \in 1..Len(queue[r]) :
                          queue'[r][k] = queue[r][l] /\ l = IF r = s THEN k + 1 ELSE k
    OBVIOUS
  <2>1. CASE r = s
    <3>1. k + 1 \in 1..Len(queue[r]) /\ queue'[r][k] = queue[r][k + 1]
      BY <1>3, <2>1
    <3>2. QED
      BY <2>1, <3>1
  <2>2. CASE r # s
    BY <1>3, <2>2
  <2>3. QED
    BY <2>1, <2>2
<1>10. Queues'
  <2> SUFFICES ASSUME NEW p \in Server, NEW r \in Server,
                      NEW i \in 1..Len(queue'[p]), NEW j \in 1..Len(queue'[r]),
                      queue'[p][i] = queue'[r][j]
               PROVE  p = r /\ i = j
    BY DEF Queues
  <2>1. PICK k \in 1..Len(queue[p]) :
            queue'[p][i] = queue[p][k] /\ k = IF p = s THEN i + 1 ELSE i
    BY <1>9
  <2>2. PICK l \in 1..Len(queue[r]) :
            queue'[r][j] = queue[r][l] /\ l = IF r = s THEN j + 1 ELSE j
    BY <1>9
  <2>3. queue[p][k] = queue[r][l]
    BY <2>1, <2>2
  <2>4. p = r /\ k = l
    BY <1>1, <2>3 DEF Queues
  <2>5. QED
    BY <2>1, <2>2, <2>4
<1>11. ~Queued(c)'
  <2> SUFFICES ASSUME NEW r \in Server, NEW k \in 1..Len(queue'[r]), queue'[r][k] = c
               PROVE  FALSE
    BY DEF Queued
  <2>1. PICK l \in 1..Len(queue[r]) :
            queue'[r][k] = queue[r][l] /\ l = IF r = s THEN k + 1 ELSE k
    BY <1>9
  <2>2. 1 \in 1..Len(queue[s]) /\ queue[r][l] = queue[s][1]
    BY <1>3, <2>1
  <2>3. r = s /\ l = 1
    BY <1>1, <2>2 DEF Queues
  <2>4. QED
    BY <2>1, <2>3
<1>12. \A d \in Connection \ {c} : Queued(d)' => Queued(d)
  BY <1>9 DEF Queued
<1>13. Good(client'[c], handler'[c], Queued(c)', Logged(c)')
  <2>1. Logged(c)' <=> Logged(c)
    BY <1>2, AuditFrame, <1>3
  <2>2. client'[c] = client[c] /\ client[c].sent \in 0..Whole
    BY <1>1, <1>2, <1>3, EndTypes
  <2>3. ~Logged(c) /\ client[c].pc # "answered"
    BY <1>5, <1>6 DEF Good, NoHandler
  <2>4. client[c].server = "http" <=> client[c].kind \in HttpKind
    BY <1>5, <1>6 DEF Good
  <2> DEFINE queued == Queued(c)'
  <2>5. ~queued
    BY <1>11
  <2>6. /\ h.pc = "reading" /\ h.got = 0 /\ h.outcome = "none" /\ h.reply = "none"
    BY DEF NoHandler
  <2> HIDE DEF h, queued
  <2>7. Good(client[c], h, queued, Logged(c)')
    BY <1>6, <2>1, <2>2, <2>3, <2>4, <2>5, <2>6, WholeType DEF Good
  <2>8. QED
    BY <1>7, <2>2, <2>7 DEF queued
<1>14. Lifecycle'
  <2> SUFFICES ASSUME NEW d \in Connection
               PROVE  Good(client'[d], handler'[d], Queued(d)', Logged(d)')
    BY DEF Lifecycle
  <2>1. CASE d = c
    BY <1>13, <2>1
  <2>2. CASE d # c
    <3>1. Good(client[d], handler[d], Queued(d), Logged(d))
      BY <1>1 DEF Lifecycle
    <3>2. /\ client'[d] = client[d] /\ handler'[d] = handler[d]
          /\ Queued(d)' => Queued(d)
          /\ Logged(d)' <=> Logged(d)
      BY <1>2, <1>7, <1>12, <2>2, AuditFrame
    <3>3. QED
      BY <3>1, <3>2 DEF Good
  <2>3. QED
    BY <2>1, <2>2
<1>15. QED
  BY <1>8, <1>10, <1>14 DEF IInv

LEMMA AcceptStep ==
    ASSUME IInv, NEW s \in Server, Accept(s)
    PROVE  IInv'
<1>1. Head(queue[s]) \in Connection
  BY Shortened DEF IInv, Accept
<1>2. QED
  BY <1>1, AcceptFirst

-----------------------------------------------------------------------------
\* A thread goes on.
LEMMA HandlerMoves ==
    ASSUME IInv, NEW c \in Connection,
           NEW h \in [pc : HandlerStep, got : 0..Whole, outcome : Outcome,
                      reply : {"none", "sent", "cut"}],
           handler[c].pc \in Working,
           handler' = [handler EXCEPT ![c] = h],
           UNCHANGED <<up, stops, queue, client>>,
           writer' \in Connection \cup {Nobody},
           audit' \subseteq [by : Connection, outcome : {"success", "failure"}],
           \A d \in Connection \ {c} : Logged(d)' <=> Logged(d),
           Good(client[c], h, FALSE, Logged(c)')
    PROVE  IInv'
<1>1. TypeOK /\ Queues /\ Lifecycle
  BY DEF IInv
<1>2. TypeOK'
  BY <1>1 DEF TypeOK
<1>3. Queues' /\ \A d \in Connection : Queued(d)' <=> Queued(d)
  BY <1>1, QueueFrame
<1>4. ~Queued(c)
  <2>1. Good(client[c], handler[c], Queued(c), Logged(c))
    BY <1>1 DEF Lifecycle
  <2>2. QED
    BY <2>1 DEF Good, NoHandler, Working
<1>5. handler'[c] = h /\ \A d \in Connection \ {c} : handler'[d] = handler[d]
  BY <1>1 DEF TypeOK
<1>6. Lifecycle'
  <2> SUFFICES ASSUME NEW d \in Connection
               PROVE  Good(client'[d], handler'[d], Queued(d)', Logged(d)')
    BY DEF Lifecycle
  <2>1. CASE d = c
    <3>1. ~Queued(c)'
      BY <1>3, <1>4
    <3>2. QED
      BY <1>5, <2>1, <3>1 DEF Good
  <2>2. CASE d # c
    <3>1. Good(client[d], handler[d], Queued(d), Logged(d))
      BY <1>1 DEF Lifecycle
    <3>2. /\ client'[d] = client[d] /\ handler'[d] = handler[d]
          /\ Queued(d)' <=> Queued(d)
          /\ Logged(d)' <=> Logged(d)
      BY <1>3, <1>5, <2>2
    <3>3. QED
      BY <3>1, <3>2 DEF Good
  <2>3. QED
    BY <2>1, <2>2
<1>7. QED
  BY <1>2, <1>3, <1>6 DEF IInv

\* The facts about the thread of a connection that its steps start from.
LEMMA Busying ==
    ASSUME IInv, NEW c \in Connection, handler[c].pc \in Working
    PROVE  /\ Good(client[c], handler[c], FALSE, Logged(c))
           /\ client[c].pc \notin {"idle", "connecting"}
           /\ handler[c] \in [pc : HandlerStep, got : 0..Whole, outcome : Outcome,
                              reply : {"none", "sent", "cut"}]
           /\ client[c].sent \in 0..Whole
           /\ handler = [d \in Connection |-> handler[d]]
           /\ writer \in Connection \cup {Nobody}
           /\ audit \subseteq [by : Connection, outcome : {"success", "failure"}]
<1>1. Good(client[c], handler[c], Queued(c), Logged(c))
  BY DEF IInv, Lifecycle
<1>2. ~Queued(c)
  BY <1>1 DEF Good, NoHandler, Working
<1>3. QED
  BY <1>1, <1>2, EndTypes DEF Good, NoHandler, Working, IInv, TypeOK

\* A thread that has nothing to commit drops the connection.
LEMMA Drops ==
    ASSUME IInv, NEW c \in Connection,
           handler[c].pc \in {"reading", "handling", "replying"},
           Ends(c, "closed", "cut"),
           UNCHANGED <<up, stops, queue, client, audit>>
    PROVE  IInv'
<1>1. /\ Good(client[c], handler[c], FALSE, Logged(c))
      /\ handler[c] \in [pc : HandlerStep, got : 0..Whole, outcome : Outcome,
                         reply : {"none", "sent", "cut"}]
      /\ client[c].pc \notin {"idle", "connecting"}
      /\ client[c].sent \in 0..Whole
      /\ writer \in Connection \cup {Nobody}
      /\ audit \subseteq [by : Connection, outcome : {"success", "failure"}]
  BY Busying DEF Working
<1>2. handler[c].reply = "none"
  BY <1>1 DEF Good
<1> DEFINE h == [handler[c] EXCEPT !.pc = "closed", !.reply = "cut"]
<1>3. /\ h \in [pc : HandlerStep, got : 0..Whole, outcome : Outcome,
                reply : {"none", "sent", "cut"}]
      /\ h.pc = "closed" /\ h.got = handler[c].got /\ h.reply = "cut"
      /\ h.outcome = handler[c].outcome
  BY <1>1 DEF HandlerStep
<1>4. handler' = [handler EXCEPT ![c] = h] /\ writer' \in Connection \cup {Nobody}
  BY <1>1, <1>2 DEF Ends
<1>5. \A d \in Connection : Logged(d)' <=> Logged(d)
  BY AuditFrame
<1> HIDE DEF h
<1>6. Good(client[c], h, FALSE, Logged(c)')
  BY <1>1, <1>2, <1>3, <1>5 DEF Good, NoHandler
<1>7. QED
  BY <1>1, <1>3, <1>4, <1>5, <1>6, HandlerMoves DEF Working

\* Bytes come in.
LEMMA RecvStep ==
    ASSUME IInv, NEW c \in Connection, Recv(c)
    PROVE  IInv'
<1>1. /\ Good(client[c], handler[c], FALSE, Logged(c))
      /\ handler[c] \in [pc : HandlerStep, got : 0..Whole, outcome : Outcome,
                         reply : {"none", "sent", "cut"}]
      /\ client[c].pc \notin {"idle", "connecting"}
      /\ client[c].sent \in 0..Whole
      /\ writer \in Connection \cup {Nobody}
      /\ audit \subseteq [by : Connection, outcome : {"success", "failure"}]
      /\ handler[c].pc = "reading"
  BY Busying DEF Working, Recv
<1>2. PICK n \in 1..Missing(client[c].server, handler[c].got) :
          /\ handler[c].got + n <= client[c].sent
          /\ handler' = [handler EXCEPT
                 ![c].got = handler[c].got + n,
                 ![c].pc = IF handler[c].got + n = Whole THEN "handling" ELSE @]
  BY DEF Recv
<1> DEFINE h == [handler[c] EXCEPT
                    !.got = handler[c].got + n,
                    !.pc = IF handler[c].got + n = Whole THEN "handling" ELSE @]
<1>3. handler[c].got \in 0..Whole /\ Missing(client[c].server, handler[c].got) \in Nat
  BY <1>1, WholeType, FrameAssumption DEF Missing
<1>4. n \in Nat /\ handler[c].got + n \in 0..Whole /\ client[c].sent <= Whole
  BY <1>1, <1>2, <1>3, WholeType
<1>5. /\ h \in [pc : HandlerStep, got : 0..Whole, outcome : Outcome,
                reply : {"none", "sent", "cut"}]
      /\ h.pc = IF handler[c].got + n = Whole THEN "handling" ELSE "reading"
      /\ h.got = handler[c].got + n
      /\ h.outcome = handler[c].outcome /\ h.reply = handler[c].reply
  BY <1>1, <1>4 DEF HandlerStep
<1>6. handler' = [handler EXCEPT ![c] = h]
  BY <1>2
<1>7. UNCHANGED <<up, stops, queue, client, writer, audit>>
  BY DEF Recv
<1>8. \A d \in Connection : Logged(d)' <=> Logged(d)
  BY <1>7, AuditFrame
<1> HIDE DEF h
<1>9. Good(client[c], h, FALSE, Logged(c)')
  BY <1>1, <1>2, <1>4, <1>5, <1>8, WholeType DEF Good, NoHandler
<1>10. QED
  BY <1>1, <1>5, <1>6, <1>7, <1>8, <1>9, HandlerMoves DEF Working

\* A request is handled, or only answered.
LEMMA AnswerStep ==
    ASSUME IInv, NEW c \in Connection, Write(c) \/ WriteAdmin(c) \/ Respond(c) \/ EofHttp(c)
    PROVE  IInv'
<1>1. /\ Good(client[c], handler[c], FALSE, Logged(c))
      /\ handler[c] \in [pc : HandlerStep, got : 0..Whole, outcome : Outcome,
                         reply : {"none", "sent", "cut"}]
      /\ client[c].pc \notin {"idle", "connecting"}
      /\ client[c].sent \in 0..Whole
      /\ writer \in Connection \cup {Nobody}
      /\ audit \subseteq [by : Connection, outcome : {"success", "failure"}]
      /\ handler[c].pc \in {"reading", "handling"}
  BY Busying DEF Working, Write, WriteAdmin, Respond, EofHttp
<1>2. /\ handler[c].outcome = "none" /\ ~Logged(c) /\ handler[c].reply = "none"
      /\ client[c].server = "http" <=> client[c].kind \in HttpKind
  BY <1>1 DEF Good
<1>3. PICK pc \in {"handling", "replying", "committing"}, outcome \in Outcome :
          /\ handler' = [handler EXCEPT ![c] =
                 [handler[c] EXCEPT !.pc = pc, !.outcome = outcome]]
          /\ client[c].server = "kdc" =>
                 pc = "replying" /\ handler[c].pc = "handling"
          /\ outcome # "none" => handler[c].got = Whole /\ pc # "handling"
          /\ (client[c].server = "http" /\ outcome # "none") => pc = "committing"
  <2>1. CASE Write(c)
    <3>1. PICK o \in {"success", "failure"} :
              handler' = [handler EXCEPT ![c].pc = "replying", ![c].outcome = o]
      BY <2>1 DEF Write
    <3>2. client[c].kind \notin HttpKind /\ handler[c].pc = "handling"
      BY <2>1 DEF Write, HttpKind
    <3>3. client[c].server = "kdc"
      BY <1>1, <1>2, <3>2, EndTypes DEF IInv, Server
    <3>4. handler[c].got = Whole
      BY <1>1, <3>2, <3>3 DEF Good
    <3>5. o \in Outcome
      BY DEF Outcome
    <3>6. QED
      BY <3>1, <3>2, <3>3, <3>4, <3>5
  <2>2. CASE WriteAdmin(c)
    <3>1. /\ handler' = [handler EXCEPT ![c].pc = "committing",
                                        ![c].outcome = "success"]
          /\ handler[c].got = Whole /\ client[c].kind \in HttpKind
          /\ "success" \in Outcome
      BY <2>2 DEF WriteAdmin, HttpKind, Outcome
    <3>2. client[c].server = "http"
      BY <1>2, <3>1
    <3>3. QED
      BY <3>1, <3>2
  <2>3. CASE Respond(c) \/ EofHttp(c)
    <3>1. /\ [handler[c] EXCEPT !.pc = "replying"] =
                 [handler[c] EXCEPT !.pc = "replying", !.outcome = "none"]
          /\ [handler[c] EXCEPT !.pc = "handling"] =
                 [handler[c] EXCEPT !.pc = "handling", !.outcome = "none"]
      BY <1>1, <1>2
    <3>2. "none" \in Outcome
      BY DEF Outcome
    <3>3. CASE Respond(c)
      <4>1. handler' = [handler EXCEPT ![c] = [handler[c] EXCEPT !.pc = "replying"]]
            /\ handler[c].pc = "handling"
        BY <3>3 DEF Respond
      <4>2. handler' = [handler EXCEPT ![c] =
                [handler[c] EXCEPT !.pc = "replying", !.outcome = "none"]]
        BY <3>1, <4>1
      <4> WITNESS "replying" \in {"handling", "replying", "committing"}, "none" \in Outcome
      <4>3. QED
        BY <1>2, <4>1, <4>2
    <3>4. CASE EofHttp(c)
      <4>1. handler' = [handler EXCEPT ![c] = [handler[c] EXCEPT !.pc = "handling"]]
            /\ client[c].server = "http"
        BY <3>4 DEF EofHttp
      <4>2. handler' = [handler EXCEPT ![c] =
                [handler[c] EXCEPT !.pc = "handling", !.outcome = "none"]]
        BY <3>1, <4>1
      <4> WITNESS "handling" \in {"handling", "replying", "committing"}, "none" \in Outcome
      <4>3. QED
        BY <1>2, <4>1, <4>2
    <3>5. QED
      BY <2>3, <3>3, <3>4
  <2>4. QED
    BY <2>1, <2>2, <2>3
<1>4. UNCHANGED <<up, stops, queue, client, audit>>
      /\ writer' \in Connection \cup {Nobody}
  BY <1>1 DEF Write, WriteAdmin, Respond, EofHttp
<1> DEFINE h == [handler[c] EXCEPT !.pc = pc, !.outcome = outcome]
<1>5. /\ h \in [pc : HandlerStep, got : 0..Whole, outcome : Outcome,
                reply : {"none", "sent", "cut"}]
      /\ h.pc = pc /\ h.got = handler[c].got
      /\ h.outcome = outcome /\ h.reply = "none"
  BY <1>1, <1>2 DEF HandlerStep
<1>6. handler' = [handler EXCEPT ![c] = h]
  BY <1>3
<1>7. \A d \in Connection : Logged(d)' <=> Logged(d)
  BY <1>4, AuditFrame
<1> HIDE DEF h
<1>8. Good(client[c], h, FALSE, Logged(c)')
  <2>1. outcome # "none" => handler[c].got = Whole /\ client[c].sent = Whole
    BY <1>1, <1>3, WholeType DEF Good
  <2>2. client[c].server \in {"kdc", "http"}
    BY EndTypes DEF IInv, Server
  <2>3. QED
    BY <1>1, <1>2, <1>3, <1>5, <1>7, <2>1, <2>2 DEF Good, NoHandler
<1>9. QED
  BY <1>1, <1>4, <1>5, <1>6, <1>7, <1>8, HandlerMoves DEF Working

\* The answer goes out.
LEMMA SendStep ==
    ASSUME IInv, NEW c \in Connection, Send(c)
    PROVE  IInv'
<1>1. /\ Good(client[c], handler[c], FALSE, Logged(c))
      /\ handler[c] \in [pc : HandlerStep, got : 0..Whole, outcome : Outcome,
                         reply : {"none", "sent", "cut"}]
      /\ client[c].pc \notin {"idle", "connecting"}
      /\ writer \in Connection \cup {Nobody}
      /\ audit \subseteq [by : Connection, outcome : {"success", "failure"}]
      /\ handler[c].pc = "replying"
  BY Busying DEF Working, Send
<1>2. handler[c].reply = "none" /\ client[c].server \in {"kdc", "http"}
  BY <1>1, EndTypes DEF Good, IInv, Server
<1> DEFINE h == [handler[c] EXCEPT
                    !.pc = IF client[c].server = "kdc" THEN "committing" ELSE "closed",
                    !.reply = "sent"]
<1>3. /\ h \in [pc : HandlerStep, got : 0..Whole, outcome : Outcome,
                reply : {"none", "sent", "cut"}]
      /\ h.pc = IF client[c].server = "kdc" THEN "committing" ELSE "closed"
      /\ h.got = handler[c].got /\ h.reply = "sent" /\ h.outcome = handler[c].outcome
  BY <1>1 DEF HandlerStep
<1>4. handler' = [handler EXCEPT ![c] = h] /\ writer' \in Connection \cup {Nobody}
      /\ UNCHANGED <<up, stops, queue, client, audit>>
  BY <1>1, <1>2 DEF Send, Ends
<1>5. \A d \in Connection : Logged(d)' <=> Logged(d)
  BY <1>4, AuditFrame
<1> HIDE DEF h
<1>6. Good(client[c], h, FALSE, Logged(c)')
  BY <1>1, <1>2, <1>3, <1>5 DEF Good, NoHandler
<1>7. QED
  BY <1>1, <1>3, <1>4, <1>5, <1>6, HandlerMoves DEF Working

\* What a committed line is: it names the connection, and no other's are touched.
LEMMA CommittedLine ==
    ASSUME NEW c \in Connection, handler[c].outcome \in Outcome,
           audit \subseteq [by : Connection, outcome : {"success", "failure"}],
           audit' = Committed(c)
    PROVE  /\ audit' \subseteq [by : Connection, outcome : {"success", "failure"}]
           /\ \A d \in Connection \ {c} : Logged(d)' <=> Logged(d)
           /\ Logged(c)' <=> Logged(c) \/ handler[c].outcome # "none"
<1>1. audit' \subseteq [by : Connection, outcome : {"success", "failure"}]
  BY DEF Committed, Outcome
<1>2. \A d \in Connection \ {c} : Logged(d)' <=> Logged(d)
  BY DEF Committed, Logged
<1>3. CASE handler[c].outcome = "none"
  BY <1>1, <1>2, <1>3 DEF Committed, Logged
<1>4. CASE handler[c].outcome # "none"
  <2> DEFINE line == [by |-> c, outcome |-> handler[c].outcome]
  <2>1. line \in audit' /\ line.by = c
    BY <1>4 DEF Committed
  <2> HIDE DEF line
  <2>2. Logged(c)'
    BY <2>1 DEF Logged
  <2>3. QED
    BY <1>1, <1>2, <1>4, <2>2
<1>5. QED
  BY <1>3, <1>4

\* The transaction is committed, or the commit raises: the KDC's thread ends, a page
\* of the administration is still to be answered.
LEMMA CommitStep ==
    ASSUME IInv, NEW c \in Connection, Commit(c) \/ CommitAdmin(c)
    PROVE  IInv'
<1>1. /\ Good(client[c], handler[c], FALSE, Logged(c))
      /\ handler[c] \in [pc : HandlerStep, got : 0..Whole, outcome : Outcome,
                         reply : {"none", "sent", "cut"}]
      /\ client[c].pc \notin {"idle", "connecting"}
      /\ client[c].sent \in 0..Whole
      /\ writer \in Connection \cup {Nobody}
      /\ audit \subseteq [by : Connection, outcome : {"success", "failure"}]
      /\ handler[c].pc = "committing"
  BY Busying DEF Working, Commit, CommitAdmin
<1>2. /\ handler[c].reply = IF client[c].server = "kdc" THEN "sent" ELSE "none"
      /\ UNCHANGED <<up, stops, queue, client>>
  BY <1>1 DEF Good, Commit, CommitAdmin
<1>3. PICK h \in [pc : HandlerStep, got : 0..Whole, outcome : Outcome,
                  reply : {"none", "sent", "cut"}] :
          /\ handler' = [handler EXCEPT ![c] = h]
          /\ h.got = handler[c].got /\ h.reply = handler[c].reply
          /\ \/ /\ audit' = Committed(c) /\ h.outcome = handler[c].outcome
                /\ h.pc = IF client[c].server = "kdc" THEN "closed" ELSE "replying"
             \/ /\ audit' = audit /\ client[c].server = "kdc"
                /\ h.outcome = handler[c].outcome /\ h.pc = "killed"
             \/ /\ audit' = audit /\ client[c].server = "http"
                /\ h.outcome = "none" /\ h.pc = "replying"
  <2>1. CASE Commit(c)
    <3>1. PICK pc \in {"closed", "killed"} :
              /\ Ends(c, pc, "cut") /\ client[c].server = "kdc"
              /\ audit' = IF pc = "closed" THEN Committed(c) ELSE audit
      BY <2>1 DEF Commit
    <3> DEFINE g == [handler[c] EXCEPT !.pc = pc, !.reply = "sent"]
    <3>2. /\ g \in [pc : HandlerStep, got : 0..Whole, outcome : Outcome,
                    reply : {"none", "sent", "cut"}]
          /\ g.pc = pc /\ g.got = handler[c].got /\ g.reply = "sent"
          /\ g.outcome = handler[c].outcome
      BY <1>1 DEF HandlerStep
    <3>3. handler' = [handler EXCEPT ![c] = g] /\ handler[c].reply = "sent"
      BY <1>2, <3>1 DEF Ends
    <3> HIDE DEF g
    <3>4. QED
      BY <3>1, <3>2, <3>3
  <2>2. CASE CommitAdmin(c)
    <3>1. client[c].server = "http"
      BY <2>2 DEF CommitAdmin
    <3>2. CASE audit' = Committed(c) /\
               handler' = [handler EXCEPT ![c].pc = "replying"]
      <4> DEFINE g == [handler[c] EXCEPT !.pc = "replying"]
      <4>1. /\ g \in [pc : HandlerStep, got : 0..Whole, outcome : Outcome,
                      reply : {"none", "sent", "cut"}]
            /\ g.pc = "replying" /\ g.got = handler[c].got
            /\ g.reply = handler[c].reply /\ g.outcome = handler[c].outcome
        BY <1>1 DEF HandlerStep
      <4>2. handler' = [handler EXCEPT ![c] = g]
        BY <3>2
      <4> HIDE DEF g
      <4>3. QED
        BY <3>1, <3>2, <4>1, <4>2
    <3>3. CASE audit' = audit /\
               handler' = [handler EXCEPT ![c].pc = "replying", ![c].outcome = "none"]
      <4> DEFINE g == [handler[c] EXCEPT !.pc = "replying", !.outcome = "none"]
      <4>1. /\ g \in [pc : HandlerStep, got : 0..Whole, outcome : Outcome,
                      reply : {"none", "sent", "cut"}]
            /\ g.pc = "replying" /\ g.got = handler[c].got
            /\ g.reply = handler[c].reply /\ g.outcome = "none"
        BY <1>1 DEF HandlerStep, Outcome
      <4>2. handler' = [handler EXCEPT ![c] = g]
        BY <3>3
      <4> HIDE DEF g
      <4>3. QED
        BY <3>1, <3>3, <4>1, <4>2
    <3>4. QED
      BY <2>2, <3>2, <3>3 DEF CommitAdmin
  <2>3. QED
    BY <2>1, <2>2
<1>4. writer' \in Connection \cup {Nobody}
  BY <1>1 DEF Commit, CommitAdmin, Ends
<1>5. /\ audit' \subseteq [by : Connection, outcome : {"success", "failure"}]
      /\ \A d \in Connection \ {c} : Logged(d)' <=> Logged(d)
      /\ Logged(c)' <=>
             Logged(c) \/ (audit' = Committed(c) /\ handler[c].outcome # "none")
  <2>1. CASE audit' = Committed(c)
    BY <1>1, <2>1, CommittedLine
  <2>2. CASE audit' = audit /\ audit' # Committed(c)
    BY <1>1, <2>2, AuditFrame
  <2>3. QED
    BY <1>3, <2>1, <2>2
<1>6. Good(client[c], h, FALSE, Logged(c)')
  BY <1>1, <1>2, <1>3, <1>5 DEF Good, NoHandler
<1>7. QED
  BY <1>1, <1>2, <1>3, <1>4, <1>5, <1>6, HandlerMoves DEF Working

-----------------------------------------------------------------------------
\* A server is stopped: its threads end, its queue is reset.
LEMMA StopStep ==
    ASSUME IInv, NEW s \in Server, Stop(s)
    PROVE  IInv'
<1> DEFINE cut == Served(s) \cup {queue[s][i] : i \in 1..Len(queue[s])}
<1>1. TypeOK /\ Queues /\ Lifecycle
  BY DEF IInv
<1>2. /\ stops < MaxStops /\ stops' = stops + 1
      /\ up' = [up EXCEPT ![s] = FALSE]
      /\ queue' = [queue EXCEPT ![s] = <<>>]
      /\ handler' = [c \in Connection |->
             IF c \in cut
             THEN [handler[c] EXCEPT !.pc = "killed",
                                     !.reply = IF @ = "sent" THEN @ ELSE "cut"]
             ELSE handler[c]]
      /\ writer' \in {writer, Nobody}
      /\ UNCHANGED <<client, audit>>
  BY DEF Stop
<1> HIDE DEF cut
<1>3. \A r \in Server : queue'[r] = IF r = s THEN <<>> ELSE queue[r]
  BY <1>1, <1>2 DEF TypeOK
<1>4. ASSUME NEW c \in Connection, handler[c] \in [pc : HandlerStep, got : 0..Whole,
                        outcome : Outcome, reply : {"none", "sent", "cut"}]
      PROVE  /\ c \notin cut => handler'[c] = handler[c]
             /\ handler'[c] \in [pc : HandlerStep, got : 0..Whole,
                        outcome : Outcome, reply : {"none", "sent", "cut"}]
             /\ c \in cut => /\ handler'[c].pc = "killed"
                             /\ handler'[c].got = handler[c].got
                             /\ handler'[c].outcome = handler[c].outcome
                             /\ handler'[c].reply =
                                    IF handler[c].reply = "sent" THEN "sent" ELSE "cut"
  BY <1>2, <1>4 DEF HandlerStep
<1>5. \A c \in Connection : handler'[c] \in [pc : HandlerStep, got : 0..Whole,
                        outcome : Outcome, reply : {"none", "sent", "cut"}]
  BY <1>1, <1>4, EndTypes
<1>6. TypeOK'
  <2>1. handler' \in [Connection -> [pc : HandlerStep, got : 0..Whole,
                        outcome : Outcome, reply : {"none", "sent", "cut"}]]
    BY <1>2, <1>5
  <2>2. /\ queue' \in [Server -> Seq(Connection)]
        /\ \A r \in Server : Len(queue'[r]) <= Backlog
    <3>1. <<>> \in Seq(Connection) /\ Len(<<>>) = 0
      OBVIOUS
    <3>2. queue' \in [Server -> Seq(Connection)]
      BY <1>1, <1>2, <3>1 DEF TypeOK
    <3>3. \A r \in Server : Len(queue[r]) <= Backlog
      BY <1>1 DEF TypeOK
    <3>4. QED
      BY <1>3, <3>1, <3>2, <3>3, OtherAssumption
  <2>3. up' \in [Server -> BOOLEAN] /\ stops' \in 0..MaxStops
    <3>1. up \in [Server -> BOOLEAN] /\ stops \in 0..MaxStops
      BY <1>1 DEF TypeOK
    <3>2. up' \in [Server -> BOOLEAN]
      BY <1>2, <3>1
    <3>3. stops < MaxStops /\ stops' = stops + 1
      BY <1>2
    <3>4. stops' \in 0..MaxStops
      BY <3>1, <3>3, OtherAssumption
    <3>5. QED
      BY <3>2, <3>4
  <2>4. QED
    BY <1>1, <1>2, <2>1, <2>2, <2>3 DEF TypeOK
<1>7. Queues'
  <2>1. \A r \in Server : \A i \in 1..Len(queue'[r]) :
            i \in 1..Len(queue[r]) /\ queue'[r][i] = queue[r][i]
    BY <1>3
  <2>2. QED
    BY <1>1, <2>1 DEF Queues
<1>8. \A c \in Connection : Queued(c)' => Queued(c) /\ c \notin cut
  <2> SUFFICES ASSUME NEW c \in Connection, NEW r \in Server,
                      NEW i \in 1..Len(queue'[r]), queue'[r][i] = c
               PROVE  Queued(c) /\ c \notin cut
    BY DEF Queued
  <2>1. r # s /\ i \in 1..Len(queue[r]) /\ queue[r][i] = c
    BY <1>3
  <2>2. Queued(c)
    BY <2>1 DEF Queued
  <2>3. handler[c].pc = "none"
    BY <1>1, <2>2 DEF Lifecycle, Good, NoHandler
  <2>4. c \notin Served(s)
    BY <2>3 DEF Served, Working
  <2>5. \A j \in 1..Len(queue[s]) : queue[s][j] # c
    BY <1>1, <2>1 DEF Queues
  <2>6. QED
    BY <2>2, <2>4, <2>5 DEF cut
<1>9. Lifecycle'
  <2> SUFFICES ASSUME NEW c \in Connection
               PROVE  Good(client'[c], handler'[c], Queued(c)', Logged(c)')
    BY DEF Lifecycle
  <2>1. /\ Good(client[c], handler[c], Queued(c), Logged(c))
        /\ handler[c] \in [pc : HandlerStep, got : 0..Whole,
                        outcome : Outcome, reply : {"none", "sent", "cut"}]
    BY <1>1, EndTypes DEF Lifecycle
  <2>2. client'[c] = client[c] /\ (Logged(c)' <=> Logged(c))
    BY <1>2, AuditFrame
  <2>3. CASE c \in cut
    <3>1. client[c].pc \notin {"idle", "connecting"}
      <4>1. CASE handler[c].pc \in Working
        BY <2>1, <4>1 DEF Good, NoHandler, Working
      <4>2. CASE Queued(c)
        BY <2>1, <4>2 DEF Good
      <4>3. QED
        BY <2>3, <4>1, <4>2 DEF cut, Served, Queued
    <3>2. ~Queued(c)'
      BY <1>8, <2>3
    <3>3. /\ handler'[c].pc = "killed" /\ handler'[c].got = handler[c].got
          /\ handler'[c].outcome = handler[c].outcome
          /\ handler'[c].reply = IF handler[c].reply = "sent" THEN "sent" ELSE "cut"
      BY <1>4, <2>1, <2>3
    <3>4. QED
      BY <2>1, <2>2, <3>1, <3>2, <3>3 DEF Good, NoHandler
  <2>4. CASE c \notin cut
    <3>1. handler'[c] = handler[c] /\ (Queued(c)' => Queued(c))
      BY <1>4, <1>8, <2>1, <2>4
    <3>2. QED
      BY <2>1, <2>2, <3>1 DEF Good
  <2>5. QED
    BY <2>3, <2>4
<1>10. QED
  BY <1>6, <1>7, <1>9 DEF IInv

\* What changes none of the connections keeps the invariant.
LEMMA StandsStill ==
    ASSUME IInv, up' \in [Server -> BOOLEAN],
           UNCHANGED <<stops, queue, client, handler, writer, audit>>
    PROVE  IInv'
<1>1. TypeOK'
  BY DEF IInv, TypeOK
<1>2. Queues'
  BY QueueFrame DEF IInv
<1>3. Lifecycle'
  BY QueueFrame, AuditFrame DEF IInv, Lifecycle, Good
<1>4. QED
  BY <1>1, <1>2, <1>3 DEF IInv

LEMMA NextInvariant == IInv /\ [Next]_vars => IInv'
<1> SUFFICES ASSUME IInv, [Next]_vars PROVE IInv'
  OBVIOUS
<1>1. ASSUME NEW c \in Connection, NEW s \in Server, NEW kind \in Kind,
             Connect(c, s, kind)
      PROVE  IInv'
  BY <1>1, ConnectStep
<1>2. ASSUME NEW c \in Connection,
             Connected(c) \/ SendSome(c) \/ Receive(c) \/ GiveUp(c) \/ Vanish(c)
      PROVE  IInv'
  BY <1>2, ConnectedStep, ClientStepKeeps
<1>3. ASSUME NEW c \in Connection,
             \/ Recv(c) \/ Eof(c) \/ EofHttp(c)
             \/ Write(c) \/ Busy(c) \/ WriteAdmin(c) \/ Respond(c) \/ Raise(c)
             \/ Send(c) \/ SendFails(c) \/ Commit(c) \/ CommitAdmin(c)
      PROVE  IInv'
  <2>1. CASE Eof(c) \/ Busy(c) \/ Raise(c) \/ SendFails(c)
    BY <2>1, Drops DEF Eof, CutShort, Busy, Raise, SendFails
  <2>2. CASE Recv(c)
    BY <2>2, RecvStep
  <2>3. CASE Write(c) \/ WriteAdmin(c) \/ Respond(c) \/ EofHttp(c)
    BY <2>3, AnswerStep
  <2>4. CASE Send(c) \/ Commit(c) \/ CommitAdmin(c)
    BY <2>4, SendStep, CommitStep
  <2>5. QED
    BY <1>3, <2>1, <2>2, <2>3, <2>4
<1>4. ASSUME NEW s \in Server, Accept(s) \/ Stop(s)
      PROVE  IInv'
  BY <1>4, AcceptStep, StopStep
<1>5. ASSUME NEW s \in Server, Start(s)
      PROVE  IInv'
  <2>1. up' \in [Server -> BOOLEAN]
    BY <1>5 DEF Start, IInv, TypeOK
  <2>2. QED
    BY <1>5, <2>1, StandsStill DEF Start
<1>6. CASE UNCHANGED vars
  BY <1>6, StandsStill DEF vars, IInv, TypeOK
<1>7. QED
  BY <1>1, <1>2, <1>3, <1>4, <1>5, <1>6 DEF Next

LEMMA Invariant == Spec => []IInv
<1>1. QED
  BY InitInvariant, NextInvariant, PTL DEF Spec

\* Every variable keeps its type: no backlog overflows, one connection has the write
\* lock, and every line of the audit log names an outcome.
THEOREM TypeCorrect == Spec => []TypeOK
<1>1. IInv => TypeOK
  BY DEF IInv
<1>2. QED
  BY <1>1, Invariant, PTL

\* However the bytes of a request are cut on the way, and whatever other connections
\* do, the KDC handles a request only when it has all of it (_recv_exact); and a
\* request of which an HTTPServer got a part only, which it does handle, has no line
\* in the KDC's database, committed or not (json.loads before every change).
THEOREM WholeOnly == Spec => []HandledWhole
<1>1. IInv => HandledWhole
  BY DEF IInv, Lifecycle, Good, HandledWhole, Logged
<1>2. QED
  BY <1>1, Invariant, PTL

\* The KDC sends first and commits then: a line is found once its answer is out and
\* the thread done, unless the KDC stopped or the commit failed in between, and no
\* line is without its answer.  The pages of the administration commit first: no
\* answer of a success is without its line.
THEOREM AuditFollowsAnswer == Spec => []Audited
<1>1. IInv => Audited
  BY DEF IInv, Lifecycle, Good, Audited, Logged
<1>2. QED
  BY <1>1, Invariant, PTL

=============================================================================
