# Verification of KerberosAuthentication

TLA+ specifications of the Kerberos demonstration under `src/`: a KDC (AS and
TGS), an application server, an administration, the client commands, the files
and the wire between them.  TLC checks every specification on small instances;
TLAPS proves their safety for every value of their constants, and that two of
them implement their abstract specification.

Contents: [the system](#1-the-system) · [modules](#2-modules-and-the-code) ·
[runs](#3-what-the-runs-show) · [bounds](#4-bounds) ·
[fairness and deadlock](#5-fairness-and-deadlock) · [proofs](#6-proofs) ·
[findings](#7-where-the-code-and-its-documentation-disagree) ·
[limits](#8-what-is-not-modelled) · [extensions](#9-possible-extensions).

## 1. The system

Five kinds of process meet over TCP, HTTP, one SQLite database and two files.

| Component | Source | State | Operations |
|---|---|---|---|
| KDC server | `kdc/kdc_server.py` | a thread and a SQLite connection per TCP connection | receive, dispatch, reply, commit |
| AS exchange | `kdc/as_handler.py`, `kdc/database.py` | `principals`: `disabled`, `failed_auth_count`, `locked_until` | look the client up, count a failure or reset, issue a TGT |
| TGS exchange | `kdc/tgs_handler.py` | none of its own: the ticket carries it | validate a TGT, renew it, derive a ticket |
| Application server | `app_server/service_server.py` | the keytab; one request at a time | validate a service ticket, answer AP_REP |
| Replay cache | `core/replay_cache.py` | table `replay_cache`, shared by TGS and AP | purge, test and store |
| Key database, administration | `kdc/database.py`, `kdc/kadmin.py`, `kdc/kadmin_web.py` | `principals`, `principal_keys`, `principal_aliases` | add, cpw, delete, toggle, start, look a key version up |
| Keytab | `core/keytab.py` | a file rewritten as a whole | write or replace an entry, load the best match |
| Credential cache, client | `client/*.py` | a file rewritten as a whole, one copy a process | kinit, klist, kvno, kaccess, krenew, kdestroy, interactive login |
| Names and realms | `core/principal.py`, `core/messages.py` | none | canonical names, aliases, routing between two realms |
| Framing, codec, cryptography | `core/network.py`, `core/asn1_codec.py`, `core/crypto.py` | none | bytes to messages and back |

Interactions.  The client sends AS_REQ and TGS_REQ to the KDC, each on a
connection of its own and so to a thread of its own, and AP_REQ to the
application server.  KDC threads, the administration processes and, when it
runs on the same host, the application server share the database; SQLite lets
one of them write at a time, from its first write to its commit, and lets the
others read what is committed.  Client commands share the cache file and
nothing but the file system orders them.

What is hard, and what has to hold all the same:

* **`now` is captured once and used late.**  Every handler reads the clock,
  then decrypts, looks up, checks for replay and only then acts.  Another
  request may purge the replay table, disable the client or advance the clock
  in between.  *An authenticator is accepted once in its window, and only a
  repeated one is refused; a ticket never outlives the password proof's
  renewable lifetime; what a disabled client can still get is bounded, up to the
  application server's clock and delay.*
* **Reads come before the write lock.**  `record_auth_failure`, `cmd_cpw` and
  `upsert_principal` read a row, compute, and only then write.  *A lock is
  bounded and consistent with its counter, and earned but for a named race; the
  key history holds the current key and the keys issued tickets need.*
* **Reply and commit, in two orders.**  The KDC answers first and commits after:
  a client that has gone, or a crash, undoes the write.  The administration pages
  commit first: whoever hears nothing may have made the change.  *No write lock
  stays behind; an answer and its line of the audit log go together, with named
  exceptions.*
* **Files are emptied, then written.**  The credential cache and the keytab can
  be seen empty, half done, or with one writer's bytes over another's; and a
  keytab is written before the transaction that made its key commits.  *A
  credential cache belongs to one login; a keytab entry is genuine and an
  exported key opens its tickets.*
* **Names lose their realm.**  No message carries a client's realm with its
  name; it is taken from the request, the ticket or a default.  *Over three hops
  a ticket still names the user whose password was proved.*
* **Bytes come in pieces, or not at all.**  No server has a timeout, and the
  HTTP servers have one thread.  They take the end of the bytes for the end of
  the request, where the KDC drops what was cut short.  *The KDC handles whole
  requests only; one that was cut writes nothing into the database, whoever it
  was sent to; and nobody but those behind a silent peer on an HTTP server waits
  for ever.*
* **Every label is encoded several times.**  Key versions, times, flags and
  names pass through JSON or DER, a cache file and a ticket, in different
  fields.  *What one end writes is what the other reads.*
* **Boundaries.**  Times lose their fraction in KerberosTime and round in a
  timestamp's microseconds, comparisons are strict or not, the lockout threshold
  counts from a stale value, a kvno outgrows its byte, the last block of a
  message is short.

`PROJECT.json` lists every component with its status, and every hazard at the
line where it bites with the properties aimed at it.

## 2. Modules and the code

One module per component, each with a module that gives it small sets for TLC
(`MC...`) and, where proved, a module with its theorems (`...Proofs`).  Actions
bear the code's names where they can; `PROJECT.json` maps each definition to
its lines.  Operators whose comment calls them mutants are not part of a
specification: they are the plausible bugs with which every property was tried.

What one module takes for granted another shows:

| Module | Takes for granted | Shown in |
|---|---|---|
| `AuthLockout`, `Tickets`, `ReplayCache` | a request to the KDC arrives whole, and names and labels as they were sent (to the application server a request is its headers: without the whole `Authorization` it is refused before anything else) | `Connections`, `Wire` |
| `Tickets` | a ticket names its client | `Realms` |
| `Realms` | no lockout, no replay, no expiry: a request that meets one ends its process | `AuthLockout`, `ReplayCache`, `Tickets` |
| `Keytab` | administration commands do not race in the database | `KeyHistory` |
| `CredentialCache` | the KDC answers with tickets of the client that asked | `Realms` |
| `Wire` | what was encrypted comes out whole or not at all | `Crypto` |

### `ReplayCache`

| TLA+ | Code |
|---|---|
| `table` | table `replay_cache`, key `(cache_name, cache_key)` |
| `Admit` | the prologue of `handle_tgs_request` and `do_GET`: capture `now`, check the skew |
| `AcceptNew`, `RejectReplay` | `check_and_store`: DELETE of old rows, INSERT, commit; one step, since the DELETE takes the write lock |
| `Abandon` | busy timeout, or the process dies |
| `End` | what becomes of the request afterwards: the row was committed on a connection of its own, and stays |
| `accepted`, `latest` | history: acceptances, and the largest `now` that has purged |

KDC and application server are on one host here, with one clock and one table;
on two hosts each has a database of its own and the argument holds for each.

### `AuthLockout`

One `Thread` per connection.  `Receive`, `LookupClient`, `CountFailure`,
`LookupTgs` are the reads of `handle_as_request`; `TakeLock` its first write
(an UPDATE, or the audit row of a refusal); `SendReply`, `SendFails`, `Commit`
are the end of `handle_client`; `Busy` is SQLite's timeout, `Crash` the end of
the process, `AdminUpsert` and `AdminToggle` an administrator.  `valid` stands for
the outcome of decrypting the pre-authentication; the key it needs is not
modelled.  `streak`, `overtaken` and a thread's `missed` are history: the
committed failures of a principal since its counter was last reset, whether one
of them was counted from a row read before that reset, and what happened to the
row since the thread read it.

### `Tickets`, implementing `AccessWindow`

A ticket is its client, its kind and its times.  The clock ticks `Second` times
a second, so that `KrbTime` (`_to_krb_time`) really drops a fraction.
`AsReceive`, `AsLookup`, `AsIssue`; `TgsReceive`, `TgsRenew`, `TgsIssue`;
`ApReceive`, `ApServe` follow the handlers; `Toggle` disables and enables.  The
TGS opens a ticket with the key of the principal the request names, so that a
service ticket may come back as a TGT: `TgsReceive` takes any ticket.  The
application server's clock differs from the KDC's by `ApSkew`, of either sign.
`served` (history) has two moments of the KDC's clock for the last service of a
client: when the application server read its own clock (`asked`), and when it
served (`at`).  `AccessWindow` knows neither tickets nor servers: a client is
served only if it asked in a window opened by a password proof, which the `Lag`
of the application server's clock keeps open for longer, and disabling it stops
new proofs.  Nothing bounds the time between `asked` and `at`: the code has no
limit on it either.

### `KeyHistory`

`principals` and `principal_keys`.  An administration command is a `Session`:
`ChangePassword`, `Add` or `Start` is its own first look at the principal (with
`ensure_schema`, hence `Backfilled`), `ReadExisting` the look `upsert_principal`
takes, `Upsert` everything from the first write to the commit.  `Delete` and
`Toggle` are one step each.  `IssueTicket` adds a ticket in the current key, and
`PrincipalKey` is `get_principal_key`.  What `init_database` does for several
principals is a session each.  A principal's salt is fixed by its name, so a
key is as good as its password.  `recreated` and `overtaken` are history: names
added again under an old history, and names whose password change found another
principal than its first look (a toggle counts: it silently re-enables).

### `Keytab` with `KeytabFile`

`KeytabFile` is the file of `core/keytab.py`: a header, whole entries, perhaps a
torn one.  An entry has one byte of the kvno and a 32-bit tail (`EntryOf`,
`KvnoOf`); `Rewritten` is what `write_keytab` puts back, `WrittenOver` what may
come of two writers: a whole file, one that ends in a tear, or one in which
bytes that are no entry pass for some (`garbled`; `_read_raw_entries` keeps
them, so that the next `write_keytab` writes them back).  `LoadKeytab` is the
lookup.  `Keytab` has the commands that
write it: `Ktadd`, `WebAdd` (the web console adds a service) and `Start` with
`Look` (the loop over the default principals of `init_database`).  An export is
three steps, `ReadEntries`, `OpenFile`, which empties the file, and `CloseFile`;
`Commit` ends the transaction of the last two commands, `Fail` any command at
any step.  `ChangePassword`, `Add` and `Delete` leave the keytab alone and are
one step each.  `aliases` is the table `principal_aliases`, in which the last
claimant owns a short name.  `used`, `lost` and `kept` are history: keys that
tickets may be encrypted in, keys exported by transactions that never committed,
and slots whose export has ended undisturbed.

### `CredentialCache`

Every command is a process that loads the file when it starts (`Begin`), works
on its copy and saves the copy as a whole.  `Save` is `_save` up to `open(path,
"wb")`, which empties the file; `Write` is the close, when the bytes arrive:
over whatever is there by then (`Overlays`), or nowhere if the file was unlinked
in between (`orphans`; whether an open file can be unlinked is a choice, POSIX
and Windows differ).  The bytes are reduced to credentials and to whether they
parse.  The other actions are the steps of `kerberos_cli.py` and `client_app.py`
between two waits for the KDC, the server or the user; `End` is every way a
command can fail or be killed.  The two exchanges of the cross-realm path are
one reply here, and a service is of its client's realm; `Realms` has the route.

### `Realms`, implementing `RealmAccess`

The three exchanges end to end, between two realms that one KDC and one
application server serve.  A name is a first component at a realm, and
`AtRealm` is what the codec does to it: the realm of another field takes the
place of its own.  `AsReply`, `TgsReply` with `Opener`, `RealmAccepted`,
`Validated`, `Renewed`, `Derived`, and `AuthenticAp` are the handlers, with
every key check and every realm they put anywhere; `SendTgsReq` and
`ReceiveCrossTgt` the client's route; `SendRenewal` the renewal, which asks the
home realm whoever the client is; `Present` the lookup of a service ticket under
the default realm, whatever realm it was stored under.  `ApServer` answers 401
first, then AP_REP in the client's subkey, which the client opens, or failing
that with the session key of the ticket it presented (`Verified`).
`login` in a ticket, `proved`, `served` and `mixed` are history.  `RealmAccess`
knows only users and services: one is served under its own name, in its own
groups, after its password was proved, where its realm leads.

### `Connections`

Servers, their accept queues and the threads; clients with a timeout, which give
up (`GiveUp`) or are gone without a word (`Vanish`).  `Recv` takes any part of
what `_recv_exact` waits for, first the length, then the payload; `CutShort` is
its `ConnectionError`.  Of an `HTTPServer`'s request the two parts are the
headers and the body they announce, read through a buffer; where the bytes end
it goes on with what came (`EofHttp`), or ends at a reset (`Eof`).  `Free` is
the other difference between the KDC, a thread per connection, and the two
`HTTPServer`s, one connection at a time.  `Write`, `WriteAdmin`, `Respond`,
`Busy`, `Raise` are what a handler may do with the database; `WriteAdmin` needs
the whole body, since `json.loads` raises on a part of it.  `Send`, `SendFails`,
`Commit` follow the order of `handle_client`, reply, then commit; `CommitAdmin`
comes before the reply, in the pages of `kdc/kadmin_web.py`.  `Stop` and `Start`
end and begin a server: its threads die with it.

### `Codec`, `Wire`, `Crypto`, `Formats`

`Codec` is `core/asn1_codec.py`: one operator per `_fill_...`, `encode_...` and
`decode_...`, from the dictionary's fields to those of the ASN.1 type and back;
what the type has no field for does not come back.  Times are ticks, finer than
a microsecond, as Python's floats are: `KrbTime` cuts to the second, `Stamp`
rounds to the microsecond.  `Wire` lets a client run the three exchanges and
renewals over both wire formats, JSON and DER, store credentials in the file and
load them in the next command, while keys are rotated and time goes by.  An
ASN.1 type is the set of its records (`KDCReqType`, ...), with what its ciphers
hold as a parameter; `TypeOK` says of all that is sent that it is in one (`Der`).
`Crypto` is `core/crypto.py` around the block cipher: CBC with ciphertext
stealing, encrypt-then-check, n-fold.  `Formats` joins the two, each on its own,
for one run.

## 3. What the runs show

| Run | Instance | Shows |
|---|---|---|
| `replay` | 2 KDC threads, AP, 1 authenticator | Inside `MAX_CLOCK_SKEW` after an acceptance there is no second one (`OncePerWindow`); a later one has one of two causes, a client clock ahead or an overtaken handler (`RepeatsExplained`); an acceptance stays on file (`Remembered`); nobody is refused for what he has not done (`RefusedOnlyRepeats`) |
| `lockout` | 2 threads, 2 principals, 3 requests | under stale reads, failed sends, crashes and an administrator, counter and lock of a row agree (`CounterMatchesLock`) and a lock is temporary (`LockIsTemporary`); it has its failures since the last reset, unless one of them was counted from before that reset (`LockIsEarned`), and ends early only through an administrator or a request that had read the row before the lock came (`LockEndsExplained`) |
| `lockout_race` | 2 threads | violated: `LockHolds` fails when requests overlap |
| `tickets` | 1 thread, 3 tickets, AP clock behind | `WithinRenewal`, `ServiceWithinTgt`; `AccessEnds`: by the KDC's clock a disabled client is served no later than `RENEWABLE_LIFETIME` after the disabling, plus the lag of the application server's clock and the time this server took over the request, though neither TGS nor AP looks at the flag; `AccessWindow` is implemented |
| `key_history` | 1 principal, 2 sessions, 2 passwords | the history holds the current key, live (`HistoryHoldsCurrent`); an issued ticket's key is lost only if the name was added again or a change was overtaken (`KeyLossExplained`) |
| `key_restart` | 1 session | violated: a restart resets a disabled default principal |
| `keytab` | 2 services with one alias, 2 keys, 2 processes | an entry holds a key under the principal and kvno it was made for (`KeytabGenuine`); an exported key opens its tickets, unless the file is being written or garbled, an export was interrupted or overlapped, or a version exists twice (`ExportedKeyOpens`); a short name leads to a principal that is there (`AliasesResolve`) |
| `client_cache` | 2 clients, 2 processes, 1 service | the file and every copy are one login's (`CoherentCache`) and an authenticator names its ticket's client (`AuthenticatorMatches`), unless two saves mixed their bytes; only `kdestroy` forgets a live TGT (`LiveTgtKept`) |
| `krenew_expired` | 1 process | violated: `krenew` drops a TGT it could renew |
| `access` | the default principals of two realms, one leading to the other; 2 client processes | tickets name the user whose password they go back to (`TicketsNameTheirClient`); refusals have named causes (`RefusalsExplained`); the AP exchange finds the ticket the TGS exchange stored, unless a client of the other realm named the service in short (`TicketFound`); a client that believes itself served was (`AccessIsMutual`); `RealmAccess` is implemented |
| `connections` | 2 connections | the KDC handles whole requests only, and a cut one writes nothing, whoever handles it (`HandledWhole`); answers and audit lines go together, up to the two orders of reply and commit (`Audited`); every client of the KDC is answered (`KdcAnswers`), every other unless behind a silent one (`HttpAnswers`); threads and the write lock come free (`ThreadsEnd`) |
| `formats` | 2 clients, 3 services, 2 formats; blocks of 2 bytes under all 24 permutations | a credential's labels still open its ticket after encodings, file and key rotation (`LabelsKept`); both ends agree on when it ends (`TimesKept`) and on an authenticator's moment (`StampKept`); errors have named causes and mutual authentication never fails (`RefusalsExplained`); decryption gives back what was encrypted, or refuses what was altered (`OpensWhole`); n-fold is the sum with the carry brought round (`FoldIsSum`) |

A `TypeOK` also says something that the types alone do not: the primary keys
of the tables, the counter that never becomes negative, no ticket born expired,
no cache with two tickets of one server, no queue longer than its backlog, one
connection with the write lock.  `LockDiscipline`, `ThresholdLocks`,
`PurgeOnlyStale`, `AuthtimeGenuine`, `NoProofAfterDisabling`,
`SupersededRetired` and the other `TypeOK`s are in no run; they are proved.

## 4. Bounds

| Module | Bound | Why it is enough to see what matters |
|---|---|---|
| `ReplayCache` | `MaxTime` 5, skew 2, ctime 2 | from before the authenticator's window to past its last fresh moment, 4, at which a row stored at 2 has just been kept and one stored before is gone |
| `AuthLockout` | threshold 2, lockout 1, `MaxRequests` 3, `MaxTime` 2; the race: lockout 2, 4 requests, time 3 | two failures lock, the third overlaps them, or is counted before and written after a reset; and the lock runs out within the clock |
| `Tickets` | `Second` 2, lifetime 2, renewal 4, `MaxTickets` 3, `MaxTime` 6, 1 thread | an initial ticket, its renewal and a derived one; times with and without a fraction; 6 is past the renewal of a proof at time 0, and past its service by a clock one tick behind; threads meet only in the tickets there are, and the proofs cover any number of them |
| `KeyHistory` | `MaxKvno` 3, `MaxTickets` 1 | a session can be overtaken twice; tickets do not influence one another, and the one issued is any of those possible |
| `Keytab` | a byte of 2 values, a word of 4, `MaxKvno` 3, `MaxCommands` 4 | the second kvno no longer fits its byte; both services registered, one key changed, and an export of it overlapped or interrupted |
| `CredentialCache` | lifetime 1, renewal 2, `MaxTime` 3 | a TGT expires while it can be renewed, then for good; two processes suffice to interleave, orphan and mix |
| `Realms` | `MaxKeys` 4 | the longest command needs them all: a login, the way across with its two tickets, and the request's subkey; or two logins, one of them on the other's ticket |
| `Connections` | length and payload 1, `Backlog` 1, `MaxStops` 1 | a request is cut inside and between its parts; one waits, another is refused; a stop hits every step |
| `Formats` | 4 ticks and 2 microseconds a second, lifetime 1 s, renewal 2 s, `MaxTime` 9, `MaxKvno` 2 for the home TGS and file server, `MaxIssued` 3 | times on, between and halfway between microseconds, also in a second's last; a renewal after expiry; a key rotated between any two steps |
| `Crypto` | blocks of 2 bytes of a bit, data up to 4; n-fold of 1 to 3 bytes out of 0, 1, 107, 255 to 1 to 3 bytes | one block, two, three, each with a whole and a partial last one; lengths that divide one another, and that do not; carries that ripple |

The proofs need none of these bounds.

## 5. Fairness and deadlock

`Connections`: weak fairness of `Accept(s)`, the accept loops, of `Handler(c)`,
a thread that can go on, and of what TCP does for a client that is there,
`Connected(c)`, `SendSome(c)` and `Receive(c)`.  `Handler` includes receiving
bytes that have come, not waiting for those that have not.  Nothing is assumed
of `GiveUp`, `Vanish`, `Stop` and `Start`: a client need not be impatient, and a
stopped server need not start again.  Each step of a handler is local work, or a
call with a limit: SQLite waits for its write lock only as long as its busy
timeout.  The wait for the request itself has none.

Nothing is assumed of the clock, of users or of administrators anywhere.

`ReplayCache`, `AuthLockout`, `Tickets`, `Keytab`, `Connections` and `Formats`
say `CHECK_DEADLOCK FALSE`: when the clock, requests, tickets, commands or
connections reach their bounds, an idle system has no step left.  `KeyHistory`,
`CredentialCache` and `Realms` never stop, and TLC checks that they do not.

## 6. Proofs

| Module | Theorems | Inductive invariant |
|---|---|---|
| `ServerProofs` (`ReplayCache`) | `ReplayTypeCorrect`, `AtMostOnceInWindow`, `RepeatCauses`, `AcceptedIsRemembered`, `PurgeIsSafe`, `RefusalsAreRepeats` | adds `CapturedPast`: captured times and the largest purging `now` are not in the future; and, for the last, that every row is one of the acceptances and whoever is refused has found one.  If `check_and_store` finds no row, the purge that removed it ran at a time no later than the clock, so the earlier acceptance has left its window |
| `AuthLockoutProofs` | `TypeCorrect`, `WriteLockDiscipline`, `CounterAndLockAgree`, `NoUnearnedLock`, `EveryLockExpires`, `EarlyEndsExplained`, `SequentialLockHolds`, `SequentialThreshold` | adds `PendingSound`: the two values a thread is about to write come from one row, hence agree, however stale; its count is at most one above the failures since the last reset, or it has missed a reset; and a running lock it does not know of, it has missed (`LockSound`).  `CounterBounded` says the first of the rows |
| `TicketsProofs` | `TypeCorrect`, `TicketsEnd`, `AuthtimesAreGenuine`, `ServiceTicketsEndWithTgt`, `DisablingStopsProofs`, `AccessIsBounded`, `AccessWindowImplemented` | adds what a handler holds (`Held`, `HeldByAp`): its ticket is an issued one, stems from a proof no later than the captured time and was valid then, by the clock of the server that holds it; captured times and proofs are not in the future, and no ticket starts before its authtime |
| `KeyHistoryProofs` | `TypeCorrect`, `HistoryIsCurrent`, `KeyLossIsExplained`, `SupersededAreRetired` | for names neither recreated nor overtaken: no version is above the current one (`VersionsBelow`), the keys of issued tickets are in the history (`TicketsKept`), and the row a session has read is still there (`SessionsKnow`) |
| `KeytabProofs` | `TypeCorrect`, `GenuineEntries`, `ShortNames` | what a process still has to export and what it has read from the file are keys that are or were somewhere (`Stems`), so nothing else reaches the file, however the bytes mix; and a transaction has one last claimant of an alias (`Ranked`, whose maximum needs well-founded induction) |
| `KeytabProofs` | `ExportedKeysOpen` | on top of it (`Exports`), every slot that counts as kept is in the file, or, once it is emptied, in the hands of the one process that writes it (`KeptFound`, `HoldsEntries`); every entry of a slot that is not ambiguous holds the slot's one key, so `load_keytab`, which takes the first of the newest, cannot take another.  Once the file is garbled it counts for nothing |
| `CredentialCacheProofs` | `TypeCorrect`, `OneLogin`, `OwnTickets` | a command knows its client and service before it asks (`Stage`), and from where it relies on its cache all tickets there are its client's (`Own`); what it saves is one login's, and so is what the file holds, unless bytes mixed |
| `CredentialCacheProofs` | `LiveTgtStays` | on top of it (`Renewals`), every TGT in the file, in a cache or on its way ends no later than its renewal, so that where `get_tgt` and `krenew` give up on one it is over |
| `RealmsProofs` | `TypeCorrect`, `NamesKept`, `AccessPromised` | every ticket in a cache, a process or a message names the user it goes back to, and a service's leads there (`GoodTicket`).  The TGS keeps it so because a request names the server of its TGT truthfully (`GoodMessage`) and a TGT between two realms was sealed under a registered principal (`OnRoute`): without the last, nothing ties the realm asked for to the client's |
| `RealmsProofs` | `TicketsAreFound`, `MutualAccess` | on top of it, a process gets the ticket it asked for and an answer to the request it sent (`Dialogues`): what waits on a connection names the service and the subkey of the process at its end |
| `RealmsProofs` | `CausesOfRefusals` | on top of both, while no two logins mixed in a cache, the cache is of one login, its tickets sealed under the servers they are filed under, and every message carries the names and keys its receiver compares (`Sessions`): each comparison of the KDC and the application server then holds, or the refusal is one of those named |
| `ServerProofs` (`Connections`) | `TypeCorrect`, `WholeOnly`, `AuditFollowsAnswer` | a connection waits in one queue at most and only while no thread has it (`Queues`); what it has received, replied and committed follows from where it is and from the server it is at (`Lifecycle`) |
| `FormatsProofs` (`Crypto`) | `WholeOrRefused` | what is on the way is a text under its key, as it was encrypted or altered once (`Sealing`).  That decryption undoes encryption, and sends no two ciphertexts to one text, is proved of CBC by counting blocks and of the stealing by cutting either side's message into the same three pieces |
| `FormatsProofs` (`Crypto`) | `FoldAlwaysSum` | the result is an n-fold of one of the inputs (`Folding`), and every n-fold is the sum: carrying round after each piece keeps it but for a multiple of 2^w - 1, and leaves at most 2^w (`Keeps`), from which the last carry takes the rest.  That the recursive functions are what their equations say is proved first (`Iterate`), by counting up the largest argument on which such a function exists |
| `FormatsProofs` (`Wire`) | `WireTypeCorrect`, `LabelsAlwaysKept`, `TimesAlwaysKept`, `StampsAlwaysKept`, `RefusalsAlwaysExplained` | every credential in the cache, and every one the file would give, is of its type and sealed under what its labels name, with the client, the times and the session key they tell (`Sound`, `Caches`); what is on the wire is the request of the command that waits, made of a sound credential of its (`Requested`), or the answer to it, with a sound credential or an error that is explained (`Answered`; together `InFlightWell`).  The proof carries them through each encoding and its inverse, one lemma for each message, and shows of each refusal of a server which of the client's own values is to blame |

`AccessWindowImplemented` and `AccessPromised` are refinements: initial states map to initial states and every step to a step of
the abstract specification or to none.

Assumptions, all named and evaluated by TLC: constants are numbers of the right
range, lifetimes are whole seconds with `TICKET_LIFETIME <= RENEWABLE_LIFETIME`
(600 and 3600 in `core/messages.py`), the threshold and the lockout are
positive; names of users, services and realms differ, a word is wider than a
byte, there is a default service, requests are not empty, and neither are the
inputs of the n-fold.  The two
`Sequential...` theorems assume a single thread (`Alone`); `lockout_race` shows
that they need it.  The keys of `Crypto` are permutations of the blocks, each and any.
`Wire` assumes that names are components and a realm, all strings (`Home` and
`"krbtgt"` too, which is plain but not to the provers), that a microsecond is a
whole number of ticks, and that None is none of the values that may be absent.
In every module, SQLite's write lock is taken as what makes a transaction's
writes one step.

Only model-checked: liveness (`KdcAnswers`, `HttpAnswers`, `ThreadsEnd`), which
TLAPS does not reach here.

## 7. Where the code and its documentation disagree

Three are runs that TLC finds violated, with the quoted text in `PROJECT.json`.

1. **`lockout_race`** — *the AS answers CLIENT_REVOKED until the lockout is
   over* (`docs/test-demo-strategy.md:124`).  A request that passed the check
   before the lock came resets it when it succeeds.
2. **`key_restart`** — *a restart does not overwrite a changed password or kvno*
   (`docs/architecture.md:159`).  A disabled default principal is not found, and
   is created again.
3. **`krenew_expired`** — *krenew renews the TGT as long as renew_till allows*
   (`README.md:201`).  The check before the renewal clears an expired TGT.

The others are exceptions that a property names, and each case occurs in its
run:

4. *The replay cache blocks sending the same authenticator again*
   (`docs/security.md:16`).  A row is kept for the skew after the server's
   `now`; an authenticator of a client whose clock is ahead stays fresh for
   longer, and is accepted again after the purge (`RepeatsExplained`).
5. *Tickets issued before key rotation remain decryptable*
   (`kdc/database.py:473`).  Two simultaneous `cpw` write one kvno with two keys
   (`overtaken` in `KeyLossExplained`).
6. *Each handled request emits one success/failure audit outcome under component
   TGS* (`kdc/kadmin_web.py:1015`).  Several refusals of `handle_tgs_request`
   return without one (`kdc/tgs_handler.py:62`, `85`, `142`, `186`, `192`): the
   action `Respond` of `Connections`.
7. *krenew renews the TGT as long as renew_till allows* and *kaccess uses the
   service ticket in the cache and gets a missing one from the TGS*
   (`README.md:200-201`, of any client).  One of the other realm cannot renew its
   TGT (`RefusalsExplained`: `renew_tgt_exchange` asks the home realm with the
   home TGS's name), and does not find the ticket it just got for a service it
   names in short (`TicketFound`).
8. The outer `client_principal` of a TGS_REP names the home realm, also for a
   client of the other one; with DER that is what the client stores with a
   service ticket.  Only the TGT's is used later (`LabelsKept`).

## 8. What is not modelled

* **Web pages.**  Of `kdc/kadmin_web.py` the requests that change something are
  modelled; its HTML, the read-only API and the audit queries are not, nor are
  the pages, the catalogue of files and the table of groups of
  `app_server/service_server.py`: they read and format.
* **Ideal cryptography.**  AES, HMAC, PBKDF2 and random numbers are ideal; the
  alternative with Fernet has no algorithm of its own.
* **Text.**  Parsing and escaping of principal names, the `.env` file, JSON and
  the bytes of DER (pyasn1's) are left out; which aliases a name has is a
  constant.
* **Files.**  Of the credential cache and the keytab, the bytes inside an entry
  but for the kvno; locking by the operating system, which the code does not
  use.
* `tests/`, `scratch/` and `docs/`, which were read for what the code promises.

## 9. Possible extensions

* Keys with versions in `Realms`, so that `Keytab`, `KeyHistory` and the
  exchanges are one specification.
* Liveness of a client that retries with fresh authenticators while the replay
  table is shared with a busy application server.
