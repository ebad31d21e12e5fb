----------------------------- MODULE Connections -----------------------------
(***************************************************************************)
(* The servers and their connections: the KDC gives every connection a     *)
(* thread (kdc/kdc_server.py), the application server and the              *)
(* administration pages are HTTPServers, which serve one connection after  *)
(* another (app_server/service_server.py, kdc/kadmin_web.py).  A request   *)
(* arrives in pieces; no server sets a timeout, every client of the KDC    *)
(* does (client/client_app.py).  The KDC drops a request that was cut      *)
(* short (core/network.py), an HTTPServer goes on with what came.  What a  *)
(* request writes into the KDC's database, its line of the audit log above *)
(* all, the KDC commits after the reply was sent and the administration    *)
(* pages before.                                                           *)
(*                                                                         *)
(* Clients may give up, be killed, or vanish: the machine or the way to it *)
(* is gone, and the server hears neither a byte nor a close again.         *)
(***************************************************************************)
EXTENDS Naturals, Sequences, FiniteSets

CONSTANTS Connection,
          Length, Payload,   \* bytes of a request: 4 and those they announce,
                             \* or the headers and the body they announce
          Backlog,           \* listen(5)
          Nobody,            \* the write lock is free
          MaxStops           \* bound of the stops of a server

ASSUME FrameAssumption == Length \in Nat \ {0} /\ Payload \in Nat \ {0}
ASSUME OtherAssumption ==
    /\ Backlog \in Nat \ {0} /\ MaxStops \in Nat
    /\ Nobody \notin Connection

Server == {"kdc", "http"}
\* What a client asks: an AS or TGS exchange or an unknown msg_type, a page, or an
\* administrator's change.
Kind == {"exchange", "unknown", "GET", "POST"}
HttpKind == {"GET", "POST"}
Whole == Length + Payload

VARIABLES up,        \* the server runs
          stops,     \* how often one was stopped
          queue,     \* connections that wait for accept()
          client,    \* the client's end of each connection
          handler,   \* the server's end
          writer,    \* who holds the write lock of the KDC's database
          audit      \* the committed lines of the audit log

vars == <<up, stops, queue, client, handler, writer, audit>>

ClientStep == {"idle", "connecting", "sending", "waiting",
               "answered", "failed", "gone", "vanished"}
HandlerStep == {"none", "reading", "handling", "replying", "committing",
                "closed", "killed"}
Outcome == {"none", "success", "failure"}

NoClient == [pc |-> "idle", server |-> "kdc", kind |-> "GET", sent |-> 0]
\* got: bytes received.  outcome: of the audit line written, if one is.
\* reply: what went back.
NoHandler == [pc |-> "none", got |-> 0, outcome |-> "none", reply |-> "none"]

Init ==
    /\ up = [s \in Server |-> TRUE]
    /\ stops = 0
    /\ queue = [s \in Server |-> <<>>]
    /\ client = [c \in Connection |-> NoClient]
    /\ handler = [c \in Connection |-> NoHandler]
    /\ writer = Nobody
    /\ audit = {}

-----------------------------------------------------------------------------
(* Clients *)

Move(c, pc) == client' = [client EXCEPT ![c].pc = pc]

Connect(c, server, kind) ==
    /\ client[c].pc = "idle"
    /\ (server = "http") <=> (kind \in HttpKind)
    /\ client' = [client EXCEPT ![c] =
           [pc |-> "connecting", server |-> server, kind |-> kind, sent |-> 0]]
    /\ UNCHANGED <<up, stops, queue, handler, writer, audit>>

Room(s) == Len(queue[s]) < Backlog

\* A full backlog keeps the client connecting; where nobody listens it fails.
Connected(c) ==
    LET s == client[c].server
    IN  /\ client[c].pc = "connecting"
        /\ \/ /\ up[s] /\ Room(s)
              /\ Move(c, "sending")
              /\ queue' = [queue EXCEPT ![s] = Append(@, c)]
           \/ /\ ~up[s]
              /\ Move(c, "failed")
              /\ UNCHANGED queue
        /\ UNCHANGED <<up, stops, handler, writer, audit>>

\* sendall: the bytes go out in pieces.
SendSome(c) ==
    /\ client[c].pc = "sending"
    /\ \E n \in (client[c].sent + 1)..Whole :
           client' = [client EXCEPT ![c].sent = n,
                                    ![c].pc = IF n = Whole THEN "waiting" ELSE @]
    /\ UNCHANGED <<up, stops, queue, handler, writer, audit>>

\* receive_message: the reply, or the end of the connection.
Receive(c) ==
    /\ client[c].pc \in {"sending", "waiting"}
    /\ \/ handler[c].reply = "sent" /\ Move(c, "answered")
       \/ handler[c].reply = "cut" /\ Move(c, "failed")
    /\ UNCHANGED <<up, stops, queue, handler, writer, audit>>

Active == {"connecting", "sending", "waiting"}

\* The 10 s are over, or the process was killed: its end is closed.
GiveUp(c) ==
    /\ client[c].pc \in Active
    /\ Move(c, "gone")
    /\ UNCHANGED <<up, stops, queue, handler, writer, audit>>

\* Its end is gone and was not closed.
Vanish(c) ==
    /\ client[c].pc \in {"sending", "waiting"}
    /\ Move(c, "vanished")
    /\ UNCHANGED <<up, stops, queue, handler, writer, audit>>

-----------------------------------------------------------------------------
(* Servers *)

Working == {"reading", "handling", "replying", "committing"}
Served(s) == {c \in Connection : client[c].server = s /\ handler[c].pc \in Working}

\* The KDC accepts and starts a thread; an HTTPServer accepts when it is done
\* with the connection before.  The mutant handles the KDC's connections in turn.
FreeSequential(s) == Served(s) = {}
Free(s) == s = "http" => Served(s) = {}

Accept(s) ==
    /\ up[s] /\ queue[s] # <<>> /\ Free(s)
    /\ handler' = [handler EXCEPT ![Head(queue[s])].pc = "reading"]
    /\ queue' = [queue EXCEPT ![s] = Tail(@)]
    /\ UNCHANGED <<up, stops, client, writer, audit>>

\* The thread is done, its transaction rolled back unless it was committed.
\* The mutant closes the socket only if there was an answer.
EndsLeavingOpen(c, pc, reply) ==
    /\ handler' = [handler EXCEPT ![c].pc = pc,
                                  ![c].reply = IF @ = "sent" THEN @ ELSE "none"]
    /\ writer' = IF writer = c THEN Nobody ELSE writer
Ends(c, pc, reply) ==
    /\ handler' = [handler EXCEPT ![c].pc = pc,
                                  ![c].reply = IF @ = "sent" THEN @ ELSE reply]
    /\ writer' = IF writer = c THEN Nobody ELSE writer

\* _recv_exact: the length first, then as much as it announces, in pieces of any
\* size.  An HTTPServer reads through a buffer.
Missing(s, got) == IF s = "kdc" /\ got < Length THEN Length - got ELSE Whole - got

Recv(c) ==
    /\ handler[c].pc = "reading" /\ client[c].pc # "vanished"
    /\ \E n \in 1..Missing(client[c].server, handler[c].got) :
           /\ handler[c].got + n <= client[c].sent
           /\ handler' = [handler EXCEPT
                  ![c].got = handler[c].got + n,
                  ![c].pc = IF handler[c].got + n = Whole THEN "handling" ELSE @]
    /\ UNCHANGED <<up, stops, queue, client, writer, audit>>

\* No more bytes come: recv returns b'' or raises, and a request cut short is
\* dropped.  The mutant asks again for ever.
CutShortAgain(c) == UNCHANGED <<handler, writer>>
CutShort(c) == Ends(c, "closed", "cut")

Eof(c) ==
    /\ handler[c].pc = "reading" /\ client[c].pc = "gone"
    /\ CutShort(c)
    /\ UNCHANGED <<up, stops, queue, client, audit>>

\* To an HTTPServer the end of the bytes is the end of the headers, or of the body:
\* it handles what came.
EofHttp(c) ==
    /\ handler[c].pc = "reading" /\ client[c].pc = "gone"
    /\ client[c].server = "http"
    /\ handler[c].got > 0 /\ handler[c].got = client[c].sent
    /\ handler' = [handler EXCEPT ![c].pc = "handling"]
    /\ UNCHANGED <<up, stops, queue, client, writer, audit>>

\* handle_as_request, handle_tgs_request: the first write takes the lock, for
\* which a thread waits 5 s.
Write(c) ==
    /\ handler[c].pc = "handling" /\ client[c].kind = "exchange"
    /\ writer = Nobody
    /\ writer' = c
    /\ \E outcome \in {"success", "failure"} :
           handler' = [handler EXCEPT ![c].pc = "replying", ![c].outcome = outcome]
    /\ UNCHANGED <<up, stops, queue, client, audit>>

Busy(c) ==
    /\ handler[c].pc = "handling" /\ client[c].kind = "exchange"
    /\ writer # Nobody
    /\ Ends(c, "closed", "cut")
    /\ UNCHANGED <<up, stops, queue, client, audit>>

\* handle_api_add_principal, _delete_, _toggle_: json.loads raises on a body that
\* was cut, before anything is written.  The mutant takes any body.
WriteAdminAny(c) ==
    /\ handler[c].pc = "handling" /\ client[c].kind = "POST"
    /\ writer = Nobody
    /\ writer' = c
    /\ handler' = [handler EXCEPT ![c].pc = "committing", ![c].outcome = "success"]
    /\ UNCHANGED <<up, stops, queue, client, audit>>
WriteAdmin(c) ==
    /\ handler[c].pc = "handling" /\ client[c].kind = "POST"
    /\ handler[c].got = Whole
    /\ writer = Nobody
    /\ writer' = c
    /\ handler' = [handler EXCEPT ![c].pc = "committing", ![c].outcome = "success"]
    /\ UNCHANGED <<up, stops, queue, client, audit>>

\* An unknown msg_type is answered with an error, a GET with a page, a POST that
\* cannot be done with 400, 404, 409 or 500, and some of the refusals of
\* handle_tgs_request write no line.
Respond(c) ==
    /\ handler[c].pc = "handling"
    /\ handler' = [handler EXCEPT ![c].pc = "replying"]
    /\ UNCHANGED <<up, stops, queue, client, writer, audit>>

\* decode_message raises; so may any handler.
Raise(c) ==
    /\ handler[c].pc = "handling"
    /\ Ends(c, "closed", "cut")
    /\ UNCHANGED <<up, stops, queue, client, audit>>

\* send_message, wfile.write: a reply fits the socket's buffer, so that nobody has
\* to read it; a peer that closed may or may not be noticed.
Send(c) ==
    /\ handler[c].pc = "replying"
    /\ \/ /\ client[c].server = "kdc"
          /\ handler' = [handler EXCEPT ![c].pc = "committing", ![c].reply = "sent"]
          /\ UNCHANGED writer
       \/ client[c].server = "http" /\ Ends(c, "closed", "sent")
    /\ UNCHANGED <<up, stops, queue, client, audit>>

SendFails(c) ==
    /\ handler[c].pc = "replying" /\ client[c].pc = "gone"
    /\ Ends(c, "closed", "cut")
    /\ UNCHANGED <<up, stops, queue, client, audit>>

\* conn.commit(), which may raise.  The mutant commits what succeeded only.
CommittedSuccess(c) ==
    IF handler[c].outcome = "success"
    THEN audit \cup {[by |-> c, outcome |-> "success"]}
    ELSE audit
Committed(c) ==
    IF handler[c].outcome # "none"
    THEN audit \cup {[by |-> c, outcome |-> handler[c].outcome]}
    ELSE audit

Commit(c) ==
    /\ handler[c].pc = "committing" /\ client[c].server = "kdc"
    /\ \/ audit' = Committed(c) /\ Ends(c, "closed", "cut")
       \/ UNCHANGED audit /\ Ends(c, "killed", "cut")
    /\ UNCHANGED <<up, stops, queue, client>>

\* The administrator's change is committed before the reply.  Where that raises the
\* reply is a 500, and the transaction is rolled back after it.
CommitAdmin(c) ==
    /\ handler[c].pc = "committing" /\ client[c].server = "http"
    /\ \/ /\ audit' = Committed(c) /\ writer' = Nobody
          /\ handler' = [handler EXCEPT ![c].pc = "replying"]
       \/ /\ UNCHANGED <<audit, writer>>
          /\ handler' = [handler EXCEPT ![c].pc = "replying", ![c].outcome = "none"]
    /\ UNCHANGED <<up, stops, queue, client>>

Handler(c) ==
    \/ Recv(c) \/ Eof(c) \/ EofHttp(c)
    \/ Write(c) \/ Busy(c) \/ WriteAdmin(c) \/ Respond(c) \/ Raise(c)
    \/ Send(c) \/ SendFails(c) \/ Commit(c) \/ CommitAdmin(c)

\* The process ends, its threads with it: what was not committed is rolled back,
\* what waited is reset.
Stop(s) ==
    /\ up[s] /\ stops < MaxStops
    /\ stops' = stops + 1
    /\ up' = [up EXCEPT ![s] = FALSE]
    /\ LET cut == Served(s) \cup {queue[s][i] : i \in 1..Len(queue[s])}
       IN  /\ handler' = [c \in Connection |->
                  IF c \in cut
                  THEN [handler[c] EXCEPT
                           !.pc = "killed",
                           !.reply = IF @ = "sent" THEN @ ELSE "cut"]
                  ELSE handler[c]]
           /\ writer' = IF writer \in cut THEN Nobody ELSE writer
    /\ queue' = [queue EXCEPT ![s] = <<>>]
    /\ UNCHANGED <<client, audit>>

Start(s) ==
    /\ ~up[s]
    /\ up' = [up EXCEPT ![s] = TRUE]
    /\ UNCHANGED <<stops, queue, client, handler, writer, audit>>

-----------------------------------------------------------------------------
Next ==
    \/ \E c \in Connection :
           \/ \E s \in Server, kind \in Kind : Connect(c, s, kind)
           \/ Connected(c) \/ SendSome(c) \/ Receive(c) \/ GiveUp(c) \/ Vanish(c)
           \/ Recv(c) \/ Eof(c) \/ EofHttp(c)
           \/ Write(c) \/ Busy(c) \/ WriteAdmin(c) \/ Respond(c) \/ Raise(c)
           \/ Send(c) \/ SendFails(c) \/ Commit(c) \/ CommitAdmin(c)
    \/ \E s \in Server : Accept(s) \/ Stop(s) \/ Start(s)

\* Threads run, servers accept and bytes travel; nobody has to give up, and a
\* server that was stopped need not start again.
Fairness ==
    /\ \A s \in Server : WF_vars(Accept(s))
    /\ \A c \in Connection :
           /\ WF_vars(Handler(c))
           /\ WF_vars(Connected(c)) /\ WF_vars(SendSome(c)) /\ WF_vars(Receive(c))

Spec == Init /\ [][Next]_vars /\ Fairness

-----------------------------------------------------------------------------
\* Every variable keeps its type, and one connection has the write lock.
TypeOK ==
    /\ up \in [Server -> BOOLEAN]
    /\ stops \in 0..MaxStops
    /\ queue \in [Server -> Seq(Connection)]
    /\ \A s \in Server : Len(queue[s]) <= Backlog
    /\ client \in [Connection -> [pc : ClientStep, server : Server, kind : Kind,
                                  sent : 0..Whole]]
    /\ handler \in [Connection -> [pc : HandlerStep, got : 0..Whole,
                                   outcome : Outcome, reply : {"none", "sent", "cut"}]]
    /\ writer \in Connection \cup {Nobody}
    /\ audit \subseteq [by : Connection, outcome : {"success", "failure"}]

\* What the KDC handles was sent to its last byte, however it was cut on the way
\* (_recv_exact).  An HTTPServer does handle a request that was cut short, and
\* answers it: but nothing such a request asks is ever written, not even for a
\* moment, into the KDC's database (the body of a POST has to parse).
HandledWhole ==
    \A c \in Connection :
        LET whole == handler[c].got = Whole /\ client[c].sent = Whole
        IN  /\ (/\ client[c].server = "kdc"
                /\ handler[c].pc \in {"handling", "replying", "committing"}) => whole
            /\ handler[c].outcome # "none" \/ (\E l \in audit : l.by = c) => whole

\* The two orders of reply and commit.  The KDC replies first (handle_client): a
\* client whose answer went with a line of the audit log, success or failure, finds
\* it there as soon as the thread is done, unless the KDC was stopped in between or
\* its commit failed; and no line is without an answer.  The administration pages
\* commit first: whoever hears of a success finds its line in any case, but the line
\* may be there and the answer never come, so that a change which seems to have
\* failed was made.
Audited ==
    \A c \in Connection :
        LET logged == \E l \in audit : l.by = c
            kdc == client[c].server = "kdc"
        IN  /\ client[c].pc = "answered" /\ handler[c].outcome # "none" =>
                   logged \/ (kdc /\ handler[c].pc \in {"committing", "killed"})
            /\ logged /\ kdc => handler[c].reply = "sent"

\* Whoever talks to the KDC and stays is answered or refused, however many other
\* clients are silent.
KdcAnswers ==
    \A c \in Connection :
        (client[c].pc \in Active /\ client[c].server = "kdc") ~>
            client[c].pc \notin Active

\* A silent peer has the only thread of an HTTPServer (_BaseServer.serve_forever
\* handles a request before it accepts another, without a timeout).
Held == \E d \in Served("http") : client[d].pc = "vanished"

\* So does whoever talks to an HTTPServer, unless a silent peer holds it.
HttpAnswers ==
    \A c \in Connection :
        (client[c].pc \in Active /\ client[c].server = "http") ~>
            (client[c].pc \notin Active \/ Held)

\* A thread ends, unless its peer vanished before it had sent everything: nothing
\* ever wakes that one (_recv_exact sets no timeout).  The write lock of the
\* database comes free in any case, whoever falls silent.
ThreadsEnd ==
    \A c \in Connection :
        /\ handler[c].pc \in Working ~>
               \/ handler[c].pc \notin Working
               \/ handler[c].pc = "reading" /\ client[c].pc = "vanished"
        /\ writer = c ~> writer # c
=============================================================================
