------------------------------ MODULE JSONSocket ------------------------------
(***************************************************************************)
(* The JSONSocket handshake between a cluster (the client) and a listener  *)
(* (the server), over a transport of one of three kinds: bytes (TCP, Unix  *)
(* domain sockets), messages in order (WebSocket), both of which tell one  *)
(* side when the other closes, or datagrams (UDP), which may be lost or    *)
(* reordered and tell nothing.                                             *)
(*                                                                         *)
(* A connection is one attempt of a session stage; what a session does     *)
(* with it before and after is modelled in Session.  Either side may be    *)
(* another program, which sends what it likes.                             *)
(***************************************************************************)
EXTENDS Naturals, Sequences

CONSTANTS
  Conns,      \* the connections
  MaxData,    \* bound: payload messages from the server of a connection
  MaxLosses   \* bound: messages lost

ASSUME JSONSocketAssumption == MaxData \in Nat /\ MaxLosses \in Nat

\* Which side is this program.
Roles == {"both", "server", "client"}

Transports == {"bytes", "messages", "datagrams"}

\* A request header is accepted, answered with status 400 or 505, or null: JSON, but
\* no object.
Headers == {"valid", "bad", "null"}

\* A response is a header with a status (2xx or another), with no status, with no
\* usable version, no object, or no header at all.
Responses == {"ok", "refused", "nostatus", "noversion", "null", "data"}

\* The status of an error is its HTTP status; an error of the language (a TypeError of
\* a cluster, or deferred lookups that exhaust the stack) has none, and the reason to
\* give up a reconnect is one with status 200.
ErrorHeaders == {"refused", "nostatus", "ok"}

\* What the client takes for an acceptance: only a status outside 2xx is refused.
Accepting == {"ok", "nostatus"}

VARIABLES
  role, transport,      \* of a connection: the side this program has, and the transport
  client, server,       \* the state of each side
  cstream, sstream,     \* the streams of the two sides: "none", "opening", "open" or "closed"
  toServer, toClient,   \* messages on their way
  answer,               \* the response of the server: the first message it has sent
  sent, got,            \* history: payload messages sent, and delivered to the client's session
  lossy,                \* history: connections that lost a message
  losses,
  up                    \* the processes that run, of the two of this program

static == <<role, transport>>
history == <<sent, got, lossy, losses>>
vars == <<role, transport, client, server, cstream, sstream, toServer, toClient, answer,
          sent, got, lossy, losses, up>>

-----------------------------------------------------------------------------
(* The transport.                                                          *)

Datagrams(c) == transport[c] = "datagrams"

\* The positions a message may be taken from: datagrams overtake each other.
Ready(q, c) == IF Datagrams(c) THEN 1 .. Len(q) ELSE {1} \intersect 1 .. Len(q)

Taken(q, i) == SubSeq(q, 1, i - 1) \o SubSeq(q, i + 1, Len(q))

\* What is read at once is one message, but of a byte stream: less or more than one,
\* which is no header.
Garbled(c) == transport[c] = "bytes"

Send(q, c, m) == [q EXCEPT ![c] = Append(@, m)]

\* The process of a side runs; that of another program is not ours.
ClientRuns(c) == "client" \in up \/ role[c] = "server"
ServerRuns(c) == "server" \in up \/ role[c] = "client"

-----------------------------------------------------------------------------
(* The client: transport.stream(), the request header, the response.       *)

\* The load balancer has chosen an endpoint, which opens a socket.
Open(c) ==
  /\ ClientRuns(c) /\ client[c] = "new" /\ role[c] # "server"
  /\ client' = [client EXCEPT ![c] = "opening"]
  /\ cstream' = [cstream EXCEPT ![c] = "opening"]
  /\ UNCHANGED <<static, server, sstream, toServer, toClient, answer, history, up>>

\* The socket is open: the header is written, in the same turn.
Request(c) ==
  /\ ClientRuns(c) /\ client[c] = "opening" /\ cstream[c] = "opening"
  /\ client' = [client EXCEPT ![c] = "waiting"]
  /\ cstream' = [cstream EXCEPT ![c] = "open"]
  /\ toServer' = Send(toServer, c, "valid")
  /\ UNCHANGED <<static, server, sstream, toClient, answer, history, up>>

\* The specification of the header is wrong: the stream is destroyed.
BadSpec(c) ==
  /\ ClientRuns(c) /\ client[c] = "opening" /\ cstream[c] = "opening"
  /\ client' = [client EXCEPT ![c] = "failed"]
  /\ cstream' = [cstream EXCEPT ![c] = "closed"]
  /\ UNCHANGED <<static, server, sstream, toServer, toClient, answer, history, up>>

\* The socket errs or closes before it is open.
OpenFails(c) ==
  /\ ClientRuns(c) /\ client[c] = "opening"
  /\ client' = [client EXCEPT ![c] = "failed"]
  /\ cstream' = [cstream EXCEPT ![c] = "closed"]
  /\ UNCHANGED <<static, server, sstream, toServer, toClient, answer, history, up>>

\* The timeout rejects the promise; the socket goes on connecting.
OpenTimeout(c) ==
  /\ ClientRuns(c) /\ client[c] = "opening"
  /\ client' = [client EXCEPT ![c] = "failed"]
  /\ UNCHANGED <<static, server, cstream, sstream, toServer, toClient, answer, history, up>>

\* The socket opens, or fails to, when nobody waits for it: the endpoint re-emits
\* the error, which nobody handles, and the process ends.
OpenLate(c) ==
  /\ ClientRuns(c) /\ client[c] = "failed" /\ cstream[c] = "opening"
  /\ \/ cstream' = [cstream EXCEPT ![c] = "open"] /\ UNCHANGED up
     \/ cstream' = [cstream EXCEPT ![c] = "closed"] /\ up' = up \ {"client"}
  /\ UNCHANGED <<static, client, server, sstream, toServer, toClient, answer, history>>

\* Mutant: whatever it is.
ResponseUnchecked(c) ==
  /\ ClientRuns(c) /\ client[c] = "waiting"
  /\ \E i \in Ready(toClient[c], c) :
       /\ toClient' = [toClient EXCEPT ![c] = Taken(@, i)]
       /\ client' = [client EXCEPT ![c] = "connected"]
  /\ UNCHANGED <<static, server, cstream, sstream, toServer, answer, history, up>>

\* Mutant: the response is left in the stream.
ResponseKept(c) ==
  /\ ClientRuns(c) /\ client[c] = "waiting"
  /\ \E i \in Ready(toClient[c], c) :
       \/ /\ toClient[c][i] \in Accepting
          /\ client' = [client EXCEPT ![c] = "connected"]
          /\ UNCHANGED cstream
       \/ /\ toClient[c][i] \notin Accepting \/ Garbled(c)
          /\ client' = [client EXCEPT ![c] = "failed"]
          /\ cstream' = [cstream EXCEPT ![c] = "closed"]
  /\ UNCHANGED <<static, server, sstream, toServer, toClient, answer, history, up>>

\* The first message after the request decides: it is an acceptance, or the stream
\* is destroyed; but the TypeError on null leaves it open.
Response(c) ==
  /\ ClientRuns(c) /\ client[c] = "waiting"
  /\ \E i \in Ready(toClient[c], c) :
       /\ toClient' = [toClient EXCEPT ![c] = Taken(@, i)]
       /\ \/ /\ toClient[c][i] \in Accepting
             /\ client' = [client EXCEPT ![c] = "connected"]
             /\ UNCHANGED cstream
          \/ /\ toClient[c][i] \notin Accepting \/ Garbled(c)
             /\ client' = [client EXCEPT ![c] = "failed"]
             /\ cstream' = IF toClient[c][i] = "null" THEN cstream
                           ELSE [cstream EXCEPT ![c] = "closed"]
  /\ UNCHANGED <<static, server, sstream, toServer, answer, history, up>>

\* Mutant: the stream is not destroyed.
NoResponseLeavesOpen(c) ==
  /\ ClientRuns(c) /\ client[c] = "waiting"
  /\ client' = [client EXCEPT ![c] = "failed"]
  /\ UNCHANGED <<static, server, cstream, sstream, toServer, toClient, answer, history, up>>

\* Mutant: the wait has no timeout.
NoResponseOnClose(c) ==
  /\ ClientRuns(c) /\ client[c] = "waiting" /\ ~Datagrams(c)
  /\ client' = [client EXCEPT ![c] = "failed"]
  /\ cstream' = [cstream EXCEPT ![c] = "closed"]
  /\ UNCHANGED <<static, server, sstream, toServer, toClient, answer, history, up>>

\* The wait for the response times out or the stream breaks: it is destroyed.
NoResponse(c) ==
  /\ ClientRuns(c) /\ client[c] = "waiting"
  /\ client' = [client EXCEPT ![c] = "failed"]
  /\ cstream' = [cstream EXCEPT ![c] = "closed"]
  /\ UNCHANGED <<static, server, sstream, toServer, toClient, answer, history, up>>

\* The session has connected its other stages, too, and pipes the stream.
Pipe(c) ==
  /\ ClientRuns(c) /\ client[c] = "connected"
  /\ client' = [client EXCEPT ![c] = "piped"]
  /\ UNCHANGED <<static, server, cstream, sstream, toServer, toClient, answer, history, up>>

\* A message reaches the stream.  It flows since the wait for the response, so that
\* what comes before the session has piped it is gone.
Payload(c) ==
  /\ ClientRuns(c) /\ client[c] \in {"connected", "piped"}
  /\ \E i \in Ready(toClient[c], c) :
       /\ toClient' = [toClient EXCEPT ![c] = Taken(@, i)]
       /\ got' = IF client[c] = "piped" THEN Send(got, c, toClient[c][i]) ELSE got
  /\ UNCHANGED <<static, client, server, cstream, sstream, toServer, answer, sent, lossy,
                 losses, up>>

\* The session ends, or its other side has closed (a byte stream).
ClientEnds(c) ==
  /\ ClientRuns(c) /\ client[c] \in {"connected", "piped"}
  /\ client' = [client EXCEPT ![c] = "failed"]
  /\ cstream' = [cstream EXCEPT ![c] = "closed"]
  /\ UNCHANGED <<static, server, sstream, toServer, toClient, answer, history, up>>

\* Another program as the client: it connects and sends one message, or none.
Stranger(c) ==
  /\ role[c] = "server" /\ client[c] \in {"new", "stranger"}
  /\ client' = [client EXCEPT ![c] = "stranger"]
  /\ \/ /\ client[c] = "new"
        /\ cstream' = [cstream EXCEPT ![c] = "open"]
        /\ \/ \E h \in Headers : toServer' = Send(toServer, c, h)
           \/ ~Datagrams(c) /\ UNCHANGED toServer
     \/ /\ client[c] = "stranger"
        /\ cstream' = [cstream EXCEPT ![c] = "closed"]
        /\ UNCHANGED toServer
  /\ UNCHANGED <<static, server, sstream, toClient, answer, history, up>>

-----------------------------------------------------------------------------
(* The server: onSession() of the listener, as emitter of its transport.    *)

\* The transport emits a session: a connection is accepted, or a datagram has come.
Accept(c) ==
  /\ ServerRuns(c) /\ server[c] = "none"
  /\ toServer[c] # <<>> \/ (cstream[c] = "open" /\ ~Datagrams(c))
  /\ server' = [server EXCEPT ![c] = "awaiting"]
  /\ sstream' = [sstream EXCEPT ![c] = "open"]
  /\ UNCHANGED <<static, client, cstream, toServer, toClient, answer, history, up>>

\* The answer of the server, and what becomes of it.
Answer(c, m, state) ==
  /\ toClient' = Send(toClient, c, m)
  /\ answer' = [answer EXCEPT ![c] = IF @ = "none" THEN m ELSE @]
  /\ server' = [server EXCEPT ![c] = state]

\* The first message: a valid header starts a session, which the router sets up;
\* otherwise the connection ends with the response, but the TypeError on null is not
\* handled and ends the process.
Header(c) ==
  /\ ServerRuns(c) /\ server[c] = "awaiting"
  /\ \E i \in Ready(toServer[c], c) :
       /\ toServer' = [toServer EXCEPT ![c] = Taken(@, i)]
       /\ \/ /\ toServer[c][i] = "valid"
             /\ server' = [server EXCEPT ![c] = "routing"]
             /\ UNCHANGED <<sstream, toClient, answer, up>>
          \/ /\ toServer[c][i] = "bad" \/ Garbled(c)
             /\ Answer(c, "refused", "over")
             /\ sstream' = [sstream EXCEPT ![c] = "closed"]
             /\ UNCHANGED up
          \/ /\ toServer[c][i] = "null"
             /\ up' = IF role[c] = "client" THEN up ELSE up \ {"server"}
             /\ UNCHANGED <<server, sstream, toClient, answer>>
  /\ UNCHANGED <<static, client, cstream, history>>

\* The router is done: the response is written after the session is connected.  A
\* stream that has closed meanwhile takes nothing; the session does not notice.
Routed(c) ==
  /\ ServerRuns(c) /\ server[c] = "routing" /\ role[c] # "client"
  /\ IF sstream[c] = "open" THEN Answer(c, "ok", "serving")
     ELSE server' = [server EXCEPT ![c] = "deaf"] /\ UNCHANGED <<toClient, answer>>
  /\ UNCHANGED <<static, client, cstream, sstream, toServer, history, up>>

\* The session fails, in its set-up or later: error() writes the status, and the
\* stream is ended.
SessionFails(c) ==
  /\ ServerRuns(c) /\ server[c] \in {"routing", "serving"}
  /\ IF sstream[c] = "open"
     THEN \E m \in IF server[c] = "routing" THEN ErrorHeaders \ {"ok"} ELSE ErrorHeaders :
            Answer(c, m, "over")
     ELSE server' = [server EXCEPT ![c] = "over"] /\ UNCHANGED <<toClient, answer>>
  /\ sstream' = [sstream EXCEPT ![c] = "closed"]
  /\ UNCHANGED <<static, client, cstream, toServer, history, up>>

\* The session ends without an error.
SessionEnds(c) ==
  /\ ServerRuns(c) /\ server[c] = "serving" /\ sstream[c] = "open"
  /\ server' = [server EXCEPT ![c] = "over"]
  /\ sstream' = [sstream EXCEPT ![c] = "closed"]
  /\ UNCHANGED <<static, client, cstream, toServer, toClient, answer, history, up>>

\* The session's pipe writes payload to the stream.
Write(c) ==
  /\ ServerRuns(c) /\ server[c] = "serving" /\ sstream[c] = "open" /\ sent[c] < MaxData
  /\ toClient' = Send(toClient, c, "data")
  /\ sent' = [sent EXCEPT ![c] = @ + 1]
  /\ UNCHANGED <<static, client, server, cstream, sstream, toServer, answer, got, lossy,
                 losses, up>>

\* Another program as the server: its first message is anything.
StrangerAnswers(c) ==
  /\ role[c] = "client" /\ server[c] = "routing" /\ sstream[c] = "open"
  /\ \E m \in Responses : Answer(c, m, IF m \in Accepting THEN "serving" ELSE "over")
  /\ UNCHANGED <<static, client, cstream, sstream, toServer, history, up>>

\* Mutant: nobody hears the close of a session's stream.
HangUpUnheard(c) ==
  /\ ServerRuns(c) /\ ~Datagrams(c) /\ toServer[c] = <<>>
  /\ cstream[c] = "closed" /\ sstream[c] = "open" /\ server[c] # "serving"
  /\ sstream' = [sstream EXCEPT ![c] = "closed"]
  /\ server' = [server EXCEPT ![c] = IF @ = "routing" THEN @ ELSE "over"]
  /\ up' = IF server[c] = "awaiting" /\ role[c] # "client" THEN up \ {"server"} ELSE up
  /\ UNCHANGED <<static, client, cstream, toServer, toClient, answer, history>>

\* The client of a byte stream has closed.  While the header is awaited the promise
\* of onSession is rejected, which nobody handles: the process ends.  While the
\* session is set up nobody listens.
HangUp(c) ==
  /\ ServerRuns(c) /\ ~Datagrams(c) /\ toServer[c] = <<>>
  /\ cstream[c] = "closed" /\ sstream[c] = "open"
  /\ sstream' = [sstream EXCEPT ![c] = "closed"]
  /\ server' = [server EXCEPT ![c] = IF @ = "routing" THEN @ ELSE "over"]
  /\ up' = IF server[c] = "awaiting" /\ role[c] # "client" THEN up \ {"server"} ELSE up
  /\ UNCHANGED <<static, client, cstream, toServer, toClient, answer, history>>

\* The streams of a process that has ended are closed.
Gone(c) ==
  \/ /\ ~ServerRuns(c) /\ sstream[c] = "open"
     /\ sstream' = [sstream EXCEPT ![c] = "closed"]
     /\ server' = [server EXCEPT ![c] = "over"]
     /\ UNCHANGED <<static, client, cstream, toServer, toClient, answer, history, up>>
  \/ /\ ~ClientRuns(c) /\ cstream[c] \in {"opening", "open"}
     /\ cstream' = [cstream EXCEPT ![c] = "closed"]
     /\ client' = [client EXCEPT ![c] = "failed"]
     /\ UNCHANGED <<static, server, sstream, toServer, toClient, answer, history, up>>

\* A datagram is lost.
Lose(c) ==
  /\ Datagrams(c) /\ losses < MaxLosses
  /\ losses' = losses + 1
  /\ lossy' = lossy \union {c}
  /\ \/ /\ \E i \in 1 .. Len(toServer[c]) : toServer' = [toServer EXCEPT ![c] = Taken(@, i)]
        /\ UNCHANGED toClient
     \/ /\ \E i \in 1 .. Len(toClient[c]) : toClient' = [toClient EXCEPT ![c] = Taken(@, i)]
        /\ UNCHANGED toServer
  /\ UNCHANGED <<static, client, server, cstream, sstream, answer, sent, got, up>>

-----------------------------------------------------------------------------

Init ==
  /\ role \in [Conns -> Roles] /\ transport \in [Conns -> Transports]
  /\ client = [c \in Conns |-> "new"] /\ server = [c \in Conns |-> "none"]
  /\ cstream = [c \in Conns |-> "none"] /\ sstream = [c \in Conns |-> "none"]
  /\ toServer = [c \in Conns |-> <<>>] /\ toClient = [c \in Conns |-> <<>>]
  /\ answer = [c \in Conns |-> "none"]
  /\ sent = [c \in Conns |-> 0] /\ got = [c \in Conns |-> <<>>]
  /\ lossy = {} /\ losses = 0 /\ up = {"client", "server"}

Client(c) ==
  \/ Open(c) \/ Request(c) \/ BadSpec(c) \/ OpenFails(c) \/ OpenTimeout(c) \/ OpenLate(c)
  \/ Response(c) \/ NoResponse(c) \/ Pipe(c) \/ Payload(c) \/ ClientEnds(c)

Server(c) ==
  \/ Accept(c) \/ Header(c) \/ Routed(c) \/ SessionFails(c) \/ SessionEnds(c) \/ Write(c)
  \/ HangUp(c) \/ Gone(c)

Others(c) == Stranger(c) \/ StrangerAnswers(c) \/ Lose(c)

Next == \E c \in Conns : Client(c) \/ Server(c) \/ Others(c)

\* Both waits of the client have a timeout; the event loop delivers what has come
\* and what has closed; the router settles, as the connects of a session do.
Fairness ==
  \A c \in Conns :
    /\ WF_vars(Request(c) \/ BadSpec(c) \/ OpenFails(c) \/ OpenTimeout(c))
    /\ WF_vars(Response(c) \/ NoResponse(c))
    /\ WF_vars(Accept(c)) /\ WF_vars(Header(c)) /\ WF_vars(HangUp(c)) /\ WF_vars(Gone(c))
    /\ WF_vars(server[c] = "routing" /\ role[c] # "client" /\ (Routed(c) \/ SessionFails(c)))

Spec == Init /\ [][Next]_vars /\ Fairness

-----------------------------------------------------------------------------
(* Properties.                                                             *)

\* The type invariant: what the states, streams and messages of a connection are.
TypeOK ==
  /\ role \in [Conns -> Roles] /\ transport \in [Conns -> Transports]
  /\ client \in [Conns -> {"new", "opening", "waiting", "connected", "piped", "failed",
                           "stranger"}]
  /\ server \in [Conns -> {"none", "awaiting", "routing", "serving", "deaf", "over"}]
  /\ cstream \in [Conns -> {"none", "opening", "open", "closed"}]
  /\ sstream \in [Conns -> {"none", "open", "closed"}]
  /\ toServer \in [Conns -> Seq(Headers)] /\ toClient \in [Conns -> Seq(Responses)]
  /\ answer \in [Conns -> {"none"} \union Responses]
  /\ sent \in [Conns -> 0 .. MaxData] /\ got \in [Conns -> Seq(Responses)]
  /\ lossy \subseteq Conns /\ losses \in 0 .. MaxLosses /\ up \subseteq {"client", "server"}

\* Whatever is lost, late or out of order, a client that returns the stream to its
\* session has an answer of the server to its request.  With this program on the other
\* side a status 2xx then means that a session was connected there; an answer with no
\* status, which the client does not tell from one, means that it has failed.
ConnectedIsAnswered ==
  \A c \in Conns : client[c] \in {"connected", "piped"} =>
    /\ answer[c] \in {"ok", "nostatus"}
    /\ role[c] = "both" /\ answer[c] = "ok" => server[c] \in {"serving", "over"}
    /\ role[c] = "both" /\ answer[c] = "nostatus" => server[c] = "over"

\* "a valid JSON object is received but no JSONSocketStatus key is defined [...] then
\* the client must close the transport socket and signal a connection setup error": a
\* client is connected only when the server has answered with a status that agrees.
\* The code does not keep this.
ConnectedIsAgreed ==
  \A c \in Conns : client[c] \in {"connected", "piped"} => answer[c] = "ok"

\* A client that has failed keeps no open stream, but one that opened after its
\* timeout, which says nothing to the server that waits for the header, or one on
\* which the server has answered null.
FailedIsClosed ==
  \A c \in Conns : client[c] = "failed" /\ cstream[c] = "open" =>
    \/ answer[c] = "null"
    \/ toServer[c] = <<>> /\ (server[c] \in {"none", "awaiting"} \/ sstream[c] = "closed")

\* The session of the client gets no response as payload, except the one that
\* error() writes when the server's session fails later, as the last message of a
\* byte stream.
PayloadIsData ==
  \A c \in Conns : role[c] = "both" =>
    \A i \in 1 .. Len(got[c]) :
      got[c][i] = "data" \/ (got[c][i] \in ErrorHeaders /\ (Datagrams(c) \/ i = Len(got[c])))

\* On a byte stream the server learns that its client has given up.
ServerFollows ==
  \A c \in Conns :
    ~Datagrams(c) /\ client[c] = "failed" /\ cstream[c] = "closed"
      ~> sstream[c] # "open" /\ server[c] # "awaiting"

\* Each side as the handshake sees it.
ClientSide(c) ==
  CASE client[c] = "new" -> "idle"
    [] client[c] = "stranger" -> "foreign"
    [] client[c] \in {"opening", "waiting"} -> "asking"
    [] client[c] \in {"connected", "piped"} -> "connected"
    [] client[c] = "failed" -> "failed"

ServerSide(c) ==
  CASE answer[c] = "ok" -> "agreed"
    [] answer[c] = "nostatus" -> "unclear"
    [] answer[c] \notin Accepting /\ answer[c] # "none" -> "refused"
    [] answer[c] = "none" /\ server[c] \in {"none", "awaiting"} -> "idle"
    [] answer[c] = "none" /\ server[c] = "routing" -> "asked"
    [] OTHER -> "refused"

Promise == INSTANCE Handshake WITH
  client <- [c \in Conns |-> ClientSide(c)], server <- [c \in Conns |-> ServerSide(c)]

\* The messages, timeouts and sockets implement the handshake: a client is connected
\* only after the server has agreed or has answered without a status, the server
\* answers once, and a client is not kept waiting.
ImplementsHandshake == Promise!Spec
=============================================================================
