--------------------------- MODULE JSONSocket_proofs ---------------------------
(* Proofs about JSONSocket, for any connections, payload and losses: what   *)
(* the messages say of the server, and that the handshake of the two sides  *)
(* keeps the safety part of Handshake.                                      *)
EXTENDS JSONSocket, TLAPS, SequenceTheorems

-----------------------------------------------------------------------------
(* The queues of messages.                                                 *)

\* To take a message out of a queue leaves a queue of the same messages.
LEMMA TakenInSeq ==
  ASSUME NEW S, NEW q \in Seq(S), NEW i \in 1 .. Len(q)
  PROVE  Taken(q, i) \in Seq(S)
<1>1. Len(q) \in Nat /\ \A j \in 1 .. Len(q) : q[j] \in S
  BY ElementOfSeq, LenProperties
<1>2. SubSeq(q, 1, i - 1) \in Seq(S)
  <2>1. i - 1 \in Int /\ \A j \in 1 .. i - 1 : q[j] \in S
    BY <1>1
  <2>2. QED
    BY <2>1, SubSeqProperties
<1>3. SubSeq(q, i + 1, Len(q)) \in Seq(S)
  <2>1. i + 1 \in Int /\ Len(q) \in Int /\ \A j \in i + 1 .. Len(q) : q[j] \in S
    BY <1>1
  <2>2. QED
    BY <2>1, SubSeqProperties
<1>4. QED
  BY <1>2, <1>3, ConcatProperties DEF Taken

\* What is ready to be read is in the queue.
LEMMA ReadyInQueue ==
  ASSUME NEW q, NEW c, NEW i \in Ready(q, c)
  PROVE  i \in 1 .. Len(q)
BY DEF Ready

LEMMA TakenInQueue ==
  ASSUME NEW S, NEW f \in [Conns -> Seq(S)], NEW c \in Conns, NEW i \in 1 .. Len(f[c])
  PROVE  [f EXCEPT ![c] = Taken(@, i)] \in [Conns -> Seq(S)]
BY TakenInSeq

LEMMA SentInQueue ==
  ASSUME NEW S, NEW f \in [Conns -> Seq(S)], NEW c \in Conns, NEW m \in S
  PROVE  Send(f, c, m) \in [Conns -> Seq(S)]
BY AppendProperties DEF Send

-----------------------------------------------------------------------------
(* Type correctness.                                                       *)

LEMMA InitType == Init => TypeOK
BY JSONSocketAssumption, EmptySeq DEF Init, TypeOK

LEMMA AnswerType ==
  ASSUME TypeOK, NEW c \in Conns, NEW m \in Responses,
         NEW state \in {"serving", "over"}, Answer(c, m, state)
  PROVE  /\ toClient' \in [Conns -> Seq(Responses)]
         /\ answer' \in [Conns -> {"none"} \union Responses]
         /\ server' \in [Conns -> {"none", "awaiting", "routing", "serving", "deaf", "over"}]
<1>1. toClient' \in [Conns -> Seq(Responses)]
  BY SentInQueue DEF Answer, TypeOK
<1>2. QED
  BY <1>1 DEF Answer, TypeOK

LEMMA ClientType ==
  ASSUME TypeOK, NEW c \in Conns, Client(c)
  PROVE  TypeOK'
<1>1. CASE Open(c)
  BY <1>1 DEF Open, TypeOK, static, history
<1>2. CASE Request(c)
  <2>1. toServer' \in [Conns -> Seq(Headers)]
    BY <1>2, SentInQueue DEF Request, TypeOK, Headers
  <2>2. QED
    BY <1>2, <2>1 DEF Request, TypeOK, static, history
<1>3. CASE BadSpec(c)
  BY <1>3 DEF BadSpec, TypeOK, static, history
<1>4. CASE OpenFails(c)
  BY <1>4 DEF OpenFails, TypeOK, static, history
<1>5. CASE OpenTimeout(c)
  BY <1>5 DEF OpenTimeout, TypeOK, static, history
<1>6. CASE OpenLate(c)
  BY <1>6 DEF OpenLate, TypeOK, static, history
<1>7. CASE Response(c)
  <2>1. toClient' \in [Conns -> Seq(Responses)]
    <3>1. PICK i \in Ready(toClient[c], c) : toClient' = [toClient EXCEPT ![c] = Taken(@, i)]
      BY <1>7 DEF Response
    <3>2. QED
      BY <3>1, TakenInQueue, ReadyInQueue DEF TypeOK
  <2>2. QED
    BY <1>7, <2>1 DEF Response, TypeOK, static, history
<1>8. CASE NoResponse(c)
  BY <1>8 DEF NoResponse, TypeOK, static, history
<1>9. CASE Pipe(c)
  BY <1>9 DEF Pipe, TypeOK, static, history
<1>10. CASE Payload(c)
  <2>1. PICK i \in Ready(toClient[c], c) :
          /\ toClient' = [toClient EXCEPT ![c] = Taken(@, i)]
          /\ got' = IF client[c] = "piped" THEN Send(got, c, toClient[c][i]) ELSE got
    BY <1>10 DEF Payload
  <2>2. i \in 1 .. Len(toClient[c]) /\ toClient[c] \in Seq(Responses)
    BY ReadyInQueue DEF TypeOK
  <2>3. toClient[c][i] \in Responses
    BY <2>2, ElementOfSeq
  <2>4. toClient' \in [Conns -> Seq(Responses)] /\ got' \in [Conns -> Seq(Responses)]
    BY <2>1, <2>2, <2>3, TakenInQueue, SentInQueue DEF TypeOK
  <2>5. QED
    BY <1>10, <2>4 DEF Payload, TypeOK, static
<1>11. CASE ClientEnds(c)
  BY <1>11 DEF ClientEnds, TypeOK, static, history
<1>12. QED
  BY <1>1, <1>2, <1>3, <1>4, <1>5, <1>6, <1>7, <1>8, <1>9, <1>10, <1>11 DEF Client

LEMMA ServerType ==
  ASSUME TypeOK, NEW c \in Conns, Server(c)
  PROVE  TypeOK'
<1>1. CASE Accept(c)
  BY <1>1 DEF Accept, TypeOK, static, history
<1>2. CASE Header(c)
  <2>1. toServer' \in [Conns -> Seq(Headers)]
    <3>1. PICK i \in Ready(toServer[c], c) : toServer' = [toServer EXCEPT ![c] = Taken(@, i)]
      BY <1>2 DEF Header
    <3>2. QED
      BY <3>1, TakenInQueue, ReadyInQueue DEF TypeOK
  <2>2. /\ toClient' \in [Conns -> Seq(Responses)]
        /\ answer' \in [Conns -> {"none"} \union Responses]
        /\ server' \in [Conns -> {"none", "awaiting", "routing", "serving", "deaf", "over"}]
    <3>1. CASE Answer(c, "refused", "over")
      BY <3>1, AnswerType DEF Responses
    <3>2. CASE ~Answer(c, "refused", "over")
      BY <1>2, <3>2 DEF Header, TypeOK
    <3>3. QED
      BY <3>1, <3>2
  <2>3. QED
    BY <1>2, <2>1, <2>2 DEF Header, TypeOK, static, history
<1>3. CASE Routed(c)
  <2>1. CASE sstream[c] = "open"
    <3>1. Answer(c, "ok", "serving")
      BY <1>3, <2>1 DEF Routed
    <3>2. QED
      BY <1>3, <3>1, AnswerType DEF Routed, Responses, TypeOK, static, history
  <2>2. CASE sstream[c] # "open"
    BY <1>3, <2>2 DEF Routed, TypeOK, static, history
  <2>3. QED
    BY <2>1, <2>2
<1>4. CASE SessionFails(c)
  <2>1. CASE sstream[c] = "open"
    <3>1. PICK m \in ErrorHeaders : Answer(c, m, "over")
      BY <1>4, <2>1 DEF SessionFails
    <3>2. m \in Responses
      BY DEF ErrorHeaders, Responses
    <3>3. QED
      BY <1>4, <3>1, <3>2, AnswerType DEF SessionFails, TypeOK, static, history
  <2>2. CASE sstream[c] # "open"
    BY <1>4, <2>2 DEF SessionFails, TypeOK, static, history
  <2>3. QED
    BY <2>1, <2>2
<1>5. CASE SessionEnds(c)
  BY <1>5 DEF SessionEnds, TypeOK, static, history
<1>6. CASE Write(c)
  <2>1. toClient' \in [Conns -> Seq(Responses)]
    BY <1>6, SentInQueue DEF Write, TypeOK, Responses
  <2>2. sent' \in [Conns -> 0 .. MaxData]
    BY <1>6, JSONSocketAssumption DEF Write, TypeOK
  <2>3. QED
    BY <1>6, <2>1, <2>2 DEF Write, TypeOK, static
<1>7. CASE HangUp(c)
  BY <1>7 DEF HangUp, TypeOK, static, history
<1>8. CASE Gone(c)
  BY <1>8 DEF Gone, TypeOK, static, history
<1>9. QED
  BY <1>1, <1>2, <1>3, <1>4, <1>5, <1>6, <1>7, <1>8 DEF Server

LEMMA OthersType ==
  ASSUME TypeOK, NEW c \in Conns, Others(c)
  PROVE  TypeOK'
<1>1. CASE Stranger(c)
  <2>1. toServer' \in [Conns -> Seq(Headers)]
    <3>1. CASE \E h \in Headers : toServer' = Send(toServer, c, h)
      <4>1. PICK h \in Headers : toServer' = Send(toServer, c, h)
        BY <3>1
      <4>2. QED
        BY <4>1, SentInQueue DEF TypeOK
    <3>2. CASE UNCHANGED toServer
      BY <3>2 DEF TypeOK
    <3>3. QED
      BY <1>1, <3>1, <3>2 DEF Stranger
  <2>2. QED
    BY <1>1, <2>1 DEF Stranger, TypeOK, static, history
<1>2. CASE StrangerAnswers(c)
  <2>1. PICK m \in Responses : Answer(c, m, IF m \in Accepting THEN "serving" ELSE "over")
    BY <1>2 DEF StrangerAnswers
  <2>2. QED
    BY <1>2, <2>1, AnswerType DEF StrangerAnswers, TypeOK, static, history
<1>3. CASE Lose(c)
  <2>1. toServer' \in [Conns -> Seq(Headers)] /\ toClient' \in [Conns -> Seq(Responses)]
    <3>1. CASE /\ \E i \in 1 .. Len(toServer[c]) : toServer' = [toServer EXCEPT ![c] = Taken(@, i)]
               /\ UNCHANGED toClient
      <4>1. PICK i \in 1 .. Len(toServer[c]) : toServer' = [toServer EXCEPT ![c] = Taken(@, i)]
        BY <3>1
      <4>2. QED
        BY <3>1, <4>1, TakenInQueue DEF TypeOK
    <3>2. CASE /\ \E i \in 1 .. Len(toClient[c]) : toClient' = [toClient EXCEPT ![c] = Taken(@, i)]
               /\ UNCHANGED toServer
      <4>1. PICK i \in 1 .. Len(toClient[c]) : toClient' = [toClient EXCEPT ![c] = Taken(@, i)]
        BY <3>2
      <4>2. QED
        BY <3>2, <4>1, TakenInQueue DEF TypeOK
    <3>3. QED
      BY <1>3, <3>1, <3>2 DEF Lose
  <2>2. losses' \in 0 .. MaxLosses
    BY <1>3, JSONSocketAssumption DEF Lose, TypeOK
  <2>3. QED
    BY <1>3, <2>1, <2>2 DEF Lose, TypeOK, static
<1>4. QED
  BY <1>1, <1>2, <1>3 DEF Others

LEMMA NextType == TypeOK /\ [Next]_vars => TypeOK'
<1>1. ASSUME TypeOK, UNCHANGED vars PROVE TypeOK'
  BY <1>1 DEF vars, static, history, TypeOK
<1>2. QED
  BY <1>1, ClientType, ServerType, OthersType DEF Next

\* Every state, stream and message is of its kind, for any number of connections.
THEOREM JSONSocketTypeCorrect == Spec => []TypeOK
BY InitType, NextType, PTL DEF Spec

-----------------------------------------------------------------------------
(* The inductive invariant: what a message, a state of the client and a     *)
(* state of the server say of the answer.                                  *)

\* No acceptance is on its way from a server that has not given one.
SentInv(c) == answer[c] \notin Accepting => toClient[c] \in Seq(Responses \ Accepting)

\* The server answers once it has routed, and this program with an acceptance only
\* when it serves, or fails with an error that has no status.
ServerInv(c) ==
  /\ server[c] \in {"none", "awaiting", "routing"} => answer[c] = "none"
  /\ server[c] = "serving" => answer[c] \in Accepting
  /\ role[c] = "both" /\ answer[c] = "ok" => server[c] \in {"serving", "over"}
  /\ role[c] = "both" /\ answer[c] = "nostatus" => server[c] = "over"

\* Nothing happens before a client comes, and a client is connected by an acceptance.
ClientInv(c) ==
  /\ client[c] = "new" => /\ cstream[c] = "none" /\ sstream[c] = "none"
                          /\ server[c] = "none" /\ toServer[c] = <<>>
  /\ client[c] = "stranger" => role[c] = "server"
  /\ client[c] \in {"connected", "piped"} => answer[c] \in Accepting

\* What the invariant says of a connection.
ConnInv(c) == SentInv(c) /\ ServerInv(c) /\ ClientInv(c)

HandshakeInv == \A c \in Conns : ConnInv(c)

\* The part of the state that is a connection's.
Conn(c) == <<role[c], transport[c], client[c], server[c], cstream[c], sstream[c], toServer[c],
             toClient[c], answer[c], got[c]>>

\* A step of one connection leaves the others alone.
LEMMA ClientFramed ==
  ASSUME TypeOK, NEW c \in Conns, Client(c), NEW d \in Conns \ {c}
  PROVE  Conn(d)' = Conn(d)
<1>1. CASE Open(c)
  BY <1>1 DEF Open, TypeOK, Conn, static, history
<1>2. CASE Request(c)
  BY <1>2 DEF Request, TypeOK, Conn, static, history, Send
<1>3. CASE BadSpec(c)
  BY <1>3 DEF BadSpec, TypeOK, Conn, static, history
<1>4. CASE OpenFails(c)
  BY <1>4 DEF OpenFails, TypeOK, Conn, static, history
<1>5. CASE OpenTimeout(c)
  BY <1>5 DEF OpenTimeout, TypeOK, Conn, static, history
<1>6. CASE OpenLate(c)
  BY <1>6 DEF OpenLate, TypeOK, Conn, static, history
<1>7. CASE Response(c)
  BY <1>7 DEF Response, TypeOK, Conn, static, history
<1>8. CASE NoResponse(c)
  BY <1>8 DEF NoResponse, TypeOK, Conn, static, history
<1>9. CASE Pipe(c)
  BY <1>9 DEF Pipe, TypeOK, Conn, static, history
<1>10. CASE Payload(c)
  BY <1>10 DEF Payload, TypeOK, Conn, static, Send
<1>11. CASE ClientEnds(c)
  BY <1>11 DEF ClientEnds, TypeOK, Conn, static, history
<1>12. QED
  BY <1>1, <1>2, <1>3, <1>4, <1>5, <1>6, <1>7, <1>8, <1>9, <1>10, <1>11 DEF Client

LEMMA ServerFramed ==
  ASSUME TypeOK, NEW c \in Conns, Server(c), NEW d \in Conns \ {c}
  PROVE  Conn(d)' = Conn(d)
<1>1. CASE Accept(c)
  BY <1>1 DEF Accept, TypeOK, Conn, static, history
<1>2. CASE Header(c)
  BY <1>2 DEF Header, TypeOK, Conn, static, history, Answer, Send
<1>3. CASE Routed(c)
  BY <1>3 DEF Routed, TypeOK, Conn, static, history, Answer, Send
<1>4. CASE SessionFails(c)
  BY <1>4 DEF SessionFails, TypeOK, Conn, static, history, Answer, Send
<1>5. CASE SessionEnds(c)
  BY <1>5 DEF SessionEnds, TypeOK, Conn, static, history
<1>6. CASE Write(c)
  BY <1>6 DEF Write, TypeOK, Conn, static, Send
<1>7. CASE HangUp(c)
  BY <1>7 DEF HangUp, TypeOK, Conn, static, history
<1>8. CASE Gone(c)
  BY <1>8 DEF Gone, TypeOK, Conn, static, history
<1>9. QED
  BY <1>1, <1>2, <1>3, <1>4, <1>5, <1>6, <1>7, <1>8 DEF Server

LEMMA OthersFramed ==
  ASSUME TypeOK, NEW c \in Conns, Others(c), NEW d \in Conns \ {c}
  PROVE  Conn(d)' = Conn(d)
<1>1. CASE Stranger(c)
  BY <1>1 DEF Stranger, TypeOK, Conn, static, history, Send
<1>2. CASE StrangerAnswers(c)
  BY <1>2 DEF StrangerAnswers, TypeOK, Conn, static, history, Answer, Send
<1>3. CASE Lose(c)
  BY <1>3 DEF Lose, TypeOK, Conn, static
<1>4. QED
  BY <1>1, <1>2, <1>3 DEF Others

LEMMA InitHandshake == Init => HandshakeInv
<1>1. <<>> \in Seq(Responses \ Accepting)
  BY EmptySeq
<1>2. QED
  BY <1>1 DEF Init, HandshakeInv, ConnInv, SentInv, ServerInv, ClientInv

\* A message that is read from the server leaves no acceptance that was not there.
LEMMA ReadSent ==
  ASSUME TypeOK, NEW c \in Conns, SentInv(c), NEW i \in 1 .. Len(toClient[c]),
         toClient' = [toClient EXCEPT ![c] = Taken(@, i)], answer'[c] = answer[c]
  PROVE  SentInv(c)'
<1>1. toClient'[c] = Taken(toClient[c], i)
  BY DEF TypeOK
<1>2. QED
  BY <1>1, TakenInSeq DEF SentInv

\* A message that is accepted is the sign of an acceptance.
LEMMA AcceptedIsAnswered ==
  ASSUME NEW c \in Conns, SentInv(c), NEW i \in 1 .. Len(toClient[c]),
         toClient[c][i] \in Accepting
  PROVE  answer[c] \in Accepting
BY ElementOfSeq DEF SentInv

\* An answer: an acceptance is the first message or follows one.
LEMMA AnswerSent ==
  ASSUME TypeOK, NEW c \in Conns, SentInv(c), NEW m \in Responses, NEW state,
         Answer(c, m, state), answer[c] = "none" \/ answer[c] \in Accepting
  PROVE  SentInv(c)'
<1>1. /\ toClient'[c] = Append(toClient[c], m)
      /\ answer'[c] = IF answer[c] = "none" THEN m ELSE answer[c]
  BY DEF Answer, Send, TypeOK
<1>2. SUFFICES ASSUME answer'[c] \notin Accepting
               PROVE  toClient'[c] \in Seq(Responses \ Accepting)
  BY DEF SentInv
<1>3. answer[c] = "none" /\ m \in Responses \ Accepting
  BY <1>1, <1>2
<1>4. toClient[c] \in Seq(Responses \ Accepting)
  BY <1>3 DEF SentInv, Accepting
<1>5. QED
  BY <1>1, <1>3, <1>4, AppendProperties

LEMMA ClientHandshake ==
  ASSUME TypeOK, NEW c \in Conns, ConnInv(c), Client(c)
  PROVE  ConnInv(c)'
<1>1. CASE Open(c)
  BY <1>1 DEF Open, TypeOK, ConnInv, ServerInv, ClientInv, SentInv, static, history
<1>2. CASE Request(c)
  BY <1>2 DEF Request, TypeOK, ConnInv, ServerInv, ClientInv, SentInv, static, history, Send
<1>3. CASE BadSpec(c)
  BY <1>3 DEF BadSpec, TypeOK, ConnInv, ServerInv, ClientInv, SentInv, static, history
<1>4. CASE OpenFails(c)
  BY <1>4 DEF OpenFails, TypeOK, ConnInv, ServerInv, ClientInv, SentInv, static, history
<1>5. CASE OpenTimeout(c)
  BY <1>5 DEF OpenTimeout, TypeOK, ConnInv, ServerInv, ClientInv, SentInv, static, history
<1>6. CASE OpenLate(c)
  BY <1>6 DEF OpenLate, TypeOK, ConnInv, ServerInv, ClientInv, SentInv, static, history
<1>7. CASE Response(c)
  <2>1. PICK i \in Ready(toClient[c], c) :
          /\ toClient' = [toClient EXCEPT ![c] = Taken(@, i)]
          /\ \/ /\ toClient[c][i] \in Accepting
                /\ client' = [client EXCEPT ![c] = "connected"]
             \/ client' = [client EXCEPT ![c] = "failed"]
    BY <1>7 DEF Response
  <2>2. i \in 1 .. Len(toClient[c])
    BY ReadyInQueue
  <2>3. UNCHANGED <<role, server, sstream, toServer, answer>>
    BY <1>7 DEF Response, static
  <2>4. SentInv(c)'
    BY <2>1, <2>2, <2>3, ReadSent DEF ConnInv
  <2>5. ClientInv(c)'
    BY <1>7, <2>1, <2>2, <2>3, AcceptedIsAnswered DEF Response, ConnInv, ClientInv, TypeOK
  <2>6. QED
    BY <2>3, <2>4, <2>5 DEF ConnInv, ServerInv
<1>8. CASE NoResponse(c)
  BY <1>8 DEF NoResponse, TypeOK, ConnInv, ServerInv, ClientInv, SentInv, static, history
<1>9. CASE Pipe(c)
  BY <1>9 DEF Pipe, TypeOK, ConnInv, ServerInv, ClientInv, SentInv, static, history
<1>10. CASE Payload(c)
  <2>1. PICK i \in Ready(toClient[c], c) : toClient' = [toClient EXCEPT ![c] = Taken(@, i)]
    BY <1>10 DEF Payload
  <2>2. UNCHANGED <<role, client, server, cstream, sstream, toServer, answer>>
    BY <1>10 DEF Payload, static
  <2>3. SentInv(c)'
    BY <2>1, <2>2, ReadyInQueue, ReadSent DEF ConnInv
  <2>4. QED
    BY <2>2, <2>3 DEF ConnInv, ServerInv, ClientInv
<1>11. CASE ClientEnds(c)
  BY <1>11 DEF ClientEnds, TypeOK, ConnInv, ServerInv, ClientInv, SentInv, static, history
<1>12. QED
  BY <1>1, <1>2, <1>3, <1>4, <1>5, <1>6, <1>7, <1>8, <1>9, <1>10, <1>11 DEF Client

LEMMA ServerHandshake ==
  ASSUME TypeOK, NEW c \in Conns, ConnInv(c), Server(c)
  PROVE  ConnInv(c)'
<1>1. CASE Accept(c)
  BY <1>1 DEF Accept, TypeOK, ConnInv, ServerInv, ClientInv, SentInv, static, history
<1>2. CASE Header(c)
  <2>1. UNCHANGED <<role, client, cstream>> /\ server[c] = "awaiting" /\ client[c] # "new"
    BY <1>2 DEF Header, static, ConnInv, ClientInv
  <2>2. CASE Answer(c, "refused", "over")
    <3>1. SentInv(c)'
      BY <2>1, <2>2, AnswerSent DEF ConnInv, ServerInv, Responses
    <3>2. ServerInv(c)' /\ ClientInv(c)'
      BY <2>1, <2>2 DEF Answer, ConnInv, ServerInv, ClientInv, TypeOK, Accepting
    <3>3. QED
      BY <3>1, <3>2 DEF ConnInv
  <2>3. CASE /\ UNCHANGED <<toClient, answer>>
             /\ server' \in {server, [server EXCEPT ![c] = "routing"]}
    BY <2>1, <2>3 DEF ConnInv, SentInv, ServerInv, ClientInv, TypeOK
  <2>4. QED
    BY <1>2, <2>2, <2>3 DEF Header
<1>3. CASE Routed(c)
  <2>1. /\ UNCHANGED <<role, client, cstream, sstream, toServer>>
        /\ server[c] = "routing" /\ client[c] # "new"
    BY <1>3 DEF Routed, static, ConnInv, ClientInv
  <2>2. CASE sstream[c] = "open"
    <3>1. Answer(c, "ok", "serving")
      BY <1>3, <2>2 DEF Routed
    <3>2. SentInv(c)'
      BY <2>1, <3>1, AnswerSent DEF ConnInv, ServerInv, Responses
    <3>3. ServerInv(c)' /\ ClientInv(c)'
      BY <2>1, <3>1 DEF Answer, ConnInv, ServerInv, ClientInv, TypeOK, Accepting
    <3>4. QED
      BY <3>2, <3>3 DEF ConnInv
  <2>3. CASE sstream[c] # "open"
    BY <1>3, <2>1, <2>3 DEF Routed, ConnInv, SentInv, ServerInv, ClientInv, TypeOK
  <2>4. QED
    BY <2>2, <2>3
<1>4. CASE SessionFails(c)
  <2>1. /\ UNCHANGED <<role, client, cstream, toServer>>
        /\ server[c] \in {"routing", "serving"} /\ client[c] # "new"
    BY <1>4 DEF SessionFails, static, ConnInv, ClientInv
  <2>2. CASE sstream[c] = "open"
    <3>1. PICK m \in IF server[c] = "routing" THEN ErrorHeaders \ {"ok"} ELSE ErrorHeaders :
            Answer(c, m, "over")
      BY <1>4, <2>2 DEF SessionFails
    <3>2. m \in Responses
      BY DEF ErrorHeaders, Responses
    <3>3. SentInv(c)'
      BY <2>1, <3>1, <3>2, AnswerSent DEF ConnInv, ServerInv
    <3>4. ServerInv(c)' /\ ClientInv(c)'
      BY <2>1, <3>1 DEF Answer, ConnInv, ServerInv, ClientInv, TypeOK, Accepting
    <3>5. QED
      BY <3>3, <3>4 DEF ConnInv
  <2>3. CASE sstream[c] # "open"
    BY <1>4, <2>1, <2>3 DEF SessionFails, ConnInv, SentInv, ServerInv, ClientInv, TypeOK
  <2>4. QED
    BY <2>2, <2>3
<1>5. CASE SessionEnds(c)
  BY <1>5 DEF SessionEnds, TypeOK, ConnInv, ServerInv, ClientInv, SentInv, static, history
<1>6. CASE Write(c)
  <2>1. /\ UNCHANGED <<role, client, server, cstream, sstream, toServer, answer>>
        /\ toClient'[c] = Append(toClient[c], "data")
    BY <1>6 DEF Write, Send, static, TypeOK
  <2>2. SentInv(c)'
    BY <2>1, AppendProperties DEF ConnInv, SentInv, Responses, Accepting
  <2>3. QED
    BY <2>1, <2>2 DEF ConnInv, ServerInv, ClientInv
<1>7. CASE HangUp(c)
  BY <1>7 DEF HangUp, TypeOK, ConnInv, ServerInv, ClientInv, SentInv, static, history
<1>8. CASE Gone(c)
  BY <1>8 DEF Gone, TypeOK, ConnInv, ServerInv, ClientInv, SentInv, static, history, ClientRuns
<1>9. QED
  BY <1>1, <1>2, <1>3, <1>4, <1>5, <1>6, <1>7, <1>8 DEF Server

LEMMA OthersHandshake ==
  ASSUME TypeOK, NEW c \in Conns, ConnInv(c), Others(c)
  PROVE  ConnInv(c)'
<1>1. CASE Stranger(c)
  BY <1>1 DEF Stranger, TypeOK, ConnInv, ServerInv, ClientInv, SentInv, static, history, Send
<1>2. CASE StrangerAnswers(c)
  <2>1. /\ UNCHANGED <<role, client, cstream, sstream, toServer>>
        /\ role[c] = "client" /\ server[c] = "routing" /\ client[c] # "new"
    BY <1>2 DEF StrangerAnswers, static, ConnInv, ClientInv
  <2>2. PICK m \in Responses : Answer(c, m, IF m \in Accepting THEN "serving" ELSE "over")
    BY <1>2 DEF StrangerAnswers
  <2>3. SentInv(c)'
    BY <2>1, <2>2, AnswerSent DEF ConnInv, ServerInv
  <2>4. ServerInv(c)' /\ ClientInv(c)'
    BY <2>1, <2>2 DEF Answer, ConnInv, ServerInv, ClientInv, TypeOK, Accepting
  <2>5. QED
    BY <2>3, <2>4 DEF ConnInv
<1>3. CASE Lose(c)
  <2>1. UNCHANGED <<role, client, server, cstream, sstream, answer>>
    BY <1>3 DEF Lose, static
  <2>2. CASE /\ \E i \in 1 .. Len(toServer[c]) : toServer' = [toServer EXCEPT ![c] = Taken(@, i)]
             /\ UNCHANGED toClient
    BY <2>1, <2>2 DEF ConnInv, SentInv, ServerInv, ClientInv, TypeOK
  <2>3. CASE /\ \E i \in 1 .. Len(toClient[c]) : toClient' = [toClient EXCEPT ![c] = Taken(@, i)]
             /\ UNCHANGED toServer
    <3>1. PICK i \in 1 .. Len(toClient[c]) : toClient' = [toClient EXCEPT ![c] = Taken(@, i)]
      BY <2>3
    <3>2. SentInv(c)'
      BY <2>1, <3>1, ReadSent DEF ConnInv
    <3>3. QED
      BY <2>1, <2>3, <3>2 DEF ConnInv, ServerInv, ClientInv
  <2>4. QED
    BY <1>3, <2>2, <2>3 DEF Lose
<1>4. QED
  BY <1>1, <1>2, <1>3 DEF Others

LEMMA NextHandshake == TypeOK /\ HandshakeInv /\ [Next]_vars => HandshakeInv'
<1>1. ASSUME HandshakeInv, UNCHANGED vars PROVE HandshakeInv'
  BY <1>1 DEF vars, static, HandshakeInv, ConnInv, SentInv, ServerInv, ClientInv
<1>2. ASSUME TypeOK, HandshakeInv, NEW c \in Conns, Client(c) \/ Server(c) \/ Others(c)
      PROVE  HandshakeInv'
  <2>1. ConnInv(c)'
    BY <1>2, ClientHandshake, ServerHandshake, OthersHandshake DEF HandshakeInv
  <2>2. ASSUME NEW d \in Conns \ {c} PROVE ConnInv(d)'
    <3>1. Conn(d)' = Conn(d)
      BY <1>2, ClientFramed, ServerFramed, OthersFramed
    <3>2. QED
      BY <1>2, <3>1 DEF Conn, HandshakeInv, ConnInv, SentInv, ServerInv, ClientInv
  <2>3. QED
    BY <2>1, <2>2 DEF HandshakeInv
<1>3. QED
  BY <1>1, <1>2 DEF Next

LEMMA HandshakeInvariant == Spec => [](TypeOK /\ HandshakeInv)
<1>1. Init => TypeOK /\ HandshakeInv
  BY InitType, InitHandshake
<1>2. TypeOK /\ HandshakeInv /\ [Next]_vars => (TypeOK /\ HandshakeInv)'
  BY NextType, NextHandshake
<1>3. QED
  BY <1>1, <1>2, PTL DEF Spec

LEMMA InvAnswered == HandshakeInv => ConnectedIsAnswered
BY DEF HandshakeInv, ConnInv, ServerInv, ClientInv, ConnectedIsAnswered, Accepting

\* A client is connected only after an answer of the server, whatever messages are lost
\* or late; of this program as the server a status 2xx says that the session is or was
\* connected, and no status that it has failed: the response header of a JSONSocket.
THEOREM ConnectedAnswered == Spec => []ConnectedIsAnswered
BY HandshakeInvariant, InvAnswered, PTL

-----------------------------------------------------------------------------
(* The handshake that Handshake promises: initial states and steps.        *)

\* What a step of a connection may do to the two sides: nothing, or what one action
\* of Handshake does to one of them.
SideStep(c) ==
  \/ UNCHANGED <<ClientSide(c), ServerSide(c)>>
  \/ /\ UNCHANGED ServerSide(c)
     /\ \/ ClientSide(c) = "idle" /\ ClientSide(c)' \in {"asking", "foreign"}
        \/ /\ ClientSide(c) = "asking" /\ ServerSide(c) \in {"agreed", "unclear"}
           /\ ClientSide(c)' = "connected"
        \/ ClientSide(c) \in {"asking", "connected"} /\ ClientSide(c)' = "failed"
  \/ /\ UNCHANGED ClientSide(c)
     /\ \/ ClientSide(c) # "idle" /\ ServerSide(c) = "idle" /\ ServerSide(c)' = "asked"
        \/ ServerSide(c) = "asked" /\ ServerSide(c)' \in {"agreed", "unclear"}
        \/ ServerSide(c) \in {"idle", "asked"} /\ ServerSide(c)' = "refused"

\* Such a step is a step of Handshake.
LEMMA SideStepPromised ==
  ASSUME NEW c \in Conns, SideStep(c),
         \A d \in Conns \ {c} : ClientSide(d)' = ClientSide(d) /\ ServerSide(d)' = ServerSide(d)
  PROVE  [Promise!Next]_(Promise!vars)
<1> DEFINE cs == [d \in Conns |-> ClientSide(d)]
           ss == [d \in Conns |-> ServerSide(d)]
<1>1. /\ cs' = [cs EXCEPT ![c] = ClientSide(c)'] /\ cs[c] = ClientSide(c)
      /\ ss' = [ss EXCEPT ![c] = ServerSide(c)'] /\ ss[c] = ServerSide(c)
  OBVIOUS
<1>2. UNCHANGED ClientSide(c) => cs' = cs
  OBVIOUS
<1>3. UNCHANGED ServerSide(c) => ss' = ss
  OBVIOUS
<1> HIDE DEF cs, ss
<1>4. CASE UNCHANGED <<ClientSide(c), ServerSide(c)>>
  BY <1>2, <1>3, <1>4 DEF Promise!vars, cs, ss
<1>5. CASE /\ UNCHANGED ServerSide(c)
           /\ \/ ClientSide(c) = "idle" /\ ClientSide(c)' \in {"asking", "foreign"}
              \/ /\ ClientSide(c) = "asking" /\ ServerSide(c) \in {"agreed", "unclear"}
                 /\ ClientSide(c)' = "connected"
              \/ ClientSide(c) \in {"asking", "connected"} /\ ClientSide(c)' = "failed"
  <2>1. Promise!Ask(c) \/ Promise!Enter(c) \/ Promise!Connect(c) \/ Promise!Fail(c)
    BY <1>1, <1>3, <1>5 DEF Promise!Ask, Promise!Enter, Promise!Connect, Promise!Fail, cs, ss
  <2>2. QED
    BY <2>1 DEF Promise!Next
<1>6. CASE /\ UNCHANGED ClientSide(c)
           /\ \/ ClientSide(c) # "idle" /\ ServerSide(c) = "idle" /\ ServerSide(c)' = "asked"
              \/ ServerSide(c) = "asked" /\ ServerSide(c)' \in {"agreed", "unclear"}
              \/ ServerSide(c) \in {"idle", "asked"} /\ ServerSide(c)' = "refused"
  <2>1. Promise!Hear(c) \/ Promise!Agree(c) \/ Promise!Mumble(c) \/ Promise!Refuse(c)
    BY <1>1, <1>2, <1>6
       DEF Promise!Hear, Promise!Agree, Promise!Mumble, Promise!Refuse, cs, ss
  <2>2. QED
    BY <2>1 DEF Promise!Next
<1>7. QED
  BY <1>4, <1>5, <1>6 DEF SideStep

LEMMA ClientSideStep ==
  ASSUME TypeOK, NEW c \in Conns, ConnInv(c), Client(c)
  PROVE  SideStep(c)
<1>1. CASE Open(c)
  BY <1>1 DEF Open, TypeOK, static, ConnInv, ServerInv, ClientInv, Accepting,
            SideStep, ClientSide, ServerSide
<1>2. CASE Request(c)
  BY <1>2 DEF Request, TypeOK, static, ConnInv, ServerInv, ClientInv, Accepting,
            SideStep, ClientSide, ServerSide
<1>3. CASE BadSpec(c)
  BY <1>3 DEF BadSpec, TypeOK, static, ConnInv, ServerInv, ClientInv, Accepting,
            SideStep, ClientSide, ServerSide
<1>4. CASE OpenFails(c)
  BY <1>4 DEF OpenFails, TypeOK, static, ConnInv, ServerInv, ClientInv, Accepting,
            SideStep, ClientSide, ServerSide
<1>5. CASE OpenTimeout(c)
  BY <1>5 DEF OpenTimeout, TypeOK, static, ConnInv, ServerInv, ClientInv, Accepting,
            SideStep, ClientSide, ServerSide
<1>6. CASE OpenLate(c)
  BY <1>6 DEF OpenLate, TypeOK, static, ConnInv, ServerInv, ClientInv, Accepting,
            SideStep, ClientSide, ServerSide
<1>7. CASE Response(c)
  <2>1. client[c] = "waiting" /\ UNCHANGED <<server, answer>>
    BY <1>7 DEF Response
  <2>2. PICK i \in Ready(toClient[c], c) :
          \/ /\ toClient[c][i] \in Accepting
             /\ client' = [client EXCEPT ![c] = "connected"]
          \/ client' = [client EXCEPT ![c] = "failed"]
    BY <1>7 DEF Response
  <2>3. toClient[c][i] \in Accepting => answer[c] \in Accepting
    BY ReadyInQueue, AcceptedIsAnswered DEF ConnInv
  <2>4. QED
    BY <2>1, <2>2, <2>3 DEF TypeOK, Accepting, SideStep, ClientSide, ServerSide
<1>8. CASE NoResponse(c)
  BY <1>8 DEF NoResponse, TypeOK, static, ConnInv, ServerInv, ClientInv, Accepting,
            SideStep, ClientSide, ServerSide
<1>9. CASE Pipe(c)
  BY <1>9 DEF Pipe, TypeOK, static, ConnInv, ServerInv, ClientInv, Accepting,
            SideStep, ClientSide, ServerSide
<1>10. CASE Payload(c)
  BY <1>10 DEF Payload, SideStep, ClientSide, ServerSide
<1>11. CASE ClientEnds(c)
  BY <1>11 DEF ClientEnds, TypeOK, static, ConnInv, ServerInv, ClientInv, Accepting,
            SideStep, ClientSide, ServerSide
<1>12. QED
  BY <1>1, <1>2, <1>3, <1>4, <1>5, <1>6, <1>7, <1>8, <1>9, <1>10, <1>11 DEF Client

LEMMA ServerSideStep ==
  ASSUME TypeOK, NEW c \in Conns, ConnInv(c), Server(c)
  PROVE  SideStep(c)
<1>1. CASE Accept(c)
  BY <1>1 DEF Accept, TypeOK, static, ConnInv, ServerInv, ClientInv, Accepting,
            SideStep, ClientSide, ServerSide
<1>2. CASE Header(c)
  BY <1>2 DEF Header, TypeOK, static, ConnInv, ServerInv, ClientInv, Accepting,
            SideStep, ClientSide, ServerSide, Answer
<1>3. CASE Routed(c)
  BY <1>3 DEF Routed, TypeOK, static, ConnInv, ServerInv, ClientInv, Accepting,
            SideStep, ClientSide, ServerSide, Answer
<1>4. CASE SessionFails(c)
  <2>1. server[c] \in {"routing", "serving"} /\ UNCHANGED client
    BY <1>4 DEF SessionFails
  <2>2. CASE sstream[c] = "open"
    <3>1. PICK m \in ErrorHeaders : Answer(c, m, "over")
      BY <1>4, <2>2 DEF SessionFails
    <3>2. QED
      BY <2>1, <3>1 DEF Answer, TypeOK, ErrorHeaders, Accepting, ConnInv, ServerInv,
                        SideStep, ClientSide, ServerSide
  <2>3. CASE sstream[c] # "open"
    BY <1>4, <2>1, <2>3 DEF SessionFails, TypeOK, Accepting, ConnInv, ServerInv,
                             SideStep, ClientSide, ServerSide
  <2>4. QED
    BY <2>2, <2>3
<1>5. CASE SessionEnds(c)
  BY <1>5 DEF SessionEnds, TypeOK, static, ConnInv, ServerInv, ClientInv, Accepting,
            SideStep, ClientSide, ServerSide
<1>6. CASE Write(c)
  BY <1>6 DEF Write, SideStep, ClientSide, ServerSide
<1>7. CASE HangUp(c)
  BY <1>7 DEF HangUp, TypeOK, static, ConnInv, ServerInv, ClientInv, Accepting,
            SideStep, ClientSide, ServerSide
<1>8. CASE Gone(c)
  BY <1>8 DEF Gone, TypeOK, static, ConnInv, ServerInv, ClientInv, Accepting,
            SideStep, ClientSide, ServerSide, ClientRuns
<1>9. QED
  BY <1>1, <1>2, <1>3, <1>4, <1>5, <1>6, <1>7, <1>8 DEF Server

LEMMA OthersSideStep ==
  ASSUME TypeOK, NEW c \in Conns, ConnInv(c), Others(c)
  PROVE  SideStep(c)
<1>1. CASE Stranger(c)
  BY <1>1 DEF Stranger, TypeOK, static, ConnInv, ServerInv, ClientInv, Accepting,
            SideStep, ClientSide, ServerSide
<1>2. CASE StrangerAnswers(c)
  <2>1. server[c] = "routing" /\ UNCHANGED client
    BY <1>2 DEF StrangerAnswers
  <2>2. PICK m \in Responses : Answer(c, m, IF m \in Accepting THEN "serving" ELSE "over")
    BY <1>2 DEF StrangerAnswers
  <2>3. QED
    BY <2>1, <2>2 DEF Answer, TypeOK, Responses, Accepting, ConnInv, ServerInv,
                      SideStep, ClientSide, ServerSide
<1>3. CASE Lose(c)
  BY <1>3 DEF Lose, SideStep, ClientSide, ServerSide
<1>4. QED
  BY <1>1, <1>2, <1>3 DEF Others

LEMMA NextPromise == TypeOK /\ HandshakeInv /\ [Next]_vars => [Promise!Next]_(Promise!vars)
<1>1. ASSUME UNCHANGED vars PROVE [Promise!Next]_(Promise!vars)
  BY <1>1 DEF vars, static, Promise!vars, ClientSide, ServerSide
<1>2. ASSUME TypeOK, HandshakeInv, NEW c \in Conns, Client(c) \/ Server(c) \/ Others(c)
      PROVE  [Promise!Next]_(Promise!vars)
  <2>1. SideStep(c)
    BY <1>2, ClientSideStep, ServerSideStep, OthersSideStep DEF HandshakeInv
  <2>2. ASSUME NEW d \in Conns \ {c}
        PROVE  ClientSide(d)' = ClientSide(d) /\ ServerSide(d)' = ServerSide(d)
    <3>1. Conn(d)' = Conn(d)
      BY <1>2, ClientFramed, ServerFramed, OthersFramed
    <3>2. QED
      BY <3>1 DEF Conn, ClientSide, ServerSide
  <2>3. QED
    BY <2>1, <2>2, SideStepPromised
<1>3. QED
  BY <1>1, <1>2 DEF Next

LEMMA InitPromise == Init => Promise!Init
BY DEF Init, Promise!Init, ClientSide, ServerSide, Accepting

\* Messages, timeouts and sockets keep the safety part of the handshake that
\* ImplementsHandshake checks: each side takes only the steps that Handshake has, and a
\* client connects only to a server that agrees or has answered without a status.
THEOREM KeepsHandshake == Spec => Promise!Init /\ [][Promise!Next]_(Promise!vars)
<1>1. TypeOK /\ HandshakeInv /\ [Next]_vars => [Promise!Next]_(Promise!vars)
  BY NextPromise
<1>2. QED
  BY <1>1, InitPromise, HandshakeInvariant, PTL DEF Spec

-----------------------------------------------------------------------------
(* Streams that are left open: a socket that opens too late, and null.      *)

\* A socket that is opening has sent nothing, and the server does not know of it.
OpeningInv(c) ==
  /\ client[c] = "opening" => cstream[c] = "opening"
  /\ cstream[c] = "opening" => toServer[c] = <<>> /\ server[c] = "none"
  /\ server[c] = "none" => sstream[c] = "none"

\* A response that is no object is the first answer of the server, or there is none.
NullInv(c) == answer[c] # "null" => toClient[c] \in Seq(Responses \ {"null"})

\* What FailedIsClosed says of a connection.
ClosedInv(c) ==
  client[c] = "failed" /\ cstream[c] = "open" =>
    \/ answer[c] = "null"
    \/ toServer[c] = <<>> /\ (server[c] \in {"none", "awaiting"} \/ sstream[c] = "closed")

LeftInv(c) == OpeningInv(c) /\ NullInv(c) /\ ClosedInv(c)

\* An answer other than null is the first to be sent, or comes after it.
LEMMA AnswerNull ==
  ASSUME TypeOK, NEW c \in Conns, NullInv(c), NEW m \in Responses, NEW state,
         Answer(c, m, state), m = "null" => answer[c] = "none"
  PROVE  NullInv(c)' /\ (answer[c] = "null" => answer'[c] = "null")
<1>1. toClient'[c] = Append(toClient[c], m)
  BY DEF Answer, Send, TypeOK
<1>2. answer'[c] = IF answer[c] = "none" THEN m ELSE answer[c]
  BY DEF Answer, TypeOK
<1>3. ASSUME answer'[c] # "null" PROVE toClient'[c] \in Seq(Responses \ {"null"})
  <2>1. m # "null" /\ toClient[c] \in Seq(Responses \ {"null"})
    BY <1>2, <1>3 DEF NullInv
  <2>2. QED
    BY <1>1, <2>1, AppendProperties
<1>4. QED
  BY <1>2, <1>3 DEF NullInv

LEMMA ReadNull ==
  ASSUME TypeOK, NEW c \in Conns, NullInv(c), NEW i \in 1 .. Len(toClient[c]),
         toClient' = [toClient EXCEPT ![c] = Taken(@, i)], answer' = answer
  PROVE  NullInv(c)' /\ (toClient[c][i] = "null" => answer[c] = "null")
<1>1. toClient'[c] = Taken(toClient[c], i)
  BY DEF TypeOK
<1>2. ASSUME answer[c] # "null"
      PROVE  toClient'[c] \in Seq(Responses \ {"null"}) /\ toClient[c][i] # "null"
  <2>1. toClient[c] \in Seq(Responses \ {"null"})
    BY <1>2 DEF NullInv
  <2>2. QED
    BY <1>1, <2>1, TakenInSeq, ElementOfSeq
<1>3. QED
  BY <1>2 DEF NullInv

LEMMA ClientLeft ==
  ASSUME TypeOK, NEW c \in Conns, ConnInv(c), LeftInv(c), Client(c)
  PROVE  LeftInv(c)'
<1> USE DEF LeftInv, OpeningInv, ClosedInv
<1>1. CASE Open(c)
  BY <1>1 DEF Open, TypeOK, ConnInv, ClientInv, NullInv
<1>2. CASE Request(c)
  BY <1>2 DEF Request, TypeOK, NullInv
<1>3. CASE BadSpec(c)
  BY <1>3 DEF BadSpec, TypeOK, NullInv
<1>4. CASE OpenFails(c)
  BY <1>4 DEF OpenFails, TypeOK, NullInv
<1>5. CASE OpenTimeout(c)
  BY <1>5 DEF OpenTimeout, TypeOK, NullInv
<1>6. CASE OpenLate(c)
  BY <1>6 DEF OpenLate, TypeOK, NullInv
<1>7. CASE Response(c)
  <2>1. PICK i \in Ready(toClient[c], c) :
          /\ toClient' = [toClient EXCEPT ![c] = Taken(@, i)]
          /\ \/ client' = [client EXCEPT ![c] = "connected"] /\ UNCHANGED cstream
             \/ /\ client' = [client EXCEPT ![c] = "failed"]
                /\ cstream' = IF toClient[c][i] = "null" THEN cstream
                              ELSE [cstream EXCEPT ![c] = "closed"]
    BY <1>7 DEF Response
  <2>2. UNCHANGED <<server, sstream, toServer, answer>>
    BY <1>7 DEF Response
  <2>3. NullInv(c)' /\ (toClient[c][i] = "null" => answer[c] = "null")
    BY <2>1, <2>2, ReadyInQueue, ReadNull
  <2>4. QED
    BY <2>1, <2>2, <2>3 DEF TypeOK
<1>8. CASE NoResponse(c)
  BY <1>8 DEF NoResponse, TypeOK, NullInv
<1>9. CASE Pipe(c)
  BY <1>9 DEF Pipe, TypeOK, NullInv
<1>10. CASE Payload(c)
  <2>1. PICK i \in Ready(toClient[c], c) : toClient' = [toClient EXCEPT ![c] = Taken(@, i)]
    BY <1>10 DEF Payload
  <2>2. UNCHANGED <<client, server, cstream, sstream, toServer, answer>>
    BY <1>10 DEF Payload
  <2>3. NullInv(c)'
    BY <2>1, <2>2, ReadyInQueue, ReadNull
  <2>4. QED
    BY <2>2, <2>3
<1>11. CASE ClientEnds(c)
  BY <1>11 DEF ClientEnds, TypeOK, NullInv
<1>12. QED
  BY <1>1, <1>2, <1>3, <1>4, <1>5, <1>6, <1>7, <1>8, <1>9, <1>10, <1>11 DEF Client

LEMMA ServerLeft ==
  ASSUME TypeOK, NEW c \in Conns, ConnInv(c), LeftInv(c), Server(c)
  PROVE  LeftInv(c)'
<1> USE DEF LeftInv, OpeningInv, ClosedInv
<1>1. CASE Accept(c)
  BY <1>1 DEF Accept, TypeOK, NullInv
<1>2. CASE Header(c)
  <2>1. PICK i \in Ready(toServer[c], c) :
          \/ server' = [server EXCEPT ![c] = "routing"] /\ UNCHANGED <<sstream, toClient, answer>>
          \/ /\ Answer(c, "refused", "over")
             /\ sstream' = [sstream EXCEPT ![c] = "closed"]
          \/ UNCHANGED <<server, sstream, toClient, answer>>
    BY <1>2 DEF Header
  <2>2. UNCHANGED <<client, cstream>> /\ server[c] = "awaiting" /\ toServer[c] # <<>>
    BY <1>2 DEF Header, Ready
  <2>3. CASE Answer(c, "refused", "over")
    <3>1. NullInv(c)' /\ (answer[c] = "null" => answer'[c] = "null")
      BY <2>3, AnswerNull DEF Responses
    <3>2. QED
      BY <2>1, <2>2, <2>3, <3>1 DEF Answer, TypeOK
  <2>4. CASE UNCHANGED <<sstream, toClient, answer>> /\ server' \in {server, [server EXCEPT ![c] = "routing"]}
    BY <2>2, <2>4 DEF TypeOK, NullInv
  <2>5. QED
    BY <2>1, <2>3, <2>4
<1>3. CASE Routed(c)
  <2>1. UNCHANGED <<client, cstream, sstream, toServer>> /\ server[c] = "routing"
    BY <1>3 DEF Routed
  <2>2. CASE sstream[c] = "open"
    <3>1. Answer(c, "ok", "serving")
      BY <1>3, <2>2 DEF Routed
    <3>2. NullInv(c)' /\ (answer[c] = "null" => answer'[c] = "null")
      BY <3>1, AnswerNull DEF Responses
    <3>3. QED
      BY <2>1, <2>2, <3>1, <3>2 DEF Answer, TypeOK
  <2>3. CASE sstream[c] # "open"
    BY <1>3, <2>1, <2>3 DEF Routed, TypeOK, NullInv
  <2>4. QED
    BY <2>2, <2>3
<1>4. CASE SessionFails(c)
  <2>1. /\ UNCHANGED <<client, cstream, toServer>> /\ server[c] \in {"routing", "serving"}
        /\ sstream' = [sstream EXCEPT ![c] = "closed"]
    BY <1>4 DEF SessionFails
  <2>2. CASE sstream[c] = "open"
    <3>1. PICK m \in ErrorHeaders : Answer(c, m, "over")
      BY <1>4, <2>2 DEF SessionFails
    <3>2. NullInv(c)' /\ (answer[c] = "null" => answer'[c] = "null")
      BY <3>1, AnswerNull DEF Responses, ErrorHeaders
    <3>3. QED
      BY <2>1, <3>1, <3>2 DEF Answer, TypeOK
  <2>3. CASE sstream[c] # "open"
    BY <1>4, <2>1, <2>3 DEF SessionFails, TypeOK, NullInv
  <2>4. QED
    BY <2>2, <2>3
<1>5. CASE SessionEnds(c)
  BY <1>5 DEF SessionEnds, TypeOK, NullInv
<1>6. CASE Write(c)
  <2>1. UNCHANGED <<client, server, cstream, sstream, toServer, answer>>
    BY <1>6 DEF Write
  <2>2. toClient'[c] = Append(toClient[c], "data")
    BY <1>6 DEF Write, Send, TypeOK
  <2>3. NullInv(c)'
    BY <2>1, <2>2, AppendProperties DEF NullInv, Responses
  <2>4. QED
    BY <2>1, <2>3
<1>7. CASE HangUp(c)
  BY <1>7 DEF HangUp, TypeOK, NullInv
<1>8. CASE Gone(c)
  BY <1>8 DEF Gone, TypeOK, NullInv
<1>9. QED
  BY <1>1, <1>2, <1>3, <1>4, <1>5, <1>6, <1>7, <1>8 DEF Server

LEMMA OthersLeft ==
  ASSUME TypeOK, NEW c \in Conns, ConnInv(c), LeftInv(c), Others(c)
  PROVE  LeftInv(c)'
<1> USE DEF LeftInv, OpeningInv, ClosedInv
<1>1. CASE Stranger(c)
  BY <1>1 DEF Stranger, TypeOK, ConnInv, ClientInv, NullInv
<1>2. CASE StrangerAnswers(c)
  <2>1. UNCHANGED <<client, cstream, sstream, toServer>> /\ server[c] = "routing" /\ sstream[c] = "open"
    BY <1>2 DEF StrangerAnswers
  <2>2. PICK m \in Responses : Answer(c, m, IF m \in Accepting THEN "serving" ELSE "over")
    BY <1>2 DEF StrangerAnswers
  <2>3. NullInv(c)' /\ (answer[c] = "null" => answer'[c] = "null")
    BY <2>1, <2>2, AnswerNull DEF ConnInv, ServerInv
  <2>4. QED
    BY <2>1, <2>2, <2>3 DEF Answer, TypeOK
<1>3. CASE Lose(c)
  <2>1. UNCHANGED <<client, server, cstream, sstream, answer>>
    BY <1>3 DEF Lose
  <2>2. CASE /\ \E i \in 1 .. Len(toServer[c]) : toServer' = [toServer EXCEPT ![c] = Taken(@, i)]
             /\ UNCHANGED toClient
    <3>1. toServer[c] # <<>>
      BY <2>2
    <3>2. QED
      BY <2>1, <2>2, <3>1 DEF NullInv
  <2>3. CASE /\ \E i \in 1 .. Len(toClient[c]) : toClient' = [toClient EXCEPT ![c] = Taken(@, i)]
             /\ UNCHANGED toServer
    <3>1. NullInv(c)'
      BY <2>1, <2>3, ReadNull
    <3>2. QED
      BY <2>1, <2>3, <3>1
  <2>4. QED
    BY <1>3, <2>2, <2>3 DEF Lose
<1>4. QED
  BY <1>1, <1>2, <1>3 DEF Others

LEMMA NextLeft ==
  TypeOK /\ HandshakeInv /\ (\A c \in Conns : LeftInv(c)) /\ [Next]_vars
    => \A c \in Conns : LeftInv(c)'
<1>1. ASSUME \A c \in Conns : LeftInv(c), UNCHANGED vars
      PROVE  \A c \in Conns : LeftInv(c)'
  BY <1>1 DEF vars, static, LeftInv, OpeningInv, NullInv, ClosedInv
<1>2. ASSUME TypeOK, HandshakeInv, \A c \in Conns : LeftInv(c),
             NEW c \in Conns, Client(c) \/ Server(c) \/ Others(c)
      PROVE  \A d \in Conns : LeftInv(d)'
  <2>1. LeftInv(c)'
    BY <1>2, ClientLeft, ServerLeft, OthersLeft DEF HandshakeInv
  <2>2. ASSUME NEW d \in Conns \ {c} PROVE LeftInv(d)'
    <3>1. Conn(d)' = Conn(d)
      BY <1>2, ClientFramed, ServerFramed, OthersFramed
    <3>2. QED
      BY <1>2, <3>1 DEF Conn, LeftInv, OpeningInv, NullInv, ClosedInv
  <2>3. QED
    BY <2>1, <2>2
<1>3. QED
  BY <1>1, <1>2 DEF Next

\* A client that gives up leaves no stream open but one that opens after the timeout,
\* which has asked for nothing, and one whose response was null: what transport.stream()
\* destroys, and what it forgets, for any number of connections and lost messages.
THEOREM FailedStreamsClosed == Spec => []FailedIsClosed
<1> DEFINE Inv == \A c \in Conns : LeftInv(c)
<1>1. Init => Inv
  <2>1. <<>> \in Seq(Responses \ {"null"})
    BY EmptySeq
  <2>2. QED
    BY <2>1 DEF Init, LeftInv, OpeningInv, NullInv, ClosedInv
<1>2. TypeOK /\ HandshakeInv /\ Inv /\ [Next]_vars => Inv'
  BY NextLeft
<1>3. Inv => FailedIsClosed
  BY DEF LeftInv, ClosedInv, FailedIsClosed
<1>4. QED
  BY <1>1, <1>2, <1>3, HandshakeInvariant, PTL DEF Spec

-----------------------------------------------------------------------------
(* The payload, when this program is both sides.                           *)

\* What this program as the server sends.
Sent == ErrorHeaders \union {"data"}

\* From position n on, the messages on their way are payload, but for the response that
\* error() writes last.
DataFrom(c, n) ==
  \A i \in n .. Len(toClient[c]) :
    toClient[c][i] # "data" => server[c] = "over" /\ i = Len(toClient[c])

\* In order: the answer, which the wait for it takes, before the payload.
OrderInv(c) ==
  /\ answer[c] = "none" => toClient[c] = <<>>
  /\ client[c] \in {"new", "opening", "waiting"} => DataFrom(c, 2)
  /\ client[c] \in {"connected", "piped"} => DataFrom(c, 1)

\* What the session of the client has got ends with a response if it has any, and then
\* nothing comes after it.
GotInv(c) ==
  /\ client[c] \notin {"piped", "failed"} => got[c] = <<>>
  /\ \A i \in 1 .. Len(got[c]) : got[c][i] # "data" =>
       /\ i = Len(got[c])
       /\ client[c] = "piped" => toClient[c] = <<>> /\ server[c] = "over"

PayloadInv(c) ==
  role[c] = "both" =>
    /\ toClient[c] \in Seq(Sent) /\ got[c] \in Seq(Sent)
    /\ ~Datagrams(c) => OrderInv(c) /\ GotInv(c)

\* Messages that are taken in order leave the rest of the queue.
LEMMA TakenFirst ==
  ASSUME NEW S, NEW q \in Seq(S), 1 \in 1 .. Len(q)
  PROVE  /\ Len(Taken(q, 1)) = Len(q) - 1
         /\ \A i \in 1 .. Len(q) - 1 : Taken(q, 1)[i] = q[i + 1]
<1>1. Len(q) \in Nat
  BY LenProperties
<1>2. Taken(q, 1) = SubSeq(q, 1, 0) \o SubSeq(q, 2, Len(q))
  BY DEF Taken
<1>3. SubSeq(q, 1, 0) = <<>>
  BY <1>1, SubSeqProperties, EmptySeq
<1>4. PICK r : r = SubSeq(q, 2, Len(q))
  OBVIOUS
<1>5. /\ r \in Seq(S)
      /\ Len(r) = IF 2 <= Len(q) THEN Len(q) - 2 + 1 ELSE 0
      /\ \A i \in 1 .. Len(q) - 2 + 1 : r[i] = q[2 + i - 1]
  <2>1. 2 \in Int /\ Len(q) \in Int /\ \A i \in 2 .. Len(q) : q[i] \in S
    BY <1>1, ElementOfSeq
  <2>2. QED
    BY <1>4, <2>1, SubSeqProperties
<1>6. Len(r) = Len(q) - 1
  <2>1. PICK n \in Nat : n = Len(q)
    BY <1>1
  <2>2. PICK m : m = Len(r)
    OBVIOUS
  <2>3. m = IF 2 <= n THEN n - 2 + 1 ELSE 0
    BY <1>5, <2>1, <2>2
  <2>4. 1 <= n
    BY <2>1
  <2>5. m = n - 1
    BY <2>1, <2>3, <2>4
  <2>6. QED
    BY <2>1, <2>2, <2>5
<1>7. ASSUME NEW i \in 1 .. Len(q) - 1 PROVE r[i] = q[i + 1]
  <2>1. i \in 1 .. Len(q) - 2 + 1 /\ 2 + i - 1 = i + 1
    BY <1>1
  <2>2. r[i] = q[2 + i - 1]
    BY <1>5, <2>1
  <2>3. QED
    BY <2>1, <2>2
<1>8. Taken(q, 1) = r
  BY <1>2, <1>3, <1>4, <1>5, ConcatEmptySeq
<1>9. QED
  BY <1>6, <1>7, <1>8

\* Messages after the n-th are data after the first is taken, if those after the next
\* were before.
LEMMA ReadData ==
  ASSUME TypeOK, NEW c \in Conns, NEW n \in {1, 2}, DataFrom(c, n), 1 \in 1 .. Len(toClient[c]),
         toClient' = [toClient EXCEPT ![c] = Taken(@, 1)], server' = server
  PROVE  DataFrom(c, 1)'
<1>1. toClient[c] \in Seq(Responses) /\ toClient'[c] = Taken(toClient[c], 1)
  BY DEF TypeOK
<1>2. /\ Len(toClient'[c]) = Len(toClient[c]) - 1 /\ Len(toClient[c]) \in Nat
      /\ \A i \in 1 .. Len(toClient[c]) - 1 : toClient'[c][i] = toClient[c][i + 1]
  BY <1>1, TakenFirst, LenProperties
<1>3. ASSUME NEW i \in 1 .. Len(toClient'[c]), toClient'[c][i] # "data"
      PROVE  server'[c] = "over" /\ i = Len(toClient'[c])
  <2>1. i + 1 \in n .. Len(toClient[c]) /\ toClient[c][i + 1] # "data"
    BY <1>2, <1>3
  <2>2. server[c] = "over" /\ i + 1 = Len(toClient[c])
    BY <2>1 DEF DataFrom
  <2>3. QED
    BY <1>2, <2>2
<1>4. QED
  BY <1>3 DEF DataFrom

\* A server that is not over sends data after data, or its last message.
LEMMA SendData ==
  ASSUME TypeOK, NEW c \in Conns, NEW n \in {1, 2}, DataFrom(c, n), server[c] # "over", NEW m,
         toClient' = Send(toClient, c, m), m = "data" \/ server'[c] = "over"
  PROVE  DataFrom(c, n)'
<1>1. toClient[c] \in Seq(Responses) /\ toClient'[c] = Append(toClient[c], m)
  BY DEF TypeOK, Send
<1>2. /\ Len(toClient'[c]) = Len(toClient[c]) + 1 /\ Len(toClient[c]) \in Nat
      /\ \A i \in 1 .. Len(toClient[c]) : toClient'[c][i] = toClient[c][i]
      /\ toClient'[c][Len(toClient[c]) + 1] = m
  BY <1>1, AppendProperties, LenProperties
<1>3. ASSUME NEW i \in n .. Len(toClient'[c]), toClient'[c][i] # "data"
      PROVE  server'[c] = "over" /\ i = Len(toClient'[c])
  <2>1. i \in n .. Len(toClient[c]) \/ i = Len(toClient[c]) + 1
    BY <1>2
  <2>2. i \notin n .. Len(toClient[c])
    BY <1>2, <1>3 DEF DataFrom
  <2>3. QED
    BY <1>2, <1>3, <2>1, <2>2
<1>4. QED
  BY <1>3 DEF DataFrom

\* The queue holds no more than the answer to a client that waits for it.
LEMMA FirstAnswer ==
  ASSUME TypeOK, NEW c \in Conns, NEW m, toClient[c] = <<>>, toClient' = Send(toClient, c, m)
  PROVE  DataFrom(c, 2)'
<1>1. toClient'[c] = Append(<<>>, m)
  BY DEF TypeOK, Send
<1>2. Len(toClient'[c]) = 1
  BY <1>1
<1>3. QED
  BY <1>2 DEF DataFrom

\* Steps that leave the messages and what the session has got alone, and after which a
\* server that was over still is.
LEMMA QuietPayload ==
  ASSUME TypeOK, NEW c \in Conns, PayloadInv(c),
         UNCHANGED <<static, toClient, answer, got>>,
         server[c] = "over" => server'[c] = "over",
         \/ client'[c] = "failed"
         \/ client'[c] = client[c]
         \/ {client[c], client'[c]} \subseteq {"new", "opening", "waiting"}
         \/ client[c] = "connected" /\ client'[c] = "piped"
  PROVE  PayloadInv(c)'
<1>1. role' = role /\ transport' = transport
  BY DEF static
<1>2. \A n \in {1, 2} : DataFrom(c, n) => DataFrom(c, n)'
  BY DEF DataFrom
<1>3. OrderInv(c) => OrderInv(c)'
  BY <1>2 DEF OrderInv
<1>4. ASSUME GotInv(c) PROVE GotInv(c)'
  <2>1. CASE client'[c] = "piped" /\ client[c] # "piped"
    <3>1. got'[c] = <<>> /\ Len(<<>>) = 0
      BY <1>4, <2>1 DEF GotInv
    <3>2. QED
      BY <2>1, <3>1 DEF GotInv
  <2>2. CASE client'[c] = "piped" => client[c] = "piped"
    BY <1>4, <2>2 DEF GotInv
  <2>3. QED
    BY <2>1, <2>2
<1>5. Datagrams(c)' = Datagrams(c)
  BY <1>1 DEF Datagrams
<1>6. QED
  BY <1>1, <1>3, <1>4, <1>5 DEF PayloadInv

LEMMA ClientPayload ==
  ASSUME TypeOK, NEW c \in Conns, ConnInv(c), PayloadInv(c), Client(c)
  PROVE  PayloadInv(c)'
<1>1. CASE Open(c)
  BY <1>1, QuietPayload DEF Open, TypeOK, history
<1>2. CASE Request(c)
  BY <1>2, QuietPayload DEF Request, TypeOK, history
<1>3. CASE BadSpec(c)
  BY <1>3, QuietPayload DEF BadSpec, TypeOK, history
<1>4. CASE OpenFails(c)
  BY <1>4, QuietPayload DEF OpenFails, TypeOK, history
<1>5. CASE OpenTimeout(c)
  BY <1>5, QuietPayload DEF OpenTimeout, TypeOK, history
<1>6. CASE OpenLate(c)
  BY <1>6, QuietPayload DEF OpenLate, TypeOK, history
<1>7. CASE Response(c)
  <2>1. PICK i \in Ready(toClient[c], c) :
          /\ toClient' = [toClient EXCEPT ![c] = Taken(@, i)]
          /\ client' \in {[client EXCEPT ![c] = "connected"], [client EXCEPT ![c] = "failed"]}
    BY <1>7 DEF Response
  <2>2. /\ UNCHANGED <<static, server, answer, got>> /\ client[c] = "waiting"
        /\ i \in 1 .. Len(toClient[c]) /\ client'[c] \in {"connected", "failed"}
    BY <1>7, <2>1, ReadyInQueue DEF Response, history, TypeOK
  <2>3. SUFFICES ASSUME role[c] = "both" PROVE PayloadInv(c)'
    BY <2>2 DEF PayloadInv, static
  <2>4. toClient'[c] = Taken(toClient[c], i) /\ Taken(toClient[c], i) \in Seq(Sent)
    BY <2>1, <2>2, <2>3, TakenInSeq DEF PayloadInv, TypeOK
  <2>5. ASSUME ~Datagrams(c) PROVE OrderInv(c)' /\ GotInv(c)'
    <3>1. i = 1
      BY <2>5 DEF Ready
    <3>2. OrderInv(c) /\ GotInv(c) /\ DataFrom(c, 2)
      BY <2>2, <2>3, <2>5 DEF PayloadInv, OrderInv
    <3>3. DataFrom(c, 1)'
      BY <2>1, <2>2, <3>1, <3>2, ReadData
    <3>4. answer[c] # "none"
      BY <2>2, <3>2 DEF OrderInv
    <3>5. got[c] = <<>>
      BY <2>2, <3>2 DEF GotInv
    <3>6. OrderInv(c)'
      BY <2>2, <3>3, <3>4 DEF OrderInv
    <3>7. GotInv(c)'
      BY <2>2, <3>5 DEF GotInv
    <3>8. QED
      BY <3>6, <3>7
  <2>6. Datagrams(c)' = Datagrams(c)
    BY <2>2 DEF Datagrams, static
  <2>7. QED
    BY <2>2, <2>3, <2>4, <2>5, <2>6 DEF PayloadInv
<1>8. CASE NoResponse(c)
  BY <1>8, QuietPayload DEF NoResponse, TypeOK, history
<1>9. CASE Pipe(c)
  BY <1>9, QuietPayload DEF Pipe, TypeOK, history
<1>10. CASE Payload(c)
  <2>1. PICK i \in Ready(toClient[c], c) :
          /\ toClient' = [toClient EXCEPT ![c] = Taken(@, i)]
          /\ got' = IF client[c] = "piped" THEN Send(got, c, toClient[c][i]) ELSE got
    BY <1>10 DEF Payload
  <2>2. /\ UNCHANGED <<static, client, server, answer>> /\ client[c] \in {"connected", "piped"}
        /\ i \in 1 .. Len(toClient[c]) /\ Len(toClient[c]) \in Nat /\ toClient[c] # <<>>
        /\ toClient[c] \in Seq(Responses)
    BY <1>10, ReadyInQueue, LenProperties DEF Payload, TypeOK
  <2>3. SUFFICES ASSUME role[c] = "both" PROVE PayloadInv(c)'
    BY <2>2 DEF PayloadInv, static
  <2>4. /\ toClient'[c] = Taken(toClient[c], i) /\ Taken(toClient[c], i) \in Seq(Sent)
        /\ toClient[c][i] \in Sent
    BY <2>1, <2>2, <2>3, TakenInSeq, ElementOfSeq DEF PayloadInv, TypeOK
  <2>5. CASE client[c] = "connected"
    <3>1. got' = got
      BY <2>1, <2>5
    <3>2. ASSUME ~Datagrams(c) PROVE OrderInv(c)' /\ GotInv(c)'
      <4>1. OrderInv(c) /\ GotInv(c) /\ DataFrom(c, 1) /\ i = 1
        BY <2>2, <2>3, <3>2 DEF PayloadInv, OrderInv, Ready
      <4>2. DataFrom(c, 1)'
        BY <2>1, <2>2, <4>1, ReadData
      <4>3. QED
        BY <2>2, <2>5, <3>1, <4>1, <4>2 DEF OrderInv, GotInv
    <3>3. QED
      BY <2>2, <2>3, <2>4, <3>1, <3>2 DEF PayloadInv, Datagrams, static
  <2>6. CASE client[c] = "piped"
    <3>1. got'[c] = Append(got[c], toClient[c][i]) /\ got[c] \in Seq(Sent)
      BY <2>1, <2>3, <2>6 DEF Send, TypeOK, PayloadInv
    <3>2. /\ got'[c] \in Seq(Sent) /\ Len(got'[c]) = Len(got[c]) + 1 /\ Len(got[c]) \in Nat
          /\ \A j \in 1 .. Len(got[c]) : got'[c][j] = got[c][j]
          /\ got'[c][Len(got[c]) + 1] = toClient[c][i]
      BY <2>4, <3>1, AppendProperties, LenProperties
    <3>3. ASSUME ~Datagrams(c) PROVE OrderInv(c)' /\ GotInv(c)'
      <4>1. OrderInv(c) /\ GotInv(c) /\ DataFrom(c, 1) /\ i = 1
        BY <2>2, <2>3, <3>3 DEF PayloadInv, OrderInv, Ready
      <4>2. DataFrom(c, 1)'
        BY <2>1, <2>2, <4>1, ReadData
      <4>3. \A j \in 1 .. Len(got[c]) : got[c][j] = "data"
        BY <2>2, <2>6, <4>1 DEF GotInv
      <4>4. ASSUME toClient[c][1] # "data" PROVE server[c] = "over" /\ toClient'[c] = <<>>
        <5>1. server[c] = "over" /\ Len(toClient[c]) = 1
          BY <2>2, <4>1, <4>4 DEF DataFrom
        <5>2. Len(toClient'[c]) = 0 /\ toClient'[c] \in Seq(Sent)
          BY <2>2, <2>4, <4>1, <5>1, TakenFirst
        <5>3. QED
          BY <5>1, <5>2, EmptySeq
      <4>5. GotInv(c)'
        <5>1. ASSUME NEW j \in 1 .. Len(got'[c]), got'[c][j] # "data"
              PROVE  j = Len(got'[c]) /\ toClient'[c] = <<>> /\ server'[c] = "over"
          <6>1. j = Len(got[c]) + 1
            BY <3>2, <4>3, <5>1
          <6>2. QED
            BY <2>2, <3>2, <4>1, <4>4, <5>1, <6>1
        <5>2. QED
          BY <2>2, <2>6, <5>1 DEF GotInv
      <4>6. OrderInv(c)'
        BY <2>2, <2>6, <4>1, <4>2 DEF OrderInv
      <4>7. QED
        BY <4>5, <4>6
    <3>4. QED
      BY <2>2, <2>3, <2>4, <3>2, <3>3 DEF PayloadInv, Datagrams, static
  <2>7. QED
    BY <2>2, <2>5, <2>6
<1>11. CASE ClientEnds(c)
  BY <1>11, QuietPayload DEF ClientEnds, TypeOK, history
<1>12. QED
  BY <1>1, <1>2, <1>3, <1>4, <1>5, <1>6, <1>7, <1>8, <1>9, <1>10, <1>11 DEF Client

\* The server's answer to the header, and the response that ends a session.
LEMMA AnswerPayload ==
  ASSUME TypeOK, NEW c \in Conns, ConnInv(c), PayloadInv(c), UNCHANGED <<static, client, got>>,
         NEW m \in ErrorHeaders, NEW state \in {"serving", "over"}, Answer(c, m, state),
         answer[c] = "none" \/ (server[c] = "serving" /\ state = "over")
  PROVE  PayloadInv(c)'
<1>1. /\ toClient' = Send(toClient, c, m) /\ toClient'[c] = Append(toClient[c], m)
      /\ server'[c] = state /\ answer'[c] # "none"
  BY DEF Answer, Send, TypeOK, ErrorHeaders
<1>2. SUFFICES ASSUME role[c] = "both" PROVE PayloadInv(c)'
  BY DEF PayloadInv, static
<1>3. toClient'[c] \in Seq(Sent) /\ got'[c] \in Seq(Sent)
  BY <1>1, <1>2, AppendProperties DEF PayloadInv, Sent
<1>4. ASSUME ~Datagrams(c) PROVE OrderInv(c)' /\ GotInv(c)'
  <2>1. OrderInv(c) /\ GotInv(c)
    BY <1>2, <1>4 DEF PayloadInv
  <2>2. OrderInv(c)'
    <3>1. CASE answer[c] = "none"
      <4>1. toClient[c] = <<>> /\ client[c] \notin {"connected", "piped"}
        BY <2>1, <3>1 DEF OrderInv, ConnInv, ClientInv, Accepting
      <4>2. DataFrom(c, 2)'
        BY <1>1, <4>1, FirstAnswer
      <4>3. QED
        BY <1>1, <4>1, <4>2 DEF OrderInv
    <3>2. CASE server[c] = "serving" /\ state = "over"
      <4>1. \A n \in {1, 2} : DataFrom(c, n) => DataFrom(c, n)'
        BY <1>1, <3>2, SendData
      <4>2. QED
        BY <1>1, <2>1, <4>1 DEF OrderInv
    <3>3. QED
      BY <3>1, <3>2
  <2>3. server[c] # "over" \/ client[c] # "piped"
    BY DEF ConnInv, ClientInv, Accepting
  <2>4. GotInv(c)'
    BY <2>1, <2>3 DEF GotInv
  <2>5. QED
    BY <2>2, <2>4
<1>5. QED
  BY <1>2, <1>3, <1>4 DEF PayloadInv, Datagrams, static

LEMMA ServerPayload ==
  ASSUME TypeOK, NEW c \in Conns, ConnInv(c), PayloadInv(c), Server(c)
  PROVE  PayloadInv(c)'
<1>1. CASE Accept(c)
  BY <1>1, QuietPayload DEF Accept, TypeOK, history
<1>2. CASE Header(c)
  <2>1. /\ UNCHANGED <<static, client, got>>
        /\ server[c] = "awaiting" /\ answer[c] = "none"
    BY <1>2 DEF Header, history, ConnInv, ServerInv
  <2>2. CASE Answer(c, "refused", "over")
    BY <2>1, <2>2, AnswerPayload DEF ErrorHeaders
  <2>3. CASE UNCHANGED <<toClient, answer>>
    BY <2>1, <2>3, QuietPayload
  <2>4. QED
    BY <1>2, <2>2, <2>3 DEF Header
<1>3. CASE Routed(c)
  <2>1. /\ UNCHANGED <<static, client, got>>
        /\ server[c] = "routing" /\ answer[c] = "none"
    BY <1>3 DEF Routed, history, ConnInv, ServerInv
  <2>2. CASE sstream[c] = "open"
    <3>1. Answer(c, "ok", "serving")
      BY <1>3, <2>2 DEF Routed
    <3>2. QED
      BY <2>1, <3>1, AnswerPayload DEF ErrorHeaders
  <2>3. CASE sstream[c] # "open"
    <3>1. UNCHANGED <<toClient, answer>>
      BY <1>3, <2>3 DEF Routed
    <3>2. QED
      BY <2>1, <3>1, QuietPayload
  <2>4. QED
    BY <2>2, <2>3
<1>4. CASE SessionFails(c)
  <2>1. /\ UNCHANGED <<static, client, got>>
        /\ server[c] = "serving" \/ answer[c] = "none"
    BY <1>4 DEF SessionFails, history, ConnInv, ServerInv
  <2>2. CASE sstream[c] = "open"
    <3>1. PICK m \in ErrorHeaders : Answer(c, m, "over")
      BY <1>4, <2>2 DEF SessionFails
    <3>2. QED
      BY <2>1, <3>1, AnswerPayload
  <2>3. CASE sstream[c] # "open"
    <3>1. UNCHANGED <<toClient, answer>> /\ server'[c] = "over"
      BY <1>4, <2>3 DEF SessionFails, TypeOK
    <3>2. QED
      BY <2>1, <3>1, QuietPayload
  <2>4. QED
    BY <2>2, <2>3
<1>5. CASE SessionEnds(c)
  BY <1>5, QuietPayload DEF SessionEnds, TypeOK, history
<1>6. CASE Write(c)
  <2>1. /\ UNCHANGED <<static, client, server, answer, got>> /\ server[c] = "serving"
        /\ toClient' = Send(toClient, c, "data") /\ toClient'[c] = Append(toClient[c], "data")
        /\ answer[c] # "none"
    BY <1>6 DEF Write, Send, TypeOK, ConnInv, ServerInv, Accepting
  <2>2. SUFFICES ASSUME role[c] = "both" PROVE PayloadInv(c)'
    BY <2>1 DEF PayloadInv, static
  <2>3. toClient'[c] \in Seq(Sent)
    <3>1. toClient[c] \in Seq(Sent) /\ "data" \in Sent
      BY <2>1, <2>2 DEF PayloadInv, Sent, static
    <3>2. Append(toClient[c], "data") \in Seq(Sent)
      BY <3>1, AppendProperties
    <3>3. QED
      BY <2>1, <3>2
  <2>4. \A n \in {1, 2} : DataFrom(c, n) => DataFrom(c, n)'
    BY <2>1, SendData
  <2>5. OrderInv(c) => OrderInv(c)'
    BY <2>1, <2>4 DEF OrderInv
  <2>6. GotInv(c) => GotInv(c)'
    BY <2>1 DEF GotInv
  <2>7. QED
    BY <2>1, <2>2, <2>3, <2>5, <2>6 DEF PayloadInv, Datagrams, static
<1>7. CASE HangUp(c)
  BY <1>7, QuietPayload DEF HangUp, TypeOK, history
<1>8. CASE Gone(c)
  BY <1>8, QuietPayload DEF Gone, TypeOK, history
<1>9. QED
  BY <1>1, <1>2, <1>3, <1>4, <1>5, <1>6, <1>7, <1>8 DEF Server

LEMMA OthersPayload ==
  ASSUME TypeOK, NEW c \in Conns, ConnInv(c), PayloadInv(c), Others(c)
  PROVE  PayloadInv(c)'
<1>1. CASE Stranger(c)
  BY <1>1 DEF Stranger, PayloadInv, static
<1>2. CASE StrangerAnswers(c)
  BY <1>2 DEF StrangerAnswers, PayloadInv, static
<1>3. CASE Lose(c)
  <2>1. UNCHANGED <<static, client, server, answer, got>> /\ Datagrams(c)
    BY <1>3 DEF Lose
  <2>2. CASE UNCHANGED toClient
    BY <2>1, <2>2, QuietPayload
  <2>3. CASE \E i \in 1 .. Len(toClient[c]) : toClient' = [toClient EXCEPT ![c] = Taken(@, i)]
    <3>1. PICK i \in 1 .. Len(toClient[c]) : toClient'[c] = Taken(toClient[c], i)
      BY <2>3 DEF TypeOK
    <3>2. role[c] = "both" => toClient'[c] \in Seq(Sent)
      BY <3>1, TakenInSeq DEF PayloadInv
    <3>3. QED
      BY <2>1, <3>2 DEF PayloadInv, Datagrams, static
  <2>4. QED
    BY <1>3, <2>2, <2>3 DEF Lose
<1>4. QED
  BY <1>1, <1>2, <1>3 DEF Others

LEMMA NextPayload ==
  TypeOK /\ HandshakeInv /\ (\A c \in Conns : PayloadInv(c)) /\ [Next]_vars
    => \A c \in Conns : PayloadInv(c)'
<1>1. ASSUME \A c \in Conns : PayloadInv(c), UNCHANGED vars
      PROVE  \A c \in Conns : PayloadInv(c)'
  BY <1>1 DEF vars, static, history, PayloadInv, Datagrams, OrderInv, GotInv, DataFrom
<1>2. ASSUME TypeOK, HandshakeInv, \A c \in Conns : PayloadInv(c),
             NEW c \in Conns, Client(c) \/ Server(c) \/ Others(c)
      PROVE  \A d \in Conns : PayloadInv(d)'
  <2>1. PayloadInv(c)'
    BY <1>2, ClientPayload, ServerPayload, OthersPayload DEF HandshakeInv
  <2>2. ASSUME NEW d \in Conns \ {c} PROVE PayloadInv(d)'
    <3>1. Conn(d)' = Conn(d)
      BY <1>2, ClientFramed, ServerFramed, OthersFramed
    <3>2. PayloadInv(d)
      BY <1>2
    <3>3. QED
      BY <3>1, <3>2 DEF Conn, PayloadInv, Datagrams, OrderInv, GotInv, DataFrom
  <2>3. QED
    BY <2>1, <2>2
<1>3. QED
  BY <1>1, <1>2 DEF Next

\* No response of the handshake reaches the session of the client as payload: at most the
\* last message of a byte stream is the one that error() writes.
THEOREM PayloadDelivered == Spec => []PayloadIsData
<1> DEFINE Inv == \A c \in Conns : PayloadInv(c)
<1>1. Init => Inv
  <2>1. <<>> \in Seq(Sent) /\ Len(<<>>) = 0
    BY EmptySeq
  <2>2. QED
    BY <2>1 DEF Init, PayloadInv, OrderInv, GotInv, DataFrom
<1>2. TypeOK /\ HandshakeInv /\ Inv /\ [Next]_vars => Inv'
  BY NextPayload
<1>3. Inv => PayloadIsData
  <2> SUFFICES ASSUME Inv, NEW c \in Conns, role[c] = "both", NEW i \in 1 .. Len(got[c]),
                      got[c][i] # "data"
               PROVE  got[c][i] \in ErrorHeaders /\ (Datagrams(c) \/ i = Len(got[c]))
    BY DEF PayloadIsData
  <2>1. got[c][i] \in Sent
    BY ElementOfSeq DEF PayloadInv
  <2>2. Datagrams(c) \/ i = Len(got[c])
    BY DEF PayloadInv, GotInv
  <2>3. QED
    BY <2>1, <2>2 DEF Sent
<1>4. QED
  BY <1>1, <1>2, <1>3, HandshakeInvariant, PTL DEF Spec
=============================================================================
