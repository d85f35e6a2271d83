------------------------------- MODULE Handshake -------------------------------
(***************************************************************************)
(* What the JSONSocket handshake of this program promises, with no word on *)
(* messages, time and sockets: a client asks, the server answers once, and *)
(* a client is connected only when the server has agreed, or has answered  *)
(* without saying whether it does, which the specification of JSONSocket   *)
(* does not allow.  A client may give up at any time; the server need not  *)
(* hear of it.                                                             *)
(***************************************************************************)
CONSTANT Conns   \* the connections

VARIABLES
  client,   \* "idle", "asking", "connected", "failed", or "foreign": another program
  server    \* "idle", "asked", "agreed", "unclear" or "refused"

vars == <<client, server>>

Init ==
  /\ client = [c \in Conns |-> "idle"]
  /\ server = [c \in Conns |-> "idle"]

Ask(c) ==
  /\ client[c] = "idle"
  /\ client' = [client EXCEPT ![c] = "asking"]
  /\ UNCHANGED server

\* Another program asks, which is promised nothing.
Enter(c) ==
  /\ client[c] = "idle"
  /\ client' = [client EXCEPT ![c] = "foreign"]
  /\ UNCHANGED server

Hear(c) ==
  /\ client[c] # "idle" /\ server[c] = "idle"
  /\ server' = [server EXCEPT ![c] = "asked"]
  /\ UNCHANGED client

Agree(c) ==
  /\ server[c] = "asked"
  /\ server' = [server EXCEPT ![c] = "agreed"]
  /\ UNCHANGED client

\* The server answers, and does not say whether it agrees.
Mumble(c) ==
  /\ server[c] = "asked"
  /\ server' = [server EXCEPT ![c] = "unclear"]
  /\ UNCHANGED client

Refuse(c) ==
  /\ server[c] \in {"idle", "asked"}
  /\ server' = [server EXCEPT ![c] = "refused"]
  /\ UNCHANGED client

Connect(c) ==
  /\ client[c] = "asking" /\ server[c] \in {"agreed", "unclear"}
  /\ client' = [client EXCEPT ![c] = "connected"]
  /\ UNCHANGED server

Fail(c) ==
  /\ client[c] \in {"asking", "connected"}
  /\ client' = [client EXCEPT ![c] = "failed"]
  /\ UNCHANGED server

Next ==
  \E c \in Conns :
    \/ Ask(c) \/ Enter(c) \/ Connect(c) \/ Fail(c)
    \/ Hear(c) \/ Agree(c) \/ Mumble(c) \/ Refuse(c)

\* A client that asks is told or gives up.
Fairness == \A c \in Conns : WF_vars(client[c] = "asking" /\ (Connect(c) \/ Fail(c)))

Spec == Init /\ [][Next]_vars /\ Fairness
=============================================================================
