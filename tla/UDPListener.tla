----------------------------- MODULE UDPListener ------------------------------
(***************************************************************************)
(* A UDP listener in server mode.  The first packet of a remote makes a    *)
(* socket that is bound, connected back to the remote and emitted as the   *)
(* source of a session; later packets are handed to the socket of their    *)
(* remote, which the listener finds in a map (this.sessions).              *)
(*                                                                         *)
(* A socket is the number of its creation.  Its session is what Session    *)
(* makes of it, seen from the listener: set up, answered, ended.           *)
(***************************************************************************)
EXTENDS Integers

CONSTANTS
  Remotes,     \* addresses and ports that send packets
  Expected,    \* those that spec.connect lets in
  MaxSockets   \* bound: sockets created

ASSUME UDPAssumption ==
  Expected \subseteq Remotes /\ MaxSockets \in Nat

Ids == 1 .. MaxSockets
None == 0

VARIABLES
  listener,   \* running, deleted, or purged: deleted with its sessions
  born,       \* the number of sockets created
  remote,     \* the remote a socket is for
  socket,     \* the state of a socket; leaked: its set-up failed
  session,    \* the session of a socket
  sessions,   \* the map from remotes to sockets
  watched,    \* the sockets with handlers for 'close' and 'error'
  raced,      \* history: sockets created while another one of the remote was set up
  erred       \* history: sockets that emitted 'error'

vars == <<listener, born, remote, socket, session, sessions, watched, raced, erred>>

SocketStates == {"none", "connecting", "open", "closing", "closed", "leaked"}
SessionStates ==
  {"none", "setup", "live", "over",
   "cut",       \* ended while it was set up, the router has not answered yet
   "refused",   \* the router answered with a failure
   "zombie"}    \* ended, and answered with success

TypeOK ==
  /\ listener \in {"running", "deleted", "purged"}
  /\ born \in 0 .. MaxSockets
  /\ remote \in [Ids -> Remotes \union {None}]
  /\ socket \in [Ids -> SocketStates]
  /\ session \in [Ids -> SessionStates]
  /\ sessions \in [Remotes -> Ids \union {None}]
  /\ watched \subseteq Ids /\ raced \subseteq Ids /\ erred \subseteq Ids

-----------------------------------------------------------------------------

\* Faulty: packets that come before the session is there are not known yet.
KnownIfLive(r) == sessions[r] # None /\ session[sessions[r]] = "live"

\* The map has an entry for r.
Known(r) == sessions[r] # None

\* The sockets of r that are still being bound and connected.
Connecting(r) == {k \in Ids : remote[k] = r /\ socket[k] = "connecting"}

\* Faulty: handlers are set without looking whether there is an entry.
WatchAnyway(r) == watched \union {sessions[r]}

\* Faulty: only the first socket of a remote gets handlers.
WatchFirst(r) ==
  IF \E k \in watched : remote[k] = r THEN watched
  ELSE watched \union ({sessions[r]} \ {None})

\* A session was accepted: handlers for the socket that the map has by now.
Watch(r) == watched \union ({sessions[r]} \ {None})

\* Faulty: the handlers take the listener's own entry for the one of the remote.
ForgetNothing(k) == sessions

\* The handlers of k delete the entry of its remote.
Forget(k) == IF k \in watched THEN [sessions EXCEPT ![remote[k]] = None] ELSE sessions

\* Faulty: sessions that are not connected are left alone.
EndedLive == {k \in Ids : session[k] = "live"}

\* A recursive deletion ends the sessions of the listener.
Ended == {k \in Ids : session[k] \in {"setup", "live"}}

\* The sessions of S end, and with them their sources: stream.end() closes the
\* socket in a later turn.
End(S) ==
  /\ session' = [k \in Ids |-> IF k \notin S THEN session[k]
                               ELSE IF session[k] = "setup" THEN "cut" ELSE "over"]
  /\ socket' = [k \in Ids |-> IF k \in S THEN "closing" ELSE socket[k]]

-----------------------------------------------------------------------------
(* onConnectServer                                                         *)

\* A packet of a new remote: a socket is created, bound and connected.  Packets
\* of known remotes are handed to the socket in the map and change nothing here;
\* those of unexpected ones are rejected.
Packet(r) ==
  LET k == born + 1
  IN  /\ listener = "running"
      /\ ~Known(r) /\ r \in Expected
      /\ born < MaxSockets
      /\ born' = k
      /\ remote' = [remote EXCEPT ![k] = r]
      /\ socket' = [socket EXCEPT ![k] = "connecting"]
      /\ raced' = IF Connecting(r) = {} THEN raced ELSE raced \union {k}
      /\ UNCHANGED <<listener, session, sessions, watched, erred>>

\* bind or connect fails: nobody closes the socket.
ConnectFails(k) ==
  /\ socket[k] = "connecting"
  /\ socket' = [socket EXCEPT ![k] = "leaked"]
  /\ UNCHANGED <<listener, born, remote, session, sessions, watched, raced, erred>>

\* The socket goes into the map and its session is emitted.  The router may
\* fail at once, and does if the listener is gone.
Connected(k) ==
  /\ socket[k] = "connecting"
  /\ sessions' = [sessions EXCEPT ![remote[k]] = k]
  /\ \/ /\ listener = "running"
        /\ socket' = [socket EXCEPT ![k] = "open"]
        /\ session' = [session EXCEPT ![k] = "setup"]
     \/ /\ socket' = [socket EXCEPT ![k] = "closing"]
        /\ session' = [session EXCEPT ![k] = "refused"]
  /\ UNCHANGED <<listener, born, remote, watched, raced, erred>>

-----------------------------------------------------------------------------
(* onRequest, after emitSession                                            *)

\* The session is connected: status 200, also if it was ended before.
Accept(k) ==
  /\ session[k] \in {"setup", "cut"}
  /\ session' = [session EXCEPT ![k] = IF @ = "setup" THEN "live" ELSE "zombie"]
  /\ watched' = Watch(remote[k])
  /\ UNCHANGED <<listener, born, remote, socket, sessions, raced, erred>>

\* The session is refused and its source ended, unless it was ended before.
Refuse(k) ==
  /\ session[k] \in {"setup", "cut"}
  /\ session' = [session EXCEPT ![k] = "refused"]
  /\ socket' = IF session[k] = "setup" THEN [socket EXCEPT ![k] = "closing"] ELSE socket
  /\ UNCHANGED <<listener, born, remote, sessions, watched, raced, erred>>

-----------------------------------------------------------------------------
(* The end of sessions and sockets                                         *)

\* A session is ended by the API or by another of its streams.
EndSession(k) ==
  /\ session[k] \in {"setup", "live"}
  /\ End({k})
  /\ UNCHANGED <<listener, born, remote, sessions, watched, raced, erred>>

\* The remote refuses what was sent to it: the handlers of the session end it,
\* those of the listener, if any, delete the entry.  Nothing is sent to a remote
\* before its session is connected.
Error(k) ==
  /\ session[k] = "live"
  /\ End({k})
  /\ sessions' = Forget(k)
  /\ erred' = erred \union {k}
  /\ UNCHANGED <<listener, born, remote, watched, raced>>

\* The socket is closed and emits 'close'.
Close(k) ==
  /\ socket[k] = "closing"
  /\ socket' = [socket EXCEPT ![k] = "closed"]
  /\ sessions' = Forget(k)
  /\ UNCHANGED <<listener, born, remote, session, watched, raced, erred>>

\* DELETE of the listener: its own socket is closed, those of the sessions are
\* closed if the sessions are ended.
DeleteListener ==
  /\ listener = "running"
  /\ \/ /\ listener' = "deleted"
        /\ UNCHANGED <<socket, session>>
     \/ /\ listener' = "purged"
        /\ End(Ended)
  /\ UNCHANGED <<born, remote, sessions, watched, raced, erred>>

-----------------------------------------------------------------------------

Init ==
  /\ listener = "running"
  /\ born = 0
  /\ remote = [k \in Ids |-> None]
  /\ socket = [k \in Ids |-> "none"]
  /\ session = [k \in Ids |-> "none"]
  /\ sessions = [r \in Remotes |-> None]
  /\ watched = {} /\ raced = {} /\ erred = {}

Next ==
  \/ \E r \in Remotes : Packet(r)
  \/ \E k \in Ids : ConnectFails(k)
  \/ \E k \in Ids : Connected(k)
  \/ \E k \in Ids : Accept(k)
  \/ \E k \in Ids : Refuse(k)
  \/ \E k \in Ids : EndSession(k)
  \/ \E k \in Ids : Error(k)
  \/ \E k \in Ids : Close(k)
  \/ DeleteListener

\* A socket's set-up ends, and the event loop runs the close it was asked for.
Fairness ==
  \A k \in Ids :
    /\ WF_vars(ConnectFails(k) \/ Connected(k))
    /\ WF_vars(Close(k))

Spec == Init /\ [][Next]_vars /\ Fairness

-----------------------------------------------------------------------------
(* Safety.                                                                 *)

\* A session that was connected leaves no dead socket in the map, where later
\* packets of its remote would get lost.  (A session that is refused, or ended
\* before it is connected, does.)
ClosedIsForgotten ==
  \A r \in Remotes : sessions[r] # None =>
    ~(socket[sessions[r]] = "closed" /\ session[sessions[r]] = "over")

\* A remote has one session at a time, and packets find it, unless two of its
\* packets were handled at once or one of its sockets emitted 'error'.
Disturbed(r) == \E k \in raced \union erred : remote[k] = r

OneSession ==
  \A k \in Ids : session[k] = "live" => sessions[remote[k]] = k \/ Disturbed(remote[k])

-----------------------------------------------------------------------------
(* Liveness.                                                               *)

\* When a connected session is over, its remote is free for a new one, although
\* the handlers go by the remote and other sockets may have taken the entry.
Forgotten == \A k \in Ids : session[k] = "over" ~> \A r \in Remotes : sessions[r] # k

\* A recursive deletion closes all sockets in the end, also those that are
\* still being connected; only those whose set-up failed are leaked.
PurgedCloses ==
  listener = "purged" ~> \A k \in Ids : socket[k] \in {"none", "closed", "leaked"}
=============================================================================
