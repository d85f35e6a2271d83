-------------------------- MODULE UDPListener_proofs --------------------------
(* Proofs about UDPListener, for any remotes and any number of sockets.    *)
EXTENDS UDPListener, TLAPS

-----------------------------------------------------------------------------
(* Type correctness.                                                       *)

\* Ending a set of sessions keeps the types of what it changes.
LEMMA EndType ==
  ASSUME TypeOK, NEW S, End(S)
  PROVE  socket' \in [Ids -> SocketStates] /\ session' \in [Ids -> SessionStates]
BY DEF TypeOK, End, SocketStates, SessionStates

\* So do the handlers: they clear one entry of the map, or none.
LEMMA ForgetType ==
  ASSUME TypeOK, NEW k
  PROVE  /\ Forget(k) \in [Remotes -> Ids \union {None}]
         /\ \A r \in Remotes : Forget(k)[r] = sessions[r] \/ Forget(k)[r] = None
         /\ k \in watched /\ remote[k] \in Remotes => Forget(k)[remote[k]] = None
BY DEF TypeOK, Forget

\* Setting handlers watches the entry of a remote, if there is one.
LEMMA WatchType ==
  ASSUME TypeOK, NEW r \in Remotes
  PROVE  /\ Watch(r) \subseteq Ids /\ watched \subseteq Watch(r)
         /\ sessions[r] # None => sessions[r] \in Watch(r)
         /\ \A k \in Watch(r) : k \in watched \/ (k = sessions[r] /\ k # None)
BY DEF TypeOK, Watch

\* What is known of each socket: those that are not created yet are untouched,
\* and sessions and sockets agree.
SocketInv ==
  \A k \in Ids :
    /\ k > born => socket[k] = "none"
    /\ socket[k] # "none" => remote[k] \in Remotes
    /\ socket[k] \in {"none", "connecting", "leaked"} => session[k] = "none"
    /\ session[k] \in {"setup", "live"} => socket[k] = "open"
    /\ session[k] = "over" => socket[k] \in {"closing", "closed"}
    /\ k \in watched \union raced \union erred => socket[k] # "none"

\* What is known of the map: entries are of their remote, and the socket of a
\* connected session has handlers.
PoolInv ==
  \A r \in Remotes : sessions[r] # None =>
    /\ remote[sessions[r]] = r
    /\ socket[sessions[r]] \in {"open", "closing", "closed"}
    /\ session[sessions[r]] \in {"live", "over"} => sessions[r] \in watched
    /\ ~(socket[sessions[r]] = "closed" /\ session[sessions[r]] = "over")

MapInv == TypeOK /\ SocketInv /\ PoolInv

\* A session that ends is the one of an open socket with a remote.
LEMMA EndSockets ==
  ASSUME MapInv, NEW S, S \subseteq Ended, End(S)
  PROVE  /\ S \subseteq Ids
         /\ \A k \in S : socket[k] = "open" /\ socket'[k] = "closing"
                         /\ session'[k] = (IF session[k] = "setup" THEN "cut" ELSE "over")
         /\ \A k \in Ids \ S : socket'[k] = socket[k] /\ session'[k] = session[k]
BY DEF MapInv, TypeOK, SocketInv, Ended, End

\* Ending sessions keeps the invariant, with or without clearing an entry.
LEMMA EndKeepsMap ==
  ASSUME MapInv, NEW S, S \subseteq Ended, End(S), NEW k,
         sessions' = sessions \/ sessions' = Forget(k),
         erred' = erred \/ erred' = erred \union {k}, k \in S \/ erred' = erred,
         listener' \in {"running", "deleted", "purged"},
         UNCHANGED <<born, remote, watched, raced>>
  PROVE  MapInv'
<1>1. TypeOK'
  <2>1. socket' \in [Ids -> SocketStates] /\ session' \in [Ids -> SessionStates]
    BY EndType DEF MapInv
  <2>2. sessions' \in [Remotes -> Ids \union {None}]
    BY ForgetType DEF MapInv, TypeOK
  <2>3. erred' \subseteq Ids
    BY EndSockets DEF MapInv, TypeOK
  <2>4. QED
    BY <2>1, <2>2, <2>3 DEF MapInv, TypeOK
<1>2. SocketInv'
  BY EndSockets DEF MapInv, SocketInv
<1>3. \A r \in Remotes : sessions'[r] = sessions[r] \/ sessions'[r] = None
  BY ForgetType DEF MapInv, TypeOK
<1>4. PoolInv'
  <2> SUFFICES ASSUME NEW r \in Remotes, sessions'[r] # None
               PROVE  /\ remote'[sessions'[r]] = r
                      /\ socket'[sessions'[r]] \in {"open", "closing", "closed"}
                      /\ session'[sessions'[r]] \in {"live", "over"} => sessions'[r] \in watched'
                      /\ ~(socket'[sessions'[r]] = "closed" /\ session'[sessions'[r]] = "over")
    BY DEF PoolInv
  <2> DEFINE j == sessions[r]
  <2>1. sessions'[r] = j /\ j \in Ids /\ j # None
    BY <1>3 DEF MapInv, TypeOK
  <2>2. CASE j \in S
    <3>1. socket'[j] = "closing" /\ session[j] \in {"setup", "live"}
          /\ session'[j] = (IF session[j] = "setup" THEN "cut" ELSE "over")
      BY <2>2, EndSockets DEF Ended
    <3>2. QED
      BY <2>1, <3>1 DEF MapInv, PoolInv
  <2>3. CASE j \notin S
    <3>1. socket'[j] = socket[j] /\ session'[j] = session[j]
      BY <2>1, <2>3, EndSockets
    <3>2. QED
      BY <2>1, <3>1 DEF MapInv, PoolInv
  <2>4. QED
    BY <2>2, <2>3
<1>5. QED
  BY <1>1, <1>2, <1>4 DEF MapInv

\* Every step keeps the invariant.
LEMMA NextMap == MapInv /\ [Next]_vars => MapInv'
<1> SUFFICES ASSUME MapInv, [Next]_vars PROVE MapInv'
  OBVIOUS
<1>0. TypeOK /\ SocketInv /\ PoolInv /\ born \in Nat /\ Ids \subseteq Nat \ {0} /\ None = 0
  BY UDPAssumption DEF MapInv, TypeOK, Ids, None
<1>1. ASSUME NEW r \in Remotes, Packet(r) PROVE MapInv'
  <2> DEFINE k == born + 1
  <2>1. k \in Ids /\ k > born /\ born' = k /\ socket[k] = "none" /\ k \in 0 .. MaxSockets
    BY <1>0, <1>1, UDPAssumption DEF Packet, SocketInv, Ids
  <2>2. /\ remote' = [remote EXCEPT ![k] = r] /\ socket' = [socket EXCEPT ![k] = "connecting"]
        /\ raced' \subseteq raced \union {k}
        /\ UNCHANGED <<listener, session, sessions, watched, erred>>
    BY <1>1 DEF Packet
  <2>3. TypeOK'
    BY <1>0, <2>1, <2>2 DEF TypeOK, SocketStates
  <2>4. SocketInv'
    BY <1>0, <2>1, <2>2 DEF TypeOK, SocketInv
  <2>5. PoolInv'
    <3>1. \A q \in Remotes : sessions[q] # k
      BY <1>0, <2>1 DEF PoolInv
    <3>2. \A j \in Ids : j # k => socket'[j] = socket[j] /\ remote'[j] = remote[j]
      BY <1>0, <2>1, <2>2 DEF TypeOK
    <3>3. QED
      BY <1>0, <2>2, <3>1, <3>2 DEF TypeOK, PoolInv
  <2>6. QED
    BY <2>3, <2>4, <2>5 DEF MapInv
<1>2. ASSUME NEW k \in Ids, ConnectFails(k) PROVE MapInv'
  <2>1. TypeOK'
    BY <1>0, <1>2 DEF ConnectFails, TypeOK, SocketStates
  <2>2. SocketInv' /\ PoolInv'
    BY <1>0, <1>2 DEF ConnectFails, TypeOK, SocketInv, PoolInv
  <2>3. QED
    BY <2>1, <2>2 DEF MapInv
<1>3. ASSUME NEW k \in Ids, Connected(k) PROVE MapInv'
  <2>1. TypeOK'
    BY <1>0, <1>3 DEF Connected, TypeOK, SocketStates, SessionStates
  <2>2. /\ socket[k] = "connecting" /\ session[k] = "none" /\ remote[k] \in Remotes
        /\ sessions' = [sessions EXCEPT ![remote[k]] = k]
        /\ UNCHANGED <<remote, watched, raced, erred, born>>
    BY <1>0, <1>3 DEF Connected, SocketInv
  <2>3. \/ socket' = [socket EXCEPT ![k] = "open"] /\ session' = [session EXCEPT ![k] = "setup"]
        \/ socket' = [socket EXCEPT ![k] = "closing"] /\ session' = [session EXCEPT ![k] = "refused"]
    BY <1>3 DEF Connected
  <2>4. SocketInv'
    BY <1>0, <2>2, <2>3 DEF TypeOK, SocketInv
  <2>5. PoolInv'
    <3>1. /\ socket'[k] \in {"open", "closing"} /\ session'[k] \in {"setup", "refused"}
          /\ \A j \in Ids : j # k => socket'[j] = socket[j] /\ session'[j] = session[j]
      BY <1>0, <2>3 DEF TypeOK
    <3>2. \A r \in Remotes : (sessions'[r] = k /\ r = remote[k]) \/ sessions'[r] = sessions[r]
      BY <1>0, <2>2 DEF TypeOK
    <3>3. ASSUME NEW r \in Remotes, sessions'[r] # None, sessions'[r] # k
          PROVE  sessions'[r] = sessions[r] /\ sessions[r] \in Ids
      BY <1>0, <3>2, <3>3 DEF TypeOK
    <3>4. ASSUME NEW r \in Remotes, sessions'[r] = k PROVE remote[k] = r
      BY <1>0, <2>2, <3>2, <3>4 DEF PoolInv
    <3>5. ASSUME NEW r \in Remotes, sessions'[r] # None
          PROVE  /\ remote[sessions'[r]] = r
                 /\ socket'[sessions'[r]] \in {"open", "closing", "closed"}
                 /\ session'[sessions'[r]] \in {"live", "over"} => sessions'[r] \in watched
                 /\ ~(socket'[sessions'[r]] = "closed" /\ session'[sessions'[r]] = "over")
      <4>1. CASE sessions'[r] = k
        BY <3>1, <3>4, <4>1
      <4>2. CASE sessions'[r] # k
        <5>1. socket'[sessions'[r]] = socket[sessions[r]] /\ session'[sessions'[r]] = session[sessions[r]]
          BY <3>1, <3>3, <3>5, <4>2
        <5>2. QED
          BY <1>0, <3>3, <3>5, <4>2, <5>1 DEF PoolInv
      <4>3. QED
        BY <4>1, <4>2
    <3>6. QED
      BY <2>2, <3>5 DEF PoolInv
  <2>6. QED
    BY <2>1, <2>4, <2>5 DEF MapInv
<1>4. ASSUME NEW k \in Ids, Accept(k) PROVE MapInv'
  <2>1. remote[k] \in Remotes /\ socket[k] # "none"
    BY <1>0, <1>4 DEF Accept, SocketInv
  <2>2. TypeOK'
    BY <1>0, <1>4, <2>1, WatchType DEF Accept, TypeOK, SessionStates
  <2>3. /\ session' = [session EXCEPT ![k] = IF @ = "setup" THEN "live" ELSE "zombie"]
        /\ session[k] \in {"setup", "cut"} /\ watched' = Watch(remote[k])
        /\ UNCHANGED <<born, remote, socket, sessions, raced, erred>>
    BY <1>4 DEF Accept
  <2>4. /\ session'[k] \in {"live", "zombie"} /\ (session'[k] = "live" => session[k] = "setup")
        /\ \A j \in Ids : j # k => session'[j] = session[j]
    BY <1>0, <2>3 DEF TypeOK
  <2>5. /\ watched \subseteq watched'
        /\ sessions[remote[k]] # None => sessions[remote[k]] \in watched'
        /\ \A j \in watched' : socket[j] # "none"
    <3>1. \A j \in watched' : j \in watched \/ (j = sessions[remote[k]] /\ j # None)
      BY <1>0, <2>1, <2>3, WatchType
    <3>2. \A j \in watched : j \in Ids
      BY <1>0 DEF TypeOK
    <3>3. \A j \in watched : socket[j] # "none"
      BY <1>0, <3>2 DEF SocketInv
    <3>4. sessions[remote[k]] # None => socket[sessions[remote[k]]] # "none"
      BY <1>0, <2>1 DEF PoolInv
    <3>5. watched \subseteq watched' /\ (sessions[remote[k]] # None => sessions[remote[k]] \in watched')
      BY <1>0, <2>1, <2>3, WatchType
    <3>6. QED
      BY <1>0, <3>1, <3>3, <3>4, <3>5
  <2>6. SocketInv'
    <3>1. socket[k] \notin {"none", "connecting", "leaked"} /\ (session[k] = "setup" => socket[k] = "open")
      BY <1>0, <2>3 DEF SocketInv
    <3>2. QED
      BY <1>0, <2>3, <2>4, <2>5, <3>1 DEF SocketInv
  <2>7. PoolInv'
    <3>1. ASSUME NEW r \in Remotes, sessions[r] = k PROVE k \in watched'
      BY <1>0, <2>5, <3>1 DEF PoolInv
    <3>2. ASSUME NEW r \in Remotes, sessions[r] # None PROVE sessions[r] \in Ids
      BY <1>0, <3>2 DEF TypeOK
    <3>3. QED
      BY <1>0, <2>3, <2>4, <2>5, <3>1, <3>2 DEF PoolInv
  <2>8. QED
    BY <2>2, <2>6, <2>7 DEF MapInv
<1>5. ASSUME NEW k \in Ids, Refuse(k) PROVE MapInv'
  <2>1. TypeOK'
    BY <1>0, <1>5 DEF Refuse, TypeOK, SocketStates, SessionStates
  <2>2. SocketInv' /\ PoolInv'
    BY <1>0, <1>5 DEF Refuse, TypeOK, SocketInv, PoolInv
  <2>3. QED
    BY <2>1, <2>2 DEF MapInv
<1>6. ASSUME NEW k \in Ids, EndSession(k) PROVE MapInv'
  <2>1. {k} \subseteq Ended /\ listener' \in {"running", "deleted", "purged"}
    BY <1>0, <1>6 DEF EndSession, Ended, TypeOK
  <2>2. QED
    BY <1>6, <2>1, EndKeepsMap DEF EndSession
<1>7. ASSUME NEW k \in Ids, Error(k) PROVE MapInv'
  <2>1. {k} \subseteq Ended /\ listener' \in {"running", "deleted", "purged"}
    BY <1>0, <1>7 DEF Error, Ended, TypeOK
  <2>2. QED
    BY <1>7, <2>1, EndKeepsMap DEF Error
<1>8. ASSUME NEW k \in Ids, Close(k) PROVE MapInv'
  <2>1. TypeOK'
    BY <1>0, <1>8, ForgetType DEF Close, TypeOK, SocketStates
  <2>2. SocketInv'
    BY <1>0, <1>8 DEF Close, TypeOK, SocketInv
  <2>3. PoolInv'
    <3>1. remote[k] \in Remotes
      BY <1>0, <1>8 DEF Close, SocketInv
    <3>2. \A r \in Remotes : sessions'[r] # None => sessions'[r] = sessions[r]
      BY <1>8, <1>0, ForgetType DEF Close
    <3>3. \A r \in Remotes : sessions'[r] = k => session[k] \notin {"live", "over"}
      BY <1>0, <1>8, <3>1, <3>2, ForgetType DEF Close, PoolInv
    <3>4. QED
      BY <1>0, <1>8, <3>2, <3>3 DEF Close, TypeOK, PoolInv
  <2>4. QED
    BY <2>1, <2>2, <2>3 DEF MapInv
<1>9. ASSUME DeleteListener PROVE MapInv'
  <2>1. CASE UNCHANGED <<socket, session>>
    <3>1. TypeOK'
      BY <1>0, <1>9, <2>1 DEF DeleteListener, TypeOK
    <3>2. SocketInv' /\ PoolInv'
      BY <1>0, <1>9, <2>1 DEF DeleteListener, SocketInv, PoolInv
    <3>3. QED
      BY <3>1, <3>2 DEF MapInv
  <2>2. CASE End(Ended)
    BY <1>9, <2>2, EndKeepsMap DEF DeleteListener
  <2>3. QED
    BY <1>9, <2>1, <2>2 DEF DeleteListener
<1>10. CASE UNCHANGED vars
  BY <1>0, <1>10 DEF vars, MapInv, TypeOK, SocketInv, PoolInv
<1>11. QED
  BY <1>1, <1>2, <1>3, <1>4, <1>5, <1>6, <1>7, <1>8, <1>9, <1>10 DEF Next

\* The map and the sockets agree.
LEMMA MapInvariant == Spec => []MapInv
<1>1. Init => MapInv
  <2>1. Init => TypeOK
    BY UDPAssumption DEF Init, TypeOK, SocketStates, SessionStates
  <2>2. Init => SocketInv /\ PoolInv
    BY DEF Init, SocketInv, PoolInv
  <2>3. QED
    BY <2>1, <2>2 DEF MapInv
<1>2. QED
  BY <1>1, NextMap, PTL DEF Spec

\* Every variable of the listener keeps its type.
THEOREM ListenerTypeCorrect == Spec => []TypeOK
<1>1. MapInv => TypeOK
  BY DEF MapInv
<1>2. QED
  BY <1>1, MapInvariant, PTL

\* A session that was connected leaves no dead socket in the map.
THEOREM ConnectedSessionsForgotten == Spec => []ClosedIsForgotten
<1>1. MapInv => ClosedIsForgotten
  BY DEF MapInv, PoolInv, ClosedIsForgotten
<1>2. QED
  BY <1>1, MapInvariant, PTL

-----------------------------------------------------------------------------
(* One session per remote.                                                 *)

\* The sockets of a remote that nothing has disturbed: the one that is open, or
\* about to be closed, is the entry of the map, and one that is still being
\* connected is alone.
Alone(r) ==
  \A k \in Ids : remote[k] = r =>
    /\ socket[k] \in {"open", "closing"} => sessions[r] = k
    /\ socket[k] = "connecting" =>
         sessions[r] = None /\ \A j \in Connecting(r) : j = k

CleanInv == \A r \in Remotes : Alone(r) \/ Disturbed(r)

\* A remote that has been disturbed remains so.
LEMMA DisturbedStays ==
  ASSUME MapInv, [Next]_vars, NEW r \in Remotes, Disturbed(r)
  PROVE  Disturbed(r)'
<1>1. PICK k \in raced \union erred : remote[k] = r
  BY DEF Disturbed
<1>2. k \in Ids /\ socket[k] # "none" /\ born \in Nat /\ k # born + 1
  <2>1. k \in Ids /\ socket[k] # "none" /\ born \in Nat
    BY <1>1, UDPAssumption DEF MapInv, TypeOK, SocketInv
  <2>2. k \in Nat
    BY <2>1, UDPAssumption DEF Ids
  <2>3. QED
    BY <2>1, <2>2 DEF MapInv, SocketInv
<1>3. raced \subseteq raced' /\ erred \subseteq erred' /\ remote'[k] = remote[k]
  <2>1. ASSUME NEW q \in Remotes, Packet(q)
        PROVE  raced \subseteq raced' /\ erred \subseteq erred' /\ remote'[k] = remote[k]
    BY <1>2, <2>1 DEF Packet, MapInv, TypeOK
  <2>2. QED
    BY <2>1 DEF Next, ConnectFails, Connected, Accept, Refuse, EndSession, Error, Close,
                DeleteListener, vars
<1>4. QED
  BY <1>1, <1>3 DEF Disturbed

\* A step that opens and connects no socket, and clears at most the entry of a
\* socket that is closed by it, leaves a remote alone.
LEMMA AloneStays ==
  ASSUME MapInv, NEW r \in Remotes, Alone(r), UNCHANGED remote,
         \A k \in Ids : remote[k] = r /\ socket'[k] # socket[k] =>
            socket'[k] \notin {"open", "connecting"} /\ (socket'[k] = "closing" => socket[k] = "open"),
         \/ sessions'[r] = sessions[r]
         \/ /\ sessions'[r] = None
            /\ \A k \in Ids : remote[k] = r => socket'[k] \notin {"open", "closing"}
  PROVE  Alone(r)'
<1>1. \A j \in Connecting(r)' : j \in Connecting(r)
  BY DEF Connecting
<1>2. ASSUME NEW k \in Ids, remote[k] = r, socket'[k] \in {"open", "closing"}
      PROVE  sessions'[r] = k
  BY <1>2 DEF Alone
<1>3. ASSUME NEW k \in Ids, remote[k] = r, socket'[k] = "connecting"
      PROVE  sessions'[r] = None /\ \A j \in Connecting(r)' : j = k
  BY <1>1, <1>3 DEF Alone
<1>4. QED
  BY <1>2, <1>3 DEF Alone

\* Every step leaves a remote alone or disturbs it.
LEMMA NextClean == MapInv /\ CleanInv /\ [Next]_vars => CleanInv'
<1> SUFFICES ASSUME MapInv, CleanInv, [Next]_vars, NEW r \in Remotes, ~Disturbed(r)'
             PROVE  Alone(r)'
  BY DEF CleanInv
<1>0. Alone(r) /\ ~Disturbed(r) /\ TypeOK /\ SocketInv /\ PoolInv
  BY DisturbedStays DEF CleanInv, MapInv
<1>1. ASSUME NEW q \in Remotes, Packet(q) PROVE Alone(r)'
  <2> DEFINE k == born + 1
  <2>1. k \in Ids /\ socket[k] = "none" /\ Ids \subseteq Nat
    BY <1>0, <1>1, UDPAssumption DEF Packet, SocketInv, TypeOK, Ids
  <2>2. /\ \A j \in Ids : j # k => socket'[j] = socket[j] /\ remote'[j] = remote[j]
        /\ socket'[k] = "connecting" /\ remote'[k] = q /\ sessions' = sessions
    BY <1>0, <1>1, <2>1 DEF Packet, TypeOK
  <2>3. CASE q = r
    <3>1. sessions[r] = None
      BY <1>1, <2>3 DEF Packet, Known
    <3>2. Connecting(r) = {}
      BY <1>1, <2>2, <2>3 DEF Packet, Disturbed
    <3>3. \A j \in Connecting(r)' : j = k
      BY <2>2, <3>2 DEF Connecting
    <3>4. QED
      BY <1>0, <2>1, <2>2, <2>3, <3>1, <3>2, <3>3 DEF Alone, Connecting
  <2>4. CASE q # r
    <3>1. Connecting(r)' \subseteq Connecting(r)
      BY <2>2, <2>4 DEF Connecting
    <3>2. QED
      BY <1>0, <2>1, <2>2, <2>4, <3>1 DEF Alone
  <2>5. QED
    BY <2>3, <2>4
<1>2. ASSUME NEW k \in Ids, ConnectFails(k) PROVE Alone(r)'
  <2>1. /\ UNCHANGED <<remote, sessions>>
        /\ \A j \in Ids : socket'[j] # socket[j] => socket'[j] = "leaked"
    BY <1>0, <1>2 DEF ConnectFails, TypeOK
  <2>2. QED
    BY <1>0, <2>1, AloneStays
<1>3. ASSUME NEW k \in Ids, Connected(k) PROVE Alone(r)'
  <2>1. /\ UNCHANGED remote /\ remote[k] \in Remotes /\ socket[k] = "connecting"
        /\ \A j \in Ids : j # k => socket'[j] = socket[j]
        /\ socket'[k] \in {"open", "closing"}
        /\ sessions'[remote[k]] = k
        /\ remote[k] # r => sessions'[r] = sessions[r]
    BY <1>0, <1>3 DEF Connected, SocketInv, TypeOK
  <2>2. CASE remote[k] = r
    <3>1. k \in Connecting(r) /\ sessions[r] = None
      BY <1>0, <2>1, <2>2 DEF Alone, Connecting
    <3>2. \A j \in Ids : remote[j] = r /\ j # k => socket[j] \notin {"open", "closing", "connecting"}
      BY <1>0, <2>1, <2>2, <3>1, UDPAssumption DEF Alone, Connecting, None, Ids
    <3>3. QED
      BY <2>1, <2>2, <3>2 DEF Alone, Connecting
  <2>3. CASE remote[k] # r
    <3>1. Connecting(r)' = Connecting(r)
      BY <2>1, <2>3 DEF Connecting
    <3>2. QED
      BY <1>0, <2>1, <2>3, <3>1 DEF Alone
  <2>4. QED
    BY <2>2, <2>3
<1>4. ASSUME NEW k \in Ids, Accept(k) PROVE Alone(r)'
  BY <1>0, <1>4, AloneStays DEF Accept
<1>5. ASSUME NEW k \in Ids, Refuse(k) PROVE Alone(r)'
  <2>1. /\ UNCHANGED <<remote, sessions>>
        /\ \A j \in Ids : socket'[j] # socket[j] => socket[j] = "open" /\ socket'[j] = "closing"
    BY <1>0, <1>5 DEF Refuse, TypeOK, SocketInv
  <2>2. QED
    BY <1>0, <2>1, AloneStays
<1>6. ASSUME NEW S, S \subseteq Ended, End(S), UNCHANGED <<remote, sessions>> PROVE Alone(r)'
  <2>1. \A j \in Ids : socket'[j] # socket[j] => socket[j] = "open" /\ socket'[j] = "closing"
    BY <1>6, EndSockets
  <2>2. QED
    BY <1>0, <1>6, <2>1, AloneStays
<1>7. ASSUME NEW k \in Ids, EndSession(k) PROVE Alone(r)'
  <2>1. {k} \subseteq Ended
    BY <1>7 DEF EndSession, Ended
  <2>2. QED
    BY <1>6, <1>7, <2>1 DEF EndSession
<1>8. ASSUME NEW k \in Ids, Error(k) PROVE Alone(r)'
  <2>1. {k} \subseteq Ended /\ remote' = remote /\ remote[k] # r /\ remote[k] \in Remotes
    <3>1. {k} \subseteq Ended /\ remote' = remote /\ k \in erred' /\ socket[k] = "open"
      BY <1>0, <1>8 DEF Error, Ended, SocketInv
    <3>2. QED
      BY <1>0, <3>1 DEF Disturbed, SocketInv
  <2>2. sessions'[r] = sessions[r]
    BY <1>0, <1>8, <2>1 DEF Error, Forget, TypeOK
  <2>3. \A j \in Ids : socket'[j] # socket[j] => socket[j] = "open" /\ socket'[j] = "closing"
    BY <1>8, <2>1, EndSockets DEF Error
  <2>4. QED
    BY <1>0, <2>1, <2>2, <2>3, AloneStays
<1>9. ASSUME NEW k \in Ids, Close(k) PROVE Alone(r)'
  <2>1. /\ socket[k] = "closing" /\ socket'[k] = "closed" /\ remote' = remote
        /\ \A j \in Ids : j # k => socket'[j] = socket[j]
        /\ sessions' = Forget(k) /\ remote[k] \in Remotes
    BY <1>0, <1>9 DEF Close, TypeOK, SocketInv
  <2>2. CASE remote[k] = r
    <3>1. \A j \in Ids : remote[j] = r => socket'[j] \notin {"open", "closing"}
      BY <1>0, <2>1, <2>2 DEF Alone
    <3>2. sessions'[r] = sessions[r] \/ sessions'[r] = None
      BY <1>0, <2>1, ForgetType
    <3>3. QED
      BY <1>0, <2>1, <3>1, <3>2, AloneStays
  <2>3. CASE remote[k] # r
    <3>1. sessions'[r] = sessions[r]
      BY <1>0, <2>1, <2>3 DEF Forget, TypeOK
    <3>2. QED
      BY <1>0, <2>1, <2>3, <3>1, AloneStays
  <2>4. QED
    BY <2>2, <2>3
<1>10. ASSUME DeleteListener PROVE Alone(r)'
  <2>1. CASE UNCHANGED <<socket, session>>
    BY <1>0, <1>10, <2>1, AloneStays DEF DeleteListener
  <2>2. CASE End(Ended)
    BY <1>6, <1>10, <2>2 DEF DeleteListener
  <2>3. QED
    BY <1>10, <2>1, <2>2 DEF DeleteListener
<1>11. CASE UNCHANGED vars
  BY <1>0, <1>11, AloneStays DEF vars
<1>12. QED
  BY <1>1, <1>2, <1>3, <1>4, <1>5, <1>7, <1>8, <1>9, <1>10, <1>11 DEF Next

\* A connected session is the one that packets of its remote find, unless the
\* remote was disturbed.
THEOREM OneSessionPerRemote == Spec => []OneSession
<1>1. Init => CleanInv
  BY DEF Init, CleanInv, Alone, Connecting
<1>2. MapInv /\ CleanInv => OneSession
  BY DEF MapInv, SocketInv, CleanInv, Alone, OneSession
<1>3. QED
  BY <1>1, <1>2, NextClean, MapInvariant, PTL DEF Spec
=============================================================================
