-------------------------------- MODULE Offload --------------------------------
(***************************************************************************)
(* The kernel offload of UDP sessions.  The filters on the interfaces      *)
(* forward a packet whose 5-tuple is in the redirects map, past the proxy; *)
(* the pipes of the sessions keep the map, one entry for each direction.   *)
(* A filter keeps the maps it was loaded with, whoever unlinks them, and   *)
(* outlives the process.                                                   *)
(*                                                                         *)
(* A session is a source and a destination, each with a connected socket   *)
(* of a 5-tuple; how it comes to be is modelled in Session.                *)
(***************************************************************************)
EXTENDS Naturals, FiniteSets

CONSTANTS
  Ifs,          \* network interfaces
  Sessions,     \* sessions at a time
  Clients,      \* 5-tuples of the sockets of UDP listeners
  Singletons,   \* those of listeners in singleton mode, whose socket is the session's
  Servers,      \* 5-tuples of the sockets of UDP clusters
  Bound,        \* those of a cluster that binds its port: sessions may share it
  NoTuple,      \* no 5-tuple
  MaxStarts     \* bound: starts of the process

ASSUME OffloadAssumption ==
  /\ Singletons \subseteq Clients /\ Bound \subseteq Servers
  /\ Clients \intersect Servers = {} /\ {NoTuple, "other"} \intersect (Clients \union Servers) = {}
  /\ MaxStarts \in Nat \ {0}

Tuples == Clients \union Servers
Sides == {"src", "dst"}
Other(x) == IF x = "src" THEN "dst" ELSE "src"

VARIABLES
  up,         \* the process runs
  engine,     \* l7mp.offload is set
  setup,      \* UDPOffload.setup: "init", as against "no_init"
  ifs,        \* UDPOffload.ifNames
  maps,       \* the maps that are pinned: those of this start, or 0
  starts,     \* starts so far, which number the maps
  filter,     \* of an interface: the maps its filter was loaded with, 0 for no filter
  redirect,   \* redirectsMap, of each start: of a 5-tuple the peer's
  tuple,      \* of a session: the 5-tuple of the socket of each side
  socket,     \* of a session: the socket of each side, "none", "open", "failed", "deleted"
  hidden,     \* history: 5-tuples whose socket was closed before its pipe was removed
  unclean     \* history: interfaces a process has left without unloading its filter

process == <<up, engine, setup, ifs, maps, starts, filter, unclean>>
vars == <<up, engine, setup, ifs, maps, starts, filter, redirect, tuple, socket, hidden,
          unclean>>

-----------------------------------------------------------------------------
(* The engine.                                                             *)

NoRedirect == [t \in Tuples |-> NoTuple]
NoSession == [s \in Sessions |-> [x \in Sides |-> NoTuple]]
NoSocket == [s \in Sessions |-> [x \in Sides |-> "none"]]

\* Mutant: the maps of the process before are not unlinked.
LoadPinned(loaded, done) ==
  /\ maps' = IF maps # 0 THEN maps ELSE IF loaded = {} THEN 0 ELSE starts + 1
  /\ filter' = [i \in Ifs |-> IF i \in loaded THEN maps' ELSE filter[i]]
  /\ engine' = done

\* loadBpf() of each interface, and unloadBpf(), run tc, which may fail.
Loading(i) == SUBSET i
Unloading == IF engine /\ setup THEN SUBSET ifs ELSE {{}}

\* init(): the pinned maps are unlinked and the kernel is prepared, each interface
\* loads the filter, the first of them with new maps, and the maps are opened.  Any of
\* this may fail, and the proxy falls back to the slow path, with what is loaded.
Load(loaded, done) ==
  /\ maps' = IF loaded = {} THEN 0 ELSE starts + 1
  /\ filter' = [i \in Ifs |-> IF i \in loaded THEN starts + 1 ELSE filter[i]]
  /\ engine' = done

\* Mutant: an interface that cannot load the filter is left out.
StartAnyway(i, mode) ==
  /\ ~up /\ starts < MaxStarts
  /\ up' = TRUE /\ starts' = starts + 1
  /\ setup' = (mode = "init")
  /\ \E loaded \in Loading(i) :
       /\ Load(loaded, loaded # {})
       /\ ifs' = i
       /\ unclean' = unclean \ i
  /\ hidden' = {}
  /\ UNCHANGED <<redirect, tuple, socket>>

\* applyAdmin() of the static configuration of a process that starts.
Start(i, mode) ==
  /\ ~up /\ starts < MaxStarts
  /\ up' = TRUE /\ starts' = starts + 1
  /\ setup' = (mode = "init")
  /\ \E loaded \in Loading(i) : \E done \in BOOLEAN :
       /\ done => loaded = i
       /\ Load(loaded, done)
       /\ ifs' = i
       /\ unclean' = IF done THEN unclean \ i ELSE unclean \union loaded
  /\ hidden' = {}
  /\ UNCHANGED <<redirect, tuple, socket>>

\* The process starts with the offload disabled.
StartDisabled ==
  /\ ~up /\ starts < MaxStarts
  /\ up' = TRUE /\ starts' = starts + 1
  /\ engine' = FALSE /\ setup' = FALSE /\ ifs' = {} /\ hidden' = {}
  /\ UNCHANGED <<maps, filter, redirect, tuple, socket, unclean>>

\* The sockets of a process that ends are closed.
Ends ==
  /\ up /\ up' = FALSE /\ engine' = FALSE
  /\ tuple' = NoSession /\ socket' = NoSocket
  /\ UNCHANGED <<setup, ifs, starts, redirect, hidden>>

\* Mutant: the exit handler unlinks the maps and leaves the filters.
ExitUnlinks ==
  /\ Ends
  /\ maps' = IF engine THEN 0 ELSE maps
  /\ UNCHANGED <<filter, unclean>>

\* shutdown(), of the exit handler: each interface unloads its filter, when the set-up
\* is ours; the first that fails leaves the rest.
Exit ==
  /\ Ends
  /\ \E unloaded \in Unloading :
       /\ filter' = [i \in Ifs |-> IF i \in unloaded THEN 0 ELSE filter[i]]
       /\ maps' = IF engine /\ (setup => unloaded = ifs) THEN 0 ELSE maps
       /\ unclean' = IF engine THEN unclean \union (ifs \ unloaded) ELSE unclean

\* The process is killed: there is no exit handler.
Kill ==
  /\ Ends
  /\ unclean' = IF engine THEN unclean \union ifs ELSE unclean
  /\ UNCHANGED <<maps, filter>>

-----------------------------------------------------------------------------
(* The pipes.                                                              *)

\* setOffload() "create": the map sends what comes in on a side to the other side.
Created(r, from, to) == [r EXCEPT ![from] = to]

\* Mutant: with what leads there.
RemovedWithPeers(r, ts) == [t \in Tuples |-> IF t \in ts \/ r[t] \in ts THEN NoTuple ELSE r[t]]

\* setOffload() "remove": of 5-tuples.
Removed(r, ts) == [t \in Tuples |-> IF t \in ts THEN NoTuple ELSE r[t]]

\* The map that is open changes.
Redirect(r) ==
  redirect' = IF engine THEN [redirect EXCEPT ![maps] = r] ELSE redirect

Redirects == IF engine THEN redirect[maps] ELSE NoRedirect

Open(s, x) == socket[s][x] = "open"

Live(s) == tuple[s]["src"] # NoTuple

Offloadable(t) == t["src"] \in Tuples /\ t["dst"] \in Tuples

\* Stage.pipe() in both directions: each is offloaded when both sides are UDP, unless
\* the map does not take it.
Pipe(t) ==
  \E d \in SUBSET (IF Offloadable(t) THEN Sides ELSE {}) :
    LET one == IF "src" \in d THEN Created(Redirects, t["src"], t["dst"]) ELSE Redirects
        both == IF "dst" \in d THEN Created(one, t["dst"], t["src"]) ELSE one
    IN /\ Redirect(both)
       /\ hidden' = hidden \ {t[x] : x \in d}

\* 5-tuples a new socket may get: one no other socket has, or of a bound port.
Free(ts) == {t \in ts : \A s \in Sessions : t \notin {tuple[s][x] : x \in Sides}}

\* A session is connected: a client of a UDP listener to a UDP cluster, or to a cluster
\* of another kind.
Connect(s, c, d) ==
  /\ up /\ ~Live(s) /\ c \in Free(Clients)
  /\ d \in Free(Servers) \union Bound \union {"other"}
  /\ tuple' = [tuple EXCEPT ![s] = [src |-> c, dst |-> d]]
  /\ socket' = [socket EXCEPT ![s] = [x \in Sides |-> "open"]]
  /\ Pipe(tuple'[s])
  /\ UNCHANGED process

\* The unpipe handler looks the 5-tuple up at the socket of the stream that is no
\* longer piped; a socket that is closed has none.
Unpiped(s, xs) == {tuple[s][x] : x \in {y \in xs : Open(s, y)}}

\* destroy() calls the unpipe handler of every stage before it ends the stream.
End(s) ==
  /\ up /\ Live(s)
  /\ Redirect(Removed(Redirects, Unpiped(s, Sides)))
  /\ hidden' = hidden \ Unpiped(s, Sides)
  /\ tuple' = [tuple EXCEPT ![s] = NoSession[s]]
  /\ socket' = [socket EXCEPT ![s] = NoSocket[s]]
  /\ UNCHANGED process

\* A socket errs: its own pipe is removed by its handler, the pipe into it by the
\* stream that feeds it, and the stream is destroyed.
Fail(s, x) ==
  /\ up /\ Live(s) /\ Open(s, x)
  /\ Redirect(Removed(Redirects, Unpiped(s, Sides)))
  /\ hidden' = hidden \ Unpiped(s, Sides)
  /\ socket' = [socket EXCEPT ![s][x] = "failed"]
  /\ UNCHANGED <<process, tuple>>

\* The listener in singleton mode is deleted, which closes the session's socket: of a
\* closed socket the handler does not get the 5-tuple.
CloseListener(s) ==
  /\ up /\ Live(s) /\ Open(s, "src") /\ tuple[s]["src"] \in Singletons
  /\ Redirect(Removed(Redirects, Unpiped(s, {"dst"})))
  /\ hidden' = (hidden \ Unpiped(s, {"dst"})) \union {tuple[s]["src"]}
  /\ socket' = [socket EXCEPT ![s]["src"] = "deleted"]
  /\ UNCHANGED <<process, tuple>>

\* The endpoint of the destinations of sessions S is deleted, recursively: of those that
\* connect again, disconnect() destroys the stream without its handlers, and only what
\* is piped into it is removed; the others end.  The sessions of a bound port share it.
DeleteEndPoint(S, again) ==
  /\ up /\ S # {} /\ again \subseteq S
  /\ \A s \in S : Live(s) /\ Open(s, "dst") /\ tuple[s]["dst"] \in Servers
  /\ \A s \in S, u \in Sessions \ S : Open(u, "dst") => tuple[u]["dst"] # tuple[s]["dst"]
  /\ LET gone == UNION {Unpiped(s, IF s \in again THEN {"src"} ELSE Sides) : s \in S}
     IN /\ Redirect(Removed(Redirects, gone))
        /\ hidden' = (hidden \union {tuple[s]["dst"] : s \in again}) \ gone
  /\ tuple' = [s \in Sessions |-> IF s \in S \ again THEN NoSession[s] ELSE tuple[s]]
  /\ socket' = [s \in Sessions |->
                  IF s \in again THEN [socket[s] EXCEPT !["dst"] = "failed"]
                  ELSE IF s \in S THEN NoSocket[s] ELSE socket[s]]
  /\ UNCHANGED process

\* A destination is connected again, by a new socket, and a singleton listener by
\* binding its port again: repipe().
Reconnect(s, x, t) ==
  /\ up /\ Live(s) /\ socket[s][x] = "failed" /\ Open(s, Other(x))
  /\ IF x = "src" THEN t = tuple[s][x] /\ t \in Singletons
     ELSE tuple[s][x] \in Servers /\ t \in Free(Servers) \union Bound \union {tuple[s][x]}
  /\ tuple' = [tuple EXCEPT ![s][x] = t]
  /\ socket' = [socket EXCEPT ![s][x] = "open"]
  /\ Pipe(tuple'[s])
  /\ UNCHANGED process

\* The maps are of the LRU kind: the kernel drops entries.
Evict(t) ==
  /\ up /\ engine /\ Redirects[t] # NoTuple
  /\ Redirect(Removed(Redirects, {t}))
  /\ hidden' = hidden \ {t}
  /\ UNCHANGED <<process, tuple, socket>>

-----------------------------------------------------------------------------

Init ==
  /\ up = FALSE /\ engine = FALSE /\ setup = FALSE /\ ifs = {}
  /\ maps = 0 /\ starts = 0 /\ filter = [i \in Ifs |-> 0]
  /\ redirect = [n \in 1 .. MaxStarts |-> NoRedirect]
  /\ tuple = NoSession /\ socket = NoSocket
  /\ hidden = {} /\ unclean = {}

Next ==
  \/ \E i \in SUBSET Ifs, mode \in {"init", "no_init"} : i # {} /\ Start(i, mode)
  \/ StartDisabled \/ Exit \/ Kill
  \/ \E s \in Sessions :
       \/ \E c \in Clients, d \in Servers \union {"other"} : Connect(s, c, d)
       \/ End(s) \/ CloseListener(s)
       \/ \E x \in Sides : Fail(s, x) \/ (\E t \in Tuples : Reconnect(s, x, t))
  \/ \E S \in SUBSET Sessions : \E again \in SUBSET S : DeleteEndPoint(S, again)
  \/ \E t \in Tuples : Evict(t)

Spec == Init /\ [][Next]_vars

-----------------------------------------------------------------------------
(* Properties.                                                             *)

\* The type invariant: what the maps, interfaces and sockets hold.
TypeOK ==
  /\ up \in BOOLEAN /\ engine \in BOOLEAN /\ setup \in BOOLEAN /\ ifs \subseteq Ifs
  /\ starts \in 0 .. MaxStarts /\ maps \in 0 .. starts
  /\ filter \in [Ifs -> 0 .. starts]
  /\ redirect \in [1 .. MaxStarts -> [Tuples -> Tuples \union {NoTuple}]]
  /\ tuple \in [Sessions -> [Sides -> Tuples \union {"other", NoTuple}]]
  /\ socket \in [Sessions -> [Sides -> {"none", "open", "failed", "deleted"}]]
  /\ hidden \subseteq Tuples /\ unclean \subseteq Ifs

\* The kernel forwards nothing on behalf of sessions that are over, have failed or
\* were of an earlier process: an entry leads from one open socket of a session to
\* the other, unless a socket was closed under its pipe, by the deletion of a singleton
\* or by that of the endpoint of a session that connects again.
RedirectsAreOwned ==
  \A t \in Tuples \ hidden : Redirects[t] # NoTuple =>
    \E s \in Sessions, x \in Sides :
      /\ Open(s, x) /\ Open(s, Other(x))
      /\ t = tuple[s][x] /\ Redirects[t] = tuple[s][Other(x)]

\* An engine that runs has its filter on every interface, with the maps that it
\* writes, whatever earlier processes have left.
EngineIsLoaded ==
  engine => up /\ maps # 0 /\ \A i \in ifs : filter[i] = maps

\* An interface redirects for no process only if one that was killed, that did not
\* set it up, or whose init() or shutdown() failed has left its filter there.
NoFilterLeft ==
  \A i \in Ifs \ unclean : filter[i] # 0 => engine /\ i \in ifs

\* What happens to a session leaves the redirects of the others alone, but for a
\* 5-tuple of a bound port, which they share.
OthersKeepRedirects ==
  [][ \A s \in Sessions :
        UNCHANGED <<up, tuple[s], socket[s]>> /\ ~UNCHANGED <<tuple, socket>>
          => \A x \in Sides : tuple[s][x] \in Tuples \ Bound /\ Open(s, x)
               => (Redirects')[tuple[s][x]] = Redirects[tuple[s][x]] ]_vars
=============================================================================
