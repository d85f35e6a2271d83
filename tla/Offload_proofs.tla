---------------------------- MODULE Offload_proofs ----------------------------
(* Proofs about Offload, for any interfaces, sessions, sockets and number of  *)
(* starts.                                                                    *)
EXTENDS Offload, TLAPS

-----------------------------------------------------------------------------
(* Type correctness.                                                       *)

Maps == [Tuples -> Tuples \union {NoTuple}]

\* The maps and sockets of a process that has just started.
LEMMA NothingTypes ==
  /\ NoRedirect \in Maps
  /\ NoSession \in [Sessions -> [Sides -> Tuples \union {"other", NoTuple}]]
  /\ NoSocket \in [Sessions -> [Sides -> {"none", "open", "failed", "deleted"}]]
BY DEF NoRedirect, NoSession, NoSocket, Maps

\* The map that is open, and what the pipes make of it, is a map.
LEMMA RedirectsType == TypeOK /\ (engine => maps # 0) => Redirects \in Maps
BY OffloadAssumption DEF TypeOK, Redirects, NoRedirect, Maps

LEMMA CreatedType ==
  ASSUME NEW r \in Maps, NEW from \in Tuples, NEW to \in Tuples
  PROVE  Created(r, from, to) \in Maps
BY DEF Created, Maps

LEMMA RemovedType ==
  ASSUME NEW r \in Maps, NEW ts
  PROVE  Removed(r, ts) \in Maps
BY DEF Removed, Maps

\* Writing the open map.
LEMMA RedirectType ==
  ASSUME TypeOK, engine => maps # 0, NEW r \in Maps, Redirect(r)
  PROVE  redirect' \in [1 .. MaxStarts -> Maps]
BY OffloadAssumption DEF TypeOK, Redirect, Maps

\* What piping a session does to the map and to the 5-tuples that are hidden: each
\* entry is an old one, or it leads from one side of the session to the other.
LEMMA Piped ==
  ASSUME TypeOK, engine => maps # 0, NEW t \in [Sides -> Tuples \union {"other", NoTuple}],
         Pipe(t)
  PROVE  \E r \in Maps :
           /\ Redirect(r) /\ hidden' \subseteq hidden
           /\ \A u \in Tuples : \/ r[u] = Redirects[u] /\ (u \in hidden => u \in hidden')
                                \/ \E x \in Sides : u = t[x] /\ r[u] = t[Other(x)]
<1>1. PICK d \in SUBSET (IF Offloadable(t) THEN Sides ELSE {}) :
        LET one == IF "src" \in d THEN Created(Redirects, t["src"], t["dst"]) ELSE Redirects
            both == IF "dst" \in d THEN Created(one, t["dst"], t["src"]) ELSE one
        IN Redirect(both) /\ hidden' = hidden \ {t[x] : x \in d}
  BY DEF Pipe
<1> DEFINE one == IF "src" \in d THEN Created(Redirects, t["src"], t["dst"]) ELSE Redirects
           both == IF "dst" \in d THEN Created(one, t["dst"], t["src"]) ELSE one
<1>2. Redirects \in Maps
  BY RedirectsType
<1>3. d # {} => t["src"] \in Tuples /\ t["dst"] \in Tuples
  BY DEF Offloadable
<1>4. one \in Maps
  BY <1>2, <1>3, CreatedType
<1>5. both \in Maps
  BY <1>3, <1>4, CreatedType
<1>6. ASSUME NEW u \in Tuples
      PROVE  \/ one[u] = Redirects[u] /\ ("src" \in d => u # t["src"])
             \/ u = t["src"] /\ one[u] = t["dst"]
  BY <1>2, <1>3 DEF Created, Maps
<1>7. ASSUME NEW u \in Tuples
      PROVE  \/ both[u] = one[u] /\ ("dst" \in d => u # t["dst"])
             \/ u = t["dst"] /\ both[u] = t["src"]
  BY <1>3, <1>4 DEF Created, Maps
<1>8. d \subseteq {"src", "dst"}
  BY DEF Sides
<1>9. ASSUME NEW u \in Tuples
      PROVE  \/ both[u] = Redirects[u] /\ (u \in hidden => u \in hidden')
             \/ \E x \in Sides : u = t[x] /\ both[u] = t[Other(x)]
  <2>1. CASE u = t["dst"] /\ both[u] = t["src"]
    BY <2>1 DEF Sides, Other
  <2>2. CASE both[u] = one[u] /\ u = t["src"] /\ one[u] = t["dst"]
    BY <2>2 DEF Sides, Other
  <2>3. CASE /\ both[u] = one[u] /\ ("dst" \in d => u # t["dst"])
             /\ one[u] = Redirects[u] /\ ("src" \in d => u # t["src"])
    BY <2>3, <1>1, <1>8
  <2>4. QED
    BY <1>6, <1>7, <2>1, <2>2, <2>3
<1>10. Redirect(both) /\ hidden' \subseteq hidden
  BY <1>1
<1>11. QED
  BY <1>5, <1>9, <1>10

-----------------------------------------------------------------------------
(* The inductive invariant.                                                *)

\* The engine of a process that runs has pinned maps and writes those of its own
\* start; maps of starts to come are empty; a process that does not run has no socket.
EngineInv ==
  /\ engine => up /\ maps = starts /\ maps # 0
  /\ \A n \in 1 .. MaxStarts : n > starts => redirect[n] = NoRedirect
  /\ \A i \in ifs : engine => filter[i] = maps
  /\ \A i \in Ifs \ unclean : filter[i] # 0 => engine /\ i \in ifs

OffloadInv == TypeOK /\ EngineInv /\ RedirectsAreOwned

LEMMA InitOffload == Init => OffloadInv
<1> SUFFICES ASSUME Init PROVE OffloadInv
  OBVIOUS
<1>1. TypeOK
  <2>1. redirect \in [1 .. MaxStarts -> Maps]
    BY NothingTypes DEF Init
  <2>2. filter \in [Ifs -> 0 .. starts] /\ starts \in 0 .. MaxStarts /\ maps \in 0 .. starts
    BY OffloadAssumption DEF Init
  <2>3. QED
    BY NothingTypes, <2>1, <2>2 DEF Init, TypeOK, Maps
<1>2. EngineInv
  BY DEF Init, EngineInv
<1>3. RedirectsAreOwned
  BY OffloadAssumption DEF Init, RedirectsAreOwned, Redirects, NoRedirect
<1>4. QED
  BY <1>1, <1>2, <1>3 DEF OffloadInv

-----------------------------------------------------------------------------
(* Processes that start and end.                                           *)

LEMMA StartKeeps ==
  ASSUME OffloadInv, NEW i \in SUBSET Ifs, i # {}, NEW mode, Start(i, mode)
  PROVE  OffloadInv'
<1>1. PICK loaded \in SUBSET i, done \in BOOLEAN :
        /\ done => loaded = i
        /\ Load(loaded, done)
        /\ ifs' = i
        /\ unclean' = IF done THEN unclean \ i ELSE unclean \union loaded
  BY DEF Start, Loading
<1>2. /\ starts' = starts + 1 /\ starts' \in 1 .. MaxStarts /\ starts \in Nat
      /\ up' = TRUE /\ ~engine /\ hidden' = {} /\ setup' \in BOOLEAN
      /\ UNCHANGED <<redirect, tuple, socket>>
  BY OffloadAssumption DEF Start, OffloadInv, TypeOK, EngineInv
<1>3. maps' = (IF loaded = {} THEN 0 ELSE starts') /\ engine' = done
      /\ filter' = [j \in Ifs |-> IF j \in loaded THEN starts' ELSE filter[j]]
  BY <1>1, <1>2 DEF Load
<1>4. TypeOK'
  BY <1>1, <1>2, <1>3 DEF OffloadInv, TypeOK
<1>5. engine' => loaded = i /\ maps' = starts'
  BY <1>1, <1>3
<1>6. EngineInv'
  <2>1. starts' # 0
    BY <1>2
  <2>2. \A n \in 1 .. MaxStarts : n > starts' => redirect'[n] = NoRedirect
    BY <1>2 DEF OffloadInv, EngineInv
  <2>3. \A j \in ifs' : engine' => filter'[j] = maps'
    BY <1>1, <1>3, <1>5
  <2>4. \A j \in Ifs \ unclean' : filter'[j] # 0 => engine' /\ j \in ifs'
    <3>1. ASSUME NEW j \in Ifs \ unclean', filter'[j] # 0 PROVE engine' /\ j \in ifs'
      <4>1. CASE done
        BY <1>1, <1>2, <1>3, <3>1, <4>1 DEF OffloadInv, EngineInv
      <4>2. CASE ~done
        BY <1>1, <1>2, <1>3, <3>1, <4>2 DEF OffloadInv, EngineInv
      <4>3. QED
        BY <4>1, <4>2
    <3>2. QED
      BY <3>1
  <2>5. QED
    BY <1>2, <1>5, <2>1, <2>2, <2>3, <2>4 DEF EngineInv
<1>7. RedirectsAreOwned'
  <2>1. engine' => Redirects' = NoRedirect
    <3>1. starts' \in 1 .. MaxStarts /\ starts' > starts
      BY <1>2
    <3>2. QED
      BY <1>2, <1>5, <3>1 DEF OffloadInv, EngineInv, Redirects
  <2>2. ~engine' => Redirects' = NoRedirect
    BY DEF Redirects, NoRedirect
  <2>3. QED
    BY <2>1, <2>2 DEF RedirectsAreOwned, NoRedirect
<1>8. QED
  BY <1>4, <1>6, <1>7 DEF OffloadInv

LEMMA StartDisabledKeeps == ASSUME OffloadInv, StartDisabled PROVE OffloadInv'
<1>1. /\ starts' = starts + 1 /\ starts' \in 0 .. MaxStarts /\ engine' = FALSE
      /\ UNCHANGED <<maps, filter, redirect, tuple, socket, unclean>>
  BY OffloadAssumption DEF StartDisabled, OffloadInv, TypeOK, EngineInv
<1>2. TypeOK'
  <2>1. TypeOK /\ up' = TRUE /\ setup' = FALSE /\ ifs' = {} /\ hidden' = {}
    BY DEF StartDisabled, OffloadInv
  <2>2. filter' \in [Ifs -> 0 .. starts'] /\ maps' \in 0 .. starts'
    BY <1>1, <2>1 DEF TypeOK
  <2>3. QED
    BY <1>1, <2>1, <2>2 DEF TypeOK
<1>3. EngineInv'
  <2>1. \A n \in 1 .. MaxStarts : n > starts' => redirect'[n] = NoRedirect
    <3>1. starts \in Nat /\ starts' > starts
      BY <1>1, OffloadAssumption DEF StartDisabled, OffloadInv, TypeOK
    <3>2. QED
      BY <1>1, <3>1, OffloadAssumption DEF OffloadInv, EngineInv
  <2>2. ~engine
    BY DEF StartDisabled, OffloadInv, EngineInv
  <2>3. QED
    BY <1>1, <2>1, <2>2 DEF OffloadInv, EngineInv
<1>4. RedirectsAreOwned'
  BY <1>1 DEF RedirectsAreOwned, Redirects, NoRedirect
<1>5. QED
  BY <1>2, <1>3, <1>4 DEF OffloadInv

\* A process that ends owns no redirects, and no filter that it has not left behind.
LEMMA EndsKeeps ==
  ASSUME OffloadInv, Ends, maps' \in {0, maps},
         unclean' \subseteq Ifs, unclean \subseteq unclean',
         filter' \in [Ifs -> 0 .. starts],
         \A i \in Ifs : filter'[i] \in {0, filter[i]},
         engine => \A i \in ifs : filter'[i] = 0 \/ i \in unclean'
  PROVE  OffloadInv'
<1>1. engine' = FALSE /\ up' = FALSE /\ UNCHANGED <<setup, ifs, starts, redirect, hidden>>
  BY DEF Ends
<1>2. TypeOK'
  <2>1. TypeOK /\ maps' \in 0 .. starts
    BY DEF OffloadInv, TypeOK
  <2>2. tuple' = NoSession /\ socket' = NoSocket
    BY DEF Ends
  <2>3. QED
    BY NothingTypes, <1>1, <2>1, <2>2 DEF TypeOK
<1>3. EngineInv'
  BY <1>1 DEF OffloadInv, EngineInv
<1>4. RedirectsAreOwned'
  BY <1>1 DEF RedirectsAreOwned, Redirects, NoRedirect
<1>5. QED
  BY <1>2, <1>3, <1>4 DEF OffloadInv

LEMMA ExitKeeps == ASSUME OffloadInv, Exit PROVE OffloadInv'
<1>1. PICK unloaded \in Unloading :
        /\ filter' = [i \in Ifs |-> IF i \in unloaded THEN 0 ELSE filter[i]]
        /\ maps' = IF engine /\ (setup => unloaded = ifs) THEN 0 ELSE maps
        /\ unclean' = IF engine THEN unclean \union (ifs \ unloaded) ELSE unclean
  BY DEF Exit
<1>2. filter' \in [Ifs -> 0 .. starts]
  BY <1>1 DEF OffloadInv, TypeOK
<1>3. engine => \A i \in ifs : filter'[i] = 0 \/ i \in unclean'
  BY <1>1 DEF OffloadInv, TypeOK
<1>4. unclean' \subseteq Ifs /\ unclean \subseteq unclean' /\ maps' \in {0, maps}
  BY <1>1 DEF OffloadInv, TypeOK
<1>5. \A i \in Ifs : filter'[i] \in {0, filter[i]}
  BY <1>1
<1>6. QED
  BY <1>2, <1>3, <1>4, <1>5, EndsKeeps DEF Exit

LEMMA KillKeeps == ASSUME OffloadInv, Kill PROVE OffloadInv'
<1>1. unclean' \subseteq Ifs /\ unclean \subseteq unclean'
  BY DEF Kill, OffloadInv, TypeOK
<1>2. filter' = filter /\ maps' = maps /\ filter \in [Ifs -> 0 .. starts]
  BY DEF Kill, OffloadInv, TypeOK
<1>3. engine => ifs \subseteq unclean'
  BY DEF Kill
<1>4. QED
  BY <1>1, <1>2, <1>3, EndsKeeps DEF Kill

-----------------------------------------------------------------------------
(* Sessions.                                                               *)

\* The pipe of a redirect, of a 5-tuple t of session s.
Owns(s, x, t, to) ==
  /\ Open(s, x) /\ Open(s, Other(x))
  /\ t = tuple[s][x] /\ to = tuple[s][Other(x)]

\* Steps of sessions leave the engine alone and write the map that is open.
LEMMA SessionKeeps ==
  ASSUME OffloadInv, UNCHANGED process, NEW r \in Maps, Redirect(r),
         tuple' \in [Sessions -> [Sides -> Tuples \union {"other", NoTuple}]],
         socket' \in [Sessions -> [Sides -> {"none", "open", "failed", "deleted"}]],
         hidden' \subseteq Tuples,
         engine => \A t \in Tuples \ hidden' : r[t] # NoTuple =>
                     \E s \in Sessions, x \in Sides : Owns(s, x, t, r[t])'
  PROVE  OffloadInv'
<1>1. UNCHANGED <<up, engine, setup, ifs, maps, starts, filter, unclean>>
  BY DEF process
<1>2. redirect' \in [1 .. MaxStarts -> Maps]
  BY RedirectType DEF OffloadInv, EngineInv
<1>3. TypeOK'
  BY <1>1, <1>2 DEF OffloadInv, TypeOK, Maps
<1>4. \A n \in 1 .. MaxStarts : n > starts => redirect'[n] = redirect[n]
  BY <1>1 DEF Redirect, OffloadInv, EngineInv, TypeOK
<1>5. EngineInv'
  BY <1>1, <1>4 DEF OffloadInv, EngineInv
<1>6. engine => Redirects' = r
  BY <1>1, OffloadAssumption DEF Redirect, Redirects, OffloadInv, EngineInv, TypeOK
<1>7. ~engine => Redirects' = NoRedirect
  BY <1>1 DEF Redirects, NoRedirect
<1>8. RedirectsAreOwned'
  BY <1>6, <1>7 DEF RedirectsAreOwned, NoRedirect, Owns
<1>9. QED
  BY <1>3, <1>5, <1>8 DEF OffloadInv

\* A redirect that nobody hides has a pipe.
LEMMA Owner ==
  ASSUME OffloadInv, engine, NEW t \in Tuples \ hidden, Redirects[t] # NoTuple
  PROVE  \E s \in Sessions, x \in Sides : Owns(s, x, t, Redirects[t])
BY DEF OffloadInv, RedirectsAreOwned, Owns

\* Sessions lose pipes, and with each its redirects, or they are hidden.
LEMMA DropKeeps ==
  ASSUME OffloadInv, UNCHANGED process, NEW ts, Redirect(Removed(Redirects, ts)),
         tuple' \in [Sessions -> [Sides -> Tuples \union {"other", NoTuple}]],
         socket' \in [Sessions -> [Sides -> {"none", "open", "failed", "deleted"}]],
         hidden' \subseteq Tuples, hidden \ hidden' \subseteq ts,
         \A s \in Sessions : \/ tuple'[s] = tuple[s] /\ socket'[s] = socket[s]
                            \/ \A x \in Sides : Open(s, x) /\ Open(s, Other(x)) =>
                                 tuple[s][x] \in ts \union hidden'
  PROVE  OffloadInv'
<1>1. PICK r \in Maps : r = Removed(Redirects, ts)
  BY RedirectsType, RemovedType DEF OffloadInv, EngineInv
<1>2. ASSUME engine, NEW t \in Tuples \ hidden', r[t] # NoTuple
      PROVE  \E s \in Sessions, x \in Sides : Owns(s, x, t, r[t])'
  <2>1. t \notin ts /\ t \in Tuples \ hidden /\ r[t] = Redirects[t]
    BY <1>1, <1>2 DEF Removed
  <2>2. PICK s \in Sessions, x \in Sides : Owns(s, x, t, r[t])
    BY <1>2, <2>1, Owner
  <2>3. tuple'[s] = tuple[s] /\ socket'[s] = socket[s]
    BY <1>2, <2>1, <2>2 DEF Owns
  <2>4. QED
    BY <2>2, <2>3 DEF Owns, Open
<1>3. QED
  BY <1>1, <1>2, SessionKeeps

LEMMA EndKeeps == ASSUME OffloadInv, NEW s \in Sessions, End(s) PROVE OffloadInv'
<1> DEFINE ts == Unpiped(s, Sides)
<1>1. /\ tuple' \in [Sessions -> [Sides -> Tuples \union {"other", NoTuple}]]
      /\ socket' \in [Sessions -> [Sides -> {"none", "open", "failed", "deleted"}]]
      /\ hidden' \subseteq Tuples /\ hidden \ hidden' \subseteq ts
  BY NothingTypes DEF End, OffloadInv, TypeOK
<1>2. \A x \in Sides : Open(s, x) => tuple[s][x] \in ts
  BY DEF Unpiped
<1>3. \A u \in Sessions : u = s \/ (tuple'[u] = tuple[u] /\ socket'[u] = socket[u])
  BY DEF End, OffloadInv, TypeOK
<1>4. QED
  BY <1>1, <1>2, <1>3, DropKeeps DEF End

LEMMA FailKeeps ==
  ASSUME OffloadInv, NEW s \in Sessions, NEW y \in Sides, Fail(s, y) PROVE OffloadInv'
<1> DEFINE ts == Unpiped(s, Sides)
<1>1. /\ tuple' \in [Sessions -> [Sides -> Tuples \union {"other", NoTuple}]]
      /\ socket' \in [Sessions -> [Sides -> {"none", "open", "failed", "deleted"}]]
      /\ hidden' \subseteq Tuples /\ hidden \ hidden' \subseteq ts
  BY DEF Fail, OffloadInv, TypeOK
<1>2. \A x \in Sides : Open(s, x) => tuple[s][x] \in ts
  BY DEF Unpiped
<1>3. \A u \in Sessions : u = s \/ (tuple'[u] = tuple[u] /\ socket'[u] = socket[u])
  BY DEF Fail, OffloadInv, TypeOK
<1>4. QED
  BY <1>1, <1>2, <1>3, DropKeeps DEF Fail

\* Of the sessions that connect again, the redirect of the destination is hidden; of
\* those that end, both are removed.
LEMMA DeleteEndPointKeeps ==
  ASSUME OffloadInv, NEW S \in SUBSET Sessions, NEW again \in SUBSET S,
         DeleteEndPoint(S, again)
  PROVE  OffloadInv'
<1>1. PICK gone : gone = UNION {Unpiped(s, IF s \in again THEN {"src"} ELSE Sides) : s \in S}
  OBVIOUS
<1>2. /\ UNCHANGED process /\ Redirect(Removed(Redirects, gone))
      /\ hidden' = (hidden \union {tuple[s]["dst"] : s \in again}) \ gone
      /\ \A s \in S : tuple[s]["dst"] \in Servers
  BY <1>1 DEF DeleteEndPoint
<1>3. hidden' \subseteq Tuples /\ hidden \ hidden' \subseteq gone
  BY <1>2 DEF OffloadInv, TypeOK, Tuples
<1>4. tuple' = [s \in Sessions |-> IF s \in S \ again THEN NoSession[s] ELSE tuple[s]]
  BY DEF DeleteEndPoint
<1>5. socket' = [s \in Sessions |->
                  IF s \in again THEN [socket[s] EXCEPT !["dst"] = "failed"]
                  ELSE IF s \in S THEN NoSocket[s] ELSE socket[s]]
  BY DEF DeleteEndPoint
<1>6. tuple' \in [Sessions -> [Sides -> Tuples \union {"other", NoTuple}]]
  BY <1>4, NothingTypes DEF OffloadInv, TypeOK
<1>7. socket' \in [Sessions -> [Sides -> {"none", "open", "failed", "deleted"}]]
  BY <1>5, NothingTypes DEF OffloadInv, TypeOK, Sides
<1>8. ASSUME NEW s \in S, NEW x \in Sides, Open(s, x)
      PROVE  tuple[s][x] \in gone \union hidden'
  <2>1. CASE s \in again /\ x = "dst"
    BY <1>2, <2>1
  <2>2. CASE s \notin again \/ x = "src"
    <3>1. PICK ys : ys = IF s \in again THEN {"src"} ELSE Sides
      OBVIOUS
    <3>2. x \in ys /\ tuple[s][x] \in Unpiped(s, ys)
      BY <1>8, <2>2, <3>1 DEF Unpiped
    <3>3. Unpiped(s, ys) \in {Unpiped(u, IF u \in again THEN {"src"} ELSE Sides) : u \in S}
      BY <3>1
    <3>4. QED
      BY <1>1, <3>2, <3>3
  <2>3. QED
    BY <2>1, <2>2 DEF Sides
<1>9. \A s \in Sessions \ S : tuple'[s] = tuple[s] /\ socket'[s] = socket[s]
  BY <1>4, <1>5
<1>10. QED
  BY <1>2, <1>3, <1>6, <1>7, <1>8, <1>9, DropKeeps

\* The redirect of the closed socket is hidden, that of the other side is removed.
LEMMA CloseListenerKeeps ==
  ASSUME OffloadInv, NEW s \in Sessions, CloseListener(s) PROVE OffloadInv'
<1> DEFINE ts == Unpiped(s, {"dst"})
<1>1. /\ tuple' \in [Sessions -> [Sides -> Tuples \union {"other", NoTuple}]]
      /\ socket' \in [Sessions -> [Sides -> {"none", "open", "failed", "deleted"}]]
      /\ hidden' \subseteq Tuples /\ hidden \ hidden' \subseteq ts
  <2>1. tuple[s]["src"] \in Tuples /\ hidden \subseteq Tuples
    BY OffloadAssumption DEF CloseListener, OffloadInv, TypeOK, Tuples
  <2>2. QED
    BY <2>1 DEF CloseListener, OffloadInv, TypeOK
<1>2. \A x \in Sides : Open(s, x) => tuple[s][x] \in ts \union hidden'
  BY DEF Unpiped, Sides, CloseListener
<1>3. \A u \in Sessions : u = s \/ (tuple'[u] = tuple[u] /\ socket'[u] = socket[u])
  BY DEF CloseListener, OffloadInv, TypeOK
<1>4. QED
  BY <1>1, <1>2, <1>3, DropKeeps DEF CloseListener

LEMMA EvictKeeps == ASSUME OffloadInv, NEW t \in Tuples, Evict(t) PROVE OffloadInv'
<1>1. /\ tuple' \in [Sessions -> [Sides -> Tuples \union {"other", NoTuple}]]
      /\ socket' \in [Sessions -> [Sides -> {"none", "open", "failed", "deleted"}]]
      /\ hidden' \subseteq Tuples /\ hidden \ hidden' \subseteq {t}
  BY DEF Evict, OffloadInv, TypeOK
<1>2. QED
  BY <1>1, DropKeeps DEF Evict

\* A session is piped that was not: its redirects are its own, also those that it
\* takes from a session with which it shares a bound port.
LEMMA PipeKeeps ==
  ASSUME OffloadInv, UNCHANGED process, NEW s \in Sessions, Pipe(tuple'[s]),
         tuple' \in [Sessions -> [Sides -> Tuples \union {"other", NoTuple}]],
         socket' \in [Sessions -> [Sides -> {"none", "open", "failed", "deleted"}]],
         \A x \in Sides : Open(s, x)' /\ ~(Open(s, x) /\ Open(s, Other(x))),
         \A u \in Sessions \ {s} : tuple'[u] = tuple[u] /\ socket'[u] = socket[u]
  PROVE  OffloadInv'
<1>1. PICK t : t = tuple'[s]
  OBVIOUS
<1>2. t \in [Sides -> Tuples \union {"other", NoTuple}] /\ Pipe(t)
  BY <1>1
<1>3. PICK r \in Maps :
        /\ Redirect(r) /\ hidden' \subseteq hidden
        /\ \A u \in Tuples : \/ r[u] = Redirects[u] /\ (u \in hidden => u \in hidden')
                             \/ \E x \in Sides : u = t[x] /\ r[u] = t[Other(x)]
  BY <1>2, Piped DEF OffloadInv, EngineInv
<1>4. ASSUME engine, NEW u \in Tuples \ hidden', r[u] # NoTuple
      PROVE  \E v \in Sessions, x \in Sides : Owns(v, x, u, r[u])'
  <2>1. CASE \E x \in Sides : u = t[x] /\ r[u] = t[Other(x)]
    <3>1. \A x \in Sides : Other(x) \in Sides
      BY DEF Other, Sides
    <3>2. QED
      BY <1>1, <2>1, <3>1 DEF Owns
  <2>2. CASE r[u] = Redirects[u] /\ u \notin hidden
    <3>1. PICK v \in Sessions, x \in Sides : Owns(v, x, u, r[u])
      BY <1>4, <2>2, Owner
    <3>2. v # s /\ tuple'[v] = tuple[v] /\ socket'[v] = socket[v]
      BY <3>1 DEF Owns
    <3>3. QED
      BY <3>1, <3>2 DEF Owns, Open
  <2>3. QED
    BY <1>3, <2>1, <2>2
<1>5. hidden' \subseteq Tuples
  BY <1>3 DEF OffloadInv, TypeOK
<1>6. QED
  BY <1>3, <1>4, <1>5, SessionKeeps

LEMMA ConnectKeeps ==
  ASSUME OffloadInv, NEW s \in Sessions, NEW c \in Clients,
         NEW d \in Servers \union {"other"}, Connect(s, c, d),
         tuple[s]["src"] = NoTuple => \A x \in Sides : ~Open(s, x)
  PROVE  OffloadInv'
<1>1. /\ tuple' \in [Sessions -> [Sides -> Tuples \union {"other", NoTuple}]]
      /\ socket' \in [Sessions -> [Sides -> {"none", "open", "failed", "deleted"}]]
  BY DEF Connect, OffloadInv, TypeOK, Sides, Tuples
<1>2. \A x \in Sides : Open(s, x)' /\ ~Open(s, x)
  BY DEF Connect, Live, Open, OffloadInv, TypeOK
<1>3. \A u \in Sessions \ {s} : tuple'[u] = tuple[u] /\ socket'[u] = socket[u]
  BY DEF Connect, OffloadInv, TypeOK
<1>4. QED
  BY <1>1, <1>2, <1>3, PipeKeeps DEF Connect

LEMMA ReconnectKeeps ==
  ASSUME OffloadInv, NEW s \in Sessions, NEW y \in Sides, NEW t \in Tuples, Reconnect(s, y, t)
  PROVE  OffloadInv'
<1>1. /\ tuple' \in [Sessions -> [Sides -> Tuples \union {"other", NoTuple}]]
      /\ socket' \in [Sessions -> [Sides -> {"none", "open", "failed", "deleted"}]]
  BY DEF Reconnect, OffloadInv, TypeOK
<1>2. socket[s][y] = "failed" /\ Open(s, Other(y)) /\ socket' = [socket EXCEPT ![s][y] = "open"]
  BY DEF Reconnect
<1>3. \A x \in Sides : x = y \/ x = Other(y)
  BY DEF Sides, Other
<1>4. \A x \in Sides : Open(s, x)' /\ ~(Open(s, x) /\ Open(s, Other(x)))
  BY <1>2, <1>3 DEF Open, OffloadInv, TypeOK, Sides, Other
<1>5. \A u \in Sessions \ {s} : tuple'[u] = tuple[u] /\ socket'[u] = socket[u]
  BY DEF Reconnect, OffloadInv, TypeOK
<1>6. QED
  BY <1>1, <1>4, <1>5, PipeKeeps DEF Reconnect

-----------------------------------------------------------------------------
(* The theorems.                                                           *)

\* A session that is not there has no open socket.
AbsentInv == \A s \in Sessions : ~Live(s) => \A x \in Sides : ~Open(s, x)

LEMMA NextAbsent ==
  ASSUME OffloadInv, AbsentInv, [Next]_vars
  PROVE  AbsentInv'
<1>1. ASSUME Ends PROVE AbsentInv'
  BY <1>1 DEF Ends, AbsentInv, Open, NoSocket
<1>2. ASSUME UNCHANGED <<tuple, socket>> PROVE AbsentInv'
  BY <1>2 DEF AbsentInv, Open, Live
<1>3. ASSUME NEW s \in Sessions, NEW c \in Clients, NEW d \in Servers \union {"other"},
             Connect(s, c, d)
      PROVE  AbsentInv'
  BY <1>3, OffloadAssumption DEF Connect, AbsentInv, Open, Live, OffloadInv, TypeOK, Sides, Tuples
<1>4. ASSUME NEW s \in Sessions, End(s) PROVE AbsentInv'
  BY <1>4 DEF End, AbsentInv, Open, Live, NoSession, NoSocket, OffloadInv, TypeOK
<1>5. ASSUME NEW s \in Sessions, CloseListener(s) PROVE AbsentInv'
  BY <1>5 DEF CloseListener, AbsentInv, Open, Live, OffloadInv, TypeOK
<1>6. ASSUME NEW s \in Sessions, NEW x \in Sides, Fail(s, x) PROVE AbsentInv'
  BY <1>6 DEF Fail, AbsentInv, Open, Live, OffloadInv, TypeOK
<1>7. ASSUME NEW s \in Sessions, NEW x \in Sides, NEW t \in Tuples, Reconnect(s, x, t)
      PROVE  AbsentInv'
  BY <1>7, OffloadAssumption DEF Reconnect, AbsentInv, Open, Live, OffloadInv, TypeOK, Tuples, Sides
<1>8. ASSUME NEW S \in SUBSET Sessions, NEW again \in SUBSET S, DeleteEndPoint(S, again)
      PROVE  AbsentInv'
  <2>1. /\ tuple' = [s \in Sessions |-> IF s \in S \ again THEN NoSession[s] ELSE tuple[s]]
        /\ socket' = [s \in Sessions |->
                       IF s \in again THEN [socket[s] EXCEPT !["dst"] = "failed"]
                       ELSE IF s \in S THEN NoSocket[s] ELSE socket[s]]
        /\ \A s \in S : Live(s)
    BY <1>8 DEF DeleteEndPoint
  <2>2. ASSUME NEW s \in Sessions, ~Live(s)', NEW x \in Sides PROVE ~Open(s, x)'
    <3>1. CASE s \in S \ again
      BY <2>1, <3>1 DEF Open, NoSocket
    <3>2. CASE s \in again
      BY <2>1, <2>2, <3>2 DEF Live
    <3>3. CASE s \notin S
      BY <2>1, <2>2, <3>3 DEF Live, Open, AbsentInv
    <3>4. QED
      BY <3>1, <3>2, <3>3
  <2>3. QED
    BY <2>2 DEF AbsentInv
<1>9. QED
  BY <1>1, <1>2, <1>3, <1>4, <1>5, <1>6, <1>7, <1>8
     DEF Next, vars, Start, StartDisabled, Exit, Kill, Evict

LEMMA NextOffload ==
  ASSUME OffloadInv, AbsentInv, [Next]_vars
  PROVE  OffloadInv'
<1>1. ASSUME NEW i \in SUBSET Ifs, i # {}, NEW mode \in {"init", "no_init"}, Start(i, mode)
      PROVE  OffloadInv'
  BY <1>1, StartKeeps
<1>2. ASSUME NEW s \in Sessions, NEW c \in Clients, NEW d \in Servers \union {"other"},
             Connect(s, c, d)
      PROVE  OffloadInv'
  BY <1>2, ConnectKeeps DEF AbsentInv, Live
<1>3. ASSUME UNCHANGED vars PROVE OffloadInv'
  BY <1>3 DEF vars, OffloadInv, TypeOK, EngineInv, RedirectsAreOwned, Redirects, Open
<1>4. QED
  BY <1>1, <1>2, <1>3, StartDisabledKeeps, ExitKeeps, KillKeeps, EndKeeps, CloseListenerKeeps,
     FailKeeps, ReconnectKeeps, DeleteEndPointKeeps, EvictKeeps DEF Next

LEMMA OffloadInvariant == Spec => [](OffloadInv /\ AbsentInv)
<1>1. Init => OffloadInv /\ AbsentInv
  BY InitOffload DEF Init, AbsentInv, Open, NoSocket
<1>2. OffloadInv /\ AbsentInv /\ [Next]_vars => (OffloadInv /\ AbsentInv)'
  BY NextOffload, NextAbsent
<1>3. QED
  BY <1>1, <1>2, PTL DEF Spec

\* The maps lead from 5-tuples to 5-tuples, and filters are of starts so far
\* (UDPOffload, and the sockets of the sessions).
THEOREM OffloadTypeCorrect == Spec => []TypeOK
<1>1. OffloadInv => TypeOK
  BY DEF OffloadInv
<1>2. QED
  BY <1>1, OffloadInvariant, PTL

\* For any sessions that share clients and bound ports, the kernel forwards only
\* between the open sockets of one session, but for a 5-tuple whose socket was closed
\* under its pipe (Stage.pipe, UDPOffload.setOffload).
THEOREM KernelFollowsPipes == Spec => []RedirectsAreOwned
<1>1. OffloadInv => RedirectsAreOwned
  BY DEF OffloadInv
<1>2. QED
  BY <1>1, OffloadInvariant, PTL

\* Whatever failed, was killed or was left by earlier processes, an engine that runs has
\* its own maps in the filter of each of its interfaces (UDPOffload.init).
THEOREM EnginesLoaded == Spec => []EngineIsLoaded
<1>1. OffloadInv => EngineIsLoaded
  BY DEF OffloadInv, EngineInv, EngineIsLoaded
<1>2. QED
  BY <1>1, OffloadInvariant, PTL

\* A filter without its process was left by one that was killed or could not clean up
\* (UDPOffload.shutdown).
THEOREM FiltersAccounted == Spec => []NoFilterLeft
<1>1. OffloadInv => NoFilterLeft
  BY DEF OffloadInv, EngineInv, NoFilterLeft
<1>2. QED
  BY <1>1, OffloadInvariant, PTL

-----------------------------------------------------------------------------
(* The redirects of other sessions.                                        *)

\* Sessions share no 5-tuple but a bound one.
SharedInv ==
  \A s, u \in Sessions, x, y \in Sides :
    s # u /\ tuple[s][x] = tuple[u][y] /\ tuple[s][x] \in Tuples => tuple[s][x] \in Bound

\* A step changes the 5-tuples of at most one session, for some that are bound or that
\* nobody has.
LEMMA SharedKeeps ==
  ASSUME TypeOK, SharedInv, NEW s \in Sessions,
         tuple' \in [Sessions -> [Sides -> Tuples \union {"other", NoTuple}]],
         \A u \in Sessions \ {s} : tuple'[u] = tuple[u],
         \A x \in Sides : tuple'[s][x] \in Tuples =>
           \/ tuple'[s][x] = tuple[s][x] \/ tuple'[s][x] \in Bound
           \/ \A u \in Sessions \ {s}, y \in Sides : tuple[u][y] # tuple'[s][x]
  PROVE  SharedInv'
<1>1. ASSUME NEW u \in Sessions, NEW v \in Sessions, NEW x \in Sides, NEW y \in Sides,
             u # v, tuple'[u][x] = tuple'[v][y], tuple'[u][x] \in Tuples
      PROVE  tuple'[u][x] \in Bound
  <2>1. CASE u # s /\ v # s
    BY <1>1, <2>1 DEF SharedInv
  <2>2. CASE u = s
    BY <1>1, <2>2 DEF SharedInv
  <2>3. CASE v = s
    BY <1>1, <2>3 DEF SharedInv
  <2>4. QED
    BY <2>1, <2>2, <2>3
<1>2. QED
  BY <1>1 DEF SharedInv

LEMMA NextShared == ASSUME TypeOK, SharedInv, [Next]_vars PROVE SharedInv'
<1>1. ASSUME UNCHANGED tuple PROVE SharedInv'
  BY <1>1 DEF SharedInv
<1>2. ASSUME Ends PROVE SharedInv'
  BY <1>2, OffloadAssumption DEF Ends, SharedInv, NoSession, Tuples
<1>3. ASSUME NEW s \in Sessions, NEW c \in Clients, NEW d \in Servers \union {"other"},
             Connect(s, c, d)
      PROVE  SharedInv'
  <2>1. /\ tuple' = [tuple EXCEPT ![s] = [src |-> c, dst |-> d]]
        /\ c \in Free(Clients) /\ d \in Free(Servers) \union Bound \union {"other"}
    BY <1>3 DEF Connect
  <2>2. /\ tuple' \in [Sessions -> [Sides -> Tuples \union {"other", NoTuple}]]
        /\ \A u \in Sessions \ {s} : tuple'[u] = tuple[u]
        /\ tuple'[s]["src"] = c /\ tuple'[s]["dst"] = d
    BY <2>1 DEF TypeOK, Sides, Tuples
  <2>3. \A ts, t : t \in Free(ts) => \A u \in Sessions \ {s}, y \in Sides : tuple[u][y] # t
    BY DEF Free
  <2>4. "other" \notin Tuples
    BY OffloadAssumption DEF Tuples
  <2>5. QED
    BY <2>1, <2>2, <2>3, <2>4, SharedKeeps DEF Sides
<1>4. ASSUME NEW s \in Sessions, End(s) PROVE SharedInv'
  <2>1. tuple' = [tuple EXCEPT ![s] = NoSession[s]] /\ \A x \in Sides : NoSession[s][x] = NoTuple
    BY <1>4 DEF End, NoSession
  <2>2. /\ tuple' \in [Sessions -> [Sides -> Tuples \union {"other", NoTuple}]]
        /\ \A u \in Sessions \ {s} : tuple'[u] = tuple[u]
        /\ \A x \in Sides : tuple'[s][x] = NoTuple
    BY <2>1, NothingTypes DEF TypeOK
  <2>3. NoTuple \notin Tuples
    BY OffloadAssumption DEF Tuples
  <2>4. QED
    BY <2>2, <2>3, SharedKeeps
<1>5. ASSUME NEW s \in Sessions, NEW x \in Sides, NEW t \in Tuples, Reconnect(s, x, t)
      PROVE  SharedInv'
  <2>1. /\ tuple' = [tuple EXCEPT ![s][x] = t]
        /\ t = tuple[s][x] \/ t \in Free(Servers) \union Bound
    BY <1>5 DEF Reconnect
  <2>2. /\ tuple' \in [Sessions -> [Sides -> Tuples \union {"other", NoTuple}]]
        /\ \A u \in Sessions \ {s} : tuple'[u] = tuple[u]
        /\ \A y \in Sides : tuple'[s][y] = IF y = x THEN t ELSE tuple[s][y]
    BY <2>1 DEF TypeOK
  <2>3. t \in Free(Servers) => \A u \in Sessions \ {s}, y \in Sides : tuple[u][y] # t
    BY DEF Free
  <2>4. QED
    BY <2>1, <2>2, <2>3, SharedKeeps
<1>6. ASSUME NEW S \in SUBSET Sessions, NEW again \in SUBSET S, DeleteEndPoint(S, again)
      PROVE  SharedInv'
  <2>1. tuple' = [s \in Sessions |-> IF s \in S \ again THEN NoSession[s] ELSE tuple[s]]
    BY <1>6 DEF DeleteEndPoint
  <2>2. \A s \in Sessions, x \in Sides : tuple'[s][x] \in {tuple[s][x], NoTuple}
    BY <2>1 DEF NoSession
  <2>3. NoTuple \notin Tuples
    BY OffloadAssumption DEF Tuples
  <2>4. QED
    BY <2>2, <2>3 DEF SharedInv
<1>7. QED
  BY <1>1, <1>2, <1>3, <1>4, <1>5, <1>6
     DEF Next, vars, Start, StartDisabled, Exit, Kill, Evict, Fail, CloseListener

\* The redirect of a 5-tuple that is not written stays.
LEMMA RedirectStays ==
  ASSUME OffloadInv, UNCHANGED process, NEW r \in Maps, Redirect(r), NEW t \in Tuples,
         r[t] = Redirects[t]
  PROVE  (Redirects')[t] = Redirects[t]
<1>1. engine' = engine /\ maps' = maps
  BY DEF process
<1>2. CASE ~engine
  BY <1>1, <1>2 DEF Redirects, NoRedirect
<1>3. CASE engine
  <2>1. maps \in 1 .. MaxStarts /\ redirect' = [redirect EXCEPT ![maps] = r]
    BY <1>3, OffloadAssumption DEF Redirect, OffloadInv, EngineInv, TypeOK
  <2>2. Redirects' = r
    BY <1>1, <1>3, <2>1 DEF Redirects, OffloadInv, TypeOK
  <2>3. QED
    BY <2>2
<1>4. QED
  BY <1>2, <1>3

\* The step is one of sessions us, and changes no redirect but those of their 5-tuples.
Touches(us) ==
  /\ \A s \in Sessions \ us : tuple'[s] = tuple[s] /\ socket'[s] = socket[s]
  /\ \A t \in Tuples : \/ (Redirects')[t] = Redirects[t]
                       \/ \E u \in us, x \in Sides : t = tuple[u][x] \/ t = tuple'[u][x]

\* A step of sessions us writes redirects of 5-tuples that they have, before or after.
LEMMA OwnRedirects ==
  ASSUME OffloadInv, UNCHANGED process, NEW us \in SUBSET Sessions, NEW r \in Maps, Redirect(r),
         \A s \in Sessions \ us : tuple'[s] = tuple[s] /\ socket'[s] = socket[s],
         \A t \in Tuples : \/ r[t] = Redirects[t]
                           \/ \E u \in us, x \in Sides : t = tuple[u][x] \/ t = tuple'[u][x]
  PROVE  Touches(us)
<1>1. ASSUME NEW t \in Tuples, r[t] = Redirects[t] PROVE (Redirects')[t] = Redirects[t]
  BY <1>1, RedirectStays
<1>2. QED
  BY <1>1 DEF Touches

\* Sessions us lose redirects that are theirs.
LEMMA DropTouches ==
  ASSUME OffloadInv, UNCHANGED process, NEW us \in SUBSET Sessions, NEW ts,
         Redirect(Removed(Redirects, ts)),
         \A t \in ts : \E u \in us, x \in Sides : t = tuple[u][x],
         \A s \in Sessions \ us : tuple'[s] = tuple[s] /\ socket'[s] = socket[s]
  PROVE  Touches(us)
<1>1. PICK r \in Maps : r = Removed(Redirects, ts)
  BY RedirectsType, RemovedType DEF OffloadInv, EngineInv
<1>2. \A t \in Tuples : r[t] = Redirects[t] \/ \E u \in us, x \in Sides : t = tuple[u][x]
  BY <1>1 DEF Removed
<1>3. Redirect(r)
  BY <1>1
<1>4. QED
  BY <1>2, <1>3, OwnRedirects

LEMMA PipeTouches ==
  ASSUME OffloadInv, UNCHANGED process, NEW u \in Sessions, Pipe(tuple'[u]),
         tuple' \in [Sessions -> [Sides -> Tuples \union {"other", NoTuple}]],
         \A s \in Sessions \ {u} : tuple'[s] = tuple[s] /\ socket'[s] = socket[s]
  PROVE  Touches({u})
<1>1. PICK p : p = tuple'[u]
  OBVIOUS
<1>2. p \in [Sides -> Tuples \union {"other", NoTuple}] /\ Pipe(p)
  BY <1>1
<1>3. PICK r \in Maps :
        /\ Redirect(r) /\ hidden' \subseteq hidden
        /\ \A t \in Tuples : \/ r[t] = Redirects[t] /\ (t \in hidden => t \in hidden')
                             \/ \E x \in Sides : t = p[x] /\ r[t] = p[Other(x)]
  BY <1>2, Piped DEF OffloadInv, EngineInv
<1>4. \A t \in Tuples : \/ r[t] = Redirects[t]
                        \/ \E v \in {u}, x \in Sides : t = tuple[v][x] \/ t = tuple'[v][x]
  BY <1>1, <1>3
<1>5. {u} \in SUBSET Sessions
  OBVIOUS
<1>6. QED
  BY <1>3, <1>4, <1>5, OwnRedirects

LEMMA UnpipedIsOwn ==
  ASSUME NEW s, NEW xs \in SUBSET Sides
  PROVE  \A t \in Unpiped(s, xs) : \E u \in {s}, x \in Sides : t = tuple[u][x]
BY DEF Unpiped

\* A step that changes sessions, while the process runs, is one of some sessions, each
\* of which it changes.
LEMMA NextTouches ==
  ASSUME OffloadInv, Next, up' = up, ~UNCHANGED <<tuple, socket>>
  PROVE  \E us \in SUBSET Sessions :
           /\ Touches(us)
           /\ \A u \in us : ~UNCHANGED <<tuple[u], socket[u]>> \/ us = {u}
<1>1. \/ \E s \in Sessions :
           \/ \E c \in Clients, d \in Servers \union {"other"} : Connect(s, c, d)
           \/ End(s) \/ CloseListener(s)
           \/ \E x \in Sides : Fail(s, x) \/ (\E t \in Tuples : Reconnect(s, x, t))
      \/ \E S \in SUBSET Sessions : \E again \in SUBSET S : DeleteEndPoint(S, again)
  BY DEF Next, Start, StartDisabled, Exit, Kill, Ends, Evict
<1>2. ASSUME NEW s \in Sessions, NEW c \in Clients, NEW d \in Servers \union {"other"},
             Connect(s, c, d)
      PROVE  Touches({s})
  <2>1. /\ tuple' \in [Sessions -> [Sides -> Tuples \union {"other", NoTuple}]]
        /\ \A u \in Sessions \ {s} : tuple'[u] = tuple[u] /\ socket'[u] = socket[u]
    BY <1>2 DEF Connect, OffloadInv, TypeOK, Sides, Tuples
  <2>2. QED
    BY <1>2, <2>1, PipeTouches DEF Connect
<1>3. ASSUME NEW s \in Sessions, NEW x \in Sides, NEW t \in Tuples, Reconnect(s, x, t)
      PROVE  Touches({s})
  <2>1. /\ tuple' \in [Sessions -> [Sides -> Tuples \union {"other", NoTuple}]]
        /\ \A u \in Sessions \ {s} : tuple'[u] = tuple[u] /\ socket'[u] = socket[u]
    BY <1>3 DEF Reconnect, OffloadInv, TypeOK
  <2>2. QED
    BY <1>3, <2>1, PipeTouches DEF Reconnect
<1>4. ASSUME NEW s \in Sessions, NEW ys \in SUBSET Sides, UNCHANGED process,
             Redirect(Removed(Redirects, Unpiped(s, ys))),
             \A u \in Sessions \ {s} : tuple'[u] = tuple[u] /\ socket'[u] = socket[u]
      PROVE  Touches({s})
  <2>1. {s} \in SUBSET Sessions
    OBVIOUS
  <2>2. QED
    BY <1>4, <2>1, UnpipedIsOwn, DropTouches
<1>5. ASSUME NEW s \in Sessions, End(s) PROVE Touches({s})
  <2>1. \A u \in Sessions \ {s} : tuple'[u] = tuple[u] /\ socket'[u] = socket[u]
    BY <1>5 DEF End, OffloadInv, TypeOK
  <2>2. QED
    BY <1>4, <1>5, <2>1 DEF End
<1>6. ASSUME NEW s \in Sessions, NEW x \in Sides, Fail(s, x) PROVE Touches({s})
  <2>1. \A u \in Sessions \ {s} : tuple'[u] = tuple[u] /\ socket'[u] = socket[u]
    BY <1>6 DEF Fail, OffloadInv, TypeOK
  <2>2. QED
    BY <1>4, <1>6, <2>1 DEF Fail
<1>7. ASSUME NEW s \in Sessions, CloseListener(s) PROVE Touches({s})
  <2>1. \A u \in Sessions \ {s} : tuple'[u] = tuple[u] /\ socket'[u] = socket[u]
    BY <1>7 DEF CloseListener, OffloadInv, TypeOK
  <2>2. {"dst"} \in SUBSET Sides
    BY DEF Sides
  <2>3. QED
    BY <1>4, <1>7, <2>1, <2>2 DEF CloseListener
<1>8. ASSUME NEW S \in SUBSET Sessions, NEW again \in SUBSET S, DeleteEndPoint(S, again)
      PROVE  Touches(S) /\ \A u \in S : ~UNCHANGED <<tuple[u], socket[u]>>
  <2>1. PICK gone : gone = UNION {Unpiped(s, IF s \in again THEN {"src"} ELSE Sides) : s \in S}
    OBVIOUS
  <2>2. UNCHANGED process /\ Redirect(Removed(Redirects, gone)) /\ \A s \in S : Open(s, "dst")
    BY <1>8, <2>1 DEF DeleteEndPoint
  <2>3. tuple' = [s \in Sessions |-> IF s \in S \ again THEN NoSession[s] ELSE tuple[s]]
    BY <1>8 DEF DeleteEndPoint
  <2>4. socket' = [s \in Sessions |->
                    IF s \in again THEN [socket[s] EXCEPT !["dst"] = "failed"]
                    ELSE IF s \in S THEN NoSocket[s] ELSE socket[s]]
    BY <1>8 DEF DeleteEndPoint
  <2>5. \A t \in gone : \E u \in S, x \in Sides : t = tuple[u][x]
    BY <2>1 DEF Unpiped, Sides
  <2>6. \A s \in Sessions \ S : tuple'[s] = tuple[s] /\ socket'[s] = socket[s]
    BY <2>3, <2>4
  <2>7. Touches(S)
    BY <2>2, <2>5, <2>6, DropTouches
  <2>8. ASSUME NEW u \in S PROVE socket'[u] # socket[u]
    <3>1. socket[u] \in [Sides -> {"none", "open", "failed", "deleted"}] /\ socket[u]["dst"] = "open"
      BY <2>2 DEF Open, OffloadInv, TypeOK
    <3>2. socket'[u]["dst"] \in {"failed", "none"}
      BY <2>4, <3>1 DEF NoSocket, Sides
    <3>3. QED
      BY <3>1, <3>2
  <2>9. QED
    BY <2>7, <2>8
<1>9. \A s \in Sessions : Touches({s}) => \E us \in SUBSET Sessions :
           /\ Touches(us)
           /\ \A u \in us : ~UNCHANGED <<tuple[u], socket[u]>> \/ us = {u}
  OBVIOUS
<1>10. QED
  BY <1>1, <1>2, <1>3, <1>5, <1>6, <1>7, <1>8, <1>9

\* What happens to some sessions, their end, their failures, the deletion of their
\* endpoint and what they are connected to again, leaves the redirects of the others
\* alone, whoever shares a bound port with whom (Stage.pipe and its unpipe handlers,
\* UDPOffload.setOffload).
THEOREM SessionsKeepApart == Spec => OthersKeepRedirects
<1> DEFINE Apart(s) ==
      UNCHANGED <<up, tuple[s], socket[s]>> /\ ~UNCHANGED <<tuple, socket>>
        => \A x \in Sides : tuple[s][x] \in Tuples \ Bound /\ Open(s, x)
             => (Redirects')[tuple[s][x]] = Redirects[tuple[s][x]]
<1>1. ASSUME OffloadInv, OffloadInv', SharedInv, SharedInv', Next, NEW s \in Sessions
      PROVE  Apart(s)
  <2>1. SUFFICES ASSUME up' = up, tuple'[s] = tuple[s], socket'[s] = socket[s],
                        ~UNCHANGED <<tuple, socket>>,
                        NEW x \in Sides, tuple[s][x] \in Tuples \ Bound
                 PROVE  (Redirects')[tuple[s][x]] = Redirects[tuple[s][x]]
    OBVIOUS
  <2>2. PICK us \in SUBSET Sessions :
          /\ Touches(us)
          /\ \A u \in us : ~UNCHANGED <<tuple[u], socket[u]>> \/ us = {u}
    BY <1>1, <2>1, NextTouches
  <2>3. s \notin us
    <3>1. SUFFICES ASSUME us = {s} PROVE FALSE
      BY <2>1, <2>2
    <3>2. \A v \in Sessions : tuple'[v] = tuple[v] /\ socket'[v] = socket[v]
      BY <2>1, <2>2, <3>1 DEF Touches
    <3>3. tuple' = tuple /\ socket' = socket
      BY <1>1, <3>2 DEF OffloadInv, TypeOK
    <3>4. QED
      BY <2>1, <3>3
  <2>4. \A u \in us, y \in Sides : tuple[s][x] # tuple[u][y] /\ tuple[s][x] # tuple'[u][y]
    BY <1>1, <2>1, <2>3 DEF SharedInv
  <2>5. QED
    BY <2>1, <2>2, <2>4 DEF Touches
<1>2. OffloadInv /\ OffloadInv' /\ SharedInv /\ SharedInv' /\ [Next]_vars
        => [\A s \in Sessions : Apart(s)]_vars
  BY <1>1
<1>3. Init => SharedInv
  BY OffloadAssumption DEF Init, SharedInv, NoSession, Tuples
<1>4. OffloadInv /\ SharedInv /\ [Next]_vars => SharedInv'
  BY NextShared DEF OffloadInv
<1>5. OthersKeepRedirects <=> [][\A s \in Sessions : Apart(s)]_vars
  BY DEF OthersKeepRedirects
<1> HIDE DEF Apart
<1>6. QED
  BY <1>2, <1>3, <1>4, <1>5, OffloadInvariant, PTL DEF Spec
=============================================================================
