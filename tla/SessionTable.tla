----------------------------- MODULE SessionTable -----------------------------
(***************************************************************************)
(* The table of sessions: l7mp.sessions, an array searched by name.        *)
(* Sessions get their names when listeners emit them, are ended one by one *)
(* or with their listener or cluster, and are removed by name in a later   *)
(* turn of the event loop.  A session is reduced to what the table sees of *)
(* it; module Session has the rest.                                        *)
(*                                                                         *)
(* A session object is its number of birth, so that the order of the array *)
(* is the order of the numbers.                                            *)
(***************************************************************************)
EXTENDS Integers

CONSTANTS
  Listeners,
  Clusters,
  Peers,        \* the peers (ports) a listener that does not number names sessions after
  Numbered,     \* the listeners that number their sessions
  MaxAttempts,  \* MAX_NAME_ATTEMPTS
  MaxSessions,  \* bound: sessions emitted
  MaxCalls,     \* bound: API calls that end or delete something
  MaxAdds       \* bound: listeners and clusters added again

ASSUME TableAssumption ==
  /\ Numbered \subseteq Listeners /\ Peers \subseteq Nat
  /\ MaxAttempts \in Nat /\ MaxSessions \in Nat /\ MaxCalls \in Nat /\ MaxAdds \in Nat

Ids == 1 .. MaxSessions

VARIABLES
  born,       \* the number of sessions created
  table,      \* the sessions in l7mp.sessions
  name,       \* the names of the sessions: a base and a suffix
  origin,     \* the listener that emitted a session
  via,        \* the clusters of a session, none without a destination
  life,       \* unborn, in set-up, alive, over, or a zombie: connected after its end
  conn,       \* the stages of a session: connecting to a cluster, ready or idle
  reaps,      \* calls of deleteSession scheduled by a session
  listeners,  \* the listeners in the registry
  clusters,   \* the clusters in the registry
  sessionId,  \* the next number of every listener
  calls, adds, \* uses of the bounds
  endedTwice, \* history: the sessions that were ended again when they were over
  spared      \* history: those whose listener or cluster was deleted on its own

vars == <<born, table, name, origin, via, life, conn, reaps, listeners, clusters,
          sessionId, calls, adds, endedTwice, spared>>

identity == <<born, name, origin, via>>
registry == <<listeners, clusters, sessionId>>
bounds == <<calls, adds>>

Bases == Listeners \X Nat
NoName == <<>>
Names == Bases \X (0 .. MaxAttempts)

StageStatus == {"idle", "attempt", "backoff", "ready"}

TypeOK ==
  /\ born \in 0 .. MaxSessions
  /\ table \subseteq 1 .. born
  /\ name \in [Ids -> Names \union {NoName}]
  /\ origin \in [Ids -> Listeners \union {"none"}]
  /\ via \in [Ids -> SUBSET Clusters]
  /\ life \in [Ids -> {"unborn", "setup", "alive", "over", "zombie"}]
  /\ conn \in [Ids -> [Clusters -> StageStatus]]
  /\ reaps \in [Ids -> Nat]
  /\ listeners \subseteq Listeners /\ clusters \subseteq Clusters
  /\ sessionId \in [Listeners -> Nat]
  /\ calls \in Nat /\ adds \in Nat
  /\ endedTwice \subseteq Ids /\ spared \subseteq Ids

-----------------------------------------------------------------------------
(* Finding sessions and names.                                             *)

Holders(n) == {t \in table : name[t] = n}

\* A retry, or a disconnect, looks for its session by name.
Found(s) == Holders(name[s]) # {}

\* Faulty: when all attempts are used up the last name is taken.
FreeOrLast(base, i) == i = MaxAttempts \/ Holders(<<base, i>>) = {}

Free(base, i) == Holders(<<base, i>>) = {}

\* newName: the first suffix that makes a new name; it throws if there is none.
NewSuffix(base, i) == Free(base, i) /\ \A j \in 0 .. i - 1 : ~Free(base, j)

\* Faulty: one attempt more than MAX_NAME_ATTEMPTS allows.
SuffixesPlusOne == 0 .. MaxAttempts + 1

\* newName counts the attempts from 0 and throws above MAX_NAME_ATTEMPTS.
Suffixes == 0 .. MaxAttempts

Last(S) == {s \in S : \A t \in S : t <= s}

\* Faulty: -1, no session found, is taken for an index: the last one goes.
RemovedOrLast(s) == IF Found(s) THEN Holders(name[s]) ELSE Last(table)

\* Faulty: index 0 is taken for no session found.
RemovedNotFirst(s) == {t \in Holders(name[s]) : \E u \in table : u < t}

\* deleteSession: the first session with the name, none if there is none.
Removed(s) == {t \in Holders(name[s]) : \A u \in Holders(name[s]) : t <= u}

-----------------------------------------------------------------------------
(* The end of sessions.                                                    *)

\* The stages of s that are ready come to their end; connects go on.
Closed(stages) == [c \in Clusters |-> IF stages[c] = "ready" THEN "idle" ELSE stages[c]]

\* error() or end() of the sessions of S, whose stages are those of k by then, and
\* their 'destroy' events.
End(S, k) ==
  /\ life' = [s \in Ids |-> IF s \in S THEN "over" ELSE life[s]]
  /\ conn' = [s \in Ids |-> IF s \in S THEN Closed(k[s]) ELSE k[s]]
  /\ reaps' = [s \in Ids |-> IF s \in S THEN reaps[s] + 1 ELSE reaps[s]]
  /\ endedTwice' = endedTwice \union {s \in S : life[s] \in {"over", "zombie"}}

Continue(k) ==
  /\ conn' = k
  /\ UNCHANGED <<life, reaps, endedTwice>>

Stage(s, c, status) == [conn EXCEPT ![s][c] = status]

\* A session that has a stream, or is connecting its first ones, and is not over.
Live(s) == life[s] \in {"setup", "alive"}

\* The connect of s to c fails for good: a session that is over is ended once more,
\* unless the router has already seen its set-up fail.
GiveUp(s, c) ==
  \/ End({s}, Stage(s, c, "idle"))
  \/ life[s] = "over" /\ Continue(Stage(s, c, "idle"))

-----------------------------------------------------------------------------
(* Sessions are emitted and routed: emitSession and addSession.            *)

\* The number or the peer that a session of l is named after.
Marks(l) == IF l \in Numbered THEN {sessionId[l]} ELSE Peers

CountSession(l) ==
  sessionId' = IF l \in Numbered THEN [sessionId EXCEPT ![l] = @ + 1] ELSE sessionId

\* Every stage starts to connect in the first turn; the first attempt fails at
\* once for clusters that are missing, and is followed by retries or not.
FirstAttempts(v, failed) ==
  [c \in Clusters |-> IF c \notin v THEN "idle"
                      ELSE IF c \in clusters THEN "attempt" ELSE failed]

\* What router() makes of the new session s of l in its first turn: a failure,
\* with or without clusters to connect, or a pipeline that is being set up.
Routed(s, l, v) ==
  /\ UNCHANGED endedTwice
  /\ \/ /\ v = {}
        /\ life' = [life EXCEPT ![s] = "over"]
        /\ reaps' = [reaps EXCEPT ![s] = 1]
        /\ UNCHANGED conn
     \/ /\ l \in listeners /\ v # {}
        /\ life' = [life EXCEPT ![s] = "setup"]
        /\ conn' = [conn EXCEPT ![s] = FirstAttempts(v, "backoff")]
        /\ UNCHANGED reaps
     \/ /\ l \in listeners /\ ~(v \subseteq clusters)
        /\ life' = [life EXCEPT ![s] = "over"]
        /\ reaps' = [reaps EXCEPT ![s] = 1]
        /\ conn' = [conn EXCEPT ![s] = FirstAttempts(v, "idle")]

\* A listener emits a session; one that has just been deleted still may.
Emit(l, mark) ==
  LET s == born + 1
  IN  /\ born < MaxSessions
      /\ \E i \in Suffixes :
           /\ NewSuffix(<<l, mark>>, i)
           /\ name' = [name EXCEPT ![s] = <<<<l, mark>>, i>>]
      /\ born' = s
      /\ table' = table \union {s}
      /\ origin' = [origin EXCEPT ![s] = l]
      /\ \E v \in SUBSET Clusters :
           /\ via' = [via EXCEPT ![s] = v]
           /\ Routed(s, l, v)
      /\ CountSession(l)
      /\ UNCHANGED <<listeners, clusters, bounds, spared>>

\* Every name is taken: newName throws and there is no session.  It logs an error
\* before, which ends the process of l7mp-proxy.js; the model is of one that goes on.
Refuse(l, mark) ==
  /\ born < MaxSessions
  /\ \A i \in Suffixes : ~Free(<<l, mark>>, i)
  /\ CountSession(l)
  /\ Continue(conn)
  /\ UNCHANGED <<identity, table, listeners, clusters, bounds, spared>>

-----------------------------------------------------------------------------
(* Connects, and the losses that start them again.                         *)

\* An attempt succeeds.  With the last one the pipeline is complete, which the
\* set-up has waited for.  A session that is over comes back to life with a stage
\* that reconnects, or with all when its set-up was not given up.
AttemptSucceeds(s, c) ==
  /\ conn[s][c] = "attempt"
  /\ \/ /\ life[s] \in {"setup", "alive", "zombie"}
        /\ conn' = Stage(s, c, "ready")
        /\ life' = IF life[s] = "setup" /\ \A d \in via[s] : conn'[s][d] = "ready"
                   THEN [life EXCEPT ![s] = "alive"] ELSE life
     \/ /\ life[s] = "over"
        /\ conn' = Stage(s, c, "idle")
        /\ UNCHANGED life
     \/ /\ life[s] = "over"
        /\ \/ conn' = Stage(s, c, "ready")
           \/ /\ \A d \in via[s] \ {c} : conn[s][d] = "idle"
              /\ conn' = [conn EXCEPT ![s] =
                            [d \in Clusters |-> IF d \in via[s] THEN "ready" ELSE "idle"]]
        /\ life' = [life EXCEPT ![s] = "zombie"]
  /\ UNCHANGED <<identity, table, reaps, registry, bounds, endedTwice, spared>>

\* An attempt fails: there is a retry, or none is left, or none is made because
\* of the error.
AttemptFails(s, c) ==
  /\ conn[s][c] = "attempt"
  /\ Continue(Stage(s, c, "backoff")) \/ GiveUp(s, c)
  /\ UNCHANGED <<identity, table, registry, bounds, spared>>

\* The retry timer of a stage fires: "do not retry a session that has been
\* deleted".  The retry looks up the cluster of its own stage; if it is missing it
\* is retried, which changes nothing, until no retry is left.
RetryTimer(s, c) ==
  /\ conn[s][c] = "backoff"
  /\ \/ /\ Found(s) /\ c \in clusters
        /\ Continue(Stage(s, c, "attempt"))
     \/ /\ ~(Found(s) /\ c \in clusters)
        /\ GiveUp(s, c)
  /\ UNCHANGED <<identity, table, registry, bounds, spared>>

\* The stream to a cluster closes: reconnect, or end the session.
LoseStream(s, c) ==
  /\ life[s] \in {"alive", "zombie"} /\ conn[s][c] = "ready"
  /\ \/ /\ Found(s)
        /\ Continue(Stage(s, c, IF c \in clusters THEN "attempt" ELSE "backoff"))
     \/ End({s}, conn)
  /\ UNCHANGED <<identity, table, registry, bounds, spared>>

\* The stream of the listener closes and is not reconnected.
LoseSource(s) ==
  /\ life[s] = "alive"
  /\ End({s}, conn)
  /\ UNCHANGED <<identity, table, registry, bounds, spared>>

-----------------------------------------------------------------------------
(* The API, and the removal of sessions.                                   *)

CallAllowed == calls < MaxCalls /\ calls' = calls + 1

\* DELETE of a session that is in the table, over or not.
EndSession(s) ==
  /\ CallAllowed
  /\ s \in table
  /\ End({s}, conn)
  /\ UNCHANGED <<identity, table, registry, adds, spared>>

EmittedBy(l) == {s \in table : origin[s] = l}

\* DELETE of a listener, with its sessions if it is recursive.
DeleteListener(l, recursive) ==
  /\ CallAllowed
  /\ l \in listeners
  /\ \/ recursive /\ End(EmittedBy(l), conn) /\ UNCHANGED spared
     \/ ~recursive /\ Continue(conn) /\ spared' = spared \union EmittedBy(l)
  /\ listeners' = listeners \ {l}
  /\ UNCHANGED <<identity, table, clusters, sessionId, adds>>

RoutedVia(c) == {s \in table : c \in via[s]}

\* Faulty: a session without a destination does not stop the deletion.
ThrowsNever == FALSE

\* The loop over the sessions throws at the first one without a destination.
Throws == \E s \in table : via[s] = {}
Scanned == {s \in table : \A t \in table : t <= s => via[t] # {}}

\* The deletion of the endpoints, which comes next, throws at a stage of a chain
\* that has no endpoint: of a session that is not connected, or no longer.
SomeUnconnected == \E s \in table : \E c \in via[s] : conn[s][c] # "ready"

\* DELETE of a cluster, with the sessions routed via it if it is recursive.
DeleteCluster(c, recursive) ==
  /\ CallAllowed
  /\ c \in clusters
  /\ \/ /\ recursive
        /\ End(RoutedVia(c) \intersect Scanned, conn)
        /\ \/ ~Throws /\ clusters' = clusters \ {c}
           \/ (Throws \/ SomeUnconnected) /\ UNCHANGED clusters
        /\ UNCHANGED spared
     \/ /\ ~recursive
        /\ Continue(conn)
        /\ clusters' = clusters \ {c}
        /\ spared' = spared \union RoutedVia(c)
  /\ UNCHANGED <<identity, table, listeners, sessionId, adds>>

AddAllowed == adds < MaxAdds /\ adds' = adds + 1

\* A new listener, with the name of a deleted one, numbers from the start.
AddListener(l) ==
  /\ AddAllowed
  /\ l \notin listeners
  /\ listeners' = listeners \union {l}
  /\ sessionId' = [sessionId EXCEPT ![l] = 0]
  /\ Continue(conn)
  /\ UNCHANGED <<identity, table, clusters, calls, spared>>

AddCluster(c) ==
  /\ AddAllowed
  /\ c \notin clusters
  /\ clusters' = clusters \union {c}
  /\ Continue(conn)
  /\ UNCHANGED <<identity, table, listeners, sessionId, calls, spared>>

\* The callback of a 'destroy' event of s, after the tracking time if any,
\* removes a session by the name of s.
Reap(s) ==
  /\ reaps[s] > 0
  /\ reaps' = [reaps EXCEPT ![s] = @ - 1]
  /\ table' = table \ Removed(s)
  /\ UNCHANGED <<identity, life, conn, registry, bounds, endedTwice, spared>>

-----------------------------------------------------------------------------

Init ==
  /\ born = 0
  /\ table = {}
  /\ name = [s \in Ids |-> NoName]
  /\ origin = [s \in Ids |-> "none"]
  /\ via = [s \in Ids |-> {}]
  /\ life = [s \in Ids |-> "unborn"]
  /\ conn = [s \in Ids |-> [c \in Clusters |-> "idle"]]
  /\ reaps = [s \in Ids |-> 0]
  /\ listeners = Listeners
  /\ clusters = Clusters
  /\ sessionId = [l \in Listeners |-> 0]
  /\ calls = 0 /\ adds = 0
  /\ endedTwice = {} /\ spared = {}

Next ==
  \/ \E l \in Listeners : \E mark \in Marks(l) : Emit(l, mark)
  \/ \E l \in Listeners : \E mark \in Marks(l) : Refuse(l, mark)
  \/ \E s \in Ids : \E c \in Clusters : AttemptSucceeds(s, c)
  \/ \E s \in Ids : \E c \in Clusters : AttemptFails(s, c)
  \/ \E s \in Ids : \E c \in Clusters : RetryTimer(s, c)
  \/ \E s \in Ids : \E c \in Clusters : LoseStream(s, c)
  \/ \E s \in Ids : LoseSource(s)
  \/ \E s \in Ids : EndSession(s)
  \/ \E l \in Listeners : \E recursive \in BOOLEAN : DeleteListener(l, recursive)
  \/ \E c \in Clusters : \E recursive \in BOOLEAN : DeleteCluster(c, recursive)
  \/ \E l \in Listeners : AddListener(l)
  \/ \E c \in Clusters : AddCluster(c)
  \/ \E s \in Ids : Reap(s)

\* The event loop runs the callbacks that are due.
Fairness == \A s \in Ids : WF_vars(Reap(s))

Spec == Init /\ [][Next]_vars /\ Fairness

-----------------------------------------------------------------------------
(* Safety.                                                                 *)

\* No two sessions of the table have one name, although sessions are named in
\* one turn, ended in another and removed in a third: looking up a name finds
\* the only session with it.
NamesUnique == \A s, t \in table : name[s] = name[t] => s = t

\* A session before s had its name and was ended more than once.
PredecessorEndedTwice(s) ==
  \E t \in endedTwice : t < s /\ name[t] = name[s]

\* A session that is not over is in the table: it can be listed, deleted and
\* retried.  Removals go by name, some time after the end, and there is one for
\* every end: only the second removal of an earlier session, one that was ended
\* twice, may hit a session that has taken its name meanwhile.
AliveIsListed ==
  \A s \in Ids : Live(s) => s \in table \/ PredecessorEndedTwice(s)

\* What a session that can be listed runs on is in the registry, its listener and
\* the clusters its stages have got to, unless that was deleted on its own: a
\* recursive deletion leaves no session behind, whatever is in progress, also when
\* its loop over the sessions throws at one that the router has given up, and a
\* listener that has been deleted starts none.
ServedByRegistry ==
  \A s \in table \ spared : Live(s) =>
    /\ origin[s] \in listeners
    /\ \A c \in via[s] : conn[s][c] # "backoff" => c \in clusters

-----------------------------------------------------------------------------
(* Liveness.                                                               *)

\* A session that is over leaves the table, also when it comes back to life or
\* shares its name with sessions before and after it.
OverLeaves == \A s \in Ids : life[s] = "over" ~> s \notin table
=============================================================================
