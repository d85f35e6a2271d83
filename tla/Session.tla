------------------------------- MODULE Session -------------------------------
(***************************************************************************)
(* One l7mp session: the source stream handed over by a listener, the      *)
(* stages of its ingress and egress chains and its destination, each with  *)
(* its own connection and retry machinery, and the life of the session in  *)
(* the proxy's session table.                                              *)
(*                                                                         *)
(* The proxy is a single-threaded event loop.  A step of this module is    *)
(* one macrotask of the loop (a connection attempt settling, a retry timer *)
(* firing, a stream closing, an API call, a setImmediate callback) with    *)
(* all the promise reactions that run before the loop turns again.         *)
(***************************************************************************)
EXTENDS Integers, Sequences, FiniteSets

CONSTANTS
  Source,       \* the stage of the listener's stream
  Destination,  \* the stage of the route's destination cluster
  Ingress,      \* the ingress chain, a sequence of stages
  Egress,       \* the egress chain, a sequence of stages
  Retriable,    \* the stages that a retry policy may reconnect
  Policies,     \* the route.retry values considered
  MaxFaults,    \* bound: streams that close by themselves
  MaxCalls,     \* bound: API calls that end the session or delete an endpoint
  MaxToggles    \* bound: listeners and clusters added to or deleted from the API

\* The non-source stages, one per element of the chains plus the destination.
Clusters ==
  {Ingress[i] : i \in DOMAIN Ingress} \union
  {Egress[i] : i \in DOMAIN Egress} \union {Destination}

Stages == Clusters \union {Source}

RetryModes == {"always", "connect-failure", "disconnect", "never"}

ASSUME StagesAssumption ==
  /\ Source \notin Clusters
  /\ IsFiniteSet(Clusters)
  /\ Retriable \subseteq Stages

ASSUME PoliciesAssumption ==
  Policies \subseteq [retry_on : RetryModes, num_retries : Nat]

ASSUME BoundsAssumption ==
  MaxFaults \in Nat /\ MaxCalls \in Nat /\ MaxToggles \in Nat

\* The two directions of the pipeline and the pipes they consist of.
IngressPath == <<Source>> \o Ingress \o <<Destination>>
EgressPath == <<Destination>> \o Egress \o <<Source>>

PipesOf(path) == {<<path[i], path[i + 1]>> : i \in 1 .. Len(path) - 1}

Pipes == PipesOf(IngressPath) \union PipesOf(EgressPath)

\* Faulty: a stage is piped with any other stage.
PipesAtAnything(st) == {p \in Stages \X Stages : st \in {p[1], p[2]}}

PipesAt(st) == {p \in Pipes : st \in {p[1], p[2]}}

VARIABLES
  policy,    \* the retry policy of the session's copy of the route
  status,    \* session.status
  listed,    \* the session is in l7mp.sessions
  gone,      \* history: destroy() has run
  reaps,     \* calls of deleteSession scheduled by 'destroy' events
  pipeline,  \* the promise of pipeline(): new, running, ready or failed
  active,    \* session.active_streams
  stage,     \* the status of every stage
  stream,    \* the state of every stage's current stream
  conn,      \* the connect/reconnect in progress at every stage
  tries,     \* the number of the latest attempt of that connect
  piped,     \* the pipes in place between current streams
  origins,   \* the stages whose listener or cluster exists
  faults, calls, toggles  \* uses of the three bounds

vars == <<policy, status, listed, gone, reaps, pipeline, active, stage, stream,
          conn, tries, piped, origins, faults, calls, toggles>>

bounds == <<faults, calls, toggles>>
registry == <<listed, origins, policy>>

StageStatus ==
  {"ABSENT", "INIT", "CONNECTED", "READY", "DISCONNECTED", "RETRYING", "END"}

TypeOK ==
  /\ policy \in Policies
  /\ status \in {"INIT", "CONNECTED", "DESTROYED"}
  /\ listed \in BOOLEAN
  /\ gone \in BOOLEAN
  /\ reaps \in Nat
  /\ pipeline \in {"new", "running", "ready", "failed"}
  /\ active \in Int
  /\ stage \in [Stages -> StageStatus]
  /\ stream \in [Stages -> {"none", "open", "ending", "closed"}]
  /\ conn \in [Stages -> {"idle", "attempt", "backoff"}]
  /\ tries \in [Stages -> Nat]
  /\ piped \in SUBSET Pipes
  /\ origins \in SUBSET Stages
  /\ faults \in Nat /\ calls \in Nat /\ toggles \in Nat

-----------------------------------------------------------------------------
(* Derived from the retry policy.                                          *)

SetupRetries ==
  IF policy.retry_on \in {"connect-failure", "always"} THEN policy.num_retries ELSE 0

\* Faulty: the first reconnect attempt is not counted.
ReconnectRetriesPlusOne == policy.num_retries

ReconnectRetries ==
  IF policy.num_retries > 0 THEN policy.num_retries - 1 ELSE 0

\* The retries allowed to the connect() in progress at st; a source is
\* reconnected by its listener, in one attempt.
Retries(st) ==
  IF pipeline # "ready" THEN SetupRetries
  ELSE IF st = Source THEN 0 ELSE ReconnectRetries

\* Faulty: a loss is also heeded while an earlier one is being handled.
HeedsAlways(st) == stage[st] \in {"READY", "DISCONNECTED", "RETRYING"}

\* disconnect() ignores a stage that is not READY.
Heeds(st) == stage[st] = "READY"

\* 'close' and 'error' handlers are on st's stream: set when the pipeline is
\* complete or st reconnected, removed by disconnect() and destroy().
Watched(st) == pipeline = "ready" /\ stage[st] = "READY"

\* Faulty: a retry looks at the status, which 'destroy' has overwritten.
SessionNotFinalizing == status # "FINALIZING"

\* connect() finds its session in the table.
SessionFound == listed

NumStreams == Cardinality(Clusters)

-----------------------------------------------------------------------------
(* The end of a session: error() and end(), which only differ in the event *)
(* they emit, both followed by destroy().  stg and str are the stages and  *)
(* streams at the time of the call.                                        *)

\* destroy() leaves a stage that waits for its retry timer alone.
EndedStages(stg) ==
  [st \in Stages |-> IF stg[st] \in {"ABSENT", "RETRYING"} THEN stg[st] ELSE "END"]

\* Faulty: the status is set to END before the stream is ended.
EndedStreamsLate(stg, str) == str

EndedStreams(stg, str) ==
  [st \in Stages |->
     IF str[st] = "open" /\ stg[st] \notin {"RETRYING", "END"}
     THEN "ending" ELSE str[st]]

\* Faulty: 'destroy' is only emitted when no stage is retrying.
FinalizeWhenIdle(stg, str) ==
  /\ stage' = EndedStages(stg)
  /\ stream' = EndedStreams(stg, str)
  /\ status' = "DESTROYED"
  /\ gone' = TRUE
  /\ reaps' = IF \E st \in Stages : stg[st] = "RETRYING" THEN reaps ELSE reaps + 1

Finalize(stg, str) ==
  /\ stage' = EndedStages(stg)
  /\ stream' = EndedStreams(stg, str)
  /\ status' = "DESTROYED"
  /\ gone' = TRUE
  /\ reaps' = reaps + 1

Proceed(stg, str) ==
  /\ stage' = stg
  /\ stream' = str
  /\ UNCHANGED <<status, gone, reaps>>

-----------------------------------------------------------------------------
(* Stage.connect under p-retry.                                            *)

\* Faulty: the rejection of a connect is swallowed.
GiveUpQuietly(st, stg, str) ==
  /\ conn' = [conn EXCEPT ![st] = "idle"]
  /\ Proceed([stg EXCEPT ![st] = "END"], str)
  /\ UNCHANGED pipeline

\* Faulty: the retry timer stays armed after the last attempt.
GiveUpArmed(st, stg, str) ==
  LET ended == [stg EXCEPT ![st] = "END"]
  IN  /\ conn' = [conn EXCEPT ![st] = "backoff"]
      /\ pipeline' = IF pipeline = "running" THEN "failed" ELSE pipeline
      /\ Proceed(ended, str)

\* The promise of st's connect is rejected: the router or disconnect() fails
\* the session, unless the router has already failed it.
Rejected(st, stg, str) ==
  /\ conn' = [conn EXCEPT ![st] = "idle"]
  /\ pipeline' = IF pipeline = "running" THEN "failed" ELSE pipeline
  /\ IF pipeline = "failed" THEN Proceed(stg, str) ELSE Finalize(stg, str)

\* The retries of st are used up, or make no sense any more.
GiveUp(st, stg, str) == Rejected(st, [stg EXCEPT ![st] = "END"], str)

\* Attempt n of st's connect fails.
AttemptFailed(st, n, stg, str) ==
  /\ tries' = [tries EXCEPT ![st] = n]
  /\ \/ /\ n <= Retries(st)
        /\ conn' = [conn EXCEPT ![st] = "backoff"]
        /\ Proceed([stg EXCEPT ![st] = "RETRYING"], str)
        /\ UNCHANGED pipeline
     \/ /\ n > Retries(st)
        /\ GiveUp(st, stg, str)

AttemptStarted(st, n) ==
  /\ conn' = [conn EXCEPT ![st] = "attempt"]
  /\ tries' = [tries EXCEPT ![st] = n]

\* An attempt that is in progress fails: refused, closed or timed out; but a
\* TypeError of the cluster ends the retries at once and leaves the status alone.
AttemptFails(st) ==
  /\ conn[st] = "attempt"
  /\ \/ AttemptFailed(st, tries[st], stage, stream)
     \/ st # Source /\ Rejected(st, stage, stream) /\ UNCHANGED tries
  /\ UNCHANGED <<registry, active, piped, bounds>>

\* The retry timer of st fires: give up on a session that is no longer in the
\* table, fail the attempt if there is no cluster, or try to connect.
RetryTimer(st) ==
  /\ conn[st] = "backoff"
  /\ \/ /\ ~SessionFound
        /\ GiveUp(st, stage, stream)
        /\ UNCHANGED tries
     \/ /\ SessionFound /\ st \notin origins
        /\ AttemptFailed(st, tries[st] + 1, stage, stream)
     \/ /\ SessionFound /\ st \in origins
        /\ AttemptStarted(st, tries[st] + 1)
        /\ UNCHANGED <<pipeline, stage, stream, status, gone, reaps>>
  /\ UNCHANGED <<registry, active, piped, bounds>>

-----------------------------------------------------------------------------
(* Setting the pipeline up: create(), pipeline() and router().             *)

\* create() fails an assertion: there is no listener, rulelist, rule or route.
RouteFails ==
  /\ pipeline = "new"
  /\ pipeline' = "failed"
  /\ Finalize([stage EXCEPT ![Source] = "READY"], stream)
  /\ UNCHANGED <<registry, active, conn, tries, piped, bounds>>

\* create() finds a route and pipeline_init() starts all the connects.
Route ==
  /\ pipeline = "new"
  /\ Source \in origins
  /\ LET missing == Clusters \ origins
         stg == [st \in Stages |->
                   IF st = Source THEN "READY"
                   ELSE IF st \notin missing THEN "INIT"
                   ELSE IF SetupRetries > 0 THEN "RETRYING" ELSE "END"]
     IN  /\ conn' = [st \in Stages |->
                       IF st = Source THEN "idle"
                       ELSE IF st \notin missing THEN "attempt"
                       ELSE IF SetupRetries > 0 THEN "backoff" ELSE "idle"]
         /\ tries' = [st \in Stages |-> IF st = Source THEN 0 ELSE 1]
         /\ IF missing # {} /\ SetupRetries = 0
            THEN pipeline' = "failed" /\ Finalize(stg, stream)
            ELSE pipeline' = "running" /\ Proceed(stg, stream)
  /\ UNCHANGED <<registry, active, piped, bounds>>

\* Faulty: the pipeline is ready when the first stage is (a race, not all).
FirstToConnect(st) == pipeline = "running"

LastToConnect(st) ==
  pipeline = "running" /\ \A other \in Clusters \ {st} : conn[other] = "idle"

\* st connects, and the pipeline waits for another stage or has failed.
Connect(st) ==
  /\ conn[st] = "attempt"
  /\ pipeline \in {"running", "failed"}
  /\ ~LastToConnect(st)
  /\ conn' = [conn EXCEPT ![st] = "idle"]
  /\ Proceed([stage EXCEPT ![st] = "CONNECTED"], [stream EXCEPT ![st] = "open"])
  /\ UNCHANGED <<registry, pipeline, active, tries, piped, bounds>>

\* The last stage connects: pipe both directions, set the handlers, connected().
Complete(st) ==
  /\ conn[st] = "attempt"
  /\ LastToConnect(st)
  /\ conn' = [conn EXCEPT ![st] = "idle"]
  /\ stage' = [s \in Stages |-> "READY"]
  /\ stream' = [stream EXCEPT ![st] = "open"]
  /\ active' = NumStreams
  /\ piped' = Pipes
  /\ pipeline' = "ready"
  /\ status' = "CONNECTED"
  /\ UNCHANGED <<registry, gone, reaps, tries, bounds>>

-----------------------------------------------------------------------------
(* Losing streams and reconnecting them: disconnect() and repipe().        *)

\* repipe() compares an index with an array to find the end of the egress
\* chain, which is never true: it looks for a stage after the last one.
LastEgress(st) == Egress # <<>> /\ st = Egress[Len(Egress)]

\* Faulty: only the pipes leading away from st are put back.
RepipedForward(st) == {p \in PipesAt(st) : p[1] = st}

\* The pipes that repipe(st) puts back before it returns or throws.
Repiped(st) ==
  IF LastEgress(st) THEN {p \in PipesAt(st) : p[2] = st} ELSE PipesAt(st)

\* disconnect() goes on to connect st, rather than to end or fail the session.
Reconnects(st) ==
  /\ policy.retry_on \in {"always", "disconnect"}
  /\ st \in Retriable
  /\ IF st = Source THEN st \in origins ELSE SessionFound

Disconnect(st) ==
  LET stg == [stage EXCEPT ![st] = "DISCONNECTED"]
      str == [stream EXCEPT ![st] = "closed"]
  IN  /\ Heeds(st)
      /\ active' = active - 1
      /\ piped' = piped \ PipesAt(st)
      /\ \/ /\ ~Reconnects(st)
            /\ Finalize(stg, str)
            /\ UNCHANGED <<conn, tries, pipeline>>
         \/ /\ Reconnects(st) /\ st \notin origins
            /\ AttemptFailed(st, 1, stg, str)
         \/ /\ Reconnects(st) /\ st \in origins
            /\ AttemptStarted(st, 1)
            /\ Proceed(stg, str)
            /\ UNCHANGED pipeline

\* A stream closes or errs: its peer or the network did, or it was ended
\* before.  Without handlers on it nobody notices.
Close(st) ==
  /\ \/ /\ stream[st] = "open"
        /\ faults < MaxFaults /\ faults' = faults + 1
     \/ /\ stream[st] = "ending"
        /\ UNCHANGED faults
  /\ IF Watched(st)
     THEN Disconnect(st)
     ELSE /\ Proceed(stage, [stream EXCEPT ![st] = "closed"])
          /\ UNCHANGED <<conn, tries, pipeline, active, piped>>
  /\ UNCHANGED <<registry, calls, toggles>>

\* st reconnects: take the new stream, set the handlers, repipe, and announce
\* the session when no stage is missing.  A throw of repipe fails the session.
Reconnect(st) ==
  LET stg == [stage EXCEPT ![st] = "READY"]
      str == [stream EXCEPT ![st] = "open"]
  IN  /\ conn[st] = "attempt"
      /\ pipeline = "ready"
      /\ conn' = [conn EXCEPT ![st] = "idle"]
      /\ active' = active + 1
      /\ piped' = (piped \ PipesAt(st)) \union Repiped(st)
      /\ \/ /\ LastEgress(st)
            /\ Finalize(stg, str)
         \/ /\ ~LastEgress(st)
            /\ stage' = stg /\ stream' = str
            /\ status' = IF active + 1 = NumStreams THEN "CONNECTED" ELSE status
            /\ UNCHANGED <<gone, reaps>>
      /\ UNCHANGED <<registry, pipeline, tries, bounds>>

-----------------------------------------------------------------------------
(* The API and the session table.                                          *)

CallAllowed ==
  /\ listed /\ pipeline # "new"
  /\ calls < MaxCalls /\ calls' = calls + 1

\* DELETE of the session, or a recursive one of its listener or of a cluster
\* of its: end() is called in any state of a session in the table.
EndSession ==
  /\ CallAllowed
  /\ Finalize(stage, stream)
  /\ UNCHANGED <<registry, pipeline, active, conn, tries, piped, faults, toggles>>

\* Recursive DELETE of the endpoint st is connected to.
DeleteEndPoint(st) ==
  /\ CallAllowed
  /\ pipeline = "ready"
  /\ Disconnect(st)
  /\ UNCHANGED <<registry, faults, toggles>>

\* A listener or cluster of the route is deleted or added, non-recursively.
ToggleOrigin(st) ==
  /\ toggles < MaxToggles /\ toggles' = toggles + 1
  /\ origins' = IF st \in origins THEN origins \ {st} ELSE origins \union {st}
  /\ UNCHANGED <<policy, status, listed, gone, reaps, pipeline, active, stage,
                 stream, conn, tries, piped, faults, calls>>

\* A setImmediate of a 'destroy' event runs deleteSession, which throws, and is
\* ignored, when the session has been removed before.
Reap ==
  /\ reaps > 0
  /\ reaps' = reaps - 1
  /\ listed' = FALSE
  /\ UNCHANGED <<policy, status, gone, pipeline, active, stage, stream, conn,
                 tries, piped, origins, bounds>>

-----------------------------------------------------------------------------

Init ==
  /\ policy \in Policies
  /\ status = "INIT"
  /\ listed = TRUE
  /\ gone = FALSE
  /\ reaps = 0
  /\ pipeline = "new"
  /\ active = 0
  /\ stage = [st \in Stages |-> IF st = Source THEN "INIT" ELSE "ABSENT"]
  /\ stream = [st \in Stages |-> IF st = Source THEN "open" ELSE "none"]
  /\ conn = [st \in Stages |-> "idle"]
  /\ tries = [st \in Stages |-> 0]
  /\ piped = {}
  /\ origins = Stages
  /\ faults = 0 /\ calls = 0 /\ toggles = 0

Next ==
  \/ RouteFails
  \/ Route
  \/ \E st \in Clusters : Connect(st)
  \/ \E st \in Clusters : Complete(st)
  \/ \E st \in Stages : AttemptFails(st)
  \/ \E st \in Stages : RetryTimer(st)
  \/ \E st \in Stages : Reconnect(st)
  \/ \E st \in Stages : Close(st)
  \/ \E st \in Clusters : DeleteEndPoint(st)
  \/ \E st \in Stages : ToggleOrigin(st)
  \/ EndSession
  \/ Reap

(***************************************************************************)
(* The router runs at once; every attempt settles, because the clusters    *)
(* bound it by route.retry.timeout; timers and setImmediate callbacks run. *)
(* Nothing makes the environment close streams or call the API.            *)
(***************************************************************************)
Settles(st) == Connect(st) \/ Complete(st) \/ Reconnect(st) \/ AttemptFails(st)

Fairness ==
  /\ WF_vars(Route \/ RouteFails)
  /\ \A st \in Clusters : WF_vars(Settles(st))
  /\ WF_vars(Reconnect(Source) \/ AttemptFails(Source))
  /\ \A st \in Stages : WF_vars(RetryTimer(st))
  /\ WF_vars(Reap)

Spec == Init /\ [][Next]_vars /\ Fairness

-----------------------------------------------------------------------------
(* Safety.                                                                 *)

Down == {st \in Stages : conn[st] # "idle"}

\* A stage whose handlers may start a reconnect has no connect in progress:
\* disconnect() never runs two reconnects of one stage side by side, whatever
\* the order of close, end, retry and API calls.
OneConnectPerStage ==
  \A st \in Stages : stage[st] \in {"READY", "ABSENT"} => conn[st] = "idle"

\* Until the session is destroyed, active_streams counts the stages that are
\* not being reconnected, so that the test active_streams === num_streams of
\* disconnect() means that every stage is back.
ActiveStreams ==
  pipeline = "ready" /\ ~gone => active = NumStreams - Cardinality(Down)

\* Until the session is destroyed, a pipe of the pipeline is missing only where
\* one of its ends is being reconnected: overlapping reconnects of neighbours
\* leave no gap, in either direction.
NoGap ==
  pipeline = "ready" /\ ~gone =>
    \A p \in Pipes \ piped : conn[p[1]] # "idle" \/ conn[p[2]] # "idle"

\* A connected pipeline, of a session destroyed or not, has no stream that is
\* open and whose close nobody would notice.
NoUnwatchedStream ==
  pipeline = "ready" => \A st \in Stages : stream[st] = "open" => Watched(st)

\* A session whose destroy() has run is removed from the table by a callback
\* that is already scheduled, also when the session has come back to life.
RemovalScheduled == gone /\ listed => reaps > 0

\* A retry policy bounds the connection attempts: num_retries after the first
\* one when the session is set up, num_retries (at least one) after a
\* disconnect, counted anew for every disconnect.
AttemptsBounded ==
  \A st \in Down :
    tries[st] <= IF pipeline = "ready"
                 THEN IF policy.num_retries = 0 THEN 1 ELSE policy.num_retries
                 ELSE SetupRetries + 1

\* "do not retry a session that has been deleted from the API": a retry timer
\* starts no connection for a session that is out of the table.
NoRetryAfterRemoval ==
  [][\A st \in Stages : conn[st] = "backoff" /\ conn'[st] = "attempt" => listed]_vars

-----------------------------------------------------------------------------
(* What a comment says, and the code does not do.                          *)

\* A session fails when "we cannot reconnect": a stage that does reconnect does
\* not destroy its session.
ReconnectKeepsSession ==
  [][\A st \in Stages :
       pipeline = "ready" /\ conn[st] = "attempt" /\ active' > active => gone' = gone]_vars

-----------------------------------------------------------------------------
(* Liveness.                                                               *)

\* A stage that lost its stream gets a new one, or its session is destroyed.
DisconnectSettles ==
  \A st \in Stages : stage[st] = "DISCONNECTED" ~> (stage[st] = "READY" \/ gone)

\* The retries of a destroyed session stop, although destroy() does not cancel them.
DestroyedStopsRetrying == gone ~> (Down = {})

-----------------------------------------------------------------------------
(* The promise a session keeps.                                            *)

Phase ==
  IF ~listed THEN "removed"
  ELSE IF gone THEN "over"
  ELSE IF pipeline = "ready" THEN "up" ELSE "setup"

Missing == IF Phase = "up" THEN Down ELSE {}

Promise == INSTANCE SessionLifecycle
             WITH Parts <- Stages, phase <- Phase, missing <- Missing

\* A session implements the life cycle: it is set up at most once, loses and
\* regains stages one by one, is destroyed before it leaves the table, and
\* each of these that is due happens.
KeepsPromise == Promise!Spec
=============================================================================
