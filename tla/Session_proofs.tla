---------------------------- MODULE Session_proofs ----------------------------
(* Theorems about Session, for every route, policy and bound.               *)
EXTENDS Session, FiniteSetTheorems, TLAPS

-----------------------------------------------------------------------------
(* Type correctness.                                                       *)

\* The operators that end, fail or continue a session keep the types of the
\* variables they assign, from any well-typed stages and streams.
StageType == [Stages -> StageStatus]
StreamType == [Stages -> {"none", "open", "ending", "closed"}]

EndTypes ==
  /\ stage' \in StageType /\ stream' \in StreamType
  /\ status' \in {"INIT", "CONNECTED", "DESTROYED"}
  /\ gone' \in BOOLEAN /\ reaps' \in Nat

ConnectTypes ==
  /\ EndTypes
  /\ conn' \in [Stages -> {"idle", "attempt", "backoff"}]
  /\ tries' \in [Stages -> Nat]
  /\ pipeline' \in {"new", "running", "ready", "failed"}

\* error() and end() leave a session well-typed.
LEMMA FinalizeType ==
  ASSUME TypeOK, NEW stg \in StageType, NEW str \in StreamType, Finalize(stg, str)
  PROVE  EndTypes
BY DEF TypeOK, Finalize, EndedStages, EndedStreams, EndTypes, StageType,
       StreamType, StageStatus

LEMMA ProceedType ==
  ASSUME TypeOK, NEW stg \in StageType, NEW str \in StreamType, Proceed(stg, str)
  PROVE  EndTypes
BY DEF TypeOK, Proceed, EndTypes

\* A connect that is rejected, or given up, leaves a session well-typed.
LEMMA RejectedType ==
  ASSUME TypeOK, NEW stg \in StageType, NEW str \in StreamType,
         NEW st \in Stages, Rejected(st, stg, str), tries' \in [Stages -> Nat]
  PROVE  ConnectTypes
<1>1. EndTypes
  BY FinalizeType, ProceedType DEF Rejected
<1>2. QED
  BY <1>1 DEF Rejected, ConnectTypes, TypeOK

LEMMA GiveUpType ==
  ASSUME TypeOK, NEW stg \in StageType, NEW str \in StreamType,
         NEW st \in Stages, GiveUp(st, stg, str), tries' \in [Stages -> Nat]
  PROVE  ConnectTypes
<1>1. [stg EXCEPT ![st] = "END"] \in StageType
  BY DEF StageType, StageStatus
<1>2. QED
  BY <1>1, RejectedType DEF GiveUp

\* So does a failed attempt, whether it is retried or given up.
LEMMA AttemptFailedType ==
  ASSUME TypeOK, NEW stg \in StageType, NEW str \in StreamType,
         NEW st \in Stages, NEW n \in Nat, AttemptFailed(st, n, stg, str)
  PROVE  ConnectTypes
<1>1. tries' \in [Stages -> Nat]
  BY DEF AttemptFailed, TypeOK
<1>2. CASE n > Retries(st) /\ GiveUp(st, stg, str)
  BY <1>1, <1>2, GiveUpType
<1>3. CASE /\ conn' = [conn EXCEPT ![st] = "backoff"]
           /\ Proceed([stg EXCEPT ![st] = "RETRYING"], str)
           /\ UNCHANGED pipeline
  <2>1. [stg EXCEPT ![st] = "RETRYING"] \in StageType
    BY DEF StageType, StageStatus
  <2>2. EndTypes
    BY <1>3, <2>1, ProceedType
  <2>3. QED
    BY <1>1, <1>3, <2>2 DEF ConnectTypes, TypeOK
<1>4. QED
  BY <1>2, <1>3 DEF AttemptFailed

LEMMA RepipedIsPipes == ASSUME NEW st PROVE Repiped(st) \subseteq Pipes
BY DEF Repiped, PipesAt

\* disconnect() of a stage leaves a session well-typed.
LEMMA DisconnectType ==
  ASSUME TypeOK, NEW st \in Stages, Disconnect(st)
  PROVE  ConnectTypes /\ active' \in Int /\ piped' \in SUBSET Pipes
<1> DEFINE stg == [stage EXCEPT ![st] = "DISCONNECTED"]
           str == [stream EXCEPT ![st] = "closed"]
<1>1. stg \in StageType /\ str \in StreamType
  BY DEF TypeOK, StageType, StreamType, StageStatus
<1>2. active' \in Int /\ piped' \in SUBSET Pipes
  BY DEF Disconnect, TypeOK
<1> HIDE DEF stg, str
<1>3. CASE Finalize(stg, str) /\ UNCHANGED <<conn, tries, pipeline>>
  BY <1>1, <1>2, <1>3, FinalizeType DEF ConnectTypes, TypeOK
<1>4. CASE AttemptFailed(st, 1, stg, str)
  BY <1>1, <1>2, <1>4, AttemptFailedType
<1>5. CASE AttemptStarted(st, 1) /\ Proceed(stg, str) /\ UNCHANGED pipeline
  BY <1>1, <1>2, <1>5, ProceedType DEF ConnectTypes, TypeOK, AttemptStarted
<1>6. QED
  BY <1>3, <1>4, <1>5 DEF Disconnect, stg, str

\* The constants of a session make its initial state well-typed.
LEMMA InitType == Init => TypeOK
<1> SUFFICES ASSUME Init PROVE TypeOK
  OBVIOUS
<1>1. listed \in BOOLEAN /\ gone \in BOOLEAN
  BY DEF Init
<1>2. stage \in [Stages -> StageStatus]
  BY DEF Init, StageStatus
<1>3. QED
  BY <1>1, <1>2 DEF Init, TypeOK

LEMMA NextType == TypeOK /\ [Next]_vars => TypeOK'
<1> SUFFICES ASSUME TypeOK, [Next]_vars PROVE TypeOK'
  OBVIOUS
<1> USE DEF bounds, registry
<1>0. /\ stage \in StageType /\ stream \in StreamType
      /\ conn \in [Stages -> {"idle", "attempt", "backoff"}]
      /\ tries \in [Stages -> Nat]
  BY DEF TypeOK, StageType, StreamType
<1>1. CASE RouteFails
  <2>1. [stage EXCEPT ![Source] = "READY"] \in StageType
    BY <1>0 DEF StageType, StageStatus
  <2>2. EndTypes
    BY <1>0, <1>1, <2>1, FinalizeType DEF RouteFails
  <2>3. QED
    BY <1>1, <2>2 DEF RouteFails, EndTypes, TypeOK, StageType, StreamType
<1>2. CASE Route
  <2> DEFINE missing == Clusters \ origins
             stg == [st \in Stages |->
                       IF st = Source THEN "READY"
                       ELSE IF st \notin missing THEN "INIT"
                       ELSE IF SetupRetries > 0 THEN "RETRYING" ELSE "END"]
  <2>1. stg \in StageType
    BY DEF StageType, StageStatus
  <2>2. EndTypes /\ pipeline' \in {"failed", "running"}
    <3> HIDE DEF stg
    <3>1. Finalize(stg, stream) \/ Proceed(stg, stream)
      BY <1>2 DEF Route, stg
    <3>2. QED
      BY <1>0, <1>2, <2>1, <3>1, FinalizeType, ProceedType DEF Route
  <2>3. /\ conn' \in [Stages -> {"idle", "attempt", "backoff"}]
        /\ tries' \in [Stages -> Nat]
    BY <1>2 DEF Route
  <2>4. QED
    BY <1>2, <2>2, <2>3 DEF Route, EndTypes, TypeOK, StageType, StreamType
<1>3. ASSUME NEW st \in Clusters, Connect(st) PROVE TypeOK'
  <2>1. st \in Stages
    BY DEF Stages
  <2>2. QED
    BY <1>3, <2>1 DEF Connect, Proceed, TypeOK, StageStatus
<1>4. ASSUME NEW st \in Clusters, Complete(st) PROVE TypeOK'
  <2>1. NumStreams \in Nat
    BY StagesAssumption, FS_CardinalityType DEF NumStreams
  <2>2. stage' \in [Stages -> StageStatus]
    BY <1>4 DEF Complete, StageStatus
  <2>3. /\ stream' \in [Stages -> {"none", "open", "ending", "closed"}]
        /\ conn' \in [Stages -> {"idle", "attempt", "backoff"}]
    BY <1>4 DEF Complete, TypeOK
  <2>4. QED
    BY <1>4, <2>1, <2>2, <2>3 DEF Complete, TypeOK
<1>5. ASSUME NEW st \in Stages, AttemptFails(st) PROVE TypeOK'
  <2>1. ConnectTypes
    <3>1. stage \in StageType /\ stream \in StreamType /\ tries[st] \in Nat
      BY <1>0 DEF TypeOK, StageType, StreamType
    <3>2. CASE AttemptFailed(st, tries[st], stage, stream)
      BY <1>0, <3>1, <3>2, AttemptFailedType
    <3>3. CASE Rejected(st, stage, stream) /\ UNCHANGED tries
      BY <1>0, <3>1, <3>3, RejectedType DEF TypeOK
    <3>4. QED
      BY <1>5, <3>2, <3>3 DEF AttemptFails
  <2>2. QED
    BY <1>5, <2>1 DEF AttemptFails, ConnectTypes, EndTypes, TypeOK, StageType, StreamType
<1>6. ASSUME NEW st \in Stages, RetryTimer(st) PROVE TypeOK'
  <2>1. ConnectTypes
    <3>1. CASE GiveUp(st, stage, stream) /\ UNCHANGED tries
      BY <1>0, <3>1, GiveUpType
    <3>2. CASE AttemptFailed(st, tries[st] + 1, stage, stream)
      BY <1>0, <3>2, AttemptFailedType
    <3>3. CASE /\ AttemptStarted(st, tries[st] + 1)
               /\ UNCHANGED <<pipeline, stage, stream, status, gone, reaps>>
      BY <1>0, <3>3 DEF AttemptStarted, ConnectTypes, EndTypes, TypeOK
    <3>4. QED
      BY <1>6, <3>1, <3>2, <3>3 DEF RetryTimer
  <2>2. QED
    BY <1>6, <2>1 DEF RetryTimer, ConnectTypes, EndTypes, TypeOK, StageType, StreamType
<1>7. ASSUME NEW st \in Stages, Reconnect(st) PROVE TypeOK'
  <2> DEFINE stg == [stage EXCEPT ![st] = "READY"]
             str == [stream EXCEPT ![st] = "open"]
  <2>1. stg \in StageType /\ str \in StreamType
    BY <1>0 DEF StageType, StreamType, StageStatus
  <2>2. EndTypes
    <3> HIDE DEF stg, str
    <3>1. CASE Finalize(stg, str)
      BY <2>1, <3>1, FinalizeType
    <3>2. CASE /\ stage' = stg /\ stream' = str
               /\ status' = IF active + 1 = NumStreams THEN "CONNECTED" ELSE status
               /\ UNCHANGED <<gone, reaps>>
      BY <2>1, <3>2 DEF EndTypes, TypeOK
    <3>3. QED
      BY <1>7, <3>1, <3>2 DEF Reconnect, stg, str
  <2>3. QED
    <3>1. piped' \in SUBSET Pipes
      BY <1>7, RepipedIsPipes DEF Reconnect, TypeOK
    <3>2. /\ conn' \in [Stages -> {"idle", "attempt", "backoff"}]
          /\ active' \in Int
      BY <1>7 DEF Reconnect, TypeOK
    <3>3. UNCHANGED <<registry, pipeline, tries, bounds>>
      BY <1>7 DEF Reconnect
    <3>4. QED
      BY <2>2, <3>1, <3>2, <3>3 DEF EndTypes, TypeOK, StageType, StreamType
<1>8. ASSUME NEW st \in Stages, Close(st) PROVE TypeOK'
  <2>1. faults' \in Nat /\ UNCHANGED <<registry, calls, toggles>>
    BY <1>8 DEF Close, TypeOK
  <2>2. CASE Disconnect(st)
    BY <2>1, <2>2, DisconnectType
    DEF ConnectTypes, EndTypes, TypeOK, StageType, StreamType
  <2>3. CASE /\ Proceed(stage, [stream EXCEPT ![st] = "closed"])
             /\ UNCHANGED <<conn, tries, pipeline, active, piped>>
    BY <2>1, <2>3 DEF Proceed, TypeOK
  <2>4. QED
    BY <1>8, <2>2, <2>3 DEF Close
<1>9. ASSUME NEW st \in Clusters, DeleteEndPoint(st) PROVE TypeOK'
  <2>1. st \in Stages
    BY DEF Stages
  <2>2. QED
    BY <1>9, <2>1, DisconnectType
    DEF DeleteEndPoint, CallAllowed, ConnectTypes, EndTypes, TypeOK, StageType, StreamType
<1>10. ASSUME NEW st \in Stages, ToggleOrigin(st) PROVE TypeOK'
  BY <1>10 DEF ToggleOrigin, TypeOK
<1>11. CASE EndSession
  <2>1. EndTypes
    BY <1>0, <1>11, FinalizeType DEF EndSession
  <2>2. QED
    BY <1>11, <2>1 DEF EndSession, CallAllowed, EndTypes, TypeOK, StageType, StreamType
<1>12. CASE Reap
  <2>1. listed' \in BOOLEAN
    BY <1>12 DEF Reap
  <2>2. reaps' \in Nat
    BY <1>12 DEF Reap, TypeOK
  <2>3. QED
    BY <1>12, <2>1, <2>2 DEF Reap, TypeOK
<1>13. CASE UNCHANGED vars
  BY <1>13 DEF vars, TypeOK
<1>14. QED
  BY <1>1, <1>2, <1>3, <1>4, <1>5, <1>6, <1>7, <1>8, <1>9, <1>10, <1>11, <1>12,
     <1>13 DEF Next

\* The variables of a session keep their types: in particular the counters of
\* scheduled removals and of attempts are never negative.
THEOREM TypeCorrect == Spec => []TypeOK
BY InitType, NextType, PTL DEF Spec

-----------------------------------------------------------------------------
(* The inductive invariant of connects, streams and removal.               *)

\* Before the router has run no connect is in progress; the source only gets
\* one from a disconnect, which needs a pipeline.
IdleStart ==
  /\ pipeline = "new" => \A st \in Stages : conn[st] = "idle"
  /\ pipeline # "ready" => conn[Source] = "idle"

\* Only a destroyed session is, or is going to be, out of the table.
EndBeforeRemoval == reaps > 0 \/ ~listed => gone

ConnectInv ==
  /\ TypeOK
  /\ IdleStart
  /\ OneConnectPerStage
  /\ NoUnwatchedStream
  /\ RemovalScheduled
  /\ EndBeforeRemoval

\* What destroy() leaves: no stage READY, no stream open but those of stages it
\* skips, and a removal that is scheduled.
LEMMA FinalizeEffect ==
  ASSUME TypeOK, NEW stg \in StageType, NEW str \in StreamType, Finalize(stg, str)
  PROVE  /\ \A s \in Stages : stage'[s] \in {"READY", "ABSENT"} => stg[s] = "ABSENT"
         /\ \A s \in Stages :
              stream'[s] = "open" => str[s] = "open" /\ stg[s] \in {"RETRYING", "END"}
         /\ gone' /\ reaps' > 0
BY DEF TypeOK, Finalize, EndedStages, EndedStreams, StageType, StreamType, StageStatus

\* A connect that is rejected ends the session, or the session had failed.
LEMMA RejectedEffect ==
  ASSUME ConnectInv, NEW stg \in StageType, NEW str \in StreamType,
         NEW st \in Stages, Rejected(st, stg, str), UNCHANGED listed,
         pipeline # "new", pipeline # "ready" => st # Source,
         \A s \in Stages \ {st} : stg[s] = stage[s] /\ str[s] = stream[s],
         stg[st] \notin {"READY", "ABSENT"},
         pipeline = "ready" => str[st] # "open"
  PROVE  /\ IdleStart' /\ OneConnectPerStage' /\ NoUnwatchedStream'
         /\ RemovalScheduled' /\ EndBeforeRemoval'
<1>2. conn' = [conn EXCEPT ![st] = "idle"] /\ conn'[st] = "idle"
  BY DEF Rejected, ConnectInv, TypeOK
<1>3. pipeline' # "new" /\ (pipeline' = "ready" <=> pipeline = "ready")
  BY DEF Rejected, ConnectInv, TypeOK
<1>4. IdleStart'
  BY <1>2, <1>3 DEF IdleStart, ConnectInv, TypeOK
<1>5. CASE pipeline = "failed" /\ Proceed(stg, str)
  <2>1. OneConnectPerStage'
    BY <1>2, <1>5 DEF Proceed, OneConnectPerStage, ConnectInv, TypeOK
  <2>2. NoUnwatchedStream'
    BY <1>3, <1>5 DEF NoUnwatchedStream
  <2>3. RemovalScheduled' /\ EndBeforeRemoval'
    BY <1>5 DEF Proceed, RemovalScheduled, EndBeforeRemoval, ConnectInv
  <2>4. QED
    BY <1>4, <2>1, <2>2, <2>3
<1>6. CASE Finalize(stg, str)
  <2>0. /\ \A s \in Stages : stage'[s] \in {"READY", "ABSENT"} => stg[s] = "ABSENT"
        /\ \A s \in Stages : stream'[s] = "open"
             => str[s] = "open" /\ stg[s] \in {"RETRYING", "END"}
        /\ gone' /\ reaps' > 0
    BY <1>6, FinalizeEffect DEF ConnectInv
  <2>1. OneConnectPerStage'
    <3> SUFFICES ASSUME NEW s \in Stages, stage'[s] \in {"READY", "ABSENT"}
                 PROVE  conn'[s] = "idle"
      BY DEF OneConnectPerStage
    <3>1. s # st /\ stage[s] = "ABSENT"
      BY <2>0 DEF StageType
    <3>2. QED
      BY <1>2, <3>1 DEF OneConnectPerStage, ConnectInv, TypeOK
  <2>2. NoUnwatchedStream'
    <3> SUFFICES ASSUME pipeline' = "ready", NEW s \in Stages, stream'[s] = "open"
                 PROVE  FALSE
      BY DEF NoUnwatchedStream
    <3>1. s # st
      BY <1>3, <2>0
    <3>2. stream[s] = "open" /\ stage[s] \in {"RETRYING", "END"}
      BY <2>0, <3>1 DEF StageType
    <3>3. QED
      BY <1>3, <3>2 DEF NoUnwatchedStream, ConnectInv, Watched
  <2>3. QED
    BY <1>4, <2>0, <2>1, <2>2 DEF RemovalScheduled, EndBeforeRemoval
<1>7. QED
  BY <1>5, <1>6 DEF Rejected

LEMMA GiveUpEffect ==
  ASSUME ConnectInv, NEW stg \in StageType, NEW str \in StreamType,
         NEW st \in Stages, GiveUp(st, stg, str), UNCHANGED listed,
         pipeline # "new", pipeline # "ready" => st # Source,
         \A s \in Stages \ {st} : stg[s] = stage[s] /\ str[s] = stream[s],
         pipeline = "ready" => str[st] # "open"
  PROVE  /\ IdleStart' /\ OneConnectPerStage' /\ NoUnwatchedStream'
         /\ RemovalScheduled' /\ EndBeforeRemoval'
<1> DEFINE ended == [stg EXCEPT ![st] = "END"]
<1>1. /\ ended \in StageType /\ ended[st] = "END"
      /\ \A s \in Stages \ {st} : ended[s] = stage[s]
  BY DEF StageType, StageStatus
<1>2. Rejected(st, ended, str)
  BY DEF GiveUp
<1> HIDE DEF ended
<1>3. QED
  BY <1>1, <1>2, RejectedEffect

\* A failed attempt keeps the invariant, whether it is retried or given up.
LEMMA AttemptFailedEffect ==
  ASSUME ConnectInv, NEW stg \in StageType, NEW str \in StreamType,
         NEW st \in Stages, NEW n \in Nat, AttemptFailed(st, n, stg, str),
         UNCHANGED listed,
         pipeline # "new", pipeline # "ready" => st # Source,
         \A s \in Stages \ {st} : stg[s] = stage[s] /\ str[s] = stream[s],
         pipeline = "ready" => str[st] # "open"
  PROVE  /\ IdleStart' /\ OneConnectPerStage' /\ NoUnwatchedStream'
         /\ RemovalScheduled' /\ EndBeforeRemoval'
<1>1. CASE GiveUp(st, stg, str)
  BY <1>1, GiveUpEffect
<1>2. CASE /\ conn' = [conn EXCEPT ![st] = "backoff"]
           /\ Proceed([stg EXCEPT ![st] = "RETRYING"], str)
           /\ UNCHANGED pipeline
  <2>1. IdleStart'
    BY <1>2 DEF IdleStart, ConnectInv, TypeOK
  <2>2. OneConnectPerStage'
    BY <1>2 DEF Proceed, OneConnectPerStage, ConnectInv, TypeOK, StageType
  <2>3. NoUnwatchedStream'
    <3> SUFFICES ASSUME pipeline' = "ready", NEW s \in Stages, stream'[s] = "open"
                 PROVE  Watched(s)'
      BY DEF NoUnwatchedStream
    <3>1. s # st /\ pipeline = "ready" /\ stream[s] = "open"
      BY <1>2 DEF Proceed
    <3>2. stage[s] = "READY"
      BY <3>1 DEF NoUnwatchedStream, ConnectInv, Watched
    <3>3. QED
      BY <1>2, <3>1, <3>2 DEF Proceed, Watched, StageType
  <2>4. RemovalScheduled' /\ EndBeforeRemoval'
    BY <1>2 DEF Proceed, RemovalScheduled, EndBeforeRemoval, ConnectInv
  <2>5. QED
    BY <2>1, <2>2, <2>3, <2>4
<1>3. QED
  BY <1>1, <1>2 DEF AttemptFailed

\* Losing the stream of a stage of an established pipeline keeps the invariant.
LEMMA DisconnectEffect ==
  ASSUME ConnectInv, NEW st \in Stages, Disconnect(st), pipeline = "ready",
         UNCHANGED listed
  PROVE  /\ IdleStart' /\ OneConnectPerStage' /\ NoUnwatchedStream'
         /\ RemovalScheduled' /\ EndBeforeRemoval'
<1> DEFINE stg == [stage EXCEPT ![st] = "DISCONNECTED"]
           str == [stream EXCEPT ![st] = "closed"]
<1>1. /\ stg \in StageType /\ str \in StreamType
      /\ \A s \in Stages \ {st} : stg[s] = stage[s] /\ str[s] = stream[s]
      /\ stg[st] = "DISCONNECTED" /\ str[st] = "closed"
  BY DEF ConnectInv, TypeOK, StageType, StreamType, StageStatus
<1> HIDE DEF stg, str
<1>2. CASE AttemptFailed(st, 1, stg, str)
  BY <1>1, <1>2, AttemptFailedEffect
<1>3. CASE Finalize(stg, str) /\ UNCHANGED <<conn, tries, pipeline>>
  <2>0. /\ \A s \in Stages : stage'[s] \in {"READY", "ABSENT"} => stg[s] = "ABSENT"
        /\ \A s \in Stages : stream'[s] = "open"
             => str[s] = "open" /\ stg[s] \in {"RETRYING", "END"}
        /\ gone' /\ reaps' > 0
    BY <1>1, <1>3, FinalizeEffect DEF ConnectInv
  <2>1. IdleStart'
    BY <1>3 DEF IdleStart, ConnectInv
  <2>2. OneConnectPerStage'
    BY <1>1, <1>3, <2>0 DEF OneConnectPerStage, ConnectInv
  <2>3. NoUnwatchedStream'
    BY <1>1, <1>3, <2>0 DEF NoUnwatchedStream, ConnectInv, Watched
  <2>4. QED
    BY <2>0, <2>1, <2>2, <2>3 DEF RemovalScheduled, EndBeforeRemoval
<1>4. CASE AttemptStarted(st, 1) /\ Proceed(stg, str) /\ UNCHANGED pipeline
  <2>1. IdleStart'
    BY <1>4 DEF IdleStart
  <2>2. OneConnectPerStage'
    BY <1>1, <1>4
    DEF AttemptStarted, Proceed, OneConnectPerStage, ConnectInv, TypeOK
  <2>3. NoUnwatchedStream'
    BY <1>1, <1>4 DEF Proceed, NoUnwatchedStream, ConnectInv, Watched
  <2>4. RemovalScheduled' /\ EndBeforeRemoval'
    BY <1>4 DEF Proceed, RemovalScheduled, EndBeforeRemoval, ConnectInv
  <2>5. QED
    BY <2>1, <2>2, <2>3, <2>4
<1>5. QED
  BY <1>2, <1>3, <1>4 DEF Disconnect, stg, str

LEMMA InitConnect == Init => ConnectInv
<1> SUFFICES ASSUME Init PROVE ConnectInv
  OBVIOUS
<1>1. Source \in Stages
  BY DEF Stages
<1>2. IdleStart /\ OneConnectPerStage
  BY <1>1 DEF Init, IdleStart, OneConnectPerStage
<1>3. NoUnwatchedStream /\ RemovalScheduled /\ EndBeforeRemoval
  BY DEF Init, NoUnwatchedStream, RemovalScheduled, EndBeforeRemoval
<1>4. QED
  BY <1>2, <1>3, InitType DEF ConnectInv

LEMMA NextConnect == ConnectInv /\ [Next]_vars => ConnectInv'
<1> SUFFICES ASSUME ConnectInv, [Next]_vars
             PROVE  /\ IdleStart' /\ OneConnectPerStage' /\ NoUnwatchedStream'
                    /\ RemovalScheduled' /\ EndBeforeRemoval'
  BY NextType DEF ConnectInv
<1> USE DEF bounds, registry
<1>0. /\ TypeOK /\ stage \in StageType /\ stream \in StreamType
      /\ Source \in Stages /\ Clusters \subseteq Stages
  BY DEF ConnectInv, TypeOK, StageType, StreamType, Stages
<1>1. CASE RouteFails
  <2> DEFINE stg == [stage EXCEPT ![Source] = "READY"]
  <2>1. stg \in StageType /\ stg[Source] = "READY"
    BY <1>0 DEF StageType, StageStatus
  <2> HIDE DEF stg
  <2>2. gone' /\ reaps' > 0
    BY <1>0, <1>1, <2>1, FinalizeEffect DEF RouteFails, stg
  <2>3. /\ \A s \in Stages : conn'[s] = "idle"
        /\ pipeline' = "failed"
    BY <1>1 DEF RouteFails, IdleStart, ConnectInv
  <2>4. QED
    BY <1>0, <2>2, <2>3 DEF IdleStart, OneConnectPerStage, NoUnwatchedStream,
       RemovalScheduled, EndBeforeRemoval
<1>2. CASE Route
  <2> DEFINE missing == Clusters \ origins
             stg == [st \in Stages |->
                       IF st = Source THEN "READY"
                       ELSE IF st \notin missing THEN "INIT"
                       ELSE IF SetupRetries > 0 THEN "RETRYING" ELSE "END"]
  <2>1. /\ stg \in StageType /\ stg[Source] = "READY"
        /\ \A s \in Stages \ {Source} : stg[s] \notin {"READY", "ABSENT"}
    BY <1>0 DEF StageType, StageStatus
  <2>2. conn'[Source] = "idle" /\ pipeline' \in {"failed", "running"}
    BY <1>0, <1>2 DEF Route
  <2>3. Finalize(stg, stream) \/ Proceed(stg, stream)
    BY <1>2 DEF Route
  <2> HIDE DEF stg
  <2>4. CASE Finalize(stg, stream)
    <3>1. /\ \A s \in Stages : stage'[s] \in {"READY", "ABSENT"} => stg[s] = "ABSENT"
          /\ gone' /\ reaps' > 0
      BY <1>0, <2>1, <2>4, FinalizeEffect
    <3>2. QED
      BY <2>1, <2>2, <3>1 DEF IdleStart, OneConnectPerStage, NoUnwatchedStream,
         RemovalScheduled, EndBeforeRemoval
  <2>5. CASE Proceed(stg, stream)
    <3>1. UNCHANGED <<listed, gone, reaps>> /\ stage' = stg
      BY <1>2, <2>5 DEF Route, Proceed
    <3>2. RemovalScheduled' /\ EndBeforeRemoval'
      BY <3>1 DEF RemovalScheduled, EndBeforeRemoval, ConnectInv
    <3>3. QED
      BY <2>1, <2>2, <3>1, <3>2 DEF IdleStart, OneConnectPerStage, NoUnwatchedStream
  <2>6. QED
    BY <2>3, <2>4, <2>5
<1>3. ASSUME NEW st \in Clusters, Connect(st)
      PROVE  /\ IdleStart' /\ OneConnectPerStage' /\ NoUnwatchedStream'
             /\ RemovalScheduled' /\ EndBeforeRemoval'
  <2>1. IdleStart'
    BY <1>0, <1>3 DEF Connect, IdleStart, ConnectInv, TypeOK
  <2>2. OneConnectPerStage'
    BY <1>0, <1>3 DEF Connect, Proceed, OneConnectPerStage, ConnectInv, TypeOK
  <2>3. NoUnwatchedStream'
    BY <1>3 DEF Connect, NoUnwatchedStream
  <2>4. RemovalScheduled' /\ EndBeforeRemoval'
    BY <1>3 DEF Connect, Proceed, RemovalScheduled, EndBeforeRemoval, ConnectInv
  <2>5. QED
    BY <2>1, <2>2, <2>3, <2>4
<1>4. ASSUME NEW st \in Clusters, Complete(st)
      PROVE  /\ IdleStart' /\ OneConnectPerStage' /\ NoUnwatchedStream'
             /\ RemovalScheduled' /\ EndBeforeRemoval'
  <2>1. \A s \in Stages : conn'[s] = "idle"
    BY <1>0, <1>4 DEF Complete, LastToConnect, IdleStart, ConnectInv, TypeOK, Stages
  <2>2. IdleStart' /\ OneConnectPerStage' /\ NoUnwatchedStream'
    BY <1>4, <2>1 DEF Complete, IdleStart, OneConnectPerStage, NoUnwatchedStream, Watched
  <2>3. RemovalScheduled' /\ EndBeforeRemoval'
    BY <1>4 DEF Complete, RemovalScheduled, EndBeforeRemoval, ConnectInv
  <2>4. QED
    BY <2>2, <2>3
<1>5. ASSUME NEW st \in Stages, AttemptFails(st)
      PROVE  /\ IdleStart' /\ OneConnectPerStage' /\ NoUnwatchedStream'
             /\ RemovalScheduled' /\ EndBeforeRemoval'
  <2>1. /\ pipeline # "new" /\ (pipeline # "ready" => st # Source)
        /\ stage[st] \notin {"READY", "ABSENT"}
    BY <1>5 DEF AttemptFails, IdleStart, OneConnectPerStage, ConnectInv
  <2>2. pipeline = "ready" => stream[st] # "open"
    BY <2>1 DEF NoUnwatchedStream, Watched, ConnectInv
  <2>3. UNCHANGED listed /\ tries[st] \in Nat
    BY <1>0, <1>5 DEF AttemptFails, TypeOK
  <2>4. stage \in StageType /\ stream \in StreamType
    BY <1>0 DEF TypeOK, StageType, StreamType
  <2>5. CASE AttemptFailed(st, tries[st], stage, stream)
    BY <2>1, <2>2, <2>3, <2>4, <2>5, AttemptFailedEffect
  <2>6. CASE Rejected(st, stage, stream)
    BY <2>1, <2>2, <2>3, <2>4, <2>6, RejectedEffect
  <2>7. QED
    BY <1>5, <2>5, <2>6 DEF AttemptFails
<1>6. ASSUME NEW st \in Stages, RetryTimer(st)
      PROVE  /\ IdleStart' /\ OneConnectPerStage' /\ NoUnwatchedStream'
             /\ RemovalScheduled' /\ EndBeforeRemoval'
  <2>1. /\ pipeline # "new" /\ (pipeline # "ready" => st # Source)
        /\ stage[st] \notin {"READY", "ABSENT"}
    BY <1>6 DEF RetryTimer, IdleStart, OneConnectPerStage, ConnectInv
  <2>2. pipeline = "ready" => stream[st] # "open"
    BY <2>1 DEF NoUnwatchedStream, Watched, ConnectInv
  <2>3. UNCHANGED listed /\ tries[st] + 1 \in Nat
    BY <1>0, <1>6 DEF RetryTimer, TypeOK
  <2>4. CASE GiveUp(st, stage, stream)
    BY <1>0, <2>1, <2>2, <2>3, <2>4, GiveUpEffect
  <2>5. CASE AttemptFailed(st, tries[st] + 1, stage, stream)
    BY <1>0, <2>1, <2>2, <2>3, <2>5, AttemptFailedEffect
  <2>6. CASE /\ AttemptStarted(st, tries[st] + 1)
             /\ UNCHANGED <<pipeline, stage, stream, status, gone, reaps>>
    <3>1. IdleStart'
      BY <1>0, <2>1, <2>6 DEF AttemptStarted, IdleStart, ConnectInv, TypeOK
    <3>2. OneConnectPerStage'
      BY <1>0, <2>1, <2>6 DEF AttemptStarted, OneConnectPerStage, ConnectInv, TypeOK
    <3>3. NoUnwatchedStream'
      BY <2>6 DEF NoUnwatchedStream, Watched, ConnectInv
    <3>4. RemovalScheduled' /\ EndBeforeRemoval'
      BY <2>3, <2>6 DEF RemovalScheduled, EndBeforeRemoval, ConnectInv
    <3>5. QED
      BY <3>1, <3>2, <3>3, <3>4
  <2>7. QED
    BY <1>6, <2>4, <2>5, <2>6 DEF RetryTimer
<1>7. ASSUME NEW st \in Stages, Reconnect(st)
      PROVE  /\ IdleStart' /\ OneConnectPerStage' /\ NoUnwatchedStream'
             /\ RemovalScheduled' /\ EndBeforeRemoval'
  <2> DEFINE stg == [stage EXCEPT ![st] = "READY"]
             str == [stream EXCEPT ![st] = "open"]
  <2>1. /\ stg \in StageType /\ str \in StreamType
        /\ \A s \in Stages \ {st} : stg[s] = stage[s] /\ str[s] = stream[s]
        /\ stg[st] = "READY" /\ str[st] = "open"
    BY <1>0 DEF StageType, StreamType, StageStatus
  <2>2. /\ conn' = [conn EXCEPT ![st] = "idle"] /\ conn'[st] = "idle"
        /\ pipeline = "ready" /\ pipeline' = "ready" /\ UNCHANGED listed
    BY <1>0, <1>7 DEF Reconnect, TypeOK
  <2>3. IdleStart'
    BY <2>2 DEF IdleStart
  <2> HIDE DEF stg, str
  <2>4. CASE Finalize(stg, str)
    <3>0. /\ \A s \in Stages : stage'[s] \in {"READY", "ABSENT"} => stg[s] = "ABSENT"
          /\ \A s \in Stages : stream'[s] = "open"
               => str[s] = "open" /\ stg[s] \in {"RETRYING", "END"}
          /\ gone' /\ reaps' > 0
      BY <1>0, <2>1, <2>4, FinalizeEffect
    <3>1. OneConnectPerStage'
      BY <1>0, <2>1, <2>2, <3>0 DEF OneConnectPerStage, ConnectInv, TypeOK
    <3>2. NoUnwatchedStream'
      BY <2>1, <2>2, <3>0 DEF NoUnwatchedStream, ConnectInv, Watched
    <3>3. QED
      BY <2>3, <3>0, <3>1, <3>2 DEF RemovalScheduled, EndBeforeRemoval
  <2>5. CASE stage' = stg /\ stream' = str /\ UNCHANGED <<gone, reaps>>
    <3>1. OneConnectPerStage'
      BY <1>0, <2>1, <2>2, <2>5 DEF OneConnectPerStage, ConnectInv, TypeOK
    <3>2. NoUnwatchedStream'
      BY <2>1, <2>2, <2>5 DEF NoUnwatchedStream, ConnectInv, Watched
    <3>3. QED
      BY <2>2, <2>3, <2>5, <3>1, <3>2 DEF RemovalScheduled, EndBeforeRemoval, ConnectInv
  <2>6. QED
    BY <1>7, <2>4, <2>5 DEF Reconnect, stg, str
<1>8. ASSUME NEW st \in Stages, Close(st)
      PROVE  /\ IdleStart' /\ OneConnectPerStage' /\ NoUnwatchedStream'
             /\ RemovalScheduled' /\ EndBeforeRemoval'
  <2>1. CASE Watched(st) /\ Disconnect(st)
    BY <1>8, <2>1, DisconnectEffect DEF Close, Watched
  <2>2. CASE /\ Proceed(stage, [stream EXCEPT ![st] = "closed"])
             /\ UNCHANGED <<conn, tries, pipeline, active, piped>>
    <3>1. IdleStart' /\ OneConnectPerStage'
      BY <2>2 DEF Proceed, IdleStart, OneConnectPerStage, ConnectInv
    <3>2. NoUnwatchedStream'
      BY <1>0, <2>2 DEF Proceed, NoUnwatchedStream, ConnectInv, Watched, StreamType
    <3>3. RemovalScheduled' /\ EndBeforeRemoval'
      BY <1>8, <2>2 DEF Close, Proceed, RemovalScheduled, EndBeforeRemoval, ConnectInv
    <3>4. QED
      BY <3>1, <3>2, <3>3
  <2>3. QED
    BY <1>8, <2>1, <2>2 DEF Close
<1>9. ASSUME NEW st \in Clusters, DeleteEndPoint(st)
      PROVE  /\ IdleStart' /\ OneConnectPerStage' /\ NoUnwatchedStream'
             /\ RemovalScheduled' /\ EndBeforeRemoval'
  BY <1>0, <1>9, DisconnectEffect DEF DeleteEndPoint
<1>10. ASSUME NEW st \in Stages, ToggleOrigin(st)
       PROVE  /\ IdleStart' /\ OneConnectPerStage' /\ NoUnwatchedStream'
              /\ RemovalScheduled' /\ EndBeforeRemoval'
  BY <1>10 DEF ToggleOrigin, IdleStart, OneConnectPerStage, NoUnwatchedStream,
     Watched, RemovalScheduled, EndBeforeRemoval, ConnectInv
<1>11. CASE EndSession
  <2>0. /\ \A s \in Stages : stage'[s] \in {"READY", "ABSENT"} => stage[s] = "ABSENT"
        /\ \A s \in Stages : stream'[s] = "open"
             => stream[s] = "open" /\ stage[s] \in {"RETRYING", "END"}
        /\ gone' /\ reaps' > 0
    BY <1>0, <1>11, FinalizeEffect DEF EndSession
  <2>1. IdleStart' /\ OneConnectPerStage'
    BY <1>11, <2>0 DEF EndSession, IdleStart, OneConnectPerStage, ConnectInv
  <2>2. NoUnwatchedStream'
    BY <1>11, <2>0 DEF EndSession, NoUnwatchedStream, ConnectInv, Watched
  <2>3. QED
    BY <2>0, <2>1, <2>2 DEF RemovalScheduled, EndBeforeRemoval
<1>12. CASE Reap
  <2>1. IdleStart' /\ OneConnectPerStage' /\ NoUnwatchedStream'
    BY <1>12 DEF Reap, IdleStart, OneConnectPerStage, NoUnwatchedStream, Watched, ConnectInv
  <2>2. gone /\ UNCHANGED gone /\ ~listed'
    BY <1>12 DEF Reap, EndBeforeRemoval, ConnectInv
  <2>3. QED
    BY <2>1, <2>2 DEF RemovalScheduled, EndBeforeRemoval
<1>13. CASE UNCHANGED vars
  BY <1>13 DEF vars, IdleStart, OneConnectPerStage, NoUnwatchedStream, Watched,
     RemovalScheduled, EndBeforeRemoval, ConnectInv
<1>14. QED
  BY <1>1, <1>2, <1>3, <1>4, <1>5, <1>6, <1>7, <1>8, <1>9, <1>10, <1>11, <1>12,
     <1>13 DEF Next

\* ConnectInv is an inductive invariant of a session.
THEOREM ConnectsConsistent == Spec => []ConnectInv
BY InitConnect, NextConnect, PTL DEF Spec

\* disconnect() never starts a reconnect of a stage that has one in progress.
THEOREM OneConnect == Spec => []OneConnectPerStage
BY ConnectsConsistent, PTL DEF ConnectInv

\* Every open stream of a pipeline that has been connected has its handlers.
THEOREM StreamsWatched == Spec => []NoUnwatchedStream
BY ConnectsConsistent, PTL DEF ConnectInv

\* A destroyed session that is in the table has its removal scheduled.
THEOREM RemovalComes == Spec => []RemovalScheduled
BY ConnectsConsistent, PTL DEF ConnectInv

-----------------------------------------------------------------------------
(* The pipes and the count of active streams of a session that is alive.   *)

PipelineInv == NoGap /\ ActiveStreams

LEMMA DownFinite == Down \subseteq Stages /\ IsFiniteSet(Down)
<1>1. IsFiniteSet(Stages)
  BY StagesAssumption, FS_AddElement DEF Stages
<1>2. QED
  BY <1>1, FS_Subset DEF Down

\* Of a pipeline that is ready, an attempt that fails and does not end the
\* session is retried.
LEMMA FailedIsRetried ==
  ASSUME NEW st, NEW n, NEW stg, NEW str,
         AttemptFailed(st, n, stg, str) \/ Rejected(st, stg, str),
         pipeline' = "ready", ~gone'
  PROVE  /\ conn' = [conn EXCEPT ![st] = "backoff"]
         /\ pipeline = "ready" /\ UNCHANGED gone
<1>1. pipeline = "ready"
  BY DEF AttemptFailed, GiveUp, Rejected
<1>2. ~GiveUp(st, stg, str) /\ ~Rejected(st, stg, str)
  BY <1>1 DEF GiveUp, Rejected, Finalize
<1>3. QED
  BY <1>1, <1>2 DEF AttemptFailed, Proceed

\* A connect that goes on, under whatever phase, changes no count and no pipe.
LEMMA StillDown ==
  ASSUME TypeOK, PipelineInv, NEW st \in Stages, NEW phase \in {"attempt", "backoff"},
         conn[st] # "idle", conn' = [conn EXCEPT ![st] = phase],
         pipeline' = pipeline, gone' = gone, UNCHANGED <<active, piped>>
  PROVE  PipelineInv'
<1>1. /\ \A s \in Stages : conn'[s] = "idle" <=> conn[s] = "idle"
  BY DEF TypeOK
<1>2. Down' = Down
  BY <1>1 DEF Down
<1>3. ActiveStreams'
  BY <1>2 DEF ActiveStreams, PipelineInv
<1>4. NoGap'
  <2> SUFFICES ASSUME pipeline' = "ready", ~gone', NEW p \in Pipes \ piped'
               PROVE  conn'[p[1]] # "idle" \/ conn'[p[2]] # "idle"
    BY DEF NoGap
  <2>1. conn[p[1]] # "idle" \/ conn[p[2]] # "idle"
    BY DEF NoGap, PipelineInv
  <2>2. \A x : conn[x] # "idle" /\ x \in Stages => conn'[x] # "idle"
    BY <1>1
  <2>3. \A x : x \notin Stages => conn'[x] = conn[x]
    BY DEF TypeOK
  <2>4. QED
    BY <2>1, <2>2, <2>3
<1>5. QED
  BY <1>3, <1>4 DEF PipelineInv

\* A stage that is lost is counted, and only its own pipes go.
LEMMA DisconnectPipeline ==
  ASSUME ConnectInv, PipelineInv, NEW st \in Stages, Disconnect(st),
         pipeline = "ready"
  PROVE  PipelineInv'
<1> SUFFICES ASSUME pipeline' = "ready", ~gone' PROVE PipelineInv'
  BY DEF PipelineInv, NoGap, ActiveStreams
<1>1. /\ conn[st] = "idle" /\ active' = active - 1
      /\ piped' = piped \ PipesAt(st)
  BY DEF Disconnect, Heeds, ConnectInv, OneConnectPerStage
<1>2. PICK phase \in {"attempt", "backoff"} :
        conn' = [conn EXCEPT ![st] = phase] /\ UNCHANGED gone
  <2> DEFINE stg == [stage EXCEPT ![st] = "DISCONNECTED"]
             str == [stream EXCEPT ![st] = "closed"]
  <2>1. CASE Finalize(stg, str)
    BY <2>1 DEF Finalize
  <2>2. CASE AttemptFailed(st, 1, stg, str)
    <3> HIDE DEF stg, str
    <3>1. QED
      BY <2>2, FailedIsRetried
  <2>3. CASE AttemptStarted(st, 1) /\ Proceed(stg, str)
    BY <2>3 DEF AttemptStarted, Proceed
  <2>4. QED
    BY <2>1, <2>2, <2>3 DEF Disconnect
<1>3. /\ conn'[st] # "idle"
      /\ \A s \in Stages : conn[s] # "idle" => conn'[s] # "idle"
      /\ \A x : x \notin Stages => conn'[x] = conn[x]
  BY <1>2 DEF ConnectInv, TypeOK
<1>4. ActiveStreams'
  <2>1. Down' = Down \union {st} /\ st \notin Down
    BY <1>1, <1>2 DEF Down, ConnectInv, TypeOK
  <2>2. Cardinality(Down') = Cardinality(Down) + 1
    BY <2>1, DownFinite, FS_AddElement
  <2>3. active = NumStreams - Cardinality(Down)
    BY <1>2 DEF PipelineInv, ActiveStreams
  <2>4. NumStreams \in Nat /\ Cardinality(Down) \in Nat
    BY StagesAssumption, DownFinite, FS_CardinalityType DEF NumStreams
  <2>5. QED
    BY <1>1, <2>2, <2>3, <2>4 DEF ActiveStreams, NumStreams
<1>5. NoGap'
  <2> SUFFICES ASSUME NEW p \in Pipes \ piped'
               PROVE  conn'[p[1]] # "idle" \/ conn'[p[2]] # "idle"
    BY DEF NoGap
  <2>1. CASE p \in PipesAt(st)
    BY <1>3, <2>1 DEF PipesAt
  <2>2. CASE p \notin PipesAt(st)
    <3>1. p \notin piped
      BY <1>1, <2>2
    <3>2. conn[p[1]] # "idle" \/ conn[p[2]] # "idle"
      BY <1>2, <3>1 DEF PipelineInv, NoGap
    <3>3. QED
      BY <1>3, <3>2
  <2>3. QED
    BY <2>1, <2>2
<1>6. QED
  BY <1>4, <1>5 DEF PipelineInv

\* A stage that is back is counted, and all its pipes are in place again.
LEMMA ReconnectPipeline ==
  ASSUME ConnectInv, PipelineInv, NEW st \in Stages, Reconnect(st)
  PROVE  PipelineInv'
<1> SUFFICES ASSUME pipeline' = "ready", ~gone' PROVE PipelineInv'
  BY DEF PipelineInv, NoGap, ActiveStreams
<1>1. ~LastEgress(st) /\ UNCHANGED gone
  BY DEF Reconnect, Finalize
<1>2. /\ pipeline = "ready" /\ conn[st] = "attempt"
      /\ conn' = [conn EXCEPT ![st] = "idle"] /\ active' = active + 1
      /\ PipesAt(st) \subseteq piped' /\ piped \subseteq piped'
  BY <1>1 DEF Reconnect, Repiped
<1>3. ActiveStreams'
  <2>1. Down' = Down \ {st} /\ st \in Down
    BY <1>2 DEF Down, ConnectInv, TypeOK
  <2>2. Cardinality(Down') = Cardinality(Down) - 1
    BY <2>1, DownFinite, FS_RemoveElement
  <2>3. active = NumStreams - Cardinality(Down)
    BY <1>1, <1>2 DEF PipelineInv, ActiveStreams
  <2>4. NumStreams \in Nat /\ Cardinality(Down) \in Nat
    BY StagesAssumption, DownFinite, FS_CardinalityType DEF NumStreams
  <2>5. QED
    BY <1>2, <2>2, <2>3, <2>4 DEF ActiveStreams, NumStreams
<1>4. NoGap'
  <2> SUFFICES ASSUME NEW p \in Pipes \ piped'
               PROVE  conn'[p[1]] # "idle" \/ conn'[p[2]] # "idle"
    BY DEF NoGap
  <2>1. p[1] # st /\ p[2] # st
    BY <1>2 DEF PipesAt
  <2>2. conn[p[1]] # "idle" \/ conn[p[2]] # "idle"
    BY <1>1, <1>2 DEF PipelineInv, NoGap
  <2>3. QED
    BY <1>2, <2>1, <2>2 DEF ConnectInv, TypeOK
<1>5. QED
  BY <1>3, <1>4 DEF PipelineInv

LEMMA InitPipeline == Init => PipelineInv
BY DEF Init, PipelineInv, NoGap, ActiveStreams

LEMMA NextPipeline == ConnectInv /\ PipelineInv /\ [Next]_vars => PipelineInv'
<1> SUFFICES ASSUME ConnectInv, PipelineInv, [Next]_vars, pipeline' = "ready", ~gone'
             PROVE  PipelineInv'
  BY DEF PipelineInv, NoGap, ActiveStreams
<1> USE DEF bounds, registry
<1>0. TypeOK /\ Clusters \subseteq Stages
  BY DEF ConnectInv, Stages
<1>1. CASE RouteFails
  BY <1>1 DEF RouteFails
<1>2. CASE Route
  BY <1>2 DEF Route
<1>3. ASSUME NEW st \in Clusters, Connect(st) PROVE PipelineInv'
  BY <1>3 DEF Connect
<1>4. ASSUME NEW st \in Clusters, Complete(st) PROVE PipelineInv'
  <2>1. \A s \in Stages : conn'[s] = "idle"
    BY <1>4 DEF Complete, LastToConnect, IdleStart, ConnectInv, TypeOK, Stages
  <2>2. Down' = {} /\ Cardinality(Down') = 0
    BY <2>1, FS_EmptySet DEF Down
  <2>3. NumStreams \in Nat
    BY StagesAssumption, FS_CardinalityType DEF NumStreams
  <2>4. QED
    BY <1>4, <2>2, <2>3 DEF Complete, PipelineInv, NoGap, ActiveStreams, NumStreams
<1>5. ASSUME NEW st \in Stages, AttemptFails(st) PROVE PipelineInv'
  <2>1. conn[st] # "idle" /\ UNCHANGED <<active, piped>>
    BY <1>5 DEF AttemptFails
  <2>2. conn' = [conn EXCEPT ![st] = "backoff"] /\ pipeline = "ready" /\ UNCHANGED gone
    BY <1>5, FailedIsRetried DEF AttemptFails
  <2>3. QED
    BY <1>0, <2>1, <2>2, StillDown
<1>6. ASSUME NEW st \in Stages, RetryTimer(st) PROVE PipelineInv'
  <2>1. conn[st] # "idle" /\ UNCHANGED <<active, piped>>
    BY <1>6 DEF RetryTimer
  <2>2. CASE GiveUp(st, stage, stream)
    BY <2>2 DEF GiveUp, Rejected, Finalize
  <2>3. CASE AttemptFailed(st, tries[st] + 1, stage, stream)
    <3>1. conn' = [conn EXCEPT ![st] = "backoff"] /\ pipeline = "ready" /\ UNCHANGED gone
      BY <2>3, FailedIsRetried
    <3>2. QED
      BY <1>0, <2>1, <3>1, StillDown
  <2>4. CASE /\ AttemptStarted(st, tries[st] + 1)
             /\ UNCHANGED <<pipeline, stage, stream, status, gone, reaps>>
    <3>1. conn' = [conn EXCEPT ![st] = "attempt"]
      BY <2>4 DEF AttemptStarted
    <3>2. QED
      BY <1>0, <2>1, <2>4, <3>1, StillDown
  <2>5. QED
    BY <1>6, <2>2, <2>3, <2>4 DEF RetryTimer
<1>7. ASSUME NEW st \in Stages, Reconnect(st) PROVE PipelineInv'
  BY <1>7, ReconnectPipeline
<1>8. ASSUME NEW st \in Stages, Close(st) PROVE PipelineInv'
  <2>1. CASE Watched(st) /\ Disconnect(st)
    BY <2>1, DisconnectPipeline DEF Watched
  <2>2. CASE /\ Proceed(stage, [stream EXCEPT ![st] = "closed"])
             /\ UNCHANGED <<conn, tries, pipeline, active, piped>>
    BY <2>2 DEF Proceed, PipelineInv, NoGap, ActiveStreams, Down
  <2>3. QED
    BY <1>8, <2>1, <2>2 DEF Close
<1>9. ASSUME NEW st \in Clusters, DeleteEndPoint(st) PROVE PipelineInv'
  BY <1>0, <1>9, DisconnectPipeline DEF DeleteEndPoint
<1>10. ASSUME NEW st \in Stages, ToggleOrigin(st) PROVE PipelineInv'
  BY <1>10 DEF ToggleOrigin, PipelineInv, NoGap, ActiveStreams, Down
<1>11. CASE EndSession
  BY <1>11 DEF EndSession, Finalize
<1>12. CASE Reap
  BY <1>12 DEF Reap, PipelineInv, NoGap, ActiveStreams, Down
<1>13. CASE UNCHANGED vars
  BY <1>13 DEF vars, PipelineInv, NoGap, ActiveStreams, Down
<1>14. QED
  BY <1>1, <1>2, <1>3, <1>4, <1>5, <1>6, <1>7, <1>8, <1>9, <1>10, <1>11, <1>12,
     <1>13 DEF Next

LEMMA PipelineInvariant == Spec => []PipelineInv
BY InitPipeline, NextPipeline, ConnectsConsistent, PTL DEF Spec

\* While a session lives, a pipe of its pipeline is missing only next to a stage that
\* is being reconnected.
THEOREM PipelineConsistent == Spec => []NoGap
BY PipelineInvariant, PTL DEF PipelineInv

\* While a session lives, the count of active streams is that of the streams that are
\* not being reconnected: "connected" is announced when it is true.
THEOREM ActiveStreamsExact == Spec => []ActiveStreams
BY PipelineInvariant, PTL DEF PipelineInv

-----------------------------------------------------------------------------
(* The retry budget.                                                       *)

\* A timer is only armed while the policy allows one more attempt.
BudgetInv ==
  \A st \in Stages :
    /\ conn[st] = "attempt" => tries[st] <= Retries(st) + 1
    /\ conn[st] = "backoff" => tries[st] <= Retries(st)

LEMMA RetriesNat ==
  ASSUME TypeOK, NEW st PROVE SetupRetries \in Nat /\ Retries(st) \in Nat
<1>1. policy.num_retries \in Nat
  BY PoliciesAssumption DEF TypeOK
<1>2. QED
  BY <1>1 DEF SetupRetries, Retries, ReconnectRetries

\* The budget depends on the policy and on whether the pipeline is ready.
LEMMA RetriesFixed ==
  ASSUME UNCHANGED policy, pipeline' = "ready" <=> pipeline = "ready"
  PROVE  \A st : Retries(st)' = Retries(st)
BY DEF Retries, SetupRetries, ReconnectRetries

\* A failed attempt that was within the budget leaves a connect within it.
LEMMA FailedBudget ==
  ASSUME TypeOK, BudgetInv, NEW st \in Stages, NEW n \in Nat, NEW stg, NEW str,
         AttemptFailed(st, n, stg, str), UNCHANGED policy
  PROVE  BudgetInv'
<1>1. \A s : Retries(s)' = Retries(s)
  BY RetriesFixed DEF AttemptFailed, GiveUp, Rejected
<1>2. tries' = [tries EXCEPT ![st] = n]
  BY DEF AttemptFailed
<1>3. CASE conn' = [conn EXCEPT ![st] = "idle"]
  BY <1>1, <1>2, <1>3 DEF BudgetInv, TypeOK
<1>4. CASE n <= Retries(st) /\ conn' = [conn EXCEPT ![st] = "backoff"]
  BY <1>1, <1>2, <1>4 DEF BudgetInv, TypeOK
<1>5. QED
  BY <1>3, <1>4 DEF AttemptFailed, GiveUp, Rejected

\* An attempt that starts as the first, or after a timer, is within the budget.
LEMMA StartedBudget ==
  ASSUME TypeOK, BudgetInv, NEW st \in Stages, NEW n \in Nat, AttemptStarted(st, n),
         n <= Retries(st) + 1, UNCHANGED <<policy, pipeline>>
  PROVE  BudgetInv'
<1>1. \A s : Retries(s)' = Retries(s)
  BY RetriesFixed
<1>2. QED
  BY <1>1 DEF AttemptStarted, BudgetInv, TypeOK

\* A connect that is over has no budget to keep.
LEMMA IdleBudget ==
  ASSUME TypeOK, BudgetInv, NEW st \in Stages, UNCHANGED <<policy, tries>>,
         conn' = [conn EXCEPT ![st] = "idle"],
         pipeline' = "ready" <=> pipeline = "ready"
  PROVE  BudgetInv'
<1>1. \A s : Retries(s)' = Retries(s)
  BY RetriesFixed
<1>2. QED
  BY <1>1 DEF BudgetInv, TypeOK

LEMMA DisconnectBudget ==
  ASSUME TypeOK, BudgetInv, NEW st \in Stages, Disconnect(st), UNCHANGED policy
  PROVE  BudgetInv'
<1> DEFINE stg == [stage EXCEPT ![st] = "DISCONNECTED"]
           str == [stream EXCEPT ![st] = "closed"]
<1>0. 1 \in Nat /\ 1 <= Retries(st) + 1
  BY RetriesNat
<1>1. CASE UNCHANGED <<conn, tries, pipeline>>
  BY <1>1, RetriesFixed DEF BudgetInv
<1>2. CASE AttemptFailed(st, 1, stg, str)
  <2> HIDE DEF stg, str
  <2>1. QED
    BY <1>0, <1>2, FailedBudget
<1>3. CASE AttemptStarted(st, 1) /\ UNCHANGED pipeline
  BY <1>0, <1>3, StartedBudget
<1>4. QED
  BY <1>1, <1>2, <1>3 DEF Disconnect

LEMMA NextBudget == ConnectInv /\ BudgetInv /\ [Next]_vars => BudgetInv'
<1> SUFFICES ASSUME ConnectInv, BudgetInv, [Next]_vars PROVE BudgetInv'
  OBVIOUS
<1> USE DEF bounds, registry
<1>0. TypeOK /\ Clusters \subseteq Stages
  BY DEF ConnectInv, Stages
<1>1. CASE RouteFails
  BY <1>1, RetriesFixed DEF RouteFails, BudgetInv
<1>2. CASE Route
  <2>1. \A s : Retries(s)' = SetupRetries
    BY <1>2 DEF Route, Retries, SetupRetries
  <2>2. SetupRetries \in Nat
    BY <1>0, RetriesNat
  <2>3. \A s \in Stages : /\ conn'[s] = "backoff" => SetupRetries > 0 /\ tries'[s] = 1
                          /\ conn'[s] = "attempt" => tries'[s] = 1
    BY <1>2 DEF Route
  <2>4. QED
    BY <2>1, <2>2, <2>3 DEF BudgetInv
<1>3. ASSUME NEW st \in Clusters, Connect(st) PROVE BudgetInv'
  BY <1>0, <1>3, IdleBudget DEF Connect
<1>4. ASSUME NEW st \in Clusters, Complete(st) PROVE BudgetInv'
  <2>1. \A s \in Stages : conn'[s] = "idle"
    BY <1>4 DEF Complete, LastToConnect, IdleStart, ConnectInv, TypeOK, Stages
  <2>2. QED
    BY <2>1 DEF BudgetInv
<1>5. ASSUME NEW st \in Stages, AttemptFails(st) PROVE BudgetInv'
  <2>1. tries[st] \in Nat /\ UNCHANGED policy
    BY <1>0, <1>5 DEF AttemptFails, TypeOK
  <2>2. CASE AttemptFailed(st, tries[st], stage, stream)
    BY <1>0, <2>1, <2>2, FailedBudget
  <2>3. CASE Rejected(st, stage, stream) /\ UNCHANGED tries
    BY <1>0, <2>1, <2>3, IdleBudget DEF Rejected
  <2>4. QED
    BY <1>5, <2>2, <2>3 DEF AttemptFails
<1>6. ASSUME NEW st \in Stages, RetryTimer(st) PROVE BudgetInv'
  <2>1. /\ tries[st] + 1 \in Nat /\ UNCHANGED policy
        /\ tries[st] + 1 <= Retries(st) + 1
    BY <1>0, <1>6, RetriesNat DEF RetryTimer, BudgetInv, TypeOK
  <2>2. CASE GiveUp(st, stage, stream) /\ UNCHANGED tries
    BY <1>0, <2>1, <2>2, IdleBudget DEF GiveUp, Rejected
  <2>3. CASE AttemptFailed(st, tries[st] + 1, stage, stream)
    BY <1>0, <2>1, <2>3, FailedBudget
  <2>4. CASE AttemptStarted(st, tries[st] + 1) /\ UNCHANGED pipeline
    BY <1>0, <2>1, <2>4, StartedBudget
  <2>5. QED
    BY <1>6, <2>2, <2>3, <2>4 DEF RetryTimer
<1>7. ASSUME NEW st \in Stages, Reconnect(st) PROVE BudgetInv'
  BY <1>0, <1>7, IdleBudget DEF Reconnect
<1>8. ASSUME NEW st \in Stages, Close(st) PROVE BudgetInv'
  <2>1. CASE Disconnect(st)
    BY <1>0, <1>8, <2>1, DisconnectBudget DEF Close
  <2>2. CASE UNCHANGED <<conn, tries, pipeline>>
    BY <1>8, <2>2, RetriesFixed DEF Close, BudgetInv
  <2>3. QED
    BY <1>8, <2>1, <2>2 DEF Close
<1>9. ASSUME NEW st \in Clusters, DeleteEndPoint(st) PROVE BudgetInv'
  BY <1>0, <1>9, DisconnectBudget DEF DeleteEndPoint
<1>10. ASSUME NEW st \in Stages, ToggleOrigin(st) PROVE BudgetInv'
  BY <1>10, RetriesFixed DEF ToggleOrigin, BudgetInv
<1>11. CASE EndSession
  BY <1>11, RetriesFixed DEF EndSession, BudgetInv
<1>12. CASE Reap
  BY <1>12, RetriesFixed DEF Reap, BudgetInv
<1>13. CASE UNCHANGED vars
  BY <1>13, RetriesFixed DEF vars, BudgetInv
<1>14. QED
  BY <1>1, <1>2, <1>3, <1>4, <1>5, <1>6, <1>7, <1>8, <1>9, <1>10, <1>11, <1>12,
     <1>13 DEF Next

\* No connect of a stage makes more attempts than the retry policy grants.
THEOREM RetryBudget == Spec => []AttemptsBounded
<1>1. Init => BudgetInv
  BY DEF Init, BudgetInv
<1>2. TypeOK /\ BudgetInv => AttemptsBounded
  <2> SUFFICES ASSUME TypeOK, BudgetInv, NEW st \in Stages, conn[st] # "idle"
               PROVE  tries[st] <= IF pipeline = "ready"
                                   THEN IF policy.num_retries = 0 THEN 1 ELSE policy.num_retries
                                   ELSE SetupRetries + 1
    BY DEF AttemptsBounded, Down
  <2>1. policy.num_retries \in Nat
    BY PoliciesAssumption DEF TypeOK
  <2>2. tries[st] \in Nat /\ tries[st] <= Retries(st) + 1
    BY RetriesNat DEF TypeOK, BudgetInv
  <2>3. QED
    BY <2>1, <2>2 DEF Retries, ReconnectRetries, SetupRetries
<1>3. Spec => []BudgetInv
  BY <1>1, NextBudget, ConnectsConsistent, PTL DEF Spec
<1>4. QED
  BY <1>2, <1>3, TypeCorrect, PTL

\* A connect only changes its own stage.
LEMMA DisconnectConn ==
  ASSUME NEW st, Disconnect(st)
  PROVE  \E phase : conn' = [conn EXCEPT ![st] = phase]
                      \/ UNCHANGED conn
BY DEF Disconnect, AttemptFailed, GiveUp, Rejected, AttemptStarted

\* No retry timer starts a connection for a session that has been removed.
THEOREM RetriesAbandoned == Spec => NoRetryAfterRemoval
<1>1. ASSUME ConnectInv, [Next]_vars, NEW st \in Stages,
             conn[st] = "backoff", conn'[st] = "attempt"
      PROVE  listed
  <2> USE <1>1 DEF bounds, registry
  <2>0. TypeOK /\ Clusters \subseteq Stages /\ pipeline # "new"
    BY DEF ConnectInv, Stages, IdleStart
  <2>1. ASSUME NEW s \in Stages, RetryTimer(s) PROVE listed
    <3>1. CASE GiveUp(s, stage, stream)
      BY <2>0, <3>1 DEF GiveUp, Rejected, TypeOK
    <3>2. CASE listed
      BY <3>2
    <3>3. QED
      BY <2>1, <3>1, <3>2 DEF RetryTimer, SessionFound
  <2>2. ASSUME NEW s \in Stages, Disconnect(s) PROVE FALSE
    <3>1. s # st
      BY <2>2 DEF Disconnect, Heeds, ConnectInv, OneConnectPerStage
    <3>2. QED
      BY <2>0, <2>2, <3>1, DisconnectConn DEF TypeOK
  <2>3. ~\E s \in Stages : AttemptFails(s) \/ Reconnect(s)
    BY <2>0 DEF AttemptFails, AttemptFailed, GiveUp, Rejected, Reconnect, TypeOK
  <2>4. ~\E s \in Clusters : Connect(s) \/ Complete(s)
    BY <2>0 DEF Connect, Complete, TypeOK
  <2>5. ASSUME NEW s \in Stages, Close(s) PROVE FALSE
    BY <2>2, <2>5 DEF Close
  <2>6. ASSUME NEW s \in Clusters, DeleteEndPoint(s) PROVE FALSE
    BY <2>0, <2>2, <2>6 DEF DeleteEndPoint
  <2>7. UNCHANGED conn => FALSE
    OBVIOUS
  <2>8. ~RouteFails /\ ~Route /\ ~EndSession /\ ~Reap /\ ~UNCHANGED vars
        /\ ~\E s \in Stages : ToggleOrigin(s)
    BY <2>0, <2>7 DEF RouteFails, Route, EndSession, Reap, ToggleOrigin, vars
  <2>9. QED
    BY <2>1, <2>3, <2>4, <2>5, <2>6, <2>8 DEF Next
<1>2. ConnectInv /\ [Next]_vars =>
        [\A st \in Stages : conn[st] = "backoff" /\ conn'[st] = "attempt" => listed]_vars
  BY <1>1
<1>3. QED
  BY <1>2, ConnectsConsistent, PTL DEF Spec, NoRetryAfterRemoval

-----------------------------------------------------------------------------
(* The safety part of the life cycle a session promises.                   *)

\* A session starts as the abstract one.
LEMMA InitPromise == Init => Promise!Init
BY DEF Init, Promise!Init, Phase, Missing

\* A session that is, or gets, out of the table or over has no missing part.
LEMMA OverPhase ==
  /\ gone \/ ~listed => Missing = {} /\ Phase \in {"over", "removed"}
  /\ gone' \/ ~listed' => Missing' = {} /\ Phase' \in {"over", "removed"}
BY DEF Missing, Phase

\* A step that destroys the session, or is taken by a destroyed one that stays
\* in the table or out of it, ends the abstract session or is no step of it.
LEMMA FinalStep ==
  ASSUME ConnectInv, gone', UNCHANGED listed
  PROVE  [Promise!Next]_(Promise!vars)
<1>1. Phase \in {"setup", "up", "over", "removed"}
  BY DEF Phase
<1>2. CASE gone
  BY <1>2 DEF Promise!vars, Phase, Missing
<1>3. CASE ~gone
  <2>1. listed /\ Phase \in {"setup", "up"} /\ Phase' = "over" /\ Missing' = {}
    BY <1>3 DEF ConnectInv, EndBeforeRemoval, Phase, Missing
  <2>2. Promise!Finish
    BY <2>1 DEF Promise!Finish
  <2>3. QED
    BY <2>2 DEF Promise!Next
<1>4. QED
  BY <1>2, <1>3 DEF ConnectInv, TypeOK

\* A step that keeps the phase and the connects in progress is no abstract step.
LEMMA SameStep ==
  ASSUME Down' = Down, UNCHANGED <<listed, gone, pipeline>>
  PROVE  UNCHANGED Promise!vars
BY DEF Promise!vars, Phase, Missing

\* Before the pipeline is ready nothing the abstract session sees changes.
LEMMA SetupStep ==
  ASSUME pipeline # "ready", pipeline' # "ready", UNCHANGED <<listed, gone>>
  PROVE  UNCHANGED Promise!vars
BY DEF Promise!vars, Phase, Missing

\* A stage that stops or starts connecting is one part that returns or is lost.
LEMMA DownEffect ==
  ASSUME TypeOK, NEW st \in Stages, NEW value, conn' = [conn EXCEPT ![st] = value]
  PROVE  Down' = IF value = "idle" THEN Down \ {st} ELSE Down \union {st}
BY DEF Down, TypeOK

\* A destroyed session stays destroyed.
LEMMA GoneStays == [Next]_vars /\ gone => gone'
<1> SUFFICES ASSUME [Next]_vars, gone PROVE gone'
  OBVIOUS
<1> USE DEF bounds, registry, Finalize, Proceed
<1>1. ASSUME NEW st, NEW n, NEW stg, NEW str, AttemptFailed(st, n, stg, str) PROVE gone'
  BY <1>1 DEF AttemptFailed, GiveUp, Rejected
<1>2. ASSUME NEW st, Disconnect(st) PROVE gone'
  BY <1>1, <1>2 DEF Disconnect
<1>3. ASSUME NEW st, AttemptFails(st) \/ RetryTimer(st) PROVE gone'
  BY <1>1, <1>3 DEF AttemptFails, RetryTimer, GiveUp, Rejected
<1>4. ASSUME NEW st, Close(st) \/ DeleteEndPoint(st) PROVE gone'
  BY <1>2, <1>4 DEF Close, DeleteEndPoint
<1>5. ASSUME NEW st, Connect(st) \/ Complete(st) \/ Reconnect(st) \/ ToggleOrigin(st)
      PROVE  gone'
  BY <1>5 DEF Connect, Complete, Reconnect, ToggleOrigin
<1>6. ASSUME RouteFails \/ Route \/ EndSession \/ Reap \/ UNCHANGED vars PROVE gone'
  BY <1>6 DEF RouteFails, Route, EndSession, Reap, vars
<1>7. QED
  BY <1>3, <1>4, <1>5, <1>6 DEF Next

\* While a session is alive, disconnect() loses one part or ends it.
LEMMA DisconnectPromise ==
  ASSUME ConnectInv, NEW st \in Stages, Disconnect(st), pipeline = "ready",
         UNCHANGED listed
  PROVE  [Promise!Next]_(Promise!vars)
<1>0. TypeOK /\ conn[st] = "idle" /\ st \notin Down
  BY DEF ConnectInv, Disconnect, Heeds, OneConnectPerStage, Down
<1>1. CASE gone'
  BY <1>1, FinalStep
<1>2. CASE ~gone' /\ gone
  BY <1>2 DEF Disconnect, AttemptFailed, GiveUp, Rejected, Finalize, Proceed
<1>3. CASE ~gone' /\ ~gone
  <2>1. /\ \/ conn' = [conn EXCEPT ![st] = "attempt"]
           \/ conn' = [conn EXCEPT ![st] = "backoff"]
        /\ pipeline' = "ready"
    BY <1>3 DEF Disconnect, AttemptFailed, AttemptStarted, GiveUp, Rejected, Finalize
  <2>2. Down' = Down \union {st}
    BY <1>0, <2>1, DownEffect
  <2>3. listed /\ listed'
    BY <1>3 DEF ConnectInv, EndBeforeRemoval
  <2>4. Phase = "up" /\ Missing = Down /\ Phase' = "up" /\ Missing' = Down'
    BY <1>3, <2>1, <2>3 DEF Phase, Missing
  <2>5. Promise!Lose(st)
    BY <1>0, <2>2, <2>4 DEF Promise!Lose
  <2>6. QED
    BY <2>5 DEF Promise!Next
<1>4. QED
  BY <1>1, <1>2, <1>3 DEF ConnectInv, TypeOK

\* A connect that makes another attempt, or waits for one, loses nothing more.
LEMMA RetryPromise ==
  ASSUME ConnectInv, NEW st \in Stages, conn[st] # "idle", UNCHANGED listed,
         \/ \E n : AttemptFailed(st, n, stage, stream)
         \/ GiveUp(st, stage, stream) \/ Rejected(st, stage, stream)
         \/ \E n : AttemptStarted(st, n) /\ UNCHANGED <<pipeline, gone>>
  PROVE  [Promise!Next]_(Promise!vars)
<1>0. TypeOK /\ st \in Down /\ gone \in BOOLEAN
  BY DEF ConnectInv, TypeOK, Down
<1>1. CASE gone'
  BY <1>1, FinalStep
<1>2. CASE ~gone'
  <2>1. CASE pipeline = "failed"
    <3>1. pipeline' = "failed" /\ UNCHANGED gone
      BY <1>2, <2>1 DEF AttemptFailed, GiveUp, Rejected, Finalize, Proceed
    <3>2. QED
      BY <2>1, <3>1, SetupStep
  <2>2. CASE pipeline # "failed"
    <3>1. /\ \/ conn' = [conn EXCEPT ![st] = "attempt"]
             \/ conn' = [conn EXCEPT ![st] = "backoff"]
          /\ UNCHANGED <<pipeline, gone>>
      BY <1>2, <2>2 DEF AttemptFailed, AttemptStarted, GiveUp, Rejected, Finalize, Proceed
    <3>2. Down' = Down
      BY <1>0, <3>1, DownEffect
    <3>3. QED
      BY <3>1, <3>2, SameStep
  <2>3. QED
    BY <2>1, <2>2
<1>3. QED
  BY <1>1, <1>2

\* Every step of a session is a step of its life cycle or none.
LEMMA NextPromise == ConnectInv /\ [Next]_vars => [Promise!Next]_(Promise!vars)
<1> SUFFICES ASSUME ConnectInv, [Next]_vars PROVE [Promise!Next]_(Promise!vars)
  OBVIOUS
<1> USE DEF bounds, registry
<1>0. TypeOK /\ Clusters \subseteq Stages /\ (gone => gone')
  BY GoneStays DEF ConnectInv, Stages
<1>1. CASE RouteFails
  BY <1>1, FinalStep DEF RouteFails, Finalize
<1>2. CASE Route
  <2>1. CASE gone'
    BY <1>2, <2>1, FinalStep DEF Route
  <2>2. CASE UNCHANGED gone
    BY <1>2, <2>2, SetupStep DEF Route
  <2>3. QED
    BY <1>2, <2>1, <2>2 DEF Route, Finalize, Proceed
<1>3. ASSUME NEW st \in Clusters, Connect(st) PROVE [Promise!Next]_(Promise!vars)
  <2>1. pipeline # "ready" /\ pipeline' # "ready" /\ UNCHANGED <<listed, gone>>
    BY <1>3 DEF Connect, Proceed
  <2>2. QED
    BY <2>1, SetupStep
<1>4. ASSUME NEW st \in Clusters, Complete(st) PROVE [Promise!Next]_(Promise!vars)
  <2>1. CASE gone
    BY <1>0, <1>4, <2>1, FinalStep DEF Complete
  <2>2. CASE ~gone
    <3>1. Down' = {}
      BY <1>0, <1>4 DEF Complete, LastToConnect, Down, ConnectInv, IdleStart,
                        Stages, TypeOK
    <3>2. listed /\ listed' /\ ~gone'
      BY <1>4, <2>2 DEF Complete, ConnectInv, EndBeforeRemoval
    <3>3. Phase = "setup" /\ Missing = {} /\ Phase' = "up" /\ Missing' = {}
      BY <1>4, <2>2, <3>1, <3>2 DEF Complete, LastToConnect, Phase, Missing
    <3>4. Promise!Establish
      BY <3>3 DEF Promise!Establish
    <3>5. QED
      BY <3>4 DEF Promise!Next
  <2>3. QED
    BY <1>0, <2>1, <2>2 DEF TypeOK
<1>5. ASSUME NEW st \in Stages, AttemptFails(st) PROVE [Promise!Next]_(Promise!vars)
  BY <1>5, RetryPromise DEF AttemptFails
<1>6. ASSUME NEW st \in Stages, RetryTimer(st) PROVE [Promise!Next]_(Promise!vars)
  BY <1>6, RetryPromise DEF RetryTimer
<1>7. ASSUME NEW st \in Stages, Reconnect(st) PROVE [Promise!Next]_(Promise!vars)
  <2>1. CASE gone'
    BY <1>7, <2>1, FinalStep DEF Reconnect
  <2>2. CASE ~gone'
    <3>1. listed /\ listed' /\ ~gone /\ pipeline = "ready" /\ pipeline' = "ready"
      BY <1>0, <1>7, <2>2 DEF Reconnect, ConnectInv, EndBeforeRemoval
    <3>2. Down' = Down \ {st} /\ st \in Down
      BY <1>0, <1>7, DownEffect DEF Reconnect, Down
    <3>3. Phase = "up" /\ Missing = Down /\ Phase' = "up" /\ Missing' = Down'
      BY <2>2, <3>1 DEF Phase, Missing
    <3>4. Promise!Restore(st)
      BY <3>2, <3>3 DEF Promise!Restore
    <3>5. QED
      BY <3>4 DEF Promise!Next
  <2>3. QED
    BY <2>1, <2>2
<1>8. ASSUME NEW st \in Stages, Close(st) PROVE [Promise!Next]_(Promise!vars)
  <2>1. CASE Watched(st)
    BY <1>8, <2>1, DisconnectPromise DEF Close, Watched
  <2>2. CASE ~Watched(st)
    BY <1>8, <2>2, SameStep DEF Close, Proceed, Down
  <2>3. QED
    BY <2>1, <2>2
<1>9. ASSUME NEW st \in Clusters, DeleteEndPoint(st)
      PROVE  [Promise!Next]_(Promise!vars)
  BY <1>0, <1>9, DisconnectPromise DEF DeleteEndPoint
<1>10. ASSUME NEW st \in Stages, ToggleOrigin(st) PROVE [Promise!Next]_(Promise!vars)
  BY <1>10, SameStep DEF ToggleOrigin, Down
<1>11. CASE EndSession
  BY <1>11, FinalStep DEF EndSession, Finalize
<1>12. CASE Reap
  <2>1. gone /\ gone' /\ ~listed'
    BY <1>12 DEF Reap, ConnectInv, EndBeforeRemoval
  <2>2. CASE listed
    <3>1. Phase = "over" /\ Missing = {} /\ Phase' = "removed" /\ Missing' = {}
      BY <2>1, <2>2 DEF Phase, Missing
    <3>2. Promise!Remove
      BY <3>1 DEF Promise!Remove
    <3>3. QED
      BY <3>2 DEF Promise!Next
  <2>3. CASE ~listed
    BY <2>1, <2>3 DEF Phase, Missing, Promise!vars
  <2>4. QED
    BY <2>2, <2>3
<1>13. CASE UNCHANGED vars
  BY <1>13, SameStep DEF vars, Down
<1>14. QED
  BY <1>1, <1>2, <1>3, <1>4, <1>5, <1>6, <1>7, <1>8, <1>9, <1>10, <1>11, <1>12,
     <1>13 DEF Next

\* A session implements the life cycle it promises, but for its fairness: it is
\* set up once, loses and regains parts one by one, and ends before it is removed.
THEOREM ImplementsLifecycle == Spec => Promise!Init /\ [][Promise!Next]_(Promise!vars)
BY InitPromise, NextPromise, ConnectsConsistent, PTL DEF Spec

=============================================================================
