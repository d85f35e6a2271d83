\* Every retry policy, on a source that reconnects, one egress stage and a destination:
\* retries, removal, settling and the life cycle.
SPECIFICATION Spec
CHECK_DEADLOCK FALSE
CONSTANTS
  Source = "src"
  Destination = "dst"
  Ingress <- NoStages
  Egress <- OneEgress
  Retriable = {"src", "out1", "dst"}
  Policies <- EveryPolicy
  MaxFaults = 2
  MaxCalls = 1
  MaxToggles = 1
INVARIANTS
  TypeOK
  NoUnwatchedStream
  RemovalScheduled
  AttemptsBounded
PROPERTIES
  NoRetryAfterRemoval
  DisconnectSettles
  DestroyedStopsRetrying
  KeepsPromise
