\* Overlapping reconnects on chains in both directions.
SPECIFICATION Spec
CHECK_DEADLOCK FALSE
CONSTANTS
  Source = "src"
  Destination = "dst"
  Ingress <- OneIngress
  Egress <- TwoEgress
  Retriable = {"src", "dst", "in1", "out1", "out2"}
  Policies <- RetryDisconnect
  MaxFaults = 2
  MaxCalls = 1
  MaxToggles = 0
INVARIANTS
  ActiveStreams
  NoGap
  OneConnectPerStage
