\* A stage of the egress chain reconnects.
SPECIFICATION Spec
CHECK_DEADLOCK FALSE
CONSTANTS
  Source = "src"
  Destination = "dst"
  Ingress <- NoStages
  Egress <- OneEgress
  Retriable = {"dst", "out1"}
  Policies <- RetryDisconnect
  MaxFaults = 1
  MaxCalls = 0
  MaxToggles = 0
PROPERTIES
  ReconnectKeepsSession
