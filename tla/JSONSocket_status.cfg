\* What the specification of JSONSocket demands of a client, on one connection.
SPECIFICATION Spec
CHECK_DEADLOCK FALSE
CONSTANTS
  Conns = {"a"}
  MaxData = 0
  MaxLosses = 0
INVARIANTS
  ConnectedIsAgreed
