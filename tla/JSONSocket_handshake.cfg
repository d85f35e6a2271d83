\* A connection of any role and transport, and one with another program.
SPECIFICATION MCSpec
CHECK_DEADLOCK FALSE
CONSTANTS
  Conns = {"a", "b"}
  MaxData = 1
  MaxLosses = 1
INVARIANTS
  ConnectedIsAnswered
  FailedIsClosed
  PayloadIsData
PROPERTIES
  ServerFollows
  ImplementsHandshake
