\* Two remotes, three sockets; packets race the set-up, ends, errors and a deletion.
SPECIFICATION Spec
CHECK_DEADLOCK FALSE
CONSTANTS
  Remotes = {1, 2, 3}
  Expected = {1, 2}
  MaxSockets = 3
INVARIANTS
  TypeOK
  ClosedIsForgotten
  OneSession
PROPERTIES
  Forgotten
  PurgedCloses
