\* Overlapping additions and deletions, failures included.
SPECIFICATION Spec
CHECK_DEADLOCK FALSE
CONSTANTS
  Tasks = {1, 2}
  Items <- AllItems
  Requests <- AllRequests
  MaxObjects = 20
  MaxCalls = 3
  MaxFaults = 1
INVARIANTS
  UniqueNames
  EndPointsAgree
  OwnersKnown
  DumpsWork
PROPERTIES
  ExplicitSurvive
