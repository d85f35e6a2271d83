\* Three ports of three names in two rooms.
SPECIFICATION Spec
CHECK_DEADLOCK FALSE
CONSTANTS
  Names = {"s1", "s2", "s3"}
  Labels = {"x", "y"}
  MaxPorts = 3
INVARIANTS
  OneDomain
  EndsByLeaving
PROPERTIES
  EndSpreads
