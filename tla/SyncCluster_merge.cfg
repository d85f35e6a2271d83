\* Two sessions meet, and one leaves.
SPECIFICATION Spec
CHECK_DEADLOCK FALSE
CONSTANTS
  Names = {"s1", "s2"}
  Labels = {"x"}
  MaxPorts = 2
INVARIANTS
  MergeStaysOpen
