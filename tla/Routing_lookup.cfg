\* Two sessions, four endpoints of three addresses and two weights.
SPECIFICATION Spec
CHECK_DEADLOCK FALSE
CONSTANTS
  ListNames <- Lists2
  Start = "l1"
  Values = {"v1", "v2"}
  NoValue <- Nobody
  Wildcard <- Star
  RuleNames <- Rules3
  Tables <- MCTables
  Sessions = {s1, s2}
  EndPoints = {"e1", "e2", "e3", "e4"}
  Addresses = {"a1", "a2", "a3"}
  AddressOf <- Shared
  WeightOf <- Weights
  VNodes = 2
  Rings <- MCRings
  MaxDepth = 2
  MaxChanges = 5
VIEW View
PROPERTIES
  LookupIsChain
  Affinity
