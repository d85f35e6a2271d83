\* Sessions of one peer, which share names, and a listener or cluster added again.
SPECIFICATION Spec
CHECK_DEADLOCK FALSE
CONSTANTS
  Listeners = {"tcp"}
  Clusters = {"c1"}
  Peers = {7}
  Numbered = {}
  MaxAttempts = 1
  MaxSessions = 3
  MaxCalls = 1
  MaxAdds = 1
INVARIANTS
  TypeOK
  NamesUnique
  AliveIsListed
  ServedByRegistry
PROPERTIES
  OverLeaves
