\* Two sessions of a process that is started twice.
SPECIFICATION Spec
CHECK_DEADLOCK FALSE
CONSTANTS
  Ifs <- Interfaces
  Sessions = {s1, s2}
  Clients <- Clients2
  Singletons <- Singletons1
  Servers <- Servers2
  Bound <- Bound1
  NoTuple <- None
  MaxStarts = 2
VIEW View
INVARIANTS
  RedirectsAreOwned
  EngineIsLoaded
  NoFilterLeft
PROPERTIES
  OthersKeepRedirects
