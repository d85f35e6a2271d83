------------------------------- MODULE MCOffload -------------------------------
(* Two interfaces, a listener in singleton mode and one in server mode, a     *)
(* cluster that binds its port and one that does not.                         *)
EXTENDS Offload

Interfaces == {"lo", "eth0"}
Clients2 == {"c1", "c2"}
Singletons1 == {"c1"}
Servers2 == {"e1", "e2"}
Bound1 == {"e1"}
None == "none"

\* No step reads the redirects of earlier maps, but a mutant: of those only whether
\* there are any distinguishes states.
View == <<process, Redirects, tuple, socket, hidden,
          \E n \in 1 .. starts : redirect[n] # NoRedirect>>
=============================================================================
