----------------------------- MODULE MCJSONSocket -----------------------------
(***************************************************************************)
(* The instance of JSONSocket that is checked: a connection of any role    *)
(* and transport, and a second one, of another program on one of its       *)
(* sides, that can end the process both are served by.                     *)
(***************************************************************************)
EXTENDS JSONSocket

\* The two connections share a process.
MCInit ==
  /\ Init
  /\ role["b"] # "both" /\ role["a"] \in {"both", role["b"]}
  /\ transport["b"] = "bytes"

MCSpec == MCInit /\ [][Next]_vars /\ Fairness
=============================================================================
