-------------------------- MODULE SessionLifecycle --------------------------
(***************************************************************************)
(* What a session promises to the listener that created it and to the API, *)
(* with no word on attempts, timers, handlers and pipes: it is set up      *)
(* once, then parts of it may be missing for a while, one loss and one     *)
(* return at a time; it ends once; after its end it is removed from the    *)
(* table, never before.                                                    *)
(***************************************************************************)
CONSTANT Parts   \* the stages of the session

VARIABLES
  phase,    \* where the session is in its life
  missing   \* the parts that are disconnected from an established session

vars == <<phase, missing>>

TypeOK ==
  /\ phase \in {"setup", "up", "over", "removed"}
  /\ missing \in SUBSET Parts

Init == phase = "setup" /\ missing = {}

Establish ==
  /\ phase = "setup"
  /\ phase' = "up"
  /\ UNCHANGED missing

Lose(p) ==
  /\ phase = "up" /\ p \notin missing
  /\ missing' = missing \union {p}
  /\ UNCHANGED phase

Restore(p) ==
  /\ phase = "up" /\ p \in missing
  /\ missing' = missing \ {p}
  /\ UNCHANGED phase

Finish ==
  /\ phase \in {"setup", "up"}
  /\ phase' = "over"
  /\ missing' = {}

Remove ==
  /\ phase = "over"
  /\ phase' = "removed"
  /\ UNCHANGED missing

Next ==
  \/ Establish
  \/ \E p \in Parts : Lose(p)
  \/ \E p \in Parts : Restore(p)
  \/ Finish
  \/ Remove

\* Setting up ends, a missing part comes back or ends the session, and a
\* session that is over is removed.
Fairness ==
  /\ WF_vars(phase = "setup" /\ (Establish \/ Finish))
  /\ \A p \in Parts : WF_vars(p \in missing /\ (Restore(p) \/ Finish))
  /\ WF_vars(Remove)

Spec == Init /\ [][Next]_vars /\ Fairness
=============================================================================
