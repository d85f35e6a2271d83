------------------------------ MODULE SyncCluster ------------------------------
(***************************************************************************)
(* The Sync cluster: the sessions whose metadata has one label meet in a   *)
(* room, a BroadcastStream.  Each has a port there, whose input is piped   *)
(* to the outputs of all other ports.  A session writes to its input and   *)
(* reads its output.                                                       *)
(*                                                                         *)
(* The pipes are Node's: one ends its output when its input ends, is taken *)
(* down when its output has finished, and waits for an output that is full.*)
(***************************************************************************)
EXTENDS Naturals

CONSTANTS
  Names,    \* of sessions: a name may be used again when its session is over
  Labels,   \* of rooms
  MaxPorts  \* bound: ports

ASSUME SyncAssumption == MaxPorts \in Nat

Ports == 1 .. MaxPorts

VARIABLES
  born,     \* ports so far, numbered in the order in which they join
  key,      \* of a port: the name of its session
  label,    \* of a port: its room
  member,   \* its session: "none", "joined" (being set up), "piped" or "left"
  listed,   \* BroadcastStream.ports of all rooms
  input,    \* the input: "open", "ended" by its session, or "over": its end is emitted
  output,   \* the output: "open", "ending" or "finished"
  flows,    \* ports whose output is being read
  told,     \* ports that have emitted their end
  pipes,    \* <<p, q>>: the input of p is piped to the output of q
  waits,    \* <<p, q>>: the input of p is paused until the output of q is read
  up        \* the process runs

vars == <<born, key, label, member, listed, input, output, flows, told, pipes, waits, up>>

Joined == 1 .. born
Of(k) == {p \in Joined : key[p] = k}

\* The other sessions' ports of the room of p.
Others(p) == {q \in Joined : label[q] = label[p] /\ key[q] # key[p]}

-----------------------------------------------------------------------------

\* Mutant: the ports are not told apart by their room.
PeersAnywhere(k, l) == {q \in listed : key[q] # k}

\* The ports of the room that add() pipes to the new one: not those with its key.
Peers(k, l) == {q \in listed : label[q] = l /\ key[q] # k}

\* Mutant: the new port hears the others, and they do not hear it.
Listening(p, qs) == qs \X {p}

\* add() pipes the input of the new port p to the others, and theirs to its output.
Connected(p, qs) == ({p} \X qs) \union (qs \X {p})

\* _stream(): a session that is being set up joins the room of its label, which it
\* has more than once if the cluster is on its route more than once.  An input whose end
\* is emitted ends the output that it is piped to.
Join(k, l) ==
  LET p == born + 1 IN
  /\ up /\ p \in Ports
  /\ \A q \in Of(k) : member[q] = "left" \/ (member[q] = "joined" /\ label[q] = l)
  /\ born' = p
  /\ key' = [key EXCEPT ![p] = k]
  /\ label' = [label EXCEPT ![p] = l]
  /\ member' = [member EXCEPT ![p] = "joined"]
  /\ listed' = listed \union {p}
  /\ input' = [input EXCEPT ![p] = "open"]
  /\ output' = [output EXCEPT ![p] =
                  IF \E q \in Peers(k, l) : input[q] = "over" THEN "ending" ELSE "open"]
  /\ pipes' = pipes \union Connected(p, Peers(k, l))
  /\ UNCHANGED <<flows, told, waits, up>>

Ready(k) == {p \in Of(k) : member[p] = "joined"}

\* The session k is connected and reads its ports.
Pipe(k) ==
  /\ up /\ Ready(k) # {}
  /\ member' = [p \in Ports |-> IF p \in Ready(k) THEN "piped" ELSE member[p]]
  /\ flows' = flows \union Ready(k)
  /\ waits' = {w \in waits : w[2] \notin Ready(k)}
  /\ UNCHANGED <<born, key, label, listed, input, output, told, pipes, up>>

Members(k) == {p \in Of(k) : member[p] \in {"joined", "piped"}}

\* The session k ends, or fails to be set up: destroy() ends its ports, which ends
\* their inputs.
Leave(k) ==
  /\ up /\ Members(k) # {}
  /\ member' = [p \in Ports |-> IF p \in Members(k) THEN "left" ELSE member[p]]
  /\ input' = [p \in Ports |-> IF p \in Members(k) THEN "ended" ELSE input[p]]
  /\ UNCHANGED <<born, key, label, listed, output, flows, told, pipes, waits, up>>

\* What the session of p has piped its port to has ended, too: nobody reads it.
Stop(p) ==
  /\ up /\ p \in flows /\ member[p] = "left"
  /\ flows' = flows \ {p}
  /\ UNCHANGED <<born, key, label, member, listed, input, output, told, pipes, waits, up>>

Readers(p) == {q \in Joined : <<p, q>> \in pipes}

\* The session of p writes.  Outputs that nobody reads fill up, and the input is paused.
\* A write to an output that has been ended is an error, for which the handler of the
\* port calls a method that there is not: the process ends.
Write(p) ==
  /\ up /\ member[p] = "piped" /\ Readers(p) # {}
  /\ \A q \in Joined : <<p, q>> \notin waits
  /\ IF \E q \in Readers(p) \ told : output[q] # "open"
     THEN up' = FALSE /\ UNCHANGED waits
     ELSE /\ \E full \in SUBSET (Readers(p) \ flows) : waits' = waits \union ({p} \X full)
          /\ UNCHANGED up
  /\ UNCHANGED <<born, key, label, member, listed, input, output, flows, told, pipes>>

\* Mutant: the pipes do not end what they are piped to, as MergeStream.add() has it.
EndAlone(p) ==
  /\ up /\ p \in Joined /\ input[p] = "ended" /\ Readers(p) # {}
  /\ \A q \in Joined : <<p, q>> \notin waits
  /\ input' = [input EXCEPT ![p] = "over"]
  /\ UNCHANGED <<born, key, label, member, listed, output, flows, told, pipes, waits, up>>

\* The input emits its end when it has been read, by a pipe, and each pipe ends its
\* output.
End(p) ==
  /\ up /\ p \in Joined /\ input[p] = "ended" /\ Readers(p) # {}
  /\ \A q \in Joined : <<p, q>> \notin waits
  /\ input' = [input EXCEPT ![p] = "over"]
  /\ output' = [q \in Ports |->
                  IF q \in Readers(p) /\ output[q] = "open" THEN "ending" ELSE output[q]]
  /\ UNCHANGED <<born, key, label, member, listed, flows, told, pipes, waits, up>>

\* An output finishes when what was written before is flushed; its pipes go.
Finish(q) ==
  /\ up /\ q \in Joined /\ output[q] = "ending"
  /\ \A p \in Joined : <<p, q>> \notin waits
  /\ output' = [output EXCEPT ![q] = "finished"]
  /\ pipes' = {w \in pipes : w[2] # q}
  /\ UNCHANGED <<born, key, label, member, listed, input, flows, told, waits, up>>

\* The ports of the room with the key of p, and the first of them in the list.
Twins(p) == {q \in Joined : label[q] = label[p] /\ key[q] = key[p]}
First(p) == {q \in Twins(p) \intersect listed : \A r \in Twins(p) \intersect listed : q <= r}

\* remove() of the key of p: the first port is unpiped, both ways, and forgotten.
Remove(p) ==
  /\ listed' = listed \ First(p)
  /\ pipes' = {w \in pipes : w[1] \notin First(p) /\ w[2] \notin First(p)}

\* The port emits its end, when its output is read to the end: it is removed.
PortEnd(p) ==
  /\ up /\ p \in flows \ told /\ output[p] = "finished"
  /\ told' = told \union {p}
  /\ Remove(p)
  /\ waits' = {w \in waits : w \in pipes'}
  /\ UNCHANGED <<born, key, label, member, input, output, flows, up>>

-----------------------------------------------------------------------------

Init ==
  /\ born = 0
  /\ key = [p \in Ports |-> "none"] /\ label = [p \in Ports |-> "none"]
  /\ member = [p \in Ports |-> "none"] /\ listed = {}
  /\ input = [p \in Ports |-> "none"] /\ output = [p \in Ports |-> "none"]
  /\ flows = {} /\ told = {} /\ pipes = {} /\ waits = {} /\ up = TRUE

Next ==
  \/ \E k \in Names : (\E l \in Labels : Join(k, l)) \/ Pipe(k) \/ Leave(k)
  \/ \E p \in Ports : Stop(p) \/ Write(p) \/ End(p) \/ Finish(p) \/ PortEnd(p)

\* Streams emit their events, and sessions are set up or fail (KeepsPromise, in
\* Session).  Nobody has to write or to leave.
Fairness ==
  /\ \A k \in Names : WF_vars(Ready(k) # {} /\ (Pipe(k) \/ Leave(k)))
  /\ \A p \in Ports : WF_vars(End(p)) /\ WF_vars(Finish(p)) /\ WF_vars(PortEnd(p))

Spec == Init /\ [][Next]_vars /\ Fairness

-----------------------------------------------------------------------------
(* Properties.                                                             *)

\* The type invariant: what ports, streams and pipes are.
TypeOK ==
  /\ born \in 0 .. MaxPorts
  /\ key \in [Ports -> Names \union {"none"}] /\ label \in [Ports -> Labels \union {"none"}]
  /\ member \in [Ports -> {"none", "joined", "piped", "left"}]
  /\ input \in [Ports -> {"none", "open", "ended", "over"}]
  /\ output \in [Ports -> {"none", "open", "ending", "finished"}]
  /\ listed \subseteq Joined /\ flows \subseteq Joined /\ told \subseteq Joined
  /\ pipes \subseteq Joined \X Joined /\ waits \subseteq pipes /\ up \in BOOLEAN

\* A room is one broadcast domain, whoever joins, leaves or is removed in whatever
\* order: two sessions that have not left and whose streams nobody has ended hear
\* each other.
OneDomain ==
  \A p \in Joined : \A q \in Others(p) :
    {input[p], input[q], output[p], output[q]} = {"open"} => <<p, q>> \in pipes

\* Only another session of its room that has left ends the stream of a session, and
\* the process: among sessions that stay, no write fails.
EndsByLeaving ==
  /\ \A p \in Joined : output[p] # "open" => \E q \in Others(p) : member[q] = "left"
  /\ up \/ \E p \in Joined : output[p] # "open"

\* A session that leaves ends the whole room, whatever is stalled, and the sessions
\* that join it until its port is removed: each gets the end of its stream, unless it
\* leaves, the process ends, or it has the name of a session that was there before it,
\* which it does not hear.
EndSpreads ==
  \A q \in Ports :
    member[q] = "piped" /\ (\E p \in Others(q) \intersect listed : member[p] = "left")
      ~> ~up \/ q \in told \/ member[q] = "left" \/ (\E r \in Twins(q) : r < q)

\* "we want to keep it around so that later we can add new writers": the stream of a
\* session is not ended when a writer goes away (stream.js:258-259).
MergeStaysOpen ==
  \A p \in Joined : member[p] # "left" => output[p] = "open"
=============================================================================
