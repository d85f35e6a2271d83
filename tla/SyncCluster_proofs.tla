-------------------------- MODULE SyncCluster_proofs --------------------------
(* Proofs about SyncCluster, for any sessions, rooms and number of ports.   *)
EXTENDS SyncCluster, TLAPS, FiniteSetTheorems, WellFoundedInduction

-----------------------------------------------------------------------------
(* Type correctness.                                                       *)

\* A port that joins is one more than those so far.
LEMMA PortNumbers ==
  ASSUME TypeOK
  PROVE  /\ Joined \subseteq Ports
         /\ \A p \in Ports : p = born + 1 =>
              p \notin Joined /\ 1 .. p = Joined \union {p} /\ p \in 0 .. MaxPorts
BY SyncAssumption DEF TypeOK, Joined, Ports

LEMMA InitType == Init => TypeOK
BY SyncAssumption DEF Init, TypeOK, Joined, Ports

LEMMA JoinType ==
  ASSUME TypeOK, NEW k \in Names, NEW l \in Labels, Join(k, l)
  PROVE  TypeOK'
<1> DEFINE p == born + 1
<1>1. p \in Ports /\ Joined' = Joined \union {p} /\ born' \in 0 .. MaxPorts
  BY PortNumbers DEF Join, Joined
<1>2. Peers(k, l) \subseteq Joined
  BY DEF Peers, TypeOK
<1>3. pipes' \subseteq Joined' \X Joined' /\ waits' \subseteq pipes'
  BY <1>1, <1>2 DEF Join, Connected, TypeOK
<1>4. QED
  BY <1>1, <1>3 DEF Join, TypeOK

LEMMA NextType == TypeOK /\ [Next]_vars => TypeOK'
<1> SUFFICES ASSUME TypeOK, [Next]_vars PROVE TypeOK'
  OBVIOUS
<1>0. Joined \subseteq Ports
  BY PortNumbers
<1>1. ASSUME NEW k \in Names, NEW l \in Labels, Join(k, l) PROVE TypeOK'
  BY <1>1, JoinType
<1>2. ASSUME NEW k \in Names, Pipe(k) PROVE TypeOK'
  BY <1>2 DEF Pipe, Ready, Of, Joined, TypeOK
<1>3. ASSUME NEW k \in Names, Leave(k) PROVE TypeOK'
  BY <1>3 DEF Leave, Joined, TypeOK
<1>4. ASSUME NEW p \in Ports, Stop(p) PROVE TypeOK'
  BY <1>4 DEF Stop, Joined, TypeOK
<1>5. ASSUME NEW p \in Ports, Write(p) PROVE TypeOK'
  <2>1. ASSUME NEW full \in SUBSET (Readers(p) \ flows) PROVE {p} \X full \subseteq pipes
    BY DEF Readers
  <2>2. waits' \subseteq pipes
    BY <1>5, <2>1 DEF Write, TypeOK
  <2>3. QED
    BY <1>5, <2>2 DEF Write, Joined, TypeOK
<1>6. ASSUME NEW p \in Ports, End(p) PROVE TypeOK'
  BY <1>6 DEF End, Joined, TypeOK
<1>7. ASSUME NEW p \in Ports, Finish(p) PROVE TypeOK'
  <2>1. \A w \in waits : w[2] # p
    BY <1>7 DEF Finish, TypeOK
  <2>2. pipes' \subseteq pipes /\ waits' \subseteq pipes'
    BY <1>7, <2>1 DEF Finish, TypeOK
  <2>3. QED
    BY <1>7, <2>2 DEF Finish, Joined, TypeOK
<1>8. ASSUME NEW p \in Ports, PortEnd(p) PROVE TypeOK'
  BY <1>8 DEF PortEnd, Remove, Joined, TypeOK
<1>9. ASSUME UNCHANGED vars PROVE TypeOK'
  BY <1>9 DEF vars, Joined, TypeOK
<1>10. QED
  BY <1>1, <1>2, <1>3, <1>4, <1>5, <1>6, <1>7, <1>8, <1>9 DEF Next

\* Ports, streams and pipes keep their types; pipes connect ports that have joined,
\* and an input waits only for outputs it is piped to (SyncCluster, BroadcastStream).
THEOREM SyncTypeCorrect == Spec => []TypeOK
<1>1. QED
  BY InitType, NextType, PTL DEF Spec

-----------------------------------------------------------------------------
(* What ends a stream.                                                     *)

\* A pipe leads to a port of another session in the same room, and the input of a
\* session that stays is open.
RoomInv ==
  /\ \A w \in pipes : w[2] \in Others(w[1])
  /\ \A p \in Joined : input[p] # "open" => member[p] = "left"

LeavingInv == TypeOK /\ RoomInv /\ EndsByLeaving

\* A new port is told apart from those of its room by its session.
LEMMA JoinKeepsLeaving ==
  ASSUME LeavingInv, NEW k \in Names, NEW l \in Labels, Join(k, l), NEW p, p = born + 1
  PROVE  RoomInv' /\ EndsByLeaving'
<1>1. p \in Ports /\ p \notin Joined /\ Joined' = Joined \union {p} /\ Joined \subseteq Ports
  BY PortNumbers DEF Join, Joined, LeavingInv
<1>2. /\ key'[p] = k /\ label'[p] = l /\ input'[p] = "open"
      /\ \A q \in Joined : /\ key'[q] = key[q] /\ label'[q] = label[q]
                           /\ member'[q] = member[q] /\ input'[q] = input[q]
                           /\ output'[q] = output[q]
  BY <1>1 DEF Join, LeavingInv, TypeOK
<1>3. \A q \in Joined : Others(q) \subseteq Others(q)'
  BY <1>1, <1>2 DEF Others
<1>4. \A q \in Peers(k, l) : q \in Joined /\ q \in Others(p)' /\ p \in Others(q)'
  BY <1>1, <1>2 DEF Peers, Others, LeavingInv, TypeOK
<1>5. RoomInv'
  <2>0. \A w \in Connected(p, Peers(k, l)) : \E q \in Peers(k, l) :
          w = <<p, q>> \/ w = <<q, p>>
    BY DEF Connected
  <2>1. \A w \in Connected(p, Peers(k, l)) : w[2] \in Others(w[1])'
    BY <1>4, <2>0
  <2>2. \A w \in pipes : w[2] \in Others(w[1])'
    BY <1>3 DEF LeavingInv, RoomInv, TypeOK
  <2>3. \A w \in pipes' : w[2] \in Others(w[1])'
    BY <2>1, <2>2 DEF Join
  <2>4. QED
    BY <1>1, <1>2, <2>3 DEF LeavingInv, RoomInv
<1>6. ASSUME output'[p] # "open" PROVE \E q \in Others(p)' : member'[q] = "left"
  <2>1. PICK q \in Peers(k, l) : input[q] = "over"
    BY <1>1, <1>6 DEF Join, LeavingInv, TypeOK
  <2>2. q \in Joined /\ member'[q] = "left"
    BY <1>2, <1>4, <2>1 DEF LeavingInv, RoomInv
  <2>3. QED
    BY <1>4, <2>2
<1>7. up'
  BY DEF Join
<1>8. ASSUME NEW q \in Joined, output'[q] # "open"
      PROVE  \E r \in Others(q)' : member'[r] = "left"
  <2>1. PICK r \in Others(q) : member[r] = "left"
    BY <1>2, <1>8 DEF LeavingInv, EndsByLeaving
  <2>2. r \in Joined
    BY DEF Others
  <2>3. QED
    BY <1>2, <1>3, <2>1, <2>2
<1>9. EndsByLeaving'
  BY <1>1, <1>6, <1>7, <1>8 DEF EndsByLeaving
<1>10. QED
  BY <1>5, <1>9

\* Steps that leave ports where they are, end no stream, put no pipe in place and
\* bring no session back.
LEMMA QuietKeepsLeaving ==
  ASSUME LeavingInv, UNCHANGED <<born, key, label, input, output, up>>,
         pipes' \subseteq pipes, \A p \in Joined : member[p] = "left" => member'[p] = "left"
  PROVE  RoomInv' /\ EndsByLeaving'
<1>1. Joined' = Joined /\ \A p \in Joined : Others(p)' = Others(p)
  BY DEF Joined, Others
<1>2. \A w \in pipes : w[1] \in Joined
  BY DEF LeavingInv, TypeOK
<1>3. RoomInv'
  BY <1>1, <1>2 DEF LeavingInv, RoomInv
<1>4. \A p \in Joined : \A q \in Others(p) : q \in Joined
  BY DEF Others
<1>5. EndsByLeaving'
  BY <1>1, <1>4 DEF LeavingInv, EndsByLeaving
<1>6. QED
  BY <1>3, <1>5

LEMMA LeaveKeepsLeaving ==
  ASSUME LeavingInv, NEW k \in Names, Leave(k)
  PROVE  RoomInv' /\ EndsByLeaving'
<1>1. Joined' = Joined /\ Joined \subseteq Ports /\ \A p \in Joined : Others(p)' = Others(p)
  BY PortNumbers DEF Leave, Joined, Others, LeavingInv
<1>2. \A p \in Joined : /\ member[p] = "left" => member'[p] = "left"
                        /\ input'[p] # "open" => member'[p] = "left"
  BY <1>1 DEF Leave, LeavingInv, RoomInv, TypeOK
<1>3. \A p \in Joined : \A q \in Others(p) : q \in Joined
  BY DEF Others
<1>4. \A w \in pipes : w[1] \in Joined
  BY DEF LeavingInv, TypeOK
<1>5. RoomInv'
  BY <1>1, <1>2, <1>4 DEF Leave, LeavingInv, RoomInv
<1>6. EndsByLeaving'
  BY <1>1, <1>2, <1>3 DEF Leave, LeavingInv, EndsByLeaving
<1>7. QED
  BY <1>5, <1>6

\* An input whose end is emitted belongs to a session that has left, and so does
\* every output that it ends to another session of that room.
LEMMA EndKeepsLeaving ==
  ASSUME LeavingInv, NEW p \in Ports, End(p)
  PROVE  RoomInv' /\ EndsByLeaving'
<1>1. Joined' = Joined /\ Joined \subseteq Ports /\ \A q \in Joined : Others(q)' = Others(q)
  BY PortNumbers DEF End, Joined, Others, LeavingInv
<1>2. p \in Joined /\ member[p] = "left" /\ member' = member /\ pipes' = pipes /\ up'
  BY DEF End, LeavingInv, RoomInv
<1>3. \A q \in Readers(p) : p \in Others(q)
  BY <1>2 DEF Readers, Others, LeavingInv, RoomInv
<1>4. \A q \in Joined : input'[q] # "open" => member'[q] = "left"
  BY <1>1, <1>2 DEF End, LeavingInv, RoomInv, TypeOK
<1>5. \A q \in Joined : output'[q] = output[q] \/ q \in Readers(p)
  BY <1>1 DEF End
<1>6. \A w \in pipes : w[1] \in Joined
  BY DEF LeavingInv, TypeOK
<1>7. RoomInv'
  BY <1>1, <1>2, <1>4, <1>6 DEF LeavingInv, RoomInv
<1>8. EndsByLeaving'
  BY <1>1, <1>2, <1>3, <1>5 DEF LeavingInv, EndsByLeaving
<1>9. QED
  BY <1>7, <1>8

LEMMA FinishKeepsLeaving ==
  ASSUME LeavingInv, NEW p \in Ports, Finish(p)
  PROVE  RoomInv' /\ EndsByLeaving'
<1>1. Joined' = Joined /\ Joined \subseteq Ports /\ \A q \in Joined : Others(q)' = Others(q)
  BY PortNumbers DEF Finish, Joined, Others, LeavingInv
<1>2. \A q \in Joined : output'[q] # "open" <=> output[q] # "open"
  BY <1>1 DEF Finish, LeavingInv, TypeOK
<1>3. \A w \in pipes : w[1] \in Joined
  BY DEF LeavingInv, TypeOK
<1>4. RoomInv'
  BY <1>1, <1>3 DEF Finish, LeavingInv, RoomInv
<1>5. EndsByLeaving'
  BY <1>1, <1>2 DEF Finish, LeavingInv, EndsByLeaving
<1>6. QED
  BY <1>4, <1>5

\* The process ends by a write to an output that has been ended.
LEMMA WriteKeepsLeaving ==
  ASSUME LeavingInv, NEW p \in Ports, Write(p)
  PROVE  RoomInv' /\ EndsByLeaving'
<1>1. Joined' = Joined /\ \A q \in Joined : Others(q)' = Others(q)
  BY DEF Write, Joined, Others
<1>2. ~up' => \E q \in Joined : output[q] # "open"
  BY DEF Write, Readers
<1>3. \A w \in pipes : w[1] \in Joined
  BY DEF LeavingInv, TypeOK
<1>4. RoomInv'
  BY <1>1, <1>3 DEF Write, LeavingInv, RoomInv
<1>5. EndsByLeaving'
  BY <1>1, <1>2 DEF Write, LeavingInv, EndsByLeaving
<1>6. QED
  BY <1>4, <1>5

LEMMA InitLeaving == Init => LeavingInv
<1>1. Init => Joined = {}
  BY DEF Init, Joined
<1>2. QED
  BY <1>1, InitType DEF Init, LeavingInv, RoomInv, EndsByLeaving

LEMMA NextLeaving == LeavingInv /\ [Next]_vars => LeavingInv'
<1> SUFFICES ASSUME LeavingInv, [Next]_vars PROVE LeavingInv'
  OBVIOUS
<1>0. TypeOK'
  BY NextType DEF LeavingInv
<1>1. ASSUME NEW k \in Names, NEW l \in Labels, Join(k, l) PROVE RoomInv' /\ EndsByLeaving'
  <2>1. PICK p : p = born + 1
    OBVIOUS
  <2>2. QED
    BY <1>1, <2>1, JoinKeepsLeaving
<1>2. ASSUME NEW k \in Names, Pipe(k) PROVE RoomInv' /\ EndsByLeaving'
  <2>1. \A p \in Joined : member[p] = "left" => member'[p] = "left"
    BY <1>2, PortNumbers DEF Pipe, Ready, LeavingInv
  <2>2. UNCHANGED <<born, key, label, input, output, up, pipes>>
    BY <1>2 DEF Pipe
  <2>3. QED
    BY <2>1, <2>2, QuietKeepsLeaving
<1>3. ASSUME NEW k \in Names, Leave(k) PROVE RoomInv' /\ EndsByLeaving'
  BY <1>3, LeaveKeepsLeaving
<1>4. ASSUME NEW p \in Ports, Stop(p) PROVE RoomInv' /\ EndsByLeaving'
  BY <1>4, QuietKeepsLeaving DEF Stop
<1>5. ASSUME NEW p \in Ports, Write(p) PROVE RoomInv' /\ EndsByLeaving'
  BY <1>5, WriteKeepsLeaving
<1>6. ASSUME NEW p \in Ports, End(p) PROVE RoomInv' /\ EndsByLeaving'
  BY <1>6, EndKeepsLeaving
<1>7. ASSUME NEW p \in Ports, Finish(p) PROVE RoomInv' /\ EndsByLeaving'
  BY <1>7, FinishKeepsLeaving
<1>8. ASSUME NEW p \in Ports, PortEnd(p) PROVE RoomInv' /\ EndsByLeaving'
  BY <1>8, QuietKeepsLeaving DEF PortEnd, Remove
<1>9. ASSUME UNCHANGED vars PROVE RoomInv' /\ EndsByLeaving'
  BY <1>9, QuietKeepsLeaving DEF vars
<1>10. QED
  BY <1>0, <1>1, <1>2, <1>3, <1>4, <1>5, <1>6, <1>7, <1>8, <1>9 DEF Next, LeavingInv

\* In rooms of any size the stream of a session is ended, and the process is, only if
\* another session of the room has left: among sessions that stay, no write fails
\* (BroadcastStream.add, and its handler of port errors).
THEOREM OnlyLeavingEnds == Spec => []EndsByLeaving
<1>1. LeavingInv => EndsByLeaving
  BY DEF LeavingInv
<1>2. QED
  BY <1>1, InitLeaving, NextLeaving, PTL DEF Spec

-----------------------------------------------------------------------------
(* The ports that are removed.  remove() goes by the name, and may take a   *)
(* port of the name other than the one that has ended.                     *)

\* The streams that a session that stays in a room writes to and reads are open.
Live(p) == p \in Joined /\ input[p] = "open" /\ output[p] = "open"

\* A port that is in the list hears the others of the room until its output is finished.
ListInv ==
  \A p, q \in listed :
    label[p] = label[q] /\ key[p] # key[q] => <<p, q>> \in pipes \/ output[q] = "finished"

\* The end of an input has ended all outputs it is piped to, and only a port whose
\* output is finished has told its end.
EndInv ==
  /\ \A w \in pipes : input[w[1]] = "over" => output[w[2]] # "open"
  /\ \A p \in told : output[p] = "finished"

\* Of the ports of one name in a room, the earlier is in no worse state while it lives.
TwinInv ==
  \A r \in Joined : Live(r) =>
    /\ r \in listed
    /\ \A t \in Twins(r) : r < t =>
         /\ output[t] = "open"
         /\ \A q \in Joined : <<q, t>> \in pipes => <<q, r>> \in pipes

\* Each end that a port of a name tells takes one port of the name from the list.
CountInv ==
  \A p \in Joined : Cardinality(Twins(p) \ listed) = Cardinality(Twins(p) \intersect told)

DomainInv == ListInv /\ EndInv /\ TwinInv /\ CountInv

LEMMA TwinsFinite ==
  ASSUME TypeOK, NEW p
  PROVE  /\ IsFiniteSet(Twins(p)) /\ Twins(p) \subseteq Joined /\ Joined \subseteq Nat
         /\ IsFiniteSet(Twins(p) \ listed) /\ IsFiniteSet(Twins(p) \intersect told)
<1>1. IsFiniteSet(Joined) /\ Joined \subseteq Nat
  BY FS_Interval, SyncAssumption DEF Joined, TypeOK
<1>2. Twins(p) \subseteq Joined
  BY DEF Twins
<1>3. QED
  BY <1>1, <1>2, FS_Subset

\* A set of ports has a first.
LEMMA LeastPort ==
  ASSUME NEW S \in SUBSET Nat, S # {}
  PROVE  \E x \in S : \A y \in S : x <= y
<1>1. \E x \in S : \A y \in S : ~(<<y, x>> \in OpToRel(<, Nat))
  BY NatLessThanWellFounded, WFMin
<1>2. \A x, y \in S : ~(<<y, x>> \in OpToRel(<, Nat)) => x <= y
  BY DEF OpToRel
<1>3. QED
  BY <1>1, <1>2

\* Two ports of one name have the same twins, themselves included.
LEMMA TwinsOfTwins ==
  ASSUME NEW p \in Joined, NEW q \in Twins(p)
  PROVE  Twins(q) = Twins(p) /\ p \in Twins(p)
BY DEF Twins

\* remove() finds a port of the name of one that has just told its end.
LEMMA FirstIsListed ==
  ASSUME TypeOK, CountInv, NEW p \in Joined, p \notin told
  PROVE  \E r \in Twins(p) \intersect listed :
           First(p) = {r} /\ \A q \in Twins(p) \intersect listed : r <= q
<1> DEFINE S == Twins(p) \intersect listed
<1>1. S \in SUBSET Nat
  BY TwinsFinite
<1>2. S # {}
  <2>1. SUFFICES ASSUME S = {} PROVE FALSE
    OBVIOUS
  <2>2. Twins(p) \ listed = Twins(p)
    BY <2>1
  <2>3. Cardinality(Twins(p)) = Cardinality(Twins(p) \intersect told)
    BY <2>2 DEF CountInv
  <2>4. Twins(p) = Twins(p) \intersect told
    BY <2>3, TwinsFinite, FS_Subset
  <2>5. QED
    BY <2>4, TwinsOfTwins DEF Twins
<1>3. PICK r \in S : \A q \in S : r <= q
  BY <1>1, <1>2, LeastPort
<1>4. First(p) = {r}
  <2>1. r \in First(p)
    BY <1>3 DEF First, Twins
  <2>2. \A q \in First(p) : q \in S /\ q <= r /\ r <= q
    BY <1>3 DEF First
  <2>3. QED
    BY <1>1, <2>1, <2>2
<1>5. QED
  BY <1>3, <1>4

\* The port that is removed when p has ended is no live one: the ports of the name
\* that have told their end, with p, are as many as have to go before it.
LEMMA RemovedIsDead ==
  ASSUME TypeOK, DomainInv, NEW p \in Joined \ told, output[p] = "finished",
         NEW r \in First(p)
  PROVE  ~Live(r)
<1> SUFFICES ASSUME Live(r) PROVE FALSE
  OBVIOUS
<1>1. r \in Twins(p) \intersect listed /\ \A q \in Twins(p) \intersect listed : r <= q
  BY FirstIsListed DEF DomainInv
<1>2. Twins(r) = Twins(p) /\ p \in Twins(p) /\ r \in Joined /\ Twins(p) \subseteq Joined
  BY <1>1, TwinsOfTwins DEF Twins
<1>3. ASSUME NEW t \in Twins(p), output[t] = "finished" PROVE t \notin listed
  <2>1. t # r
    BY <1>3 DEF Live
  <2>2. ~(r < t)
    BY <1>2, <1>3 DEF DomainInv, TwinInv
  <2>3. r \in Nat /\ t \in Nat
    BY <1>2, TwinsFinite
  <2>4. QED
    BY <1>1, <2>1, <2>2, <2>3
<1>4. Twins(p) \intersect told \subseteq Twins(p) \ listed
  BY <1>3 DEF DomainInv, EndInv
<1>5. Twins(p) \intersect told = Twins(p) \ listed
  BY <1>4, TwinsFinite, FS_Subset DEF DomainInv, CountInv
<1>6. p \in Twins(p) \ listed
  BY <1>2, <1>3
<1>7. QED
  BY <1>5, <1>6

LEMMA PortEndKeepsDomain ==
  ASSUME TypeOK, DomainInv, NEW p \in Ports, PortEnd(p)
  PROVE  DomainInv'
<1>1. /\ p \in Joined \ told /\ output[p] = "finished" /\ told' = told \union {p}
      /\ UNCHANGED <<born, key, label, input, output>>
  BY DEF PortEnd, TypeOK
<1>2. PICK r \in Twins(p) \intersect listed : First(p) = {r}
  BY <1>1, FirstIsListed DEF DomainInv
<1>3. /\ listed' = listed \ {r} /\ pipes' = {w \in pipes : w[1] # r /\ w[2] # r}
      /\ ~Live(r)
  BY <1>1, <1>2, RemovedIsDead DEF PortEnd, Remove
<1>4. Joined' = Joined /\ \A q \in Joined : Twins(q)' = Twins(q) /\ Live(q)' = Live(q)
  BY <1>1 DEF Joined, Twins, Live
<1>5. ListInv'
  BY <1>1, <1>3 DEF DomainInv, ListInv
<1>6. EndInv'
  BY <1>1, <1>3 DEF DomainInv, EndInv
<1>7. TwinInv'
  <2>1. ASSUME NEW q \in Joined, Live(q) PROVE q # r /\ q \in listed'
    BY <1>3, <2>1 DEF DomainInv, TwinInv
  <2>2. ASSUME NEW q \in Joined, Live(q), NEW t \in Twins(q), q < t, NEW x \in Joined,
               <<x, t>> \in pipes'
        PROVE  <<x, q>> \in pipes'
    <3>1. <<x, q>> \in pipes /\ x # r
      BY <1>3, <2>2 DEF DomainInv, TwinInv
    <3>2. QED
      BY <1>3, <2>1, <2>2, <3>1
  <2>3. QED
    BY <1>1, <1>4, <2>1, <2>2 DEF DomainInv, TwinInv
<1>8. CountInv'
  <2>1. ASSUME NEW q \in Joined
        PROVE  Cardinality(Twins(q) \ listed') = Cardinality(Twins(q) \intersect told')
    <3>1. CASE p \in Twins(q)
      <4>1. Twins(p) = Twins(q)
        BY <2>1, <3>1, TwinsOfTwins
      <4>2. /\ Twins(q) \ listed' = (Twins(q) \ listed) \union {r} /\ r \notin Twins(q) \ listed
            /\ Twins(q) \intersect told' = (Twins(q) \intersect told) \union {p}
            /\ p \notin Twins(q) \intersect told
        BY <1>1, <1>2, <1>3, <3>1, <4>1
      <4>3. Cardinality(Twins(q) \ listed') = Cardinality(Twins(q) \ listed) + 1
        BY <4>2, TwinsFinite, FS_AddElement
      <4>4. Cardinality(Twins(q) \intersect told') = Cardinality(Twins(q) \intersect told) + 1
        BY <4>2, TwinsFinite, FS_AddElement
      <4>5. QED
        BY <4>3, <4>4 DEF DomainInv, CountInv
    <3>2. CASE p \notin Twins(q)
      <4>1. r \notin Twins(q)
        BY <1>1, <1>2, <3>2 DEF Twins
      <4>2. /\ Twins(q) \ listed' = Twins(q) \ listed
            /\ Twins(q) \intersect told' = Twins(q) \intersect told
        BY <1>1, <1>3, <3>2, <4>1
      <4>3. QED
        BY <4>2 DEF DomainInv, CountInv
    <3>3. QED
      BY <3>1, <3>2
  <2>2. QED
    BY <1>4, <2>1 DEF CountInv
<1>9. QED
  BY <1>5, <1>6, <1>7, <1>8 DEF DomainInv

LEMMA JoinKeepsDomain ==
  ASSUME TypeOK, DomainInv, NEW k \in Names, NEW l \in Labels, Join(k, l), NEW p, p = born + 1
  PROVE  DomainInv'
<1>1. /\ p \in Ports /\ p \notin Joined /\ Joined' = Joined \union {p} /\ Joined \subseteq Ports
      /\ \A q \in Joined : q < p
  BY PortNumbers DEF Join, Joined, TypeOK, Ports
<1>2. /\ key'[p] = k /\ label'[p] = l /\ input'[p] = "open"
      /\ \A q \in Joined : /\ key'[q] = key[q] /\ label'[q] = label[q]
                           /\ input'[q] = input[q] /\ output'[q] = output[q]
  BY <1>1 DEF Join, TypeOK
<1>3. listed' = listed \union {p} /\ told' = told /\ p \notin told /\ listed \subseteq Joined
  BY <1>1 DEF Join, TypeOK
<1>4. Peers(k, l) \subseteq listed
  BY DEF Peers
<1>5. \A w \in pipes' : w \in pipes \/ (\E q \in Peers(k, l) : w = <<p, q>> \/ w = <<q, p>>)
  BY DEF Join, Connected
<1>6. \A q \in Peers(k, l) : <<p, q>> \in pipes' /\ <<q, p>> \in pipes'
  BY DEF Join, Connected
<1>7. pipes \subseteq pipes' /\ \A w \in pipes : w[1] \in Joined /\ w[2] \in Joined
  BY DEF Join, TypeOK
<1>8. \A q \in Joined : Live(q)' = Live(q) /\ Twins(q) \subseteq Joined /\ Twins(q)' \subseteq Joined'
  BY <1>1, <1>2 DEF Live, Twins
<1>9. \A q \in Joined : Twins(q)' = IF key[q] = k /\ label[q] = l THEN Twins(q) \union {p} ELSE Twins(q)
  BY <1>1, <1>2 DEF Twins
<1>10. ListInv'
  <2>1. ASSUME NEW x \in listed', NEW y \in listed', label'[x] = label'[y], key'[x] # key'[y]
        PROVE  <<x, y>> \in pipes' \/ output'[y] = "finished"
    <3>1. CASE x = p
      <4>1. y \in Peers(k, l)
        BY <1>1, <1>2, <1>3, <2>1, <3>1 DEF Peers
      <4>2. QED
        BY <1>6, <3>1, <4>1
    <3>2. CASE y = p
      <4>1. x \in Peers(k, l)
        BY <1>1, <1>2, <1>3, <2>1, <3>2 DEF Peers
      <4>2. QED
        BY <1>6, <3>2, <4>1
    <3>3. CASE x # p /\ y # p
      BY <1>2, <1>3, <1>7, <2>1, <3>3 DEF DomainInv, ListInv
    <3>4. QED
      BY <3>1, <3>2, <3>3
  <2>2. QED
    BY <2>1 DEF ListInv
<1>11. EndInv'
  <2>1. ASSUME NEW w \in pipes', input'[w[1]] = "over" PROVE output'[w[2]] # "open"
    <3>1. CASE w \in pipes
      BY <1>2, <1>7, <2>1, <3>1 DEF DomainInv, EndInv
    <3>2. CASE \E q \in Peers(k, l) : w = <<p, q>> \/ w = <<q, p>>
      <4>1. PICK q \in Peers(k, l) : w = <<q, p>> /\ input[q] = "over"
        BY <1>2, <1>3, <1>4, <2>1, <3>2
      <4>2. output'[p] = "ending"
        BY <1>1, <4>1 DEF Join, TypeOK
      <4>3. QED
        BY <4>1, <4>2
    <3>3. QED
      BY <1>5, <3>1, <3>2
  <2>2. \A q \in told : output'[q] = "finished"
    BY <1>2, <1>3 DEF DomainInv, EndInv, TypeOK
  <2>3. QED
    BY <1>3, <2>1, <2>2 DEF EndInv
<1>12. TwinInv'
  <2>1. ASSUME NEW r \in Joined, Live(r) PROVE r \in listed'
    BY <1>3, <2>1 DEF DomainInv, TwinInv
  <2>2. ASSUME NEW r \in Joined, Live(r), NEW t \in Twins(r), r < t
        PROVE  /\ output'[t] = "open"
               /\ \A x \in Joined' : <<x, t>> \in pipes' => <<x, r>> \in pipes'
    <3>1. output'[t] = "open"
      BY <1>2, <1>8, <2>2 DEF DomainInv, TwinInv
    <3>2. ASSUME NEW x \in Joined, <<x, t>> \in pipes' PROVE <<x, r>> \in pipes'
      <4>1. <<x, t>> \in pipes
        BY <1>1, <1>5, <1>8, <2>2, <3>2
      <4>2. QED
        BY <1>7, <2>2, <4>1 DEF DomainInv, TwinInv
    <3>3. ASSUME <<p, t>> \in pipes' PROVE <<p, r>> \in pipes'
      <4>1. t \in Peers(k, l)
        BY <1>1, <1>3, <1>4, <1>5, <1>7, <1>8, <2>2, <3>3
      <4>2. r \in Peers(k, l)
        BY <2>2, <4>1 DEF Peers, Twins, DomainInv, TwinInv
      <4>3. QED
        BY <1>6, <4>2
    <3>4. QED
      BY <1>1, <3>1, <3>2, <3>3
  <2>3. ASSUME NEW r \in Joined, Live(r), key[r] = k, label[r] = l
        PROVE  /\ output'[p] = "open"
               /\ \A x \in Joined' : <<x, p>> \in pipes' => <<x, r>> \in pipes'
    <3>1. \A x \in Peers(k, l) : <<x, r>> \in pipes
      BY <2>3 DEF Peers, DomainInv, ListInv, TwinInv, Live
    <3>2. \A x \in Peers(k, l) : input[x] # "over"
      BY <2>3, <3>1 DEF DomainInv, EndInv, Live
    <3>3. output'[p] = "open"
      BY <1>1, <3>2 DEF Join, TypeOK
    <3>4. \A x \in Joined' : <<x, p>> \in pipes' => x \in Peers(k, l)
      BY <1>1, <1>3, <1>4, <1>5, <1>7
    <3>5. QED
      BY <1>7, <3>1, <3>3, <3>4
  <2>4. ASSUME NEW t \in Twins(p)', p < t PROVE FALSE
    BY <1>1, <2>4 DEF Twins, Joined, TypeOK
  <2>5. p \in listed'
    BY <1>3
  <2>6. ASSUME NEW r \in Joined, Live(r), NEW t \in Twins(r)', r < t
        PROVE  /\ output'[t] = "open"
               /\ \A x \in Joined' : <<x, t>> \in pipes' => <<x, r>> \in pipes'
    BY <1>9, <2>2, <2>3, <2>6
  <2>7. QED
    BY <1>1, <1>8, <2>1, <2>4, <2>5, <2>6 DEF TwinInv
<1>13. CountInv'
  <2>1. ASSUME NEW q \in Joined
        PROVE  Cardinality(Twins(q)' \ listed') = Cardinality(Twins(q)' \intersect told')
    <3>1. /\ Twins(q)' \ listed' = Twins(q) \ listed
          /\ Twins(q)' \intersect told' = Twins(q) \intersect told
      BY <1>1, <1>3, <1>8, <1>9
    <3>2. QED
      BY <3>1 DEF DomainInv, CountInv
  <2>2. Cardinality(Twins(p)' \ listed') = Cardinality(Twins(p)' \intersect told')
    <3>1. CASE \E q \in Joined : key[q] = k /\ label[q] = l
      <4>1. PICK q \in Joined : key[q] = k /\ label[q] = l
        BY <3>1
      <4>2. Twins(p)' = Twins(q)'
        BY <1>1, <1>2, <4>1 DEF Twins
      <4>3. QED
        BY <2>1, <4>2
    <3>2. CASE ~ \E q \in Joined : key[q] = k /\ label[q] = l
      <4>1. Twins(p)' = {p}
        BY <1>1, <1>2, <3>2 DEF Twins
      <4>2. Twins(p)' \ listed' = {} /\ Twins(p)' \intersect told' = {}
        BY <1>3, <4>1
      <4>3. QED
        BY <4>2
    <3>3. QED
      BY <3>1, <3>2
  <2>3. QED
    BY <1>1, <2>1, <2>2 DEF CountInv
<1>14. QED
  BY <1>10, <1>11, <1>12, <1>13 DEF DomainInv

\* Steps after which no more ports are live, no more inputs over, and no ports and no
\* pipes other than before.
LEMMA QuietKeepsDomain ==
  ASSUME TypeOK, DomainInv, UNCHANGED <<born, key, label, listed, told, output, pipes>>,
         \A p \in Joined : /\ input'[p] = "open" => input[p] = "open"
                           /\ input'[p] = "over" => input[p] = "over"
  PROVE  DomainInv'
<1>0. Joined' = Joined
  BY DEF Joined
<1>1. \A q \in Joined : Twins(q)' = Twins(q) /\ (Live(q)' => Live(q))
  <2>1. ASSUME NEW q \in Joined PROVE Twins(q)' = Twins(q)
    BY <1>0 DEF Twins
  <2>2. ASSUME NEW q \in Joined, Live(q)' PROVE Live(q)
    <3>1. input'[q] = "open" /\ output'[q] = "open" /\ output' = output
      BY <2>2 DEF Live
    <3>2. input[q] = "open"
      BY <3>1
    <3>3. QED
      BY <3>1, <3>2 DEF Live
  <2>3. QED
    BY <2>1, <2>2
<1>2. ListInv'
  BY DEF DomainInv, ListInv
<1>3. EndInv'
  BY DEF DomainInv, EndInv, TypeOK
<1>4. TwinInv'
  BY <1>0, <1>1 DEF DomainInv, TwinInv
<1>5. CountInv'
  BY <1>0, <1>1 DEF DomainInv, CountInv
<1>6. QED
  BY <1>2, <1>3, <1>4, <1>5 DEF DomainInv

LEMMA EndKeepsDomain ==
  ASSUME TypeOK, DomainInv, NEW p \in Ports, End(p)
  PROVE  DomainInv'
<1>1. /\ p \in Joined /\ input[p] = "ended" /\ Joined' = Joined /\ Joined \subseteq Ports
      /\ UNCHANGED <<born, key, label, listed, told, pipes>>
  BY PortNumbers DEF End, Joined
<1>2. \A q \in Joined : input'[q] = IF q = p THEN "over" ELSE input[q]
  BY <1>1 DEF End, TypeOK
<1>3. \A q \in Joined :
        output'[q] = IF <<p, q>> \in pipes /\ output[q] = "open" THEN "ending" ELSE output[q]
  BY <1>1 DEF End, Readers
<1>4. \A q \in Joined : /\ Twins(q)' = Twins(q) /\ Twins(q) \subseteq Joined
                        /\ (Live(q)' => Live(q) /\ <<p, q>> \notin pipes)
  BY <1>1, <1>2, <1>3 DEF Twins, Live
<1>5. ListInv'
  <2>1. ASSUME NEW x \in listed, NEW y \in listed, label[x] = label[y], key[x] # key[y]
        PROVE  <<x, y>> \in pipes \/ output'[y] = "finished"
    <3>1. y \in Joined /\ (<<x, y>> \in pipes \/ output[y] = "finished")
      BY <2>1 DEF DomainInv, ListInv, TypeOK
    <3>2. QED
      BY <1>3, <3>1
  <2>2. QED
    BY <1>1, <2>1 DEF ListInv
<1>6. EndInv'
  <2>1. ASSUME NEW w \in pipes, input'[w[1]] = "over" PROVE output'[w[2]] # "open"
    <3>1. w[1] \in Joined /\ w[2] \in Joined /\ w = <<w[1], w[2]>>
      BY DEF TypeOK
    <3>2. w[1] = p \/ output[w[2]] # "open"
      BY <1>2, <2>1, <3>1 DEF DomainInv, EndInv
    <3>3. QED
      BY <1>3, <3>1, <3>2
  <2>2. \A q \in told : output'[q] = "finished"
    BY <1>3 DEF DomainInv, EndInv, TypeOK
  <2>3. QED
    BY <1>1, <2>1, <2>2 DEF EndInv
<1>7. TwinInv'
  <2>1. ASSUME NEW r \in Joined, Live(r)', NEW t \in Twins(r), r < t PROVE output'[t] = "open"
    <3>1. <<p, t>> \notin pipes
      BY <1>1, <1>4, <2>1 DEF DomainInv, TwinInv
    <3>2. output[t] = "open" /\ t \in Joined
      BY <1>4, <2>1 DEF DomainInv, TwinInv
    <3>3. QED
      BY <1>3, <3>1, <3>2
  <2>2. ASSUME NEW r \in Joined, Live(r)'
        PROVE  /\ r \in listed
               /\ \A t \in Twins(r) : r < t =>
                    \A q \in Joined : <<q, t>> \in pipes => <<q, r>> \in pipes
    BY <1>4, <2>2 DEF DomainInv, TwinInv
  <2>3. QED
    <3>1. ASSUME NEW r \in Joined', Live(r)'
          PROVE  /\ r \in listed'
                 /\ \A t \in Twins(r)' : r < t =>
                      /\ output'[t] = "open"
                      /\ \A q \in Joined' : <<q, t>> \in pipes' => <<q, r>> \in pipes'
      <4>1. r \in Joined /\ Twins(r)' = Twins(r) /\ listed' = listed /\ pipes' = pipes
        BY <1>1, <1>4, <3>1
      <4>2. QED
        BY <1>1, <2>1, <2>2, <3>1, <4>1
    <3>2. QED
      BY <3>1 DEF TwinInv
<1>8. CountInv'
  BY <1>1, <1>4 DEF DomainInv, CountInv
<1>9. QED
  BY <1>5, <1>6, <1>7, <1>8 DEF DomainInv

LEMMA FinishKeepsDomain ==
  ASSUME TypeOK, DomainInv, NEW p \in Ports, Finish(p)
  PROVE  DomainInv'
<1>1. /\ p \in Joined /\ output[p] = "ending" /\ Joined' = Joined /\ Joined \subseteq Ports
      /\ UNCHANGED <<born, key, label, listed, told, input>>
      /\ pipes' = {w \in pipes : w[2] # p}
  BY PortNumbers DEF Finish, Joined
<1>2. \A q \in Joined : output'[q] = IF q = p THEN "finished" ELSE output[q]
  BY <1>1 DEF Finish, TypeOK
<1>3. \A q \in Joined : Twins(q)' = Twins(q) /\ Twins(q) \subseteq Joined /\ Live(q)' = Live(q)
  BY <1>1, <1>2 DEF Twins, Live
<1>4. ListInv'
  BY <1>1, <1>2 DEF DomainInv, ListInv, TypeOK
<1>5. EndInv'
  BY <1>1, <1>2 DEF DomainInv, EndInv, TypeOK
<1>6. TwinInv'
  <2>1. ASSUME NEW r \in Joined, Live(r), NEW t \in Twins(r), r < t
        PROVE  /\ output'[t] = "open"
               /\ \A q \in Joined : <<q, t>> \in pipes' => <<q, r>> \in pipes'
    <3>1. output[t] = "open" /\ t \in Joined /\ r # p
      BY <1>1, <1>3, <2>1 DEF DomainInv, TwinInv, Live
    <3>2. t # p
      BY <1>1, <3>1
    <3>3. \A q \in Joined : <<q, t>> \in pipes => <<q, r>> \in pipes
      BY <2>1 DEF DomainInv, TwinInv
    <3>4. QED
      BY <1>1, <1>2, <3>1, <3>2, <3>3
  <2>2. QED
    BY <1>1, <1>3, <2>1 DEF DomainInv, TwinInv
<1>7. CountInv'
  BY <1>1, <1>3 DEF DomainInv, CountInv
<1>8. QED
  BY <1>4, <1>5, <1>6, <1>7 DEF DomainInv

LEMMA InitDomain == Init => DomainInv
<1>1. Init => Joined = {}
  BY DEF Init, Joined
<1>2. QED
  BY <1>1 DEF Init, DomainInv, ListInv, EndInv, TwinInv, CountInv

LEMMA NextDomain == TypeOK /\ DomainInv /\ [Next]_vars => DomainInv'
<1> SUFFICES ASSUME TypeOK, DomainInv, [Next]_vars PROVE DomainInv'
  OBVIOUS
<1>1. ASSUME NEW k \in Names, NEW l \in Labels, Join(k, l) PROVE DomainInv'
  <2>1. PICK p : p = born + 1
    OBVIOUS
  <2>2. QED
    BY <1>1, <2>1, JoinKeepsDomain
<1>2. ASSUME NEW k \in Names, Pipe(k) PROVE DomainInv'
  BY <1>2, QuietKeepsDomain DEF Pipe
<1>3. ASSUME NEW k \in Names, Leave(k) PROVE DomainInv'
  <2>1. \A p \in Joined : input'[p] \in {"ended", input[p]}
    BY <1>3, PortNumbers DEF Leave
  <2>2. QED
    BY <1>3, <2>1, QuietKeepsDomain DEF Leave
<1>4. ASSUME NEW p \in Ports, Stop(p) PROVE DomainInv'
  BY <1>4, QuietKeepsDomain DEF Stop
<1>5. ASSUME NEW p \in Ports, Write(p) PROVE DomainInv'
  BY <1>5, QuietKeepsDomain DEF Write
<1>6. ASSUME NEW p \in Ports, End(p) PROVE DomainInv'
  BY <1>6, EndKeepsDomain
<1>7. ASSUME NEW p \in Ports, Finish(p) PROVE DomainInv'
  BY <1>7, FinishKeepsDomain
<1>8. ASSUME NEW p \in Ports, PortEnd(p) PROVE DomainInv'
  BY <1>8, PortEndKeepsDomain
<1>9. ASSUME UNCHANGED vars PROVE DomainInv'
  BY <1>9, QuietKeepsDomain DEF vars
<1>10. QED
  BY <1>1, <1>2, <1>3, <1>4, <1>5, <1>6, <1>7, <1>8, <1>9 DEF Next

\* Two sessions of a room whose streams nobody has ended hear each other, whatever
\* ports join, end and are removed, also under a name that is used again:
\* BroadcastStream.remove goes by the name, but never takes a port that is in use.
THEOREM RoomsAreDomains == Spec => []OneDomain
<1>1. TypeOK /\ DomainInv => OneDomain
  <2> SUFFICES ASSUME TypeOK, DomainInv, NEW p \in Joined, NEW q \in Others(p),
                      {input[p], input[q], output[p], output[q]} = {"open"}
               PROVE  <<p, q>> \in pipes
    BY DEF OneDomain
  <2>1. Live(p) /\ Live(q) /\ label[q] = label[p] /\ key[q] # key[p]
    BY DEF Live, Others
  <2>2. QED
    BY <2>1 DEF DomainInv, TwinInv, ListInv, Live
<1>2. Spec => [](TypeOK /\ DomainInv)
  BY InitType, NextType, InitDomain, NextDomain, PTL DEF Spec
<1>3. QED
  BY <1>1, <1>2, PTL
=============================================================================
