------------------------- MODULE SessionTable_proofs -------------------------
(* Theorems about SessionTable, for any listeners, clusters and bounds.     *)
EXTENDS SessionTable, TLAPS

-----------------------------------------------------------------------------
(* Type correctness.                                                       *)

LifeType == [Ids -> {"unborn", "setup", "alive", "over", "zombie"}]
ConnType == [Ids -> [Clusters -> StageStatus]]

\* What the end of sessions may change.
LifeTyped ==
  /\ life \in LifeType /\ conn \in ConnType /\ reaps \in [Ids -> Nat]
  /\ endedTwice \subseteq Ids

\* Ending a set of sessions keeps the types of what it changes.
LEMMA EndType ==
  ASSUME TypeOK, NEW S \in SUBSET Ids, NEW k \in ConnType, End(S, k)
  PROVE  LifeTyped'
<1>1. \A s \in Ids : Closed(k[s]) \in [Clusters -> StageStatus] /\ k[s] \in [Clusters -> StageStatus]
  BY DEF Closed, ConnType, StageStatus
<1>2. conn' \in ConnType
  BY <1>1 DEF End, ConnType
<1>3. life' \in LifeType /\ reaps' \in [Ids -> Nat] /\ endedTwice' \subseteq Ids
  BY DEF End, TypeOK, LifeType
<1>4. QED
  BY <1>2, <1>3 DEF LifeTyped

LEMMA ContinueType ==
  ASSUME TypeOK, NEW k \in ConnType, Continue(k)
  PROVE  LifeTyped'
BY DEF Continue, TypeOK, LifeType, LifeTyped

\* A stage that takes another status.
LEMMA StageType ==
  ASSUME TypeOK, NEW s \in Ids, NEW c \in Clusters, NEW status \in StageStatus
  PROVE  Stage(s, c, status) \in ConnType
BY DEF Stage, TypeOK, ConnType

\* Giving a connect up keeps the types as well.
LEMMA GiveUpType ==
  ASSUME TypeOK, NEW s \in Ids, NEW c \in Clusters, GiveUp(s, c)
  PROVE  LifeTyped'
<1>1. Stage(s, c, "idle") \in ConnType
  BY StageType DEF StageStatus
<1>2. QED
  BY <1>1, EndType, ContinueType DEF GiveUp

\* A session that is emitted is well-typed.
LEMMA EmitType ==
  ASSUME TypeOK, NEW l \in Listeners, NEW mark \in Marks(l), Emit(l, mark)
  PROVE  TypeOK'
<1> DEFINE s == born + 1
<1>1. s \in Ids /\ born \in Nat /\ mark \in Nat /\ <<l, mark>> \in Bases
  BY TableAssumption DEF Emit, TypeOK, Ids, Marks, Bases
<1>2. born' \in 0 .. MaxSessions /\ table' \subseteq 1 .. born'
  BY <1>1 DEF Emit, TypeOK, Ids
<1>3. name' \in [Ids -> Names \union {NoName}]
  <2>1. PICK i \in Suffixes : name' = [name EXCEPT ![s] = <<<<l, mark>>, i>>]
    BY DEF Emit
  <2>2. <<<<l, mark>>, i>> \in Names
    BY <1>1 DEF Names, Suffixes
  <2>3. QED
    BY <1>1, <2>1, <2>2 DEF TypeOK
<1>4. origin' \in [Ids -> Listeners \union {"none"}]
  BY <1>1 DEF Emit, TypeOK
<1>5. via' \in [Ids -> SUBSET Clusters]
  BY <1>1 DEF Emit, TypeOK
<1>6. LifeTyped'
  <2>1. \A v \in SUBSET Clusters : /\ FirstAttempts(v, "backoff") \in [Clusters -> StageStatus]
                                  /\ FirstAttempts(v, "idle") \in [Clusters -> StageStatus]
    BY DEF FirstAttempts, StageStatus
  <2>2. PICK v \in SUBSET Clusters : via' = [via EXCEPT ![s] = v] /\ Routed(s, l, v)
    BY DEF Emit
  <2>3. conn' \in ConnType
    BY <1>1, <2>1, <2>2 DEF Routed, TypeOK, ConnType
  <2>4. life' \in LifeType
    BY <1>1, <2>2 DEF Routed, TypeOK, LifeType
  <2>5. reaps' \in [Ids -> Nat]
    BY <1>1, <2>2 DEF Routed, TypeOK
  <2>6. endedTwice' \subseteq Ids
    BY <2>2 DEF Routed, TypeOK
  <2>7. QED
    BY <2>3, <2>4, <2>5, <2>6 DEF LifeTyped
<1>7. sessionId' \in [Listeners -> Nat]
  BY DEF Emit, CountSession, TypeOK
<1>8. QED
  BY <1>2, <1>3, <1>4, <1>5, <1>6, <1>7 DEF Emit, bounds, TypeOK, LifeTyped, LifeType, ConnType

\* A session of the table is one of those that there can be.
LEMMA TableIds == TypeOK => table \subseteq Ids /\ 1 .. born \subseteq Ids
BY TableAssumption DEF TypeOK, Ids

\* Every step keeps the types.
LEMMA NextType == TypeOK /\ [Next]_vars => TypeOK'
<1> SUFFICES ASSUME TypeOK, [Next]_vars PROVE TypeOK'
  OBVIOUS
<1> USE DEF identity, registry, bounds
<1> USE DEF LifeTyped, LifeType, ConnType
<1>0. conn \in ConnType
  BY DEF TypeOK
<1>1. ASSUME NEW l \in Listeners, NEW mark \in Marks(l), Refuse(l, mark) PROVE TypeOK'
  BY <1>1 DEF Refuse, CountSession, Continue, TypeOK
<1>2. ASSUME NEW s \in Ids, NEW c \in Clusters, AttemptSucceeds(s, c) PROVE TypeOK'
  <2>1. conn' \in ConnType
    <3>1. Stage(s, c, "ready") \in ConnType /\ Stage(s, c, "idle") \in ConnType
      BY StageType DEF StageStatus
    <3>2. [conn EXCEPT ![s] = [d \in Clusters |-> IF d \in via[s] THEN "ready" ELSE "idle"]]
            \in ConnType
      BY <1>0 DEF StageStatus
    <3>3. QED
      BY <1>2, <3>1, <3>2 DEF AttemptSucceeds
  <2>2. life' \in LifeType
    BY <1>2 DEF AttemptSucceeds, TypeOK
  <2>3. QED
    BY <1>2, <2>1, <2>2 DEF AttemptSucceeds, TypeOK
<1>3. ASSUME NEW s \in Ids, NEW c \in Clusters, AttemptFails(s, c) PROVE TypeOK'
  <2>1. LifeTyped'
    BY <1>3, GiveUpType, ContinueType, StageType DEF AttemptFails, StageStatus
  <2>2. QED
    BY <1>3, <2>1 DEF AttemptFails, TypeOK
<1>4. ASSUME NEW s \in Ids, NEW c \in Clusters, RetryTimer(s, c) PROVE TypeOK'
  <2>1. LifeTyped'
    BY <1>4, GiveUpType, ContinueType, StageType DEF RetryTimer, StageStatus
  <2>2. QED
    BY <1>4, <2>1 DEF RetryTimer, TypeOK
<1>5. ASSUME NEW s \in Ids, NEW c \in Clusters, LoseStream(s, c) PROVE TypeOK'
  <2>1. /\ Stage(s, c, IF c \in clusters THEN "attempt" ELSE "backoff") \in ConnType
        /\ {s} \in SUBSET Ids
    BY StageType DEF StageStatus
  <2>2. LifeTyped'
    BY <1>0, <1>5, <2>1, EndType, ContinueType DEF LoseStream
  <2>3. QED
    BY <1>5, <2>2 DEF LoseStream, TypeOK
<1>6. ASSUME NEW s \in Ids, LoseSource(s) PROVE TypeOK'
  <2>1. LifeTyped'
    BY <1>0, <1>6, EndType DEF LoseSource
  <2>2. QED
    BY <1>6, <2>1 DEF LoseSource, TypeOK
<1>7. ASSUME NEW s \in Ids, EndSession(s) PROVE TypeOK'
  <2>1. LifeTyped'
    BY <1>0, <1>7, EndType DEF EndSession
  <2>2. QED
    BY <1>7, <2>1 DEF EndSession, CallAllowed, TypeOK
<1>8. ASSUME NEW l \in Listeners, NEW recursive \in BOOLEAN, DeleteListener(l, recursive)
      PROVE  TypeOK'
  <2>1. EmittedBy(l) \in SUBSET Ids
    BY TableIds DEF EmittedBy
  <2>2. LifeTyped' /\ spared' \subseteq Ids
    BY <1>0, <1>8, <2>1, EndType, ContinueType DEF DeleteListener, TypeOK
  <2>3. QED
    BY <1>8, <2>2 DEF DeleteListener, CallAllowed, TypeOK
<1>9. ASSUME NEW c \in Clusters, NEW recursive \in BOOLEAN, DeleteCluster(c, recursive)
      PROVE  TypeOK'
  <2>1. RoutedVia(c) \in SUBSET Ids /\ RoutedVia(c) \intersect Scanned \in SUBSET Ids
    BY TableIds DEF RoutedVia
  <2>2. LifeTyped' /\ spared' \subseteq Ids
    BY <1>0, <1>9, <2>1, EndType, ContinueType DEF DeleteCluster, TypeOK
  <2>3. clusters' \subseteq Clusters
    BY <1>9 DEF DeleteCluster, TypeOK
  <2>4. QED
    BY <1>9, <2>2, <2>3 DEF DeleteCluster, CallAllowed, TypeOK
<1>10. ASSUME NEW l \in Listeners, AddListener(l) PROVE TypeOK'
  BY <1>10 DEF AddListener, AddAllowed, Continue, TypeOK
<1>11. ASSUME NEW c \in Clusters, AddCluster(c) PROVE TypeOK'
  BY <1>11 DEF AddCluster, AddAllowed, Continue, TypeOK
<1>12. ASSUME NEW s \in Ids, Reap(s) PROVE TypeOK'
  <2>1. reaps[s] \in Nat /\ reaps[s] - 1 \in Nat
    BY <1>12 DEF Reap, TypeOK
  <2>2. reaps' \in [Ids -> Nat]
    BY <1>12, <2>1 DEF Reap, TypeOK
  <2>3. table' \subseteq 1 .. born'
    BY <1>12 DEF Reap, TypeOK
  <2>4. QED
    BY <1>12, <2>2, <2>3 DEF Reap, TypeOK
<1>13. CASE UNCHANGED vars
  BY <1>13 DEF vars, TypeOK
<1>14. QED
  BY <1>1, <1>2, <1>3, <1>4, <1>5, <1>6, <1>7, <1>8, <1>9, <1>10, <1>11, <1>12, <1>13,
     EmitType DEF Next

\* Every variable of the table keeps its type.
THEOREM TableTypeCorrect == Spec => []TypeOK
<1>1. Init => TypeOK
  BY TableAssumption DEF Init, TypeOK, Ids, StageStatus
<1>2. QED
  BY <1>1, NextType, PTL DEF Spec

-----------------------------------------------------------------------------
(* Names.                                                                  *)

\* Only the emission of a session changes names or adds to the table.
LEMMA OnlyEmitNames ==
  ASSUME [Next]_vars
  PROVE  \/ \E l \in Listeners : \E mark \in Marks(l) : Emit(l, mark)
         \/ UNCHANGED <<born, name, origin>> /\ table' \subseteq table
BY DEF Next, Refuse, AttemptSucceeds, AttemptFails, RetryTimer, LoseStream, LoseSource,
       EndSession, DeleteListener, DeleteCluster, AddListener, AddCluster, Reap, vars, identity

\* Looking up a name in the table finds at most one session.
THEOREM UniqueNames == Spec => []NamesUnique
<1>1. Init => NamesUnique
  BY DEF Init, NamesUnique
<1>2. TypeOK /\ NamesUnique /\ [Next]_vars => NamesUnique'
  <2> SUFFICES ASSUME TypeOK, NamesUnique, [Next]_vars PROVE NamesUnique'
    OBVIOUS
  <2>1. ASSUME NEW l \in Listeners, NEW mark \in Marks(l), Emit(l, mark)
        PROVE  NamesUnique'
    <3> DEFINE s == born + 1
    <3>1. PICK i \in Suffixes : /\ Free(<<l, mark>>, i)
                                /\ name' = [name EXCEPT ![s] = <<<<l, mark>>, i>>]
      BY <2>1 DEF Emit, NewSuffix
    <3>2. s \in Ids /\ table \subseteq Ids /\ s \notin table
      BY <2>1, TableAssumption DEF Emit, TypeOK, Ids
    <3>3. \A t \in table : name'[t] = name[t] /\ name[t] # name'[s]
      BY <3>1, <3>2 DEF Free, Holders, TypeOK
    <3>4. table' = table \union {s}
      BY <2>1 DEF Emit
    <3>5. QED
      BY <3>3, <3>4 DEF NamesUnique
  <2>2. CASE UNCHANGED name /\ table' \subseteq table
    BY <2>2 DEF NamesUnique
  <2>3. QED
    BY <2>1, <2>2, OnlyEmitNames
<1>3. QED
  BY <1>1, <1>2, TableTypeCorrect, PTL DEF Spec

-----------------------------------------------------------------------------
(* Live sessions and their places in the table.                            *)

\* A session that has been born has a number.
LEMMA BornIds == TypeOK => 1 .. born \subseteq Ids /\ born \in Nat /\ Ids \subseteq Nat
BY TableAssumption DEF TypeOK, Ids

\* The session itself, or one before it with its name, was ended more than once.
EndedTwiceBefore(s) == \E t \in endedTwice : t <= s /\ name[t] = name[s]

\* A session in the table is the latest of its name.
LatestInTable == \A t \in table : \A s \in 1 .. born : name[s] = name[t] => s <= t

\* A session is in the table until the one removal that its one end schedules.
Accounted(s) ==
  \/ s \in table /\ reaps[s] = (IF Live(s) THEN 0 ELSE 1)
  \/ s \notin table /\ reaps[s] = 0 /\ ~Live(s)

\* One that is not born does nothing.
Unborn(s) ==
  /\ life[s] = "unborn" /\ reaps[s] = 0
  /\ \A c \in Clusters : conn[s][c] = "idle"

PlaceInv ==
  /\ TypeOK
  /\ LatestInTable
  /\ endedTwice \subseteq 1 .. born
  /\ \A s \in 1 .. born : /\ life[s] # "unborn"
                          /\ Live(s) => s \notin endedTwice
                          /\ Accounted(s) \/ EndedTwiceBefore(s)
  /\ \A s \in Ids : s > born => Unborn(s)

\* A session that does something has been born.
LEMMA ActiveIsBorn ==
  ASSUME PlaceInv, NEW s \in Ids,
         \/ reaps[s] > 0 \/ life[s] # "unborn"
         \/ \E c \in Clusters : conn[s][c] # "idle"
  PROVE  s \in 1 .. born
BY BornIds DEF PlaceInv, Unborn, Ids

\* A step that names, ends and removes nothing and brings nothing to life.
LEMMA QuietPlace ==
  ASSUME PlaceInv, TypeOK', UNCHANGED <<born, name, table, reaps, endedTwice>>,
         \A s \in 1 .. born : (Live(s)' <=> Live(s)) /\ life'[s] # "unborn",
         \A s \in Ids : s > born => life'[s] = life[s] /\ conn'[s] = conn[s]
  PROVE  PlaceInv'
<1>1. /\ LatestInTable' /\ endedTwice' \subseteq 1 .. born'
      /\ \A s \in Ids : s > born' => Unborn(s)'
  BY DEF PlaceInv, LatestInTable, Unborn
<1>2. \A s \in 1 .. born : /\ Accounted(s) => Accounted(s)'
                           /\ EndedTwiceBefore(s) => EndedTwiceBefore(s)'
                           /\ Live(s)' => s \notin endedTwice'
  BY DEF PlaceInv, Accounted, EndedTwiceBefore
<1>3. QED
  BY <1>1, <1>2 DEF PlaceInv

\* A step that ends sessions, once if they are live and once more if not.
LEMMA EndPlace ==
  ASSUME PlaceInv, TypeOK', UNCHANGED <<born, name, table>>,
         NEW S \in SUBSET (1 .. born), NEW k, End(S, k),
         \A s \in Ids : s > born => k[s] = conn[s]
  PROVE  PlaceInv'
<1>0. 1 .. born \subseteq Ids /\ born \in Nat
  BY BornIds DEF PlaceInv
<1>1. LatestInTable' /\ endedTwice' \subseteq 1 .. born'
  <2>1. LatestInTable'
    BY DEF PlaceInv, LatestInTable
  <2>2. endedTwice' \subseteq endedTwice \union S
    BY DEF End
  <2>3. QED
    BY <2>1, <2>2 DEF PlaceInv
<1>2. ASSUME NEW s \in Ids, s > born' PROVE Unborn(s)'
  <2>1. s > born /\ s \notin S /\ Unborn(s)
    BY <1>0, <1>2, BornIds DEF PlaceInv
  <2>2. life'[s] = life[s] /\ reaps'[s] = reaps[s] /\ conn'[s] = conn[s]
    BY <2>1 DEF End
  <2>3. QED
    BY <2>1, <2>2 DEF Unborn
<1>3. ASSUME NEW s \in 1 .. born
      PROVE  /\ life'[s] # "unborn" /\ (Live(s)' => s \notin endedTwice')
             /\ Accounted(s)' \/ EndedTwiceBefore(s)'
  <2>1. EndedTwiceBefore(s) => EndedTwiceBefore(s)'
    BY DEF EndedTwiceBefore, End
  <2>2. CASE s \notin S
    BY <1>0, <2>1, <2>2 DEF End, PlaceInv, Accounted, Live
  <2>3. CASE s \in S /\ Live(s)
    <3>1. life'[s] = "over" /\ reaps'[s] = reaps[s] + 1
      BY <1>0, <2>3 DEF End
    <3>2. QED
      BY <2>1, <2>3, <3>1 DEF PlaceInv, Accounted, Live
  <2>4. CASE s \in S /\ ~Live(s)
    <3>1. life[s] \in {"over", "zombie"}
      BY <1>0, <2>4 DEF PlaceInv, TypeOK, Live
    <3>2. life'[s] = "over" /\ s \in endedTwice'
      BY <1>0, <2>4, <3>1 DEF End
    <3>3. s <= s
      BY <1>0
    <3>4. QED
      BY <3>2, <3>3 DEF EndedTwiceBefore, Live
  <2>5. QED
    BY <2>2, <2>3, <2>4
<1>4. QED
  BY <1>1, <1>2, <1>3 DEF PlaceInv

\* A session that is emitted is in the table, and over with one removal or live
\* with none; its name is that of no session in the table.
LEMMA EmitPlace ==
  ASSUME PlaceInv, NEW l \in Listeners, NEW mark \in Marks(l), Emit(l, mark)
  PROVE  PlaceInv'
<1>s. PICK s : s = born + 1
  OBVIOUS
<1>0. /\ s = born + 1
      /\ TypeOK /\ TypeOK' /\ born \in Nat /\ s \in Ids /\ 1 .. born \subseteq Ids
      /\ table \subseteq 1 .. born /\ table' = table \union {s} /\ born' = s
  <2>1. TypeOK /\ TypeOK' /\ born \in Nat /\ table \subseteq 1 .. born
    BY EmitType, BornIds DEF PlaceInv, TypeOK
  <2>2. QED
    BY <1>s, <2>1, BornIds, TableAssumption DEF Emit, Ids
<1>1. PICK i \in Suffixes : /\ Free(<<l, mark>>, i)
                            /\ name' = [name EXCEPT ![s] = <<<<l, mark>>, i>>]
  BY <1>s DEF Emit, NewSuffix
<1>2. /\ \A t \in Ids \ {s} : name'[t] = name[t]
      /\ \A t \in table : name[t] # name'[s]
  BY <1>0, <1>1 DEF Free, Holders, TypeOK
<1>3. PICK v \in SUBSET Clusters : Routed(s, l, v)
  BY <1>s DEF Emit
<1>4. \A t \in Ids \ {s} : /\ life'[t] = life[t] /\ conn'[t] = conn[t] /\ reaps'[t] = reaps[t]
  BY <1>0, <1>3 DEF Routed, TypeOK
<1>5. endedTwice' = endedTwice /\ Accounted(s)' /\ life'[s] # "unborn"
  <2>1. reaps[s] = 0
    BY <1>0 DEF PlaceInv, Unborn
  <2>2. \/ life'[s] = "over" /\ reaps'[s] = 1
        \/ life'[s] = "setup" /\ reaps'[s] = 0
    BY <1>0, <1>3, <2>1 DEF Routed, TypeOK
  <2>3. QED
    BY <1>0, <1>3, <2>2 DEF Routed, Accounted, Live
<1>6. s \notin endedTwice
  BY <1>0 DEF PlaceInv
<1>7. LatestInTable'
  <2>1. ASSUME NEW t \in table', NEW u \in 1 .. born', name'[u] = name'[t] PROVE u <= t
    <3>1. CASE t = s
      BY <1>0, <3>1
    <3>2. CASE t # s /\ u # s
      <4>1. t \in table /\ u \in 1 .. born
        BY <1>0, <3>2
      <4>2. name[u] = name[t]
        BY <1>0, <1>2, <2>1, <3>2, <4>1
      <4>3. QED
        BY <4>1, <4>2 DEF PlaceInv, LatestInTable
    <3>3. CASE t # s /\ u = s
      <4>1. t \in table /\ t \in Ids
        BY <1>0, <3>3
      <4>2. QED
        BY <1>2, <2>1, <3>3, <4>1
    <3>4. QED
      BY <3>1, <3>2, <3>3
  <2>2. QED
    BY <2>1 DEF LatestInTable
<1>8. ASSUME NEW t \in 1 .. born
      PROVE  /\ life'[t] # "unborn" /\ (Live(t)' => t \notin endedTwice')
             /\ Accounted(t)' \/ EndedTwiceBefore(t)'
  <2>1. t \in Ids \ {s}
    BY <1>0
  <2>2. Accounted(t) => Accounted(t)'
    BY <1>0, <1>4, <2>1 DEF Accounted, Live
  <2>3. EndedTwiceBefore(t) => EndedTwiceBefore(t)'
    <3>1. SUFFICES ASSUME NEW u \in endedTwice, u <= t, name[u] = name[t]
                   PROVE  EndedTwiceBefore(t)'
      BY DEF EndedTwiceBefore
    <3>2. u \in Ids /\ u # s
      BY <1>0, <1>6, <3>1 DEF TypeOK
    <3>3. name'[u] = name'[t] /\ u \in endedTwice'
      BY <1>2, <1>5, <2>1, <3>1, <3>2
    <3>4. QED
      BY <3>1, <3>3 DEF EndedTwiceBefore
  <2>4. QED
    BY <1>4, <1>5, <2>1, <2>2, <2>3 DEF PlaceInv, Live
<1>9. \A t \in Ids : t > born' => Unborn(t)'
  <2>1. \A t \in Ids : t > born' => t > born /\ t \in Ids \ {s}
    BY <1>0, BornIds
  <2>2. QED
    BY <1>4, <2>1 DEF PlaceInv, Unborn
<1>10. \A t \in 1 .. born' : t \in 1 .. born \/ t = s
  BY <1>0
<1>11. QED
  <2>1. endedTwice' \subseteq 1 .. born'
    BY <1>0, <1>5 DEF PlaceInv
  <2>2. QED
    BY <1>0, <1>5, <1>6, <1>7, <1>8, <1>9, <1>10, <2>1 DEF PlaceInv

\* A removal takes the session itself, or one after it that has its name, which
\* only the second end of a session can do.
LEMMA ReapPlace ==
  ASSUME PlaceInv, TypeOK', NEW s \in Ids, Reap(s)
  PROVE  PlaceInv'
<1> USE DEF identity, registry, bounds
<1>0. /\ TypeOK /\ s \in 1 .. born /\ 1 .. born \subseteq Ids /\ born \in Nat
      /\ table \subseteq 1 .. born /\ reaps[s] \in Nat /\ reaps[s] > 0
      /\ reaps'[s] = reaps[s] - 1
      /\ \A t \in Ids \ {s} : reaps'[t] = reaps[t]
      /\ UNCHANGED <<born, name, life, conn, endedTwice>> /\ table' = table \ Removed(s)
  BY ActiveIsBorn, BornIds DEF PlaceInv, TypeOK, Reap
<1>1. LatestInTable'
  BY <1>0 DEF PlaceInv, LatestInTable
<1>2. \A t \in Ids : t > born' => Unborn(t)'
  BY <1>0, BornIds DEF PlaceInv, Unborn
<1>3. ASSUME NEW t \in 1 .. born
      PROVE  Accounted(t)' \/ EndedTwiceBefore(t)'
  <2>0. EndedTwiceBefore(t) => EndedTwiceBefore(t)'
    BY <1>0 DEF EndedTwiceBefore
  <2>1. CASE EndedTwiceBefore(t)
    BY <2>0, <2>1
  <2>2. CASE ~EndedTwiceBefore(t) /\ t = s
    <3>1. t \in table /\ reaps[t] = 1 /\ ~Live(t)
      BY <1>0, <2>2 DEF PlaceInv, Accounted
    <3>2. \A u \in Holders(name[s]) : u = t
      <4>1. ASSUME NEW u \in Holders(name[s]) PROVE u = t
        <5>1. u \in table /\ name[u] = name[t] /\ u \in 1 .. born
          BY <1>0, <2>2, <4>1 DEF Holders
        <5>2. u <= t /\ t <= u
          BY <3>1, <5>1 DEF PlaceInv, LatestInTable
        <5>3. QED
          BY <1>0, <5>1, <5>2
      <4>2. QED
        BY <4>1
    <3>3. t \in Removed(s)
      <4>1. t \in Holders(name[s]) /\ t <= t
        BY <1>0, <2>2, <3>1 DEF Holders
      <4>2. QED
        BY <3>2, <4>1 DEF Removed
    <3>4. t \notin table' /\ reaps'[t] = 0
      BY <1>0, <2>2, <3>1, <3>3
    <3>5. QED
      BY <1>0, <3>1, <3>4 DEF Accounted, Live
  <2>3. CASE ~EndedTwiceBefore(t) /\ t # s
    <3>1. t \notin Removed(s)
      <4>1. SUFFICES ASSUME t \in table, name[t] = name[s] PROVE FALSE
        BY DEF Removed, Holders
      <4>2. s <= t
        BY <1>0, <4>1 DEF PlaceInv, LatestInTable
      <4>3. ~EndedTwiceBefore(s)
        <5>1. ASSUME NEW u \in endedTwice, u <= s, name[u] = name[s] PROVE FALSE
          <6>1. u \in 1 .. born /\ u <= t
            BY <1>0, <4>2, <5>1 DEF PlaceInv
          <6>2. QED
            BY <2>3, <4>1, <5>1, <6>1 DEF EndedTwiceBefore
        <5>2. QED
          BY <5>1 DEF EndedTwiceBefore
      <4>4. s \in table
        BY <1>0, <4>3 DEF PlaceInv, Accounted
      <4>5. t <= s
        BY <4>1, <4>4 DEF PlaceInv, LatestInTable
      <4>6. QED
        BY <1>0, <2>3, <4>2, <4>5
    <3>2. Accounted(t)
      BY <2>3 DEF PlaceInv
    <3>3. QED
      BY <1>0, <2>3, <3>1, <3>2 DEF Accounted, Live
  <2>4. QED
    BY <2>1, <2>2, <2>3
<1>4. QED
  BY <1>0, <1>1, <1>2, <1>3 DEF PlaceInv, Live

\* Every step keeps account of the sessions.
LEMMA NextPlace == PlaceInv /\ [Next]_vars => PlaceInv'
<1> SUFFICES ASSUME PlaceInv, [Next]_vars PROVE PlaceInv'
  OBVIOUS
<1> USE DEF identity, registry, bounds
<1>0. /\ TypeOK /\ TypeOK' /\ table \subseteq 1 .. born /\ born \in Nat
      /\ 1 .. born \subseteq Ids
  BY NextType, BornIds DEF PlaceInv, TypeOK
<1>1. ASSUME NEW k, Continue(k), UNCHANGED <<born, name, table>>,
             \A s \in Ids : s > born => k[s] = conn[s]
      PROVE  PlaceInv'
  <2>1. UNCHANGED <<reaps, endedTwice, life>> /\ conn' = k
    BY <1>1 DEF Continue
  <2>2. \A s \in 1 .. born : (Live(s)' <=> Live(s)) /\ life'[s] # "unborn"
    BY <2>1 DEF PlaceInv, Live
  <2>3. QED
    BY <1>0, <1>1, <2>1, <2>2, QuietPlace
<1>2. ASSUME NEW s \in 1 .. born, NEW c \in Clusters, NEW status
      PROVE  \A t \in Ids : t > born => Stage(s, c, status)[t] = conn[t]
  BY <1>0, BornIds DEF Stage, TypeOK
<1>3. ASSUME NEW s \in 1 .. born, NEW c \in Clusters, GiveUp(s, c), UNCHANGED <<born, name, table>>
      PROVE  PlaceInv'
  BY <1>0, <1>1, <1>2, <1>3, EndPlace DEF GiveUp
<1>4. ASSUME NEW l \in Listeners, NEW mark \in Marks(l), Refuse(l, mark) PROVE PlaceInv'
  BY <1>1, <1>4 DEF Refuse
<1>5. ASSUME NEW s \in Ids, NEW c \in Clusters, AttemptSucceeds(s, c) PROVE PlaceInv'
  <2>1. s \in 1 .. born /\ s \in Ids
    BY <1>5, ActiveIsBorn DEF AttemptSucceeds
  <2>2. \A t \in Ids : t # s => life'[t] = life[t] /\ conn'[t] = conn[t]
    BY <1>0, <1>5 DEF AttemptSucceeds, Stage, TypeOK
  <2>3. (Live(s)' <=> Live(s)) /\ life'[s] # "unborn"
    BY <1>0, <1>5, <2>1 DEF AttemptSucceeds, Live, TypeOK
  <2>4. \A t \in 1 .. born : (Live(t)' <=> Live(t)) /\ life'[t] # "unborn"
    BY <1>0, <2>2, <2>3 DEF Live, PlaceInv
  <2>5. \A t \in Ids : t > born => t # s
    BY <1>0, <2>1, BornIds
  <2>6. UNCHANGED <<born, name, table, reaps, endedTwice>>
    BY <1>5 DEF AttemptSucceeds
  <2>7. QED
    BY <1>0, <2>2, <2>4, <2>5, <2>6, QuietPlace
<1>6. ASSUME NEW s \in Ids, NEW c \in Clusters, AttemptFails(s, c) \/ RetryTimer(s, c)
      PROVE  PlaceInv'
  <2>1. s \in 1 .. born
    BY <1>6, ActiveIsBorn DEF AttemptFails, RetryTimer
  <2>2. UNCHANGED <<born, name, table>>
    BY <1>6 DEF AttemptFails, RetryTimer
  <2>3. \/ \E status \in StageStatus : Continue(Stage(s, c, status))
        \/ GiveUp(s, c)
    BY <1>6 DEF AttemptFails, RetryTimer, StageStatus
  <2>4. QED
    BY <1>1, <1>2, <1>3, <2>1, <2>2, <2>3
<1>7. ASSUME NEW s \in Ids, NEW c \in Clusters, LoseStream(s, c) PROVE PlaceInv'
  <2>1. s \in 1 .. born /\ {s} \in SUBSET (1 .. born)
    BY <1>7, ActiveIsBorn DEF LoseStream
  <2>2. UNCHANGED <<born, name, table>>
    BY <1>7 DEF LoseStream
  <2>3. (\E status : Continue(Stage(s, c, status))) \/ End({s}, conn)
    BY <1>7 DEF LoseStream
  <2>4. QED
    BY <1>0, <1>1, <1>2, <2>1, <2>2, <2>3, EndPlace
<1>8. ASSUME NEW s \in Ids, LoseSource(s) PROVE PlaceInv'
  <2>1. {s} \in SUBSET (1 .. born)
    BY <1>8, ActiveIsBorn DEF LoseSource
  <2>2. QED
    BY <1>0, <1>8, <2>1, EndPlace DEF LoseSource
<1>9. ASSUME NEW s \in Ids, EndSession(s) PROVE PlaceInv'
  <2>1. {s} \in SUBSET (1 .. born)
    BY <1>0, <1>9 DEF EndSession
  <2>2. QED
    BY <1>0, <1>9, <2>1, EndPlace DEF EndSession
<1>10. ASSUME NEW l \in Listeners, NEW recursive \in BOOLEAN, DeleteListener(l, recursive)
       PROVE  PlaceInv'
  <2>1. EmittedBy(l) \in SUBSET (1 .. born)
    BY <1>0 DEF EmittedBy
  <2>2. UNCHANGED <<born, name, table>> /\ (End(EmittedBy(l), conn) \/ Continue(conn))
    BY <1>10 DEF DeleteListener
  <2>3. QED
    BY <1>0, <1>1, <2>1, <2>2, EndPlace
<1>11. ASSUME NEW c \in Clusters, NEW recursive \in BOOLEAN, DeleteCluster(c, recursive)
       PROVE  PlaceInv'
  <2>1. RoutedVia(c) \intersect Scanned \in SUBSET (1 .. born)
    BY <1>0 DEF RoutedVia
  <2>2. /\ UNCHANGED <<born, name, table>>
        /\ End(RoutedVia(c) \intersect Scanned, conn) \/ Continue(conn)
    BY <1>11 DEF DeleteCluster
  <2>3. QED
    BY <1>0, <1>1, <2>1, <2>2, EndPlace
<1>12. ASSUME NEW l \in Listeners, AddListener(l) PROVE PlaceInv'
  BY <1>1, <1>12 DEF AddListener
<1>13. ASSUME NEW c \in Clusters, AddCluster(c) PROVE PlaceInv'
  BY <1>1, <1>13 DEF AddCluster
<1>14. ASSUME NEW s \in Ids, Reap(s) PROVE PlaceInv'
  BY <1>0, <1>14, ReapPlace
<1>15. ASSUME UNCHANGED vars PROVE PlaceInv'
  <2>1. Continue(conn) /\ UNCHANGED <<born, name, table>>
    BY <1>15 DEF vars, Continue
  <2>2. QED
    BY <1>1, <2>1
<1>16. QED
  BY <1>4, <1>5, <1>6, <1>7, <1>8, <1>9, <1>10, <1>11, <1>12, <1>13, <1>14, <1>15,
     EmitPlace DEF Next

\* Every session is accounted for, but for those that a session before them with
\* their name, ended more than once, may have had removed.
THEOREM SessionsAccounted == Spec => []PlaceInv
<1>1. Init => PlaceInv
  <2>1. Init => TypeOK
    BY TableAssumption DEF Init, TypeOK, Ids, StageStatus
  <2>2. Init => LatestInTable /\ 1 .. born = {} /\ endedTwice = {}
    BY DEF Init, LatestInTable
  <2>3. Init => \A s \in Ids : Unborn(s)
    BY DEF Init, Unborn
  <2>4. QED
    BY <2>1, <2>2, <2>3 DEF PlaceInv
<1>2. QED
  BY <1>1, NextPlace, PTL DEF Spec

\* A live session is in the table unless an earlier session of its name was ended
\* twice: it is not lost to a removal that is not its own.
THEOREM AliveSessionsListed == Spec => []AliveIsListed
<1>1. PlaceInv => AliveIsListed
  <2> SUFFICES ASSUME PlaceInv, NEW s \in Ids, Live(s)
               PROVE  s \in table \/ PredecessorEndedTwice(s)
    BY DEF AliveIsListed
  <2>1. s \in 1 .. born /\ born \in Nat
    BY ActiveIsBorn, BornIds DEF Live, PlaceInv
  <2>2. CASE Accounted(s)
    BY <2>2 DEF Accounted
  <2>3. CASE EndedTwiceBefore(s)
    <3>1. PICK t \in endedTwice : t <= s /\ name[t] = name[s]
      BY <2>3 DEF EndedTwiceBefore
    <3>2. t # s /\ t \in 1 .. born
      BY <2>1, <3>1 DEF PlaceInv
    <3>3. QED
      BY <2>1, <3>1, <3>2 DEF PredecessorEndedTwice
  <2>4. QED
    BY <2>1, <2>2, <2>3 DEF PlaceInv
<1>2. QED
  BY <1>1, SessionsAccounted, PTL

-----------------------------------------------------------------------------
(* Live sessions and what they run on.                                     *)

\* A step that takes no listener and no cluster, adds nothing to the table, and
\* starts no connect to a cluster that is missing.
LEMMA QuietServed ==
  ASSUME ServedByRegistry, UNCHANGED <<origin, via>>, table' \subseteq table,
         spared \subseteq spared', listeners \subseteq listeners', clusters \subseteq clusters',
         \A s \in table : Live(s)' =>
           /\ Live(s)
           /\ \A c \in via[s] : conn'[s][c] # "backoff" => conn[s][c] # "backoff" \/ c \in clusters
  PROVE  ServedByRegistry'
BY DEF ServedByRegistry

\* In particular, one that only ends sessions or only goes on.
LEMMA EndServed ==
  ASSUME TypeOK, ServedByRegistry, UNCHANGED <<origin, via, table, listeners, clusters>>,
         spared \subseteq spared', NEW S, End(S, conn) \/ Continue(conn)
  PROVE  ServedByRegistry'
<1>1. table \subseteq Ids
  BY TableIds
<1>2. \A s \in table : Live(s)' => Live(s) /\ conn'[s] = conn[s]
  BY <1>1 DEF End, Continue, Live
<1>3. QED
  BY <1>2, QuietServed

\* A step of one session does not disturb the others.
LEMMA StageServed ==
  ASSUME TypeOK, ServedByRegistry,
         UNCHANGED <<origin, via, table, listeners, clusters, spared>>,
         NEW s \in Ids, NEW c \in Clusters, NEW status,
         status # "backoff" => conn[s][c] # "backoff" \/ c \in clusters,
         End({s}, Stage(s, c, status)) \/ Continue(Stage(s, c, status))
  PROVE  ServedByRegistry'
<1>0. table \subseteq Ids
  BY TableIds
<1> DEFINE k == Stage(s, c, status)
<1>1. \A t \in Ids : \A d \in Clusters :
        k[t][d] = IF t = s /\ d = c THEN status ELSE conn[t][d]
  BY DEF Stage, TypeOK
<1>2. \A t \in table : via[t] \subseteq Clusters
  BY <1>0 DEF TypeOK
<1>3. \A t \in table : Live(t)' => Live(t) /\ conn'[t] = k[t]
  BY <1>0 DEF End, Continue, Live
<1>4. \A t \in table : Live(t)' =>
        /\ Live(t)
        /\ \A d \in via[t] : conn'[t][d] # "backoff" => conn[t][d] # "backoff" \/ d \in clusters
  BY <1>0, <1>1, <1>2, <1>3
<1>5. QED
  BY <1>4, QuietServed

\* A session that is emitted and live has its listener, and waits for the
\* clusters it does not have.
LEMMA EmitServed ==
  ASSUME TypeOK, ServedByRegistry, NEW l \in Listeners, NEW mark \in Marks(l), Emit(l, mark)
  PROVE  ServedByRegistry'
<1>s. PICK s : s = born + 1
  OBVIOUS
<1>0. /\ s \in Ids /\ s \notin table /\ table \subseteq Ids /\ table' = table \union {s}
      /\ UNCHANGED <<listeners, clusters, spared>> /\ origin' = [origin EXCEPT ![s] = l]
  BY <1>s, TableIds, TableAssumption DEF Emit, TypeOK, Ids
<1>1. PICK v \in SUBSET Clusters : via' = [via EXCEPT ![s] = v] /\ Routed(s, l, v)
  BY <1>s DEF Emit
<1>2. \A t \in table : /\ t # s /\ origin'[t] = origin[t] /\ via'[t] = via[t]
                       /\ conn'[t] = conn[t] /\ life'[t] = life[t]
  BY <1>0, <1>1 DEF Routed, TypeOK
<1>3. origin'[s] = l /\ via'[s] = v
  BY <1>0, <1>1 DEF TypeOK
<1>4. Live(s)' => l \in listeners /\ \A c \in v : conn'[s][c] # "backoff" => c \in clusters
  BY <1>0, <1>1 DEF Routed, Live, FirstAttempts, TypeOK
<1>5. \A t \in table' \ spared' : Live(t)' =>
        /\ origin'[t] \in listeners'
        /\ \A c \in via'[t] : conn'[t][c] # "backoff" => c \in clusters'
  BY <1>0, <1>2, <1>3, <1>4 DEF ServedByRegistry, Live
<1>6. QED
  BY <1>5 DEF ServedByRegistry

\* No step takes from a live session what it runs on, unless it spares it.
LEMMA NextServed == TypeOK /\ ServedByRegistry /\ [Next]_vars => ServedByRegistry'
<1> SUFFICES ASSUME TypeOK, ServedByRegistry, [Next]_vars PROVE ServedByRegistry'
  OBVIOUS
<1> USE DEF identity, registry, bounds
<1>0. table \subseteq Ids
  BY TableIds
<1>1. ASSUME NEW l \in Listeners, NEW mark \in Marks(l), Refuse(l, mark)
      PROVE  ServedByRegistry'
  BY <1>1, EndServed DEF Refuse
<1>2. ASSUME NEW s \in Ids, NEW c \in Clusters, AttemptSucceeds(s, c)
      PROVE  ServedByRegistry'
  <2>1. UNCHANGED <<origin, via, table, listeners, clusters, spared>>
    BY <1>2 DEF AttemptSucceeds
  <2>2. \A t \in Ids : Live(t)' => Live(t)
    BY <1>2 DEF AttemptSucceeds, Live, TypeOK
  <2>3. \A t \in Ids : Live(t)' => \A d \in Clusters :
          conn'[t][d] # "backoff" => conn[t][d] # "backoff"
    <3>1. ASSUME NEW t \in Ids, Live(t)', NEW d \in Clusters, conn'[t][d] # "backoff"
          PROVE  conn[t][d] # "backoff"
      <4>1. CASE t # s
        BY <1>2, <3>1, <4>1 DEF AttemptSucceeds, Stage, TypeOK
      <4>2. CASE t = s /\ d = c
        BY <1>2, <4>2 DEF AttemptSucceeds
      <4>3. CASE t = s /\ d # c
        <5>1. Live(s) /\ Live(s)'
          BY <2>2, <3>1, <4>3
        <5>2. conn' = Stage(s, c, "ready")
          BY <1>2, <5>1 DEF AttemptSucceeds, Live
        <5>3. QED
          BY <3>1, <4>3, <5>2 DEF Stage, TypeOK
      <4>4. QED
        BY <4>1, <4>2, <4>3
    <3>2. QED
      BY <3>1
  <2>4. \A t \in table : via[t] \subseteq Clusters
    BY <1>0 DEF TypeOK
  <2>5. QED
    BY <1>0, <2>1, <2>2, <2>3, <2>4, QuietServed
<1>3. ASSUME NEW s \in Ids, NEW c \in Clusters, AttemptFails(s, c) \/ RetryTimer(s, c)
      PROVE  ServedByRegistry'
  <2>1. UNCHANGED <<origin, via, table, listeners, clusters, spared>>
    BY <1>3 DEF AttemptFails, RetryTimer
  <2>2. CASE Continue(Stage(s, c, "backoff"))
    BY <2>1, <2>2, StageServed
  <2>3. CASE c \in clusters /\ Continue(Stage(s, c, "attempt"))
    BY <2>1, <2>3, StageServed
  <2>4. CASE GiveUp(s, c)
    <3>1. \A t \in table : Live(t)' => t # s /\ Live(t) /\ conn'[t] = conn[t]
      BY <1>0, <2>4 DEF GiveUp, End, Continue, Stage, Live, TypeOK
    <3>2. QED
      BY <2>1, <3>1, QuietServed
  <2>5. QED
    BY <1>3, <2>2, <2>3, <2>4 DEF AttemptFails, RetryTimer
<1>4. ASSUME NEW s \in Ids, NEW c \in Clusters, LoseStream(s, c) PROVE ServedByRegistry'
  <2>1. UNCHANGED <<origin, via, table, listeners, clusters, spared>>
    BY <1>4 DEF LoseStream
  <2>2. CASE End({s}, conn)
    BY <2>1, <2>2, EndServed
  <2>3. CASE Continue(Stage(s, c, IF c \in clusters THEN "attempt" ELSE "backoff"))
    <3>1. PICK status : /\ status = IF c \in clusters THEN "attempt" ELSE "backoff"
                        /\ Continue(Stage(s, c, status))
      BY <2>3
    <3>2. status # "backoff" => conn[s][c] # "backoff" \/ c \in clusters
      BY <3>1
    <3>3. QED
      BY <2>1, <3>1, <3>2, StageServed
  <2>4. QED
    BY <1>4, <2>2, <2>3 DEF LoseStream
<1>5. ASSUME NEW s \in Ids, LoseSource(s) \/ EndSession(s) PROVE ServedByRegistry'
  BY <1>5, EndServed DEF LoseSource, EndSession
<1>6. ASSUME NEW l \in Listeners, NEW recursive \in BOOLEAN, DeleteListener(l, recursive)
      PROVE  ServedByRegistry'
  <2>1. /\ UNCHANGED <<origin, via, table, clusters>> /\ spared \subseteq spared'
        /\ listeners' = listeners \ {l}
    BY <1>6 DEF DeleteListener
  <2>2. \A t \in table \ spared' : Live(t)' =>
          Live(t) /\ conn'[t] = conn[t] /\ origin[t] # l
    BY <1>0, <1>6 DEF DeleteListener, End, Continue, EmittedBy, Live
  <2>3. QED
    BY <2>1, <2>2 DEF ServedByRegistry
<1>7. ASSUME NEW c \in Clusters, NEW recursive \in BOOLEAN, DeleteCluster(c, recursive)
      PROVE  ServedByRegistry'
  <2>1. UNCHANGED <<origin, via, table, listeners>> /\ spared \subseteq spared'
    BY <1>7 DEF DeleteCluster
  <2>2. CASE clusters' = clusters
    <3>1. End(RoutedVia(c) \intersect Scanned, conn) \/ Continue(conn)
      BY <1>7 DEF DeleteCluster
    <3>2. QED
      BY <2>1, <2>2, <3>1, EndServed
  <2>3. CASE clusters' = clusters \ {c} /\ clusters' # clusters
    <3>1. Throws \/ Scanned = table
      BY DEF Throws, Scanned
    <3>2. \A t \in table \ spared' : Live(t)' =>
            Live(t) /\ conn'[t] = conn[t] /\ c \notin via[t]
      BY <1>0, <1>7, <2>3, <3>1 DEF DeleteCluster, End, Continue, RoutedVia, Live
    <3>3. QED
      BY <2>1, <2>3, <3>2 DEF ServedByRegistry
  <2>4. QED
    BY <1>7, <2>2, <2>3 DEF DeleteCluster
<1>8. ASSUME NEW l \in Listeners, AddListener(l) PROVE ServedByRegistry'
  BY <1>8, QuietServed DEF AddListener, Continue, Live
<1>9. ASSUME NEW c \in Clusters, AddCluster(c) PROVE ServedByRegistry'
  BY <1>9, QuietServed DEF AddCluster, Continue, Live
<1>10. ASSUME NEW s \in Ids, Reap(s) PROVE ServedByRegistry'
  BY <1>10, QuietServed DEF Reap, Live
<1>11. CASE UNCHANGED vars
  BY <1>11 DEF vars, ServedByRegistry, Live
<1>12. QED
  BY <1>1, <1>2, <1>3, <1>4, <1>5, <1>6, <1>7, <1>8, <1>9, <1>10, <1>11, EmitServed DEF Next

\* A live session of the table has its listener and the clusters it has got to,
\* through all recursive deletions, also those that throw.
THEOREM ServedSessions == Spec => []ServedByRegistry
<1>1. Init => ServedByRegistry
  BY DEF Init, ServedByRegistry
<1>2. QED
  BY <1>1, NextServed, TableTypeCorrect, PTL DEF Spec

-----------------------------------------------------------------------------
(* When names are used once: every listener numbers its sessions, and none  *)
(* is added again, which would make its numbers start from 0.               *)

UsedOnce == Numbered = Listeners /\ MaxAdds = 0

\* Sessions are named after numbers that their listener has passed, so that no
\* two of all the sessions that ever were share a name.
NamesFresh ==
  /\ TypeOK /\ adds = 0
  /\ \A s \in 1 .. born :
       /\ name[s] \in Names
       /\ origin[s] = name[s][1][1]
       /\ name[s][1][2] < sessionId[origin[s]]
  /\ \A s, t \in 1 .. born : name[s] = name[t] => s = t

\* Emitting a session uses a number that no session is named after.
LEMMA EmitFresh ==
  ASSUME UsedOnce, NamesFresh, NEW l \in Listeners, NEW mark \in Marks(l), Emit(l, mark)
  PROVE  NamesFresh'
<1> DEFINE s == born + 1
<1>0. /\ TypeOK /\ TypeOK' /\ s \in Ids /\ born \in Nat /\ mark = sessionId[l]
      /\ 1 .. born \subseteq Ids /\ 1 .. born' = (1 .. born) \union {s} /\ s \notin 1 .. born
  <2>1. TypeOK /\ TypeOK' /\ mark = sessionId[l]
    BY EmitType DEF NamesFresh, Marks, UsedOnce
  <2>2. born \in Nat /\ s \in Ids /\ 1 .. born \subseteq Ids
    BY <2>1, BornIds, TableAssumption DEF Emit, Ids
  <2>3. 1 .. born' = (1 .. born) \union {s} /\ s \notin 1 .. born
    BY <2>2 DEF Emit
  <2>4. QED
    BY <2>1, <2>2, <2>3
<1>1. PICK i \in Suffixes : name' = [name EXCEPT ![s] = <<<<l, mark>>, i>>]
  BY DEF Emit
<1>2. /\ name'[s] = <<<<l, mark>>, i>> /\ origin'[s] = l /\ name'[s] \in Names
      /\ \A t \in 1 .. born : name'[t] = name[t] /\ origin'[t] = origin[t]
  <2>1. mark \in Nat
    BY <1>0 DEF TypeOK
  <2>2. QED
    BY <1>0, <1>1, <2>1 DEF Emit, TypeOK, Names, Bases, Suffixes
<1>3. /\ sessionId'[l] = mark + 1 /\ \A k \in Listeners : sessionId[k] <= sessionId'[k]
      /\ \A k \in Listeners : sessionId[k] \in Nat /\ sessionId'[k] \in Nat
  BY <1>0 DEF Emit, CountSession, UsedOnce, TypeOK
<1>4. \A t \in 1 .. born : name[t] # name'[s]
  <2> SUFFICES ASSUME NEW t \in 1 .. born, name[t] = name'[s] PROVE FALSE
    OBVIOUS
  <2>1. name[t][1][2] = mark /\ origin[t] = l
    BY <1>2 DEF NamesFresh
  <2>2. mark < sessionId[l]
    BY <2>1 DEF NamesFresh
  <2>3. QED
    BY <1>0, <1>3, <2>2
<1>5. \A t \in 1 .. born : /\ name[t] \in Names /\ origin[t] = name[t][1][1]
                           /\ name[t][1][2] < sessionId'[origin[t]]
  <2> SUFFICES ASSUME NEW t \in 1 .. born
               PROVE  /\ name[t] \in Names /\ origin[t] = name[t][1][1]
                      /\ name[t][1][2] < sessionId'[origin[t]]
    OBVIOUS
  <2>1. /\ name[t] \in Names /\ origin[t] = name[t][1][1]
        /\ name[t][1][2] < sessionId[origin[t]]
    BY DEF NamesFresh
  <2>2. origin[t] \in Listeners /\ name[t][1][2] \in Nat
    BY <2>1 DEF Names, Bases
  <2>3. QED
    BY <1>3, <2>1, <2>2
<1>6. \A t \in 1 .. born' : /\ name'[t] \in Names /\ origin'[t] = name'[t][1][1]
                            /\ name'[t][1][2] < sessionId'[origin'[t]]
  BY <1>0, <1>2, <1>3, <1>5
<1>7. \A t, u \in 1 .. born' : name'[t] = name'[u] => t = u
  BY <1>0, <1>2, <1>4 DEF NamesFresh
<1>8. QED
  BY <1>0, <1>6, <1>7 DEF NamesFresh, Emit, bounds

\* Steps that name nothing keep names fresh, whatever numbers are passed.
LEMMA QuietNames ==
  ASSUME NamesFresh, TypeOK', UNCHANGED <<born, name, origin, adds>>,
         \A l \in Listeners : sessionId[l] <= sessionId'[l]
  PROVE  NamesFresh'
<1>1. \A s \in 1 .. born : /\ name[s][1][2] \in Nat /\ origin[s] \in Listeners
                           /\ name[s][1][2] < sessionId[origin[s]]
  BY DEF NamesFresh, Names, Bases
<1>2. \A s \in 1 .. born : name[s][1][2] < sessionId'[origin[s]]
  BY <1>1 DEF NamesFresh, TypeOK
<1>3. QED
  BY <1>2 DEF NamesFresh

\* Without additions only the emission of a session counts.
LEMMA OnlyEmitCounts ==
  ASSUME NamesFresh, UsedOnce, [Next]_vars
  PROVE  \/ \E l \in Listeners : \E mark \in Marks(l) : Emit(l, mark) \/ Refuse(l, mark)
         \/ UNCHANGED <<born, name, origin, sessionId, adds>>
<1> USE DEF identity, registry, bounds
<1>1. ~(\E l \in Listeners : AddListener(l)) /\ ~(\E c \in Clusters : AddCluster(c))
  BY DEF AddListener, AddCluster, AddAllowed, NamesFresh, UsedOnce
<1>2. ASSUME NEW s \in Ids,
             \/ LoseSource(s) \/ EndSession(s) \/ Reap(s)
             \/ \E c \in Clusters : \/ AttemptSucceeds(s, c) \/ AttemptFails(s, c)
                                   \/ RetryTimer(s, c) \/ LoseStream(s, c)
      PROVE  UNCHANGED <<born, name, origin, sessionId, adds>>
  BY <1>2 DEF AttemptSucceeds, AttemptFails, RetryTimer, LoseStream, LoseSource, EndSession, Reap
<1>3. ASSUME NEW l \in Listeners, NEW recursive \in BOOLEAN, DeleteListener(l, recursive)
      PROVE  UNCHANGED <<born, name, origin, sessionId, adds>>
  BY <1>3 DEF DeleteListener
<1>4. ASSUME NEW c \in Clusters, NEW recursive \in BOOLEAN, DeleteCluster(c, recursive)
      PROVE  UNCHANGED <<born, name, origin, sessionId, adds>>
  BY <1>4 DEF DeleteCluster
<1>5. UNCHANGED vars => UNCHANGED <<born, name, origin, sessionId, adds>>
  BY DEF vars
<1>6. QED
  BY <1>1, <1>2, <1>3, <1>4, <1>5 DEF Next

\* The other sessions, before and after s, that had or have its name.
Namesakes(s) == {t \in 1 .. born : t # s /\ name[t] = name[s]}

\* No session ever shares its name if names are used once.
THEOREM NoNamesakes ==
  ASSUME UsedOnce PROVE Spec => [](\A s \in 1 .. born : Namesakes(s) = {})
<1>0. UsedOnce
  OBVIOUS
<1>1. Init => NamesFresh
  <2>1. Init => TypeOK
    BY TableAssumption DEF Init, TypeOK, Ids, StageStatus
  <2>2. QED
    BY <2>1 DEF Init, NamesFresh
<1>2. NamesFresh /\ [Next]_vars => NamesFresh'
  <2> SUFFICES ASSUME NamesFresh, [Next]_vars PROVE NamesFresh'
    OBVIOUS
  <2>1. TypeOK /\ TypeOK'
    BY NextType DEF NamesFresh
  <2>2. ASSUME NEW l \in Listeners, NEW mark \in Marks(l), Refuse(l, mark)
        PROVE  NamesFresh'
    <3>1. \A k \in Listeners : sessionId[k] <= sessionId'[k]
      BY <2>1, <2>2 DEF Refuse, CountSession, TypeOK
    <3>2. QED
      BY <2>1, <2>2, <3>1, QuietNames DEF Refuse, identity, bounds
  <2>3. CASE UNCHANGED <<born, name, origin, sessionId, adds>>
    <3>1. \A k \in Listeners : sessionId[k] <= sessionId'[k]
      BY <2>1, <2>3 DEF TypeOK
    <3>2. QED
      BY <2>1, <2>3, <3>1, QuietNames
  <2>4. QED
    BY <1>0, <2>2, <2>3, EmitFresh, OnlyEmitCounts
<1>3. NamesFresh => \A s \in 1 .. born : Namesakes(s) = {}
  BY DEF NamesFresh, Namesakes
<1>4. QED
  BY <1>1, <1>2, <1>3, PTL DEF Spec

\* Then every live session is in the table, without exception.
THEOREM AliveSessionsFound ==
  ASSUME UsedOnce
  PROVE  Spec => [](\A s \in Ids : Live(s) => s \in table)
<1>1. Spec => [](\A s \in 1 .. born : Namesakes(s) = {})
  BY NoNamesakes
<1>2. PlaceInv /\ (\A s \in 1 .. born : Namesakes(s) = {})
        => \A s \in Ids : Live(s) => s \in table
  <2> SUFFICES ASSUME PlaceInv, \A s \in 1 .. born : Namesakes(s) = {}, NEW s \in Ids, Live(s)
               PROVE  s \in table
    OBVIOUS
  <2>1. s \in 1 .. born
    BY ActiveIsBorn DEF Live
  <2>2. ~EndedTwiceBefore(s)
    <3>1. \A t \in endedTwice : t \in 1 .. born /\ t # s
      BY <2>1 DEF PlaceInv
    <3>2. QED
      BY <2>1, <3>1 DEF EndedTwiceBefore, Namesakes
  <2>3. QED
    BY <2>1, <2>2 DEF PlaceInv, Accounted
<1>3. QED
  BY <1>1, <1>2, SessionsAccounted, PTL

=============================================================================
