---------------------------- MODULE Registry_proofs ----------------------------
(* Proofs about Registry, for any tasks, requests and bounds.               *)
EXTENDS Registry, TLAPS, SequenceTheorems, WellFoundedInduction

-----------------------------------------------------------------------------
(* Lookups and lists.                                                      *)

LEMMA LeastNumber ==
  ASSUME NEW S \in SUBSET Nat, S # {}
  PROVE  \E x \in S : \A y \in S : x <= y
<1>1. \E x \in S : \A y \in S : ~(<<y, x>> \in OpToRel(<, Nat))
  BY NatLessThanWellFounded, WFMin
<1>2. \A x, y \in S : ~(<<y, x>> \in OpToRel(<, Nat)) => x <= y
  BY DEF OpToRel
<1>3. QED
  BY <1>1, <1>2

\* find() returns an object of the name that is asked for, if there is any.
LEMMA TheIsNamed ==
  ASSUME TypeOK, NEW k, NEW n, Defined(k, n)
  PROVE  /\ The(k, n) \in listed /\ The(k, n) \in Ids /\ The(k, n) \in 1 .. made
         /\ obj[The(k, n)].kind = k /\ obj[The(k, n)].name = n
<1>0. made \in Nat /\ made <= MaxObjects /\ listed \subseteq 1 .. made
  BY RegistryAssumption DEF TypeOK
<1>1. Named(k, n) \in SUBSET Nat /\ Named(k, n) # {}
  <2>1. Named(k, n) \subseteq 1 .. made
    BY <1>0 DEF Named
  <2>2. QED
    BY <1>0, <2>1 DEF Defined
<1>2. \E i \in Named(k, n) : \A j \in Named(k, n) : i <= j
  BY <1>1, LeastNumber
<1>3. The(k, n) \in Named(k, n)
  BY <1>2 DEF The
<1>4. 1 .. made \subseteq Ids
  BY <1>0, RegistryAssumption DEF Ids
<1>5. QED
  BY <1>0, <1>3, <1>4 DEF Named

LEMMA ElementsOf ==
  ASSUME NEW S, NEW s \in Seq(S)
  PROVE  /\ Elements(s) \subseteq S
         /\ \A x : x \in Elements(s) <=> \E p \in 1 .. Len(s) : s[p] = x
BY ElementOfSeq DEF Elements

LEMMA JoinedElements ==
  ASSUME NEW S, NEW s \in Seq(S), NEW r \in Seq(S)
  PROVE  Elements(s \o r) = Elements(s) \union Elements(r)
<1>1. PICK m : m = s \o r
  OBVIOUS
<1>2. m \in Seq(S)
  BY <1>1, ConcatProperties
<1>3. Range(s) = Elements(s) /\ Range(r) = Elements(r) /\ Range(m) = Elements(m)
  BY <1>2, RangeEquality DEF Elements
<1>4. Range(m) = Range(s) \union Range(r)
  BY <1>1, RangeConcatenation
<1>5. QED
  BY <1>1, <1>3, <1>4

\* findIndex() finds the first n.
LEMMA FirstIsThere ==
  ASSUME NEW S, NEW s \in Seq(S), NEW n \in Elements(s)
  PROVE  /\ First(s, n) \in 1 .. Len(s) /\ s[First(s, n)] = n
         /\ \A q \in 1 .. Len(s) : s[q] = n => First(s, n) <= q
<1> DEFINE P == {q \in 1 .. Len(s) : s[q] = n}
<1>1. Len(s) \in Nat
  BY LenProperties
<1>2. P \in SUBSET Nat /\ P # {}
  BY <1>1, ElementsOf
<1>3. PICK p \in P : \A q \in P : p <= q
  BY <1>2, LeastNumber
<1>4. \E i \in 1 .. Len(s) : s[i] = n /\ \A q \in 1 .. Len(s) : s[q] = n => i <= q
  BY <1>3
<1>5. QED
  BY <1>4 DEF First

\* splice() takes one element out of the list.
LEMMA Removed ==
  ASSUME NEW S, NEW s \in Seq(S), NEW pos \in Nat
  PROVE  /\ RemoveAt(s, pos) \in Seq(S)
         /\ pos < Len(s) =>
              /\ Len(RemoveAt(s, pos)) = Len(s) - 1
              /\ \A i \in 1 .. Len(s) - 1 :
                   RemoveAt(s, pos)[i] = IF i <= pos THEN s[i] ELSE s[i + 1]
<1>1. Len(s) \in Nat
  BY LenProperties
<1>2. CASE ~(pos < Len(s))
  BY <1>2 DEF RemoveAt
<1>3. CASE pos < Len(s)
  <2>1. PICK l, r : l = SubSeq(s, 1, pos) /\ r = SubSeq(s, pos + 2, Len(s))
    OBVIOUS
  <2>2. RemoveAt(s, pos) = l \o r
    BY <1>3, <2>1 DEF RemoveAt
  <2>3. \A i \in 1 .. pos : s[i] \in S
    BY <1>1, <1>3, ElementOfSeq
  <2>4. l \in Seq(S) /\ Len(l) = pos /\ \A i \in 1 .. pos : l[i] = s[i]
    <3>1. 1 \in Int /\ pos \in Int
      OBVIOUS
    <3>2. /\ l \in Seq(S) /\ Len(l) = IF 1 <= pos THEN pos - 1 + 1 ELSE 0
          /\ \A i \in 1 .. pos - 1 + 1 : l[i] = s[1 + i - 1]
      BY <2>1, <2>3, <3>1, SubSeqProperties
    <3>3. \A i \in 1 .. pos : i \in 1 .. pos - 1 + 1 /\ 1 + i - 1 = i
      OBVIOUS
    <3>4. (IF 1 <= pos THEN pos - 1 + 1 ELSE 0) = pos
      OBVIOUS
    <3>5. QED
      BY <3>2, <3>3, <3>4
  <2>5. \A i \in pos + 2 .. Len(s) : s[i] \in S
    BY <1>1, ElementOfSeq
  <2>6. /\ r \in Seq(S) /\ Len(r) = Len(s) - pos - 1
        /\ \A i \in 1 .. Len(s) - pos - 1 : r[i] = s[pos + 1 + i]
    <3>1. pos + 2 \in Int /\ Len(s) \in Int
      BY <1>1
    <3>2. PICK n : n = Len(s)
      OBVIOUS
    <3>3. /\ r \in Seq(S) /\ Len(r) = IF pos + 2 <= n THEN n - (pos + 2) + 1 ELSE 0
          /\ \A i \in 1 .. n - (pos + 2) + 1 : r[i] = s[(pos + 2) + i - 1]
      BY <2>1, <2>5, <3>1, <3>2, SubSeqProperties
    <3>4. n \in Nat /\ pos < n
      BY <1>1, <1>3, <3>2
    <3>5. \A i \in 1 .. n - pos - 1 :
            i \in 1 .. n - (pos + 2) + 1 /\ (pos + 2) + i - 1 = pos + 1 + i
      BY <3>4
    <3>6. (IF pos + 2 <= n THEN n - (pos + 2) + 1 ELSE 0) = n - pos - 1
      BY <3>4
    <3>7. QED
      BY <3>2, <3>3, <3>5, <3>6
  <2>7. /\ l \o r \in Seq(S) /\ Len(l \o r) = Len(l) + Len(r)
        /\ \A i \in 1 .. Len(l) + Len(r) :
             (l \o r)[i] = IF i <= Len(l) THEN l[i] ELSE r[i - Len(l)]
    BY <2>4, <2>6, ConcatProperties
  <2>8. PICK m : m = l \o r
    OBVIOUS
  <2>9. Len(m) = Len(s) - 1
    <3>1. Len(m) = Len(l) + Len(r)
      BY <2>7, <2>8
    <3>2. Len(l) = pos /\ Len(r) = Len(s) - pos - 1
      BY <2>4, <2>6
    <3>3. QED
      BY <1>1, <3>1, <3>2
  <2>10. ASSUME NEW i \in 1 .. Len(s) - 1 PROVE m[i] = IF i <= pos THEN s[i] ELSE s[i + 1]
    <3>1. m[i] = IF i <= pos THEN l[i] ELSE r[i - pos]
      BY <1>1, <1>3, <2>4, <2>6, <2>7, <2>8
    <3>2. CASE i <= pos
      BY <1>1, <2>4, <3>1, <3>2
    <3>3. CASE ~(i <= pos)
      <4>1. i - pos \in 1 .. Len(s) - pos - 1 /\ pos + 1 + (i - pos) = i + 1
        BY <1>1, <3>3
      <4>2. QED
        BY <2>6, <3>1, <3>3, <4>1
    <3>4. QED
      BY <3>2, <3>3
  <2>11. QED
    BY <2>2, <2>7, <2>8, <2>9, <2>10
<1>4. QED
  BY <1>2, <1>3

\* What is left without n; an n that was there once is gone.
LEMMA WithoutElement ==
  ASSUME NEW S, NEW s \in Seq(S), NEW n
  PROVE  /\ Without(s, n) \in Seq(S)
         /\ Elements(Without(s, n)) \subseteq Elements(s)
         /\ Elements(s) \ {n} \subseteq Elements(Without(s, n))
<1>0. Len(s) \in Nat
  BY LenProperties
<1>1. CASE n \notin Elements(s)
  BY <1>1 DEF Without
<1>2. CASE n \in Elements(s)
  <2>1. PICK f \in 1 .. Len(s) : f = First(s, n) /\ s[f] = n
    BY <1>2, FirstIsThere
  <2>2. PICK w : w = RemoveAt(s, f - 1)
    OBVIOUS
  <2>3. Without(s, n) = w
    BY <1>2, <2>1, <2>2 DEF Without
  <2>4. f - 1 \in Nat /\ f - 1 < Len(s)
    BY <1>0
  <2>5. /\ w \in Seq(S) /\ Len(w) = Len(s) - 1
        /\ \A i \in 1 .. Len(s) - 1 : w[i] = IF i <= f - 1 THEN s[i] ELSE s[i + 1]
    BY <2>2, <2>4, Removed
  <2>6. ASSUME NEW i \in 1 .. Len(w) PROVE w[i] \in Elements(s)
    <3>1. i \in 1 .. Len(s) /\ i + 1 \in 1 .. Len(s)
      BY <1>0, <2>5
    <3>2. w[i] = s[i] \/ w[i] = s[i + 1]
      BY <1>0, <2>5
    <3>3. QED
      BY <3>1, <3>2, ElementsOf
  <2>7. ASSUME NEW q \in 1 .. Len(s), s[q] # n PROVE s[q] \in Elements(w)
    <3>1. q # f
      BY <2>1, <2>7
    <3>2. CASE q < f
      <4>1. q \in 1 .. Len(s) - 1 /\ q <= f - 1
        BY <1>0, <3>2
      <4>2. q \in 1 .. Len(w) /\ w[q] = s[q]
        BY <2>5, <4>1
      <4>3. QED
        BY <2>5, <4>2, ElementsOf
    <3>3. CASE q > f
      <4>1. q - 1 \in 1 .. Len(s) - 1 /\ ~(q - 1 <= f - 1) /\ (q - 1) + 1 = q
        BY <1>0, <3>3
      <4>2. q - 1 \in 1 .. Len(w) /\ w[q - 1] = s[q]
        BY <2>5, <4>1
      <4>3. QED
        BY <2>5, <4>2, ElementsOf
    <3>4. QED
      BY <1>0, <3>1, <3>2, <3>3
  <2>8. Elements(w) \subseteq Elements(s)
    BY <2>5, <2>6, ElementsOf
  <2>9. Elements(s) \ {n} \subseteq Elements(w)
    BY <2>7, ElementsOf
  <2>10. QED
    BY <2>3, <2>5, <2>8, <2>9
<1>3. QED
  BY <1>1, <1>2

\* No element of the list is there twice.
Distinct(s) == \A p, q \in 1 .. Len(s) : s[p] = s[q] => p = q

LEMMA WithoutDistinct ==
  ASSUME NEW S, NEW s \in Seq(S), NEW n, Distinct(s)
  PROVE  /\ Distinct(Without(s, n))
         /\ n \notin Elements(Without(s, n))
<1>0. Len(s) \in Nat
  BY LenProperties
<1>1. CASE n \notin Elements(s)
  BY <1>1 DEF Without
<1>2. CASE n \in Elements(s)
  <2>1. PICK f \in 1 .. Len(s) : f = First(s, n) /\ s[f] = n
    BY <1>2, FirstIsThere
  <2>2. PICK w : w = RemoveAt(s, f - 1)
    OBVIOUS
  <2>3. Without(s, n) = w
    BY <1>2, <2>1, <2>2 DEF Without
  <2>4. f - 1 \in Nat /\ f - 1 < Len(s)
    BY <1>0
  <2>5. /\ w \in Seq(S) /\ Len(w) = Len(s) - 1
        /\ \A i \in 1 .. Len(s) - 1 : w[i] = IF i <= f - 1 THEN s[i] ELSE s[i + 1]
    BY <2>2, <2>4, Removed
  <2>6. ASSUME NEW i \in 1 .. Len(w)
        PROVE  \E j \in 1 .. Len(s) : w[i] = s[j] /\ j = (IF i <= f - 1 THEN i ELSE i + 1)
    <3>1. i \in 1 .. Len(s) - 1 /\ i \in 1 .. Len(s) /\ i + 1 \in 1 .. Len(s)
      BY <1>0, <2>5
    <3>2. QED
      BY <2>5, <3>1
  <2>7. ASSUME NEW p \in 1 .. Len(w), NEW q \in 1 .. Len(w), w[p] = w[q] PROVE p = q
    <3>1. PICK i \in 1 .. Len(s) : w[p] = s[i] /\ i = (IF p <= f - 1 THEN p ELSE p + 1)
      BY <2>6
    <3>2. PICK j \in 1 .. Len(s) : w[q] = s[j] /\ j = (IF q <= f - 1 THEN q ELSE q + 1)
      BY <2>6
    <3>3. i = j
      BY <2>7, <3>1, <3>2 DEF Distinct
    <3>4. QED
      BY <1>0, <2>5, <3>1, <3>2, <3>3
  <2>8. n \notin Elements(w)
    <3>1. SUFFICES ASSUME NEW i \in 1 .. Len(w), w[i] = n PROVE FALSE
      BY <2>5, ElementsOf
    <3>2. PICK j \in 1 .. Len(s) : w[i] = s[j] /\ j = (IF i <= f - 1 THEN i ELSE i + 1)
      BY <2>6
    <3>3. j = f
      BY <2>1, <3>1, <3>2 DEF Distinct
    <3>4. QED
      BY <1>0, <2>5, <3>2, <3>3
  <2>9. QED
    BY <2>3, <2>7, <2>8 DEF Distinct
<1>3. QED
  BY <1>1, <1>2

\* Taking out the first element leaves the rest.
LEMMA WithoutHead ==
  ASSUME NEW S, NEW s \in Seq(S), s # <<>>
  PROVE  Without(s, Head(s)) = Tail(s)
<1>1. Len(s) \in Nat \ {0} /\ Head(s) = s[1]
  BY EmptySeq
<1>2. Head(s) \in Elements(s)
  BY <1>1, ElementsOf
<1>3. First(s, Head(s)) = 1
  <2>1. PICK f \in 1 .. Len(s) :
          f = First(s, Head(s)) /\ \A q \in 1 .. Len(s) : s[q] = Head(s) => f <= q
    BY <1>2, FirstIsThere
  <2>2. f <= 1
    BY <1>1, <2>1
  <2>3. QED
    BY <2>1, <2>2
<1>4. SubSeq(s, 1, 0) = <<>> /\ Tail(s) = SubSeq(s, 2, Len(s))
  BY SubSeqEmpty, TailIsSubSeq
<1>5. Tail(s) \in Seq(S)
  BY HeadTailProperties
<1>6. <<>> \o Tail(s) = Tail(s)
  BY <1>5, ConcatEmptySeq
<1>7. RemoveAt(s, 0) = SubSeq(s, 1, 0) \o SubSeq(s, 2, Len(s))
  BY <1>1 DEF RemoveAt
<1>8. QED
  BY <1>2, <1>3, <1>4, <1>6, <1>7 DEF Without

LEMMA Inserted ==
  ASSUME NEW S, NEW s \in Seq(S), NEW pos \in Nat, NEW n \in S
  PROVE  /\ Insert(s, pos, n) \in Seq(S)
         /\ Elements(s) \union {n} \subseteq Elements(Insert(s, pos, n))
<1>0. Len(s) \in Nat
  BY LenProperties
<1>1. CASE pos > Len(s)
  <2>1. PICK w : w = Append(s, n)
    OBVIOUS
  <2>2. /\ w \in Seq(S) /\ Len(w) = Len(s) + 1 /\ w[Len(s) + 1] = n
        /\ \A i \in 1 .. Len(s) : w[i] = s[i]
    BY <2>1, AppendProperties
  <2>3. n \in Elements(w)
    <3>1. Len(s) + 1 \in 1 .. Len(w)
      BY <1>0, <2>2
    <3>2. QED
      BY <2>2, <3>1, ElementsOf
  <2>4. ASSUME NEW i \in 1 .. Len(s) PROVE s[i] \in Elements(w)
    <3>1. i \in 1 .. Len(w) /\ w[i] = s[i]
      BY <1>0, <2>2
    <3>2. QED
      BY <2>2, <3>1, ElementsOf
  <2>5. Elements(s) \subseteq Elements(w)
    BY <2>4, ElementsOf
  <2>6. QED
    BY <1>1, <2>1, <2>2, <2>3, <2>5 DEF Insert
<1>2. CASE ~(pos > Len(s))
  <2>1. PICK l, r : l = SubSeq(s, 1, pos) /\ r = SubSeq(s, pos + 1, Len(s))
    OBVIOUS
  <2>2. Insert(s, pos, n) = (l \o <<n>>) \o r
    BY <1>2, <2>1 DEF Insert
  <2>3. l \in Seq(S) /\ r \in Seq(S) /\ l \o r = s
    <3>1. /\ 1 \in Int /\ pos \in Int /\ pos + 1 \in Int /\ Len(s) \in Int
          /\ \A i \in 1 .. pos : s[i] \in S
          /\ \A i \in pos + 1 .. Len(s) : s[i] \in S
      BY <1>0, <1>2, ElementOfSeq
    <3>2. l \in Seq(S) /\ r \in Seq(S)
      BY <2>1, <3>1, SubSeqProperties
    <3>3. 1 \in 1 .. Len(s) + 1 /\ pos \in 1 - 1 .. Len(s) /\ Len(s) \in pos .. Len(s)
      BY <1>0, <1>2
    <3>4. SubSeq(s, 1, pos) \o SubSeq(s, pos + 1, Len(s)) = SubSeq(s, 1, Len(s))
      BY <3>3, ConcatAdjacentSubSeq
    <3>5. QED
      BY <2>1, <3>2, <3>4, SubSeqFull
  <2>4. <<n>> \in Seq(S) /\ Elements(<<n>>) = {n}
    BY DEF Elements
  <2>5. l \o <<n>> \in Seq(S)
    BY <2>3, <2>4, ConcatProperties
  <2>6. (l \o <<n>>) \o r \in Seq(S)
    BY <2>3, <2>5, ConcatProperties
  <2>7. Elements(s) = Elements(l) \union Elements(r)
    BY <2>3, JoinedElements
  <2>8. Elements((l \o <<n>>) \o r) = (Elements(l) \union {n}) \union Elements(r)
    <3>0. PICK k : k = <<n>>
      OBVIOUS
    <3>1. PICK m : m = l \o k
      OBVIOUS
    <3>2. Elements(m) = Elements(l) \union {n}
      <4>1. k \in Seq(S) /\ Elements(k) = {n}
        BY <2>4, <3>0
      <4>2. Elements(l \o k) = Elements(l) \union Elements(k)
        BY <2>3, <4>1, JoinedElements
      <4>3. QED
        BY <3>1, <4>1, <4>2
    <3>3. Elements(m \o r) = Elements(m) \union Elements(r)
      <4>1. m \in Seq(S)
        BY <2>5, <3>0, <3>1
      <4>2. r \in Seq(S)
        BY <2>3
      <4>3. QED
        BY <4>1, <4>2, JoinedElements
    <3>4. QED
      BY <3>0, <3>1, <3>2, <3>3
  <2>9. QED
    BY <2>2, <2>6, <2>7, <2>8
<1>3. QED
  BY <1>1, <1>2
-----------------------------------------------------------------------------
(* Frames and stacks.                                                      *)

Targets == {"deleteListener", "deleteRuleList", "deleteRule", "deleteRoute", "deleteCluster",
            "deleteEndPoint"}

\* What a frame holds besides the name of what is left to do.
LEMMA AdditionFrames ==
  ASSUME NEW f \in Frames
  PROVE  /\ f.do \in {"addListener", "addRuleList", "addRule", "addRoute", "addCluster"} =>
              f.item \in Item /\ f.auto \in BOOLEAN
         /\ f.do = "addListener" => f.item.parts # <<>>
         /\ f.do = "addRuleToRuleList" => f.name \in Int /\ f.item \in Item /\ f.pos \in Nat
         /\ f.do = "addEndPoint" => f.cluster \in Int /\ f.name \in Int
         /\ f.do = "pushListener" => f.name \in Int /\ f.rules \in Int
         /\ f.do \in {"runListener", "runCluster"} => f.id \in Ids
         /\ f.do = "fillRuleList" => f.id \in Ids /\ f.rest \in Seq(Items) /\ f.pos \in Nat
         /\ f.do = "addRuleTo" => f.id \in Ids /\ f.item \in Item /\ f.pos \in Nat
         /\ f.do = "insertRule" => f.id \in Ids /\ f.name \in Int /\ f.pos \in Nat
         /\ f.do = "bindRoute" => f.id \in Ids /\ f.name \in Int
         /\ f.do = "fillRoute" =>
              f.name \in Int /\ f.auto \in BOOLEAN /\ f.done \in Seq(Int) /\ f.rest \in Seq(Items)
         /\ f.do = "fillCluster" => f.id \in Ids /\ f.rest \in Seq(Items)
BY DEF Frames, Asked

LEMMA DeletionFrames ==
  ASSUME NEW f \in Frames
  PROVE  /\ f.do \in Targets => f.name \in Int /\ f.rec \in BOOLEAN
         /\ f.do = "deleteRuleFromRuleList" => f.name \in Int /\ f.pos \in Nat /\ f.rec \in BOOLEAN
         /\ f.do = "removeRule" => f.id \in Ids /\ f.pos \in Nat /\ f.rec \in BOOLEAN
         /\ f.do = "unlist" => f.id \in Ids /\ f.rec \in BOOLEAN
         /\ f.do \in {"rulesOf", "clustersOf"} => f.id \in Ids /\ f.rest \in Seq(Int)
         /\ f.do = "endpointsOf" => f.id \in Ids /\ f.rest \in Seq(Int) /\ f.rec \in BOOLEAN
BY DEF Frames, Asked, Targets

\* The loops: what is left after one turn.
LEMMA NextFrames ==
  ASSUME NEW f \in Frames, f.do \in {"rulesOf", "clustersOf", "endpointsOf"}, f.rest # <<>>
  PROVE  LET g == [f EXCEPT !.rest = Tail(@)] IN
         /\ g \in Frames /\ g.do = f.do /\ g.id = f.id /\ g.rest = Tail(f.rest)
         /\ Head(f.rest) \in Int
<1>1. f.rest \in Seq(Int)
  BY DeletionFrames
<1>2. Tail(f.rest) \in Seq(Int) /\ Head(f.rest) \in Int
  BY <1>1, HeadTailProperties
<1>3. CASE f.do = "endpointsOf"
  <2>1. f \in [do : {"endpointsOf"}, id : Ids, rest : Seq(Int), rec : BOOLEAN]
    BY <1>3 DEF Frames, Asked
  <2>2. [f EXCEPT !.rest = Tail(@)] \in
          [do : {"endpointsOf"}, id : Ids, rest : Seq(Int), rec : BOOLEAN]
    BY <1>2, <2>1
  <2>3. QED
    BY <1>2, <2>1, <2>2 DEF Frames
<1>4. CASE f.do # "endpointsOf"
  <2>1. f \in [do : {"rulesOf", "clustersOf"}, id : Ids, rest : Seq(Int)]
    BY <1>4 DEF Frames, Asked
  <2>2. [f EXCEPT !.rest = Tail(@)] \in
          [do : {"rulesOf", "clustersOf"}, id : Ids, rest : Seq(Int)]
    BY <1>2, <2>1
  <2>3. QED
    BY <1>2, <2>1, <2>2 DEF Frames
<1>5. QED
  BY <1>3, <1>4

LEMMA NextFillings ==
  ASSUME NEW f \in Frames, f.do \in {"fillRuleList", "fillRoute", "fillCluster"}, f.rest # <<>>
  PROVE  /\ Head(f.rest) \in Item /\ Tail(f.rest) \in Seq(Items)
         /\ f.do = "fillCluster" =>
              LET g == [f EXCEPT !.rest = Tail(@)] IN
              g \in Frames /\ g.do = f.do /\ g.id = f.id
         /\ f.do = "fillRuleList" =>
              LET g == [f EXCEPT !.rest = Tail(@), !.pos = @ + 1] IN
              g \in Frames /\ g.do = f.do /\ g.id = f.id
         /\ f.do = "fillRoute" => \A n \in Int :
              LET g == [f EXCEPT !.done = Append(@, n), !.rest = Tail(@)] IN
              g \in Frames /\ g.do = f.do /\ g.name = f.name /\ g.done = Append(f.done, n)
<1>1. f.rest \in Seq(Items)
  BY AdditionFrames
<1>2. Tail(f.rest) \in Seq(Items) /\ Head(f.rest) \in Item
  BY <1>1, HeadTailProperties, RegistryAssumption
<1>3. CASE f.do = "fillCluster"
  BY <1>2, <1>3 DEF Frames, Asked
<1>4. CASE f.do = "fillRuleList"
  <2>1. f \in [do : {"fillRuleList"}, id : Ids, rest : Seq(Items), pos : Nat]
    BY <1>4 DEF Frames, Asked
  <2>2. [f EXCEPT !.rest = Tail(@), !.pos = @ + 1] \in
          [do : {"fillRuleList"}, id : Ids, rest : Seq(Items), pos : Nat]
    <3>1. PICK p \in Nat : p = f.pos + 1
      BY <2>1
    <3>2. [f EXCEPT !.rest = Tail(@), !.pos = p] \in
            [do : {"fillRuleList"}, id : Ids, rest : Seq(Items), pos : Nat]
      BY <1>2, <2>1
    <3>3. QED
      BY <3>1, <3>2
  <2>3. LET g == [f EXCEPT !.rest = Tail(@), !.pos = @ + 1] IN
        g \in Frames /\ g.do = f.do /\ g.id = f.id
    BY <2>1, <2>2 DEF Frames
  <2>4. QED
    BY <1>2, <1>4, <2>3
<1>5. CASE f.do = "fillRoute"
  <2>1. \A n \in Int : Append(f.done, n) \in Seq(Int)
    BY <1>5, AdditionFrames, AppendProperties
  <2>2. f \in [do : {"fillRoute"}, name : Int, auto : BOOLEAN, done : Seq(Int), rest : Seq(Items)]
    BY <1>5 DEF Frames, Asked
  <2>3. ASSUME NEW n \in Int
        PROVE  [f EXCEPT !.done = Append(@, n), !.rest = Tail(@)] \in
                 [do : {"fillRoute"}, name : Int, auto : BOOLEAN, done : Seq(Int), rest : Seq(Items)]
    BY <1>2, <2>1, <2>2
  <2>4. ASSUME NEW n \in Int
        PROVE  LET g == [f EXCEPT !.done = Append(@, n), !.rest = Tail(@)] IN
               g \in Frames /\ g.do = f.do /\ g.name = f.name /\ g.done = Append(f.done, n)
    BY <2>2, <2>3 DEF Frames
  <2>5. QED
    BY <1>2, <1>5, <2>4
<1>6. QED
  BY <1>3, <1>4, <1>5

LEMMA NewFrames ==
  /\ \A d \in Targets : \A n \in Int : \A r \in BOOLEAN : [do |-> d, name |-> n, rec |-> r] \in Frames
  /\ \A d \in {"addRuleList", "addRule", "addRoute", "addCluster"} :
       \A x \in Item : [do |-> d, item |-> x, auto |-> TRUE] \in Frames
  /\ \A n, l \in Int : [do |-> "pushListener", name |-> n, rules |-> l] \in Frames
  /\ \A i \in Ids : /\ [do |-> "runListener", id |-> i] \in Frames
                    /\ [do |-> "runCluster", id |-> i] \in Frames
                    /\ \A r \in BOOLEAN : [do |-> "unlist", id |-> i, rec |-> r] \in Frames
  /\ \A i \in Ids : \A xs \in Seq(Items) :
       /\ [do |-> "fillRuleList", id |-> i, rest |-> xs, pos |-> 0] \in Frames
       /\ [do |-> "fillCluster", id |-> i, rest |-> xs] \in Frames
  /\ \A n \in Int : \A a \in BOOLEAN : \A xs \in Seq(Items) :
       [do |-> "fillRoute", name |-> n, auto |-> a, done |-> <<>>, rest |-> xs] \in Frames
  /\ \A i \in Ids : \A n \in Int :
       /\ [do |-> "bindRoute", id |-> i, name |-> n] \in Frames
       /\ \A p \in Nat : [do |-> "insertRule", id |-> i, name |-> n, pos |-> p] \in Frames
  /\ \A i \in Ids : \A p \in Nat :
       /\ \A x \in Item : [do |-> "addRuleTo", id |-> i, item |-> x, pos |-> p] \in Frames
       /\ \A r \in BOOLEAN : [do |-> "removeRule", id |-> i, pos |-> p, rec |-> r] \in Frames
  /\ \A i \in Ids : \A s \in Seq(Int) :
       /\ [do |-> "rulesOf", id |-> i, rest |-> s] \in Frames
       /\ [do |-> "clustersOf", id |-> i, rest |-> s] \in Frames
       /\ \A r \in BOOLEAN : [do |-> "endpointsOf", id |-> i, rest |-> s, rec |-> r] \in Frames
  /\ [do |-> "fail"] \in Frames
<1>1. \A d \in Targets : \A n \in Int : \A r \in BOOLEAN : [do |-> d, name |-> n, rec |-> r] \in Frames
  BY DEF Frames, Asked, Targets
<1>2. \A d \in {"addRuleList", "addRule", "addRoute", "addCluster"} :
        \A x \in Item : [do |-> d, item |-> x, auto |-> TRUE] \in Frames
  BY DEF Frames, Asked, Targets
<1>3. \A n, l \in Int : [do |-> "pushListener", name |-> n, rules |-> l] \in Frames
  BY DEF Frames, Asked, Targets
<1>4. \A i \in Ids : /\ [do |-> "runListener", id |-> i] \in Frames
                     /\ [do |-> "runCluster", id |-> i] \in Frames
                     /\ \A r \in BOOLEAN : [do |-> "unlist", id |-> i, rec |-> r] \in Frames
  BY DEF Frames, Asked, Targets
<1>5. \A i \in Ids : \A xs \in Seq(Items) :
        /\ [do |-> "fillRuleList", id |-> i, rest |-> xs, pos |-> 0] \in Frames
        /\ [do |-> "fillCluster", id |-> i, rest |-> xs] \in Frames
  BY DEF Frames, Asked, Targets
<1>6. \A n \in Int : \A a \in BOOLEAN : \A xs \in Seq(Items) :
        [do |-> "fillRoute", name |-> n, auto |-> a, done |-> <<>>, rest |-> xs] \in Frames
  <2>1. <<>> \in Seq(Int)
    BY EmptySeq
  <2>2. QED
    BY <2>1 DEF Frames, Asked
<1>7. \A i \in Ids : \A n \in Int :
        /\ [do |-> "bindRoute", id |-> i, name |-> n] \in Frames
        /\ \A p \in Nat : [do |-> "insertRule", id |-> i, name |-> n, pos |-> p] \in Frames
  BY DEF Frames, Asked, Targets
<1>8. \A i \in Ids : \A p \in Nat :
        /\ \A x \in Item : [do |-> "addRuleTo", id |-> i, item |-> x, pos |-> p] \in Frames
        /\ \A r \in BOOLEAN : [do |-> "removeRule", id |-> i, pos |-> p, rec |-> r] \in Frames
  BY DEF Frames, Asked, Targets
<1>9. \A i \in Ids : \A s \in Seq(Int) :
        /\ [do |-> "rulesOf", id |-> i, rest |-> s] \in Frames
        /\ [do |-> "clustersOf", id |-> i, rest |-> s] \in Frames
        /\ \A r \in BOOLEAN : [do |-> "endpointsOf", id |-> i, rest |-> s, rec |-> r] \in Frames
  BY DEF Frames, Asked, Targets
<1>10. [do |-> "fail"] \in Frames
  BY DEF Frames, Asked, Targets
<1>11. QED
  BY <1>1, <1>2, <1>3, <1>4, <1>5, <1>6, <1>7, <1>8, <1>9, <1>10

\* A task goes on with the frames in xs before the rest of its stack.
Moves(t, xs) == task' = [task EXCEPT ![t] = xs \o Tail(@)]

LEMMA StackMoves ==
  ASSUME TypeOK, NEW t \in Tasks, task[t] # <<>>, NEW S, NEW xs \in Seq(S), Moves(t, xs)
  PROVE  /\ \A u \in Tasks : u # t => task'[u] = task[u]
         /\ task'[t] = xs \o Tail(task[t])
         /\ Len(xs) \in Nat /\ Len(task[t]) \in Nat \ {0}
         /\ Len(task'[t]) = Len(xs) + Len(task[t]) - 1
         /\ \A p \in 1 .. Len(xs) : task'[t][p] = xs[p]
         /\ \A p \in Len(xs) + 1 .. Len(task'[t]) :
              /\ p - Len(xs) + 1 \in 2 .. Len(task[t])
              /\ task'[t][p] = task[t][p - Len(xs) + 1]
<1>1. task[t] \in Seq(Frames) /\ Len(task[t]) \in Nat \ {0}
  BY EmptySeq DEF TypeOK
<1>2. PICK r : r = Tail(task[t])
  OBVIOUS
<1>3. /\ r \in Seq(Frames) /\ Len(r) = Len(task[t]) - 1
      /\ \A i \in 1 .. Len(r) : r[i] = task[t][i + 1]
  BY <1>1, <1>2, HeadTailProperties
<1>4. PICK m : m = xs \o r
  OBVIOUS
<1>5. /\ Len(m) = Len(xs) + Len(r)
      /\ \A i \in 1 .. Len(xs) + Len(r) : m[i] = IF i <= Len(xs) THEN xs[i] ELSE r[i - Len(xs)]
  <2>1. r \in Seq(S \union Frames) /\ xs \in Seq(S \union Frames)
    BY <1>3
  <2>2. QED
    BY <1>4, <2>1, ConcatProperties
<1>6. task'[t] = m
  BY <1>2, <1>4, <1>5 DEF Moves, TypeOK
<1>7. \A u \in Tasks : u # t => task'[u] = task[u]
  BY DEF Moves, TypeOK
<1>8. Len(xs) \in Nat
  BY LenProperties
<1>9. \A p \in 1 .. Len(xs) : m[p] = xs[p]
  BY <1>1, <1>3, <1>5, <1>8
<1>10. ASSUME NEW p \in Len(xs) + 1 .. Len(m)
       PROVE  p - Len(xs) + 1 \in 2 .. Len(task[t]) /\ m[p] = task[t][p - Len(xs) + 1]
  <2>1. p \in 1 .. Len(xs) + Len(r) /\ ~(p <= Len(xs)) /\ p - Len(xs) \in 1 .. Len(r)
    BY <1>1, <1>3, <1>5, <1>8
  <2>2. m[p] = r[p - Len(xs)] /\ r[p - Len(xs)] = task[t][(p - Len(xs)) + 1]
    BY <1>3, <1>5, <2>1
  <2>3. (p - Len(xs)) + 1 = p - Len(xs) + 1 /\ p - Len(xs) + 1 \in 2 .. Len(task[t])
    BY <1>1, <1>3, <1>8, <2>1
  <2>4. QED
    BY <2>2, <2>3
<1>11. Len(m) = Len(xs) + Len(task[t]) - 1
  BY <1>1, <1>3, <1>5, <1>8
<1>12. QED
  BY <1>1, <1>2, <1>4, <1>6, <1>7, <1>8, <1>9, <1>10, <1>11

LEMMA StackShape ==
  ASSUME TypeOK, NEW t \in Tasks, task[t] # <<>>, NEW xs \in Seq(Frames), Moves(t, xs)
  PROVE  /\ task' \in [Tasks -> Seq(Frames)]
         /\ \A u \in Tasks : u # t => task'[u] = task[u]
         /\ task'[t] = xs \o Tail(task[t])
         /\ Len(xs) \in Nat /\ Len(task[t]) \in Nat \ {0}
         /\ Len(task'[t]) = Len(xs) + Len(task[t]) - 1
         /\ \A p \in 1 .. Len(xs) : task'[t][p] = xs[p]
         /\ \A p \in Len(xs) + 1 .. Len(task'[t]) :
              /\ p - Len(xs) + 1 \in 2 .. Len(task[t])
              /\ task'[t][p] = task[t][p - Len(xs) + 1]
<1>1. task[t] \in Seq(Frames)
  BY DEF TypeOK
<1>2. xs \o Tail(task[t]) \in Seq(Frames)
  BY <1>1, HeadTailProperties, ConcatProperties
<1>3. task' \in [Tasks -> Seq(Frames)]
  BY <1>2 DEF Moves, TypeOK
<1>4. QED
  BY <1>3, StackMoves
-----------------------------------------------------------------------------
(* Type correctness.                                                       *)

DataType ==
  /\ made \in 0 .. MaxObjects /\ gen \in Nat
  /\ obj \in [Ids -> Objects]
  /\ listed \subseteq 1 .. made
  /\ \A i \in Ids : obj[i].kind = "none" <=> i > made
  /\ raced \subseteq {"listener", "route"} \X Int

ControlType ==
  /\ task \in [Tasks -> Seq(Frames)]
  /\ turn \in Tasks \union {NoTask} /\ up \in BOOLEAN
  /\ calls \in 0 .. MaxCalls
  /\ strays \subseteq Ids

\* Objects keep their kind, their name and whether they are autogenerated.
Kept ==
  \A i \in 1 .. made : /\ i \in 1 .. made' /\ obj'[i].kind = obj[i].kind
                       /\ obj'[i].name = obj[i].name /\ obj'[i].auto = obj[i].auto

LEMMA TypeParts ==
  /\ TypeOK <=> DataType /\ ControlType /\ faults \in 0 .. MaxFaults
  /\ TypeOK' <=> DataType' /\ ControlType' /\ faults' \in 0 .. MaxFaults
BY DEF TypeOK, DataType, ControlType

LEMMA MadeAreIds ==
  /\ DataType => made \in Nat /\ made <= MaxObjects /\ 1 .. made \subseteq Ids /\ listed \subseteq Ids
  /\ DataType' => listed' \subseteq Ids
<1>1. ASSUME NEW n \in 0 .. MaxObjects
      PROVE  n \in Nat /\ n <= MaxObjects /\ 1 .. n \subseteq Ids
  BY RegistryAssumption DEF Ids
<1>2. QED
  BY <1>1 DEF DataType

\* The frame that runs is the first of its stack.
LEMMA Running ==
  ASSUME TypeOK, NEW t \in Tasks, NEW what, Runs(t, what)
  PROVE  /\ Frame(t) \in Frames /\ Frame(t).do = what /\ Frame(t) = task[t][1]
         /\ task[t] \in Seq(Frames) /\ task[t] # <<>> /\ Len(task[t]) \in Nat \ {0}
         /\ Tail(task[t]) \in Seq(Frames)
         /\ up /\ turn \in {NoTask, t}
<1>1. task[t] \in Seq(Frames) /\ task[t] # <<>>
  BY DEF Runs, TypeOK
<1>2. Len(task[t]) \in Nat \ {0} /\ Head(task[t]) \in Frames /\ Tail(task[t]) \in Seq(Frames)
  BY <1>1, EmptySeq, HeadTailProperties
<1>3. QED
  BY <1>1, <1>2 DEF Runs, Frame

LEMMA ContinueType ==
  ASSUME TypeOK, NEW t \in Tasks, NEW what, Runs(t, what), NEW xs \in Seq(Frames), NEW next,
         next \in {NoTask, t}, Continue(t, xs, next), strays' \subseteq Ids
  PROVE  ControlType' /\ Moves(t, xs)
<1>1. Moves(t, xs) /\ turn' = next /\ UNCHANGED <<up, calls>>
  BY DEF Continue, Moves
<1>2. task[t] # <<>>
  BY Running
<1>3. task' \in [Tasks -> Seq(Frames)]
  BY <1>1, <1>2, StackShape
<1>4. QED
  BY <1>1, <1>3 DEF ControlType, TypeOK

LEMMA ProceedType ==
  ASSUME TypeOK, NEW t \in Tasks, NEW what, Runs(t, what), NEW xs \in Seq(Frames), Proceed(t, xs)
  PROVE  ControlType' /\ Moves(t, xs)
<1>1. Same(t, xs) \in {NoTask, t}
  BY DEF Same
<1>2. Continue(t, xs, Same(t, xs)) /\ strays' \subseteq Ids
  BY DEF Proceed, TypeOK
<1>3. QED
  BY <1>1, <1>2, ContinueType

LEMMA AwaitType ==
  ASSUME TypeOK, NEW t \in Tasks, NEW what, Runs(t, what), NEW xs \in Seq(Frames), Await(t, xs)
  PROVE  ControlType' /\ Moves(t, xs)
<1>1. Continue(t, xs, NoTask) /\ strays' \subseteq Ids
  BY DEF Await, TypeOK
<1>2. QED
  BY <1>1, ContinueType

LEMMA ThrowType ==
  ASSUME TypeOK, NEW t \in Tasks, Throw(t), DataType'
  PROVE  ControlType' /\ task'[t] = <<>> /\ \A u \in Tasks : u # t => task'[u] = task[u]
<1>1. Orphans' \subseteq Ids
  BY MadeAreIds DEF Orphans
<1>2. <<>> \in Seq(Frames)
  BY EmptySeq
<1>3. QED
  BY <1>1, <1>2 DEF Throw, LeavesStrays, ControlType, TypeOK

LEMMA CreateType ==
  ASSUME DataType, NEW k \in Kinds, NEW n \in Int, NEW auto \in BOOLEAN, NEW refs \in Seq(Int),
         Create(k, n, auto, refs), gen' \in Nat, raced' \subseteq {"listener", "route"} \X Int
  PROVE  DataType' /\ Kept /\ made + 1 \in Ids
<1>1. made + 1 \in Ids /\ made' = made + 1 /\ made' \in 0 .. MaxObjects
  BY RegistryAssumption DEF Create, DataType, Ids
<1>2. /\ obj'[made + 1] = [kind |-> k, name |-> n, auto |-> auto, refs |-> refs]
      /\ obj' \in [Ids -> Objects]
      /\ \A i \in Ids : i # made + 1 => obj'[i] = obj[i]
  BY <1>1 DEF Create, DataType, Objects
<1>3. \A i \in Ids : obj'[i].kind = "none" <=> i > made'
  <2>1. \A i \in Ids : i \in Int /\ (i > made + 1 <=> i > made /\ i # made + 1)
    BY <1>1 DEF Ids, DataType
  <2>2. k # "none"
    BY DEF Kinds
  <2>3. QED
    BY <1>1, <1>2, <2>1, <2>2 DEF DataType
<1>4. listed' \subseteq 1 .. made'
  BY <1>1 DEF Create, DataType
<1>5. Kept
  <2>1. \A i \in 1 .. made : i \in Ids /\ i # made + 1 /\ i \in 1 .. made'
    BY <1>1, MadeAreIds
  <2>2. QED
    BY <1>2, <2>1 DEF Kept
<1>6. QED
  BY <1>1, <1>2, <1>3, <1>4, <1>5 DEF DataType

LEMMA ReferType ==
  ASSUME DataType, NEW i \in Ids, NEW refs \in Seq(Int), Refer(i, refs),
         gen' = gen, raced' = raced
  PROVE  DataType' /\ Kept
<1>1. /\ obj' \in [Ids -> Objects] /\ obj'[i].refs = refs
      /\ \A j \in Ids : /\ obj'[j].kind = obj[j].kind /\ obj'[j].name = obj[j].name
                        /\ obj'[j].auto = obj[j].auto
  BY DEF Refer, DataType, Objects
<1>2. 1 .. made \subseteq Ids
  BY MadeAreIds
<1>3. QED
  BY <1>1, <1>2 DEF Refer, DataType, Kept

LEMMA ListedType ==
  ASSUME DataType, made' = made, obj' = obj, listed' \subseteq listed,
         gen' \in Nat, raced' \subseteq {"listener", "route"} \X Int
  PROVE  DataType' /\ Kept
BY DEF DataType, Kept
LEMMA NamedItem ==
  ASSUME NEW x \in Item, gen \in Nat
  PROVE  /\ WithName(x) \in Item /\ WithName(x).name \in Int
         /\ WithName(x).parts = x.parts /\ WithName(x).inline = x.inline
         /\ x.parts \in Seq(Items) /\ x.name \in Int /\ x.inline \in BOOLEAN
         /\ x.parts # <<>> => x.parts[1] \in Item
         /\ CountName(x) => gen' \in Nat
<1>1. PICK n \in Int : n = IF x.name # 0 THEN x.name ELSE -(gen + 1)
  BY DEF Item
<1>2. [x EXCEPT !.name = n] \in Item
  BY DEF Item
<1>3. WithName(x) = [x EXCEPT !.name = n]
  BY <1>1 DEF WithName
<1>4. x.parts \in Seq(Items)
  BY DEF Item
<1>5. x.parts # <<>> => x.parts[1] \in Item
  <2>1. SUFFICES ASSUME x.parts # <<>> PROVE x.parts[1] \in Item
    OBVIOUS
  <2>2. 1 \in 1 .. Len(x.parts)
    BY <1>4, <2>1, EmptySeq
  <2>3. QED
    BY <1>4, <2>2, ElementOfSeq, RegistryAssumption
<1>6. CountName(x) => gen' \in Nat
  BY DEF CountName
<1>7. QED
  BY <1>2, <1>3, <1>4, <1>5, <1>6 DEF Item

LEMMA OneFrame ==
  /\ <<>> \in Seq(Frames)
  /\ \A f \in Frames : <<f>> \in Seq(Frames)
  /\ \A f, g \in Frames : <<f, g>> \in Seq(Frames)
BY EmptySeq

LEMMA JoinType ==
  ASSUME DataType, NEW n \in Int, NEW c \in 1 .. made, JoinEndPoint(n, c),
         gen' \in Nat, raced' = raced
  PROVE  /\ DataType' /\ Kept
         /\ made + 1 \in Ids /\ made' = made + 1 /\ listed' = listed \union {made + 1}
         /\ obj'[made + 1] = [kind |-> "endpoint", name |-> n, auto |-> FALSE,
                              refs |-> <<obj[c].name>>]
         /\ obj'[c].refs = Append(obj[c].refs, n)
         /\ \A i \in 1 .. made : i # c => obj'[i] = obj[i]
<1>1. made + 1 \in Ids /\ made' = made + 1 /\ made' \in 0 .. MaxObjects
  BY RegistryAssumption DEF JoinEndPoint, DataType, Ids
<1>2. c \in Ids /\ c # made + 1 /\ \A i \in 1 .. made : i \in Ids /\ i # made + 1
  BY MadeAreIds
<1>3. obj[c] \in Objects /\ obj[c].name \in Int /\ obj[c].refs \in Seq(Int)
  BY <1>2 DEF DataType, Objects
<1>4. Append(obj[c].refs, n) \in Seq(Int)
  BY <1>3, AppendProperties
<1>5. PICK r, s : /\ r = [kind |-> "endpoint", name |-> n, auto |-> FALSE, refs |-> <<obj[c].name>>]
                  /\ s = Append(obj[c].refs, n)
  OBVIOUS
<1>6. r \in Objects
  BY <1>3, <1>5 DEF Objects, Kinds
<1>7. obj' = [obj EXCEPT ![made + 1] = r, ![c].refs = s]
  BY <1>2, <1>5 DEF JoinEndPoint, DataType
<1>8. [obj[c] EXCEPT !.refs = s] \in Objects
  BY <1>3, <1>4, <1>5 DEF Objects
<1>9. /\ obj' \in [Ids -> Objects] /\ obj'[made + 1] = r /\ obj'[c] = [obj[c] EXCEPT !.refs = s]
      /\ \A i \in Ids : i \notin {made + 1, c} => obj'[i] = obj[i]
  BY <1>1, <1>2, <1>6, <1>7, <1>8 DEF DataType
<1>10. /\ obj'[c].kind = obj[c].kind /\ obj'[c].name = obj[c].name /\ obj'[c].auto = obj[c].auto
       /\ obj'[c].refs = s
  BY <1>3, <1>9 DEF Objects
<1>11. \A i \in Ids : obj'[i].kind = "none" <=> i > made'
  <2>1. \A i \in Ids : i \in Int /\ (i > made + 1 <=> i > made /\ i # made + 1)
    BY MadeAreIds DEF Ids
  <2>2. r.kind = "endpoint"
    BY <1>5
  <2>3. QED
    BY <1>1, <1>9, <1>10, <2>1, <2>2 DEF DataType
<1>12. Kept
  <2>1. ASSUME NEW i \in 1 .. made
        PROVE  /\ i \in 1 .. made' /\ obj'[i].kind = obj[i].kind
               /\ obj'[i].name = obj[i].name /\ obj'[i].auto = obj[i].auto
    <3>1. i \in 1 .. made'
      BY <1>1, MadeAreIds
    <3>2. CASE i = c
      BY <1>10, <3>1, <3>2
    <3>3. CASE i # c
      <4>1. obj'[i] = obj[i]
        BY <1>2, <1>9, <3>3
      <4>2. QED
        BY <3>1, <4>1
    <3>4. QED
      BY <3>2, <3>3
  <2>2. QED
    BY <2>1 DEF Kept
<1>13. listed' = listed \union {made + 1} /\ listed' \subseteq 1 .. made'
  BY <1>1 DEF JoinEndPoint, DataType
<1>14. DataType'
  BY <1>1, <1>9, <1>11, <1>13 DEF DataType
<1>15. QED
  BY <1>1, <1>2, <1>5, <1>9, <1>10, <1>12, <1>13, <1>14

LEMMA LeaveType ==
  ASSUME DataType, NEW n, LeaveEndPoint(n), gen' = gen, raced' = raced
  PROVE  DataType' /\ Kept
<1>1. PICK c : c = The("cluster", obj[The("endpoint", n)].refs[1])
  OBVIOUS
<1>2. /\ obj' = [obj EXCEPT ![c].refs = Without(@, n)] /\ made' = made /\ listed' \subseteq listed
  BY <1>1 DEF LeaveEndPoint
<1>3. CASE c \notin Ids
  BY <1>2, <1>3, MadeAreIds DEF DataType, Kept
<1>4. CASE c \in Ids
  <2>1. obj[c] \in Objects /\ obj[c].refs \in Seq(Int)
    BY <1>4 DEF DataType, Objects
  <2>2. Without(obj[c].refs, n) \in Seq(Int)
    BY <2>1, WithoutElement
  <2>3. PICK s : s = Without(obj[c].refs, n)
    OBVIOUS
  <2>4. obj' = [obj EXCEPT ![c].refs = s] /\ s \in Seq(Int)
    BY <1>2, <1>4, <2>2, <2>3 DEF DataType
  <2>5. /\ obj' \in [Ids -> Objects]
        /\ \A i \in Ids : /\ obj'[i].kind = obj[i].kind /\ obj'[i].name = obj[i].name
                          /\ obj'[i].auto = obj[i].auto
    BY <1>4, <2>4 DEF DataType, Objects
  <2>6. QED
    BY <1>2, <2>5, MadeAreIds DEF DataType, Kept
<1>5. QED
  BY <1>3, <1>4
-----------------------------------------------------------------------------
(* What the stacks hold.                                                   *)

\* The object of a frame is of the kind that the frame is about.
KindOK(f) ==
  /\ f.do = "runListener" => obj[f.id].kind = "listener"
  /\ f.do \in {"fillRuleList", "addRuleTo", "insertRule", "rulesOf", "removeRule"} =>
       obj[f.id].kind = "rulelist"
  /\ f.do = "bindRoute" => obj[f.id].kind = "rule"
  /\ f.do = "clustersOf" => obj[f.id].kind = "route"
  /\ f.do \in {"fillCluster", "runCluster", "endpointsOf"} => obj[f.id].kind = "cluster"
  /\ f.do = "unlist" => obj[f.id].kind \notin {"none", "endpoint"}

\* Nothing is left to do after the frame, but to fail.
FinalFrame(t, p) == p = Len(task[t]) \/ task[t][p + 1].do = "fail"

\* The frame is the next one to run, before any other task.
AtOnce(t, p) == p = 1 /\ turn = t

Spared(t, p, k, n) == FinalFrame(t, p) \/ (AtOnce(t, p) /\ Implicit(k, n))

\* A deletion is of the object that was asked for, or of an autogenerated one.
Allowed(t, p) ==
  LET f == task[t][p] IN
  /\ f.do = "deleteListener" => FinalFrame(t, p)
  /\ f.do = "deleteRuleList" => Spared(t, p, "rulelist", f.name)
  /\ f.do = "deleteRoute" => Spared(t, p, "route", f.name)
  /\ f.do = "deleteCluster" => Spared(t, p, "cluster", f.name)
  /\ f.do \in {"rulesOf", "clustersOf", "endpointsOf"} => FinalFrame(t, p) \/ obj[f.id].auto
  /\ f.do = "unlist" => FinalFrame(t, p) \/ obj[f.id].auto \/ obj[f.id].kind = "rule"

\* Nothing comes between the steps that fill a cluster, nor between those that empty it.
Undisturbed(t, p) ==
  LET f == task[t][p] IN
  /\ f.do = "fillCluster" => AtOnce(t, p) /\ f.id \in listed
  /\ f.do = "endpointsOf" => AtOnce(t, p) /\ f.id \in listed /\ obj[f.id].refs = f.rest
  /\ f.do = "unlist" /\ obj[f.id].kind = "cluster" => AtOnce(t, p) /\ obj[f.id].refs = <<>>

Legal(t, p) == KindOK(task[t][p]) /\ Allowed(t, p) /\ Undisturbed(t, p)

StackInv == \A t \in Tasks : \A p \in 1 .. Len(task[t]) : Legal(t, p)

LEMMA FrameKept ==
  ASSUME TypeOK, Kept, NEW f \in Frames, KindOK(f)
  PROVE  /\ KindOK(f)'
         /\ f.do \in {"rulesOf", "clustersOf", "endpointsOf", "unlist"} =>
              obj'[f.id].auto = obj[f.id].auto /\ obj'[f.id].kind = obj[f.id].kind
<1>1. ASSUME NEW i \in Ids, obj[i].kind # "none"
      PROVE  obj'[i].kind = obj[i].kind /\ obj'[i].auto = obj[i].auto
  <2>1. i \in 1 .. made
    BY <1>1, MadeAreIds, TypeParts DEF DataType, Ids
  <2>2. QED
    BY <2>1 DEF Kept
<1>2. f.do \in {"runListener", "fillRuleList", "addRuleTo", "insertRule", "bindRoute",
                "fillCluster", "runCluster"} => f.id \in Ids
  BY AdditionFrames
<1>3. f.do \in {"rulesOf", "clustersOf", "endpointsOf", "unlist", "removeRule"} => f.id \in Ids
  BY DeletionFrames
<1>4. QED
  BY <1>1, <1>2, <1>3 DEF KindOK

\* A frame that is not the next one to run may come to another place in its stack.
LEMMA QuietLegal ==
  ASSUME TypeOK, Kept, NEW t \in Tasks, NEW p, NEW q, task[t][q] \in Frames, Legal(t, q),
         ~AtOnce(t, q), task'[t][p] = task[t][q], FinalFrame(t, q) => FinalFrame(t, p)'
  PROVE  Legal(t, p)'
<1>1. PICK f \in Frames : f = task[t][q]
  OBVIOUS
<1>2. task'[t][p] = f /\ KindOK(f)
  BY <1>1 DEF Legal
<1>3. KindOK(f)' /\ (f.do \in {"rulesOf", "clustersOf", "endpointsOf", "unlist"} =>
                       obj'[f.id].auto = obj[f.id].auto /\ obj'[f.id].kind = obj[f.id].kind)
  BY <1>2, FrameKept
<1>4. KindOK(task[t][p])'
  BY <1>2, <1>3 DEF KindOK
<1>5. Allowed(t, p)'
  BY <1>1, <1>2, <1>3 DEF Legal, Allowed, Spared
<1>6. Undisturbed(t, p)'
  BY <1>1, <1>2, <1>3 DEF Legal, Undisturbed
<1>7. QED
  BY <1>4, <1>5, <1>6 DEF Legal

\* The step of a task leaves the frames of the others, and those of its own that come
\* later, as they are.
LEMMA StackKept ==
  ASSUME TypeOK, StackInv, Kept, NEW t \in Tasks, task[t] # <<>>, turn \in {NoTask, t},
         NEW xs \in Seq(Frames), Moves(t, xs), \A p \in 1 .. Len(xs) : Legal(t, p)'
  PROVE  StackInv'
<1>1. /\ \A u \in Tasks : u # t => task'[u] = task[u]
      /\ Len(xs) \in Nat /\ Len(task[t]) \in Nat \ {0}
      /\ Len(task'[t]) = Len(xs) + Len(task[t]) - 1
      /\ \A p \in Len(xs) + 1 .. Len(task'[t]) :
           /\ p - Len(xs) + 1 \in 2 .. Len(task[t])
           /\ task'[t][p] = task[t][p - Len(xs) + 1]
  BY StackShape
<1>2. \A u \in Tasks : \A p \in 1 .. Len(task[u]) : task[u][p] \in Frames
  BY ElementOfSeq DEF TypeOK
<1>3. ASSUME NEW u \in Tasks, u # t, NEW p \in 1 .. Len(task'[u])
      PROVE  Legal(u, p)'
  <2>1. task'[u] = task[u] /\ ~AtOnce(u, p)
    BY <1>1, <1>3, RegistryAssumption DEF AtOnce
  <2>2. FinalFrame(u, p) => FinalFrame(u, p)'
    BY <2>1 DEF FinalFrame
  <2>3. Legal(u, p) /\ task[u][p] \in Frames
    BY <1>2, <2>1 DEF StackInv
  <2>4. QED
    BY <2>1, <2>2, <2>3, QuietLegal
<1>4. ASSUME NEW p \in Len(xs) + 1 .. Len(task'[t])
      PROVE  Legal(t, p)'
  <2>1. PICK q \in 2 .. Len(task[t]) : q = p - Len(xs) + 1 /\ task'[t][p] = task[t][q]
    BY <1>1
  <2>2. ~AtOnce(t, q) /\ Legal(t, q) /\ task[t][q] \in Frames
    BY <1>1, <1>2, <2>1 DEF AtOnce, StackInv
  <2>3. ASSUME FinalFrame(t, q) PROVE FinalFrame(t, p)'
    <3>1. PICK n \in Nat : n = Len(xs)
      BY <1>1
    <3>2. PICK m \in Nat \ {0} : m = Len(task[t])
      BY <1>1
    <3>3. Len(task'[t]) = n + m - 1
      BY <1>1, <3>1, <3>2
    <3>4. p \in n + 1 .. n + m - 1 /\ q \in 2 .. m /\ q = p - n + 1
      BY <2>1, <3>1, <3>2, <3>3
    <3>5. CASE q = Len(task[t])
      <4>1. p = n + m - 1
        BY <3>2, <3>4, <3>5
      <4>2. p = Len(task'[t])
        BY <3>3, <4>1
      <4>3. QED
        BY <4>2 DEF FinalFrame
    <3>6. CASE q # Len(task[t])
      <4>1. p + 1 \in Len(xs) + 1 .. Len(task'[t]) /\ (p + 1) - Len(xs) + 1 = q + 1
        <5>1. q # m
          BY <3>2, <3>6
        <5>2. p + 1 \in n + 1 .. n + m - 1 /\ (p + 1) - n + 1 = q + 1
          BY <3>4, <5>1
        <5>3. QED
          BY <3>1, <3>3, <5>2
      <4>2. task'[t][p + 1] = task[t][q + 1]
        BY <1>1, <4>1
      <4>3. task[t][q + 1].do = "fail"
        BY <2>3, <3>6 DEF FinalFrame
      <4>4. QED
        BY <4>2, <4>3 DEF FinalFrame
    <3>7. QED
      BY <3>5, <3>6
  <2>4. QED
    BY <2>1, <2>2, <2>3, QuietLegal
<1>5. ASSUME NEW u \in Tasks, NEW p \in 1 .. Len(task'[u]) PROVE Legal(u, p)'
  <2>1. CASE u # t
    BY <1>3, <2>1
  <2>2. CASE u = t
    <3>1. p \in 1 .. Len(xs) \/ p \in Len(xs) + 1 .. Len(task'[t])
      BY <1>1, <2>2
    <3>2. QED
      BY <1>4, <2>2, <3>1
  <2>3. QED
    BY <2>1, <2>2
<1>6. QED
  BY <1>5 DEF StackInv

\* The last of the new frames is followed by what followed the one that ran.
LEMMA LastOfNew ==
  ASSUME TypeOK, NEW t \in Tasks, task[t] # <<>>, NEW xs \in Seq(Frames), xs # <<>>, Moves(t, xs)
  PROVE  FinalFrame(t, 1) => FinalFrame(t, Len(xs))'
<1>1. /\ Len(xs) \in Nat \ {0} /\ Len(task[t]) \in Nat \ {0}
      /\ Len(task'[t]) = Len(xs) + Len(task[t]) - 1
      /\ \A p \in Len(xs) + 1 .. Len(task'[t]) :
           /\ p - Len(xs) + 1 \in 2 .. Len(task[t])
           /\ task'[t][p] = task[t][p - Len(xs) + 1]
  BY StackShape, EmptySeq
<1>2. CASE Len(task[t]) = 1
  BY <1>1, <1>2 DEF FinalFrame
<1>3. CASE Len(task[t]) # 1
  <2>1. Len(xs) + 1 \in Len(xs) + 1 .. Len(task'[t]) /\ (Len(xs) + 1) - Len(xs) + 1 = 2
    <3>1. PICK n \in Nat : n = Len(xs)
      BY <1>1
    <3>0. PICK m \in Nat \ {0} : m = Len(task[t])
      BY <1>1
    <3>2. m >= 2
      <4>1. m # 1
        BY <1>3, <3>0
      <4>2. QED
        BY <4>1
    <3>3. Len(task'[t]) = n + m - 1
      BY <1>1, <3>0, <3>1
    <3>4. n + 1 \in n + 1 .. n + m - 1 /\ (n + 1) - n + 1 = 2
      BY <3>1, <3>2
    <3>5. QED
      BY <3>1, <3>3, <3>4
  <2>2. task'[t][Len(xs) + 1] = task[t][2]
    BY <1>1, <2>1
  <2>3. QED
    BY <1>3, <2>2 DEF FinalFrame
<1>4. QED
  BY <1>2, <1>3
-----------------------------------------------------------------------------
(* Steps keep types and stacks.                                            *)

\* Frames that are about no object yet, and deletions that spare none.
Plain == {"addListener", "addRuleList", "addRule", "addRoute", "addCluster", "addRuleToRuleList",
          "addEndPoint", "pushListener", "fillRoute", "deleteRule", "deleteEndPoint",
          "deleteRuleFromRuleList", "fail"}

\* The frames that rest on nothing but the kind of their object.
Steady ==
  Plain \union {"runListener", "fillRuleList", "addRuleTo", "insertRule", "removeRule",
                "bindRoute", "runCluster"}

LEMMA SteadyLegal ==
  ASSUME NEW t \in Tasks, NEW p, NEW f, task'[t][p] = f, f.do \in Steady, KindOK(f)'
  PROVE  Legal(t, p)'
BY DEF Steady, Plain, Legal, KindOK, Allowed, Undisturbed

LEMMA PlainKind ==
  ASSUME NEW f, f.do \in Plain
  PROVE  KindOK(f)' /\ f.do \in Steady
BY DEF KindOK, Plain, Steady

LEMMA FirstLegal ==
  ASSUME TypeOK, StackInv, NEW t \in Tasks, NEW what, Runs(t, what)
  PROVE  Legal(t, 1) /\ KindOK(Frame(t)) /\ Allowed(t, 1) /\ Undisturbed(t, 1)
<1>1. 1 \in 1 .. Len(task[t]) /\ Frame(t) = task[t][1]
  BY Running
<1>2. QED
  BY <1>1 DEF StackInv, Legal

LEMMA NoneLeft ==
  ASSUME TypeOK, StackInv, NEW t \in Tasks, NEW what, Runs(t, what), Moves(t, <<>>),
         DataType', ControlType', Kept, faults' \in 0 .. MaxFaults
  PROVE  TypeOK' /\ StackInv'
<1>1. task[t] # <<>> /\ turn \in {NoTask, t}
  BY Running
<1>2. PICK xs \in Seq(Frames) : xs = <<>>
  BY EmptySeq
<1>3. Moves(t, xs) /\ \A p \in 1 .. Len(xs) : Legal(t, p)'
  BY <1>2
<1>4. QED
  BY <1>1, <1>3, StackKept, TypeParts

LEMMA NewFrame ==
  ASSUME TypeOK, NEW t \in Tasks, NEW what, Runs(t, what), NEW f \in Frames, Moves(t, <<f>>)
  PROVE  task'[t][1] = f /\ (FinalFrame(t, 1) => FinalFrame(t, 1)')
<1>1. task[t] # <<>>
  BY Running
<1>2. PICK xs \in Seq(Frames) : xs = <<f>>
  BY OneFrame
<1>3. xs # <<>> /\ Len(xs) = 1 /\ xs[1] = f
  BY <1>2
<1>4. Moves(t, xs)
  BY <1>2
<1>5. \A p \in 1 .. Len(xs) : task'[t][p] = xs[p]
  BY <1>1, <1>4, StackShape
<1>6. FinalFrame(t, 1) => FinalFrame(t, Len(xs))'
  BY <1>1, <1>3, <1>4, LastOfNew
<1>7. 1 \in 1 .. Len(xs)
  BY <1>3
<1>8. task'[t][1] = f
  BY <1>3, <1>5, <1>7
<1>9. QED
  BY <1>3, <1>6, <1>8

LEMMA OneLeft ==
  ASSUME TypeOK, StackInv, NEW t \in Tasks, NEW what, Runs(t, what), NEW f \in Frames,
         Moves(t, <<f>>), DataType', ControlType', Kept, faults' \in 0 .. MaxFaults, Legal(t, 1)'
  PROVE  TypeOK' /\ StackInv'
<1>1. task[t] # <<>> /\ turn \in {NoTask, t}
  BY Running
<1>2. PICK xs \in Seq(Frames) : xs = <<f>>
  BY OneFrame
<1>3. Len(xs) = 1
  BY <1>2
<1>4. Moves(t, xs)
  BY <1>2
<1>5. \A p \in 1 .. Len(xs) : Legal(t, p)'
  <2>1. \A p \in 1 .. Len(xs) : p = 1
    BY <1>3
  <2>2. QED
    BY <2>1
<1>6. QED
  BY <1>1, <1>4, <1>5, StackKept, TypeParts

LEMMA TwoNewFrames ==
  ASSUME TypeOK, NEW t \in Tasks, NEW what, Runs(t, what), NEW f \in Frames, NEW g \in Frames,
         Moves(t, <<f, g>>)
  PROVE  /\ task'[t][1] = f /\ task'[t][2] = g
         /\ FinalFrame(t, 1) => FinalFrame(t, 2)'
         /\ g.do = "fail" => FinalFrame(t, 1)'
<1>1. task[t] # <<>>
  BY Running
<1>2. PICK xs \in Seq(Frames) : xs = <<f, g>>
  BY OneFrame
<1>3. xs # <<>> /\ Len(xs) = 2 /\ xs[1] = f /\ xs[2] = g
  BY <1>2
<1>4. Moves(t, xs)
  BY <1>2
<1>5. \A p \in 1 .. Len(xs) : task'[t][p] = xs[p]
  BY <1>1, <1>4, StackShape
<1>6. FinalFrame(t, 1) => FinalFrame(t, Len(xs))'
  BY <1>1, <1>3, <1>4, LastOfNew
<1>7. 1 \in 1 .. Len(xs) /\ 2 \in 1 .. Len(xs)
  BY <1>3
<1>8. task'[t][1] = f /\ task'[t][2] = g
  BY <1>3, <1>5, <1>7
<1>9. g.do = "fail" => FinalFrame(t, 1)'
  BY <1>8 DEF FinalFrame
<1>10. QED
  BY <1>3, <1>6, <1>8, <1>9

LEMMA TwoLeft ==
  ASSUME TypeOK, StackInv, NEW t \in Tasks, NEW what, Runs(t, what), NEW f \in Frames,
         NEW g \in Frames, Moves(t, <<f, g>>), DataType', ControlType', Kept,
         faults' \in 0 .. MaxFaults, Legal(t, 1)', Legal(t, 2)'
  PROVE  TypeOK' /\ StackInv'
<1>1. task[t] # <<>> /\ turn \in {NoTask, t}
  BY Running
<1>2. PICK xs \in Seq(Frames) : xs = <<f, g>>
  BY OneFrame
<1>3. Len(xs) = 2
  BY <1>2
<1>4. Moves(t, xs)
  BY <1>2
<1>5. \A p \in 1 .. Len(xs) : Legal(t, p)'
  <2>1. \A p \in 1 .. Len(xs) : p = 1 \/ p = 2
    BY <1>3
  <2>2. QED
    BY <2>1
<1>6. QED
  BY <1>1, <1>4, <1>5, StackKept, TypeParts

\* A task that has something left to do without an await keeps its turn.
LEMMA KeepsTurn ==
  ASSUME TypeOK, NEW t \in Tasks, NEW what, Runs(t, what), NEW xs \in Seq(Frames), xs # <<>>,
         Proceed(t, xs)
  PROVE  turn' = t
<1>1. Tail(task[t]) \in Seq(Frames)
  BY Running
<1>2. xs \o Tail(task[t]) # <<>>
  BY <1>1, ConcatEqualIffEmpty
<1>3. QED
  BY <1>2 DEF Proceed, Continue, Same

LEMMA ThrowKeeps ==
  ASSUME TypeOK, StackInv, NEW t \in Tasks, Throw(t), DataType', Kept,
         faults' \in 0 .. MaxFaults, turn \in {NoTask, t}
  PROVE  TypeOK' /\ StackInv'
<1>1. ControlType' /\ task'[t] = <<>> /\ \A u \in Tasks : u # t => task'[u] = task[u]
  BY ThrowType
<1>2. ASSUME NEW u \in Tasks, NEW p \in 1 .. Len(task'[u]) PROVE Legal(u, p)'
  <2>1. u # t /\ task'[u] = task[u]
    BY <1>1, <1>2
  <2>2. ~AtOnce(u, p) /\ Legal(u, p) /\ task[u][p] \in Frames
    BY <2>1, ElementOfSeq, RegistryAssumption DEF AtOnce, StackInv, TypeOK
  <2>3. FinalFrame(u, p) => FinalFrame(u, p)'
    BY <2>1 DEF FinalFrame
  <2>4. QED
    BY <2>1, <2>2, <2>3, QuietLegal
<1>3. QED
  BY <1>1, <1>2, TypeParts DEF StackInv

LEMMA UnchangedData ==
  ASSUME TypeOK, UNCHANGED objects, gen' \in Nat, raced' \subseteq {"listener", "route"} \X Int
  PROVE  DataType' /\ Kept
BY DEF TypeOK, DataType, Kept, objects

LEMMA FailsKeeps ==
  ASSUME TypeOK, StackInv, NEW t \in Tasks, Fails(t), faults' \in 0 .. MaxFaults,
         turn \in {NoTask, t}
  PROVE  TypeOK' /\ StackInv' /\ Kept
<1>1. Throw(t) /\ UNCHANGED objects /\ gen' = gen /\ raced' = raced
  BY DEF Fails, objects
<1>2. DataType' /\ Kept
  BY <1>1, UnchangedData DEF TypeOK
<1>3. QED
  BY <1>1, <1>2, ThrowKeeps

LEMMA SameStacks ==
  ASSUME StackInv, UNCHANGED <<objects, task, turn>>
  PROVE  StackInv'
<1>1. UNCHANGED <<obj, listed, task, turn>>
  BY DEF objects
<1>2. ASSUME NEW u \in Tasks, NEW p \in 1 .. Len(task[u]) PROVE Legal(u, p)'
  <2>1. Legal(u, p)
    BY DEF StackInv
  <2>2. KindOK(task[u][p])'
    BY <1>1, <2>1 DEF Legal, KindOK
  <2>3. FinalFrame(u, p)' = FinalFrame(u, p) /\ AtOnce(u, p)' = AtOnce(u, p)
    BY <1>1 DEF FinalFrame, AtOnce
  <2>4. \A k, n : Named(k, n)' = Named(k, n)
    BY <1>1 DEF Named
  <2>5. \A k, n : Implicit(k, n) => Implicit(k, n)'
    BY <1>1, <2>4 DEF Implicit, Defined, The
  <2>6. \A k, n : Spared(u, p, k, n) => Spared(u, p, k, n)'
    BY <2>3, <2>5 DEF Spared
  <2>7. Allowed(u, p)'
    BY <1>1, <2>1, <2>3, <2>6 DEF Legal, Allowed
  <2>8. Undisturbed(u, p)'
    BY <1>1, <2>1, <2>3 DEF Legal, Undisturbed
  <2>9. QED
    BY <2>2, <2>7, <2>8 DEF Legal
<1>3. QED
  BY <1>1, <1>2 DEF StackInv

LEMMA FaultType == TypeOK /\ Fault => faults' \in 0 .. MaxFaults
BY RegistryAssumption DEF TypeOK, Fault
Keeps == TypeOK' /\ StackInv' /\ Kept

LEMMA SteadyLeft ==
  ASSUME TypeOK, StackInv, NEW t \in Tasks, NEW what, Runs(t, what), NEW f \in Frames,
         Proceed(t, <<f>>) \/ Await(t, <<f>>), f.do \in Steady, KindOK(f)', DataType', Kept,
         faults' \in 0 .. MaxFaults
  PROVE  Keeps
<1>1. ControlType' /\ Moves(t, <<f>>)
  BY OneFrame, ProceedType, AwaitType
<1>2. Legal(t, 1)'
  BY <1>1, NewFrame, SteadyLegal
<1>3. QED
  BY <1>1, <1>2, OneLeft DEF Keeps

LEMMA PairLeft ==
  ASSUME TypeOK, StackInv, NEW t \in Tasks, NEW what, Runs(t, what), NEW f \in Frames,
         NEW g \in Frames, Proceed(t, <<f, g>>), f.do \in Steady, KindOK(f)', g.do \in Steady,
         KindOK(g)', DataType', Kept, faults' \in 0 .. MaxFaults
  PROVE  Keeps
<1>1. ControlType' /\ Moves(t, <<f, g>>)
  BY OneFrame, ProceedType
<1>2. Legal(t, 1)' /\ Legal(t, 2)'
  BY <1>1, TwoNewFrames, SteadyLegal
<1>3. QED
  BY <1>1, <1>2, TwoLeft DEF Keeps

LEMMA NothingLeft ==
  ASSUME TypeOK, StackInv, NEW t \in Tasks, NEW what, Runs(t, what),
         Proceed(t, <<>>) \/ Await(t, <<>>), DataType', Kept, faults' \in 0 .. MaxFaults
  PROVE  Keeps
<1>1. ControlType' /\ Moves(t, <<>>)
  BY OneFrame, ProceedType, AwaitType
<1>2. QED
  BY <1>1, NoneLeft DEF Keeps

LEMMA RaceType ==
  ASSUME TypeOK, NEW k \in {"listener", "route"}, NEW n \in Int, Race(k, n)
  PROVE  raced' \subseteq {"listener", "route"} \X Int
BY DEF Race, TypeOK

LEMMA CallKeeps ==
  ASSUME TypeOK, StackInv, NEW t \in Tasks, Call(t)
  PROVE  Keeps
<1>1. PICK r \in Requests : task' = [task EXCEPT ![t] = <<r>>]
  BY DEF Call
<1>2. r \in Asked /\ r \in Frames
  BY RegistryAssumption DEF Frames
<1>3. /\ task' \in [Tasks -> Seq(Frames)] /\ task'[t] = <<r>>
      /\ \A u \in Tasks : u # t => task'[u] = task[u]
  BY <1>1, <1>2, OneFrame DEF TypeOK
<1>3a. Len(task'[t]) = 1 /\ task'[t][1] = r
  BY <1>3
<1>4. DataType' /\ Kept
  BY UnchangedData DEF Call, TypeOK
<1>5. ControlType' /\ faults' \in 0 .. MaxFaults
  BY <1>3, RegistryAssumption DEF Call, TypeOK, ControlType
<1>6. Legal(t, 1)'
  <2>2. FinalFrame(t, 1)'
    BY <1>3a DEF FinalFrame
  <2>3. r.do \in Plain \union Targets \union {"addListener", "addRuleList", "addRule", "addRoute",
                                              "addCluster", "addRuleToRuleList", "addEndPoint"}
    BY <1>2 DEF Asked, Plain, Targets
  <2>4. QED
    BY <1>3a, <2>2, <2>3 DEF Legal, KindOK, Allowed, Spared, Undisturbed, Plain, Targets
<1>7. ASSUME NEW u \in Tasks, NEW p \in 1 .. Len(task'[u]) PROVE Legal(u, p)'
  <2>1. CASE u = t
    <3>1. p \in 1 .. 1
      BY <1>3a, <2>1
    <3>2. QED
      BY <1>6, <2>1, <3>1
  <2>2. CASE u # t
    <3>1. task'[u] = task[u] /\ turn = NoTask
      BY <1>3, <2>2 DEF Call
    <3>2. ~AtOnce(u, p) /\ Legal(u, p) /\ task[u][p] \in Frames
      BY <3>1, ElementOfSeq, RegistryAssumption DEF AtOnce, StackInv, TypeOK
    <3>3. FinalFrame(u, p) => FinalFrame(u, p)'
      BY <3>1 DEF FinalFrame
    <3>4. QED
      BY <1>4, <3>1, <3>2, <3>3, QuietLegal
  <2>3. QED
    BY <2>1, <2>2
<1>8. QED
  BY <1>4, <1>5, <1>7, TypeParts DEF Keeps, StackInv

LEMMA AddListenerKeeps ==
  ASSUME TypeOK, StackInv, NEW t \in Tasks, AddListener(t)
  PROVE  Keeps
<1>1. PICK f \in Frames : /\ f = Frame(t) /\ f.do = "addListener" /\ Runs(t, "addListener")
                          /\ turn \in {NoTask, t}
  BY Running DEF AddListener
<1>2. f.item \in Item /\ f.item.parts # <<>> /\ gen \in Nat
  BY <1>1, AdditionFrames DEF TypeOK
<1>3. f.item.name \in Int /\ f.item.parts[1] \in Item
  BY <1>2, NamedItem
<1>4. PICK rl \in Item : rl = WithName(f.item.parts[1]) /\ rl.name \in Int
  BY <1>2, <1>3, NamedItem
<1>5. PICK push \in Frames :
        push = [do |-> "pushListener", name |-> f.item.name, rules |-> rl.name]
  BY <1>3, <1>4, NewFrames
<1>6. PICK add \in Frames : add = [do |-> "addRuleList", item |-> rl, auto |-> TRUE]
  BY <1>4, NewFrames
<1>7. UNCHANGED objects /\ faults' \in 0 .. MaxFaults
  BY DEF AddListener, TypeOK
<1>8. CASE Fails(t)
  BY <1>1, <1>7, <1>8, FailsKeeps DEF Keeps
<1>9. CASE /\ Race("listener", f.item.name) /\ CountName(f.item.parts[1])
           /\ Proceed(t, IF rl.inline THEN <<add, push>> ELSE <<push>>)
  <2>1. DataType' /\ Kept
    BY <1>2, <1>3, <1>7, <1>9, NamedItem, RaceType, UnchangedData
  <2>2. CASE rl.inline
    <3>1. Proceed(t, <<add, push>>)
      BY <1>9, <2>2
    <3>2. add.do \in Plain /\ push.do \in Plain
      BY <1>5, <1>6 DEF Plain
    <3>3. QED
      BY <1>1, <1>7, <2>1, <3>1, <3>2, PairLeft, PlainKind
  <2>3. CASE ~rl.inline
    <3>1. Proceed(t, <<push>>)
      BY <1>9, <2>3
    <3>2. push.do \in Plain
      BY <1>5 DEF Plain
    <3>3. QED
      BY <1>1, <1>7, <2>1, <3>1, <3>2, SteadyLeft, PlainKind
  <2>4. QED
    BY <2>2, <2>3
<1>10. QED
  BY <1>1, <1>4, <1>5, <1>6, <1>8, <1>9 DEF AddListener
\* The object that is created is of its kind.
LEMMA NewObject ==
  ASSUME TypeOK, NEW k \in Kinds, NEW n \in Int, NEW auto \in BOOLEAN, NEW refs \in Seq(Int),
         Create(k, n, auto, refs), gen' \in Nat, raced' \subseteq {"listener", "route"} \X Int
  PROVE  /\ DataType' /\ Kept /\ made + 1 \in Ids
         /\ obj'[made + 1] = [kind |-> k, name |-> n, auto |-> auto, refs |-> refs]
         /\ \A i \in 1 .. made : obj'[i] = obj[i]
<1>1. DataType' /\ Kept /\ made + 1 \in Ids
  BY CreateType, TypeParts
<1>2. PICK o : o = [kind |-> k, name |-> n, auto |-> auto, refs |-> refs]
  OBVIOUS
<1>3. obj' = [obj EXCEPT ![made + 1] = o]
  BY <1>2 DEF Create
<1>4. \A i \in 1 .. made : i \in Ids /\ i # made + 1
  BY MadeAreIds, TypeParts
<1>5. QED
  BY <1>1, <1>2, <1>3, <1>4 DEF TypeOK

LEMMA PushListenerKeeps ==
  ASSUME TypeOK, StackInv, NEW t \in Tasks, PushListener(t)
  PROVE  Keeps
<1>1. PICK f \in Frames : f = Frame(t) /\ f.do = "pushListener" /\ Runs(t, "pushListener")
  BY Running DEF PushListener
<1>2. f.name \in Int /\ <<f.rules>> \in Seq(Int) /\ "listener" \in Kinds /\ FALSE \in BOOLEAN
  BY <1>1, AdditionFrames DEF Kinds
<1>3. Create("listener", f.name, FALSE, <<f.rules>>) /\ gen' \in Nat /\ faults' \in 0 .. MaxFaults
      /\ raced' \subseteq {"listener", "route"} \X Int
  BY <1>1 DEF PushListener, TypeOK
<1>4. /\ DataType' /\ Kept /\ made + 1 \in Ids
      /\ obj'[made + 1] = [kind |-> "listener", name |-> f.name, auto |-> FALSE, refs |-> <<f.rules>>]
  BY <1>2, <1>3, NewObject
<1>5. PICK run \in Frames : run = [do |-> "runListener", id |-> made + 1]
  BY <1>4, NewFrames
<1>6. Await(t, <<run>>)
  BY <1>5 DEF PushListener
<1>7. run.do \in Steady /\ KindOK(run)'
  BY <1>4, <1>5 DEF Steady, KindOK
<1>8. QED
  BY <1>1, <1>3, <1>4, <1>6, <1>7, SteadyLeft

LEMMA RunListenerKeeps ==
  ASSUME TypeOK, StackInv, NEW t \in Tasks, RunListener(t)
  PROVE  Keeps
<1>1. PICK f \in Frames : f = Frame(t) /\ f.do = "runListener" /\ Runs(t, "runListener")
  BY Running DEF RunListener
<1>2. f.id \in Ids /\ obj[f.id].name \in Int
  BY <1>1, AdditionFrames DEF TypeOK, Objects
<1>3. DataType' /\ Kept
  BY UnchangedData DEF RunListener, TypeOK
<1>4. PICK del \in Frames : del = [do |-> "deleteListener", name |-> obj[f.id].name, rec |-> TRUE]
  BY <1>2, NewFrames DEF Targets
<1>5. PICK fail \in Frames : fail = [do |-> "fail"]
  BY NewFrames
<1>6. CASE Await(t, <<>>) /\ faults' = faults
  BY <1>1, <1>3, <1>6, NothingLeft DEF TypeOK
<1>7. CASE Proceed(t, <<del, fail>>) /\ faults' \in 0 .. MaxFaults
  <2>1. ControlType' /\ Moves(t, <<del, fail>>)
    BY <1>1, <1>7, OneFrame, ProceedType
  <2>2. task'[t][1] = del /\ task'[t][2] = fail /\ FinalFrame(t, 1)'
    BY <1>1, <1>5, <2>1, TwoNewFrames
  <2>3. Legal(t, 1)'
    BY <1>4, <2>2 DEF Legal, KindOK, Allowed, Undisturbed
  <2>4. Legal(t, 2)'
    BY <1>5, <2>2, SteadyLegal, PlainKind DEF Plain
  <2>5. QED
    BY <1>1, <1>3, <1>7, <2>1, <2>3, <2>4, TwoLeft DEF Keeps
<1>8. faults \in 0 .. MaxFaults
  BY DEF TypeOK
<1>9. QED
  BY <1>1, <1>4, <1>5, <1>6, <1>7, <1>8, FaultType DEF RunListener

LEMMA AddRuleListKeeps ==
  ASSUME TypeOK, StackInv, NEW t \in Tasks, AddRuleList(t)
  PROVE  Keeps
<1>1. PICK f \in Frames : f = Frame(t) /\ f.do = "addRuleList" /\ Runs(t, "addRuleList")
                            /\ turn \in {NoTask, t}
  BY Running DEF AddRuleList
<1>2. /\ f.item \in Item /\ f.auto \in BOOLEAN /\ gen \in Nat
      /\ f.item.name \in Int /\ f.item.parts \in Seq(Items)
      /\ "rulelist" \in Kinds /\ <<>> \in Seq(Int)
  BY <1>1, AdditionFrames, EmptySeq DEF TypeOK, Item, Kinds
<1>3. /\ gen' \in Nat /\ faults' \in 0 .. MaxFaults
      /\ raced' \subseteq {"listener", "route"} \X Int
  BY DEF AddRuleList, TypeOK
<1>4. CASE UNCHANGED objects /\ Throw(t)
  BY <1>1, <1>3, <1>4, UnchangedData, ThrowKeeps DEF Keeps
<1>5. CASE /\ Create("rulelist", f.item.name, f.auto, <<>>)
           /\ Proceed(t, <<[do |-> "fillRuleList", id |-> made + 1, rest |-> f.item.parts, pos |-> 0]>>)
  <2>1. /\ DataType' /\ Kept /\ made + 1 \in Ids
        /\ obj'[made + 1] = [kind |-> "rulelist", name |-> f.item.name, auto |-> f.auto, refs |-> <<>>]
    BY <1>2, <1>3, <1>5, NewObject
  <2>2. PICK fill \in Frames :
          fill = [do |-> "fillRuleList", id |-> made + 1, rest |-> f.item.parts, pos |-> 0]
    BY <1>2, <2>1, NewFrames
  <2>3. Proceed(t, <<fill>>) /\ fill.do \in Steady /\ KindOK(fill)'
    BY <1>5, <2>1, <2>2 DEF Steady, KindOK
  <2>4. QED
    BY <1>1, <1>3, <2>1, <2>3, SteadyLeft
<1>6. QED
  BY <1>1, <1>4, <1>5 DEF AddRuleList

LEMMA FillRuleListKeeps ==
  ASSUME TypeOK, StackInv, NEW t \in Tasks, FillRuleList(t)
  PROVE  Keeps
<1>1. PICK f \in Frames : f = Frame(t) /\ f.do = "fillRuleList" /\ Runs(t, "fillRuleList")
  BY Running DEF FillRuleList
<1>2. DataType' /\ Kept /\ faults' \in 0 .. MaxFaults
  BY UnchangedData DEF FillRuleList, TypeOK
<1>3. CASE f.rest = <<>>
  BY <1>1, <1>2, <1>3, NothingLeft DEF FillRuleList
<1>4. CASE f.rest # <<>>
  <2>1. PICK g \in Frames : /\ g = [f EXCEPT !.rest = Tail(@), !.pos = @ + 1]
                            /\ g.do = f.do /\ g.id = f.id
    BY <1>1, <1>4, NextFillings
  <2>2. PICK a \in Frames : a = [do |-> "addRuleTo", id |-> f.id, item |-> Head(f.rest), pos |-> f.pos]
    BY <1>1, <1>4, NextFillings, AdditionFrames, NewFrames
  <2>3. Proceed(t, <<a, g>>)
    BY <1>1, <1>4, <2>1, <2>2 DEF FillRuleList
  <2>4. KindOK(f) /\ KindOK(f)'
    BY <1>1, <1>2, FirstLegal, FrameKept
  <2>5. a.do \in Steady /\ KindOK(a)' /\ g.do \in Steady /\ KindOK(g)'
    BY <1>1, <2>1, <2>2, <2>4 DEF Steady, KindOK
  <2>6. QED
    BY <1>1, <1>2, <2>3, <2>5, PairLeft
<1>5. QED
  BY <1>3, <1>4

LEMMA AddRuleToRuleListKeeps ==
  ASSUME TypeOK, StackInv, NEW t \in Tasks, AddRuleToRuleList(t)
  PROVE  Keeps
<1>1. PICK f \in Frames : f = Frame(t) /\ f.do = "addRuleToRuleList" /\ Runs(t, "addRuleToRuleList")
                            /\ turn \in {NoTask, t}
  BY Running DEF AddRuleToRuleList
<1>2. faults' \in 0 .. MaxFaults /\ f.item \in Item /\ f.pos \in Nat
  BY <1>1, AdditionFrames DEF AddRuleToRuleList, TypeOK
<1>3. CASE Fails(t)
  BY <1>1, <1>2, <1>3, FailsKeeps DEF Keeps
<1>4. CASE /\ Defined("rulelist", f.name)
           /\ Proceed(t, <<[do |-> "addRuleTo", id |-> The("rulelist", f.name),
                            item |-> f.item, pos |-> f.pos]>>)
           /\ UNCHANGED <<objects, gen, raced>>
  <2>1. PICK i \in Ids : i = The("rulelist", f.name) /\ i \in 1 .. made /\ obj[i].kind = "rulelist"
    BY <1>4, TheIsNamed
  <2>2. PICK a \in Frames : a = [do |-> "addRuleTo", id |-> i, item |-> f.item, pos |-> f.pos]
    BY <1>2, NewFrames
  <2>3. DataType' /\ Kept
    BY <1>4, UnchangedData DEF TypeOK
  <2>4. obj'[i].kind = "rulelist"
    BY <2>1, <2>3 DEF Kept
  <2>5. Proceed(t, <<a>>) /\ a.do \in Steady /\ KindOK(a)'
    BY <1>4, <2>1, <2>2, <2>4 DEF Steady, KindOK
  <2>6. QED
    BY <1>1, <1>2, <2>3, <2>5, SteadyLeft
<1>5. QED
  BY <1>1, <1>3, <1>4 DEF AddRuleToRuleList

LEMMA AddRuleToKeeps ==
  ASSUME TypeOK, StackInv, NEW t \in Tasks, AddRuleTo(t)
  PROVE  Keeps
<1>1. PICK f \in Frames : f = Frame(t) /\ f.do = "addRuleTo" /\ Runs(t, "addRuleTo")
                            /\ turn \in {NoTask, t}
  BY Running DEF AddRuleTo
<1>2. f.id \in Ids /\ f.item \in Item /\ f.pos \in Nat /\ gen \in Nat
  BY <1>1, AdditionFrames DEF TypeOK
<1>3. PICK rule \in Item : rule = WithName(f.item) /\ rule.name \in Int
  BY <1>2, NamedItem
<1>4. PICK ins \in Frames : ins = [do |-> "insertRule", id |-> f.id, name |-> rule.name, pos |-> f.pos]
  BY <1>2, <1>3, NewFrames
<1>5. PICK add \in Frames : add = [do |-> "addRule", item |-> rule, auto |-> TRUE]
  BY <1>3, NewFrames
<1>6. UNCHANGED objects /\ faults' \in 0 .. MaxFaults /\ raced' \subseteq {"listener", "route"} \X Int
  BY DEF AddRuleTo, TypeOK
<1>7. CASE gen' = gen /\ Throw(t)
  BY <1>1, <1>2, <1>6, <1>7, UnchangedData, ThrowKeeps DEF Keeps
<1>8. CASE /\ CountName(f.item)
           /\ Proceed(t, IF rule.inline THEN <<add, ins>> ELSE <<ins>>)
  <2>1. DataType' /\ Kept
    BY <1>2, <1>6, <1>8, NamedItem, UnchangedData
  <2>2. KindOK(f)'
    BY <1>1, <2>1, FirstLegal, FrameKept
  <2>3. ins.do \in Steady /\ KindOK(ins)' /\ add.do \in Plain
    BY <1>1, <1>4, <1>5, <2>2 DEF Steady, Plain, KindOK
  <2>4. CASE rule.inline
    <3>1. Proceed(t, <<add, ins>>)
      BY <1>8, <2>4
    <3>2. QED
      BY <1>1, <1>6, <2>1, <2>3, <3>1, PairLeft, PlainKind
  <2>5. CASE ~rule.inline
    <3>1. Proceed(t, <<ins>>)
      BY <1>8, <2>5
    <3>2. QED
      BY <1>1, <1>6, <2>1, <2>3, <3>1, SteadyLeft
  <2>6. QED
    BY <2>4, <2>5
<1>9. QED
  BY <1>1, <1>3, <1>4, <1>5, <1>7, <1>8 DEF AddRuleTo

\* A frame that writes what an object refers to and is done.
LEMMA ReferKeeps ==
  ASSUME TypeOK, StackInv, NEW t \in Tasks, NEW what, Runs(t, what), NEW i \in Ids,
         NEW refs \in Seq(Int), Refer(i, refs), UNCHANGED <<gen, faults, raced>>,
         NEW next \in {NoTask, t}, Continue(t, <<>>, next),
         UNCHANGED strays \/ LeavesStrays
  PROVE  Keeps
<1>1. DataType' /\ Kept
  BY ReferType, TypeParts
<1>2. strays' \subseteq Ids
  BY <1>1, MadeAreIds DEF LeavesStrays, Orphans, TypeOK
<1>3. ControlType' /\ Moves(t, <<>>)
  BY <1>2, OneFrame, ContinueType
<1>4. faults' \in 0 .. MaxFaults
  BY DEF TypeOK
<1>5. QED
  BY <1>1, <1>3, <1>4, NoneLeft DEF Keeps

LEMMA InsertRuleKeeps ==
  ASSUME TypeOK, StackInv, NEW t \in Tasks, InsertRule(t)
  PROVE  Keeps
<1>1. PICK f \in Frames : f = Frame(t) /\ f.do = "insertRule" /\ Runs(t, "insertRule")
  BY Running DEF InsertRule
<1>2. f.id \in Ids /\ f.name \in Int /\ f.pos \in Nat
  BY <1>1, AdditionFrames
<1>3. obj[f.id].refs \in Seq(Int)
  BY <1>2 DEF TypeOK, Objects
<1>4. PICK refs \in Seq(Int) : refs = Insert(obj[f.id].refs, f.pos, f.name)
  BY <1>2, <1>3, Inserted
<1>5. Refer(f.id, refs) /\ Continue(t, <<>>, NoTask) /\ UNCHANGED <<gen, faults, raced>>
  BY <1>1, <1>4 DEF InsertRule
<1>6. UNCHANGED strays \/ LeavesStrays
  BY DEF InsertRule
<1>7. QED
  BY <1>1, <1>2, <1>5, <1>6, ReferKeeps

LEMMA BindRouteKeeps ==
  ASSUME TypeOK, StackInv, NEW t \in Tasks, BindRoute(t)
  PROVE  Keeps
<1>1. PICK f \in Frames : f = Frame(t) /\ f.do = "bindRoute" /\ Runs(t, "bindRoute")
  BY Running DEF BindRoute
<1>2. f.id \in Ids /\ f.name \in Int
  BY <1>1, AdditionFrames
<1>3. PICK refs \in Seq(Int) : refs = <<f.name>>
  <2>1. <<f.name>> \in Seq(Int)
    BY <1>2
  <2>2. QED
    BY <2>1
<1>4. Refer(f.id, refs) /\ Continue(t, <<>>, NoTask) /\ UNCHANGED <<gen, faults, raced>>
  BY <1>1, <1>3 DEF BindRoute
<1>5. UNCHANGED strays \/ LeavesStrays
  BY DEF BindRoute
<1>6. QED
  BY <1>1, <1>2, <1>4, <1>5, ReferKeeps
LEMMA AddRuleKeeps ==
  ASSUME TypeOK, StackInv, NEW t \in Tasks, AddRule(t)
  PROVE  Keeps
<1>1. PICK f \in Frames : f = Frame(t) /\ f.do = "addRule" /\ Runs(t, "addRule")
                            /\ turn \in {NoTask, t}
  BY Running DEF AddRule
<1>2. /\ f.item \in Item /\ f.auto \in BOOLEAN /\ gen \in Nat /\ f.item.name \in Int
      /\ "rule" \in Kinds /\ <<>> \in Seq(Int)
  BY <1>1, AdditionFrames, EmptySeq DEF TypeOK, Item, Kinds
<1>3. faults' \in 0 .. MaxFaults /\ raced' \subseteq {"listener", "route"} \X Int
  BY DEF AddRule, TypeOK
<1>4. CASE UNCHANGED <<objects, gen>> /\ Throw(t)
  BY <1>1, <1>2, <1>3, <1>4, UnchangedData, ThrowKeeps DEF Keeps
<1>5. ASSUME NEW refs \in Seq(Int), Create("rule", f.item.name, f.auto, refs), Await(t, <<>>), gen' = gen
      PROVE  Keeps
  BY <1>1, <1>2, <1>3, <1>5, NewObject, NothingLeft
<1>6. PICK route : route = WithName(f.item.parts[1])
  OBVIOUS
<1>7. f.item.parts # <<>> => route \in Item /\ route.name \in Int /\ <<route.name>> \in Seq(Int)
                              /\ f.item.parts[1] \in Item
  BY <1>2, <1>6, NamedItem
<1>8. CASE /\ f.item.parts # <<>>
           /\ Create("rule", f.item.name, f.auto, <<>>)
           /\ CountName(f.item.parts[1])
           /\ Proceed(t, <<[do |-> "addRoute", item |-> route, auto |-> TRUE],
                           [do |-> "bindRoute", id |-> made + 1, name |-> route.name]>>)
  <2>1. gen' \in Nat
    BY <1>2, <1>7, <1>8, NamedItem
  <2>2. /\ DataType' /\ Kept /\ made + 1 \in Ids
        /\ obj'[made + 1] = [kind |-> "rule", name |-> f.item.name, auto |-> f.auto, refs |-> <<>>]
    BY <1>2, <1>3, <1>8, <2>1, NewObject
  <2>3. PICK a \in Frames : a = [do |-> "addRoute", item |-> route, auto |-> TRUE]
    BY <1>7, <1>8, NewFrames
  <2>4. PICK b \in Frames : b = [do |-> "bindRoute", id |-> made + 1, name |-> route.name]
    BY <1>7, <1>8, <2>2, NewFrames
  <2>5. a.do \in Plain /\ b.do \in Steady /\ KindOK(b)'
    BY <2>2, <2>3, <2>4 DEF Plain, Steady, KindOK
  <2>6. Proceed(t, <<a, b>>)
    BY <1>8, <2>3, <2>4
  <2>7. QED
    BY <1>1, <1>3, <2>2, <2>5, <2>6, PairLeft, PlainKind
<1>9. QED
  BY <1>1, <1>2, <1>4, <1>5, <1>6, <1>7, <1>8 DEF AddRule

LEMMA AddRouteKeeps ==
  ASSUME TypeOK, StackInv, NEW t \in Tasks, AddRoute(t)
  PROVE  Keeps
<1>1. PICK f \in Frames : f = Frame(t) /\ f.do = "addRoute" /\ Runs(t, "addRoute")
                            /\ turn \in {NoTask, t}
  BY Running DEF AddRoute
<1>2. /\ f.item \in Item /\ f.auto \in BOOLEAN /\ f.item.name \in Int /\ f.item.parts \in Seq(Items)
  BY <1>1, AdditionFrames DEF Item
<1>3. UNCHANGED objects /\ faults' \in 0 .. MaxFaults
  BY DEF AddRoute, TypeOK
<1>4. CASE Fails(t)
  BY <1>1, <1>3, <1>4, FailsKeeps DEF Keeps
<1>5. CASE /\ Race("route", f.item.name) /\ gen' = gen
           /\ Proceed(t, <<[do |-> "fillRoute", name |-> f.item.name, auto |-> f.auto,
                            done |-> <<>>, rest |-> f.item.parts]>>)
  <2>1. PICK a \in Frames : a = [do |-> "fillRoute", name |-> f.item.name, auto |-> f.auto,
                                 done |-> <<>>, rest |-> f.item.parts]
    BY <1>2, NewFrames
  <2>2. DataType' /\ Kept
    <3>1. raced' \subseteq {"listener", "route"} \X Int
      BY <1>2, <1>5, RaceType
    <3>2. QED
      BY <1>3, <1>5, <3>1, UnchangedData DEF TypeOK
  <2>3. Proceed(t, <<a>>) /\ a.do \in Plain
    BY <1>5, <2>1 DEF Plain
  <2>4. QED
    BY <1>1, <1>3, <2>2, <2>3, SteadyLeft, PlainKind
<1>6. QED
  BY <1>1, <1>4, <1>5 DEF AddRoute

LEMMA FillRouteKeeps ==
  ASSUME TypeOK, StackInv, NEW t \in Tasks, FillRoute(t)
  PROVE  Keeps
<1>1. PICK f \in Frames : f = Frame(t) /\ f.do = "fillRoute" /\ Runs(t, "fillRoute")
  BY Running DEF FillRoute
<1>2. f.name \in Int /\ f.auto \in BOOLEAN /\ f.done \in Seq(Int) /\ "route" \in Kinds /\ gen \in Nat
  BY <1>1, AdditionFrames DEF TypeOK, Kinds
<1>3. faults' \in 0 .. MaxFaults /\ raced' \subseteq {"listener", "route"} \X Int
  BY DEF FillRoute, TypeOK
<1>4. CASE Create("route", f.name, f.auto, f.done) /\ Await(t, <<>>) /\ gen' = gen
  BY <1>1, <1>2, <1>3, <1>4, NewObject, NothingLeft
<1>5. PICK c : c = WithName(Head(f.rest))
  OBVIOUS
<1>6. PICK g : g = [f EXCEPT !.done = Append(@, c.name), !.rest = Tail(@)]
  OBVIOUS
<1>7. CASE /\ f.rest # <<>> /\ CountName(Head(f.rest)) /\ UNCHANGED objects
           /\ Proceed(t, IF c.inline THEN <<[do |-> "addCluster", item |-> c, auto |-> TRUE], g>>
                         ELSE <<g>>)
  <2>1. Head(f.rest) \in Item
    BY <1>1, <1>7, NextFillings
  <2>2. c \in Item /\ c.name \in Int /\ gen' \in Nat
    BY <1>2, <1>5, <1>7, <2>1, NamedItem
  <2>3. g \in Frames /\ g.do = f.do
    BY <1>1, <1>6, <1>7, <2>2, NextFillings
  <2>4. PICK a \in Frames : a = [do |-> "addCluster", item |-> c, auto |-> TRUE]
    BY <2>2, NewFrames
  <2>5. a.do \in Plain /\ g.do \in Plain
    BY <1>1, <2>3, <2>4 DEF Plain
  <2>6. DataType' /\ Kept
    BY <1>3, <1>7, <2>2, UnchangedData
  <2>7. CASE c.inline
    <3>1. Proceed(t, <<a, g>>)
      BY <1>7, <2>4, <2>7
    <3>2. QED
      BY <1>1, <1>3, <2>3, <2>5, <2>6, <3>1, PairLeft, PlainKind
  <2>8. CASE ~c.inline
    <3>1. Proceed(t, <<g>>)
      BY <1>7, <2>8
    <3>2. QED
      BY <1>1, <1>3, <2>3, <2>5, <2>6, <3>1, SteadyLeft, PlainKind
  <2>9. QED
    BY <2>7, <2>8
<1>8. QED
  BY <1>1, <1>4, <1>5, <1>6, <1>7 DEF FillRoute

\* A cluster that is filled is on the list, and no other task runs meanwhile.
LEMMA FillingLegal ==
  ASSUME NEW t \in Tasks, NEW f, task'[t][1] = f, f.do = "fillCluster", turn' = t,
         f.id \in listed', KindOK(f)'
  PROVE  Legal(t, 1)'
BY DEF Legal, Allowed, Undisturbed, AtOnce, KindOK

LEMMA AddClusterKeeps ==
  ASSUME TypeOK, StackInv, NEW t \in Tasks, AddCluster(t)
  PROVE  Keeps
<1>1. PICK f \in Frames : f = Frame(t) /\ f.do = "addCluster" /\ Runs(t, "addCluster")
                            /\ turn \in {NoTask, t}
  BY Running DEF AddCluster
<1>2. /\ f.item \in Item /\ f.auto \in BOOLEAN /\ f.item.name \in Int /\ f.item.parts \in Seq(Items)
      /\ "cluster" \in Kinds /\ <<>> \in Seq(Int)
  BY <1>1, AdditionFrames, EmptySeq DEF Item, Kinds
<1>3. /\ gen' \in Nat /\ faults' \in 0 .. MaxFaults
      /\ raced' \subseteq {"listener", "route"} \X Int
  BY DEF AddCluster, TypeOK
<1>4. CASE UNCHANGED objects /\ Throw(t)
  BY <1>1, <1>3, <1>4, UnchangedData, ThrowKeeps DEF Keeps
<1>5. CASE /\ Create("cluster", f.item.name, f.auto, <<>>)
           /\ Proceed(t, <<[do |-> "fillCluster", id |-> made + 1, rest |-> f.item.parts]>>)
  <2>1. /\ DataType' /\ Kept /\ made + 1 \in Ids
        /\ obj'[made + 1] = [kind |-> "cluster", name |-> f.item.name, auto |-> f.auto, refs |-> <<>>]
    BY <1>2, <1>3, <1>5, NewObject
  <2>2. PICK g \in Frames : g = [do |-> "fillCluster", id |-> made + 1, rest |-> f.item.parts]
    BY <1>2, <2>1, NewFrames
  <2>3. Proceed(t, <<g>>) /\ g.do = "fillCluster" /\ KindOK(g)' /\ g.id \in listed'
    BY <1>5, <2>1, <2>2 DEF KindOK, Create
  <2>4. ControlType' /\ Moves(t, <<g>>)
    BY <1>1, <2>3, OneFrame, ProceedType
  <2>5. turn' = t
    BY <1>1, <2>3, OneFrame, KeepsTurn
  <2>6. Legal(t, 1)'
    BY <1>1, <2>3, <2>4, <2>5, NewFrame, FillingLegal
  <2>7. QED
    BY <1>1, <1>3, <2>1, <2>4, <2>6, OneLeft DEF Keeps
<1>6. QED
  BY <1>1, <1>4, <1>5 DEF AddCluster

LEMMA FillClusterKeeps ==
  ASSUME TypeOK, StackInv, NEW t \in Tasks, FillCluster(t)
  PROVE  Keeps
<1>1. PICK f \in Frames : f = Frame(t) /\ f.do = "fillCluster" /\ Runs(t, "fillCluster")
                            /\ f = task[t][1]
  BY Running DEF FillCluster
<1>2. f.id \in Ids /\ f.id \in listed /\ turn = t /\ KindOK(f) /\ obj[f.id].kind = "cluster"
  BY <1>1, AdditionFrames, FirstLegal DEF Undisturbed, AtOnce, KindOK
<1>3. faults' \in 0 .. MaxFaults /\ raced' = raced /\ gen \in Nat
  BY DEF FillCluster, TypeOK
<1>4. CASE Await(t, <<[do |-> "runCluster", id |-> f.id]>>) /\ UNCHANGED <<objects, gen>>
  <2>1. DataType' /\ Kept
    BY <1>3, <1>4, UnchangedData DEF TypeOK
  <2>2. PICK g \in Frames : g = [do |-> "runCluster", id |-> f.id]
    BY <1>2, NewFrames
  <2>3. KindOK(f)'
    BY <1>2, <2>1, FrameKept
  <2>4. g.do \in Steady /\ KindOK(g)' /\ Await(t, <<g>>)
    BY <1>1, <1>4, <2>2, <2>3 DEF Steady, KindOK
  <2>5. QED
    BY <1>1, <1>3, <2>1, <2>4, SteadyLeft
<1>5. PICK e : e = WithName(Head(f.rest))
  OBVIOUS
<1>6. CASE /\ f.rest # <<>> /\ CountName(Head(f.rest))
           /\ JoinEndPoint(e.name, The("cluster", obj[f.id].name))
           /\ Proceed(t, <<[f EXCEPT !.rest = Tail(@)]>>)
  <2>1. Head(f.rest) \in Item
    BY <1>1, <1>6, NextFillings
  <2>2. e.name \in Int /\ gen' \in Nat
    BY <1>3, <1>5, <1>6, <2>1, NamedItem
  <2>3. Defined("cluster", obj[f.id].name)
    BY <1>2 DEF Defined, Named
  <2>4. PICK c \in 1 .. made : c = The("cluster", obj[f.id].name)
    BY <2>3, TheIsNamed
  <2>5. DataType' /\ Kept /\ listed' = listed \union {made + 1}
    BY <1>3, <1>6, <2>2, <2>4, JoinType, TypeParts
  <2>6. PICK g \in Frames : g = [f EXCEPT !.rest = Tail(@)] /\ g.do = f.do /\ g.id = f.id
    BY <1>1, <1>6, NextFillings
  <2>7. Proceed(t, <<g>>) /\ g.id \in listed'
    BY <1>2, <1>6, <2>5, <2>6
  <2>8. KindOK(f)' /\ KindOK(g)'
    BY <1>1, <1>2, <2>5, <2>6, FrameKept DEF KindOK
  <2>9. ControlType' /\ Moves(t, <<g>>) /\ turn' = t
    BY <1>1, <2>7, OneFrame, ProceedType, KeepsTurn
  <2>10. Legal(t, 1)'
    BY <1>1, <2>6, <2>7, <2>8, <2>9, NewFrame, FillingLegal
  <2>11. QED
    BY <1>1, <1>3, <2>5, <2>9, <2>10, OneLeft DEF Keeps
<1>7. CASE up' = FALSE /\ UNCHANGED <<objects, gen, task, turn, calls, strays>>
  <2>1. DataType' /\ Kept
    BY <1>3, <1>7, UnchangedData DEF TypeOK
  <2>2. ControlType'
    BY <1>7 DEF ControlType, TypeOK
  <2>3. StackInv'
    BY <1>7, SameStacks
  <2>4. QED
    BY <1>3, <2>1, <2>2, <2>3, TypeParts DEF Keeps
<1>8. QED
  BY <1>1, <1>4, <1>5, <1>6, <1>7 DEF FillCluster

LEMMA RunClusterKeeps ==
  ASSUME TypeOK, StackInv, NEW t \in Tasks, RunCluster(t)
  PROVE  Keeps
<1>1. PICK f \in Frames : f = Frame(t) /\ f.do = "runCluster" /\ Runs(t, "runCluster")
  BY Running DEF RunCluster
<1>2. f.id \in Ids /\ obj[f.id].name \in Int
  BY <1>1, AdditionFrames DEF TypeOK, Objects
<1>3. DataType' /\ Kept
  BY UnchangedData DEF RunCluster, TypeOK
<1>4. PICK del \in Frames : del = [do |-> "deleteCluster", name |-> obj[f.id].name, rec |-> TRUE]
  BY <1>2, NewFrames DEF Targets
<1>5. PICK fail \in Frames : fail = [do |-> "fail"]
  BY NewFrames
<1>6. CASE Await(t, <<>>) /\ faults' = faults
  BY <1>1, <1>3, <1>6, NothingLeft DEF TypeOK
<1>7. CASE Proceed(t, <<del, fail>>) /\ faults' \in 0 .. MaxFaults
  <2>1. ControlType' /\ Moves(t, <<del, fail>>)
    BY <1>1, <1>7, OneFrame, ProceedType
  <2>2. task'[t][1] = del /\ task'[t][2] = fail /\ FinalFrame(t, 1)'
    BY <1>1, <1>5, <2>1, TwoNewFrames
  <2>3. Legal(t, 1)'
    BY <1>4, <2>2 DEF Legal, KindOK, Allowed, Spared, Undisturbed
  <2>4. Legal(t, 2)'
    BY <1>5, <2>2, SteadyLegal, PlainKind DEF Plain
  <2>5. QED
    BY <1>1, <1>3, <1>7, <2>1, <2>3, <2>4, TwoLeft DEF Keeps
<1>8. faults \in 0 .. MaxFaults
  BY DEF TypeOK
<1>9. QED
  BY <1>1, <1>4, <1>5, <1>6, <1>7, <1>8, FaultType DEF RunCluster

LEMMA AddEndPointKeeps ==
  ASSUME TypeOK, StackInv, NEW t \in Tasks, AddEndPoint(t)
  PROVE  Keeps
<1>1. PICK f \in Frames : f = Frame(t) /\ f.do = "addEndPoint" /\ Runs(t, "addEndPoint")
                            /\ turn \in {NoTask, t}
  BY Running DEF AddEndPoint
<1>2. f.name \in Int
  BY <1>1, AdditionFrames
<1>3. faults' \in 0 .. MaxFaults /\ raced' = raced /\ gen' = gen /\ gen' \in Nat
  BY DEF AddEndPoint, TypeOK
<1>4. CASE UNCHANGED objects /\ Throw(t)
  <2>1. DataType' /\ Kept
    BY <1>3, <1>4, UnchangedData DEF TypeOK
  <2>2. QED
    BY <1>1, <1>3, <1>4, <2>1, ThrowKeeps DEF Keeps
<1>5. CASE /\ Defined("cluster", f.cluster)
           /\ JoinEndPoint(f.name, The("cluster", f.cluster)) /\ Await(t, <<>>)
  <2>1. PICK c \in 1 .. made : c = The("cluster", f.cluster)
    BY <1>5, TheIsNamed
  <2>2. DataType' /\ Kept
    BY <1>2, <1>3, <1>5, <2>1, JoinType, TypeParts
  <2>3. QED
    BY <1>1, <1>3, <1>5, <2>2, NothingLeft
<1>6. QED
  BY <1>1, <1>4, <1>5 DEF AddEndPoint
LEMMA UnlistKeeps ==
  ASSUME TypeOK, StackInv, NEW t \in Tasks, Unlist(t)
  PROVE  Keeps
<1>1. Runs(t, "unlist") /\ listed' \subseteq listed /\ UNCHANGED <<made, gen, obj, faults, raced>>
  BY DEF Unlist
<1>2. DataType' /\ Kept
  BY <1>1, ListedType, TypeParts DEF TypeOK
<1>3. strays' \subseteq Ids
  BY <1>2, MadeAreIds DEF Unlist, LeavesStrays, Orphans, TypeOK
<1>4. Continue(t, <<>>, Same(t, <<>>)) /\ Same(t, <<>>) \in {NoTask, t}
  BY DEF Unlist, Same
<1>5. ControlType' /\ Moves(t, <<>>)
  BY <1>1, <1>3, <1>4, OneFrame, ContinueType
<1>6. faults' \in 0 .. MaxFaults
  BY <1>1 DEF TypeOK
<1>7. QED
  BY <1>1, <1>2, <1>5, <1>6, NoneLeft DEF Keeps

LEMMA ImplicitStays ==
  ASSUME TypeOK, NEW k, NEW n, Implicit(k, n)
  PROVE  n \in Int /\ (UNCHANGED objects => Implicit(k, n)')
<1>1. The(k, n) \in Ids /\ obj[The(k, n)].name = n
  BY TheIsNamed DEF Implicit
<1>2. n \in Int
  BY <1>1 DEF TypeOK, Objects
<1>3. ASSUME UNCHANGED objects PROVE Implicit(k, n)'
  <2>1. UNCHANGED <<obj, listed>>
    BY <1>3 DEF objects
  <2>2. Named(k, n)' = Named(k, n)
    BY <2>1 DEF Named
  <2>3. QED
    BY <2>1, <2>2 DEF Implicit, Defined, The
<1>4. QED
  BY <1>2, <1>3

LEMMA UnlistLegal ==
  ASSUME NEW t \in Tasks, NEW p, NEW u, task'[t][p] = u, u.do = "unlist",
         obj'[u.id].kind \in {"listener", "rulelist", "rule", "route"},
         FinalFrame(t, p)' \/ obj'[u.id].auto \/ obj'[u.id].kind = "rule"
  PROVE  Legal(t, p)'
BY DEF Legal, KindOK, Allowed, Undisturbed

\* A recursive deletion of what an object owns, which comes first, and of the object.
LEMMA OwnedFirst ==
  ASSUME TypeOK, StackInv, NEW t \in Tasks, NEW what, Runs(t, what), UNCHANGED <<objects, gen, raced>>,
         NEW i \in Ids, NEW k, NEW a \in Frames, Implicit(k, a.name),
         \/ k = "rulelist" /\ a.do = "deleteRuleList"
         \/ k = "route" /\ a.do = "deleteRoute",
         obj[i].kind \in {"listener", "rule"}, FinalFrame(t, 1) \/ obj[i].kind = "rule",
         Proceed(t, <<a, Unlisting(i, TRUE)>>), faults' \in 0 .. MaxFaults
  PROVE  Keeps
<1>1. DataType' /\ Kept
  BY UnchangedData DEF TypeOK
<1>2. Implicit(k, a.name)'
  BY ImplicitStays
<1>4. PICK u \in Frames : u = [do |-> "unlist", id |-> i, rec |-> TRUE]
  BY NewFrames
<1>5. Proceed(t, <<a, u>>)
  BY <1>4 DEF Unlisting
<1>6. ControlType' /\ Moves(t, <<a, u>>) /\ turn' = t
  BY <1>5, OneFrame, ProceedType, KeepsTurn
<1>7. task'[t][1] = a /\ task'[t][2] = u /\ (FinalFrame(t, 1) => FinalFrame(t, 2)')
  BY <1>6, TwoNewFrames
<1>8. Legal(t, 1)'
  BY <1>2, <1>6, <1>7 DEF Legal, KindOK, Allowed, Spared, Undisturbed, AtOnce
<1>9. Legal(t, 2)'
  <2>1. obj'[u.id].kind = obj[i].kind /\ u.do = "unlist"
    BY <1>4 DEF objects
  <2>2. QED
    BY <1>7, <2>1, UnlistLegal
<1>10. QED
  BY <1>1, <1>6, <1>8, <1>9, TwoLeft DEF Keeps

\* The object itself.
LEMMA ObjectAlone ==
  ASSUME TypeOK, StackInv, NEW t \in Tasks, NEW what, Runs(t, what), UNCHANGED <<objects, gen, raced>>,
         NEW i \in Ids, obj[i].kind \in {"listener", "rulelist", "rule", "route"},
         FinalFrame(t, 1) \/ obj[i].auto \/ obj[i].kind = "rule",
         NEW rec \in BOOLEAN, Proceed(t, <<Unlisting(i, rec)>>), faults' \in 0 .. MaxFaults
  PROVE  Keeps
<1>1. DataType' /\ Kept
  BY UnchangedData DEF TypeOK
<1>2. PICK u \in Frames : u = [do |-> "unlist", id |-> i, rec |-> rec]
  BY NewFrames
<1>3. Proceed(t, <<u>>)
  BY <1>2 DEF Unlisting
<1>4. ControlType' /\ Moves(t, <<u>>)
  BY <1>3, OneFrame, ProceedType
<1>5. task'[t][1] = u /\ (FinalFrame(t, 1) => FinalFrame(t, 1)')
  BY <1>4, NewFrame
<1>6. Legal(t, 1)'
  <2>1. obj'[u.id].kind = obj[i].kind /\ obj'[u.id].auto = obj[i].auto /\ u.do = "unlist"
    BY <1>2 DEF objects
  <2>2. QED
    BY <1>5, <2>1, UnlistLegal
<1>7. QED
  BY <1>1, <1>4, <1>6, OneLeft DEF Keeps

\* Nobody knows the name: the operation fails.
LEMMA UnknownName ==
  ASSUME TypeOK, StackInv, NEW t \in Tasks, NEW what, Runs(t, what), UNCHANGED <<objects, gen, raced>>,
         Throw(t), faults' \in 0 .. MaxFaults
  PROVE  Keeps
<1>1. DataType' /\ Kept
  BY UnchangedData DEF TypeOK
<1>2. QED
  BY <1>1, Running, ThrowKeeps DEF Keeps

LEMMA DeleteListenerKeeps ==
  ASSUME TypeOK, StackInv, NEW t \in Tasks, DeleteListener(t)
  PROVE  Keeps
<1>1. PICK f \in Frames : /\ f = Frame(t) /\ f.do = "deleteListener" /\ Runs(t, "deleteListener")
                          /\ f = task[t][1]
  BY Running DEF DeleteListener
<1>2. UNCHANGED <<objects, gen, raced>> /\ faults' \in 0 .. MaxFaults /\ f.rec \in BOOLEAN
  BY <1>1, DeletionFrames DEF DeleteListener, TypeOK, Targets
<1>3. FinalFrame(t, 1)
  BY <1>1, FirstLegal DEF Allowed
<1>4. CASE ~Defined("listener", f.name)
  BY <1>1, <1>2, <1>4, UnknownName DEF DeleteListener
<1>5. CASE Defined("listener", f.name)
  <2>1. PICK i \in Ids : i = The("listener", f.name) /\ obj[i].kind = "listener"
    BY <1>5, TheIsNamed
  <2>2. CASE f.rec /\ Implicit("rulelist", obj[i].refs[1])
    <3>0. PICK a \in Frames : a = [do |-> "deleteRuleList", name |-> obj[i].refs[1], rec |-> TRUE]
      BY <2>2, ImplicitStays, NewFrames DEF Targets
    <3>1. Proceed(t, <<a, Unlisting(i, TRUE)>>) /\ a.do = "deleteRuleList"
      BY <1>1, <1>5, <2>1, <2>2, <3>0 DEF DeleteListener
    <3>1a. Implicit("rulelist", a.name)
      BY <2>2, <3>0
    <3>2. QED
      BY <1>1, <1>2, <1>3, <2>1, <3>1, <3>1a, OwnedFirst
  <2>3. CASE ~(f.rec /\ Implicit("rulelist", obj[i].refs[1]))
    <3>1. Proceed(t, <<Unlisting(i, f.rec)>>)
      BY <1>1, <1>5, <2>1, <2>3 DEF DeleteListener
    <3>2. QED
      BY <1>1, <1>2, <1>3, <2>1, <3>1, ObjectAlone
  <2>4. QED
    BY <2>2, <2>3
<1>6. QED
  BY <1>4, <1>5

LEMMA DeleteRuleKeeps ==
  ASSUME TypeOK, StackInv, NEW t \in Tasks, DeleteRule(t)
  PROVE  Keeps
<1>1. PICK f \in Frames : f = Frame(t) /\ f.do = "deleteRule" /\ Runs(t, "deleteRule")
  BY Running DEF DeleteRule
<1>2. UNCHANGED <<objects, gen, raced>> /\ faults' \in 0 .. MaxFaults /\ f.rec \in BOOLEAN
  BY <1>1, DeletionFrames DEF DeleteRule, TypeOK, Targets
<1>3. CASE ~Defined("rule", f.name)
  BY <1>1, <1>2, <1>3, UnknownName DEF DeleteRule
<1>4. CASE Defined("rule", f.name)
  <2>1. PICK i \in Ids : i = The("rule", f.name) /\ obj[i].kind = "rule"
    BY <1>4, TheIsNamed
  <2>2. CASE f.rec /\ obj[i].refs # <<>> /\ Implicit("route", obj[i].refs[1])
    <3>0. PICK a \in Frames : a = [do |-> "deleteRoute", name |-> obj[i].refs[1], rec |-> TRUE]
      BY <2>2, ImplicitStays, NewFrames DEF Targets
    <3>1. Proceed(t, <<a, Unlisting(i, TRUE)>>) /\ a.do = "deleteRoute"
      BY <1>1, <1>4, <2>1, <2>2, <3>0 DEF DeleteRule
    <3>1a. Implicit("route", a.name)
      BY <2>2, <3>0
    <3>2. QED
      BY <1>1, <1>2, <2>1, <3>1, <3>1a, OwnedFirst
  <2>3. CASE ~(f.rec /\ obj[i].refs # <<>> /\ Implicit("route", obj[i].refs[1]))
    <3>1. Proceed(t, <<Unlisting(i, f.rec)>>)
      BY <1>1, <1>4, <2>1, <2>3 DEF DeleteRule
    <3>2. QED
      BY <1>1, <1>2, <2>1, <3>1, ObjectAlone
  <2>4. QED
    BY <2>2, <2>3
<1>5. QED
  BY <1>3, <1>4

\* The loop over what an object owns begins.
LEMMA LoopLegal ==
  ASSUME NEW t \in Tasks, NEW p, NEW g, task'[t][p] = g, g.do \in {"rulesOf", "clustersOf"}, KindOK(g)',
         FinalFrame(t, p)' \/ obj'[g.id].auto
  PROVE  Legal(t, p)'
BY DEF Legal, KindOK, Allowed, Undisturbed

LEMMA LoopBegins ==
  ASSUME TypeOK, StackInv, NEW t \in Tasks, NEW what, Runs(t, what), UNCHANGED <<objects, gen, raced>>,
         NEW i \in Ids, FinalFrame(t, 1) \/ obj[i].auto,
         NEW g \in Frames, g.id = i, g.do \in {"rulesOf", "clustersOf"}, KindOK(g),
         Proceed(t, <<g>>), faults' \in 0 .. MaxFaults
  PROVE  Keeps
<1>1. DataType' /\ Kept
  BY UnchangedData DEF TypeOK
<1>2. ControlType' /\ Moves(t, <<g>>)
  BY OneFrame, ProceedType
<1>3. task'[t][1] = g /\ (FinalFrame(t, 1) => FinalFrame(t, 1)')
  BY <1>2, NewFrame
<1>4. KindOK(g)' /\ obj'[g.id].auto = obj[i].auto
  BY <1>1, FrameKept
<1>5. Legal(t, 1)'
  BY <1>3, <1>4, LoopLegal
<1>6. QED
  BY <1>1, <1>2, <1>5, OneLeft DEF Keeps

LEMMA DeleteRuleListKeeps ==
  ASSUME TypeOK, StackInv, NEW t \in Tasks, DeleteRuleList(t)
  PROVE  Keeps
<1>1. PICK f \in Frames : /\ f = Frame(t) /\ f.do = "deleteRuleList" /\ Runs(t, "deleteRuleList")
                          /\ f = task[t][1]
  BY Running DEF DeleteRuleList
<1>2. UNCHANGED <<objects, gen, raced>> /\ faults' \in 0 .. MaxFaults
  BY DEF DeleteRuleList, TypeOK
<1>3. Spared(t, 1, "rulelist", f.name)
  BY <1>1, FirstLegal DEF Allowed
<1>4. CASE ~Defined("rulelist", f.name)
  BY <1>1, <1>2, <1>4, UnknownName DEF DeleteRuleList
<1>5. CASE Defined("rulelist", f.name)
  <2>1. PICK i \in Ids : i = The("rulelist", f.name) /\ obj[i].kind = "rulelist"
    BY <1>5, TheIsNamed
  <2>2. FinalFrame(t, 1) \/ obj[i].auto
    BY <1>3, <2>1 DEF Spared, Implicit
  <2>3. CASE f.rec
    <3>1. obj[i].refs \in Seq(Int)
      BY DEF TypeOK, Objects
    <3>2. PICK g \in Frames : g = [do |-> "rulesOf", id |-> i, rest |-> obj[i].refs]
      BY <3>1, NewFrames
    <3>3. Proceed(t, <<g>>) /\ KindOK(g) /\ g.id = i /\ g.do = "rulesOf"
      BY <1>1, <1>5, <2>1, <2>3, <3>2 DEF DeleteRuleList, KindOK
    <3>4. QED
      BY <1>1, <1>2, <2>2, <3>3, LoopBegins
  <2>4. CASE ~f.rec
    <3>1. Proceed(t, <<Unlisting(i, FALSE)>>)
      BY <1>1, <1>5, <2>1, <2>4 DEF DeleteRuleList
    <3>2. QED
      BY <1>1, <1>2, <2>1, <2>2, <3>1, ObjectAlone
  <2>5. QED
    BY <2>3, <2>4
<1>6. QED
  BY <1>4, <1>5

LEMMA DeleteRouteKeeps ==
  ASSUME TypeOK, StackInv, NEW t \in Tasks, DeleteRoute(t)
  PROVE  Keeps
<1>1. PICK f \in Frames : /\ f = Frame(t) /\ f.do = "deleteRoute" /\ Runs(t, "deleteRoute")
                          /\ f = task[t][1]
  BY Running DEF DeleteRoute
<1>2. UNCHANGED <<objects, gen, raced>> /\ faults' \in 0 .. MaxFaults
  BY DEF DeleteRoute, TypeOK
<1>3. Spared(t, 1, "route", f.name)
  BY <1>1, FirstLegal DEF Allowed
<1>4. CASE ~Defined("route", f.name)
  BY <1>1, <1>2, <1>4, UnknownName DEF DeleteRoute
<1>5. CASE Defined("route", f.name)
  <2>1. PICK i \in Ids : i = The("route", f.name) /\ obj[i].kind = "route"
    BY <1>5, TheIsNamed
  <2>2. FinalFrame(t, 1) \/ obj[i].auto
    BY <1>3, <2>1 DEF Spared, Implicit
  <2>3. CASE f.rec
    <3>1. obj[i].refs \in Seq(Int)
      BY DEF TypeOK, Objects
    <3>2. PICK g \in Frames : g = [do |-> "clustersOf", id |-> i, rest |-> obj[i].refs]
      BY <3>1, NewFrames
    <3>3. Proceed(t, <<g>>) /\ KindOK(g) /\ g.id = i /\ g.do = "clustersOf"
      BY <1>1, <1>5, <2>1, <2>3, <3>2 DEF DeleteRoute, KindOK
    <3>4. QED
      BY <1>1, <1>2, <2>2, <3>3, LoopBegins
  <2>4. CASE ~f.rec
    <3>1. Proceed(t, <<Unlisting(i, FALSE)>>)
      BY <1>1, <1>5, <2>1, <2>4 DEF DeleteRoute
    <3>2. QED
      BY <1>1, <1>2, <2>1, <2>2, <3>1, ObjectAlone
  <2>5. QED
    BY <2>3, <2>4
<1>6. QED
  BY <1>4, <1>5

LEMMA RulesOfKeeps ==
  ASSUME TypeOK, StackInv, NEW t \in Tasks, RulesOf(t)
  PROVE  Keeps
<1>1. PICK f \in Frames : /\ f = Frame(t) /\ f.do = "rulesOf" /\ Runs(t, "rulesOf")
                          /\ f = task[t][1]
  BY Running DEF RulesOf
<1>2. /\ UNCHANGED <<gen, raced>> /\ faults' \in 0 .. MaxFaults
      /\ f.id \in Ids /\ f.rest \in Seq(Int) /\ obj[f.id].refs \in Seq(Int)
  BY <1>1, DeletionFrames DEF RulesOf, TypeOK, Objects
<1>3. (FinalFrame(t, 1) \/ obj[f.id].auto) /\ KindOK(f) /\ obj[f.id].kind = "rulelist"
  BY <1>1, FirstLegal DEF Allowed, KindOK
<1>4. CASE f.rest = <<>> /\ Proceed(t, <<Unlisting(f.id, TRUE)>>) /\ UNCHANGED objects
  BY <1>1, <1>2, <1>3, <1>4, ObjectAlone
<1>5. CASE /\ f.rest # <<>>
           /\ IF Implicit("rule", Head(f.rest))
              THEN Refer(f.id, Without(obj[f.id].refs, Head(f.rest))) ELSE UNCHANGED objects
           /\ Proceed(t, <<[do |-> "deleteRule", name |-> Head(f.rest), rec |-> TRUE],
                           [f EXCEPT !.rest = Tail(@)]>>)
  <2>1. PICK g \in Frames : /\ g = [f EXCEPT !.rest = Tail(@)] /\ g.do = f.do /\ g.id = f.id
                            /\ Head(f.rest) \in Int
    BY <1>1, <1>5, NextFrames
  <2>2. PICK d \in Frames : d = [do |-> "deleteRule", name |-> Head(f.rest), rec |-> TRUE]
    BY <2>1, NewFrames DEF Targets
  <2>3. Without(obj[f.id].refs, Head(f.rest)) \in Seq(Int)
    BY <1>2, WithoutElement
  <2>4. DataType' /\ Kept
    <3>1. CASE Refer(f.id, Without(obj[f.id].refs, Head(f.rest)))
      BY <1>2, <2>3, <3>1, ReferType, TypeParts
    <3>2. CASE UNCHANGED objects
      BY <1>2, <3>2, UnchangedData DEF TypeOK
    <3>3. QED
      BY <1>5, <3>1, <3>2
  <2>5. ControlType' /\ Moves(t, <<d, g>>)
    BY <1>1, <1>5, <2>1, <2>2, OneFrame, ProceedType
  <2>6. task'[t][1] = d /\ task'[t][2] = g /\ (FinalFrame(t, 1) => FinalFrame(t, 2)')
    BY <1>1, <2>5, TwoNewFrames
  <2>7. KindOK(f)' /\ obj'[f.id].auto = obj[f.id].auto
    BY <1>1, <1>3, <2>4, FrameKept
  <2>8. Legal(t, 1)'
    BY <2>2, <2>6, SteadyLegal, PlainKind DEF Plain
  <2>9. Legal(t, 2)'
    <3>1. KindOK(g)'
      BY <1>1, <2>1, <2>7 DEF KindOK
    <3>2. FinalFrame(t, 2)' \/ obj'[g.id].auto
      BY <1>3, <2>1, <2>6, <2>7
    <3>3. QED
      BY <1>1, <2>1, <2>6, <3>1, <3>2, LoopLegal
  <2>10. QED
    BY <1>1, <1>2, <2>4, <2>5, <2>8, <2>9, TwoLeft DEF Keeps
<1>6. QED
  BY <1>1, <1>4, <1>5 DEF RulesOf

LEMMA DeleteRuleFromRuleListKeeps ==
  ASSUME TypeOK, StackInv, NEW t \in Tasks, DeleteRuleFromRuleList(t)
  PROVE  Keeps
<1>1. PICK f \in Frames : /\ f = Frame(t) /\ f.do = "deleteRuleFromRuleList"
                          /\ Runs(t, "deleteRuleFromRuleList")
  BY Running DEF DeleteRuleFromRuleList
<1>2. /\ UNCHANGED <<objects, gen, raced>> /\ faults' \in 0 .. MaxFaults
      /\ f.pos \in Nat /\ f.rec \in BOOLEAN
  BY <1>1, DeletionFrames DEF DeleteRuleFromRuleList, TypeOK
<1>3. DataType' /\ Kept
  BY <1>2, UnchangedData DEF TypeOK
<1>4. PICK i : i = The("rulelist", f.name)
  OBVIOUS
<1>5. PICK n : n = Len(obj[i].refs)
  OBVIOUS
<1>6. CASE ~Defined("rulelist", f.name) \/ f.pos > n \/ (f.rec /\ f.pos = n)
  BY <1>1, <1>2, <1>4, <1>5, <1>6, UnknownName DEF DeleteRuleFromRuleList
<1>7. CASE ~(~Defined("rulelist", f.name) \/ f.pos > n \/ (f.rec /\ f.pos = n))
  <2>1. i \in Ids /\ obj[i].kind = "rulelist" /\ obj[i].refs \in Seq(Int) /\ n \in Nat
    BY <1>4, <1>5, <1>7, TheIsNamed, LenProperties DEF TypeOK, Objects
  <2>2. PICK r \in Frames : r = [do |-> "removeRule", id |-> i, pos |-> f.pos, rec |-> f.rec]
    BY <1>2, <2>1, NewFrames
  <2>3. r.do \in Steady /\ KindOK(r)'
    BY <1>2, <2>1, <2>2 DEF Steady, KindOK, objects
  <2>4. CASE f.rec
    <3>1. f.pos + 1 \in 1 .. n
      BY <1>2, <1>7, <2>1, <2>4
    <3>2. obj[i].refs[f.pos + 1] \in Int
      BY <1>5, <2>1, <3>1, ElementOfSeq
    <3>3. PICK d \in Frames :
            d = [do |-> "deleteRule", name |-> obj[i].refs[f.pos + 1], rec |-> TRUE]
      BY <3>2, NewFrames DEF Targets
    <3>4. Proceed(t, <<d, r>>)
      BY <1>1, <1>4, <1>5, <1>7, <2>2, <2>4, <3>3 DEF DeleteRuleFromRuleList
    <3>5. d.do \in Plain
      BY <3>3 DEF Plain
    <3>6. QED
      BY <1>1, <1>2, <1>3, <2>3, <3>4, <3>5, PairLeft, PlainKind
  <2>5. CASE ~f.rec
    <3>1. Proceed(t, <<r>>)
      BY <1>1, <1>4, <1>5, <1>7, <2>2, <2>5 DEF DeleteRuleFromRuleList
    <3>2. QED
      BY <1>1, <1>2, <1>3, <2>3, <3>1, SteadyLeft
  <2>6. QED
    BY <2>4, <2>5
<1>8. QED
  BY <1>6, <1>7

LEMMA RemoveRuleKeeps ==
  ASSUME TypeOK, StackInv, NEW t \in Tasks, RemoveRule(t)
  PROVE  Keeps
<1>1. PICK f \in Frames : f = Frame(t) /\ f.do = "removeRule" /\ Runs(t, "removeRule")
  BY Running DEF RemoveRule
<1>2. f.id \in Ids /\ f.pos \in Nat
  BY <1>1, DeletionFrames
<1>3. obj[f.id].refs \in Seq(Int)
  BY <1>2 DEF TypeOK, Objects
<1>4. PICK refs \in Seq(Int) : refs = RemoveAt(obj[f.id].refs, f.pos)
  BY <1>2, <1>3, Removed
<1>5. PICK next \in {NoTask, t} : next = Same(t, <<>>)
  BY DEF Same
<1>6. Refer(f.id, refs) /\ Continue(t, <<>>, next) /\ UNCHANGED <<gen, faults, raced>>
  BY <1>1, <1>4, <1>5 DEF RemoveRule
<1>7. UNCHANGED strays \/ LeavesStrays
  BY DEF RemoveRule
<1>8. QED
  BY <1>1, <1>2, <1>6, <1>7, ReferKeeps

LEMMA ClustersOfKeeps ==
  ASSUME TypeOK, StackInv, NEW t \in Tasks, ClustersOf(t)
  PROVE  Keeps
<1>1. PICK f \in Frames : /\ f = Frame(t) /\ f.do = "clustersOf" /\ Runs(t, "clustersOf")
                          /\ f = task[t][1]
  BY Running DEF ClustersOf
<1>2. UNCHANGED <<objects, gen, raced>> /\ faults' \in 0 .. MaxFaults /\ f.id \in Ids
  BY <1>1, DeletionFrames DEF ClustersOf, TypeOK
<1>3. (FinalFrame(t, 1) \/ obj[f.id].auto) /\ KindOK(f) /\ obj[f.id].kind = "route"
  BY <1>1, FirstLegal DEF Allowed, KindOK
<1>4. CASE f.rest = <<>>
  <2>1. Proceed(t, <<Unlisting(f.id, TRUE)>>)
    BY <1>1, <1>4 DEF ClustersOf
  <2>2. QED
    BY <1>1, <1>2, <1>3, <2>1, ObjectAlone
<1>5. CASE f.rest # <<>>
  <2>1. PICK g \in Frames : g = [f EXCEPT !.rest = Tail(@)] /\ g.do = f.do /\ g.id = f.id
    BY <1>1, <1>5, NextFrames
  <2>2. KindOK(g)
    BY <1>1, <1>3, <2>1 DEF KindOK
  <2>3. CASE Implicit("cluster", Head(f.rest))
    <3>1. PICK d \in Frames : d = [do |-> "deleteCluster", name |-> Head(f.rest), rec |-> TRUE]
      BY <2>3, ImplicitStays, NewFrames DEF Targets
    <3>2. Proceed(t, <<d, g>>)
      BY <1>1, <1>5, <2>1, <2>3, <3>1 DEF ClustersOf
    <3>3. ControlType' /\ Moves(t, <<d, g>>) /\ turn' = t
      BY <1>1, <3>2, OneFrame, ProceedType, KeepsTurn
    <3>4. task'[t][1] = d /\ task'[t][2] = g /\ (FinalFrame(t, 1) => FinalFrame(t, 2)')
      BY <1>1, <3>3, TwoNewFrames
    <3>5. DataType' /\ Kept
      BY <1>2, UnchangedData DEF TypeOK
    <3>6. Implicit("cluster", d.name)'
      BY <1>2, <2>3, <3>1, ImplicitStays
    <3>7. Legal(t, 1)'
      BY <3>1, <3>3, <3>4, <3>6 DEF Legal, KindOK, Allowed, Spared, Undisturbed, AtOnce
    <3>8. KindOK(g)' /\ obj'[g.id].auto = obj[f.id].auto
      BY <1>1, <2>1, <2>2, <3>5, FrameKept
    <3>9. Legal(t, 2)'
      BY <1>1, <1>3, <2>1, <3>4, <3>8, LoopLegal
    <3>10. QED
      BY <1>1, <1>2, <3>3, <3>5, <3>7, <3>9, TwoLeft DEF Keeps
  <2>4. CASE ~Implicit("cluster", Head(f.rest))
    <3>1. Proceed(t, <<g>>)
      BY <1>1, <1>5, <2>1, <2>4 DEF ClustersOf
    <3>2. g.do \in {"rulesOf", "clustersOf"}
      BY <1>1, <2>1
    <3>3. QED
      BY <1>1, <1>2, <1>3, <2>1, <2>2, <3>1, <3>2, LoopBegins
  <2>5. QED
    BY <2>3, <2>4
<1>6. QED
  BY <1>4, <1>5

LEMMA DeleteClusterKeeps ==
  ASSUME TypeOK, StackInv, NEW t \in Tasks, DeleteCluster(t)
  PROVE  Keeps
<1>1. PICK f \in Frames : /\ f = Frame(t) /\ f.do = "deleteCluster" /\ Runs(t, "deleteCluster")
                          /\ f = task[t][1]
  BY Running DEF DeleteCluster
<1>2. UNCHANGED <<objects, gen, raced>> /\ f.rec \in BOOLEAN
  BY <1>1, DeletionFrames DEF DeleteCluster, Targets
<1>3. faults' \in 0 .. MaxFaults
  BY FaultType DEF DeleteCluster, TypeOK
<1>4. Spared(t, 1, "cluster", f.name)
  BY <1>1, FirstLegal DEF Allowed
<1>5. CASE Throw(t)
  BY <1>1, <1>2, <1>3, <1>5, UnknownName
<1>6. PICK i : i = The("cluster", f.name)
  OBVIOUS
<1>7. CASE /\ Defined("cluster", f.name)
           /\ Proceed(t, <<[do |-> "endpointsOf", id |-> i, rest |-> obj[i].refs, rec |-> f.rec]>>)
  <2>1. i \in Ids /\ i \in listed /\ obj[i].kind = "cluster" /\ obj[i].refs \in Seq(Int)
    BY <1>6, <1>7, TheIsNamed DEF TypeOK, Objects
  <2>2. PICK g \in Frames : g = [do |-> "endpointsOf", id |-> i, rest |-> obj[i].refs, rec |-> f.rec]
    BY <1>2, <2>1, NewFrames
  <2>3. FinalFrame(t, 1) \/ obj[i].auto
    BY <1>4, <1>6 DEF Spared, Implicit
  <2>4. ControlType' /\ Moves(t, <<g>>) /\ turn' = t
    BY <1>1, <1>7, <2>2, OneFrame, ProceedType, KeepsTurn
  <2>5. task'[t][1] = g /\ (FinalFrame(t, 1) => FinalFrame(t, 1)')
    BY <1>1, <2>4, NewFrame
  <2>6. DataType' /\ Kept
    BY <1>2, UnchangedData DEF TypeOK
  <2>7. obj' = obj /\ listed' = listed
    BY <1>2 DEF objects
  <2>8. KindOK(g)'
    BY <2>1, <2>2, <2>7 DEF KindOK
  <2>9. Legal(t, 1)'
    BY <2>1, <2>2, <2>3, <2>4, <2>5, <2>7, <2>8 DEF Legal, Allowed, Undisturbed, AtOnce
  <2>10. QED
    BY <1>1, <1>3, <2>4, <2>6, <2>9, OneLeft DEF Keeps
<1>8. QED
  BY <1>1, <1>5, <1>6, <1>7 DEF DeleteCluster

LEMMA RethrowKeeps ==
  ASSUME TypeOK, StackInv, NEW t \in Tasks, Rethrow(t)
  PROVE  Keeps
<1>1. Fails(t) /\ faults' \in 0 .. MaxFaults /\ turn \in {NoTask, t}
  BY DEF Rethrow, Runs, TypeOK
<1>2. QED
  BY <1>1, FailsKeeps DEF Keeps
-----------------------------------------------------------------------------
(* Clusters and their endpoints.                                           *)

\* An endpoint is on the list of the cluster it names; what is on the list of a cluster
\* is there once, and names an endpoint of that cluster.
AtHome(e) ==
  \E c \in listed : obj[c].kind = "cluster" /\ obj[e].refs = <<obj[c].name>>
                      /\ obj[e].name \in Elements(obj[c].refs)

Populated(c) ==
  /\ Distinct(obj[c].refs)
  /\ \A n \in Elements(obj[c].refs) : \E e \in Named("endpoint", n) : obj[e].refs = <<obj[c].name>>

MembersInv ==
  \A i \in listed : /\ obj[i].kind = "endpoint" => AtHome(i)
                    /\ obj[i].kind = "cluster" => Populated(i)

\* Names of objects that nobody defines twice at the same time find the only object.
LEMMA OnlyOne ==
  ASSUME TypeOK, UniqueNames, NEW i \in listed, obj[i].kind \notin {"listener", "route"}
  PROVE  /\ Defined(obj[i].kind, obj[i].name) /\ The(obj[i].kind, obj[i].name) = i
         /\ \A j \in listed : obj[j].kind = obj[i].kind /\ obj[j].name = obj[i].name => j = i
<1>1. \A j \in listed : obj[j].kind = obj[i].kind /\ obj[j].name = obj[i].name => j = i
  BY DEF UniqueNames, TypeOK
<1>2. Defined(obj[i].kind, obj[i].name)
  BY DEF Defined, Named
<1>3. PICK j \in listed : j = The(obj[i].kind, obj[i].name) /\ obj[j].kind = obj[i].kind
                          /\ obj[j].name = obj[i].name
  BY <1>2, TheIsNamed
<1>4. QED
  BY <1>1, <1>2, <1>3

\* An endpoint e of name n leaves its cluster c.
Departs(n, e, c) ==
  /\ e = The("endpoint", n) /\ obj[e].kind = "endpoint" /\ obj[e].name = n
  /\ obj[c].kind = "cluster" /\ obj[e].refs = <<obj[c].name>>
  /\ n \in Elements(obj[c].refs) /\ Distinct(obj[c].refs) /\ obj[c].refs \in Seq(Int)
  /\ listed' = listed \ {e}
  /\ obj'[c] = [obj[c] EXCEPT !.refs = Without(obj[c].refs, n)]
  /\ \A i \in Ids : i # c => obj'[i] = obj[i]

LEMMA Leaving ==
  ASSUME TypeOK, UniqueNames, MembersInv, NEW n, Defined("endpoint", n), LeaveEndPoint(n)
  PROVE  \E e, c \in listed : Departs(n, e, c)
<1>1. PICK e \in listed : e = The("endpoint", n) /\ obj[e].kind = "endpoint" /\ obj[e].name = n
  BY TheIsNamed
<1>2. PICK c \in listed : /\ obj[c].kind = "cluster" /\ obj[e].refs = <<obj[c].name>>
                          /\ n \in Elements(obj[c].refs)
  BY <1>1 DEF MembersInv, AtHome
<1>3. obj[e].refs[1] = obj[c].name
  BY <1>2
<1>4. The("cluster", obj[e].refs[1]) = c
  BY <1>2, <1>3, OnlyOne
<1>5. c \in Ids /\ Distinct(obj[c].refs) /\ obj[c].refs \in Seq(Int)
  BY <1>2, MadeAreIds, TypeParts DEF MembersInv, Populated, TypeOK, Objects
<1>6. obj' = [obj EXCEPT ![c].refs = Without(obj[c].refs, n)] /\ listed' = listed \ {e}
  BY <1>1, <1>4 DEF LeaveEndPoint
<1>7. obj \in [Ids -> Objects]
  BY DEF TypeOK
<1>8. obj'[c] = [obj[c] EXCEPT !.refs = Without(obj[c].refs, n)]
  BY <1>5, <1>6, <1>7
<1>9. \A i \in Ids : i # c => obj'[i] = obj[i]
  BY <1>6, <1>7
<1>10. QED
  BY <1>1, <1>2, <1>5, <1>6, <1>8, <1>9 DEF Departs

LEMMA EndPointsOfKeeps ==
  ASSUME TypeOK, StackInv, UniqueNames, MembersInv, NEW t \in Tasks, EndPointsOf(t)
  PROVE  Keeps
<1>1. PICK f \in Frames : /\ f = Frame(t) /\ f.do = "endpointsOf" /\ Runs(t, "endpointsOf")
                          /\ f = task[t][1] /\ turn \in {NoTask, t}
  BY Running DEF EndPointsOf
<1>2. /\ gen' = gen /\ raced' = raced /\ gen' \in Nat
      /\ f.id \in Ids /\ f.rest \in Seq(Int) /\ f.rec \in BOOLEAN
  BY <1>1, DeletionFrames DEF EndPointsOf, TypeOK
<1>3. /\ FinalFrame(t, 1) \/ obj[f.id].auto
      /\ obj[f.id].kind = "cluster" /\ f.id \in listed /\ obj[f.id].refs = f.rest /\ KindOK(f)
  BY <1>1, FirstLegal DEF Allowed, KindOK, Undisturbed
<1>4. faults' \in 0 .. MaxFaults
  BY FaultType DEF EndPointsOf, DropEndPoint, TypeOK
<1>5. CASE f.rest = <<>> /\ Proceed(t, <<Unlisting(f.id, f.rec)>>) /\ UNCHANGED objects
  <2>1. PICK u \in Frames : u = [do |-> "unlist", id |-> f.id, rec |-> f.rec]
    BY <1>2, NewFrames
  <2>2. Proceed(t, <<u>>)
    BY <1>5, <2>1 DEF Unlisting
  <2>3. ControlType' /\ Moves(t, <<u>>) /\ turn' = t
    BY <1>1, <2>2, OneFrame, ProceedType, KeepsTurn
  <2>4. task'[t][1] = u /\ (FinalFrame(t, 1) => FinalFrame(t, 1)')
    BY <1>1, <2>3, NewFrame
  <2>5. DataType' /\ Kept
    BY <1>2, <1>5, UnchangedData DEF TypeOK
  <2>6. obj' = obj
    BY <1>5 DEF objects
  <2>7. Legal(t, 1)'
    BY <1>3, <1>5, <2>1, <2>3, <2>4, <2>6 DEF Legal, KindOK, Allowed, Undisturbed, AtOnce
  <2>8. QED
    BY <1>1, <1>4, <2>3, <2>5, <2>7, OneLeft DEF Keeps
<1>6. CASE Throw(t) /\ (UNCHANGED objects \/ LeaveEndPoint(Head(f.rest)))
  <2>1. DataType' /\ Kept
    BY <1>2, <1>6, UnchangedData, LeaveType, TypeParts DEF TypeOK
  <2>2. QED
    BY <1>1, <1>4, <1>6, <2>1, ThrowKeeps DEF Keeps
<1>7. CASE /\ f.rest # <<>> /\ Defined("endpoint", Head(f.rest)) /\ LeaveEndPoint(Head(f.rest))
           /\ Proceed(t, <<[f EXCEPT !.rest = Tail(@)]>>)
  <2>1. PICK n : n = Head(f.rest)
    OBVIOUS
  <2>2. PICK e, c \in listed : Departs(n, e, c)
    <3>1. Defined("endpoint", n) /\ LeaveEndPoint(n)
      BY <1>7, <2>1
    <3>2. QED
      BY <3>1, Leaving
  <2>3. n \in Elements(f.rest)
    <3>1. Len(f.rest) \in Nat \ {0} /\ n = f.rest[1]
      BY <1>2, <1>7, <2>1, EmptySeq
    <3>2. 1 \in 1 .. Len(f.rest)
      BY <3>1
    <3>3. QED
      BY <1>2, <3>1, <3>2, ElementsOf
  <2>4. PICK d \in Named("endpoint", n) : obj[d].refs = <<obj[f.id].name>>
    BY <1>3, <2>3 DEF MembersInv, Populated
  <2>5. d = e
    <3>1. d \in listed /\ obj[d].kind = "endpoint" /\ obj[d].name = n
      BY <2>4 DEF Named
    <3>2. QED
      BY <2>2, <3>1, OnlyOne DEF Departs
  <2>6. obj[c].name = obj[f.id].name
    <3>1. <<obj[c].name>>[1] = <<obj[f.id].name>>[1]
      BY <2>2, <2>4, <2>5 DEF Departs
    <3>2. QED
      BY <3>1
  <2>7. c = f.id
    BY <1>3, <2>2, <2>6, OnlyOne DEF Departs
  <2>8. obj[f.id] \in Objects
    BY <1>2 DEF TypeOK
  <2>9. obj'[f.id].refs = Tail(f.rest)
    <3>1. Without(f.rest, Head(f.rest)) = Tail(f.rest)
      BY <1>2, <1>7, WithoutHead
    <3>2. QED
      BY <1>3, <2>1, <2>2, <2>7, <2>8, <3>1 DEF Objects, Departs
  <2>10. f.id \in listed'
    BY <1>3, <2>2 DEF Departs
  <2>11. DataType' /\ Kept
    BY <1>2, <1>7, LeaveType, TypeParts
  <2>12. PICK g \in Frames : /\ g = [f EXCEPT !.rest = Tail(@)] /\ g.do = f.do /\ g.id = f.id
                             /\ g.rest = Tail(f.rest)
    BY <1>1, <1>7, NextFrames
  <2>13. Proceed(t, <<g>>)
    BY <1>7, <2>12
  <2>14. ControlType' /\ Moves(t, <<g>>) /\ turn' = t
    BY <1>1, <2>13, OneFrame, ProceedType, KeepsTurn
  <2>15. task'[t][1] = g /\ (FinalFrame(t, 1) => FinalFrame(t, 1)')
    BY <1>1, <2>14, NewFrame
  <2>16. KindOK(f)' /\ obj'[f.id].auto = obj[f.id].auto
    BY <1>1, <1>3, <2>11, FrameKept
  <2>17. KindOK(g)'
    BY <1>1, <2>12, <2>16 DEF KindOK
  <2>18. Legal(t, 1)'
    BY <1>1, <1>3, <2>9, <2>10, <2>12, <2>14, <2>15, <2>16, <2>17 DEF Legal, Allowed, Undisturbed, AtOnce
  <2>19. QED
    BY <1>1, <1>4, <2>11, <2>14, <2>18, OneLeft DEF Keeps
<1>8. QED
  BY <1>1, <1>5, <1>6, <1>7 DEF EndPointsOf, DropEndPoint

LEMMA DeleteEndPointKeeps ==
  ASSUME TypeOK, StackInv, NEW t \in Tasks, DeleteEndPoint(t)
  PROVE  Keeps
<1>1. PICK f \in Frames : /\ f = Frame(t) /\ Runs(t, "deleteEndPoint") /\ turn \in {NoTask, t}
  BY Running DEF DeleteEndPoint
<1>2. gen' = gen /\ raced' = raced /\ gen' \in Nat
  BY DEF DeleteEndPoint, TypeOK
<1>3. faults' \in 0 .. MaxFaults
  BY FaultType DEF DeleteEndPoint, DropEndPoint, TypeOK
<1>4. DataType' /\ Kept
  <2>1. CASE UNCHANGED objects
    BY <1>2, <2>1, UnchangedData DEF TypeOK
  <2>2. CASE LeaveEndPoint(f.name)
    BY <1>2, <2>2, LeaveType, TypeParts
  <2>3. QED
    BY <1>1, <2>1, <2>2 DEF DeleteEndPoint, DropEndPoint
<1>5. CASE Throw(t)
  BY <1>1, <1>3, <1>4, <1>5, ThrowKeeps DEF Keeps
<1>6. CASE Proceed(t, <<>>)
  BY <1>1, <1>3, <1>4, <1>6, NothingLeft
<1>7. QED
  BY <1>5, <1>6 DEF DeleteEndPoint, DropEndPoint

\* Every step keeps the types and the stacks, while names are unique and endpoints at home.
LEMMA NextKeeps ==
  ASSUME TypeOK, StackInv, UniqueNames, MembersInv, Next
  PROVE  Keeps
<1>1. PICK t \in Tasks : Call(t) \/ Add(t) \/ Delete(t)
  BY DEF Next
<1>2. CASE Call(t)
  BY <1>2, CallKeeps
<1>3. CASE Add(t)
  BY <1>3, AddListenerKeeps, PushListenerKeeps, RunListenerKeeps, AddRuleListKeeps,
     FillRuleListKeeps, AddRuleToRuleListKeeps, AddRuleToKeeps, InsertRuleKeeps, AddRuleKeeps,
     BindRouteKeeps, AddRouteKeeps, FillRouteKeeps, AddClusterKeeps, FillClusterKeeps,
     RunClusterKeeps, AddEndPointKeeps DEF Add
<1>4. CASE Delete(t)
  BY <1>4, DeleteListenerKeeps, DeleteRuleListKeeps, RulesOfKeeps, DeleteRuleFromRuleListKeeps,
     RemoveRuleKeeps, DeleteRuleKeeps, DeleteRouteKeeps, ClustersOfKeeps, DeleteClusterKeeps,
     EndPointsOfKeeps, DeleteEndPointKeeps, UnlistKeeps, RethrowKeeps DEF Delete
<1>5. QED
  BY <1>1, <1>2, <1>3, <1>4
-----------------------------------------------------------------------------
(* Names.                                                                  *)

Raceable == {"listener", "route"}

\* A frame that is going to define an object, after an await.
Pusher(k) == IF k = "listener" THEN "pushListener" ELSE "fillRoute"

Pends(k, n, t, p) == p \in 1 .. Len(task[t]) /\ task[t][p].do = Pusher(k) /\ task[t][p].name = n

\* A name that is about to be defined is not defined yet, and nobody else is about to
\* define it, unless two operations overlapped.
PendingInv ==
  \A k \in Raceable, n \in Int, t \in Tasks, p \in Nat :
    Pends(k, n, t, p) /\ <<k, n>> \notin raced =>
      /\ ~Defined(k, n)
      /\ \A u \in Tasks, q \in Nat : Pends(k, n, u, q) => u = t /\ q = p

\* The frames that pend after the step of t were there before, and one that is first
\* has taken its turn.
Follows(t) ==
  /\ \A u \in Tasks : u # t => task'[u] = task[u]
  /\ \E d \in Int : \A k \in Raceable, n \in Int, p \in Nat :
       Pends(k, n, t, p)' => p - d \in Nat /\ Pends(k, n, t, p - d)

Calm(t) ==
  /\ \A u \in Tasks : u # t => task'[u] = task[u]
  /\ \E d \in Int : \A k \in Raceable, n \in Int, p \in Nat :
       Pends(k, n, t, p)' => p - d \in Nat /\ p - d >= 2 /\ Pends(k, n, t, p - d)

LEMMA CalmFollows ==
  ASSUME NEW t \in Tasks, Calm(t)
  PROVE  Follows(t)
BY DEF Calm, Follows

\* A frame that pends after new ones are pushed is one of them, or was there below the
\* first.
LEMMA PendsAfter ==
  ASSUME TypeOK, NEW t \in Tasks, NEW what, Runs(t, what), NEW S, NEW xs \in Seq(S), Moves(t, xs),
         NEW m, m = Len(xs)
  PROVE  /\ \A u \in Tasks : u # t => task'[u] = task[u]
         /\ m \in Nat
         /\ \A k \in Raceable, n \in Int, p \in Nat : Pends(k, n, t, p)' =>
              \/ p \in 1 .. m /\ xs[p].do = Pusher(k) /\ xs[p].name = n
              \/ p - (m - 1) \in Nat /\ p - (m - 1) >= 2 /\ Pends(k, n, t, p - (m - 1))
<1>1. task[t] # <<>>
  BY Running
<1>2. /\ \A u \in Tasks : u # t => task'[u] = task[u]
      /\ m \in Nat
      /\ \A p \in 1 .. m : task'[t][p] = xs[p]
      /\ \A p \in m + 1 .. Len(task'[t]) :
           /\ p - m + 1 \in 2 .. Len(task[t])
           /\ task'[t][p] = task[t][p - m + 1]
  BY <1>1, StackMoves
<1>3. ASSUME NEW k \in Raceable, NEW n \in Int, NEW p \in Nat, Pends(k, n, t, p)', p \notin 1 .. m
      PROVE  p - (m - 1) \in Nat /\ p - (m - 1) >= 2 /\ Pends(k, n, t, p - (m - 1))
  <2>1. p \in 1 .. Len(task'[t]) /\ task'[t][p].do = Pusher(k) /\ task'[t][p].name = n
    BY <1>3 DEF Pends
  <2>2. p \in m + 1 .. Len(task'[t])
    BY <1>2, <1>3, <2>1
  <2>3. p - m + 1 \in 2 .. Len(task[t]) /\ task'[t][p] = task[t][p - m + 1]
    BY <1>2, <2>2
  <2>4. PICK q : q = p - m + 1
    OBVIOUS
  <2>5. q = p - (m - 1) /\ q \in Nat /\ q >= 2
    BY <1>2, <2>2, <2>4
  <2>6. q \in 1 .. Len(task[t])
    BY <2>3, <2>4
  <2>7. Pends(k, n, t, q)
    BY <2>1, <2>3, <2>4, <2>6 DEF Pends
  <2>8. QED
    BY <2>5, <2>7
<1>4. ASSUME NEW k \in Raceable, NEW n \in Int, NEW p \in Nat, Pends(k, n, t, p)', p \in 1 .. m
      PROVE  xs[p].do = Pusher(k) /\ xs[p].name = n
  BY <1>2, <1>4 DEF Pends
<1>5. QED
  BY <1>2, <1>3, <1>4

LEMMA CalmMoves ==
  ASSUME TypeOK, NEW t \in Tasks, NEW what, Runs(t, what), NEW S, NEW xs \in Seq(S), Moves(t, xs),
         \A p \in 1 .. Len(xs) : xs[p].do \notin {"pushListener", "fillRoute"}
  PROVE  Calm(t)
<1>1. PICK m : m = Len(xs)
  OBVIOUS
<1>2. /\ \A u \in Tasks : u # t => task'[u] = task[u]
      /\ m \in Nat
      /\ \A k \in Raceable, n \in Int, p \in Nat : Pends(k, n, t, p)' =>
           \/ p \in 1 .. m /\ xs[p].do = Pusher(k) /\ xs[p].name = n
           \/ p - (m - 1) \in Nat /\ p - (m - 1) >= 2 /\ Pends(k, n, t, p - (m - 1))
  BY <1>1, PendsAfter
<1>3. \A k \in Raceable, p \in 1 .. m : xs[p].do # Pusher(k)
  BY <1>1 DEF Pusher
<1>4. m - 1 \in Int
  BY <1>2
<1>5. QED
  BY <1>2, <1>3, <1>4 DEF Calm

\* The task has no more, one or two frames more to run, none of which pends.
LEMMA CalmSteps ==
  ASSUME TypeOK, NEW t \in Tasks, NEW what, Runs(t, what)
  PROVE  /\ \A next : Continue(t, <<>>, next) => Calm(t)
         /\ Proceed(t, <<>>) \/ Await(t, <<>>) => Calm(t)
         /\ \A f : (Proceed(t, <<f>>) \/ Await(t, <<f>>))
                     /\ f.do \notin {"pushListener", "fillRoute"} => Calm(t)
         /\ \A f, g : (Proceed(t, <<f, g>>) /\ f.do \notin {"pushListener", "fillRoute"}
                                             /\ g.do \notin {"pushListener", "fillRoute"}) => Calm(t)
<1>1. \A next : Continue(t, <<>>, next) => Calm(t)
  <2>1. ASSUME NEW next, Continue(t, <<>>, next) PROVE Calm(t)
    <3>1. PICK xs \in Seq(Frames) : xs = <<>>
      BY OneFrame
    <3>2. Moves(t, xs) /\ \A p \in 1 .. Len(xs) : xs[p].do \notin {"pushListener", "fillRoute"}
      BY <2>1, <3>1 DEF Continue, Moves
    <3>3. QED
      BY <3>2, CalmMoves
  <2>2. QED
    BY <2>1
<1>2. Proceed(t, <<>>) \/ Await(t, <<>>) => Calm(t)
  BY <1>1 DEF Proceed, Await
<1>3. ASSUME NEW f, Proceed(t, <<f>>) \/ Await(t, <<f>>), f.do \notin {"pushListener", "fillRoute"}
      PROVE  Calm(t)
  <2>0. f \in {f}
    OBVIOUS
  <2>0a. <<f>> \in Seq({f})
    BY <2>0
  <2>1. PICK xs \in Seq({f}) : xs = <<f>>
    BY <2>0a
  <2>2. Len(xs) = 1 /\ xs[1] = f
    BY <2>1
  <2>3. Moves(t, xs)
    BY <1>3, <2>1 DEF Proceed, Await, Continue, Moves
  <2>4. \A p \in 1 .. Len(xs) : xs[p].do \notin {"pushListener", "fillRoute"}
    BY <1>3, <2>2
  <2>5. QED
    BY <2>3, <2>4, CalmMoves
<1>4. ASSUME NEW f, NEW g, Proceed(t, <<f, g>>), f.do \notin {"pushListener", "fillRoute"},
             g.do \notin {"pushListener", "fillRoute"}
      PROVE  Calm(t)
  <2>0. PICK S : S = {f, g}
    OBVIOUS
  <2>0a. f \in S /\ g \in S
    BY <2>0
  <2>0b. <<f, g>> \in Seq(S)
    BY <2>0a
  <2>1. PICK xs \in Seq(S) : xs = <<f, g>>
    BY <2>0b
  <2>2. Len(xs) = 2 /\ xs[1] = f /\ xs[2] = g
    BY <2>1
  <2>3. Moves(t, xs)
    BY <1>4, <2>1 DEF Proceed, Continue, Moves
  <2>4. \A p \in 1 .. Len(xs) : xs[p].do \notin {"pushListener", "fillRoute"}
    BY <1>4, <2>2
  <2>5. QED
    BY <2>3, <2>4, CalmMoves
<1>5. QED
  BY <1>1, <1>2, <1>3, <1>4

LEMMA CalmEnds ==
  ASSUME TypeOK, NEW t \in Tasks, task' = task \/ Throw(t) \/ Fails(t)
  PROVE  Calm(t) \/ task' = task
<1>1. CASE task' = [task EXCEPT ![t] = <<>>]
  <2>1. task'[t] = <<>> /\ \A u \in Tasks : u # t => task'[u] = task[u]
    BY <1>1 DEF TypeOK
  <2>2. \A k \in Raceable, n \in Int, p \in Nat : ~Pends(k, n, t, p)'
    BY <2>1 DEF Pends
  <2>3. 0 \in Int
    OBVIOUS
  <2>4. QED
    BY <2>1, <2>2, <2>3 DEF Calm
<1>2. QED
  BY <1>1 DEF Fails, Throw

\* What is listed under a name after the step.
LEMMA NamedAfter ==
  ASSUME TypeOK, Kept, NEW k, NEW n
  PROVE  /\ listed' \subseteq listed /\ Defined(k, n)' => Defined(k, n)
         /\ listed' \subseteq listed \union {made + 1} /\ Defined(k, n)' =>
              \/ Defined(k, n)
              \/ obj'[made + 1].kind = k /\ obj'[made + 1].name = n
<1>1. listed \subseteq 1 .. made
  BY DEF TypeOK
<1>2. \A i \in listed : obj'[i].kind = obj[i].kind /\ obj'[i].name = obj[i].name
  BY <1>1 DEF Kept
<1>3. QED
  BY <1>2 DEF Defined, Named

LEMMA Traced ==
  ASSUME NEW t \in Tasks, Follows(t)
  PROVE  \E d \in Int : \A k \in Raceable, n \in Int, u \in Tasks, p \in Nat : Pends(k, n, u, p)' =>
           LET q == IF u = t THEN p - d ELSE p IN q \in Nat /\ Pends(k, n, u, q)
<1>1. PICK d \in Int : \A k \in Raceable, n \in Int, p \in Nat :
        Pends(k, n, t, p)' => p - d \in Nat /\ Pends(k, n, t, p - d)
  BY DEF Follows
<1>2. \A k \in Raceable, n \in Int, u \in Tasks, p \in Nat :
        u # t /\ Pends(k, n, u, p)' => Pends(k, n, u, p)
  BY DEF Follows, Pends
<1>3. QED
  BY <1>1, <1>2

LEMMA NamesShrink ==
  ASSUME TypeOK, UniqueNames, PendingInv, Kept, listed' \subseteq listed, raced' = raced,
         NEW t \in Tasks, Follows(t) \/ task' = task
  PROVE  UniqueNames' /\ PendingInv'
<1>1. UniqueNames'
  <2>1. \A i \in listed' : i \in listed /\ obj'[i].kind = obj[i].kind /\ obj'[i].name = obj[i].name
    BY DEF Kept, TypeOK
  <2>2. QED
    BY <2>1 DEF UniqueNames
<1>2. ASSUME NEW k \in Raceable, NEW n \in Int, NEW u \in Tasks, NEW p \in Nat,
             Pends(k, n, u, p)', <<k, n>> \notin raced
      PROVE  /\ ~Defined(k, n)'
             /\ \A v \in Tasks, q \in Nat : Pends(k, n, v, q)' => v = u /\ q = p
  <2>1. CASE task' = task
    <3>1. \A v \in Tasks, q \in Nat : Pends(k, n, v, q)' => Pends(k, n, v, q)
      BY <2>1 DEF Pends
    <3>2. QED
      BY <1>2, <3>1, NamedAfter DEF PendingInv
  <2>2. CASE Follows(t)
    <3>1. PICK d \in Int : \A j \in Raceable, m \in Int, v \in Tasks, q \in Nat : Pends(j, m, v, q)' =>
            LET r == IF v = t THEN q - d ELSE q IN r \in Nat /\ Pends(j, m, v, r)
      BY <2>2, Traced
    <3>2. PICK r \in Nat : r = (IF u = t THEN p - d ELSE p) /\ Pends(k, n, u, r)
      BY <1>2, <3>1
    <3>3. /\ ~Defined(k, n)
          /\ \A v \in Tasks, q \in Nat : Pends(k, n, v, q) => v = u /\ q = r
      BY <1>2, <3>2 DEF PendingInv
    <3>4. ASSUME NEW v \in Tasks, NEW q \in Nat, Pends(k, n, v, q)' PROVE v = u /\ q = p
      <4>1. PICK s \in Nat : s = (IF v = t THEN q - d ELSE q) /\ Pends(k, n, v, s)
        BY <3>1, <3>4
      <4>2. v = u /\ s = r
        BY <3>3, <4>1
      <4>3. QED
        BY <3>2, <4>1, <4>2
    <3>5. QED
      BY <3>3, <3>4, NamedAfter
  <2>3. QED
    BY <2>1, <2>2
<1>3. QED
  BY <1>1, <1>2 DEF PendingInv

\* A name is looked up before it is defined: at once, or when the addition begins.
LEMMA NamesGrow ==
  ASSUME TypeOK, UniqueNames, PendingInv, Kept, listed' = listed \union {made + 1}, raced' = raced,
         NEW t \in Tasks, Calm(t), NEW k \in Kinds, NEW n \in Int,
         obj'[made + 1].kind = k, obj'[made + 1].name = n,
         IF k \in Raceable THEN Pends(k, n, t, 1) ELSE ~Defined(k, n)
  PROVE  UniqueNames' /\ PendingInv'
<1>1. ASSUME Defined(k, n), <<k, n>> \notin raced PROVE FALSE
  BY <1>1 DEF PendingInv
<1>2. UniqueNames'
  <2>1. \A i \in listed : obj'[i].kind = obj[i].kind /\ obj'[i].name = obj[i].name
    BY DEF Kept, TypeOK
  <2>2. \A i \in listed : obj[i].kind = k /\ obj[i].name = n => <<k, n>> \in raced
    BY <1>1 DEF Defined, Named
  <2>3. QED
    BY <2>1, <2>2 DEF UniqueNames
<1>3. PICK d \in Int : \A j \in Raceable, m \in Int, p \in Nat :
        Pends(j, m, t, p)' => p - d \in Nat /\ p - d >= 2 /\ Pends(j, m, t, p - d)
  BY DEF Calm
<1>4. ASSUME NEW j \in Raceable, NEW m \in Int, NEW u \in Tasks, NEW p \in Nat, Pends(j, m, u, p)'
      PROVE  \E q \in Nat : /\ q = (IF u = t THEN p - d ELSE p) /\ Pends(j, m, u, q)
                            /\ u = t => q >= 2
  <2>1. CASE u = t
    BY <1>3, <1>4, <2>1
  <2>2. CASE u # t
    <3>1. task'[u] = task[u]
      BY <2>2 DEF Calm
    <3>2. Pends(j, m, u, p)
      BY <1>4, <3>1 DEF Pends
    <3>3. QED
      BY <2>2, <3>2
  <2>3. QED
    BY <2>1, <2>2
<1>5. ASSUME NEW j \in Raceable, NEW m \in Int, NEW u \in Tasks, NEW p \in Nat,
             Pends(j, m, u, p)', <<j, m>> \notin raced
      PROVE  /\ ~Defined(j, m)'
             /\ \A v \in Tasks, q \in Nat : Pends(j, m, v, q)' => v = u /\ q = p
  <2>1. PICK r \in Nat : r = (IF u = t THEN p - d ELSE p) /\ Pends(j, m, u, r) /\ (u = t => r >= 2)
    BY <1>4, <1>5
  <2>2. /\ ~Defined(j, m)
        /\ \A v \in Tasks, q \in Nat : Pends(j, m, v, q) => v = u /\ q = r
    BY <1>5, <2>1 DEF PendingInv
  <2>3. ~(j = k /\ m = n)
    <3>1. ASSUME j = k, m = n PROVE FALSE
      <4>1. Pends(j, m, t, 1)
        BY <3>1
      <4>2. t = u /\ r = 1
        BY <2>2, <4>1
      <4>3. QED
        BY <2>1, <4>2
    <3>2. QED
      BY <3>1
  <2>4. ~Defined(j, m)'
    BY <2>2, <2>3, NamedAfter
  <2>5. ASSUME NEW v \in Tasks, NEW q \in Nat, Pends(j, m, v, q)' PROVE v = u /\ q = p
    <3>1. PICK s \in Nat : s = (IF v = t THEN q - d ELSE q) /\ Pends(j, m, v, s)
      BY <1>4, <2>5
    <3>2. v = u /\ s = r
      BY <2>2, <3>1
    <3>3. QED
      BY <2>1, <3>1, <3>2
  <2>6. QED
    BY <2>4, <2>5
<1>6. QED
  BY <1>2, <1>5 DEF PendingInv

\* An addition that overlaps with another of the same name is noted.
LEMMA NamesRace ==
  ASSUME TypeOK, UniqueNames, PendingInv, UNCHANGED objects,
         NEW t \in Tasks, NEW what, Runs(t, what), NEW S, NEW xs \in Seq(S), Moves(t, xs), xs # <<>>,
         \A p \in 1 .. Len(xs) - 1 : xs[p].do \notin {"pushListener", "fillRoute"},
         NEW k \in Raceable, NEW n \in Int, ~Defined(k, n), Race(k, n),
         xs[Len(xs)].do = Pusher(k), xs[Len(xs)].name = n
  PROVE  UniqueNames' /\ PendingInv'
<1>1. raced \subseteq raced' /\ UNCHANGED <<obj, listed>>
  BY DEF Race, objects
<1>2. UniqueNames'
  BY <1>1 DEF UniqueNames
<1>3. PICK m \in Nat \ {0} : m = Len(xs)
  BY EmptySeq
<1>4. /\ \A u \in Tasks : u # t => task'[u] = task[u]
      /\ \A j \in Raceable, l \in Int, p \in Nat : Pends(j, l, t, p)' =>
           \/ p \in 1 .. m /\ xs[p].do = Pusher(j) /\ xs[p].name = l
           \/ p - (m - 1) \in Nat /\ p - (m - 1) >= 2 /\ Pends(j, l, t, p - (m - 1))
  BY <1>3, PendsAfter
<1>5. \A j \in Raceable : j # k => Pusher(j) # Pusher(k)
  BY DEF Raceable, Pusher
<1>6. ASSUME NEW j \in Raceable, NEW l \in Int, NEW u \in Tasks, NEW p \in Nat, Pends(j, l, u, p)'
      PROVE  \/ u = t /\ p = m /\ j = k /\ l = n
             \/ \E q \in Nat : q = (IF u = t THEN p - (m - 1) ELSE p) /\ Pends(j, l, u, q)
  <2>1. CASE u = t
    <3>1. CASE p \in 1 .. m /\ xs[p].do = Pusher(j) /\ xs[p].name = l
      <4>1. Pusher(j) \in {"pushListener", "fillRoute"}
        BY DEF Pusher
      <4>2. p \notin 1 .. m - 1
        BY <1>3, <3>1, <4>1
      <4>3. p = m
        BY <3>1, <4>2
      <4>4. QED
        BY <1>3, <1>5, <2>1, <3>1, <4>3
    <3>2. QED
      BY <1>4, <1>6, <2>1, <3>1
  <2>2. CASE u # t
    <3>1. Pends(j, l, u, p)
      BY <1>4, <1>6, <2>2 DEF Pends
    <3>2. QED
      BY <2>2, <3>1
  <2>3. QED
    BY <2>1, <2>2
<1>7. ASSUME NEW u \in Tasks, NEW p \in Nat, Pends(k, n, u, p) PROVE <<k, n>> \in raced'
  <2>1. task[u][p] \in Elements(task[u])
    BY <1>7 DEF Pends, Elements
  <2>2. task[u][p] \in UNION {Elements(task[v]) : v \in Tasks}
    BY <2>1
  <2>3. task[u][p].do = (IF k = "listener" THEN "pushListener" ELSE "fillRoute") /\ task[u][p].name = n
    BY <1>7 DEF Pends, Pusher
  <2>4. n \in Adding(k)
    BY <2>2, <2>3 DEF Adding
  <2>5. QED
    BY <2>4 DEF Race
<1>8. ASSUME NEW j \in Raceable, NEW l \in Int, NEW u \in Tasks, NEW p \in Nat,
             Pends(j, l, u, p)', <<j, l>> \notin raced'
      PROVE  /\ ~Defined(j, l)'
             /\ \A v \in Tasks, q \in Nat : Pends(j, l, v, q)' => v = u /\ q = p
  <2>1. Defined(j, l)' = Defined(j, l)
    BY <1>1 DEF Defined, Named
  <2>2. <<j, l>> \notin raced
    BY <1>1, <1>8
  <2>3. CASE j = k /\ l = n
    <3>1. \A v \in Tasks, q \in Nat : Pends(j, l, v, q)' => v = t /\ q = m
      BY <1>6, <1>7, <1>8, <2>3
    <3>2. QED
      BY <1>8, <2>1, <2>3, <3>1
  <2>4. CASE ~(j = k /\ l = n)
    <3>1. PICK r \in Nat : r = (IF u = t THEN p - (m - 1) ELSE p) /\ Pends(j, l, u, r)
      BY <1>6, <1>8, <2>4
    <3>2. /\ ~Defined(j, l)
          /\ \A v \in Tasks, q \in Nat : Pends(j, l, v, q) => v = u /\ q = r
      BY <2>2, <3>1 DEF PendingInv
    <3>3. ASSUME NEW v \in Tasks, NEW q \in Nat, Pends(j, l, v, q)' PROVE v = u /\ q = p
      <4>1. PICK s \in Nat : s = (IF v = t THEN q - (m - 1) ELSE q) /\ Pends(j, l, v, s)
        BY <1>6, <2>4, <3>3
      <4>2. v = u /\ s = r
        BY <3>2, <4>1
      <4>3. QED
        BY <3>1, <4>1, <4>2
    <3>4. QED
      BY <2>1, <3>2, <3>3
  <2>5. QED
    BY <2>3, <2>4
<1>9. QED
  BY <1>2, <1>8 DEF PendingInv

\* Deletions define nothing, and nothing is about to be defined because of them.
LEMMA DeletionsShrink ==
  ASSUME TypeOK, NEW t \in Tasks, Delete(t)
  PROVE  listed' \subseteq listed /\ raced' = raced /\ (Calm(t) \/ task' = task)
<1>1. CASE DeleteListener(t)
  <2>1. Runs(t, "deleteListener") /\ listed' = listed /\ raced' = raced
    BY <1>1 DEF DeleteListener, objects
  <2>2. QED
    BY <1>1, <2>1, CalmSteps, CalmEnds DEF DeleteListener, Unlisting
<1>2. CASE DeleteRuleList(t)
  <2>1. Runs(t, "deleteRuleList") /\ listed' = listed /\ raced' = raced
    BY <1>2 DEF DeleteRuleList, objects
  <2>2. QED
    BY <1>2, <2>1, CalmSteps, CalmEnds DEF DeleteRuleList, Unlisting
<1>3. CASE RulesOf(t)
  <2>1. PICK f \in Frames : f = Frame(t) /\ f.do = "rulesOf" /\ Runs(t, "rulesOf")
    BY <1>3, Running DEF RulesOf
  <2>2. listed' = listed /\ raced' = raced
    BY <1>3 DEF RulesOf, Refer, objects
  <2>3. CASE f.rest = <<>>
    BY <1>3, <2>1, <2>2, <2>3, CalmSteps DEF RulesOf, Unlisting
  <2>4. CASE f.rest # <<>>
    <3>1. PICK g \in Frames : g = [f EXCEPT !.rest = Tail(@)] /\ g.do = "rulesOf"
      BY <2>1, <2>4, NextFrames
    <3>2. PICK d : d = [do |-> "deleteRule", name |-> Head(f.rest), rec |-> TRUE]
      OBVIOUS
    <3>3. Proceed(t, <<d, g>>)
      BY <1>3, <2>1, <2>4, <3>1, <3>2 DEF RulesOf
    <3>4. d.do = "deleteRule"
      BY <3>2
    <3>5. QED
      BY <2>1, <2>2, <3>1, <3>3, <3>4, CalmSteps
  <2>5. QED
    BY <2>3, <2>4
<1>4. CASE DeleteRuleFromRuleList(t)
  <2>1. Runs(t, "deleteRuleFromRuleList") /\ listed' = listed /\ raced' = raced
    BY <1>4 DEF DeleteRuleFromRuleList, objects
  <2>2. QED
    BY <1>4, <2>1, CalmSteps, CalmEnds DEF DeleteRuleFromRuleList
<1>5. CASE RemoveRule(t)
  BY <1>5, CalmSteps DEF RemoveRule, Refer
<1>6. CASE DeleteRule(t)
  <2>1. Runs(t, "deleteRule") /\ listed' = listed /\ raced' = raced
    BY <1>6 DEF DeleteRule, objects
  <2>2. QED
    BY <1>6, <2>1, CalmSteps, CalmEnds DEF DeleteRule, Unlisting
<1>7. CASE DeleteRoute(t)
  <2>1. Runs(t, "deleteRoute") /\ listed' = listed /\ raced' = raced
    BY <1>7 DEF DeleteRoute, objects
  <2>2. QED
    BY <1>7, <2>1, CalmSteps, CalmEnds DEF DeleteRoute, Unlisting
<1>8. CASE ClustersOf(t)
  <2>1. PICK f \in Frames : f = Frame(t) /\ f.do = "clustersOf" /\ Runs(t, "clustersOf")
    BY <1>8, Running DEF ClustersOf
  <2>2. listed' = listed /\ raced' = raced
    BY <1>8 DEF ClustersOf, objects
  <2>3. CASE f.rest = <<>>
    BY <1>8, <2>1, <2>2, <2>3, CalmSteps DEF ClustersOf, Unlisting
  <2>4. CASE f.rest # <<>>
    <3>1. PICK g \in Frames : g = [f EXCEPT !.rest = Tail(@)] /\ g.do = "clustersOf"
      BY <2>1, <2>4, NextFrames
    <3>2. PICK d : d = [do |-> "deleteCluster", name |-> Head(f.rest), rec |-> TRUE]
      OBVIOUS
    <3>3. Proceed(t, <<d, g>>) \/ Proceed(t, <<g>>)
      BY <1>8, <2>1, <2>4, <3>1, <3>2 DEF ClustersOf
    <3>4. d.do = "deleteCluster"
      BY <3>2
    <3>5. QED
      BY <2>1, <2>2, <3>1, <3>3, <3>4, CalmSteps
  <2>5. QED
    BY <2>3, <2>4
<1>9. CASE DeleteCluster(t)
  <2>1. Runs(t, "deleteCluster") /\ listed' = listed /\ raced' = raced
    BY <1>9 DEF DeleteCluster, objects
  <2>2. QED
    BY <1>9, <2>1, CalmSteps, CalmEnds DEF DeleteCluster
<1>10. CASE EndPointsOf(t)
  <2>1. PICK f \in Frames : f = Frame(t) /\ f.do = "endpointsOf" /\ Runs(t, "endpointsOf")
    BY <1>10, Running DEF EndPointsOf
  <2>2. listed' \subseteq listed /\ raced' = raced
    BY <1>10 DEF EndPointsOf, DropEndPoint, LeaveEndPoint, objects
  <2>3. CASE f.rest = <<>>
    BY <1>10, <2>1, <2>2, <2>3, CalmSteps DEF EndPointsOf, Unlisting
  <2>4. CASE f.rest # <<>>
    <3>1. PICK g \in Frames : g = [f EXCEPT !.rest = Tail(@)] /\ g.do = "endpointsOf"
      BY <2>1, <2>4, NextFrames
    <3>2. Throw(t) \/ Proceed(t, <<g>>)
      BY <1>10, <2>1, <2>4, <3>1 DEF EndPointsOf, DropEndPoint
    <3>3. QED
      BY <2>1, <2>2, <3>1, <3>2, CalmSteps, CalmEnds
  <2>5. QED
    BY <2>3, <2>4
<1>11. CASE DeleteEndPoint(t)
  BY <1>11, CalmSteps, CalmEnds DEF DeleteEndPoint, DropEndPoint, LeaveEndPoint, objects
<1>12. CASE Unlist(t)
  BY <1>12, CalmSteps DEF Unlist
<1>13. CASE Rethrow(t)
  BY <1>13, CalmEnds DEF Rethrow, Fails
<1>14. QED
  BY <1>1, <1>2, <1>3, <1>4, <1>5, <1>6, <1>7, <1>8, <1>9, <1>10, <1>11, <1>12, <1>13 DEF Delete

LEMMA NamesStay ==
  ASSUME TypeOK, UniqueNames, PendingInv, Kept, listed' \subseteq listed, raced' = raced,
         NEW t \in Tasks, Calm(t) \/ task' = task
  PROVE  UniqueNames' /\ PendingInv'
BY CalmFollows, NamesShrink

LEMMA CallNames ==
  ASSUME TypeOK, UniqueNames, PendingInv, Kept, NEW t \in Tasks, Call(t)
  PROVE  UniqueNames' /\ PendingInv'
<1>1. PICK r \in Requests : task' = [task EXCEPT ![t] = <<r>>]
  BY DEF Call
<1>2. task'[t] = <<r>> /\ \A u \in Tasks : u # t => task'[u] = task[u]
  BY <1>1 DEF TypeOK
<1>3. r.do \notin {"pushListener", "fillRoute"}
  BY RegistryAssumption DEF Asked
<1>4. Len(task'[t]) = 1 /\ task'[t][1] = r
  BY <1>2
<1>5. \A k \in Raceable, n \in Int, p \in Nat : ~Pends(k, n, t, p)'
  BY <1>3, <1>4 DEF Pends, Pusher
<1>6. 0 \in Int
  OBVIOUS
<1>7. Calm(t)
  BY <1>2, <1>5, <1>6 DEF Calm
<1>8. listed' = listed /\ raced' = raced
  BY DEF Call, objects
<1>9. QED
  BY <1>7, <1>8, NamesStay

LEMMA AddListenerNames ==
  ASSUME TypeOK, UniqueNames, PendingInv, Kept, NEW t \in Tasks, AddListener(t)
  PROVE  UniqueNames' /\ PendingInv'
<1>1. PICK f \in Frames : f = Frame(t) /\ f.do = "addListener" /\ Runs(t, "addListener")
  BY Running DEF AddListener
<1>2. f.item \in Item /\ f.item.name \in Int
  BY <1>1, AdditionFrames DEF Item
<1>3. PICK rl : rl = WithName(f.item.parts[1])
  OBVIOUS
<1>4. PICK push : push = [do |-> "pushListener", name |-> f.item.name, rules |-> rl.name]
  OBVIOUS
<1>5. PICK add : add = [do |-> "addRuleList", item |-> rl, auto |-> TRUE]
  OBVIOUS
<1>6. CASE Fails(t)
  <2>1. listed' = listed /\ raced' = raced
    BY <1>6 DEF Fails
  <2>2. QED
    BY <1>6, <2>1, CalmEnds, NamesStay
<1>7. CASE /\ ~Defined("listener", f.item.name) /\ Race("listener", f.item.name)
           /\ Proceed(t, IF rl.inline THEN <<add, push>> ELSE <<push>>) /\ UNCHANGED objects
  <2>1. PICK S : S = {add, push}
    OBVIOUS
  <2>2. <<add, push>> \in Seq(S) /\ <<push>> \in Seq(S)
    <3>1. add \in S /\ push \in S
      BY <2>1
    <3>2. <<add, push>> \in Seq(S)
      BY <3>1
    <3>3. <<push>> \in Seq(S)
      BY <3>1
    <3>4. QED
      BY <3>2, <3>3
  <2>3. PICK xs \in Seq(S) : xs = IF rl.inline THEN <<add, push>> ELSE <<push>>
    BY <2>2
  <2>4. /\ xs # <<>> /\ xs[Len(xs)] = push
        /\ \A p \in 1 .. Len(xs) - 1 : xs[p] = add
    BY <2>3
  <2>5. Moves(t, xs)
    BY <1>7, <2>3 DEF Proceed, Continue, Moves
  <2>6. add.do = "addRuleList" /\ push.do = Pusher("listener") /\ push.name = f.item.name
    BY <1>4, <1>5 DEF Pusher
  <2>7. \A p \in 1 .. Len(xs) - 1 : xs[p].do \notin {"pushListener", "fillRoute"}
    BY <2>4, <2>6
  <2>8. "listener" \in Raceable
    BY DEF Raceable
  <2>9. QED
    BY <1>1, <1>2, <1>7, <2>4, <2>5, <2>6, <2>7, <2>8, NamesRace
<1>8. QED
  BY <1>1, <1>3, <1>4, <1>5, <1>6, <1>7 DEF AddListener

LEMMA AddRouteNames ==
  ASSUME TypeOK, UniqueNames, PendingInv, Kept, NEW t \in Tasks, AddRoute(t)
  PROVE  UniqueNames' /\ PendingInv'
<1>1. PICK f \in Frames : f = Frame(t) /\ f.do = "addRoute" /\ Runs(t, "addRoute")
  BY Running DEF AddRoute
<1>2. f.item \in Item /\ f.item.name \in Int
  BY <1>1, AdditionFrames DEF Item
<1>3. PICK fill : fill = [do |-> "fillRoute", name |-> f.item.name, auto |-> f.auto,
                          done |-> <<>>, rest |-> f.item.parts]
  OBVIOUS
<1>4. CASE Fails(t)
  <2>1. listed' = listed /\ raced' = raced
    BY <1>4 DEF Fails
  <2>2. QED
    BY <1>4, <2>1, CalmEnds, NamesStay
<1>5. CASE /\ ~Defined("route", f.item.name) /\ Race("route", f.item.name)
           /\ Proceed(t, <<fill>>) /\ UNCHANGED objects
  <2>0. fill \in {fill}
    OBVIOUS
  <2>1. <<fill>> \in Seq({fill})
    BY <2>0
  <2>2. PICK xs \in Seq({fill}) : xs = <<fill>>
    BY <2>1
  <2>3. xs # <<>> /\ xs[Len(xs)] = fill /\ Len(xs) = 1
    BY <2>2
  <2>4. Moves(t, xs)
    BY <1>5, <2>2 DEF Proceed, Continue, Moves
  <2>5. fill.do = Pusher("route") /\ fill.name = f.item.name
    BY <1>3 DEF Pusher
  <2>6. \A p \in 1 .. Len(xs) - 1 : xs[p].do \notin {"pushListener", "fillRoute"}
    BY <2>3
  <2>7. "route" \in Raceable
    BY DEF Raceable
  <2>8. QED
    BY <1>1, <1>2, <1>5, <2>3, <2>4, <2>5, <2>6, <2>7, NamesRace
<1>6. QED
  BY <1>1, <1>3, <1>4, <1>5 DEF AddRoute

LEMMA FillRouteNames ==
  ASSUME TypeOK, UniqueNames, PendingInv, Kept, NEW t \in Tasks, FillRoute(t)
  PROVE  UniqueNames' /\ PendingInv'
<1>1. PICK f \in Frames : /\ f = Frame(t) /\ f.do = "fillRoute" /\ Runs(t, "fillRoute")
                          /\ f = task[t][1] /\ Len(task[t]) \in Nat \ {0}
  BY Running DEF FillRoute
<1>2. f.name \in Int /\ f.auto \in BOOLEAN /\ f.done \in Seq(Int) /\ raced' = raced /\ gen \in Nat
  BY <1>1, AdditionFrames DEF FillRoute, TypeOK
<1>3. Pends("route", f.name, t, 1) /\ "route" \in Raceable /\ "route" \in Kinds
  BY <1>1 DEF Pends, Pusher, Raceable, Kinds
<1>4. CASE f.rest = <<>>
  <2>1. Create("route", f.name, f.auto, f.done) /\ Await(t, <<>>) /\ gen' = gen
    BY <1>1, <1>4 DEF FillRoute
  <2>2. Calm(t)
    BY <1>1, <2>1, CalmSteps
  <2>3. /\ listed' = listed \union {made + 1}
        /\ obj'[made + 1] = [kind |-> "route", name |-> f.name, auto |-> f.auto, refs |-> f.done]
    BY <1>2, <1>3, <2>1, NewObject DEF Create, TypeOK
  <2>4. obj'[made + 1].kind = "route" /\ obj'[made + 1].name = f.name
    BY <2>3
  <2>5. QED
    BY <1>2, <1>3, <2>2, <2>3, <2>4, NamesGrow
<1>5. CASE f.rest # <<>>
  <2>1. PICK c : c = WithName(Head(f.rest))
    OBVIOUS
  <2>2. c.name \in Int
    BY <1>1, <1>2, <1>5, <2>1, NextFillings, NamedItem
  <2>3. PICK next \in Frames : /\ next = [f EXCEPT !.done = Append(@, c.name), !.rest = Tail(@)]
                               /\ next.do = f.do /\ next.name = f.name
    BY <1>1, <1>5, <2>2, NextFillings
  <2>4. PICK add : add = [do |-> "addCluster", item |-> c, auto |-> TRUE]
    OBVIOUS
  <2>5. PICK S : S = {add, next}
    OBVIOUS
  <2>6. <<add, next>> \in Seq(S) /\ <<next>> \in Seq(S)
    <3>1. add \in S /\ next \in S
      BY <2>5
    <3>2. <<add, next>> \in Seq(S)
      BY <3>1
    <3>3. <<next>> \in Seq(S)
      BY <3>1
    <3>4. QED
      BY <3>2, <3>3
  <2>7. PICK xs \in Seq(S) : xs = IF c.inline THEN <<add, next>> ELSE <<next>>
    BY <2>6
  <2>8. PICK m \in Nat : m = Len(xs) /\ m >= 1 /\ xs[m] = next /\ \A p \in 1 .. m - 1 : xs[p] = add
    BY <2>7
  <2>9. UNCHANGED objects /\ Moves(t, xs)
    BY <1>1, <1>5, <2>1, <2>3, <2>4, <2>7 DEF FillRoute, Proceed, Continue, Moves
  <2>10. /\ \A u \in Tasks : u # t => task'[u] = task[u]
         /\ \A k \in Raceable, n \in Int, p \in Nat : Pends(k, n, t, p)' =>
              \/ p \in 1 .. m /\ xs[p].do = Pusher(k) /\ xs[p].name = n
              \/ p - (m - 1) \in Nat /\ p - (m - 1) >= 2 /\ Pends(k, n, t, p - (m - 1))
    BY <1>1, <2>8, <2>9, PendsAfter
  <2>11. ASSUME NEW k \in Raceable, NEW n \in Int, NEW p \in Nat, Pends(k, n, t, p)'
         PROVE  p - (m - 1) \in Nat /\ Pends(k, n, t, p - (m - 1))
    <3>1. CASE p \in 1 .. m /\ xs[p].do = Pusher(k) /\ xs[p].name = n
      <4>1. add.do = "addCluster"
        BY <2>4
      <4>2. p = m
        BY <2>8, <3>1, <4>1 DEF Pusher
      <4>3. k = "route" /\ n = f.name
        BY <1>1, <2>3, <2>8, <3>1, <4>2 DEF Raceable, Pusher
      <4>4. p - (m - 1) = 1
        BY <4>2
      <4>5. QED
        BY <1>3, <4>3, <4>4
    <3>2. QED
      BY <2>10, <2>11, <3>1
  <2>12. m - 1 \in Int
    OBVIOUS
  <2>13. Follows(t)
    BY <2>10, <2>11, <2>12 DEF Follows
  <2>14. listed' = listed
    BY <2>9 DEF objects
  <2>15. QED
    BY <1>2, <2>13, <2>14, NamesShrink
<1>6. QED
  BY <1>4, <1>5

LEMMA PushListenerNames ==
  ASSUME TypeOK, UniqueNames, PendingInv, Kept, NEW t \in Tasks, PushListener(t)
  PROVE  UniqueNames' /\ PendingInv'
<1>1. PICK f \in Frames : /\ f = Frame(t) /\ f.do = "pushListener" /\ Runs(t, "pushListener")
                          /\ f = task[t][1] /\ Len(task[t]) \in Nat \ {0}
  BY Running DEF PushListener
<1>2. f.name \in Int /\ <<f.rules>> \in Seq(Int) /\ raced' = raced
  BY <1>1, AdditionFrames DEF PushListener
<1>3. Pends("listener", f.name, t, 1) /\ "listener" \in Raceable /\ "listener" \in Kinds
  BY <1>1 DEF Pends, Pusher, Raceable, Kinds
<1>4. PICK run : run = [do |-> "runListener", id |-> made + 1]
  OBVIOUS
<1>5. Create("listener", f.name, FALSE, <<f.rules>>) /\ Await(t, <<run>>) /\ gen' = gen
  BY <1>1, <1>4 DEF PushListener
<1>6. run.do = "runListener"
  BY <1>4
<1>7. Calm(t)
  BY <1>1, <1>5, <1>6, CalmSteps
<1>8. /\ listed' = listed \union {made + 1}
      /\ obj'[made + 1] = [kind |-> "listener", name |-> f.name, auto |-> FALSE, refs |-> <<f.rules>>]
  BY <1>2, <1>3, <1>5, NewObject DEF Create, TypeOK
<1>9. obj'[made + 1].kind = "listener" /\ obj'[made + 1].name = f.name
  BY <1>8
<1>10. QED
  BY <1>2, <1>3, <1>7, <1>8, <1>9, NamesGrow

\* An object whose name is looked up and defined in one go.
LEMMA CreateNames ==
  ASSUME TypeOK, UniqueNames, PendingInv, Kept, NEW t \in Tasks, Calm(t),
         NEW k \in Kinds \ Raceable, NEW n \in Int, NEW auto \in BOOLEAN, NEW refs \in Seq(Int),
         ~Defined(k, n), Create(k, n, auto, refs), gen' \in Nat, raced' = raced
  PROVE  UniqueNames' /\ PendingInv'
<1>1. listed' = listed \union {made + 1} /\ raced' \subseteq {"listener", "route"} \X Int
  BY DEF Create, TypeOK
<1>2. obj'[made + 1] = [kind |-> k, name |-> n, auto |-> auto, refs |-> refs]
  BY <1>1, NewObject
<1>3. obj'[made + 1].kind = k /\ obj'[made + 1].name = n
  BY <1>2
<1>4. QED
  BY <1>1, <1>3, NamesGrow

LEMMA AddRuleListNames ==
  ASSUME TypeOK, UniqueNames, PendingInv, Kept, NEW t \in Tasks, AddRuleList(t)
  PROVE  UniqueNames' /\ PendingInv'
<1>1. PICK f \in Frames : f = Frame(t) /\ f.do = "addRuleList" /\ Runs(t, "addRuleList")
  BY Running DEF AddRuleList
<1>2. /\ f.item.name \in Int /\ f.auto \in BOOLEAN /\ <<>> \in Seq(Int)
      /\ gen' \in Nat /\ raced' = raced /\ "rulelist" \in Kinds \ Raceable
  BY <1>1, AdditionFrames, EmptySeq DEF AddRuleList, TypeOK, Item, Kinds, Raceable
<1>3. PICK fill : fill = [do |-> "fillRuleList", id |-> made + 1, rest |-> f.item.parts, pos |-> 0]
  OBVIOUS
<1>4. CASE UNCHANGED objects /\ Throw(t)
  <2>1. listed' = listed
    BY <1>4 DEF objects
  <2>2. QED
    BY <1>2, <1>4, <2>1, CalmEnds, NamesStay
<1>5. CASE /\ ~Defined("rulelist", f.item.name)
           /\ Create("rulelist", f.item.name, f.auto, <<>>) /\ Proceed(t, <<fill>>)
  <2>1. fill.do = "fillRuleList"
    BY <1>3
  <2>2. Calm(t)
    BY <1>1, <1>5, <2>1, CalmSteps
  <2>3. QED
    BY <1>2, <1>5, <2>2, CreateNames
<1>6. QED
  BY <1>1, <1>3, <1>4, <1>5 DEF AddRuleList

LEMMA AddRuleNames ==
  ASSUME TypeOK, UniqueNames, PendingInv, Kept, NEW t \in Tasks, AddRule(t)
  PROVE  UniqueNames' /\ PendingInv'
<1>1. PICK f \in Frames : f = Frame(t) /\ f.do = "addRule" /\ Runs(t, "addRule")
  BY Running DEF AddRule
<1>2. /\ f.item \in Item /\ f.item.name \in Int /\ f.auto \in BOOLEAN /\ <<>> \in Seq(Int)
      /\ gen \in Nat /\ raced' = raced /\ "rule" \in Kinds \ Raceable
  BY <1>1, AdditionFrames, EmptySeq DEF AddRule, TypeOK, Item, Kinds, Raceable
<1>3. PICK route : route = WithName(f.item.parts[1])
  OBVIOUS
<1>4. CASE UNCHANGED objects /\ Throw(t)
  <2>1. listed' = listed
    BY <1>4 DEF objects
  <2>2. QED
    BY <1>2, <1>4, <2>1, CalmEnds, NamesStay
<1>5. CASE /\ ~Defined("rule", f.item.name) /\ Create("rule", f.item.name, f.auto, <<>>)
           /\ Await(t, <<>>) /\ gen' = gen
  BY <1>1, <1>2, <1>5, CalmSteps, CreateNames
<1>6. CASE /\ ~Defined("rule", f.item.name) /\ f.item.parts # <<>>
           /\ Create("rule", f.item.name, f.auto, <<route.name>>) /\ Await(t, <<>>) /\ gen' = gen
  <2>1. route.name \in Int
    BY <1>2, <1>3, <1>6, NamedItem
  <2>2. <<route.name>> \in Seq(Int)
    BY <2>1
  <2>3. QED
    BY <1>1, <1>2, <1>6, <2>2, CalmSteps, CreateNames
<1>7. PICK add : add = [do |-> "addRoute", item |-> route, auto |-> TRUE]
  OBVIOUS
<1>8. PICK bind : bind = [do |-> "bindRoute", id |-> made + 1, name |-> route.name]
  OBVIOUS
<1>9. CASE /\ ~Defined("rule", f.item.name) /\ f.item.parts # <<>>
           /\ Create("rule", f.item.name, f.auto, <<>>) /\ CountName(f.item.parts[1])
           /\ Proceed(t, <<add, bind>>)
  <2>1. gen' \in Nat
    BY <1>2, <1>9, NamedItem
  <2>2. add.do = "addRoute" /\ bind.do = "bindRoute"
    BY <1>7, <1>8
  <2>3. Calm(t)
    BY <1>1, <1>9, <2>2, CalmSteps
  <2>4. QED
    BY <1>2, <1>9, <2>1, <2>3, CreateNames
<1>10. QED
  BY <1>1, <1>3, <1>4, <1>5, <1>6, <1>7, <1>8, <1>9 DEF AddRule

LEMMA AddClusterNames ==
  ASSUME TypeOK, UniqueNames, PendingInv, Kept, NEW t \in Tasks, AddCluster(t)
  PROVE  UniqueNames' /\ PendingInv'
<1>1. PICK f \in Frames : f = Frame(t) /\ f.do = "addCluster" /\ Runs(t, "addCluster")
  BY Running DEF AddCluster
<1>2. /\ f.item.name \in Int /\ f.auto \in BOOLEAN /\ <<>> \in Seq(Int)
      /\ gen' \in Nat /\ raced' = raced /\ "cluster" \in Kinds \ Raceable
  BY <1>1, AdditionFrames, EmptySeq DEF AddCluster, TypeOK, Item, Kinds, Raceable
<1>3. PICK fill : fill = [do |-> "fillCluster", id |-> made + 1, rest |-> f.item.parts]
  OBVIOUS
<1>4. CASE UNCHANGED objects /\ Throw(t)
  <2>1. listed' = listed
    BY <1>4 DEF objects
  <2>2. QED
    BY <1>2, <1>4, <2>1, CalmEnds, NamesStay
<1>5. CASE /\ ~Defined("cluster", f.item.name)
           /\ Create("cluster", f.item.name, f.auto, <<>>) /\ Proceed(t, <<fill>>)
  <2>1. fill.do = "fillCluster"
    BY <1>3
  <2>2. Calm(t)
    BY <1>1, <1>5, <2>1, CalmSteps
  <2>3. QED
    BY <1>2, <1>5, <2>2, CreateNames
<1>6. QED
  BY <1>1, <1>3, <1>4, <1>5 DEF AddCluster

\* A new endpoint.
LEMMA JoinNames ==
  ASSUME TypeOK, UniqueNames, PendingInv, Kept, NEW t \in Tasks, Calm(t),
         NEW n \in Int, NEW c \in 1 .. made, ~Defined("endpoint", n), JoinEndPoint(n, c),
         gen' \in Nat, raced' = raced
  PROVE  UniqueNames' /\ PendingInv'
<1>1. /\ listed' = listed \union {made + 1}
      /\ obj'[made + 1] = [kind |-> "endpoint", name |-> n, auto |-> FALSE, refs |-> <<obj[c].name>>]
  BY JoinType, TypeParts
<1>2. obj'[made + 1].kind = "endpoint" /\ obj'[made + 1].name = n
  BY <1>1
<1>3. "endpoint" \in Kinds \ Raceable
  BY DEF Kinds, Raceable
<1>4. QED
  BY <1>1, <1>2, <1>3, NamesGrow

LEMMA FillClusterNames ==
  ASSUME TypeOK, StackInv, UniqueNames, PendingInv, Kept, NEW t \in Tasks, FillCluster(t)
  PROVE  UniqueNames' /\ PendingInv'
<1>1. PICK f \in Frames : f = Frame(t) /\ f.do = "fillCluster" /\ Runs(t, "fillCluster")
  BY Running DEF FillCluster
<1>2. f.id \in listed /\ obj[f.id].kind = "cluster" /\ raced' = raced /\ gen \in Nat
  BY <1>1, FirstLegal, Running DEF Undisturbed, KindOK, FillCluster, TypeOK
<1>3. PICK run : run = [do |-> "runCluster", id |-> f.id]
  OBVIOUS
<1>4. CASE Await(t, <<run>>) /\ UNCHANGED objects
  <2>1. listed' = listed /\ run.do = "runCluster"
    BY <1>3, <1>4 DEF objects
  <2>2. QED
    BY <1>1, <1>2, <1>4, <2>1, CalmSteps, NamesStay
<1>5. CASE UNCHANGED <<objects, task>>
  BY <1>2, <1>5, NamesStay DEF objects
<1>6. PICK e : e = WithName(Head(f.rest))
  OBVIOUS
<1>7. CASE /\ f.rest # <<>> /\ ~Defined("endpoint", e.name) /\ CountName(Head(f.rest))
           /\ JoinEndPoint(e.name, The("cluster", obj[f.id].name))
           /\ Proceed(t, <<[f EXCEPT !.rest = Tail(@)]>>)
  <2>1. e.name \in Int /\ gen' \in Nat
    BY <1>1, <1>2, <1>6, <1>7, NextFillings, NamedItem
  <2>2. Defined("cluster", obj[f.id].name)
    BY <1>2 DEF Defined, Named
  <2>3. PICK c \in 1 .. made : c = The("cluster", obj[f.id].name)
    BY <2>2, TheIsNamed
  <2>4. PICK g \in Frames : g = [f EXCEPT !.rest = Tail(@)] /\ g.do = f.do /\ g.id = f.id
    BY <1>1, <1>7, NextFillings
  <2>5. Proceed(t, <<g>>) /\ g.do = "fillCluster"
    BY <1>1, <1>7, <2>4
  <2>6. Calm(t)
    BY <1>1, <2>5, CalmSteps
  <2>7. QED
    BY <1>2, <1>7, <2>1, <2>3, <2>6, JoinNames
<1>8. QED
  BY <1>1, <1>3, <1>4, <1>5, <1>6, <1>7 DEF FillCluster

LEMMA AddEndPointNames ==
  ASSUME TypeOK, UniqueNames, PendingInv, Kept, NEW t \in Tasks, AddEndPoint(t)
  PROVE  UniqueNames' /\ PendingInv'
<1>1. PICK f \in Frames : f = Frame(t) /\ f.do = "addEndPoint" /\ Runs(t, "addEndPoint")
  BY Running DEF AddEndPoint
<1>2. f.name \in Int /\ raced' = raced /\ gen' \in Nat
  BY <1>1, AdditionFrames DEF AddEndPoint, TypeOK
<1>3. CASE UNCHANGED objects /\ Throw(t)
  <2>1. listed' = listed
    BY <1>3 DEF objects
  <2>2. QED
    BY <1>2, <1>3, <2>1, CalmEnds, NamesStay
<1>4. CASE /\ ~Defined("endpoint", f.name) /\ Defined("cluster", f.cluster)
           /\ JoinEndPoint(f.name, The("cluster", f.cluster)) /\ Await(t, <<>>)
  <2>1. PICK c \in 1 .. made : c = The("cluster", f.cluster)
    BY <1>4, TheIsNamed
  <2>2. Calm(t)
    BY <1>1, <1>4, CalmSteps
  <2>3. QED
    BY <1>2, <1>4, <2>1, <2>2, JoinNames
<1>5. QED
  BY <1>1, <1>3, <1>4 DEF AddEndPoint

\* The additions that define nothing in this step.
LEMMA OtherAdditionsNames ==
  ASSUME TypeOK, UniqueNames, PendingInv, Kept, NEW t \in Tasks,
         \/ RunListener(t) \/ FillRuleList(t) \/ AddRuleToRuleList(t) \/ AddRuleTo(t)
         \/ InsertRule(t) \/ BindRoute(t) \/ RunCluster(t)
  PROVE  UniqueNames' /\ PendingInv'
<1>1. listed' = listed /\ raced' = raced
  BY DEF RunListener, FillRuleList, AddRuleToRuleList, AddRuleTo, InsertRule, BindRoute, RunCluster,
         Refer, Fails, objects
<1>2. Calm(t)  \/ task' = task
  <2>1. CASE RunListener(t)
    BY <2>1, CalmSteps DEF RunListener
  <2>2. CASE FillRuleList(t)
    <3>1. PICK f \in Frames : f = Frame(t) /\ f.do = "fillRuleList" /\ Runs(t, "fillRuleList")
      BY <2>2, Running DEF FillRuleList
    <3>2. CASE f.rest = <<>>
      BY <2>2, <3>1, <3>2, CalmSteps DEF FillRuleList
    <3>3. CASE f.rest # <<>>
      <4>1. PICK g \in Frames : /\ g = [f EXCEPT !.rest = Tail(@), !.pos = @ + 1]
                                /\ g.do = f.do /\ g.id = f.id
        BY <3>1, <3>3, NextFillings
      <4>2. PICK a : a = [do |-> "addRuleTo", id |-> f.id, item |-> Head(f.rest), pos |-> f.pos]
        OBVIOUS
      <4>3. Proceed(t, <<a, g>>) /\ a.do = "addRuleTo"
        BY <2>2, <3>1, <3>3, <4>1, <4>2 DEF FillRuleList
      <4>4. QED
        BY <3>1, <4>1, <4>3, CalmSteps
    <3>4. QED
      BY <3>2, <3>3
  <2>3. CASE AddRuleToRuleList(t)
    BY <2>3, CalmSteps, CalmEnds DEF AddRuleToRuleList
  <2>4. CASE AddRuleTo(t)
    BY <2>4, CalmSteps, CalmEnds DEF AddRuleTo
  <2>5. CASE InsertRule(t)
    BY <2>5, CalmSteps DEF InsertRule
  <2>6. CASE BindRoute(t)
    BY <2>6, CalmSteps DEF BindRoute
  <2>7. CASE RunCluster(t)
    BY <2>7, CalmSteps DEF RunCluster
  <2>8. QED
    BY <2>1, <2>2, <2>3, <2>4, <2>5, <2>6, <2>7
<1>3. QED
  BY <1>1, <1>2, NamesStay

LEMMA NextNames ==
  ASSUME TypeOK, StackInv, UniqueNames, PendingInv, Kept, Next
  PROVE  UniqueNames' /\ PendingInv'
<1>1. PICK t \in Tasks : Call(t) \/ Add(t) \/ Delete(t)
  BY DEF Next
<1>2. CASE Call(t)
  BY <1>2, CallNames
<1>3. CASE Add(t)
  BY <1>3, AddListenerNames, PushListenerNames, AddRuleListNames, AddRuleNames, AddRouteNames,
     FillRouteNames, AddClusterNames, FillClusterNames, AddEndPointNames, OtherAdditionsNames DEF Add
<1>4. CASE Delete(t)
  BY <1>4, DeletionsShrink, NamesStay
<1>5. QED
  BY <1>1, <1>2, <1>3, <1>4
-----------------------------------------------------------------------------
(* What a step does to the objects.                                        *)

\* A rulelist refers to other rules, or a rule to its route.
Rebinds(t) ==
  \E i \in Ids, refs \in Seq(Int) :
    /\ \/ obj[i].kind = "rulelist"
       \/ obj[i].kind = "rule" /\ Runs(t, "bindRoute") /\ i = Frame(t).id /\ refs = <<Frame(t).name>>
    /\ Refer(i, refs)

\* What a new object refers to: a listener, which is never autogenerated, to its
\* rulelist, a rule to its route if it has one, and a cluster to no endpoint yet.
Fresh(k, auto, refs) ==
  /\ k = "listener" => ~auto /\ \E n \in Int : refs = <<n>>
  /\ k = "rule" => refs = <<>> \/ \E n \in Int : refs = <<n>>
  /\ k = "cluster" => refs = <<>>

Defines ==
  \E k \in Kinds \ {"endpoint"}, n \in Int, auto \in BOOLEAN, refs \in Seq(Int) :
    Fresh(k, auto, refs) /\ Create(k, n, auto, refs)

\* A new endpoint joins its cluster, or leaves it.
Joins ==
  /\ raced' = raced /\ gen' \in Nat
  /\ \E n \in Int, c \in listed :
       obj[c].kind = "cluster" /\ ~Defined("endpoint", n) /\ JoinEndPoint(n, c)

Leaves == \E n : Defined("endpoint", n) /\ LeaveEndPoint(n)

\* An object leaves its array at its turn; a cluster has no endpoints then.
Goes(t) ==
  /\ Runs(t, "unlist") /\ made' = made /\ obj' = obj /\ listed' = listed \ {Frame(t).id}
  /\ obj[Frame(t).id].kind \notin {"none", "endpoint"}
  /\ obj[Frame(t).id].kind = "cluster" => obj[Frame(t).id].refs = <<>>
  /\ Requested(t) \/ obj[Frame(t).id].auto \/ obj[Frame(t).id].kind = "rule"

Effect(t) == UNCHANGED objects \/ Rebinds(t) \/ Defines \/ Joins \/ Leaves \/ Goes(t)

LEMMA RebindsEffect ==
  ASSUME TypeOK, StackInv, NEW t \in Tasks,
         InsertRule(t) \/ BindRoute(t) \/ RulesOf(t) \/ RemoveRule(t)
  PROVE  Effect(t)
<1>1. CASE InsertRule(t)
  <2>1. PICK f \in Frames : f = Frame(t) /\ f.do = "insertRule" /\ Runs(t, "insertRule")
    BY <1>1, Running DEF InsertRule
  <2>2. f.id \in Ids /\ f.name \in Int /\ f.pos \in Nat /\ obj[f.id].refs \in Seq(Int)
    BY <2>1, AdditionFrames DEF TypeOK, Objects
  <2>3. PICK refs \in Seq(Int) : refs = Insert(obj[f.id].refs, f.pos, f.name)
    BY <2>2, Inserted
  <2>4. Refer(f.id, refs) /\ obj[f.id].kind = "rulelist"
    BY <1>1, <2>1, <2>3, FirstLegal DEF InsertRule, KindOK
  <2>5. QED
    BY <2>2, <2>4 DEF Rebinds, Effect
<1>2. CASE BindRoute(t)
  <2>1. PICK f \in Frames : f = Frame(t) /\ f.do = "bindRoute" /\ Runs(t, "bindRoute")
    BY <1>2, Running DEF BindRoute
  <2>2. f.id \in Ids /\ <<f.name>> \in Seq(Int)
    BY <2>1, AdditionFrames
  <2>3. Refer(f.id, <<f.name>>) /\ obj[f.id].kind = "rule"
    BY <1>2, <2>1, FirstLegal DEF BindRoute, KindOK
  <2>4. QED
    BY <2>1, <2>2, <2>3 DEF Rebinds, Effect
<1>3. CASE RulesOf(t)
  <2>1. PICK f \in Frames : f = Frame(t) /\ f.do = "rulesOf" /\ Runs(t, "rulesOf")
    BY <1>3, Running DEF RulesOf
  <2>2. f.id \in Ids /\ obj[f.id].refs \in Seq(Int)
    BY <2>1, DeletionFrames DEF TypeOK, Objects
  <2>3. PICK refs \in Seq(Int) : refs = Without(obj[f.id].refs, Head(f.rest))
    BY <2>2, WithoutElement
  <2>4. UNCHANGED objects \/ Refer(f.id, refs)
    BY <1>3, <2>1, <2>3 DEF RulesOf
  <2>5. obj[f.id].kind = "rulelist"
    BY <2>1, FirstLegal DEF KindOK
  <2>6. QED
    BY <2>2, <2>4, <2>5 DEF Rebinds, Effect
<1>4. CASE RemoveRule(t)
  <2>1. PICK f \in Frames : f = Frame(t) /\ f.do = "removeRule" /\ Runs(t, "removeRule")
    BY <1>4, Running DEF RemoveRule
  <2>2. f.id \in Ids /\ f.pos \in Nat /\ obj[f.id].refs \in Seq(Int)
    BY <2>1, DeletionFrames DEF TypeOK, Objects
  <2>3. PICK refs \in Seq(Int) : refs = RemoveAt(obj[f.id].refs, f.pos)
    BY <2>2, Removed
  <2>4. Refer(f.id, refs) /\ obj[f.id].kind = "rulelist"
    BY <1>4, <2>1, <2>3, FirstLegal DEF RemoveRule, KindOK
  <2>5. QED
    BY <2>2, <2>4 DEF Rebinds, Effect
<1>5. QED
  BY <1>1, <1>2, <1>3, <1>4

LEMMA DefinesEffect ==
  ASSUME TypeOK, NEW t \in Tasks,
         PushListener(t) \/ AddRuleList(t) \/ AddRule(t) \/ FillRoute(t) \/ AddCluster(t)
  PROVE  Effect(t)
<1>0. <<>> \in Seq(Int)
  BY EmptySeq
<1>1. CASE PushListener(t)
  <2>1. PICK f \in Frames : f = Frame(t) /\ f.do = "pushListener"
    BY <1>1, Running DEF PushListener
  <2>2. f.name \in Int /\ <<f.rules>> \in Seq(Int) /\ "listener" \in Kinds \ {"endpoint"}
    BY <2>1, AdditionFrames DEF Kinds
  <2>3. Create("listener", f.name, FALSE, <<f.rules>>)
    BY <1>1, <2>1 DEF PushListener
  <2>4. Fresh("listener", FALSE, <<f.rules>>)
    BY <2>1, AdditionFrames DEF Fresh
  <2>5. QED
    BY <2>2, <2>3, <2>4 DEF Defines, Effect
<1>2. CASE AddRuleList(t)
  <2>1. PICK f \in Frames : f = Frame(t) /\ f.do = "addRuleList"
    BY <1>2, Running DEF AddRuleList
  <2>2. f.item.name \in Int /\ f.auto \in BOOLEAN /\ "rulelist" \in Kinds \ {"endpoint"}
    BY <2>1, AdditionFrames DEF Kinds, Item
  <2>3. UNCHANGED objects \/ Create("rulelist", f.item.name, f.auto, <<>>)
    BY <1>2, <2>1 DEF AddRuleList
  <2>4. Fresh("rulelist", f.auto, <<>>)
    BY DEF Fresh
  <2>5. QED
    BY <1>0, <2>2, <2>3, <2>4 DEF Defines, Effect
<1>3. CASE AddRule(t)
  <2>1. PICK f \in Frames : f = Frame(t) /\ f.do = "addRule"
    BY <1>3, Running DEF AddRule
  <2>2. /\ f.item \in Item /\ f.item.name \in Int /\ f.auto \in BOOLEAN /\ gen \in Nat
        /\ "rule" \in Kinds \ {"endpoint"}
    BY <2>1, AdditionFrames DEF Kinds, Item, TypeOK
  <2>3. PICK route : route = WithName(f.item.parts[1])
    OBVIOUS
  <2>4. CASE f.item.parts # <<>> /\ Create("rule", f.item.name, f.auto, <<route.name>>)
    <3>1. route.name \in Int
      BY <2>2, <2>3, <2>4, NamedItem
    <3>2. <<route.name>> \in Seq(Int)
      BY <3>1
    <3>3. Fresh("rule", f.auto, <<route.name>>)
      BY <3>1 DEF Fresh
    <3>4. QED
      BY <2>2, <2>4, <3>2, <3>3 DEF Defines, Effect
  <2>5. CASE UNCHANGED objects \/ Create("rule", f.item.name, f.auto, <<>>)
    <3>1. Fresh("rule", f.auto, <<>>)
      BY DEF Fresh
    <3>2. QED
      BY <1>0, <2>2, <2>5, <3>1 DEF Defines, Effect
  <2>6. QED
    BY <1>3, <2>1, <2>3, <2>4, <2>5 DEF AddRule
<1>4. CASE FillRoute(t)
  <2>1. PICK f \in Frames : f = Frame(t) /\ f.do = "fillRoute"
    BY <1>4, Running DEF FillRoute
  <2>2. f.name \in Int /\ f.auto \in BOOLEAN /\ f.done \in Seq(Int) /\ "route" \in Kinds \ {"endpoint"}
    BY <2>1, AdditionFrames DEF Kinds
  <2>3. UNCHANGED objects \/ Create("route", f.name, f.auto, f.done)
    BY <1>4, <2>1 DEF FillRoute
  <2>4. Fresh("route", f.auto, f.done)
    BY DEF Fresh
  <2>5. QED
    BY <2>2, <2>3, <2>4 DEF Defines, Effect
<1>5. CASE AddCluster(t)
  <2>1. PICK f \in Frames : f = Frame(t) /\ f.do = "addCluster"
    BY <1>5, Running DEF AddCluster
  <2>2. f.item.name \in Int /\ f.auto \in BOOLEAN /\ "cluster" \in Kinds \ {"endpoint"}
    BY <2>1, AdditionFrames DEF Kinds, Item
  <2>3. UNCHANGED objects \/ Create("cluster", f.item.name, f.auto, <<>>)
    BY <1>5, <2>1 DEF AddCluster
  <2>4. Fresh("cluster", f.auto, <<>>)
    BY DEF Fresh
  <2>5. QED
    BY <1>0, <2>2, <2>3, <2>4 DEF Defines, Effect
<1>6. QED
  BY <1>1, <1>2, <1>3, <1>4, <1>5

LEMMA JoinsEffect ==
  ASSUME TypeOK, StackInv, NEW t \in Tasks, FillCluster(t) \/ AddEndPoint(t)
  PROVE  Effect(t)
<1>1. CASE FillCluster(t)
  <2>1. PICK f \in Frames : f = Frame(t) /\ f.do = "fillCluster" /\ Runs(t, "fillCluster")
    BY <1>1, Running DEF FillCluster
  <2>2. f.id \in listed /\ obj[f.id].kind = "cluster" /\ gen \in Nat
    BY <2>1, FirstLegal, Running DEF Undisturbed, KindOK, TypeOK
  <2>3. PICK c \in listed : c = The("cluster", obj[f.id].name) /\ obj[c].kind = "cluster"
    <3>1. Defined("cluster", obj[f.id].name)
      BY <2>2 DEF Defined, Named
    <3>2. QED
      BY <3>1, TheIsNamed
  <2>4. PICK e : e = WithName(Head(f.rest))
    OBVIOUS
  <2>5. /\ raced' = raced
        /\ \/ UNCHANGED objects
           \/ /\ f.rest # <<>> /\ ~Defined("endpoint", e.name) /\ JoinEndPoint(e.name, c)
              /\ CountName(Head(f.rest))
    BY <1>1, <2>1, <2>3, <2>4 DEF FillCluster
  <2>6. f.rest # <<>> => e.name \in Int /\ (CountName(Head(f.rest)) => gen' \in Nat)
    BY <2>1, <2>2, <2>4, NextFillings, NamedItem
  <2>7. QED
    BY <2>3, <2>5, <2>6 DEF Joins, Effect
<1>2. CASE AddEndPoint(t)
  <2>1. PICK f \in Frames : f = Frame(t) /\ f.do = "addEndPoint"
    BY <1>2, Running DEF AddEndPoint
  <2>2. f.name \in Int /\ raced' = raced /\ gen' \in Nat
    BY <1>2, <2>1, AdditionFrames DEF AddEndPoint, TypeOK
  <2>3. CASE UNCHANGED objects
    BY <2>3 DEF Effect
  <2>4. CASE /\ ~Defined("endpoint", f.name) /\ Defined("cluster", f.cluster)
             /\ JoinEndPoint(f.name, The("cluster", f.cluster))
    <3>1. PICK c \in listed : c = The("cluster", f.cluster) /\ obj[c].kind = "cluster"
      BY <2>4, TheIsNamed
    <3>2. QED
      BY <2>2, <2>4, <3>1 DEF Joins, Effect
  <2>5. QED
    BY <1>2, <2>1, <2>3, <2>4 DEF AddEndPoint
<1>3. QED
  BY <1>1, <1>2

LEMMA UnlistEffect ==
  ASSUME TypeOK, StackInv, NEW t \in Tasks, Unlist(t)
  PROVE  Effect(t)
<1>1. PICK f \in Frames : f = Frame(t) /\ f.do = "unlist" /\ Runs(t, "unlist") /\ f = task[t][1]
  BY Running DEF Unlist
<1>2. /\ obj[f.id].kind \notin {"none", "endpoint"}
      /\ FinalFrame(t, 1) \/ obj[f.id].auto \/ obj[f.id].kind = "rule"
      /\ obj[f.id].kind = "cluster" => obj[f.id].refs = <<>>
  BY <1>1, FirstLegal DEF KindOK, Allowed, Undisturbed
<1>3. FinalFrame(t, 1) => Requested(t)
  BY DEF FinalFrame, Requested
<1>4. QED
  BY <1>1, <1>2, <1>3 DEF Unlist, Goes, Effect

LEMMA StepEffect ==
  ASSUME TypeOK, StackInv, NEW t \in Tasks, Call(t) \/ Add(t) \/ Delete(t)
  PROVE  Effect(t)
<1>2. CASE Call(t)
  BY <1>2 DEF Call, Effect
<1>3. CASE Add(t)
  <2>1. CASE \/ AddListener(t) \/ RunListener(t) \/ FillRuleList(t) \/ AddRuleToRuleList(t)
             \/ AddRuleTo(t) \/ AddRoute(t) \/ RunCluster(t)
    BY <2>1 DEF AddListener, RunListener, FillRuleList, AddRuleToRuleList, AddRuleTo, AddRoute,
                RunCluster, Fails, objects, Effect
  <2>2. QED
    BY <1>3, <2>1, RebindsEffect, DefinesEffect, JoinsEffect DEF Add
<1>4. CASE Delete(t)
  <2>1. CASE \/ DeleteListener(t) \/ DeleteRuleList(t) \/ DeleteRuleFromRuleList(t) \/ DeleteRule(t)
             \/ DeleteRoute(t) \/ ClustersOf(t) \/ DeleteCluster(t) \/ Rethrow(t)
    BY <2>1 DEF DeleteListener, DeleteRuleList, DeleteRuleFromRuleList, DeleteRule, DeleteRoute,
                ClustersOf, DeleteCluster, Rethrow, Fails, objects, Effect
  <2>2. CASE EndPointsOf(t) \/ DeleteEndPoint(t)
    BY <2>2 DEF EndPointsOf, DeleteEndPoint, DropEndPoint, objects, Leaves, Effect
  <2>3. QED
    BY <1>4, <2>1, <2>2, RebindsEffect, UnlistEffect DEF Delete
<1>5. QED
  BY <1>2, <1>3, <1>4

LEMMA NextEffect ==
  ASSUME TypeOK, StackInv, Next
  PROVE  \E t \in Tasks : Effect(t)
BY StepEffect DEF Next
-----------------------------------------------------------------------------
(* Clusters and their endpoints after a step.                              *)

LEMMA MembersSame ==
  ASSUME TypeOK, MembersInv,
         \A i \in listed' : \/ i \in listed
                            \/ obj'[i].kind = "cluster" /\ obj'[i].refs = <<>>
                            \/ obj'[i].kind \notin {"endpoint", "cluster"},
         \A i \in listed : /\ obj'[i].kind = obj[i].kind /\ obj'[i].name = obj[i].name
                           /\ obj[i].kind \in {"endpoint", "cluster"} => obj'[i].refs = obj[i].refs
                           /\ obj[i].kind = "endpoint" => i \in listed'
                           /\ obj[i].kind = "cluster" /\ obj[i].refs # <<>> => i \in listed'
  PROVE  MembersInv'
<1>1. ASSUME NEW i \in listed', obj'[i].kind = "endpoint" PROVE AtHome(i)'
  <2>1. i \in listed /\ obj[i].kind = "endpoint" /\ obj'[i].refs = obj[i].refs /\ obj'[i].name = obj[i].name
    BY <1>1
  <2>2. PICK c \in listed : /\ obj[c].kind = "cluster" /\ obj[i].refs = <<obj[c].name>>
                            /\ obj[i].name \in Elements(obj[c].refs)
    BY <2>1 DEF MembersInv, AtHome
  <2>3. obj[c].refs # <<>>
    BY <2>2 DEF Elements
  <2>4. c \in listed' /\ obj'[c].kind = "cluster" /\ obj'[c].name = obj[c].name /\ obj'[c].refs = obj[c].refs
    BY <2>2, <2>3
  <2>5. QED
    BY <2>1, <2>2, <2>4 DEF AtHome
<1>2. ASSUME NEW i \in listed', obj'[i].kind = "cluster" PROVE Populated(i)'
  <2>1. CASE obj'[i].refs = <<>>
    BY <2>1 DEF Populated, Distinct, Elements
  <2>2. CASE obj'[i].refs # <<>>
    <3>1. i \in listed /\ obj[i].kind = "cluster" /\ obj'[i].refs = obj[i].refs /\ obj'[i].name = obj[i].name
      BY <1>2, <2>2
    <3>2. Distinct(obj[i].refs)'
      BY <3>1 DEF MembersInv, Populated, Distinct
    <3>3. ASSUME NEW n \in Elements(obj[i].refs)
          PROVE  \E e \in Named("endpoint", n)' : obj'[e].refs = <<obj'[i].name>>
      <4>1. PICK e \in Named("endpoint", n) : obj[e].refs = <<obj[i].name>>
        BY <3>1 DEF MembersInv, Populated
      <4>2. e \in listed /\ obj[e].kind = "endpoint" /\ obj[e].name = n
        BY <4>1 DEF Named
      <4>3. e \in listed' /\ obj'[e].kind = "endpoint" /\ obj'[e].name = n /\ obj'[e].refs = obj[e].refs
        BY <4>2
      <4>4. QED
        BY <3>1, <4>1, <4>3 DEF Named
    <3>4. Elements(obj[i].refs)' = Elements(obj[i].refs)
      BY <3>1 DEF Elements
    <3>5. QED
      BY <3>2, <3>3, <3>4 DEF Populated
  <2>3. QED
    BY <2>1, <2>2
<1>3. QED
  BY <1>1, <1>2 DEF MembersInv

LEMMA QuietMembers ==
  ASSUME TypeOK, MembersInv, Kept, NEW t \in Tasks, UNCHANGED objects \/ Rebinds(t) \/ Defines \/ Goes(t)
  PROVE  MembersInv'
<1>0. \A i \in listed : i \in 1 .. made /\ i \in Ids
  BY MadeAreIds, TypeParts DEF TypeOK
<1>1. \A i \in listed : obj'[i].kind = obj[i].kind /\ obj'[i].name = obj[i].name
  BY <1>0 DEF Kept
<1>2. CASE UNCHANGED objects
  BY <1>2, MembersSame DEF objects
<1>3. CASE Rebinds(t)
  <2>1. PICK i \in Ids, refs \in Seq(Int) : obj[i].kind \in {"rulelist", "rule"} /\ Refer(i, refs)
    BY <1>3 DEF Rebinds
  <2>2. listed' = listed /\ \A j \in Ids : j # i => obj'[j] = obj[j]
    BY <2>1 DEF Refer, TypeOK
  <2>3. \A j \in listed : obj[j].kind \in {"endpoint", "cluster"} => obj'[j] = obj[j]
    BY <1>0, <2>1, <2>2
  <2>4. QED
    BY <1>1, <2>2, <2>3, MembersSame
<1>4. CASE Defines
  <2>1. PICK k \in Kinds \ {"endpoint"}, n \in Int, auto \in BOOLEAN, refs \in Seq(Int) :
          (k = "cluster" => refs = <<>>) /\ Create(k, n, auto, refs)
    BY <1>4 DEF Defines, Fresh
  <2>2. made + 1 \in Ids /\ made + 1 \notin 1 .. made
    <3>1. made \in Nat /\ made < MaxObjects /\ MaxObjects \in Nat
      BY <2>1, RegistryAssumption DEF Create, TypeOK
    <3>2. QED
      BY <3>1 DEF Ids
  <2>3. PICK o : o = [kind |-> k, name |-> n, auto |-> auto, refs |-> refs]
    OBVIOUS
  <2>4. obj' = [obj EXCEPT ![made + 1] = o]
    BY <2>1, <2>3 DEF Create
  <2>5. obj'[made + 1] = o /\ \A j \in Ids : j # made + 1 => obj'[j] = obj[j]
    BY <2>2, <2>4 DEF TypeOK
  <2>6. listed' = listed \union {made + 1} /\ \A j \in listed : obj'[j] = obj[j]
    BY <1>0, <2>1, <2>2, <2>5 DEF Create
  <2>7. \A i \in listed' : \/ i \in listed
                           \/ obj'[i].kind = "cluster" /\ obj'[i].refs = <<>>
                           \/ obj'[i].kind \notin {"endpoint", "cluster"}
    BY <2>1, <2>3, <2>5, <2>6
  <2>8. QED
    BY <2>6, <2>7, MembersSame
<1>5. CASE Goes(t)
  <2>1. PICK i : /\ listed' = listed \ {i} /\ obj' = obj /\ obj[i].kind # "endpoint"
                 /\ obj[i].kind = "cluster" => obj[i].refs = <<>>
    BY <1>5 DEF Goes
  <2>2. QED
    BY <2>1, MembersSame
<1>6. QED
  BY <1>2, <1>3, <1>4, <1>5

LEMMA JoinMembers ==
  ASSUME TypeOK, UniqueNames, MembersInv, Joins
  PROVE  MembersInv'
<1>1. PICK n \in Int, c \in listed :
        obj[c].kind = "cluster" /\ ~Defined("endpoint", n) /\ JoinEndPoint(n, c)
  BY DEF Joins
<1>1a. raced' = raced /\ gen' \in Nat
  BY DEF Joins
<1>2. \A i \in listed : i \in 1 .. made /\ i \in Ids
  BY MadeAreIds, TypeParts DEF TypeOK
<1>3. PICK e : e = made + 1
  OBVIOUS
<1>4. /\ listed' = listed \union {e}
      /\ obj'[e] = [kind |-> "endpoint", name |-> n, auto |-> FALSE, refs |-> <<obj[c].name>>]
      /\ obj'[c].refs = Append(obj[c].refs, n)
      /\ \A i \in 1 .. made : i # c => obj'[i] = obj[i]
      /\ Kept
  BY <1>1, <1>1a, <1>2, <1>3, JoinType, TypeParts
<1>5. /\ obj'[e].kind = "endpoint" /\ obj'[e].name = n /\ obj'[e].refs = <<obj[c].name>>
  BY <1>4
<1>6. \A i \in listed : obj'[i].kind = obj[i].kind /\ obj'[i].name = obj[i].name
  BY <1>2, <1>4 DEF Kept
<1>7. PICK s : s = obj[c].refs
  OBVIOUS
<1>8. s \in Seq(Int) /\ Distinct(s)
  BY <1>1, <1>2, <1>7 DEF MembersInv, Populated, TypeOK, Objects
<1>9. PICK r : r = Append(s, n)
  OBVIOUS
<1>10. /\ r \in Seq(Int) /\ Len(r) = Len(s) + 1 /\ r[Len(s) + 1] = n
       /\ \A p \in 1 .. Len(s) : r[p] = s[p]
       /\ Len(s) \in Nat
  BY <1>8, <1>9, AppendProperties, LenProperties
<1>11. n \notin Elements(s)
  <2>1. ASSUME n \in Elements(s) PROVE FALSE
    <3>1. PICK d \in Named("endpoint", n) : obj[d].refs = <<obj[c].name>>
      BY <1>1, <1>7, <2>1 DEF MembersInv, Populated
    <3>2. QED
      BY <1>1, <3>1 DEF Defined
  <2>2. QED
    BY <2>1
<1>12. Elements(r) = Elements(s) \union {n}
  <2>1. \A x : x \in Elements(s) <=> \E p \in 1 .. Len(s) : s[p] = x
    BY <1>8, ElementsOf
  <2>2. \A x : x \in Elements(r) <=> \E p \in 1 .. Len(r) : r[p] = x
    BY <1>10, ElementsOf
  <2>3. \A p \in 1 .. Len(r) : p \in 1 .. Len(s) \/ p = Len(s) + 1
    BY <1>10
  <2>4. Elements(r) \subseteq Elements(s) \union {n}
    BY <1>10, <2>1, <2>2, <2>3
  <2>5. \A p \in 1 .. Len(s) : p \in 1 .. Len(r)
    BY <1>10
  <2>6. Elements(s) \subseteq Elements(r)
    BY <1>10, <2>1, <2>2, <2>5
  <2>7. Len(s) + 1 \in 1 .. Len(r)
    BY <1>10
  <2>8. n \in Elements(r)
    BY <1>10, <2>2, <2>7
  <2>9. QED
    BY <2>4, <2>6, <2>8
<1>13. Distinct(r)
  <2>1. ASSUME NEW p \in 1 .. Len(r), NEW q \in 1 .. Len(r), r[p] = r[q] PROVE p = q
    <3>1. CASE p \in 1 .. Len(s) /\ q \in 1 .. Len(s)
      BY <1>8, <1>10, <2>1, <3>1 DEF Distinct
    <3>2. CASE p = Len(s) + 1 /\ q = Len(s) + 1
      BY <3>2
    <3>3. CASE p \in 1 .. Len(s) /\ q = Len(s) + 1
      <4>1. s[p] = n
        BY <1>10, <2>1, <3>3
      <4>2. QED
        BY <1>8, <1>11, <3>3, <4>1, ElementsOf
    <3>4. CASE q \in 1 .. Len(s) /\ p = Len(s) + 1
      <4>1. s[q] = n
        BY <1>10, <2>1, <3>4
      <4>2. QED
        BY <1>8, <1>11, <3>4, <4>1, ElementsOf
    <3>5. QED
      BY <1>10, <2>1, <3>1, <3>2, <3>3, <3>4
  <2>2. QED
    BY <2>1 DEF Distinct
<1>14. obj'[c].refs = r /\ c \in listed' /\ obj'[c].kind = "cluster" /\ obj'[c].name = obj[c].name
  BY <1>1, <1>4, <1>6, <1>7, <1>9
<1>15. \A i \in listed : i # c => obj'[i] = obj[i]
  BY <1>2, <1>4
<1>16. ASSUME NEW i \in listed', obj'[i].kind = "endpoint" PROVE AtHome(i)'
  <2>1. CASE i = e
    <3>1. obj'[e].name \in Elements(r) /\ obj'[e].refs = <<obj'[c].name>>
      BY <1>5, <1>12, <1>14
    <3>2. QED
      BY <1>14, <2>1, <3>1 DEF AtHome
  <2>2. CASE i # e
    <3>1. i \in listed /\ i # c /\ obj'[i] = obj[i] /\ obj[i].kind = "endpoint"
      BY <1>1, <1>4, <1>6, <1>15, <1>16, <2>2
    <3>2. PICK d \in listed : /\ obj[d].kind = "cluster" /\ obj[i].refs = <<obj[d].name>>
                              /\ obj[i].name \in Elements(obj[d].refs)
      BY <3>1 DEF MembersInv, AtHome
    <3>3. d \in listed' /\ obj'[d].kind = "cluster" /\ obj'[d].name = obj[d].name
      BY <1>4, <1>6, <3>2
    <3>4. obj[i].name \in Elements(obj'[d].refs)
      <4>1. CASE d = c
        BY <1>7, <1>12, <1>14, <3>2, <4>1
      <4>2. CASE d # c
        BY <1>15, <3>2, <4>2
      <4>3. QED
        BY <4>1, <4>2
    <3>5. QED
      BY <3>1, <3>2, <3>3, <3>4 DEF AtHome
  <2>3. QED
    BY <2>1, <2>2
<1>17. \A m \in Int : \A d \in Named("endpoint", m) :
         d \in Named("endpoint", m)' /\ obj'[d].refs = obj[d].refs
  <2>1. \A d \in listed : obj[d].kind = "endpoint" => d \in listed' /\ obj'[d] = obj[d]
    BY <1>1, <1>4, <1>15
  <2>2. QED
    BY <2>1 DEF Named
<1>18. ASSUME NEW i \in listed', obj'[i].kind = "cluster" PROVE Populated(i)'
  <2>1. i \in listed /\ obj[i].kind = "cluster" /\ obj'[i].name = obj[i].name
    BY <1>4, <1>5, <1>6, <1>18
  <2>2. CASE i = c
    <3>1. ASSUME NEW m \in Elements(r)
          PROVE  \E d \in Named("endpoint", m)' : obj'[d].refs = <<obj'[i].name>>
      <4>1. CASE m = n
        <5>1. e \in Named("endpoint", m)'
          BY <1>4, <1>5, <4>1 DEF Named
        <5>2. QED
          BY <1>5, <2>1, <2>2, <5>1
      <4>2. CASE m # n
        <5>1. m \in Elements(s) /\ m \in Int
          BY <1>8, <1>12, <4>2, ElementsOf
        <5>2. PICK d \in Named("endpoint", m) : obj[d].refs = <<obj[c].name>>
          BY <1>1, <1>7, <5>1 DEF MembersInv, Populated
        <5>3. QED
          BY <1>14, <1>17, <2>2, <5>1, <5>2
      <4>3. QED
        BY <4>1, <4>2
    <3>2. QED
      BY <1>13, <1>14, <2>2, <3>1 DEF Populated
  <2>3. CASE i # c
    <3>1. obj'[i] = obj[i]
      BY <1>15, <2>1, <2>3
    <3>2. obj[i].refs \in Seq(Int)
      BY <1>2, <2>1 DEF TypeOK, Objects
    <3>3. ASSUME NEW m \in Elements(obj[i].refs)
          PROVE  \E d \in Named("endpoint", m)' : obj'[d].refs = <<obj'[i].name>>
      <4>1. PICK d \in Named("endpoint", m) : obj[d].refs = <<obj[i].name>>
        BY <2>1 DEF MembersInv, Populated
      <4>2. m \in Int
        BY <3>2, ElementsOf
      <4>3. QED
        BY <1>17, <3>1, <4>1, <4>2
    <3>4. Distinct(obj[i].refs)
      BY <2>1 DEF MembersInv, Populated
    <3>5. QED
      BY <3>1, <3>3, <3>4 DEF Populated
  <2>4. QED
    BY <2>2, <2>3
<1>19. QED
  BY <1>16, <1>18 DEF MembersInv

LEMMA LeaveMembers ==
  ASSUME TypeOK, UniqueNames, MembersInv, Leaves
  PROVE  MembersInv'
<1>1. PICK n : Defined("endpoint", n) /\ LeaveEndPoint(n)
  BY DEF Leaves
<1>2. PICK e, c \in listed : Departs(n, e, c)
  BY <1>1, Leaving
<1>3. \A i \in listed : i \in Ids
  BY MadeAreIds, TypeParts DEF TypeOK
<1>4. PICK s, w : s = obj[c].refs /\ w = Without(s, n)
  OBVIOUS
<1>5. /\ obj[e].kind = "endpoint" /\ obj[e].name = n /\ obj[c].kind = "cluster" /\ c # e
      /\ obj[e].refs = <<obj[c].name>> /\ s \in Seq(Int) /\ Distinct(s) /\ listed' = listed \ {e}
      /\ \A i \in listed : i # c => obj'[i] = obj[i]
  BY <1>2, <1>3, <1>4 DEF Departs
<1>6. obj'[c].kind = "cluster" /\ obj'[c].name = obj[c].name /\ obj'[c].refs = w
  <2>1. obj[c] \in Objects /\ obj'[c] = [obj[c] EXCEPT !.refs = w]
    BY <1>2, <1>3, <1>4 DEF Departs, TypeOK
  <2>2. QED
    BY <1>5, <2>1 DEF Objects
<1>7. /\ w \in Seq(Int) /\ Elements(w) \subseteq Elements(s) /\ Elements(s) \ {n} \subseteq Elements(w)
      /\ Distinct(w) /\ n \notin Elements(w)
  BY <1>4, <1>5, WithoutElement, WithoutDistinct
<1>8. \A i \in listed : obj[i].kind = "endpoint" /\ obj[i].name = n => i = e
  BY <1>5, OnlyOne
<1>9. ASSUME NEW i \in listed', obj'[i].kind = "endpoint" PROVE AtHome(i)'
  <2>1. i \in listed /\ i # e /\ i # c
    BY <1>5, <1>6, <1>9
  <2>2. obj'[i] = obj[i]
    BY <1>5, <2>1
  <2>3. PICK d \in listed : /\ obj[d].kind = "cluster" /\ obj[i].refs = <<obj[d].name>>
                            /\ obj[i].name \in Elements(obj[d].refs)
    BY <1>9, <2>1, <2>2 DEF MembersInv, AtHome
  <2>4. obj[i].name # n
    BY <1>8, <1>9, <2>1, <2>2
  <2>5. d \in listed' /\ d # e
    BY <1>5, <2>3
  <2>6. CASE d = c
    <3>1. obj[i].name \in Elements(w)
      BY <1>4, <1>7, <2>3, <2>4, <2>6
    <3>2. QED
      BY <1>6, <2>2, <2>3, <2>5, <2>6, <3>1 DEF AtHome
  <2>7. CASE d # c
    <3>1. obj'[d] = obj[d]
      BY <1>5, <2>7
    <3>2. QED
      BY <2>2, <2>3, <2>5, <3>1 DEF AtHome
  <2>8. QED
    BY <2>6, <2>7
<1>10. ASSUME NEW m, m # n, NEW d \in Named("endpoint", m)
       PROVE  d \in Named("endpoint", m)' /\ obj'[d].refs = obj[d].refs
  <2>1. d \in listed /\ obj[d].kind = "endpoint" /\ obj[d].name = m
    BY <1>10 DEF Named
  <2>2. d # e /\ d # c
    BY <1>5, <1>10, <2>1
  <2>3. d \in listed' /\ obj'[d] = obj[d]
    BY <1>5, <2>1, <2>2
  <2>4. QED
    BY <2>1, <2>3 DEF Named
<1>11. ASSUME NEW i \in listed', obj'[i].kind = "cluster" PROVE Populated(i)'
  <2>1. i \in listed /\ i # e
    BY <1>5
  <2>2. CASE i = c
    <3>1. ASSUME NEW m \in Elements(w)
          PROVE  \E d \in Named("endpoint", m)' : obj'[d].refs = <<obj'[i].name>>
      <4>1. m # n /\ m \in Elements(s)
        BY <1>7
      <4>2. PICK d \in Named("endpoint", m) : obj[d].refs = <<obj[c].name>>
        BY <1>4, <1>5, <4>1 DEF MembersInv, Populated
      <4>3. QED
        BY <1>6, <1>10, <2>2, <4>1, <4>2
    <3>2. QED
      BY <1>6, <1>7, <2>2, <3>1 DEF Populated
  <2>3. CASE i # c
    <3>1. obj'[i] = obj[i] /\ obj[i].kind = "cluster"
      BY <1>5, <1>11, <2>1, <2>3
    <3>2. n \notin Elements(obj[i].refs)
      <4>1. ASSUME n \in Elements(obj[i].refs) PROVE FALSE
        <5>1. PICK d \in Named("endpoint", n) : obj[d].refs = <<obj[i].name>>
          BY <2>1, <3>1, <4>1 DEF MembersInv, Populated
        <5>2. d = e
          BY <1>8, <5>1 DEF Named
        <5>3. <<obj[i].name>>[1] = <<obj[c].name>>[1]
          BY <1>5, <5>1, <5>2
        <5>4. obj[i].name = obj[c].name
          BY <5>3
        <5>5. i = c
          BY <1>5, <2>1, <3>1, <5>4, OnlyOne
        <5>6. QED
          BY <2>3, <5>5
      <4>2. QED
        BY <4>1
    <3>3. ASSUME NEW m \in Elements(obj[i].refs)
          PROVE  \E d \in Named("endpoint", m)' : obj'[d].refs = <<obj'[i].name>>
      <4>1. PICK d \in Named("endpoint", m) : obj[d].refs = <<obj[i].name>>
        BY <2>1, <3>1 DEF MembersInv, Populated
      <4>2. m # n
        BY <3>2
      <4>3. QED
        BY <1>10, <3>1, <4>1, <4>2
    <3>4. Distinct(obj[i].refs)
      BY <2>1, <3>1 DEF MembersInv, Populated
    <3>5. QED
      BY <3>1, <3>3, <3>4 DEF Populated
  <2>4. QED
    BY <2>2, <2>3
<1>12. QED
  BY <1>9, <1>11 DEF MembersInv
-----------------------------------------------------------------------------
(* The inductive invariant.                                                *)

IInv == TypeOK /\ StackInv /\ UniqueNames /\ PendingInv /\ MembersInv

LEMMA InitInv == Init => IInv
<1> SUFFICES ASSUME Init PROVE IInv
  OBVIOUS
<1>1. listed = {} /\ made = 0 /\ turn = NoTask /\ raced = {} /\ strays = {}
  BY DEF Init
<1>2. task \in [Tasks -> Seq(Frames)] /\ \A t \in Tasks : task[t] = <<>>
  BY OneFrame DEF Init
<1>3. obj \in [Ids -> Objects] /\ \A i \in Ids : obj[i].kind = "none" /\ i > 0
  <2>1. PICK r \in Seq(Int) : r = <<>>
    BY EmptySeq
  <2>2. [kind |-> "none", name |-> 0, auto |-> FALSE, refs |-> r] \in Objects
    BY DEF Objects
  <2>3. PICK o \in Objects : o = [kind |-> "none", name |-> 0, auto |-> FALSE, refs |-> <<>>]
    BY <2>1, <2>2
  <2>4. obj = [i \in Ids |-> o]
    BY <2>3 DEF Init
  <2>5. \A i \in Ids : i > 0
    BY RegistryAssumption DEF Ids
  <2>6. QED
    BY <2>3, <2>4, <2>5
<1>4. TypeOK
  BY <1>1, <1>2, <1>3, RegistryAssumption DEF Init, TypeOK
<1>5. StackInv
  BY <1>2 DEF StackInv
<1>6. UniqueNames /\ MembersInv
  BY <1>1 DEF UniqueNames, MembersInv
<1>7. PendingInv
  BY <1>2 DEF PendingInv, Pends
<1>8. QED
  BY <1>4, <1>5, <1>6, <1>7 DEF IInv

LEMMA NextMembers ==
  ASSUME TypeOK, StackInv, UniqueNames, MembersInv, Kept, Next
  PROVE  MembersInv'
<1>1. PICK t \in Tasks : Effect(t)
  BY NextEffect
<1>2. QED
  BY <1>1, QuietMembers, JoinMembers, LeaveMembers DEF Effect

LEMMA StutterInv ==
  ASSUME IInv, UNCHANGED vars
  PROVE  IInv'
<1>1. UNCHANGED objects /\ UNCHANGED <<made, gen, obj, listed, task, turn, up, calls, faults, raced, strays>>
  BY DEF vars, objects
<1>2. TypeOK'
  BY <1>1 DEF IInv, TypeOK
<1>3. StackInv'
  BY <1>1, SameStacks DEF IInv
<1>4. UniqueNames'
  BY <1>1 DEF IInv, UniqueNames
<1>5. PendingInv'
  BY <1>1 DEF IInv, PendingInv, Pends, Defined, Named
<1>6. MembersInv'
  BY <1>1, MembersSame DEF IInv
<1>7. QED
  BY <1>2, <1>3, <1>4, <1>5, <1>6 DEF IInv

LEMMA NextInv ==
  ASSUME IInv, [Next]_vars
  PROVE  IInv'
<1>1. CASE Next
  <2>1. TypeOK' /\ StackInv' /\ Kept
    BY <1>1, NextKeeps DEF IInv, Keeps
  <2>2. UniqueNames' /\ PendingInv'
    BY <1>1, <2>1, NextNames DEF IInv
  <2>3. MembersInv'
    BY <1>1, <2>1, NextMembers DEF IInv
  <2>4. QED
    BY <2>1, <2>2, <2>3 DEF IInv
<1>2. CASE UNCHANGED vars
  BY <1>2, StutterInv
<1>3. QED
  BY <1>1, <1>2

\* Whatever operations overlap, and wherever one of them fails, the arrays hold objects
\* of their classes with lists of names, and each call in progress goes on with an
\* object of the class it is about.
THEOREM RegistryTypeCorrect == Spec => []TypeOK
<1>1. IInv => TypeOK
  BY DEF IInv
<1>2. QED
  BY <1>1, InitInv, NextInv, PTL DEF Spec

\* addRuleList, addRule, addCluster and addEndPoint never define a name twice, whatever
\* overlaps; addListener and addRoute only when two of them of one name overlap between
\* the lookup and the push.
THEOREM NamesAreUnique == Spec => []UniqueNames
<1>1. IInv => UniqueNames
  BY DEF IInv
<1>2. QED
  BY <1>1, InitInv, NextInv, PTL DEF Spec

LEMMA HomeIsTheCluster ==
  ASSUME IInv
  PROVE  EndPointsAgree
<1>1. ASSUME NEW e \in listed, obj[e].kind = "endpoint"
      PROVE  Defined("cluster", obj[e].refs[1]) /\ obj[e].name \in Refs("cluster", obj[e].refs[1])
  <2>1. PICK c \in listed : /\ obj[c].kind = "cluster" /\ obj[e].refs = <<obj[c].name>>
                            /\ obj[e].name \in Elements(obj[c].refs)
    BY <1>1 DEF IInv, MembersInv, AtHome
  <2>2. obj[e].refs[1] = obj[c].name
    BY <2>1
  <2>3. Defined("cluster", obj[c].name) /\ The("cluster", obj[c].name) = c
    BY <2>1, OnlyOne DEF IInv
  <2>4. QED
    BY <2>1, <2>2, <2>3 DEF Refs
<1>2. ASSUME NEW c \in listed, obj[c].kind = "cluster"
      PROVE  \A n \in Elements(obj[c].refs) :
               \E e \in Named("endpoint", n) : obj[e].refs = <<obj[c].name>>
  BY <1>2 DEF IInv, MembersInv, Populated
<1>3. QED
  BY <1>1, <1>2 DEF EndPointsAgree

\* addEndPoint and deleteEndPoint keep the registry's endpoints and the clusters' lists
\* the same, also when deleteCluster fails among its endpoints or another operation
\* deletes the cluster first.
THEOREM EndPointsAtHome == Spec => []EndPointsAgree
<1>1. IInv => EndPointsAgree
  BY HomeIsTheCluster
<1>2. QED
  BY <1>1, InitInv, NextInv, PTL DEF Spec

LEMMA DumpsReachTheirEnd ==
  ASSUME IInv
  PROVE  DumpsWork
<1>1. \A n : Defined("cluster", n) => DumpsCluster(n)
  <2>1. SUFFICES ASSUME NEW n, Defined("cluster", n), NEW e \in Refs("cluster", n)
                 PROVE  Defined("endpoint", e)
    BY DEF DumpsCluster, DumpsEndPoint
  <2>2. PICK c \in listed : c = The("cluster", n) /\ obj[c].kind = "cluster"
    BY <2>1, TheIsNamed DEF IInv
  <2>3. \E d \in Named("endpoint", e) : obj[d].refs = <<obj[c].name>>
    BY <2>1, <2>2 DEF Refs, IInv, MembersInv, Populated
  <2>4. QED
    BY <2>3 DEF Defined
<1>2. \A n : Defined("route", n) => DumpsRoute(n)
  BY <1>1 DEF DumpsRoute
<1>3. \A n : Defined("rule", n) => DumpsRule(n)
  BY <1>2 DEF DumpsRule
<1>4. \A n : Defined("rulelist", n) => DumpsRuleList(n)
  BY <1>3 DEF DumpsRuleList
<1>5. \A n : Defined("listener", n) => DumpsListener(n)
  BY <1>4 DEF DumpsListener
<1>6. ASSUME NEW i \in listed
      PROVE  obj[i].kind \in Kinds /\ Defined(obj[i].kind, obj[i].name)
  <2>1. i \in 1 .. made /\ i \in Ids
    BY MadeAreIds, TypeParts DEF IInv, TypeOK
  <2>2. obj[i].kind # "none" /\ obj[i] \in Objects
    BY <2>1 DEF IInv, TypeOK
  <2>3. QED
    BY <2>2 DEF Objects, Defined, Named
<1>7. QED
  BY <1>1, <1>2, <1>3, <1>4, <1>5, <1>6 DEF DumpsWork, DumpsEndPoint, Kinds

\* The recursive dumps (the toJSON of the API's ?recursive) never come to the name of an
\* endpoint that is not in the registry, in any state a deletion or a failure leaves.
THEOREM DumpsAlwaysWork == Spec => []DumpsWork
<1>1. IInv => DumpsWork
  BY DumpsReachTheirEnd
<1>2. QED
  BY <1>1, InitInv, NextInv, PTL DEF Spec

LEMMA WhoLeaves ==
  ASSUME IInv, [Next]_vars, NEW i \in listed \ listed'
  PROVE  \/ obj[i].auto \/ obj[i].kind \in {"rule", "endpoint"}
         \/ \E t \in Tasks : Runs(t, "unlist") /\ Frame(t).id = i /\ Requested(t)
<1>1. CASE UNCHANGED vars
  BY <1>1 DEF vars
<1>2. CASE Next
  <2>1. PICK t \in Tasks : Effect(t)
    BY <1>2, NextEffect DEF IInv
  <2>2. CASE UNCHANGED objects
    BY <2>2 DEF objects
  <2>3. CASE Rebinds(t) \/ Defines \/ Joins
    BY <2>3 DEF Rebinds, Defines, Joins, Refer, Create, JoinEndPoint
  <2>4. CASE Leaves
    <3>1. PICK n : Defined("endpoint", n) /\ LeaveEndPoint(n)
      BY <2>4 DEF Leaves
    <3>2. PICK e, c \in listed : Departs(n, e, c)
      BY <3>1, Leaving DEF IInv
    <3>3. QED
      BY <3>2 DEF Departs
  <2>5. CASE Goes(t)
    BY <2>5 DEF Goes
  <2>6. QED
    BY <2>1, <2>2, <2>3, <2>4, <2>5 DEF Effect
<1>3. QED
  BY <1>1, <1>2

\* The recursive deletions follow the names an object refers to, but never take a
\* listener, rulelist, route or cluster of somebody else's request with it: the check
\* for autogenerated objects is made when the call is, and nothing runs in between.
THEOREM DeletionsSpareOthers == Spec => ExplicitSurvive
<1>1. IInv /\ [Next]_vars =>
        [\A i \in listed \ listed' :
           \/ obj[i].auto \/ obj[i].kind \in {"rule", "endpoint"}
           \/ \E t \in Tasks : Runs(t, "unlist") /\ Frame(t).id = i /\ Requested(t)]_vars
  BY WhoLeaves
<1>2. QED
  BY <1>1, InitInv, NextInv, PTL DEF Spec, ExplicitSurvive
-----------------------------------------------------------------------------
(* Autogenerated objects and their owners.                                 *)

\* What is left of a deletion after the calls it makes.
Leftovers == {"unlist", "rulesOf", "clustersOf", "endpointsOf", "removeRule"}

Deleting == Targets \union Leftovers \union {"deleteRuleFromRuleList"}

\* The deletions that leave the lists of the rulelists alone.
BelowRuleList ==
  {"deleteRule", "deleteRoute", "clustersOf", "deleteCluster", "endpointsOf", "unlist"}

Above(d) == IF d = "removeRule" THEN BelowRuleList ELSE Deleting

\* The frame x is going to bind an object of kind k and name n to its owner.
Expects(x, k, n) ==
  \/ x.do = "insertRule" /\ k = "rule" /\ x.name = n
  \/ x.do = "bindRoute" /\ k = "route" /\ x.name = n
  \/ x.do = "pushListener" /\ k = "rulelist" /\ x.rules = n
  \/ x.do = "fillRoute" /\ k = "cluster" /\ n \in Elements(x.done)

\* The frame f is going to define an autogenerated object of kind k and name n.
Makes(f, k, n) ==
  \/ f.do = "addRuleList" /\ f.auto /\ k = "rulelist" /\ n = f.item.name
  \/ f.do = "addRule" /\ f.auto /\ k = "rule" /\ n = f.item.name
  \/ f.do = "addRoute" /\ f.auto /\ k = "route" /\ n = f.item.name
  \/ f.do = "fillRoute" /\ f.auto /\ k = "route" /\ n = f.name
  \/ f.do = "addCluster" /\ f.auto /\ k = "cluster" /\ n = f.item.name

Deletes(f, k) ==
  \/ f.do = "deleteListener" /\ k = "listener"
  \/ f.do = "deleteRuleList" /\ k = "rulelist"
  \/ f.do = "deleteRule" /\ k = "rule"
  \/ f.do = "deleteRoute" /\ k = "route"
  \/ f.do = "deleteCluster" /\ k = "cluster"
  \/ f.do = "deleteEndPoint" /\ k = "endpoint"

\* The frame f is about the deletion of the object i.
Aims(f, i) ==
  \/ f.do \in {"unlist", "rulesOf", "clustersOf", "endpointsOf"} /\ f.id = i
  \/ Deletes(f, obj[i].kind) /\ f.name = obj[i].name

\* A deletion has the turn until it ends; it is called first and deletes what is above
\* before what is below.
OrderOK(t, p) ==
  /\ task[t][p].do \in Targets => p = 1
  /\ task[t][p].do \in Leftovers =>
       turn = t /\ \A q \in 1 .. p - 1 : task[t][q].do \in Above(task[t][p].do)

\* The call that defines an autogenerated object goes on with its owner.
LinkOK(t, p) ==
  \A k, n : Makes(task[t][p], k, n) => p < Len(task[t]) /\ Expects(task[t][p + 1], k, n)

OrderInv == \A t \in Tasks : \A p \in 1 .. Len(task[t]) : OrderOK(t, p) /\ LinkOK(t, p)

\* The frame at p of t binds a route to the rule i.
Binding(t, p, i) == p \in 1 .. Len(task[t]) /\ task[t][p].do = "bindRoute" /\ task[t][p].id = i

\* A rule that waits for its route has none, and only one addition is about it.
BindingInv ==
  \A t \in Tasks, p \in Nat, i \in Ids : Binding(t, p, i) =>
    /\ obj[i].refs = <<>>
    /\ \A u \in Tasks, q \in Nat : Binding(u, q, i) => u = t /\ q = p

\* What has an owner, and the objects that refer to one other at most.
RefsInv ==
  \A i \in 1 .. made :
    /\ obj[i].auto => obj[i].kind \in {"rulelist", "rule", "route", "cluster"}
    /\ obj[i].kind = "listener" => \E n \in Int : obj[i].refs = <<n>>
    /\ obj[i].kind = "rule" => obj[i].refs = <<>> \/ \E n \in Int : obj[i].refs = <<n>>

\* The new frames xs in the place of f.
Orderly(f, xs) ==
  \A p \in 1 .. Len(xs) :
    /\ xs[p].do \in Targets => p = 1
    /\ f.do \notin Deleting => xs[p].do \notin Leftovers
    /\ f.do \in Deleting => xs[p].do \in Deleting
    /\ f.do \in BelowRuleList => xs[p].do \in BelowRuleList
    /\ xs[p].do = "removeRule" => \A q \in 1 .. p - 1 : xs[q].do \in BelowRuleList

Linked(f, xs) ==
  \A p \in 1 .. Len(xs) : \A k, n : Makes(xs[p], k, n) =>
    (p < Len(xs) /\ Expects(xs[p + 1], k, n)) \/ (p = Len(xs) /\ Makes(f, k, n))

NewBindings(xs) ==
  \A p \in 1 .. Len(xs) : xs[p].do = "bindRoute" =>
    p = Len(xs) /\ xs[p].id = made + 1 /\ made + 1 \in Ids /\ obj'[made + 1].refs = <<>>

\* A task goes on with the frames xs.
Turns(t, xs) ==
  /\ Moves(t, xs) /\ turn \in {NoTask, t} /\ task[t] # <<>>
  /\ Frame(t).do \in Deleting => turn' = Same(t, xs)
  /\ Orderly(Frame(t), xs) /\ Linked(Frame(t), xs) /\ NewBindings(xs)

LEMMA Stays ==
  ASSUME TypeOK, NEW t \in Tasks, task[t] # <<>>, NEW xs \in Seq(Frames), Moves(t, xs),
         NEW q \in 1 .. Len(task[t]), q # 1
  PROVE  \E p \in 1 .. Len(task'[t]) : /\ p = q + Len(xs) - 1 /\ p > Len(xs)
                                       /\ task'[t][p] = task[t][q]
<1>1. /\ Len(xs) \in Nat /\ Len(task[t]) \in Nat \ {0}
      /\ Len(task'[t]) = Len(xs) + Len(task[t]) - 1
      /\ \A p \in Len(xs) + 1 .. Len(task'[t]) :
           /\ p - Len(xs) + 1 \in 2 .. Len(task[t])
           /\ task'[t][p] = task[t][p - Len(xs) + 1]
  BY StackShape
<1>2. PICK m \in Nat : m = Len(xs)
  BY <1>1
<1>3. PICK l \in Nat : l = Len(task[t])
  BY <1>1
<1>4. PICK k : k = Len(task'[t])
  OBVIOUS
<1>5. k = m + l - 1
  BY <1>1, <1>2, <1>3, <1>4
<1>6. q \in 1 .. l
  BY <1>3
<1>7. PICK p \in Int : p = q + m - 1
  BY <1>6
<1>8. p \in m + 1 .. k /\ p \in 1 .. k /\ p > m /\ p - m + 1 = q
  BY <1>5, <1>6, <1>7
<1>9. task'[t][p] = task[t][q]
  BY <1>1, <1>2, <1>4, <1>8
<1>10. QED
  BY <1>2, <1>4, <1>6, <1>8, <1>9

\* A frame of t after the step is new or was there.
LEMMA Came ==
  ASSUME TypeOK, NEW t \in Tasks, task[t] # <<>>, NEW xs \in Seq(Frames), Moves(t, xs),
         NEW p \in 1 .. Len(task'[t])
  PROVE  \/ p \in 1 .. Len(xs) /\ task'[t][p] = xs[p]
         \/ \E q \in 1 .. Len(task[t]) : /\ q # 1 /\ p = q + Len(xs) - 1 /\ p > Len(xs)
                                         /\ task'[t][p] = task[t][q]
<1>1. /\ Len(xs) \in Nat /\ Len(task[t]) \in Nat \ {0}
      /\ Len(task'[t]) = Len(xs) + Len(task[t]) - 1
      /\ \A i \in 1 .. Len(xs) : task'[t][i] = xs[i]
      /\ \A i \in Len(xs) + 1 .. Len(task'[t]) :
           /\ i - Len(xs) + 1 \in 2 .. Len(task[t])
           /\ task'[t][i] = task[t][i - Len(xs) + 1]
  BY StackShape
<1>2. PICK m \in Nat : m = Len(xs)
  BY <1>1
<1>3. PICK l \in Nat : l = Len(task[t])
  BY <1>1
<1>4. PICK k : k = Len(task'[t])
  OBVIOUS
<1>5. CASE p \in 1 .. m
  BY <1>1, <1>2, <1>5
<1>6. CASE p \notin 1 .. m
  <2>1. k = m + l - 1 /\ p \in 1 .. k
    BY <1>1, <1>2, <1>3, <1>4
  <2>2. p \in m + 1 .. k
    BY <1>6, <2>1
  <2>3. PICK q \in Int : q = p - m + 1
    BY <1>2
  <2>4. q \in 1 .. l /\ q # 1 /\ p = q + m - 1 /\ p > m
    BY <2>1, <2>2, <2>3
  <2>5. task'[t][p] = task[t][q]
    BY <1>1, <1>2, <1>4, <2>2, <2>3
  <2>6. QED
    BY <1>2, <1>3, <2>4, <2>5
<1>7. QED
  BY <1>5, <1>6

\* Something is going to bind an object of kind k and name n.
Expected(k, n) == \E t \in Tasks : \E p \in 1 .. Len(task[t]) : Expects(task[t][p], k, n)

LEMMA PendingIsExpected ==
  ASSUME NEW i
  PROVE  Pending(i) <=> Expected(obj[i].kind, obj[i].name)
BY DEF Pending, Expected, Expects, Elements

\* Unless it is the first frame of t that does.
LEMMA ExpectedAfter ==
  ASSUME TypeOK, NEW t \in Tasks, task[t] # <<>>, NEW xs \in Seq(Frames), Moves(t, xs),
         NEW k, NEW n, Expected(k, n)
  PROVE  \/ Expects(Frame(t), k, n)
         \/ Expected(k, n)'
<1>1. PICK u \in Tasks : \E p \in 1 .. Len(task[u]) : Expects(task[u][p], k, n)
  BY DEF Expected
<1>2. PICK p \in 1 .. Len(task[u]) : Expects(task[u][p], k, n)
  BY <1>1
<1>3. CASE u # t
  <2>1. task'[u] = task[u]
    BY <1>3, StackShape
  <2>2. QED
    BY <1>2, <2>1 DEF Expected
<1>4. CASE u = t /\ p # 1
  <2>1. \E q \in 1 .. Len(task'[t]) : task'[t][q] = task[t][p]
    BY <1>4, Stays
  <2>2. QED
    BY <1>2, <1>4, <2>1 DEF Expected
<1>5. CASE u = t /\ p = 1
  BY <1>2, <1>5 DEF Frame
<1>6. QED
  BY <1>3, <1>4, <1>5

\* The order of the frames after the step of a task.
LEMMA OrderAfter ==
  ASSUME TypeOK, OrderInv, NEW t \in Tasks, NEW xs \in Seq(Frames), Turns(t, xs)
  PROVE  OrderInv'
<1>1. /\ Moves(t, xs) /\ turn \in {NoTask, t} /\ task[t] # <<>>
      /\ Orderly(Frame(t), xs) /\ Linked(Frame(t), xs)
  BY DEF Turns
<1>2. /\ \A u \in Tasks : u # t => task'[u] = task[u]
      /\ task'[t] = xs \o Tail(task[t])
      /\ Len(xs) \in Nat /\ Len(task[t]) \in Nat \ {0}
  BY <1>1, StackShape
<1>3. PICK m \in Nat : m = Len(xs)
  BY <1>2
<1>4. PICK f : f = Frame(t) /\ f = task[t][1]
  BY DEF Frame
<1>5. 1 \in 1 .. Len(task[t])
  BY <1>2
<1>6. ASSUME NEW p \in 1 .. Len(task'[t]), f.do \in Deleting
      PROVE  turn' = t
  <2>1. turn' = Same(t, xs)
    BY <1>4, <1>6 DEF Turns
  <2>2. task'[t] # <<>>
    BY <1>6
  <2>3. QED
    BY <1>2, <2>1, <2>2 DEF Same
<1>7. ASSUME NEW u \in Tasks, u # t, NEW p \in 1 .. Len(task'[u])
      PROVE  OrderOK(u, p)' /\ LinkOK(u, p)'
  <2>1. task'[u] = task[u]
    BY <1>2, <1>7
  <2>2. OrderOK(u, p) /\ LinkOK(u, p)
    BY <2>1 DEF OrderInv
  <2>3. turn # u
    BY <1>1, <1>7, RegistryAssumption
  <2>4. task[u][p].do \notin Leftovers
    BY <2>2, <2>3 DEF OrderOK
  <2>5. OrderOK(u, p)'
    BY <2>1, <2>2, <2>4 DEF OrderOK
  <2>6. LinkOK(u, p)'
    BY <2>1, <2>2 DEF LinkOK
  <2>7. QED
    BY <2>5, <2>6
<1>8. ASSUME NEW p \in 1 .. Len(task'[t]), p \in 1 .. m, task'[t][p] = xs[p]
      PROVE  OrderOK(t, p)' /\ LinkOK(t, p)'
  <2>0. p \in 1 .. Len(xs)
    BY <1>3, <1>8
  <2>1. /\ xs[p].do \in Targets => p = 1
        /\ f.do \notin Deleting => xs[p].do \notin Leftovers
        /\ xs[p].do = "removeRule" => \A q \in 1 .. p - 1 : xs[q].do \in BelowRuleList
    BY <1>1, <1>4, <2>0 DEF Orderly
  <2>2. ASSUME xs[p].do \in Leftovers, NEW q \in 1 .. p - 1
        PROVE  task'[t][q].do \in Above(xs[p].do)
    <3>1. q \in 1 .. m
      BY <1>8
    <3>2. q \in 1 .. Len(xs)
      BY <1>3, <3>1
    <3>3. task'[t][q] = xs[q]
      BY <1>1, <3>2, StackShape
    <3>4. f.do \in Deleting
      BY <2>1, <2>2
    <3>5. xs[q].do \in Deleting
      BY <1>1, <1>4, <3>2, <3>4 DEF Orderly
    <3>6. QED
      BY <2>1, <2>2, <3>3, <3>5 DEF Above
  <2>3. xs[p].do \in Leftovers => turn' = t
    BY <1>6, <2>1
  <2>4. OrderOK(t, p)'
    BY <1>8, <2>1, <2>2, <2>3 DEF OrderOK
  <2>5. ASSUME NEW k, NEW n, Makes(xs[p], k, n)
        PROVE  p < Len(task'[t]) /\ Expects(task'[t][p + 1], k, n)
    <3>1. (p < Len(xs) /\ Expects(xs[p + 1], k, n)) \/ (p = Len(xs) /\ Makes(f, k, n))
      BY <1>1, <1>4, <2>0, <2>5 DEF Linked
    <3>2. Len(task'[t]) = Len(xs) + Len(task[t]) - 1
      BY <1>1, StackShape
    <3>3. PICK l \in Nat : l = Len(task[t]) /\ l > 0
      BY <1>2
    <3>4. PICK k1 : k1 = Len(task'[t])
      OBVIOUS
    <3>5. k1 = m + l - 1
      BY <1>3, <3>2, <3>3, <3>4
    <3>6. CASE p < Len(xs) /\ Expects(xs[p + 1], k, n)
      <4>1. p < m /\ p + 1 \in 1 .. m /\ p < k1
        BY <1>3, <1>8, <3>3, <3>5, <3>6
      <4>2. p + 1 \in 1 .. Len(xs)
        BY <1>3, <4>1
      <4>3. task'[t][p + 1] = xs[p + 1]
        BY <1>1, <4>2, StackShape
      <4>4. QED
        BY <3>4, <3>6, <4>1, <4>3
    <3>7. CASE p = Len(xs) /\ Makes(f, k, n)
      <4>1. 1 < Len(task[t]) /\ Expects(task[t][1 + 1], k, n)
        BY <1>4, <1>5, <3>7 DEF OrderInv, LinkOK
      <4>2. 2 \in 1 .. Len(task[t]) /\ 2 # 1 /\ 1 + 1 = 2
        BY <1>2, <4>1
      <4>3. PICK q \in 1 .. Len(task'[t]) : q = 2 + Len(xs) - 1 /\ task'[t][q] = task[t][2]
        BY <1>1, <4>2, Stays
      <4>4. q = p + 1
        BY <1>3, <3>7, <4>3
      <4>5. q \in 1 .. k1
        BY <3>4, <4>3
      <4>6. p < k1
        BY <1>8, <3>3, <3>5, <4>4, <4>5
      <4>7. QED
        BY <3>4, <4>1, <4>2, <4>3, <4>4, <4>6
    <3>8. QED
      BY <3>1, <3>6, <3>7
  <2>6. LinkOK(t, p)'
    BY <1>8, <2>5 DEF LinkOK
  <2>7. QED
    BY <2>4, <2>6
<1>9. ASSUME NEW p \in 1 .. Len(task'[t]), NEW q \in 1 .. Len(task[t]), q # 1,
             p = q + Len(xs) - 1, task'[t][p] = task[t][q]
      PROVE  OrderOK(t, p)' /\ LinkOK(t, p)'
  <2>0. p = q + m - 1 /\ q \in Nat /\ q > 1
    BY <1>3, <1>9
  <2>1. OrderOK(t, q) /\ LinkOK(t, q)
    BY DEF OrderInv
  <2>2. task[t][q].do \notin Targets
    BY <1>9, <2>1 DEF OrderOK
  <2>3. ASSUME task[t][q].do \in Leftovers
        PROVE  turn' = t /\ \A r \in 1 .. p - 1 : task'[t][r].do \in Above(task[t][q].do)
    <3>1. \A r \in 1 .. q - 1 : task[t][r].do \in Above(task[t][q].do)
      BY <2>1, <2>3 DEF OrderOK
    <3>2. 1 \in 1 .. q - 1
      BY <2>0
    <3>3. f.do \in Above(task[t][q].do)
      BY <1>4, <3>1, <3>2
    <3>4. f.do \in Deleting
      BY <3>3 DEF Above, BelowRuleList, Deleting, Targets, Leftovers
    <3>5. ASSUME NEW r \in 1 .. p - 1
          PROVE  task'[t][r].do \in Above(task[t][q].do)
      <4>1. r \in 1 .. Len(task'[t])
        BY <1>9, <2>0
      <4>2. CASE r \in 1 .. Len(xs) /\ task'[t][r] = xs[r]
        <5>1. f.do \in Deleting => xs[r].do \in Deleting
          BY <1>1, <1>4, <4>2 DEF Orderly
        <5>2. f.do \in BelowRuleList => xs[r].do \in BelowRuleList
          BY <1>1, <1>4, <4>2 DEF Orderly
        <5>3. QED
          BY <3>3, <3>4, <4>2, <5>1, <5>2 DEF Above
      <4>3. CASE \E s \in 1 .. Len(task[t]) : r = s + Len(xs) - 1 /\ task'[t][r] = task[t][s]
        <5>1. PICK s \in 1 .. Len(task[t]) : r = s + Len(xs) - 1 /\ task'[t][r] = task[t][s]
          BY <4>3
        <5>2. s \in Nat /\ s >= 1 /\ r = s + m - 1
          BY <1>3, <5>1
        <5>3. s \in 1 .. q - 1
          BY <2>0, <5>2
        <5>4. QED
          BY <3>1, <5>1, <5>3
      <4>4. QED
        BY <1>1, <4>1, <4>2, <4>3, Came
    <3>6. QED
      BY <1>6, <3>4, <3>5
  <2>4. OrderOK(t, p)'
    BY <1>9, <2>2, <2>3 DEF OrderOK
  <2>5. ASSUME NEW k, NEW n, Makes(task[t][q], k, n)
        PROVE  p < Len(task'[t]) /\ Expects(task'[t][p + 1], k, n)
    <3>1. q < Len(task[t]) /\ Expects(task[t][q + 1], k, n)
      BY <2>1, <2>5 DEF LinkOK
    <3>2. q + 1 \in 1 .. Len(task[t]) /\ q + 1 # 1
      BY <1>2, <2>0, <3>1
    <3>3. PICK s \in 1 .. Len(task'[t]) : s = (q + 1) + Len(xs) - 1 /\ task'[t][s] = task[t][q + 1]
      BY <1>1, <3>2, Stays
    <3>4. s = p + 1
      BY <1>3, <2>0, <3>3
    <3>5. PICK k1 \in Nat : k1 = Len(task'[t])
      <4>1. task'[t] \in Seq(Frames)
        BY <1>1, StackShape
      <4>2. QED
        BY <4>1, LenProperties
    <3>6. s \in 1 .. k1 /\ p \in 1 .. k1
      BY <3>3, <3>5
    <3>7. p < k1
      BY <2>0, <3>4, <3>6
    <3>8. p < Len(task'[t])
      BY <3>5, <3>7
    <3>9. task'[t][p + 1] = task[t][q + 1]
      BY <3>3, <3>4
    <3>10. QED
      BY <3>1, <3>8, <3>9
  <2>6. LinkOK(t, p)'
    BY <1>9, <2>5 DEF LinkOK
  <2>7. QED
    BY <2>4, <2>6
<1>10. ASSUME NEW p \in 1 .. Len(task'[t]) PROVE OrderOK(t, p)' /\ LinkOK(t, p)'
  <2>1. \/ p \in 1 .. Len(xs) /\ task'[t][p] = xs[p]
        \/ \E q \in 1 .. Len(task[t]) : q # 1 /\ p = q + Len(xs) - 1 /\ task'[t][p] = task[t][q]
    BY <1>1, Came
  <2>2. QED
    BY <1>3, <1>8, <1>9, <2>1
<1>11. QED
  BY <1>7, <1>10 DEF OrderInv

\* After a task ends by an error, or is given an operation.
LEMMA OrderRestart ==
  ASSUME TypeOK, OrderInv, NEW t \in Tasks, turn \in {NoTask, t},
         \A u \in Tasks : u # t => task'[u] = task[u],
         \/ task'[t] = <<>>
         \/ \E r \in Asked : task'[t] = <<r>>
  PROVE  OrderInv'
<1>1. ASSUME NEW u \in Tasks, u # t, NEW p \in 1 .. Len(task'[u])
      PROVE  OrderOK(u, p)' /\ LinkOK(u, p)'
  <2>1. task'[u] = task[u]
    BY <1>1
  <2>2. OrderOK(u, p) /\ LinkOK(u, p)
    BY <2>1 DEF OrderInv
  <2>3. turn # u
    BY <1>1, RegistryAssumption
  <2>4. task[u][p].do \notin Leftovers
    BY <2>2, <2>3 DEF OrderOK
  <2>5. OrderOK(u, p)'
    BY <2>1, <2>2, <2>4 DEF OrderOK
  <2>6. LinkOK(u, p)'
    BY <2>1, <2>2 DEF LinkOK
  <2>7. QED
    BY <2>5, <2>6
<1>2. ASSUME NEW p \in 1 .. Len(task'[t])
      PROVE  OrderOK(t, p)' /\ LinkOK(t, p)'
  <2>1. PICK r \in Asked : task'[t] = <<r>>
    BY <1>2
  <2>2. p = 1 /\ task'[t][p] = r
    BY <1>2, <2>1
  <2>3. r.do \notin Leftovers /\ r.do # "fillRoute"
    BY DEF Asked, Leftovers
  <2>4. r.do \in {"addRuleList", "addRule", "addRoute", "addCluster"} => ~r.auto
    BY DEF Asked
  <2>5. \A k, n : ~Makes(r, k, n)
    BY <2>3, <2>4 DEF Makes
  <2>6. QED
    BY <2>2, <2>3, <2>5 DEF OrderOK, LinkOK
<1>3. QED
  BY <1>1, <1>2 DEF OrderInv

\* The object i refers to the same objects as before, or is one that may refer to others.
SameRefs(t, i) ==
  \/ obj'[i].refs = obj[i].refs
  \/ obj[i].kind \in {"rulelist", "cluster"}
  \/ /\ obj[i].kind = "rule" /\ Runs(t, "bindRoute") /\ i = Frame(t).id
     /\ obj'[i].refs = <<Frame(t).name>>

\* An object that was just defined.
NewIsFresh ==
  /\ Fresh(obj'[made + 1].kind, obj'[made + 1].auto, obj'[made + 1].refs)
  /\ obj'[made + 1].auto => obj'[made + 1].kind \in {"rulelist", "rule", "route", "cluster"}

LEMMA StepRefs ==
  ASSUME TypeOK, UniqueNames, MembersInv, NEW t \in Tasks, Effect(t)
  PROVE  /\ \A i \in 1 .. made : SameRefs(t, i)
         /\ made' = made \/ (made' = made + 1 /\ NewIsFresh)
<1>0. 1 .. made \subseteq Ids /\ made \in Nat /\ obj \in [Ids -> Objects]
  BY MadeAreIds, TypeParts DEF TypeOK
<1>1. CASE UNCHANGED objects
  BY <1>1 DEF objects, SameRefs
<1>2. CASE Rebinds(t)
  <2>1. PICK i \in Ids, refs \in Seq(Int) :
          /\ \/ obj[i].kind = "rulelist"
             \/ obj[i].kind = "rule" /\ Runs(t, "bindRoute") /\ i = Frame(t).id /\ refs = <<Frame(t).name>>
          /\ Refer(i, refs)
    BY <1>2 DEF Rebinds
  <2>2. /\ obj'[i].refs = refs /\ made' = made
        /\ \A j \in Ids : j # i => obj'[j] = obj[j]
    BY <1>0, <2>1 DEF Refer, Objects
  <2>3. SameRefs(t, i)
    BY <2>1, <2>2 DEF SameRefs
  <2>4. \A j \in Ids : j # i => SameRefs(t, j)
    BY <2>2 DEF SameRefs
  <2>5. QED
    BY <1>0, <2>2, <2>3, <2>4
<1>3. CASE Defines
  <2>1. PICK k \in Kinds \ {"endpoint"}, n \in Int, auto \in BOOLEAN, refs \in Seq(Int) :
          Fresh(k, auto, refs) /\ Create(k, n, auto, refs)
    BY <1>3 DEF Defines
  <2>2. made + 1 \in Ids /\ made + 1 \notin 1 .. made
    <3>1. made \in Nat /\ made < MaxObjects /\ MaxObjects \in Nat
      BY <2>1, RegistryAssumption DEF Create, TypeOK
    <3>2. QED
      BY <3>1 DEF Ids
  <2>3. PICK o : o = [kind |-> k, name |-> n, auto |-> auto, refs |-> refs]
    OBVIOUS
  <2>4. obj' = [obj EXCEPT ![made + 1] = o] /\ made' = made + 1
    BY <2>1, <2>3 DEF Create
  <2>5. obj'[made + 1] = o /\ \A j \in 1 .. made : obj'[j] = obj[j]
    BY <1>0, <2>2, <2>4
  <2>6. NewIsFresh
    <3>1. Fresh(obj'[made + 1].kind, obj'[made + 1].auto, obj'[made + 1].refs)
      BY <2>1, <2>3, <2>5
    <3>2. k = "listener" => ~auto
      BY <2>1 DEF Fresh
    <3>3. auto => k \in {"rulelist", "rule", "route", "cluster"}
      BY <3>2 DEF Kinds
    <3>4. QED
      BY <2>3, <2>5, <3>1, <3>3 DEF NewIsFresh
  <2>7. QED
    BY <2>4, <2>5, <2>6 DEF SameRefs
<1>4. CASE Joins
  <2>1. PICK n \in Int, c \in listed :
          obj[c].kind = "cluster" /\ ~Defined("endpoint", n) /\ JoinEndPoint(n, c)
    BY <1>4 DEF Joins
  <2>2. raced' = raced /\ gen' \in Nat /\ c \in 1 .. made
    BY <1>4 DEF Joins, TypeOK
  <2>3. /\ made' = made + 1
        /\ obj'[made + 1] = [kind |-> "endpoint", name |-> n, auto |-> FALSE, refs |-> <<obj[c].name>>]
        /\ \A i \in 1 .. made : i # c => obj'[i] = obj[i]
    BY <2>1, <2>2, JoinType, TypeParts
  <2>4. NewIsFresh
    BY <2>3 DEF NewIsFresh, Fresh
  <2>5. \A i \in 1 .. made : SameRefs(t, i)
    BY <2>1, <2>3 DEF SameRefs
  <2>6. QED
    BY <2>3, <2>4, <2>5
<1>5. CASE Leaves
  <2>1. PICK n : Defined("endpoint", n) /\ LeaveEndPoint(n)
    BY <1>5 DEF Leaves
  <2>2. PICK e, c \in listed : Departs(n, e, c)
    BY <2>1, Leaving
  <2>3. made' = made
    BY <2>1 DEF LeaveEndPoint
  <2>4. \A i \in 1 .. made : SameRefs(t, i)
    BY <1>0, <2>2 DEF Departs, SameRefs
  <2>5. QED
    BY <2>3, <2>4
<1>6. CASE Goes(t)
  BY <1>6 DEF Goes, SameRefs
<1>7. QED
  BY <1>1, <1>2, <1>3, <1>4, <1>5, <1>6 DEF Effect

LEMMA RefsAfter ==
  ASSUME TypeOK, Keeps, RefsInv, UniqueNames, MembersInv, StackInv, NEW t \in Tasks, Effect(t)
  PROVE  RefsInv'
<1>0. Kept /\ made \in Nat
  BY DEF Keeps, TypeOK
<1>1. /\ \A i \in 1 .. made : SameRefs(t, i)
      /\ made' = made \/ (made' = made + 1 /\ NewIsFresh)
  BY StepRefs
<1>2. ASSUME NEW i \in 1 .. made
      PROVE  /\ obj'[i].auto => obj'[i].kind \in {"rulelist", "rule", "route", "cluster"}
             /\ obj'[i].kind = "listener" => \E n \in Int : obj'[i].refs = <<n>>
             /\ obj'[i].kind = "rule" => obj'[i].refs = <<>> \/ \E n \in Int : obj'[i].refs = <<n>>
  <2>1. obj'[i].kind = obj[i].kind /\ obj'[i].auto = obj[i].auto
    BY <1>0 DEF Kept
  <2>2. /\ obj[i].auto => obj[i].kind \in {"rulelist", "rule", "route", "cluster"}
        /\ obj[i].kind = "listener" => \E n \in Int : obj[i].refs = <<n>>
        /\ obj[i].kind = "rule" => obj[i].refs = <<>> \/ \E n \in Int : obj[i].refs = <<n>>
    BY DEF RefsInv
  <2>3. Runs(t, "bindRoute") => Frame(t).name \in Int
    <3>1. SUFFICES ASSUME Runs(t, "bindRoute") PROVE Frame(t).name \in Int
      OBVIOUS
    <3>2. Frame(t) \in Frames /\ Frame(t).do = "bindRoute"
      BY <3>1, Running
    <3>3. QED
      BY <3>2, AdditionFrames
  <2>4. SameRefs(t, i)
    BY <1>1
  <2>5. QED
    BY <2>1, <2>2, <2>3, <2>4 DEF SameRefs
<1>3. ASSUME NEW i, i = made + 1, NewIsFresh
      PROVE  /\ obj'[i].auto => obj'[i].kind \in {"rulelist", "rule", "route", "cluster"}
             /\ obj'[i].kind = "listener" => \E n \in Int : obj'[i].refs = <<n>>
             /\ obj'[i].kind = "rule" => obj'[i].refs = <<>> \/ \E n \in Int : obj'[i].refs = <<n>>
  BY <1>3 DEF NewIsFresh, Fresh
<1>4. \A i \in 1 .. made' : i \in 1 .. made \/ (i = made + 1 /\ NewIsFresh)
  BY <1>0, <1>1
<1>5. QED
  BY <1>2, <1>3, <1>4 DEF RefsInv

\* Where the binding of a rule was before the step.
LEMMA BindingCame ==
  ASSUME TypeOK, StackInv, NEW t \in Tasks, NEW xs \in Seq(Frames), Turns(t, xs),
         NEW u \in Tasks, NEW p \in Nat, NEW i \in Ids, Binding(u, p, i)'
  PROVE  \/ u = t /\ p = Len(xs) /\ i = made + 1 /\ obj'[i].refs = <<>>
         \/ u = t /\ \E q \in Nat : q # 1 /\ p = q + Len(xs) - 1 /\ Binding(t, q, i)
         \/ u # t /\ Binding(u, p, i)
<1>1. Moves(t, xs) /\ task[t] # <<>> /\ NewBindings(xs)
  BY DEF Turns
<1>2. p \in 1 .. Len(task'[u]) /\ task'[u][p].do = "bindRoute" /\ task'[u][p].id = i
  BY DEF Binding
<1>3. CASE u # t
  <2>1. task'[u] = task[u]
    BY <1>1, <1>3, StackShape
  <2>2. QED
    BY <1>2, <1>3, <2>1 DEF Binding
<1>4. CASE u = t
  <2>1. CASE p \in 1 .. Len(xs) /\ task'[t][p] = xs[p]
    BY <1>1, <1>2, <1>4, <2>1 DEF NewBindings
  <2>2. CASE \E q \in 1 .. Len(task[t]) : q # 1 /\ p = q + Len(xs) - 1 /\ task'[t][p] = task[t][q]
    <3>1. PICK q \in 1 .. Len(task[t]) : q # 1 /\ p = q + Len(xs) - 1 /\ task'[t][p] = task[t][q]
      BY <2>2
    <3>2. Binding(t, q, i)
      BY <1>2, <1>4, <3>1 DEF Binding
    <3>3. q \in Nat
      OBVIOUS
    <3>4. QED
      BY <1>4, <3>1, <3>2, <3>3
  <2>3. QED
    BY <1>1, <1>2, <1>4, <2>1, <2>2, Came
<1>5. QED
  BY <1>3, <1>4

\* A rule that is bound later exists.
LEMMA BindingIsMade ==
  ASSUME TypeOK, StackInv, NEW u \in Tasks, NEW p, NEW i \in Ids, Binding(u, p, i)
  PROVE  i \in 1 .. made /\ obj[i].kind = "rule"
<1>1. Legal(u, p)
  BY DEF StackInv, Binding
<1>2. obj[i].kind = "rule"
  BY <1>1 DEF Legal, KindOK, Binding
<1>3. QED
  BY <1>2 DEF TypeOK, Ids

LEMMA BindingAfter ==
  ASSUME TypeOK, StackInv, BindingInv, UniqueNames, MembersInv, NEW t \in Tasks, Effect(t),
         NEW xs \in Seq(Frames), Turns(t, xs)
  PROVE  BindingInv'
<1>1. PICK m \in Nat : m = Len(xs)
  BY LenProperties
<1>2. made \in Nat
  BY DEF TypeOK
<1>3. ASSUME NEW u \in Tasks, NEW p \in Nat, NEW i \in Ids, Binding(u, p, i), u = t => p # 1
      PROVE  obj'[i].refs = <<>>
  <2>1. i \in 1 .. made /\ obj[i].kind = "rule"
    BY <1>3, BindingIsMade
  <2>2. SameRefs(t, i) /\ obj[i].refs = <<>>
    BY <1>3, <2>1, StepRefs DEF BindingInv
  <2>3. CASE Runs(t, "bindRoute") /\ i = Frame(t).id
    <3>1. Binding(t, 1, i)
      <4>1. Frame(t).do = "bindRoute" /\ Frame(t) = task[t][1] /\ Len(task[t]) \in Nat \ {0}
        BY <2>3, Running
      <4>2. QED
        BY <2>3, <4>1 DEF Binding
    <3>2. u = t /\ p = 1
      BY <1>3, <3>1 DEF BindingInv
    <3>3. QED
      BY <1>3, <3>2
  <2>4. QED
    BY <2>1, <2>2, <2>3 DEF SameRefs
<1>4. ASSUME NEW u \in Tasks, NEW p \in Nat, NEW i \in Ids, Binding(u, p, i)'
      PROVE  /\ obj'[i].refs = <<>>
             /\ \/ u = t /\ p = m /\ i = made + 1
                \/ u = t /\ i \in 1 .. made /\ \E q \in Nat : q # 1 /\ p = q + m - 1 /\ Binding(t, q, i)
                \/ u # t /\ i \in 1 .. made /\ Binding(u, p, i)
  <2>1. CASE u = t /\ p = Len(xs) /\ i = made + 1 /\ obj'[i].refs = <<>>
    BY <1>1, <2>1
  <2>2. CASE u = t /\ \E q \in Nat : q # 1 /\ p = q + Len(xs) - 1 /\ Binding(t, q, i)
    <3>1. PICK q \in Nat : q # 1 /\ p = q + Len(xs) - 1 /\ Binding(t, q, i)
      BY <2>2
    <3>2. i \in 1 .. made /\ obj'[i].refs = <<>>
      BY <1>3, <3>1, BindingIsMade
    <3>3. QED
      BY <1>1, <2>2, <3>1, <3>2
  <2>3. CASE u # t /\ Binding(u, p, i)
    BY <1>3, <2>3, BindingIsMade
  <2>4. QED
    BY <1>4, <2>1, <2>2, <2>3, BindingCame
<1>5. ASSUME NEW u \in Tasks, NEW p \in Nat, NEW v \in Tasks, NEW q \in Nat, NEW i \in Ids,
             Binding(u, p, i)', Binding(v, q, i)'
      PROVE  v = u /\ q = p
  <2>1. \/ u = t /\ p = m /\ i = made + 1
        \/ u = t /\ i \in 1 .. made /\ \E r \in Nat : r # 1 /\ p = r + m - 1 /\ Binding(t, r, i)
        \/ u # t /\ i \in 1 .. made /\ Binding(u, p, i)
    BY <1>4, <1>5
  <2>2. \/ v = t /\ q = m /\ i = made + 1
        \/ v = t /\ i \in 1 .. made /\ \E r \in Nat : r # 1 /\ q = r + m - 1 /\ Binding(t, r, i)
        \/ v # t /\ i \in 1 .. made /\ Binding(v, q, i)
    BY <1>4, <1>5
  <2>3. CASE i = made + 1
    BY <1>2, <2>1, <2>2, <2>3
  <2>4. CASE i # made + 1 /\ u = t
    <3>1. PICK r \in Nat : p = r + m - 1 /\ Binding(t, r, i)
      BY <2>1, <2>4
    <3>2. CASE v = t
      <4>1. PICK s \in Nat : q = s + m - 1 /\ Binding(t, s, i)
        BY <2>2, <2>4, <3>2
      <4>2. s = r
        BY <3>1, <4>1 DEF BindingInv
      <4>3. QED
        BY <2>4, <3>1, <3>2, <4>1, <4>2
    <3>3. CASE v # t
      BY <2>2, <3>1, <3>3 DEF BindingInv
    <3>4. QED
      BY <3>2, <3>3
  <2>5. CASE i # made + 1 /\ u # t
    <3>1. Binding(u, p, i)
      BY <2>1, <2>5
    <3>2. CASE v = t
      <4>1. PICK s \in Nat : q = s + m - 1 /\ Binding(t, s, i)
        BY <2>2, <2>5, <3>2
      <4>2. QED
        BY <2>5, <3>1, <4>1 DEF BindingInv
    <3>3. CASE v # t
      <4>1. Binding(v, q, i)
        BY <2>2, <2>5, <3>3
      <4>2. QED
        BY <3>1, <4>1 DEF BindingInv
    <3>4. QED
      BY <3>2, <3>3
  <2>6. QED
    BY <2>3, <2>4, <2>5
<1>6. QED
  BY <1>4, <1>5 DEF BindingInv

LEMMA BindingRestart ==
  ASSUME TypeOK, StackInv, BindingInv, UniqueNames, MembersInv, NEW t \in Tasks, Effect(t),
         \A u \in Tasks : u # t => task'[u] = task[u],
         \/ task'[t] = <<>>
         \/ \E r \in Asked : task'[t] = <<r>>
  PROVE  BindingInv'
<1>1. ASSUME NEW u \in Tasks, NEW p \in Nat, NEW i \in Ids, Binding(u, p, i)'
      PROVE  u # t /\ Binding(u, p, i)
  <2>1. ASSUME u = t PROVE FALSE
    <3>1. PICK r \in Asked : task'[t] = <<r>>
      BY <1>1, <2>1 DEF Binding
    <3>2. r.do # "bindRoute"
      BY DEF Asked
    <3>3. QED
      BY <1>1, <2>1, <3>1, <3>2 DEF Binding
  <2>2. QED
    BY <1>1, <2>1 DEF Binding
<1>2. ASSUME NEW u \in Tasks, NEW p \in Nat, NEW i \in Ids, u # t, Binding(u, p, i)
      PROVE  obj'[i].refs = <<>>
  <2>1. i \in 1 .. made /\ obj[i].kind = "rule"
    BY <1>2, BindingIsMade
  <2>2. SameRefs(t, i) /\ obj[i].refs = <<>>
    BY <1>2, <2>1, StepRefs DEF BindingInv
  <2>3. CASE Runs(t, "bindRoute") /\ i = Frame(t).id
    <3>1. Binding(t, 1, i)
      <4>1. Frame(t).do = "bindRoute" /\ Frame(t) = task[t][1] /\ Len(task[t]) \in Nat \ {0}
        BY <2>3, Running
      <4>2. QED
        BY <2>3, <4>1 DEF Binding
    <3>2. QED
      BY <1>2, <3>1 DEF BindingInv
  <2>4. QED
    BY <2>1, <2>2, <2>3 DEF SameRefs
<1>3. QED
  BY <1>1, <1>2 DEF BindingInv

LEMMA NoTurn ==
  ASSUME TypeOK, NEW t \in Tasks, NEW what, Runs(t, what),
         \/ Proceed(t, <<>>) \/ Continue(t, <<>>, Same(t, <<>>))
         \/ what \notin Deleting /\ (Await(t, <<>>) \/ Continue(t, <<>>, NoTask))
  PROVE  <<>> \in Seq(Frames) /\ Turns(t, <<>>)
<1>1. /\ Frame(t).do = what /\ turn \in {NoTask, t} /\ task[t] # <<>>
  BY Running
<1>2. PICK xs \in Seq(Frames) : xs = <<>>
  BY EmptySeq
<1>3. Moves(t, xs) /\ (what \in Deleting => turn' = Same(t, xs))
  BY <1>2 DEF Proceed, Await, Continue, Moves
<1>4. \A p \in 1 .. Len(xs) : FALSE
  BY <1>2
<1>5. Orderly(Frame(t), xs) /\ Linked(Frame(t), xs) /\ NewBindings(xs)
  BY <1>4 DEF Orderly, Linked, NewBindings
<1>6. QED
  BY <1>1, <1>2, <1>3, <1>5 DEF Turns

LEMMA OneTurn ==
  ASSUME TypeOK, NEW t \in Tasks, NEW what, Runs(t, what), NEW g \in Frames,
         Proceed(t, <<g>>) \/ (what \notin Deleting /\ Await(t, <<g>>)),
         what \notin Deleting => g.do \notin Leftovers,
         what \in Deleting => g.do \in Deleting,
         what \in BelowRuleList => g.do \in BelowRuleList,
         g.do # "bindRoute",
         \A k, n : Makes(g, k, n) => Makes(Frame(t), k, n)
  PROVE  <<g>> \in Seq(Frames) /\ Turns(t, <<g>>)
<1>1. /\ Frame(t).do = what /\ turn \in {NoTask, t} /\ task[t] # <<>>
  BY Running
<1>2. PICK xs \in Seq(Frames) : xs = <<g>>
  BY OneFrame
<1>3. Moves(t, xs) /\ (what \in Deleting => turn' = Same(t, xs))
  BY <1>2 DEF Proceed, Await, Continue, Moves
<1>4. Len(xs) = 1 /\ xs[1] = g /\ \A p \in 1 .. Len(xs) : p = 1
  BY <1>2
<1>5. Orderly(Frame(t), xs)
  BY <1>1, <1>4 DEF Orderly
<1>6. Linked(Frame(t), xs) /\ NewBindings(xs)
  BY <1>4 DEF Linked, NewBindings
<1>7. QED
  BY <1>1, <1>2, <1>3, <1>5, <1>6 DEF Turns

LEMMA TwoTurn ==
  ASSUME TypeOK, NEW t \in Tasks, NEW what, Runs(t, what), NEW g \in Frames, NEW h \in Frames,
         Proceed(t, <<g, h>>), h.do \notin Targets,
         what \notin Deleting => g.do \notin Leftovers /\ h.do \notin Leftovers,
         what \in Deleting => g.do \in Deleting /\ h.do \in Deleting,
         what \in BelowRuleList => g.do \in BelowRuleList /\ h.do \in BelowRuleList,
         h.do = "removeRule" => g.do \in BelowRuleList,
         g.do # "bindRoute",
         h.do = "bindRoute" => h.id = made + 1 /\ made + 1 \in Ids /\ obj'[made + 1].refs = <<>>,
         \A k, n : Makes(g, k, n) => Expects(h, k, n),
         \A k, n : Makes(h, k, n) => Makes(Frame(t), k, n)
  PROVE  <<g, h>> \in Seq(Frames) /\ Turns(t, <<g, h>>)
<1>1. /\ Frame(t).do = what /\ turn \in {NoTask, t} /\ task[t] # <<>>
  BY Running
<1>2. PICK xs \in Seq(Frames) : xs = <<g, h>>
  BY OneFrame
<1>3. Moves(t, xs) /\ (what \in Deleting => turn' = Same(t, xs))
  BY <1>2 DEF Proceed, Await, Continue, Moves
<1>4. Len(xs) = 2 /\ xs[1] = g /\ xs[2] = h
  BY <1>2
<1>5. ASSUME NEW p \in 1 .. Len(xs) PROVE p = 1 \/ p = 2
  BY <1>4
<1>6. \A q \in 1 .. 2 - 1 : q = 1
  OBVIOUS
<1>6a. \A q \in 1 .. 1 - 1 : FALSE
  OBVIOUS
<1>7. Orderly(Frame(t), xs)
  BY <1>1, <1>4, <1>5, <1>6, <1>6a DEF Orderly
<1>8. 1 < Len(xs) /\ xs[1 + 1] = h
  BY <1>4
<1>9. Linked(Frame(t), xs)
  BY <1>4, <1>5, <1>8 DEF Linked
<1>10. NewBindings(xs)
  BY <1>4, <1>5 DEF NewBindings
<1>11. QED
  BY <1>1, <1>2, <1>3, <1>7, <1>9, <1>10 DEF Turns

-----------------------------------------------------------------------------
(* Additions leave no object without an owner that does not fail.          *)

\* An object of kind o owns objects of kind k.
OwnerOf(k, o) ==
  \/ k = "rulelist" /\ o = "listener"
  \/ k = "rule" /\ o = "rulelist"
  \/ k = "route" /\ o = "rule"
  \/ k = "cluster" /\ o = "route"

Owns(j, k, n) == OwnerOf(k, obj[j].kind) /\ n \in Elements(obj[j].refs)

HasOwner(k, n) == \E j \in listed : Owns(j, k, n)

\* An autogenerated object without an owner that nothing is going to bind to one.
Lonely(i) ==
  i \in listed /\ obj[i].auto /\ ~HasOwner(obj[i].kind, obj[i].name) /\ ~Expected(obj[i].kind, obj[i].name)

OrphansAreLonely == \A i : i \in Orphans <=> Lonely(i)

LEMMA OrphansAre == TypeOK /\ RefsInv => OrphansAreLonely
<1> SUFFICES ASSUME TypeOK, RefsInv, NEW i PROVE i \in Orphans <=> Lonely(i)
  BY DEF OrphansAreLonely
<1>1. Pending(i) <=> Expected(obj[i].kind, obj[i].name)
  BY PendingIsExpected
<1>2. ASSUME obj[i].kind \in {"rulelist", "rule", "route", "cluster"}, NEW j
      PROVE  OwnerOf(obj[i].kind, obj[j].kind) <=> obj[j].kind = OwnerKind[obj[i].kind]
  <2>1. /\ OwnerKind["rulelist"] = "listener" /\ OwnerKind["rule"] = "rulelist"
        /\ OwnerKind["route"] = "rule" /\ OwnerKind["cluster"] = "route"
    BY DEF OwnerKind
  <2>2. QED
    BY <1>2, <2>1 DEF OwnerOf
<1>3. ASSUME i \in listed, obj[i].auto
      PROVE  Owned(i) <=> HasOwner(obj[i].kind, obj[i].name)
  <2>1. obj[i].kind \in {"rulelist", "rule", "route", "cluster"}
    BY <1>3 DEF TypeOK, RefsInv
  <2>2. QED
    BY <1>2, <2>1 DEF Owned, HasOwner, Owns
<1>4. QED
  BY <1>1, <1>3 DEF Orphans, Lonely

\* The same after a step.
LEMMA OrphansAreNext == TypeOK' /\ RefsInv' => OrphansAreLonely'
BY OrphansAre, PTL

Builds(t) ==
  /\ Frame(t).do \notin Deleting
  /\ \E xs \in Seq(Frames) : Turns(t, xs)
  /\ LeavesStrays \/ (strays' = strays /\ Orphans' \subseteq Orphans)

\* Owners keep what they own.
LEMMA OwnersStay ==
  ASSUME \A j \in listed : /\ j \in listed' /\ obj'[j].kind = obj[j].kind
                           /\ obj[j].kind # "cluster" => Elements(obj[j].refs) \subseteq Elements(obj'[j].refs),
         NEW k, NEW n, HasOwner(k, n)
  PROVE  HasOwner(k, n)'
<1>1. PICK j \in listed : Owns(j, k, n)
  BY DEF HasOwner
<1>2. obj[j].kind # "cluster"
  BY <1>1 DEF Owns, OwnerOf
<1>3. QED
  BY <1>1, <1>2 DEF HasOwner, Owns

\* What a step does not take away from its owners, and what the frame that ran was going
\* to bind has an owner or is still going to be bound.
LEMMA NoNewOrphans ==
  ASSUME TypeOK, Keeps, RefsInv, RefsInv',
         NEW t \in Tasks, NEW xs \in Seq(Frames), Turns(t, xs),
         \A j \in listed : /\ j \in listed'
                           /\ obj[j].kind # "cluster" => Elements(obj[j].refs) \subseteq Elements(obj'[j].refs),
         \A k, n : Expects(Frame(t), k, n) => HasOwner(k, n)' \/ Expected(k, n)',
         \A i \in listed' \ listed : (obj[i].auto => Expected(obj[i].kind, obj[i].name))'
  PROVE  Orphans' \subseteq Orphans
<1>1. TypeOK' /\ Kept /\ Moves(t, xs) /\ task[t] # <<>>
  BY DEF Keeps, Turns
<1>2. \A i \in listed : i \in 1 .. made
  BY DEF TypeOK
<1>3. ASSUME NEW i \in Orphans' PROVE i \in Orphans
  <2>1. Lonely(i)'
    BY <1>1, OrphansAreNext DEF OrphansAreLonely
  <2>2. i \in listed /\ i \in 1 .. made
    BY <1>2, <2>1 DEF Lonely
  <2>3. obj'[i].kind = obj[i].kind /\ obj'[i].name = obj[i].name /\ obj'[i].auto = obj[i].auto
    BY <1>1, <2>2 DEF Kept
  <2>4. PICK k, n : k = obj[i].kind /\ n = obj[i].name
    OBVIOUS
  <2>5. obj'[i].auto /\ ~HasOwner(k, n)' /\ ~Expected(k, n)'
    <3>1. obj'[i].auto /\ ~HasOwner(obj[i].kind, obj[i].name)' /\ ~Expected(obj[i].kind, obj[i].name)'
      BY <2>1 DEF Lonely
    <3>2. k = obj'[i].kind /\ n = obj'[i].name
      BY <2>3, <2>4
    <3>3. QED
      BY <3>1, <3>2 DEF HasOwner, Expected, Owns
  <2>6. ~HasOwner(k, n)
    <3>1. \A j \in listed : obj'[j].kind = obj[j].kind
      BY <1>1, <1>2 DEF Kept
    <3>2. QED
      BY <2>5, <3>1, OwnersStay
  <2>7. ~Expected(k, n)
    <3>1. Expected(k, n) => Expects(Frame(t), k, n) \/ Expected(k, n)'
      BY <1>1, ExpectedAfter
    <3>2. QED
      BY <2>5, <3>1
  <2>8. QED
    BY <2>2, <2>3, <2>4, <2>5, <2>6, <2>7, OrphansAre DEF Lonely, OrphansAreLonely
<1>4. QED
  BY <1>3

LEMMA FirstIsLeft ==
  ASSUME TypeOK, NEW t \in Tasks, NEW g \in Frames, Turns(t, <<g>>), <<g>> \in Seq(Frames)
  PROVE  task'[t][1] = g /\ 1 \in 1 .. Len(task'[t])
<1>1. PICK xs \in Seq(Frames) : xs = <<g>>
  OBVIOUS
<1>2. Moves(t, xs) /\ task[t] # <<>>
  BY <1>1 DEF Turns
<1>3. Len(xs) = 1 /\ xs[1] = g
  BY <1>1
<1>4. /\ Len(task[t]) \in Nat \ {0} /\ Len(task'[t]) = Len(xs) + Len(task[t]) - 1
      /\ \A p \in 1 .. Len(xs) : task'[t][p] = xs[p]
  BY <1>2, StackShape
<1>5. QED
  BY <1>3, <1>4

LEMMA SecondIsLeft ==
  ASSUME TypeOK, NEW t \in Tasks, NEW g \in Frames, NEW h \in Frames, Turns(t, <<g, h>>),
         <<g, h>> \in Seq(Frames)
  PROVE  task'[t][1] = g /\ task'[t][2] = h /\ 1 \in 1 .. Len(task'[t]) /\ 2 \in 1 .. Len(task'[t])
<1>1. PICK xs \in Seq(Frames) : xs = <<g, h>>
  OBVIOUS
<1>2. Moves(t, xs) /\ task[t] # <<>>
  BY <1>1 DEF Turns
<1>3. Len(xs) = 2 /\ xs[1] = g /\ xs[2] = h
  BY <1>1
<1>4. /\ Len(task[t]) \in Nat \ {0} /\ Len(task'[t]) = Len(xs) + Len(task[t]) - 1
      /\ \A p \in 1 .. Len(xs) : task'[t][p] = xs[p]
  BY <1>2, StackShape
<1>5. QED
  BY <1>3, <1>4

Well ==
  TypeOK /\ StackInv /\ OrderInv /\ BindingInv /\ RefsInv /\ Keeps /\ RefsInv'

LEMMA QuietBuilds ==
  ASSUME Well, NEW t \in Tasks, NEW what, what \notin Deleting, Runs(t, what),
         NEW xs \in Seq(Frames), Turns(t, xs), UNCHANGED objects, strays' = strays,
         \A k, n : Expects(Frame(t), k, n) => Expected(k, n)'
  PROVE  Builds(t)
<1>1. Frame(t).do \notin Deleting
  BY Running DEF Well
<1>2. UNCHANGED <<obj, listed>>
  BY DEF objects
<1>3. Orphans' \subseteq Orphans
  BY <1>2, NoNewOrphans DEF Well
<1>4. QED
  BY <1>1, <1>3 DEF Builds

LEMMA CreateBuilds ==
  ASSUME Well, NEW t \in Tasks, NEW what, what \notin Deleting, Runs(t, what),
         NEW xs \in Seq(Frames), Turns(t, xs), strays' = strays,
         NEW k \in Kinds, NEW name \in Int, NEW auto \in BOOLEAN, NEW refs \in Seq(Int),
         Create(k, name, auto, refs), auto => Expected(k, name)',
         \A m, n : Expects(Frame(t), m, n) => OwnerOf(m, k) /\ n \in Elements(refs)
  PROVE  Builds(t)
<1>1. Frame(t).do \notin Deleting
  BY Running DEF Well
<1>2. gen' \in Nat /\ raced' \subseteq {"listener", "route"} \X Int
  BY DEF Well, Keeps, TypeOK
<1>3. PICK e \in Ids : e = made + 1
  BY <1>2, NewObject DEF Well
<1>4. /\ obj'[e] = [kind |-> k, name |-> name, auto |-> auto, refs |-> refs]
      /\ \A i \in 1 .. made : obj'[i] = obj[i]
  BY <1>2, <1>3, NewObject DEF Well
<1>5. listed' = listed \union {e}
  BY <1>3 DEF Create
<1>6. \A i \in listed : i \in 1 .. made
  BY DEF Well, TypeOK
<1>7. \A j \in listed : j \in listed' /\ Elements(obj[j].refs) \subseteq Elements(obj'[j].refs)
  BY <1>4, <1>5, <1>6
<1>8. ASSUME NEW m, NEW n, Expects(Frame(t), m, n) PROVE HasOwner(m, n)'
  <2>1. OwnerOf(m, k) /\ n \in Elements(refs) /\ obj'[e].kind = k /\ obj'[e].refs = refs
    BY <1>4, <1>8
  <2>2. QED
    BY <1>5, <2>1 DEF HasOwner, Owns
<1>9. ASSUME NEW i \in listed' \ listed PROVE (obj[i].auto => Expected(obj[i].kind, obj[i].name))'
  <2>1. obj'[i].auto = auto /\ obj'[i].kind = k /\ obj'[i].name = name
    BY <1>4, <1>5, <1>9
  <2>2. QED
    BY <2>1 DEF Expected
<1>10. Orphans' \subseteq Orphans
  BY <1>7, <1>8, <1>9, NoNewOrphans DEF Well
<1>11. QED
  BY <1>1, <1>10 DEF Builds

LEMMA JoinBuilds ==
  ASSUME Well, NEW t \in Tasks, NEW what, what \notin Deleting, Runs(t, what),
         NEW xs \in Seq(Frames), Turns(t, xs), strays' = strays,
         NEW n \in Int, NEW c \in listed, obj[c].kind = "cluster", JoinEndPoint(n, c), raced' = raced,
         \A m, l : ~Expects(Frame(t), m, l)
  PROVE  Builds(t)
<1>1. Frame(t).do \notin Deleting
  BY Running DEF Well
<1>2. gen' \in Nat /\ c \in 1 .. made /\ \A i \in listed : i \in 1 .. made
  BY DEF Well, Keeps, TypeOK
<1>3. PICK e : e = made + 1
  OBVIOUS
<1>4. /\ listed' = listed \union {e}
      /\ obj'[e] = [kind |-> "endpoint", name |-> n, auto |-> FALSE, refs |-> <<obj[c].name>>]
      /\ \A i \in 1 .. made : i # c => obj'[i] = obj[i]
  BY <1>2, <1>3, JoinType, TypeParts DEF Well
<1>5. \A j \in listed : /\ j \in listed'
                        /\ obj[j].kind # "cluster" => Elements(obj[j].refs) \subseteq Elements(obj'[j].refs)
  BY <1>2, <1>4
<1>6. \A i \in listed' \ listed : ~(obj[i].auto)'
  BY <1>4
<1>7. Orphans' \subseteq Orphans
  BY <1>5, <1>6, NoNewOrphans DEF Well
<1>8. QED
  BY <1>1, <1>7 DEF Builds

\* What an addition that is called by its owner's defines.
LEMMA LinkedIsExpected ==
  ASSUME Well, NEW t \in Tasks, NEW xs \in Seq(Frames), Turns(t, xs), NEW k, NEW n,
         Makes(Frame(t), k, n)
  PROVE  Expected(k, n)'
<1>1. Moves(t, xs) /\ task[t] # <<>> /\ TypeOK
  BY DEF Turns, Well
<1>2. Len(task[t]) \in Nat \ {0} /\ Frame(t) = task[t][1]
  BY <1>1, StackShape DEF Frame
<1>3. LinkOK(t, 1)
  BY <1>2 DEF Well, OrderInv
<1>4. 1 < Len(task[t]) /\ Expects(task[t][1 + 1], k, n)
  BY <1>2, <1>3 DEF LinkOK
<1>5. 2 \in 1 .. Len(task[t]) /\ 2 # 1 /\ 1 + 1 = 2
  BY <1>2, <1>4
<1>6. \E q \in 1 .. Len(task'[t]) : task'[t][q] = task[t][2]
  BY <1>1, <1>5, Stays
<1>7. QED
  BY <1>4, <1>5, <1>6 DEF Expected

LEMMA AddListenerBuilds ==
  ASSUME Well, NEW t \in Tasks, AddListener(t)
  PROVE  Throw(t) \/ Builds(t)
<1>1. PICK f \in Frames : /\ f = Frame(t) /\ f.do = "addListener" /\ Runs(t, "addListener")
  BY Running DEF AddListener, Well
<1>2. f.item \in Item /\ f.item.parts # <<>> /\ gen \in Nat
  BY <1>1, AdditionFrames DEF TypeOK, Well
<1>3. f.item.name \in Int /\ f.item.parts[1] \in Item
  BY <1>2, NamedItem
<1>4. PICK rl \in Item : rl = WithName(f.item.parts[1]) /\ rl.name \in Int
  BY <1>2, <1>3, NamedItem
<1>5. PICK push \in Frames :
        push = [do |-> "pushListener", name |-> f.item.name, rules |-> rl.name]
  BY <1>3, <1>4, NewFrames
<1>6. PICK add \in Frames : add = [do |-> "addRuleList", item |-> rl, auto |-> TRUE]
  BY <1>4, NewFrames
<1>7. UNCHANGED objects /\ "addListener" \notin Deleting /\ \A k, n : ~Expects(f, k, n)
  BY <1>1 DEF AddListener, Deleting, Targets, Leftovers, Expects
<1>8. CASE Throw(t)
  BY <1>8
<1>9. CASE Proceed(t, IF rl.inline THEN <<add, push>> ELSE <<push>>)
  <2>1. /\ push.do = "pushListener" /\ push.rules = rl.name /\ \A k, n : ~Makes(push, k, n)
        /\ add.do = "addRuleList" /\ \A k, n : Makes(add, k, n) => Expects(push, k, n)
    BY <1>5, <1>6 DEF Makes, Expects
  <2>2. {push.do, add.do} \intersect (Leftovers \union {"bindRoute"}) = {} /\ push.do \notin Targets
    BY <2>1 DEF Leftovers, Targets
  <2>3. \E xs \in Seq(Frames) : Turns(t, xs)
    <3>1. CASE rl.inline
      <4>1. Proceed(t, <<add, push>>)
        BY <1>9, <3>1
      <4>2. Turns(t, <<add, push>>) /\ <<add, push>> \in Seq(Frames)
        BY <1>1, <1>7, <2>1, <2>2, <4>1, TwoTurn DEF Well, BelowRuleList
      <4>3. QED
        BY <4>2
    <3>2. CASE ~rl.inline
      <4>1. Proceed(t, <<push>>)
        BY <1>9, <3>2
      <4>2. Turns(t, <<push>>) /\ <<push>> \in Seq(Frames)
        BY <1>1, <1>7, <2>1, <2>2, <4>1, OneTurn DEF Well, BelowRuleList
      <4>3. QED
        BY <4>2
    <3>3. QED
      BY <3>1, <3>2
  <2>4. strays' = strays
    BY <1>9 DEF Proceed
  <2>5. QED
    BY <1>1, <1>7, <2>3, <2>4, QuietBuilds
<1>10. QED
  BY <1>1, <1>4, <1>5, <1>6, <1>8, <1>9 DEF AddListener, Fails

LEMMA PushListenerBuilds ==
  ASSUME Well, NEW t \in Tasks, PushListener(t)
  PROVE  Builds(t)
<1>1. PICK f \in Frames : f = Frame(t) /\ f.do = "pushListener" /\ Runs(t, "pushListener")
  BY Running DEF PushListener, Well
<1>2. /\ f.name \in Int /\ <<f.rules>> \in Seq(Int) /\ "listener" \in Kinds /\ FALSE \in BOOLEAN
      /\ "pushListener" \notin Deleting
  BY <1>1, AdditionFrames DEF Kinds, Deleting, Targets, Leftovers
<1>3. /\ Create("listener", f.name, FALSE, <<f.rules>>) /\ gen' \in Nat
      /\ raced' \subseteq {"listener", "route"} \X Int
  BY <1>1 DEF PushListener, TypeOK, Well
<1>4. made + 1 \in Ids
  BY <1>2, <1>3, NewObject DEF Well
<1>5. PICK run \in Frames : run = [do |-> "runListener", id |-> made + 1]
  BY <1>4, NewFrames
<1>6. Await(t, <<run>>) /\ strays' = strays
  BY <1>5 DEF PushListener, Await
<1>7. run.do \notin Leftovers /\ run.do # "bindRoute" /\ \A k, n : ~Makes(run, k, n)
  BY <1>5 DEF Leftovers, Makes
<1>8. <<run>> \in Seq(Frames) /\ Turns(t, <<run>>)
  BY <1>1, <1>2, <1>6, <1>7, OneTurn DEF Well, BelowRuleList
<1>9. PICK refs \in Seq(Int) : refs = <<f.rules>>
  BY <1>2
<1>10. f.rules \in Elements(refs)
  BY <1>9 DEF Elements
<1>11. \A m, n : Expects(f, m, n) => OwnerOf(m, "listener") /\ n \in Elements(refs)
  BY <1>1, <1>10 DEF Expects, OwnerOf
<1>12. QED
  BY <1>1, <1>2, <1>3, <1>6, <1>8, <1>9, <1>11, CreateBuilds

\* A listener or a cluster that does not start.
LEMMA RollbackTurn ==
  ASSUME Well, NEW t \in Tasks, NEW what \in {"runListener", "runCluster"}, Runs(t, what),
         NEW d \in Targets, NEW n \in Int,
         Proceed(t, <<[do |-> d, name |-> n, rec |-> TRUE], [do |-> "fail"]>>)
  PROVE  \E xs \in Seq(Frames) : Turns(t, xs)
<1>1. PICK g \in Frames : g = [do |-> d, name |-> n, rec |-> TRUE]
  BY NewFrames
<1>2. PICK h \in Frames : h = [do |-> "fail"]
  BY NewFrames
<1>3. /\ g.do = d /\ h.do = "fail" /\ what \notin Deleting /\ what \notin BelowRuleList
      /\ d \notin Leftovers /\ d # "bindRoute" /\ h.do \notin Targets /\ h.do \notin Leftovers
  BY <1>1, <1>2 DEF Deleting, Targets, Leftovers, BelowRuleList
<1>4. (\A k, l : ~Makes(g, k, l)) /\ \A k, l : ~Makes(h, k, l)
  BY <1>3 DEF Makes, Targets
<1>5. Proceed(t, <<g, h>>)
  BY <1>1, <1>2
<1>6. Turns(t, <<g, h>>) /\ <<g, h>> \in Seq(Frames)
  BY <1>3, <1>4, <1>5, TwoTurn DEF Well
<1>7. QED
  BY <1>6

LEMMA RunListenerBuilds ==
  ASSUME Well, NEW t \in Tasks, RunListener(t)
  PROVE  Builds(t)
<1>1. PICK f \in Frames : f = Frame(t) /\ f.do = "runListener" /\ Runs(t, "runListener")
  BY Running DEF RunListener, Well
<1>2. f.id \in Ids /\ obj[f.id].name \in Int
  BY <1>1, AdditionFrames DEF TypeOK, Objects, Well
<1>3. UNCHANGED objects /\ "runListener" \notin Deleting /\ \A k, n : ~Expects(f, k, n)
  BY <1>1 DEF RunListener, Deleting, Targets, Leftovers, Expects
<1>4. strays' = strays
  BY DEF RunListener, Await, Proceed
<1>5. CASE Await(t, <<>>)
  <2>1. Turns(t, <<>>) /\ <<>> \in Seq(Frames)
    BY <1>1, <1>3, <1>5, NoTurn DEF Well
  <2>2. QED
    BY <1>1, <1>3, <1>4, <2>1, QuietBuilds
<1>6. CASE Proceed(t, <<[do |-> "deleteListener", name |-> obj[f.id].name, rec |-> TRUE],
                        [do |-> "fail"]>>)
  <2>1. \E xs \in Seq(Frames) : Turns(t, xs)
    BY <1>1, <1>2, <1>6, RollbackTurn DEF Targets
  <2>2. QED
    BY <1>1, <1>3, <1>4, <2>1, QuietBuilds
<1>7. QED
  BY <1>1, <1>5, <1>6 DEF RunListener

LEMMA RunClusterBuilds ==
  ASSUME Well, NEW t \in Tasks, RunCluster(t)
  PROVE  Builds(t)
<1>1. PICK f \in Frames : f = Frame(t) /\ f.do = "runCluster" /\ Runs(t, "runCluster")
  BY Running DEF RunCluster, Well
<1>2. f.id \in Ids /\ obj[f.id].name \in Int
  BY <1>1, AdditionFrames DEF TypeOK, Objects, Well
<1>3. UNCHANGED objects /\ "runCluster" \notin Deleting /\ \A k, n : ~Expects(f, k, n)
  BY <1>1 DEF RunCluster, Deleting, Targets, Leftovers, Expects
<1>4. strays' = strays
  BY DEF RunCluster, Await, Proceed
<1>5. CASE Await(t, <<>>)
  <2>1. Turns(t, <<>>) /\ <<>> \in Seq(Frames)
    BY <1>1, <1>3, <1>5, NoTurn DEF Well
  <2>2. QED
    BY <1>1, <1>3, <1>4, <2>1, QuietBuilds
<1>6. CASE Proceed(t, <<[do |-> "deleteCluster", name |-> obj[f.id].name, rec |-> TRUE],
                        [do |-> "fail"]>>)
  <2>1. \E xs \in Seq(Frames) : Turns(t, xs)
    BY <1>1, <1>2, <1>6, RollbackTurn DEF Targets
  <2>2. QED
    BY <1>1, <1>3, <1>4, <2>1, QuietBuilds
<1>7. QED
  BY <1>1, <1>5, <1>6 DEF RunCluster

LEMMA AddRuleListBuilds ==
  ASSUME Well, NEW t \in Tasks, AddRuleList(t)
  PROVE  Throw(t) \/ Builds(t)
<1>1. PICK f \in Frames : f = Frame(t) /\ f.do = "addRuleList" /\ Runs(t, "addRuleList")
  BY Running DEF AddRuleList, Well
<1>2. /\ f.item \in Item /\ f.auto \in BOOLEAN /\ f.item.name \in Int /\ f.item.parts \in Seq(Items)
      /\ "rulelist" \in Kinds /\ <<>> \in Seq(Int) /\ "addRuleList" \notin Deleting
  BY <1>1, AdditionFrames, EmptySeq DEF Item, Kinds, Deleting, Targets, Leftovers
<1>3. gen' \in Nat /\ raced' \subseteq {"listener", "route"} \X Int
  BY DEF AddRuleList, TypeOK, Well
<1>4. CASE /\ Create("rulelist", f.item.name, f.auto, <<>>)
           /\ Proceed(t, <<[do |-> "fillRuleList", id |-> made + 1, rest |-> f.item.parts, pos |-> 0]>>)
  <2>1. made + 1 \in Ids
    BY <1>2, <1>3, <1>4, NewObject DEF Well
  <2>2. PICK g \in Frames :
          g = [do |-> "fillRuleList", id |-> made + 1, rest |-> f.item.parts, pos |-> 0]
    BY <1>2, <2>1, NewFrames
  <2>3. /\ Proceed(t, <<g>>) /\ strays' = strays
        /\ g.do \notin Leftovers /\ g.do # "bindRoute" /\ \A k, n : ~Makes(g, k, n)
    BY <1>4, <2>2 DEF Proceed, Leftovers, Makes
  <2>4. <<g>> \in Seq(Frames) /\ Turns(t, <<g>>)
    BY <1>1, <1>2, <2>3, OneTurn DEF Well, BelowRuleList
  <2>5. f.auto => Expected("rulelist", f.item.name)'
    <3>1. f.auto => Makes(f, "rulelist", f.item.name)
      BY <1>1 DEF Makes
    <3>2. QED
      BY <1>1, <2>4, <3>1, LinkedIsExpected
  <2>6. \A m, n : ~Expects(f, m, n)
    BY <1>1 DEF Expects
  <2>7. QED
    BY <1>1, <1>2, <1>4, <2>3, <2>4, <2>5, <2>6, CreateBuilds
<1>5. QED
  BY <1>1, <1>4 DEF AddRuleList

LEMMA FillRuleListBuilds ==
  ASSUME Well, NEW t \in Tasks, FillRuleList(t)
  PROVE  Builds(t)
<1>1. PICK f \in Frames : f = Frame(t) /\ f.do = "fillRuleList" /\ Runs(t, "fillRuleList")
  BY Running DEF FillRuleList, Well
<1>2. UNCHANGED objects /\ "fillRuleList" \notin Deleting /\ \A k, n : ~Expects(f, k, n)
  BY <1>1 DEF FillRuleList, Deleting, Targets, Leftovers, Expects
<1>3. strays' = strays
  BY DEF FillRuleList, Await, Proceed
<1>4. CASE f.rest = <<>>
  <2>1. Turns(t, <<>>) /\ <<>> \in Seq(Frames)
    BY <1>1, <1>2, <1>4, NoTurn DEF FillRuleList, Well
  <2>2. QED
    BY <1>1, <1>2, <1>3, <2>1, QuietBuilds
<1>5. CASE f.rest # <<>>
  <2>1. PICK g \in Frames : /\ g = [f EXCEPT !.rest = Tail(@), !.pos = @ + 1]
                            /\ g.do = f.do /\ g.id = f.id
    BY <1>1, <1>5, NextFillings
  <2>2. PICK a \in Frames : a = [do |-> "addRuleTo", id |-> f.id, item |-> Head(f.rest), pos |-> f.pos]
    BY <1>1, <1>5, NextFillings, AdditionFrames, NewFrames
  <2>3. Proceed(t, <<a, g>>)
    BY <1>1, <1>5, <2>1, <2>2 DEF FillRuleList
  <2>4. /\ a.do = "addRuleTo" /\ g.do = "fillRuleList"
        /\ (\A k, n : ~Makes(a, k, n)) /\ \A k, n : ~Makes(g, k, n)
    BY <1>1, <2>1, <2>2 DEF Makes
  <2>5. Turns(t, <<a, g>>) /\ <<a, g>> \in Seq(Frames)
    BY <1>1, <1>2, <2>3, <2>4, TwoTurn DEF Well, BelowRuleList, Leftovers, Targets
  <2>6. QED
    BY <1>1, <1>2, <1>3, <2>5, QuietBuilds
<1>6. QED
  BY <1>4, <1>5

LEMMA AddRuleToRuleListBuilds ==
  ASSUME Well, NEW t \in Tasks, AddRuleToRuleList(t)
  PROVE  Throw(t) \/ Builds(t)
<1>1. PICK f \in Frames : f = Frame(t) /\ f.do = "addRuleToRuleList" /\ Runs(t, "addRuleToRuleList")
  BY Running DEF AddRuleToRuleList, Well
<1>2. f.item \in Item /\ f.pos \in Nat
  BY <1>1, AdditionFrames
<1>3. CASE /\ Defined("rulelist", f.name)
           /\ Proceed(t, <<[do |-> "addRuleTo", id |-> The("rulelist", f.name),
                            item |-> f.item, pos |-> f.pos]>>)
           /\ UNCHANGED <<objects, gen, raced>>
  <2>1. PICK i \in Ids : i = The("rulelist", f.name)
    BY <1>3, TheIsNamed DEF Well
  <2>2. PICK a \in Frames : a = [do |-> "addRuleTo", id |-> i, item |-> f.item, pos |-> f.pos]
    BY <1>2, NewFrames
  <2>3. /\ Proceed(t, <<a>>) /\ a.do = "addRuleTo" /\ strays' = strays /\ UNCHANGED objects
        /\ \A k, n : ~Makes(a, k, n)
    BY <1>3, <2>1, <2>2 DEF Makes, Proceed
  <2>4. "addRuleToRuleList" \notin Deleting /\ \A k, n : ~Expects(f, k, n)
    BY <1>1 DEF Deleting, Targets, Leftovers, Expects
  <2>5. Turns(t, <<a>>) /\ <<a>> \in Seq(Frames)
    BY <1>1, <2>3, <2>4, OneTurn DEF Well, BelowRuleList, Leftovers
  <2>6. QED
    BY <1>1, <2>3, <2>4, <2>5, QuietBuilds
<1>4. QED
  BY <1>1, <1>3 DEF AddRuleToRuleList, Fails

LEMMA AddRuleToBuilds ==
  ASSUME Well, NEW t \in Tasks, AddRuleTo(t)
  PROVE  Throw(t) \/ Builds(t)
<1>1. PICK f \in Frames : f = Frame(t) /\ f.do = "addRuleTo" /\ Runs(t, "addRuleTo")
  BY Running DEF AddRuleTo, Well
<1>2. f.id \in Ids /\ f.item \in Item /\ f.pos \in Nat /\ gen \in Nat
  BY <1>1, AdditionFrames DEF TypeOK, Well
<1>3. PICK rule \in Item : rule = WithName(f.item) /\ rule.name \in Int
  BY <1>2, NamedItem
<1>4. PICK ins \in Frames : ins = [do |-> "insertRule", id |-> f.id, name |-> rule.name, pos |-> f.pos]
  BY <1>2, <1>3, NewFrames
<1>5. PICK add \in Frames : add = [do |-> "addRule", item |-> rule, auto |-> TRUE]
  BY <1>3, NewFrames
<1>6. UNCHANGED objects /\ "addRuleTo" \notin Deleting /\ \A k, n : ~Expects(f, k, n)
  BY <1>1 DEF AddRuleTo, Deleting, Targets, Leftovers, Expects
<1>7. CASE Proceed(t, IF rule.inline THEN <<add, ins>> ELSE <<ins>>)
  <2>1. /\ add.do = "addRule" /\ ins.do = "insertRule" /\ ins.name = rule.name
        /\ \A k, n : ~Makes(ins, k, n)
        /\ \A k, n : Makes(add, k, n) => Expects(ins, k, n)
    BY <1>4, <1>5 DEF Makes, Expects
  <2>2. strays' = strays
    BY <1>7 DEF Proceed
  <2>3. \E xs \in Seq(Frames) : Turns(t, xs)
    <3>1. CASE rule.inline
      <4>1. Proceed(t, <<add, ins>>)
        BY <1>7, <3>1
      <4>2. Turns(t, <<add, ins>>) /\ <<add, ins>> \in Seq(Frames)
        BY <1>1, <1>6, <2>1, <4>1, TwoTurn DEF Well, BelowRuleList, Leftovers, Targets
      <4>3. QED
        BY <4>2
    <3>2. CASE ~rule.inline
      <4>1. Proceed(t, <<ins>>)
        BY <1>7, <3>2
      <4>2. Turns(t, <<ins>>) /\ <<ins>> \in Seq(Frames)
        BY <1>1, <1>6, <2>1, <4>1, OneTurn DEF Well, BelowRuleList, Leftovers
      <4>3. QED
        BY <4>2
    <3>3. QED
      BY <3>1, <3>2
  <2>4. QED
    BY <1>1, <1>6, <2>2, <2>3, QuietBuilds
<1>8. QED
  BY <1>1, <1>3, <1>4, <1>5, <1>7 DEF AddRuleTo

\* An object of the list that refers to more, among it to what the frame was going to bind.
LEMMA ReferBuilds ==
  ASSUME Well, NEW t \in Tasks, NEW what, what \notin Deleting, Runs(t, what),
         NEW xs \in Seq(Frames), Turns(t, xs), strays' = strays,
         NEW i \in listed, NEW refs \in Seq(Int), Refer(i, refs),
         Elements(obj[i].refs) \subseteq Elements(refs),
         \A m, n : Expects(Frame(t), m, n) => OwnerOf(m, obj[i].kind) /\ n \in Elements(refs)
  PROVE  Builds(t)
<1>1. Frame(t).do \notin Deleting
  BY Running DEF Well
<1>2. i \in Ids /\ listed \subseteq Ids /\ obj \in [Ids -> Objects] /\ UNCHANGED <<made, listed>>
  BY MadeAreIds, TypeParts DEF Well, TypeOK, Refer
<1>3. /\ obj'[i].refs = refs /\ obj'[i].kind = obj[i].kind
      /\ \A j \in Ids : j # i => obj'[j] = obj[j]
  BY <1>2 DEF Refer, Objects
<1>4. \A j \in listed : j \in listed' /\ Elements(obj[j].refs) \subseteq Elements(obj'[j].refs)
  BY <1>2, <1>3
<1>5. ASSUME NEW m, NEW n, Expects(Frame(t), m, n) PROVE HasOwner(m, n)'
  BY <1>2, <1>3, <1>5 DEF HasOwner, Owns
<1>6. listed' \ listed = {}
  BY <1>2
<1>7. Orphans' \subseteq Orphans
  BY <1>4, <1>5, <1>6, NoNewOrphans DEF Well
<1>8. QED
  BY <1>1, <1>7 DEF Builds

LEMMA InsertRuleBuilds ==
  ASSUME Well, NEW t \in Tasks, InsertRule(t)
  PROVE  Builds(t)
<1>1. PICK f \in Frames : f = Frame(t) /\ f.do = "insertRule" /\ Runs(t, "insertRule")
  BY Running DEF InsertRule, Well
<1>2. /\ f.id \in Ids /\ f.name \in Int /\ f.pos \in Nat /\ "insertRule" \notin Deleting
      /\ obj[f.id].refs \in Seq(Int) /\ obj[f.id].kind = "rulelist"
  BY <1>1, AdditionFrames, FirstLegal DEF TypeOK, Objects, Deleting, Targets, Leftovers, KindOK, Well
<1>3. PICK refs \in Seq(Int) : /\ refs = Insert(obj[f.id].refs, f.pos, f.name)
                               /\ Elements(obj[f.id].refs) \union {f.name} \subseteq Elements(refs)
  <2>1. PICK s \in Seq(Int) : s = obj[f.id].refs
    BY <1>2
  <2>2. PICK n \in Int, p \in Nat : n = f.name /\ p = f.pos
    BY <1>2
  <2>3. /\ Insert(s, p, n) \in Seq(Int)
        /\ Elements(s) \union {n} \subseteq Elements(Insert(s, p, n))
    BY Inserted
  <2>4. QED
    BY <2>1, <2>2, <2>3
<1>4. Refer(f.id, refs) /\ Continue(t, <<>>, NoTask)
  BY <1>1, <1>3 DEF InsertRule
<1>5. Turns(t, <<>>) /\ <<>> \in Seq(Frames)
  BY <1>1, <1>2, <1>4, NoTurn DEF Well
<1>6. CASE f.id \in listed
  <2>1. strays' = strays
    BY <1>1, <1>6 DEF InsertRule
  <2>2. \A m, n : Expects(f, m, n) => OwnerOf(m, obj[f.id].kind) /\ n \in Elements(refs)
    BY <1>1, <1>2, <1>3 DEF Expects, OwnerOf
  <2>3. QED
    BY <1>1, <1>2, <1>3, <1>4, <1>5, <1>6, <2>1, <2>2, ReferBuilds
<1>7. CASE f.id \notin listed
  BY <1>1, <1>2, <1>5, <1>7 DEF InsertRule, Builds
<1>8. QED
  BY <1>6, <1>7

LEMMA BindRouteBuilds ==
  ASSUME Well, NEW t \in Tasks, BindRoute(t)
  PROVE  Builds(t)
<1>1. PICK f \in Frames : /\ f = Frame(t) /\ f.do = "bindRoute" /\ Runs(t, "bindRoute")
                          /\ f = task[t][1] /\ Len(task[t]) \in Nat \ {0}
  BY Running DEF BindRoute, Well
<1>2. /\ f.id \in Ids /\ f.name \in Int /\ "bindRoute" \notin Deleting
      /\ obj[f.id].kind = "rule"
  BY <1>1, AdditionFrames, FirstLegal DEF Deleting, Targets, Leftovers, KindOK, Well
<1>3. obj[f.id].refs = <<>>
  <2>1. Binding(t, 1, f.id)
    BY <1>1 DEF Binding
  <2>2. QED
    BY <1>2, <2>1 DEF Well, BindingInv
<1>4. PICK refs \in Seq(Int) : refs = <<f.name>>
  <2>1. <<f.name>> \in Seq(Int)
    BY <1>2
  <2>2. QED
    BY <2>1
<1>5. Elements(obj[f.id].refs) \subseteq Elements(refs) /\ f.name \in Elements(refs)
  BY <1>3, <1>4 DEF Elements
<1>6. Refer(f.id, refs) /\ Continue(t, <<>>, NoTask)
  BY <1>1, <1>4 DEF BindRoute
<1>7. Turns(t, <<>>) /\ <<>> \in Seq(Frames)
  BY <1>1, <1>2, <1>6, NoTurn DEF Well
<1>8. CASE f.id \in listed
  <2>1. strays' = strays
    BY <1>1, <1>8 DEF BindRoute
  <2>2. \A m, n : Expects(f, m, n) => OwnerOf(m, obj[f.id].kind) /\ n \in Elements(refs)
    BY <1>1, <1>2, <1>5 DEF Expects, OwnerOf
  <2>3. QED
    BY <1>1, <1>2, <1>5, <1>6, <1>7, <1>8, <2>1, <2>2, ReferBuilds
<1>9. CASE f.id \notin listed
  BY <1>1, <1>2, <1>7, <1>9 DEF BindRoute, Builds
<1>10. QED
  BY <1>8, <1>9

LEMMA AddRuleBuilds ==
  ASSUME Well, NEW t \in Tasks, AddRule(t)
  PROVE  Throw(t) \/ Builds(t)
<1>1. PICK f \in Frames : f = Frame(t) /\ f.do = "addRule" /\ Runs(t, "addRule")
  BY Running DEF AddRule, Well
<1>2. /\ f.item \in Item /\ f.auto \in BOOLEAN /\ gen \in Nat /\ f.item.name \in Int
      /\ "rule" \in Kinds /\ <<>> \in Seq(Int) /\ "addRule" \notin Deleting
  BY <1>1, AdditionFrames, EmptySeq DEF TypeOK, Item, Kinds, Well, Deleting, Targets, Leftovers
<1>3. raced' \subseteq {"listener", "route"} \X Int /\ \A m, n : ~Expects(f, m, n)
  BY <1>1 DEF AddRule, TypeOK, Well, Expects
<1>4. ASSUME NEW refs \in Seq(Int), Create("rule", f.item.name, f.auto, refs), strays' = strays,
             NEW xs \in Seq(Frames), Turns(t, xs)
      PROVE  Builds(t)
  <2>1. f.auto => Expected("rule", f.item.name)'
    <3>1. f.auto => Makes(f, "rule", f.item.name)
      BY <1>1 DEF Makes
    <3>2. QED
      BY <1>1, <1>4, <3>1, LinkedIsExpected
  <2>2. QED
    BY <1>1, <1>2, <1>3, <1>4, <2>1, CreateBuilds
<1>5. ASSUME NEW refs \in Seq(Int), Create("rule", f.item.name, f.auto, refs), Await(t, <<>>)
      PROVE  Builds(t)
  <2>1. Turns(t, <<>>) /\ <<>> \in Seq(Frames) /\ strays' = strays
    BY <1>1, <1>2, <1>5, NoTurn DEF Well, Await
  <2>2. QED
    BY <1>4, <1>5, <2>1
<1>6. PICK route : route = WithName(f.item.parts[1])
  OBVIOUS
<1>7. f.item.parts # <<>> => route \in Item /\ route.name \in Int /\ <<route.name>> \in Seq(Int)
                              /\ f.item.parts[1] \in Item
  BY <1>2, <1>6, NamedItem
<1>8. CASE /\ f.item.parts # <<>>
           /\ Create("rule", f.item.name, f.auto, <<>>)
           /\ CountName(f.item.parts[1])
           /\ Proceed(t, <<[do |-> "addRoute", item |-> route, auto |-> TRUE],
                           [do |-> "bindRoute", id |-> made + 1, name |-> route.name]>>)
  <2>1. gen' \in Nat
    BY <1>2, <1>7, <1>8, NamedItem
  <2>2. /\ made + 1 \in Ids
        /\ obj'[made + 1] = [kind |-> "rule", name |-> f.item.name, auto |-> f.auto, refs |-> <<>>]
    BY <1>2, <1>3, <1>8, <2>1, NewObject DEF Well
  <2>3. PICK a \in Frames : a = [do |-> "addRoute", item |-> route, auto |-> TRUE]
    BY <1>7, <1>8, NewFrames
  <2>4. PICK b \in Frames : b = [do |-> "bindRoute", id |-> made + 1, name |-> route.name]
    BY <1>7, <1>8, <2>2, NewFrames
  <2>5. Proceed(t, <<a, b>>) /\ strays' = strays
    BY <1>8, <2>3, <2>4 DEF Proceed
  <2>6. /\ a.do = "addRoute" /\ b.do = "bindRoute" /\ b.id = made + 1 /\ b.name = route.name
        /\ obj'[made + 1].refs = <<>>
        /\ \A k, n : ~Makes(b, k, n)
        /\ \A k, n : Makes(a, k, n) => Expects(b, k, n)
    BY <2>2, <2>3, <2>4 DEF Makes, Expects
  <2>7. Turns(t, <<a, b>>) /\ <<a, b>> \in Seq(Frames)
    BY <1>1, <1>2, <2>2, <2>5, <2>6, TwoTurn DEF Well, BelowRuleList, Leftovers, Targets
  <2>8. QED
    BY <1>2, <1>4, <1>8, <2>5, <2>7
<1>9. QED
  BY <1>1, <1>2, <1>5, <1>6, <1>7, <1>8 DEF AddRule

LEMMA AddRouteBuilds ==
  ASSUME Well, NEW t \in Tasks, AddRoute(t)
  PROVE  Throw(t) \/ Builds(t)
<1>1. PICK f \in Frames : f = Frame(t) /\ f.do = "addRoute" /\ Runs(t, "addRoute")
  BY Running DEF AddRoute, Well
<1>2. /\ f.item \in Item /\ f.auto \in BOOLEAN /\ f.item.name \in Int /\ f.item.parts \in Seq(Items)
  BY <1>1, AdditionFrames DEF Item
<1>3. UNCHANGED objects /\ "addRoute" \notin Deleting /\ \A k, n : ~Expects(f, k, n)
  BY <1>1 DEF AddRoute, Deleting, Targets, Leftovers, Expects
<1>4. CASE Proceed(t, <<[do |-> "fillRoute", name |-> f.item.name, auto |-> f.auto,
                         done |-> <<>>, rest |-> f.item.parts]>>)
  <2>1. PICK a \in Frames : a = [do |-> "fillRoute", name |-> f.item.name, auto |-> f.auto,
                                 done |-> <<>>, rest |-> f.item.parts]
    BY <1>2, NewFrames
  <2>2. Proceed(t, <<a>>) /\ strays' = strays
    BY <1>4, <2>1 DEF Proceed
  <2>3. /\ a.do = "fillRoute" /\ a.auto = f.auto /\ a.name = f.item.name
        /\ \A k, n : Makes(a, k, n) => Makes(f, k, n)
    BY <1>1, <2>1 DEF Makes
  <2>4. Turns(t, <<a>>) /\ <<a>> \in Seq(Frames)
    BY <1>1, <1>3, <2>2, <2>3, OneTurn DEF Well, BelowRuleList, Leftovers
  <2>5. QED
    BY <1>1, <1>3, <2>2, <2>4, QuietBuilds
<1>5. QED
  BY <1>1, <1>4 DEF AddRoute, Fails

LEMMA FillRouteBuilds ==
  ASSUME Well, NEW t \in Tasks, FillRoute(t)
  PROVE  Builds(t)
<1>1. PICK f \in Frames : f = Frame(t) /\ f.do = "fillRoute" /\ Runs(t, "fillRoute")
  BY Running DEF FillRoute, Well
<1>2. /\ f.name \in Int /\ f.auto \in BOOLEAN /\ f.done \in Seq(Int) /\ "route" \in Kinds
      /\ gen \in Nat /\ "fillRoute" \notin Deleting
  BY <1>1, AdditionFrames DEF TypeOK, Kinds, Well, Deleting, Targets, Leftovers
<1>3. raced' \subseteq {"listener", "route"} \X Int
  BY DEF FillRoute, TypeOK, Well
<1>4. CASE Create("route", f.name, f.auto, f.done) /\ Await(t, <<>>)
  <2>1. Turns(t, <<>>) /\ <<>> \in Seq(Frames) /\ strays' = strays
    BY <1>1, <1>2, <1>4, NoTurn DEF Well, Await
  <2>2. f.auto => Expected("route", f.name)'
    <3>1. f.auto => Makes(f, "route", f.name)
      BY <1>1 DEF Makes
    <3>2. QED
      BY <1>1, <2>1, <3>1, LinkedIsExpected
  <2>3. \A m, n : Expects(f, m, n) => OwnerOf(m, "route") /\ n \in Elements(f.done)
    BY <1>1 DEF Expects, OwnerOf
  <2>4. QED
    BY <1>1, <1>2, <1>4, <2>1, <2>2, <2>3, CreateBuilds
<1>5. PICK c : c = WithName(Head(f.rest))
  OBVIOUS
<1>6. PICK g : g = [f EXCEPT !.done = Append(@, c.name), !.rest = Tail(@)]
  OBVIOUS
<1>7. CASE /\ f.rest # <<>> /\ CountName(Head(f.rest)) /\ UNCHANGED objects
           /\ Proceed(t, IF c.inline THEN <<[do |-> "addCluster", item |-> c, auto |-> TRUE], g>>
                         ELSE <<g>>)
  <2>1. Head(f.rest) \in Item
    BY <1>1, <1>7, NextFillings
  <2>2. c \in Item /\ c.name \in Int /\ strays' = strays
    BY <1>2, <1>5, <1>7, <2>1, NamedItem DEF Proceed
  <2>3. /\ g \in Frames /\ g.do = "fillRoute" /\ g.name = f.name /\ g.done = Append(f.done, c.name)
        /\ g.auto = f.auto
    <3>1. g \in Frames /\ g.do = f.do /\ g.name = f.name /\ g.done = Append(f.done, c.name)
      BY <1>1, <1>6, <1>7, <2>2, NextFillings
    <3>2. f \in [do : {"fillRoute"}, name : Int, auto : BOOLEAN, done : Seq(Int), rest : Seq(Items)]
      BY <1>1 DEF Frames, Asked
    <3>3. QED
      BY <1>1, <1>6, <3>1, <3>2
  <2>4. PICK a \in Frames : a = [do |-> "addCluster", item |-> c, auto |-> TRUE]
    BY <2>2, NewFrames
  <2>5. c.name \in Elements(g.done) /\ Elements(f.done) \subseteq Elements(g.done)
    <3>1. PICK n : n = Len(f.done)
      OBVIOUS
    <3>2. PICK s : s = Append(f.done, c.name)
      OBVIOUS
    <3>3. n \in Nat
      BY <1>2, <3>1, LenProperties
    <3>4. /\ s \in Seq(Int) /\ Len(s) = n + 1 /\ s[n + 1] = c.name
          /\ \A i \in 1 .. n : s[i] = f.done[i]
      BY <1>2, <2>2, <3>1, <3>2, AppendProperties
    <3>5. n + 1 \in 1 .. Len(s) /\ \A i \in 1 .. n : i \in 1 .. Len(s)
      BY <3>3, <3>4
    <3>6. QED
      BY <2>3, <3>1, <3>2, <3>4, <3>5 DEF Elements
  <2>6. /\ a.do = "addCluster"
        /\ \A k, n : Makes(g, k, n) => Makes(f, k, n)
        /\ \A k, n : Makes(a, k, n) => Expects(g, k, n)
    BY <1>1, <2>3, <2>4, <2>5 DEF Makes, Expects
  <2>7. \A k, n : Expects(f, k, n) => Expects(g, k, n)
    BY <1>1, <2>3, <2>5 DEF Expects
  <2>8. CASE c.inline
    <3>1. Proceed(t, <<a, g>>)
      BY <1>7, <2>4, <2>8
    <3>2. Turns(t, <<a, g>>) /\ <<a, g>> \in Seq(Frames)
      BY <1>1, <1>2, <2>3, <2>6, <3>1, TwoTurn DEF Well, BelowRuleList, Leftovers, Targets
    <3>3. task'[t][2] = g /\ 2 \in 1 .. Len(task'[t])
      BY <1>1, <2>3, <3>2, SecondIsLeft DEF Well
    <3>4. \A k, n : Expects(f, k, n) => Expected(k, n)'
      BY <2>7, <3>3 DEF Expected
    <3>5. QED
      BY <1>1, <1>2, <1>7, <2>2, <3>2, <3>4, QuietBuilds
  <2>9. CASE ~c.inline
    <3>1. Proceed(t, <<g>>)
      BY <1>7, <2>9
    <3>2. Turns(t, <<g>>) /\ <<g>> \in Seq(Frames)
      BY <1>1, <1>2, <2>3, <2>6, <3>1, OneTurn DEF Well, BelowRuleList, Leftovers, Targets
    <3>3. task'[t][1] = g /\ 1 \in 1 .. Len(task'[t])
      BY <1>1, <2>3, <3>2, FirstIsLeft DEF Well
    <3>4. \A k, n : Expects(f, k, n) => Expected(k, n)'
      BY <2>7, <3>3 DEF Expected
    <3>5. QED
      BY <1>1, <1>2, <1>7, <2>2, <3>2, <3>4, QuietBuilds
  <2>10. QED
    BY <2>8, <2>9
<1>8. QED
  BY <1>1, <1>4, <1>5, <1>6, <1>7 DEF FillRoute

LEMMA AddClusterBuilds ==
  ASSUME Well, NEW t \in Tasks, AddCluster(t)
  PROVE  Throw(t) \/ Builds(t)
<1>1. PICK f \in Frames : f = Frame(t) /\ f.do = "addCluster" /\ Runs(t, "addCluster")
  BY Running DEF AddCluster, Well
<1>2. /\ f.item \in Item /\ f.auto \in BOOLEAN /\ f.item.name \in Int /\ f.item.parts \in Seq(Items)
      /\ "cluster" \in Kinds /\ <<>> \in Seq(Int) /\ "addCluster" \notin Deleting
  BY <1>1, AdditionFrames, EmptySeq DEF Item, Kinds, Deleting, Targets, Leftovers
<1>3. gen' \in Nat /\ raced' \subseteq {"listener", "route"} \X Int
  BY DEF AddCluster, TypeOK, Well
<1>4. CASE /\ Create("cluster", f.item.name, f.auto, <<>>)
           /\ Proceed(t, <<[do |-> "fillCluster", id |-> made + 1, rest |-> f.item.parts]>>)
  <2>1. made + 1 \in Ids
    BY <1>2, <1>3, <1>4, NewObject DEF Well
  <2>2. PICK g \in Frames : g = [do |-> "fillCluster", id |-> made + 1, rest |-> f.item.parts]
    BY <1>2, <2>1, NewFrames
  <2>3. /\ Proceed(t, <<g>>) /\ strays' = strays
        /\ g.do \notin Leftovers /\ g.do # "bindRoute" /\ \A k, n : ~Makes(g, k, n)
    BY <1>4, <2>2 DEF Proceed, Leftovers, Makes
  <2>4. <<g>> \in Seq(Frames) /\ Turns(t, <<g>>)
    BY <1>1, <1>2, <2>3, OneTurn DEF Well, BelowRuleList
  <2>5. f.auto => Expected("cluster", f.item.name)'
    <3>1. f.auto => Makes(f, "cluster", f.item.name)
      BY <1>1 DEF Makes
    <3>2. QED
      BY <1>1, <2>4, <3>1, LinkedIsExpected
  <2>6. \A m, n : ~Expects(f, m, n)
    BY <1>1 DEF Expects
  <2>7. QED
    BY <1>1, <1>2, <1>4, <2>3, <2>4, <2>5, <2>6, CreateBuilds
<1>5. QED
  BY <1>1, <1>4 DEF AddCluster

\* The process may end, which leaves the rest as it is.
Stops == UNCHANGED <<objects, task, turn, raced, strays>>

LEMMA FillClusterBuilds ==
  ASSUME Well, NEW t \in Tasks, FillCluster(t)
  PROVE  Stops \/ Builds(t)
<1>1. PICK f \in Frames : f = Frame(t) /\ f.do = "fillCluster" /\ Runs(t, "fillCluster")
  BY Running DEF FillCluster, Well
<1>2. /\ f.id \in Ids /\ f.id \in listed /\ obj[f.id].kind = "cluster"
      /\ "fillCluster" \notin Deleting /\ \A k, n : ~Expects(f, k, n)
  BY <1>1, AdditionFrames, FirstLegal, Running
  DEF Undisturbed, KindOK, Well, Deleting, Targets, Leftovers, Expects
<1>3. raced' = raced /\ gen \in Nat
  BY DEF FillCluster, TypeOK, Well
<1>4. CASE Await(t, <<[do |-> "runCluster", id |-> f.id]>>) /\ UNCHANGED objects
  <2>1. PICK g \in Frames : g = [do |-> "runCluster", id |-> f.id]
    BY <1>2, NewFrames
  <2>2. Await(t, <<g>>) /\ strays' = strays /\ g.do = "runCluster" /\ \A k, n : ~Makes(g, k, n)
    BY <1>4, <2>1 DEF Await, Makes
  <2>3. Turns(t, <<g>>) /\ <<g>> \in Seq(Frames)
    BY <1>1, <1>2, <2>2, OneTurn DEF Well, BelowRuleList, Leftovers
  <2>4. QED
    BY <1>1, <1>2, <1>4, <2>2, <2>3, QuietBuilds
<1>5. PICK e : e = WithName(Head(f.rest))
  OBVIOUS
<1>6. CASE /\ f.rest # <<>> /\ CountName(Head(f.rest))
           /\ JoinEndPoint(e.name, The("cluster", obj[f.id].name))
           /\ Proceed(t, <<[f EXCEPT !.rest = Tail(@)]>>)
  <2>1. Head(f.rest) \in Item
    BY <1>1, <1>6, NextFillings
  <2>2. e.name \in Int
    BY <1>3, <1>5, <2>1, NamedItem
  <2>3. Defined("cluster", obj[f.id].name)
    BY <1>2 DEF Defined, Named
  <2>4. PICK c \in listed : c = The("cluster", obj[f.id].name) /\ obj[c].kind = "cluster"
    BY <2>3, TheIsNamed DEF Well
  <2>5. PICK g \in Frames : g = [f EXCEPT !.rest = Tail(@)] /\ g.do = f.do /\ g.id = f.id
    BY <1>1, <1>6, NextFillings
  <2>6. Proceed(t, <<g>>) /\ strays' = strays /\ \A k, n : ~Makes(g, k, n)
    BY <1>1, <1>6, <2>5 DEF Proceed, Makes
  <2>7. Turns(t, <<g>>) /\ <<g>> \in Seq(Frames)
    BY <1>1, <1>2, <2>5, <2>6, OneTurn DEF Well, BelowRuleList, Leftovers
  <2>8. JoinEndPoint(e.name, c)
    BY <1>6, <2>4
  <2>9. QED
    BY <1>1, <1>2, <1>3, <2>2, <2>4, <2>6, <2>7, <2>8, JoinBuilds
<1>7. CASE UNCHANGED <<objects, task, turn, strays>>
  BY <1>3, <1>7 DEF Stops
<1>8. QED
  BY <1>1, <1>4, <1>5, <1>6, <1>7 DEF FillCluster

LEMMA AddEndPointBuilds ==
  ASSUME Well, NEW t \in Tasks, AddEndPoint(t)
  PROVE  Throw(t) \/ Builds(t)
<1>1. PICK f \in Frames : f = Frame(t) /\ f.do = "addEndPoint" /\ Runs(t, "addEndPoint")
  BY Running DEF AddEndPoint, Well
<1>2. f.name \in Int /\ raced' = raced /\ "addEndPoint" \notin Deleting /\ \A k, n : ~Expects(f, k, n)
  BY <1>1, AdditionFrames DEF AddEndPoint, Deleting, Targets, Leftovers, Expects
<1>3. CASE /\ Defined("cluster", f.cluster)
           /\ JoinEndPoint(f.name, The("cluster", f.cluster)) /\ Await(t, <<>>)
  <2>1. PICK c \in listed : c = The("cluster", f.cluster) /\ obj[c].kind = "cluster"
    BY <1>3, TheIsNamed DEF Well
  <2>2. Turns(t, <<>>) /\ <<>> \in Seq(Frames) /\ strays' = strays
    BY <1>1, <1>2, <1>3, NoTurn DEF Well, Await
  <2>3. JoinEndPoint(f.name, c)
    BY <1>3, <2>1
  <2>4. QED
    BY <1>1, <1>2, <2>1, <2>2, <2>3, JoinBuilds
<1>4. QED
  BY <1>1, <1>3 DEF AddEndPoint

LEMMA AddBuilds ==
  ASSUME Well, NEW t \in Tasks, Add(t)
  PROVE  Throw(t) \/ Stops \/ Builds(t)
BY AddListenerBuilds, PushListenerBuilds, RunListenerBuilds, AddRuleListBuilds,
   FillRuleListBuilds, AddRuleToRuleListBuilds, AddRuleToBuilds, InsertRuleBuilds, AddRuleBuilds,
   BindRouteBuilds, AddRouteBuilds, FillRouteBuilds, AddClusterBuilds, FillClusterBuilds,
   RunClusterBuilds, AddEndPointBuilds DEF Add

-----------------------------------------------------------------------------
(* Deletions empty what they delete, and know what they leave on the way.  *)

\* Listeners and routes of a name that was defined twice may hide each other.
Lost(i) == <<obj[i].kind, obj[i].name>> \in raced

\* When the frame f is done, its object does not own i any more.
Drops(f, i) ==
  \/ f.do = "unlist" /\ f.rec /\ Owns(f.id, obj[i].kind, obj[i].name)
  \/ /\ f.do \in {"rulesOf", "clustersOf"} /\ Owns(f.id, obj[i].kind, obj[i].name)
     /\ obj[i].name \notin Elements(f.rest)
  \/ /\ f.do = "removeRule" /\ f.rec /\ obj[i].kind = "rule"
     /\ f.pos < Len(obj[f.id].refs) /\ obj[i].name = obj[f.id].refs[f.pos + 1]

\* One of the first m frames of t is about the deletion of i.
AimedAt(t, m, i) == \E q \in 1 .. m : Aims(task[t][q], i)

\* What loses its owner is deleted before.
EmptiedInv ==
  \A t \in Tasks : \A p \in 1 .. Len(task[t]) : \A i \in listed :
    obj[i].auto /\ Drops(task[t][p], i) => Lost(i) \/ AimedAt(t, p - 1, i)

\* What has no owner, and was not left behind, is about to be deleted.
OrphansInv ==
  \A i \in Orphans :
    i \in strays \/ Lost(i) \/ (turn \in Tasks /\ AimedAt(turn, Len(task[turn]), i))

\* The step of a deletion only takes away; the lists of the rulelists stay as they are
\* while what is below them is deleted.
Shrinks(t) ==
  /\ listed' \subseteq listed /\ raced' = raced
  /\ \A j \in 1 .. made : Elements(obj'[j].refs) \subseteq Elements(obj[j].refs)
  /\ Frame(t).do \in BelowRuleList =>
       \A j \in 1 .. made : obj[j].kind = "rulelist" => obj'[j].refs = obj[j].refs

AimedBy(xs, m, i) == \E q \in 1 .. m : Aims(xs[q], i)

\* The new frames go on with what the frame was about,
Passes(t, xs) ==
  \A i \in listed' : obj[i].auto /\ Aims(Frame(t), i) => Lost(i) \/ AimedBy(xs, Len(xs), i)

\* and delete before what is not going to have an owner,
Empties(xs) ==
  \A i \in listed' : \A p \in 1 .. Len(xs) :
    obj[i].auto /\ Drops(xs[p], i)' => Lost(i) \/ AimedBy(xs, p - 1, i)

\* or has none now.
Disowns(xs) ==
  \A i \in listed' : obj[i].auto /\ HasOwner(obj[i].kind, obj[i].name) =>
    Lost(i) \/ AimedBy(xs, Len(xs), i) \/ HasOwner(obj[i].kind, obj[i].name)'

Cleans(t, xs) ==
  /\ Frame(t).do \in Deleting
  /\ Shrinks(t) /\ Passes(t, xs) /\ Empties(xs)
  /\ LeavesStrays \/ (strays' = strays /\ Disowns(xs))

LEMMA AimedAfter ==
  ASSUME Kept, NEW i \in 1 .. made, NEW t, NEW p, Aims(task'[t][p], i)
  PROVE  Aims(task[t][p], i)'
BY DEF Kept, Aims, Deletes

LEMMA LostAfter ==
  ASSUME Kept, NEW i \in 1 .. made, Lost(i), raced \subseteq raced'
  PROVE  Lost(i)'
BY DEF Kept, Lost

\* What a task was going to delete it still is, or it is gone.
LEMMA AimsGoOn ==
  ASSUME Well, NEW t \in Tasks, NEW xs \in Seq(Frames), Turns(t, xs), Cleans(t, xs),
         NEW i \in listed', obj[i].auto, NEW q \in 1 .. Len(task[t]), Aims(task[t][q], i)
  PROVE  Lost(i)' \/ \E p \in 1 .. Len(task'[t]) : p <= q + Len(xs) - 1 /\ Aims(task[t][p], i)'
<1>1. Moves(t, xs) /\ task[t] # <<>> /\ TypeOK /\ Kept
  BY DEF Turns, Well, Keeps
<1>2. i \in 1 .. made /\ raced' = raced
  BY <1>1 DEF Cleans, Shrinks, TypeOK
<1>3. Lost(i) => Lost(i)'
  BY <1>1, <1>2, LostAfter
<1>4. CASE q = 1
  <2>1. Frame(t) = task[t][1]
    BY DEF Frame
  <2>2. Lost(i) \/ AimedBy(xs, Len(xs), i)
    BY <1>4, <2>1 DEF Cleans, Passes
  <2>3. CASE AimedBy(xs, Len(xs), i)
    <3>1. PICK p \in 1 .. Len(xs) : Aims(xs[p], i)
      BY <2>3 DEF AimedBy
    <3>2. /\ Len(xs) \in Nat /\ Len(task[t]) \in Nat \ {0}
          /\ Len(task'[t]) = Len(xs) + Len(task[t]) - 1 /\ task'[t][p] = xs[p]
      BY <1>1, StackShape
    <3>3. PICK m \in Nat, l \in Nat \ {0} : m = Len(xs) /\ l = Len(task[t])
      BY <3>2
    <3>4. p \in 1 .. Len(task'[t]) /\ p <= q + Len(xs) - 1
      <4>1. p \in 1 .. m + l - 1 /\ p <= q + m - 1
        BY <1>4, <3>3
      <4>2. QED
        BY <3>2, <3>3, <4>1
    <3>5. Aims(task[t][p], i)'
      BY <1>1, <1>2, <3>1, <3>2, AimedAfter
    <3>6. QED
      BY <3>4, <3>5
  <2>4. QED
    BY <1>3, <2>2, <2>3
<1>5. CASE q # 1
  <2>1. PICK p \in 1 .. Len(task'[t]) : p = q + Len(xs) - 1 /\ task'[t][p] = task[t][q]
    BY <1>1, <1>5, Stays
  <2>2. p <= q + Len(xs) - 1
    BY <2>1
  <2>3. Aims(task[t][p], i)'
    BY <1>1, <1>2, <2>1, AimedAfter
  <2>4. QED
    BY <2>2, <2>3
<1>6. QED
  BY <1>4, <1>5

\* What a frame drops after the step, it was going to drop before.
LEMMA DropsBefore ==
  ASSUME Well, NEW t \in Tasks, NEW xs \in Seq(Frames), Turns(t, xs), Cleans(t, xs),
         NEW i \in listed', NEW q \in 1 .. Len(task[t]), q # 1, NEW p, task'[t][p] = task[t][q],
         Drops(task[t][p], i)'
  PROVE  Drops(task[t][q], i)
<1>1. TypeOK /\ Kept /\ task[t] # <<>> /\ i \in 1 .. made /\ Shrinks(t)
  BY DEF Turns, Well, Keeps, Cleans, Shrinks, TypeOK
<1>2. /\ Len(task[t]) \in Nat \ {0} /\ Frame(t) = task[t][1] /\ Legal(t, q)
      /\ OrderOK(t, q) /\ task[t][q] \in Frames
  <2>1. task[t] \in Seq(Frames)
    BY <1>1 DEF TypeOK
  <2>2. Len(task[t]) \in Nat \ {0} /\ task[t][q] \in Frames
    BY <1>1, <2>1, EmptySeq, ElementOfSeq
  <2>3. QED
    BY <2>2 DEF Frame, Well, StackInv, OrderInv
<1>3. PICK g \in Frames : g = task[t][q] /\ g = task'[t][p]
  BY <1>2
<1>4. KindOK(g)
  BY <1>2, <1>3 DEF Legal
<1>5. obj'[i].kind = obj[i].kind /\ obj'[i].name = obj[i].name
  BY <1>1 DEF Kept
<1>6. g.do \in {"unlist", "rulesOf", "clustersOf", "removeRule"} => g.id \in Ids
  BY DeletionFrames
<1>7. g.do \in {"unlist", "rulesOf", "clustersOf", "removeRule"} => g.id \in 1 .. made
  <2>1. \A j \in Ids : obj[j].kind # "none" => j \in 1 .. made
    BY <1>1 DEF TypeOK, Ids
  <2>2. QED
    BY <1>4, <1>6, <2>1 DEF KindOK
<1>8. CASE g.do \in {"unlist", "rulesOf", "clustersOf"}
  <2>1. Owns(g.id, obj[i].kind, obj[i].name)' => Owns(g.id, obj[i].kind, obj[i].name)
    <3>1. obj'[g.id].kind = obj[g.id].kind /\ Elements(obj'[g.id].refs) \subseteq Elements(obj[g.id].refs)
      BY <1>1, <1>7, <1>8 DEF Kept, Shrinks
    <3>2. QED
      BY <1>5, <3>1 DEF Owns
  <2>2. QED
    BY <1>3, <1>5, <1>8, <2>1 DEF Drops, Owns
<1>9. CASE g.do = "removeRule"
  <2>1. 1 \in 1 .. q - 1
    BY <1>2
  <2>2. Frame(t).do \in BelowRuleList
    BY <1>2, <1>3, <1>9, <2>1 DEF OrderOK, Leftovers, Above
  <2>3. obj'[g.id].refs = obj[g.id].refs
    BY <1>1, <1>4, <1>7, <1>9, <2>2 DEF Shrinks, KindOK
  <2>4. QED
    BY <1>3, <1>5, <1>9, <2>3 DEF Drops
<1>10. QED
  BY <1>3, <1>8, <1>9 DEF Drops

LEMMA NothingElseDrops ==
  ASSUME Well, NEW t \in Tasks, turn \in {NoTask, t}, NEW u \in Tasks, u # t,
         NEW p \in 1 .. Len(task'[u]), task'[u] = task[u], NEW i
  PROVE  ~(Drops(task[u][p], i)')
<1>1. OrderOK(u, p) /\ turn # u
  BY RegistryAssumption DEF Well, OrderInv
<1>2. task[u][p].do \notin Leftovers
  BY <1>1 DEF OrderOK
<1>3. QED
  BY <1>2 DEF Drops, Leftovers

LEMMA EmptiedByDeletion ==
  ASSUME Well, EmptiedInv, NEW t \in Tasks, NEW xs \in Seq(Frames), Turns(t, xs), Cleans(t, xs)
  PROVE  EmptiedInv'
<1>1. /\ Moves(t, xs) /\ task[t] # <<>> /\ TypeOK /\ Kept /\ turn \in {NoTask, t}
      /\ raced' = raced /\ listed' \subseteq listed /\ Empties(xs)
  BY DEF Turns, Well, Keeps, Cleans, Shrinks
<1>2. /\ Len(xs) \in Nat /\ Len(task[t]) \in Nat \ {0}
      /\ \A q \in 1 .. Len(xs) : task'[t][q] = xs[q]
      /\ \A u \in Tasks : u # t => task'[u] = task[u]
  BY <1>1, StackShape
<1>3. ASSUME NEW u \in Tasks, NEW p \in 1 .. Len(task'[u]), NEW i \in listed', obj'[i].auto,
             Drops(task[u][p], i)'
      PROVE  Lost(i)' \/ AimedAt(u, p - 1, i)'
  <2>1. u = t
    BY <1>1, <1>2, <1>3, NothingElseDrops
  <2>2. i \in 1 .. made /\ i \in listed
    BY <1>1 DEF TypeOK
  <2>3. obj[i].auto
    BY <1>1, <1>3, <2>2 DEF Kept
  <2>4. Lost(i) => Lost(i)'
    BY <1>1, <2>2, LostAfter
  <2>5. CASE p \in 1 .. Len(xs) /\ task'[t][p] = xs[p]
    <3>1. Drops(xs[p], i)'
      BY <1>3, <2>1, <2>5 DEF Drops, Owns
    <3>2. Lost(i) \/ AimedBy(xs, p - 1, i)
      BY <1>1, <2>3, <2>5, <3>1 DEF Empties
    <3>3. CASE AimedBy(xs, p - 1, i)
      <4>1. PICK q \in 1 .. p - 1 : Aims(xs[q], i)
        BY <3>3 DEF AimedBy
      <4>2. q \in 1 .. Len(xs)
        BY <1>2, <2>5
      <4>3. Aims(task'[t][q], i)
        BY <1>2, <4>1, <4>2
      <4>4. Aims(task[t][q], i)'
        BY <1>1, <2>2, <4>3, AimedAfter
      <4>5. QED
        BY <2>1, <4>4 DEF AimedAt
    <3>4. QED
      BY <2>4, <3>2, <3>3
  <2>6. CASE \E q \in 1 .. Len(task[t]) : q # 1 /\ p = q + Len(xs) - 1 /\ task'[t][p] = task[t][q]
    <3>1. PICK q \in 1 .. Len(task[t]) : q # 1 /\ p = q + Len(xs) - 1 /\ task'[t][p] = task[t][q]
      BY <2>6
    <3>2. Drops(task[t][q], i)
      BY <1>3, <2>1, <3>1, DropsBefore
    <3>3. Lost(i) \/ AimedAt(t, q - 1, i)
      BY <2>2, <2>3, <3>2 DEF EmptiedInv
    <3>4. CASE AimedAt(t, q - 1, i)
      <4>1. PICK r \in 1 .. q - 1 : Aims(task[t][r], i)
        BY <3>4 DEF AimedAt
      <4>2. r \in 1 .. Len(task[t])
        BY <1>2
      <4>3. Lost(i)' \/ \E s \in 1 .. Len(task'[t]) : s <= r + Len(xs) - 1 /\ Aims(task[t][s], i)'
        BY <2>3, <4>1, <4>2, AimsGoOn
      <4>4. ASSUME NEW s \in 1 .. Len(task'[t]), s <= r + Len(xs) - 1, Aims(task[t][s], i)'
            PROVE  AimedAt(u, p - 1, i)'
        <5>1. PICK m \in Nat : m = Len(xs)
          BY <1>2
        <5>2. s \in 1 .. p - 1
          BY <3>1, <4>4, <5>1
        <5>3. QED
          BY <2>1, <4>4, <5>2 DEF AimedAt
      <4>5. QED
        BY <4>3, <4>4
    <3>5. QED
      BY <2>4, <3>3, <3>4
  <2>7. QED
    BY <1>1, <1>3, <2>1, <2>5, <2>6, Came
<1>4. QED
  BY <1>3 DEF EmptiedInv

LEMMA OrphansByDeletion ==
  ASSUME Well, OrphansInv, NEW t \in Tasks, NEW xs \in Seq(Frames), Turns(t, xs), Cleans(t, xs)
  PROVE  OrphansInv'
<1>1. /\ Moves(t, xs) /\ task[t] # <<>> /\ TypeOK /\ TypeOK' /\ Kept /\ turn \in {NoTask, t}
      /\ raced' = raced /\ listed' \subseteq listed /\ Frame(t).do \in Deleting /\ turn' = Same(t, xs)
  BY DEF Turns, Well, Keeps, Cleans, Shrinks
<1>2. /\ Len(xs) \in Nat /\ Len(task[t]) \in Nat \ {0} /\ task'[t] = xs \o Tail(task[t])
      /\ Len(task'[t]) = Len(xs) + Len(task[t]) - 1
      /\ \A q \in 1 .. Len(xs) : task'[t][q] = xs[q]
  BY <1>1, StackShape
<1>3. ASSUME NEW i \in Orphans' PROVE (i \in strays \/ Lost(i) \/ (turn \in Tasks /\ AimedAt(turn, Len(task[turn]), i)))'
  <2>1. CASE LeavesStrays
    BY <1>3, <2>1 DEF LeavesStrays
  <2>2. CASE strays' = strays /\ Disowns(xs)
    <3>1. Lonely(i)'
      BY <1>1, OrphansAreNext DEF OrphansAreLonely, Well
    <3>2. i \in listed' /\ i \in listed /\ i \in 1 .. made
      BY <1>1, <3>1 DEF Lonely, TypeOK
    <3>3. obj'[i].kind = obj[i].kind /\ obj'[i].name = obj[i].name /\ obj'[i].auto = obj[i].auto
      BY <1>1, <3>2 DEF Kept
    <3>4. obj[i].auto /\ ~HasOwner(obj[i].kind, obj[i].name)' /\ ~Expected(obj[i].kind, obj[i].name)'
      BY <3>1, <3>3 DEF Lonely
    <3>5. Lost(i) => Lost(i)'
      BY <1>1, <3>2, LostAfter
    <3>6. ASSUME NEW p \in 1 .. Len(task'[t]), Aims(task[t][p], i)'
          PROVE  (turn \in Tasks /\ AimedAt(turn, Len(task[turn]), i))'
      <4>1. task'[t] # <<>>
        BY <3>6
      <4>2. turn' = t
        BY <1>1, <1>2, <4>1 DEF Same
      <4>3. QED
        BY <3>6, <4>2 DEF AimedAt
    <3>7. CASE AimedBy(xs, Len(xs), i)
      <4>1. PICK p \in 1 .. Len(xs) : Aims(xs[p], i)
        BY <3>7 DEF AimedBy
      <4>2. PICK m \in Nat, l \in Nat \ {0} : m = Len(xs) /\ l = Len(task[t])
        BY <1>2
      <4>3. p \in 1 .. Len(task'[t])
        BY <1>2, <4>2
      <4>4. Aims(task[t][p], i)'
        BY <1>1, <1>2, <3>2, <4>1, AimedAfter
      <4>5. QED
        BY <3>6, <4>3, <4>4
    <3>8. CASE HasOwner(obj[i].kind, obj[i].name)
      <4>1. Lost(i) \/ AimedBy(xs, Len(xs), i) \/ HasOwner(obj[i].kind, obj[i].name)'
        BY <2>2, <3>2, <3>4, <3>8 DEF Disowns
      <4>2. ~HasOwner(obj[i].kind, obj[i].name)'
        BY <3>4
      <4>3. QED
        BY <3>5, <3>7, <4>1, <4>2
    <3>9. CASE ~HasOwner(obj[i].kind, obj[i].name)
      <4>1. ~Expected(obj[i].kind, obj[i].name)
        <5>1. PICK k, n : k = obj[i].kind /\ n = obj[i].name
          OBVIOUS
        <5>2. ~Expected(k, n)'
          BY <3>3, <3>4, <5>1 DEF Expected
        <5>3. ~Expects(Frame(t), k, n)
          BY <1>1 DEF Deleting, Targets, Leftovers, Expects
        <5>4. ~Expected(k, n)
          BY <1>1, <5>2, <5>3, ExpectedAfter
        <5>5. QED
          BY <5>1, <5>4
      <4>2. i \in Orphans
        BY <3>2, <3>4, <3>9, <4>1, OrphansAre DEF Lonely, OrphansAreLonely, Well
      <4>3. i \in strays \/ Lost(i) \/ (turn \in Tasks /\ AimedAt(turn, Len(task[turn]), i))
        BY <4>2 DEF OrphansInv
      <4>4. CASE turn \in Tasks /\ AimedAt(turn, Len(task[turn]), i)
        <5>1. turn = t
          BY <1>1, <4>4, RegistryAssumption
        <5>2. PICK q \in 1 .. Len(task[t]) : Aims(task[t][q], i)
          BY <4>4, <5>1 DEF AimedAt
        <5>3. Lost(i)' \/ \E p \in 1 .. Len(task'[t]) : Aims(task[t][p], i)'
          BY <3>2, <3>4, <5>2, AimsGoOn
        <5>4. QED
          BY <3>6, <5>3
      <4>5. QED
        BY <2>2, <3>5, <4>3, <4>4
    <3>10. QED
      BY <3>8, <3>9
  <2>3. QED
    BY <2>1, <2>2 DEF Cleans
<1>4. QED
  BY <1>3 DEF OrphansInv

\* No deletion has begun where an addition goes on.
LEMMA NoDeletion ==
  ASSUME Well, NEW t \in Tasks, task[t] # <<>>, Frame(t).do \notin Deleting,
         NEW q \in 1 .. Len(task[t]), NEW i
  PROVE  task[t][q].do \notin Leftovers /\ ~Aims(task[t][q], i)
<1>1. task[t] \in Seq(Frames)
  BY DEF Well, TypeOK
<1>2. Len(task[t]) \in Nat \ {0} /\ Frame(t) = task[t][1] /\ OrderOK(t, q)
  BY <1>1, EmptySeq DEF Frame, Well, OrderInv
<1>3. CASE q = 1
  BY <1>2, <1>3 DEF Deleting, Targets, Leftovers, Aims, Deletes
<1>4. CASE q # 1
  <2>1. 1 \in 1 .. q - 1
    BY <1>2, <1>4
  <2>2. task[t][q].do \notin Targets
    BY <1>2, <1>4 DEF OrderOK
  <2>3. task[t][q].do \notin Leftovers
    BY <1>2, <2>1 DEF OrderOK, Above, BelowRuleList, Deleting, Targets, Leftovers
  <2>4. QED
    BY <2>2, <2>3 DEF Targets, Leftovers, Aims, Deletes
<1>5. QED
  BY <1>3, <1>4

LEMMA EmptiedByAddition ==
  ASSUME Well, NEW t \in Tasks, Builds(t)
  PROVE  EmptiedInv'
<1>1. PICK xs \in Seq(Frames) : Turns(t, xs)
  BY DEF Builds
<1>2. /\ Moves(t, xs) /\ task[t] # <<>> /\ TypeOK /\ turn \in {NoTask, t}
      /\ Frame(t).do \notin Deleting /\ Orderly(Frame(t), xs)
  BY <1>1 DEF Turns, Well, Builds
<1>3. \A u \in Tasks : u # t => task'[u] = task[u]
  BY <1>2, StackShape
<1>4. ASSUME NEW u \in Tasks, NEW p \in 1 .. Len(task'[u]), NEW i PROVE ~(Drops(task[u][p], i)')
  <2>1. CASE u # t
    BY <1>2, <1>3, <2>1, NothingElseDrops
  <2>2. CASE u = t
    <3>1. \A q \in 1 .. Len(xs) : xs[q].do \notin Leftovers
      BY <1>2 DEF Orderly
    <3>2. \A q \in 1 .. Len(task[t]) : task[t][q].do \notin Leftovers
      BY <1>2, NoDeletion
    <3>3. task'[t][p].do \notin Leftovers
      BY <1>2, <2>2, <3>1, <3>2, Came
    <3>4. QED
      BY <2>2, <3>3 DEF Drops, Leftovers
  <2>3. QED
    BY <2>1, <2>2
<1>5. QED
  BY <1>4 DEF EmptiedInv

\* Nothing that has no owner is about to be deleted, but by a deletion.
LEMMA OrphansAtRest ==
  ASSUME Well, OrphansInv, NEW t \in Tasks, turn \in {NoTask, t},
         task[t] # <<>> => Frame(t).do \notin Deleting, NEW i \in Orphans
  PROVE  i \in strays \/ Lost(i)
<1>1. i \in strays \/ Lost(i) \/ (turn \in Tasks /\ AimedAt(turn, Len(task[turn]), i))
  BY DEF OrphansInv
<1>2. SUFFICES ASSUME turn \in Tasks, AimedAt(turn, Len(task[turn]), i) PROVE FALSE
  BY <1>1
<1>3. turn = t
  BY <1>2, RegistryAssumption
<1>4. PICK q \in 1 .. Len(task[t]) : Aims(task[t][q], i)
  BY <1>2, <1>3 DEF AimedAt
<1>5. task[t] # <<>>
  BY <1>4
<1>6. QED
  BY <1>4, <1>5, NoDeletion

LEMMA OrphansByAddition ==
  ASSUME Well, OrphansInv, NEW t \in Tasks, turn \in {NoTask, t},
         task[t] # <<>> => Frame(t).do \notin Deleting,
         raced \subseteq raced', LeavesStrays \/ (strays' = strays /\ Orphans' \subseteq Orphans)
  PROVE  OrphansInv'
<1>1. TypeOK /\ TypeOK' /\ Kept
  BY DEF Well, Keeps
<1>2. ASSUME NEW i \in Orphans' PROVE i \in strays' \/ Lost(i)'
  <2>1. CASE LeavesStrays
    BY <1>2, <2>1 DEF LeavesStrays
  <2>2. CASE strays' = strays /\ Orphans' \subseteq Orphans
    <3>1. i \in Orphans /\ i \in 1 .. made
      BY <1>1, <1>2, <2>2 DEF Orphans, TypeOK
    <3>2. i \in strays \/ Lost(i)
      BY <3>1, OrphansAtRest
    <3>3. QED
      BY <1>1, <2>2, <3>1, <3>2, LostAfter
  <2>3. QED
    BY <2>1, <2>2
<1>3. QED
  BY <1>2 DEF OrphansInv

\* The task t is left with nothing to do, or with an operation that was asked for.
Restarts(t) ==
  /\ turn \in {NoTask, t}
  /\ \A u \in Tasks : u # t => task'[u] = task[u]
  /\ task'[t] = <<>> \/ \E r \in Asked : task'[t] = <<r>>

LEMMA EmptiedByRestart ==
  ASSUME Well, NEW t \in Tasks, Restarts(t)
  PROVE  EmptiedInv'
<1>1. ASSUME NEW u \in Tasks, NEW p \in 1 .. Len(task'[u]), NEW i PROVE ~(Drops(task[u][p], i)')
  <2>1. CASE u # t
    BY <2>1, NothingElseDrops DEF Restarts
  <2>2. CASE u = t
    <3>1. PICK r \in Asked : task'[t] = <<r>>
      BY <1>1, <2>2 DEF Restarts
    <3>2. r.do \notin Leftovers
      BY DEF Asked, Leftovers
    <3>3. task'[t][p] = r
      BY <1>1, <2>2, <3>1
    <3>4. QED
      BY <2>2, <3>2, <3>3 DEF Drops, Leftovers
  <2>3. QED
    BY <2>1, <2>2
<1>2. QED
  BY <1>1 DEF EmptiedInv

LEMMA OrphansByError ==
  ASSUME Well, LeavesStrays
  PROVE  OrphansInv'
BY DEF OrphansInv, LeavesStrays

\* Nothing is forgotten when an operation is asked for.
LEMMA OrphansByCall ==
  ASSUME Well, OrphansInv, NEW t \in Tasks, Call(t)
  PROVE  OrphansInv'
<1>1. /\ UNCHANGED <<obj, listed, raced, strays>> /\ turn = NoTask /\ task[t] = <<>>
      /\ \A u \in Tasks : u # t => task'[u] = task[u]
  BY DEF Call, objects, Well, TypeOK
<1>2. Orphans' \subseteq Orphans
  <2>1. ASSUME NEW i \in Orphans' PROVE i \in Orphans
    <3>1. Lonely(i)'
      BY <2>1, OrphansAreNext DEF OrphansAreLonely, Well, Keeps
    <3>2. ASSUME NEW k, NEW n, Expected(k, n) PROVE Expected(k, n)'
      BY <1>1, <3>2 DEF Expected
    <3>3. \A k, n : HasOwner(k, n) => HasOwner(k, n)'
      BY <1>1 DEF HasOwner, Owns
    <3>4. Lonely(i)
      <4>1. PICK k, n : k = obj[i].kind /\ n = obj[i].name
        OBVIOUS
      <4>2. i \in listed /\ obj[i].auto /\ ~HasOwner(k, n)' /\ ~Expected(k, n)'
        BY <1>1, <3>1, <4>1 DEF Lonely, HasOwner, Owns, Expected
      <4>3. ~HasOwner(k, n) /\ ~Expected(k, n)
        BY <3>2, <3>3, <4>2
      <4>4. QED
        BY <4>1, <4>2, <4>3 DEF Lonely
    <3>5. QED
      BY <3>4, OrphansAre DEF OrphansAreLonely, Well
  <2>2. QED
    BY <2>1
<1>3. QED
  BY <1>1, <1>2, OrphansByAddition

LEMMA SameOwners ==
  ASSUME Well, EmptiedInv, OrphansInv, UNCHANGED <<objects, task, turn, raced, strays>>
  PROVE  EmptiedInv' /\ OrphansInv'
<1>1. UNCHANGED <<obj, listed, task, turn, raced, strays>>
  BY DEF objects
<1>2. \A i : Lost(i)' = Lost(i)
  BY <1>1 DEF Lost
<1>3. \A t, m, i : AimedAt(t, m, i)' = AimedAt(t, m, i)
  BY <1>1 DEF AimedAt, Aims, Deletes
<1>4. \A t, p, i : Drops(task[t][p], i)' = Drops(task[t][p], i)
  BY <1>1 DEF Drops, Owns
<1>5. Orphans' = Orphans
  BY <1>1 DEF Orphans, Owned, Pending
<1>6. EmptiedInv'
  BY <1>1, <1>2, <1>3, <1>4 DEF EmptiedInv
<1>7. OrphansInv'
  BY <1>1, <1>2, <1>3, <1>5 DEF OrphansInv
<1>8. QED
  BY <1>6, <1>7

Tidy == Well /\ UniqueNames /\ MembersInv /\ EmptiedInv

Cleaned(t) == \E xs \in Seq(Frames) : Turns(t, xs) /\ Cleans(t, xs)

\* A name finds the object that has it, but for a listener or a route that was defined twice.
LEMMA FoundOrLost ==
  ASSUME Tidy, NEW i \in listed, obj[i].auto
  PROVE  /\ Defined(obj[i].kind, obj[i].name)
         /\ The(obj[i].kind, obj[i].name) = i \/ Lost(i)
         /\ obj[i].kind # "route" => The(obj[i].kind, obj[i].name) = i
<1>1. Defined(obj[i].kind, obj[i].name)
  BY DEF Defined, Named
<1>2. PICK j \in listed : /\ j = The(obj[i].kind, obj[i].name)
                          /\ obj[j].kind = obj[i].kind /\ obj[j].name = obj[i].name
  BY <1>1, TheIsNamed DEF Tidy, Well
<1>3. j = i \/ Lost(i)
  BY <1>2 DEF Tidy, UniqueNames, Lost
<1>4. obj[i].kind # "listener"
  BY DEF Tidy, Well, RefsInv, TypeOK
<1>5. obj[i].kind # "route" => j = i
  BY <1>2, <1>4, OnlyOne DEF Tidy, Well
<1>6. QED
  BY <1>1, <1>2, <1>3, <1>5

\* What the frame that runs takes away is gone, or out of reach.
LEMMA NothingDropped ==
  ASSUME Tidy, NEW t \in Tasks, NEW what, Runs(t, what), NEW i \in listed, obj[i].auto,
         Drops(Frame(t), i)
  PROVE  Lost(i)
<1>1. Frame(t) = task[t][1] /\ 1 \in 1 .. Len(task[t])
  BY Running DEF Tidy, Well
<1>2. Lost(i) \/ AimedAt(t, 1 - 1, i)
  BY <1>1 DEF Tidy, EmptiedInv
<1>3. ~AimedAt(t, 1 - 1, i)
  BY DEF AimedAt
<1>4. QED
  BY <1>2, <1>3

LEMMA QuietDeletion ==
  ASSUME Tidy, NEW t, UNCHANGED objects, raced' = raced
  PROVE  /\ Shrinks(t) /\ listed' = listed
         /\ \A f, i : Drops(f, i)' => Drops(f, i)
         /\ \A k, n : HasOwner(k, n) => HasOwner(k, n)'
<1>1. UNCHANGED <<obj, listed>>
  BY DEF objects
<1>2. Shrinks(t)
  BY <1>1 DEF Shrinks
<1>3. \A f, i : Drops(f, i)' => Drops(f, i)
  BY <1>1 DEF Drops, Owns
<1>4. \A k, n : HasOwner(k, n) => HasOwner(k, n)'
  BY <1>1 DEF HasOwner, Owns
<1>5. QED
  BY <1>1, <1>2, <1>3, <1>4

LEMMA NoneCleans ==
  ASSUME Tidy, NEW t \in Tasks, Turns(t, <<>>), <<>> \in Seq(Frames), Frame(t).do \in Deleting,
         Shrinks(t),
         \A i \in listed' : obj[i].auto /\ Aims(Frame(t), i) => Lost(i),
         \/ LeavesStrays
         \/ /\ strays' = strays
            /\ \A i \in listed' : obj[i].auto /\ HasOwner(obj[i].kind, obj[i].name) =>
                 Lost(i) \/ HasOwner(obj[i].kind, obj[i].name)'
  PROVE  Cleaned(t)
<1>1. PICK xs \in Seq(Frames) : xs = <<>>
  OBVIOUS
<1>2. \A p \in 1 .. Len(xs) : FALSE
  BY <1>1
<1>3. Passes(t, xs)
  BY DEF Passes
<1>4. Empties(xs)
  BY <1>2 DEF Empties
<1>5. LeavesStrays \/ (strays' = strays /\ Disowns(xs))
  BY DEF Disowns
<1>6. QED
  BY <1>1, <1>3, <1>4, <1>5 DEF Cleans, Cleaned

LEMMA OneCleans ==
  ASSUME Tidy, NEW t \in Tasks, NEW g \in Frames, Turns(t, <<g>>), <<g>> \in Seq(Frames),
         Frame(t).do \in Deleting, Shrinks(t),
         \A i \in listed' : obj[i].auto =>
           /\ Aims(Frame(t), i) => Lost(i) \/ Aims(g, i)
           /\ Drops(g, i)' => Lost(i),
         strays' = strays,
         \A i \in listed' : obj[i].auto /\ HasOwner(obj[i].kind, obj[i].name) =>
           Lost(i) \/ Aims(g, i) \/ HasOwner(obj[i].kind, obj[i].name)'
  PROVE  Cleaned(t)
<1>1. PICK xs \in Seq(Frames) : xs = <<g>>
  OBVIOUS
<1>2. 1 \in 1 .. Len(xs) /\ xs[1] = g /\ \A p \in 1 .. Len(xs) : p = 1
  BY <1>1
<1>3. \A i : Aims(g, i) => AimedBy(xs, Len(xs), i)
  BY <1>2 DEF AimedBy
<1>4. Passes(t, xs)
  BY <1>3 DEF Passes
<1>5. Empties(xs)
  BY <1>2 DEF Empties
<1>6. Disowns(xs)
  BY <1>3 DEF Disowns
<1>7. QED
  BY <1>1, <1>4, <1>5, <1>6 DEF Cleans, Cleaned

LEMMA TwoCleans ==
  ASSUME Tidy, NEW t \in Tasks, NEW g \in Frames, NEW h \in Frames, Turns(t, <<g, h>>),
         <<g, h>> \in Seq(Frames), Frame(t).do \in Deleting, Shrinks(t),
         \A i \in listed' : obj[i].auto =>
           /\ Aims(Frame(t), i) => Lost(i) \/ Aims(g, i) \/ Aims(h, i)
           /\ ~(Drops(g, i)')
           /\ Drops(h, i)' => Lost(i) \/ Aims(g, i),
         strays' = strays,
         \A i \in listed' : obj[i].auto /\ HasOwner(obj[i].kind, obj[i].name) =>
           Lost(i) \/ Aims(g, i) \/ HasOwner(obj[i].kind, obj[i].name)'
  PROVE  Cleaned(t)
<1>1. PICK xs \in Seq(Frames) : xs = <<g, h>>
  OBVIOUS
<1>2. /\ 1 \in 1 .. Len(xs) /\ xs[1] = g /\ 2 \in 1 .. Len(xs) /\ xs[2] = h
      /\ 1 \in 1 .. 2 - 1
  BY <1>1
<1>3. \A p \in 1 .. Len(xs) : p = 1 \/ p = 2
  BY <1>1
<1>4. \A i : Aims(g, i) => AimedBy(xs, Len(xs), i) /\ AimedBy(xs, 2 - 1, i)
  BY <1>2 DEF AimedBy
<1>5. \A i : Aims(h, i) => AimedBy(xs, Len(xs), i)
  BY <1>2 DEF AimedBy
<1>6. Passes(t, xs)
  BY <1>4, <1>5 DEF Passes
<1>7. Empties(xs)
  BY <1>2, <1>3, <1>4 DEF Empties
<1>8. Disowns(xs)
  BY <1>4 DEF Disowns
<1>9. QED
  BY <1>1, <1>6, <1>7, <1>8 DEF Cleans, Cleaned

LEMMA DeletingFrames ==
  ASSUME NEW f, f.do \in Deleting
  PROVE  f.do # "bindRoute" /\ \A k, n : ~Makes(f, k, n)
BY DEF Deleting, Targets, Leftovers, Makes

\* A deletion goes on without a change of the objects.
LEMMA QuietOne ==
  ASSUME Tidy, NEW t \in Tasks, NEW what \in Deleting, Runs(t, what), UNCHANGED objects, raced' = raced,
         NEW g \in Frames, Proceed(t, <<g>>), g.do \in Deleting,
         what \in BelowRuleList => g.do \in BelowRuleList,
         \A i \in listed : obj[i].auto =>
           /\ Aims(Frame(t), i) => Lost(i) \/ Aims(g, i)
           /\ Drops(g, i) => Lost(i)
  PROVE  Cleaned(t)
<1>1. Frame(t).do \in Deleting
  BY Running DEF Tidy, Well
<1>2. <<g>> \in Seq(Frames) /\ Turns(t, <<g>>)
  BY DeletingFrames, OneTurn DEF Tidy, Well
<1>3. /\ Shrinks(t) /\ listed' = listed
      /\ \A f, i : Drops(f, i)' => Drops(f, i)
      /\ \A k, n : HasOwner(k, n) => HasOwner(k, n)'
  BY QuietDeletion
<1>4. strays' = strays
  BY DEF Proceed
<1>5. \A i \in listed' : obj[i].auto =>
        /\ Aims(Frame(t), i) => Lost(i) \/ Aims(g, i)
        /\ Drops(g, i)' => Lost(i)
  BY <1>3
<1>6. \A i \in listed' : obj[i].auto /\ HasOwner(obj[i].kind, obj[i].name) =>
        Lost(i) \/ Aims(g, i) \/ HasOwner(obj[i].kind, obj[i].name)'
  <2>1. UNCHANGED obj
    BY DEF objects
  <2>2. QED
    BY <1>3, <2>1
<1>7. QED
  BY <1>1, <1>2, <1>3, <1>4, <1>5, <1>6, OneCleans

LEMMA QuietTwo ==
  ASSUME Tidy, NEW t \in Tasks, NEW what \in Deleting, Runs(t, what), UNCHANGED objects, raced' = raced,
         NEW g \in Frames, NEW h \in Frames, Proceed(t, <<g, h>>),
         g.do \in Deleting, h.do \in Deleting, h.do \notin Targets,
         what \in BelowRuleList => g.do \in BelowRuleList /\ h.do \in BelowRuleList,
         h.do = "removeRule" => g.do \in BelowRuleList,
         \A i \in listed : obj[i].auto =>
           /\ Aims(Frame(t), i) => Lost(i) \/ Aims(g, i) \/ Aims(h, i)
           /\ ~Drops(g, i)
           /\ Drops(h, i) => Lost(i) \/ Aims(g, i)
  PROVE  Cleaned(t)
<1>1. Frame(t).do \in Deleting
  BY Running DEF Tidy, Well
<1>2. <<g, h>> \in Seq(Frames) /\ Turns(t, <<g, h>>)
  BY DeletingFrames, TwoTurn DEF Tidy, Well
<1>3. /\ Shrinks(t) /\ listed' = listed
      /\ \A f, i : Drops(f, i)' => Drops(f, i)
      /\ \A k, n : HasOwner(k, n) => HasOwner(k, n)'
  BY QuietDeletion
<1>4. strays' = strays
  BY DEF Proceed
<1>5. \A i \in listed' : obj[i].auto =>
        /\ Aims(Frame(t), i) => Lost(i) \/ Aims(g, i) \/ Aims(h, i)
        /\ ~(Drops(g, i)')
        /\ Drops(h, i)' => Lost(i) \/ Aims(g, i)
  BY <1>3
<1>6. \A i \in listed' : obj[i].auto /\ HasOwner(obj[i].kind, obj[i].name) =>
        Lost(i) \/ Aims(g, i) \/ HasOwner(obj[i].kind, obj[i].name)'
  <2>1. UNCHANGED obj
    BY DEF objects
  <2>2. QED
    BY <1>3, <2>1
<1>7. QED
  BY <1>1, <1>2, <1>3, <1>4, <1>5, <1>6, TwoCleans

\* What owns one object at most.
LEMMA OnlyElement ==
  ASSUME NEW n, NEW s, s = <<n>>
  PROVE  s[1] = n /\ s # <<>> /\ Elements(s) = {n}
BY DEF Elements

LEMMA NoElement == Elements(<<>>) = {}
BY DEF Elements

LEMMA HeadOrTail ==
  ASSUME NEW S, NEW s \in Seq(S), s # <<>>, NEW n \in Elements(s)
  PROVE  n = Head(s) \/ n \in Elements(Tail(s))
<1>1. PICK p \in 1 .. Len(s) : s[p] = n
  BY ElementsOf
<1>0. Len(s) \in Nat \ {0} /\ Head(s) = s[1]
  BY EmptySeq
<1>2. PICK r \in Seq(S) :
        r = Tail(s) /\ Len(r) = Len(s) - 1 /\ \A i \in 1 .. Len(r) : r[i] = s[i + 1]
  BY HeadTailProperties
<1>3. CASE p # 1
  <2>1. PICK m : m = Len(r)
    OBVIOUS
  <2>2. p - 1 \in 1 .. m /\ (p - 1) + 1 = p
    BY <1>0, <1>1, <1>2, <1>3, <2>1
  <2>3. p - 1 \in 1 .. Len(r) /\ r[p - 1] = n
    BY <1>1, <1>2, <2>1, <2>2
  <2>4. n \in Elements(r)
    BY <2>3, ElementsOf
  <2>5. QED
    BY <1>2, <2>4
<1>4. CASE p = 1
  BY <1>0, <1>1, <1>4
<1>5. QED
  BY <1>3, <1>4

LEMMA DeleteListenerCleans ==
  ASSUME Tidy, NEW t \in Tasks, DeleteListener(t)
  PROVE  Throw(t) \/ Cleaned(t)
<1>1. PICK f \in Frames : /\ f = Frame(t) /\ f.do = "deleteListener" /\ Runs(t, "deleteListener")
  BY Running DEF DeleteListener, Tidy, Well
<1>2. UNCHANGED objects /\ raced' = raced /\ f.rec \in BOOLEAN /\ "deleteListener" \in Deleting
      /\ "deleteListener" \notin BelowRuleList
  BY <1>1, DeletionFrames DEF DeleteListener, Targets, Deleting, BelowRuleList
<1>3. ASSUME NEW x \in listed, obj[x].auto PROVE ~Aims(f, x)
  BY <1>1, <1>3 DEF Tidy, Well, RefsInv, TypeOK, Aims, Deletes
<1>4. CASE ~Defined("listener", f.name)
  BY <1>1, <1>4 DEF DeleteListener
<1>5. CASE Defined("listener", f.name)
  <2>1. PICK i \in Ids : i = The("listener", f.name) /\ obj[i].kind = "listener" /\ i \in 1 .. made
    BY <1>5, TheIsNamed DEF Tidy, Well
  <2>2. PICK n \in Int : obj[i].refs = <<n>>
    BY <2>1 DEF Tidy, Well, RefsInv
  <2>3. obj[i].refs[1] = n /\ Elements(obj[i].refs) = {n}
    BY <2>2, OnlyElement
  <2>4. ASSUME NEW rec \in BOOLEAN
        PROVE  \E u \in Frames : u = Unlisting(i, rec) /\ u.do = "unlist" /\ u.id = i /\ u.rec = rec
    BY NewFrames DEF Unlisting
  <2>5. ASSUME NEW u, u.do = "unlist", u.id = i, NEW x, Drops(u, x)
        PROVE  u.rec /\ obj[x].kind = "rulelist" /\ obj[x].name = n
    BY <2>1, <2>3, <2>5 DEF Drops, Owns, OwnerOf
  <2>6. CASE f.rec /\ Implicit("rulelist", n)
    <3>1. PICK a \in Frames : a = [do |-> "deleteRuleList", name |-> n, rec |-> TRUE]
      BY NewFrames DEF Targets
    <3>2. PICK u \in Frames : u = Unlisting(i, TRUE) /\ u.do = "unlist" /\ u.id = i
      BY <2>4
    <3>3. Proceed(t, <<a, u>>)
      BY <1>1, <1>5, <2>1, <2>3, <2>6, <3>1, <3>2 DEF DeleteListener
    <3>4. a.do \in Deleting /\ u.do \in Deleting /\ u.do \notin Targets /\ u.do # "removeRule"
      BY <3>1, <3>2 DEF Deleting, Targets, Leftovers
    <3>5. ASSUME NEW x \in listed PROVE ~Drops(a, x) /\ (Drops(u, x) => Aims(a, x))
      BY <2>5, <3>1, <3>2 DEF Drops, Aims, Deletes
    <3>6. QED
      BY <1>1, <1>2, <1>3, <3>3, <3>4, <3>5, QuietTwo
  <2>7. CASE ~(f.rec /\ Implicit("rulelist", n))
    <3>1. PICK u \in Frames : u = Unlisting(i, f.rec) /\ u.do = "unlist" /\ u.id = i /\ u.rec = f.rec
      BY <1>2, <2>4
    <3>2. Proceed(t, <<u>>)
      BY <1>1, <1>5, <2>1, <2>3, <2>7, <3>1 DEF DeleteListener
    <3>3. u.do \in Deleting
      BY <3>1 DEF Deleting, Leftovers
    <3>4. ASSUME NEW x \in listed, obj[x].auto PROVE ~Drops(u, x)
      <4>1. SUFFICES ASSUME Drops(u, x) PROVE FALSE
        OBVIOUS
      <4>2. f.rec /\ obj[x].kind = "rulelist" /\ obj[x].name = n
        BY <2>5, <3>1, <4>1
      <4>3. Implicit("rulelist", n)
        BY <3>4, <4>2, FoundOrLost DEF Implicit
      <4>4. QED
        BY <2>7, <4>2, <4>3
    <3>5. QED
      BY <1>1, <1>2, <1>3, <3>2, <3>3, <3>4, QuietOne
  <2>8. QED
    BY <2>6, <2>7
<1>6. QED
  BY <1>4, <1>5

LEMMA DeleteRuleCleans ==
  ASSUME Tidy, NEW t \in Tasks, DeleteRule(t)
  PROVE  Throw(t) \/ Cleaned(t)
<1>1. PICK f \in Frames : f = Frame(t) /\ f.do = "deleteRule" /\ Runs(t, "deleteRule")
  BY Running DEF DeleteRule, Tidy, Well
<1>2. UNCHANGED objects /\ raced' = raced /\ f.rec \in BOOLEAN /\ "deleteRule" \in Deleting
  BY <1>1, DeletionFrames DEF DeleteRule, Targets, Deleting
<1>3. CASE ~Defined("rule", f.name)
  BY <1>1, <1>3 DEF DeleteRule
<1>4. CASE Defined("rule", f.name)
  <2>1. PICK i \in Ids : i = The("rule", f.name) /\ obj[i].kind = "rule" /\ i \in 1 .. made
    BY <1>4, TheIsNamed DEF Tidy, Well
  <2>2. obj[i].refs = <<>> \/ \E n \in Int : obj[i].refs = <<n>>
    BY <2>1 DEF Tidy, Well, RefsInv
  <2>3. ASSUME NEW n \in Elements(obj[i].refs)
        PROVE  n \in Int /\ obj[i].refs[1] = n /\ obj[i].refs # <<>>
    <3>1. PICK m \in Int : obj[i].refs = <<m>>
      BY <2>2, NoElement
    <3>2. QED
      BY <3>1, OnlyElement
  <2>4. ASSUME NEW rec \in BOOLEAN
        PROVE  \E u \in Frames : u = Unlisting(i, rec) /\ u.do = "unlist" /\ u.id = i /\ u.rec = rec
    BY NewFrames DEF Unlisting
  <2>5. ASSUME NEW u, u.do = "unlist", u.id = i, NEW x, Drops(u, x)
        PROVE  u.rec /\ obj[x].kind = "route" /\ obj[x].name \in Elements(obj[i].refs)
    BY <2>1, <2>5 DEF Drops, Owns, OwnerOf
  <2>6. ASSUME NEW u, u.do = "unlist", u.id = i, NEW x \in listed, obj[x].auto, Aims(f, x)
        PROVE  Aims(u, x)
    <3>1. obj[x].kind = "rule" /\ obj[x].name = f.name
      BY <1>1, <2>6 DEF Aims, Deletes
    <3>2. x = i
      BY <2>1, <2>6, <3>1, FoundOrLost
    <3>3. QED
      BY <2>6, <3>2 DEF Aims
  <2>7. CASE f.rec /\ obj[i].refs # <<>> /\ Implicit("route", obj[i].refs[1])
    <3>1. PICK a \in Frames : a = [do |-> "deleteRoute", name |-> obj[i].refs[1], rec |-> TRUE]
      BY <2>7, ImplicitStays, NewFrames DEF Targets, Tidy, Well
    <3>2. PICK u \in Frames : u = Unlisting(i, TRUE) /\ u.do = "unlist" /\ u.id = i
      BY <2>4
    <3>3. Proceed(t, <<a, u>>)
      BY <1>1, <1>4, <2>1, <2>7, <3>1, <3>2 DEF DeleteRule
    <3>4. /\ a.do \in Deleting /\ u.do \in Deleting /\ u.do \notin Targets /\ u.do # "removeRule"
          /\ a.do \in BelowRuleList /\ u.do \in BelowRuleList
      BY <3>1, <3>2 DEF Deleting, Targets, Leftovers, BelowRuleList
    <3>5. ASSUME NEW x \in listed PROVE ~Drops(a, x) /\ (Drops(u, x) => Aims(a, x))
      <4>1. ~Drops(a, x)
        BY <3>1 DEF Drops
      <4>2. ASSUME Drops(u, x) PROVE Aims(a, x)
        BY <2>3, <2>5, <3>1, <3>2, <4>2 DEF Aims, Deletes
      <4>3. QED
        BY <4>1, <4>2
    <3>6. QED
      BY <1>1, <1>2, <2>6, <3>2, <3>3, <3>4, <3>5, QuietTwo
  <2>8. CASE ~(f.rec /\ obj[i].refs # <<>> /\ Implicit("route", obj[i].refs[1]))
    <3>1. PICK u \in Frames : u = Unlisting(i, f.rec) /\ u.do = "unlist" /\ u.id = i /\ u.rec = f.rec
      BY <1>2, <2>4
    <3>2. Proceed(t, <<u>>)
      BY <1>1, <1>4, <2>1, <2>8, <3>1 DEF DeleteRule
    <3>3. u.do \in Deleting /\ u.do \in BelowRuleList
      BY <3>1 DEF Deleting, Leftovers, BelowRuleList
    <3>4. ASSUME NEW x \in listed, obj[x].auto, Drops(u, x) PROVE Lost(x)
      <4>1. f.rec /\ obj[x].kind = "route" /\ obj[x].name \in Elements(obj[i].refs)
        BY <2>5, <3>1, <3>4
      <4>2. obj[i].refs[1] = obj[x].name /\ obj[i].refs # <<>>
        BY <2>3, <4>1
      <4>3. ~Implicit("route", obj[x].name)
        BY <2>8, <4>1, <4>2
      <4>4. QED
        BY <3>4, <4>1, <4>3, FoundOrLost DEF Implicit
    <3>5. QED
      BY <1>1, <1>2, <2>6, <3>1, <3>2, <3>3, <3>4, QuietOne
  <2>9. QED
    BY <2>7, <2>8
<1>5. QED
  BY <1>3, <1>4

LEMMA DeleteRuleListCleans ==
  ASSUME Tidy, NEW t \in Tasks, DeleteRuleList(t)
  PROVE  Throw(t) \/ Cleaned(t)
<1>1. PICK f \in Frames : /\ f = Frame(t) /\ f.do = "deleteRuleList" /\ Runs(t, "deleteRuleList")
  BY Running DEF DeleteRuleList, Tidy, Well
<1>2. UNCHANGED objects /\ raced' = raced /\ "deleteRuleList" \in Deleting
      /\ "deleteRuleList" \notin BelowRuleList
  BY <1>1 DEF DeleteRuleList, Targets, Deleting, BelowRuleList
<1>3. CASE ~Defined("rulelist", f.name)
  BY <1>1, <1>3 DEF DeleteRuleList
<1>4. CASE Defined("rulelist", f.name)
  <2>1. PICK i \in Ids : i = The("rulelist", f.name)
    BY <1>4, TheIsNamed DEF Tidy, Well
  <2>2. ASSUME NEW x \in listed, obj[x].auto, Aims(f, x) PROVE x = i
    <3>1. obj[x].kind = "rulelist" /\ obj[x].name = f.name
      BY <1>1, <2>2 DEF Aims, Deletes
    <3>2. QED
      BY <2>1, <2>2, <3>1, FoundOrLost
  <2>3. CASE f.rec
    <3>1. obj[i].refs \in Seq(Int)
      BY DEF TypeOK, Objects, Tidy, Well
    <3>2. PICK g \in Frames : g = [do |-> "rulesOf", id |-> i, rest |-> obj[i].refs]
      BY <3>1, NewFrames
    <3>3. Proceed(t, <<g>>)
      BY <1>1, <1>4, <2>1, <2>3, <3>2 DEF DeleteRuleList
    <3>4. g.do = "rulesOf" /\ g.id = i /\ g.rest = obj[i].refs /\ g.do \in Deleting
      BY <3>2 DEF Deleting, Leftovers
    <3>5. ASSUME NEW x \in listed, obj[x].auto
          PROVE  ~Drops(g, x) /\ (Aims(f, x) => Aims(g, x))
      <4>1. Aims(f, x) => Aims(g, x)
        BY <2>2, <3>4, <3>5 DEF Aims
      <4>2. ~Drops(g, x)
        BY <3>4 DEF Drops, Owns
      <4>3. QED
        BY <4>1, <4>2
    <3>6. QED
      BY <1>1, <1>2, <3>3, <3>4, <3>5, QuietOne
  <2>4. CASE ~f.rec
    <3>1. PICK u \in Frames : u = Unlisting(i, FALSE)
      BY NewFrames DEF Unlisting
    <3>2. u.do = "unlist" /\ u.id = i /\ ~u.rec /\ u.do \in Deleting
      BY <3>1 DEF Unlisting, Deleting, Leftovers
    <3>3. Proceed(t, <<u>>)
      BY <1>1, <1>4, <2>1, <2>4, <3>1 DEF DeleteRuleList
    <3>4. ASSUME NEW x \in listed, obj[x].auto
          PROVE  ~Drops(u, x) /\ (Aims(f, x) => Aims(u, x))
      <4>1. Aims(f, x) => Aims(u, x)
        BY <2>2, <3>2, <3>4 DEF Aims
      <4>2. ~Drops(u, x)
        BY <3>2 DEF Drops
      <4>3. QED
        BY <4>1, <4>2
    <3>5. QED
      BY <1>1, <1>2, <3>2, <3>3, <3>4, QuietOne
  <2>5. QED
    BY <2>3, <2>4
<1>5. QED
  BY <1>3, <1>4

LEMMA DeleteRouteCleans ==
  ASSUME Tidy, NEW t \in Tasks, DeleteRoute(t)
  PROVE  Throw(t) \/ Cleaned(t)
<1>1. PICK f \in Frames : /\ f = Frame(t) /\ f.do = "deleteRoute" /\ Runs(t, "deleteRoute")
  BY Running DEF DeleteRoute, Tidy, Well
<1>2. UNCHANGED objects /\ raced' = raced /\ "deleteRoute" \in Deleting
  BY <1>1 DEF DeleteRoute, Targets, Deleting
<1>3. CASE ~Defined("route", f.name)
  BY <1>1, <1>3 DEF DeleteRoute
<1>4. CASE Defined("route", f.name)
  <2>1. PICK i \in Ids : i = The("route", f.name)
    BY <1>4, TheIsNamed DEF Tidy, Well
  <2>2. ASSUME NEW x \in listed, obj[x].auto, Aims(f, x) PROVE x = i \/ Lost(x)
    <3>1. obj[x].kind = "route" /\ obj[x].name = f.name
      BY <1>1, <2>2 DEF Aims, Deletes
    <3>2. QED
      BY <2>1, <2>2, <3>1, FoundOrLost
  <2>3. CASE f.rec
    <3>1. obj[i].refs \in Seq(Int)
      BY DEF TypeOK, Objects, Tidy, Well
    <3>2. PICK g \in Frames : g = [do |-> "clustersOf", id |-> i, rest |-> obj[i].refs]
      BY <3>1, NewFrames
    <3>3. Proceed(t, <<g>>)
      BY <1>1, <1>4, <2>1, <2>3, <3>2 DEF DeleteRoute
    <3>4. /\ g.do = "clustersOf" /\ g.id = i /\ g.rest = obj[i].refs
          /\ g.do \in Deleting /\ g.do \in BelowRuleList
      BY <3>2 DEF Deleting, Leftovers, BelowRuleList
    <3>5. ASSUME NEW x \in listed, obj[x].auto
          PROVE  ~Drops(g, x) /\ (Aims(f, x) => Lost(x) \/ Aims(g, x))
      <4>1. Aims(f, x) => Lost(x) \/ Aims(g, x)
        <5>1. g.id = x => Aims(g, x)
          BY <3>4 DEF Aims
        <5>2. QED
          BY <2>2, <3>4, <3>5, <5>1
      <4>2. ~Drops(g, x)
        BY <3>4 DEF Drops, Owns
      <4>3. QED
        BY <4>1, <4>2
    <3>6. QED
      BY <1>1, <1>2, <3>3, <3>4, <3>5, QuietOne
  <2>4. CASE ~f.rec
    <3>1. PICK u \in Frames : u = Unlisting(i, FALSE)
      BY NewFrames DEF Unlisting
    <3>2. u.do = "unlist" /\ u.id = i /\ ~u.rec /\ u.do \in Deleting /\ u.do \in BelowRuleList
      BY <3>1 DEF Unlisting, Deleting, Leftovers, BelowRuleList
    <3>3. Proceed(t, <<u>>)
      BY <1>1, <1>4, <2>1, <2>4, <3>1 DEF DeleteRoute
    <3>4. ASSUME NEW x \in listed, obj[x].auto
          PROVE  ~Drops(u, x) /\ (Aims(f, x) => Lost(x) \/ Aims(u, x))
      <4>1. Aims(f, x) => Lost(x) \/ Aims(u, x)
        <5>1. u.id = x => Aims(u, x)
          BY <3>2 DEF Aims
        <5>2. QED
          BY <2>2, <3>2, <3>4, <5>1
      <4>2. ~Drops(u, x)
        BY <3>2 DEF Drops
      <4>3. QED
        BY <4>1, <4>2
    <3>5. QED
      BY <1>1, <1>2, <3>2, <3>3, <3>4, QuietOne
  <2>5. QED
    BY <2>3, <2>4
<1>5. QED
  BY <1>3, <1>4

LEMMA DeleteClusterCleans ==
  ASSUME Tidy, NEW t \in Tasks, DeleteCluster(t)
  PROVE  Throw(t) \/ Cleaned(t)
<1>1. PICK f \in Frames : /\ f = Frame(t) /\ f.do = "deleteCluster" /\ Runs(t, "deleteCluster")
  BY Running DEF DeleteCluster, Tidy, Well
<1>2. UNCHANGED objects /\ raced' = raced /\ "deleteCluster" \in Deleting /\ f.rec \in BOOLEAN
  BY <1>1, DeletionFrames DEF DeleteCluster, Targets, Deleting
<1>3. PICK i : i = The("cluster", f.name)
  OBVIOUS
<1>4. CASE /\ Defined("cluster", f.name)
           /\ Proceed(t, <<[do |-> "endpointsOf", id |-> i, rest |-> obj[i].refs, rec |-> f.rec]>>)
  <2>1. i \in Ids /\ obj[i].refs \in Seq(Int)
    BY <1>3, <1>4, TheIsNamed DEF TypeOK, Objects, Tidy, Well
  <2>2. PICK g \in Frames : g = [do |-> "endpointsOf", id |-> i, rest |-> obj[i].refs, rec |-> f.rec]
    BY <1>2, <2>1, NewFrames
  <2>3. g.do = "endpointsOf" /\ g.id = i /\ g.do \in Deleting /\ g.do \in BelowRuleList
    BY <2>2 DEF Deleting, Leftovers, BelowRuleList
  <2>4. ASSUME NEW x \in listed, obj[x].auto
        PROVE  ~Drops(g, x) /\ (Aims(f, x) => Aims(g, x))
    <3>1. ASSUME Aims(f, x) PROVE Aims(g, x)
      <4>1. obj[x].kind = "cluster" /\ obj[x].name = f.name
        BY <1>1, <3>1 DEF Aims, Deletes
      <4>2. x = i
        BY <1>3, <2>4, <4>1, FoundOrLost
      <4>3. QED
        BY <2>3, <4>2 DEF Aims
    <3>2. ~Drops(g, x)
      BY <2>3 DEF Drops
    <3>3. QED
      BY <3>1, <3>2
  <2>5. Proceed(t, <<g>>)
    BY <1>4, <2>2
  <2>6. QED
    BY <1>1, <1>2, <2>3, <2>4, <2>5, QuietOne
<1>5. QED
  BY <1>1, <1>3, <1>4 DEF DeleteCluster

LEMMA ClustersOfCleans ==
  ASSUME Tidy, NEW t \in Tasks, ClustersOf(t)
  PROVE  Throw(t) \/ Cleaned(t)
<1>1. PICK f \in Frames : /\ f = Frame(t) /\ f.do = "clustersOf" /\ Runs(t, "clustersOf")
                          /\ f = task[t][1] /\ 1 \in 1 .. Len(task[t])
  BY Running DEF ClustersOf, Tidy, Well
<1>2. UNCHANGED objects /\ raced' = raced /\ f.id \in Ids /\ f.rest \in Seq(Int) /\ "clustersOf" \in Deleting
  BY <1>1, DeletionFrames DEF ClustersOf, Leftovers, Deleting
<1>3. obj[f.id].kind = "route"
  BY <1>1 DEF Tidy, Well, StackInv, Legal, KindOK
<1>4. ASSUME NEW g, g.do \in {"unlist", "clustersOf"}, g.id = f.id, NEW x
      PROVE  Aims(f, x) => Aims(g, x)
  BY <1>1, <1>4 DEF Aims, Deletes
<1>5. CASE f.rest = <<>>
  <2>1. PICK u \in Frames : u = Unlisting(f.id, TRUE)
    BY <1>2, NewFrames DEF Unlisting
  <2>2. u.do = "unlist" /\ u.id = f.id /\ u.do \in Deleting /\ u.do \in BelowRuleList
    BY <2>1 DEF Unlisting, Deleting, Leftovers, BelowRuleList
  <2>3. Proceed(t, <<u>>)
    BY <1>1, <1>5, <2>1 DEF ClustersOf
  <2>4. ASSUME NEW x \in listed, obj[x].auto, Drops(u, x) PROVE Lost(x)
    <3>1. Drops(f, x)
      BY <1>1, <1>5, <2>2, <2>4, NoElement DEF Drops
    <3>2. QED
      BY <1>1, <2>4, <3>1, NothingDropped
  <2>5. QED
    <3>1. \A x : Aims(Frame(t), x) => Aims(u, x)
      BY <1>1, <1>4, <2>2
    <3>2. QED
      BY <1>1, <1>2, <2>2, <2>3, <2>4, <3>1, QuietOne
<1>6. CASE f.rest # <<>>
  <2>1. PICK g \in Frames : g = [f EXCEPT !.rest = Tail(@)] /\ g.do = "clustersOf" /\ g.id = f.id
                            /\ g.rest = Tail(f.rest)
    BY <1>1, <1>6, NextFrames
  <2>2. g.do \in Deleting /\ g.do \in BelowRuleList /\ g.do \notin Targets /\ g.do # "removeRule"
    BY <2>1 DEF Deleting, Leftovers, BelowRuleList, Targets
  <2>3. ASSUME NEW x \in listed, obj[x].auto, Drops(g, x)
        PROVE  \/ Lost(x)
               \/ /\ obj[x].kind = "cluster" /\ obj[x].name = Head(f.rest)
                  /\ Implicit("cluster", Head(f.rest))
    <3>1. Owns(f.id, obj[x].kind, obj[x].name) /\ obj[x].name \notin Elements(Tail(f.rest))
      BY <2>1, <2>3 DEF Drops
    <3>2. obj[x].kind = "cluster"
      BY <1>3, <3>1 DEF Owns, OwnerOf
    <3>3. CASE obj[x].name \notin Elements(f.rest)
      <4>1. Drops(f, x)
        BY <1>1, <3>1, <3>3 DEF Drops
      <4>2. QED
        BY <1>1, <2>3, <4>1, NothingDropped
    <3>4. CASE obj[x].name \in Elements(f.rest)
      <4>1. obj[x].name = Head(f.rest)
        BY <1>2, <1>6, <3>1, <3>4, HeadOrTail
      <4>2. Implicit("cluster", obj[x].name)
        BY <2>3, <3>2, FoundOrLost DEF Implicit
      <4>3. QED
        BY <3>2, <4>1, <4>2
    <3>5. QED
      BY <3>3, <3>4
  <2>3a. ASSUME NEW x PROVE Aims(Frame(t), x) => Aims(g, x)
    <3>1. Aims(f, x) => Aims(g, x)
      <4>1. g.do = "clustersOf" /\ g.id = f.id
        BY <2>1
      <4>2. QED
        BY <1>4, <4>1
    <3>2. QED
      BY <1>1, <3>1
  <2>4. CASE Implicit("cluster", Head(f.rest))
    <3>1. PICK d \in Frames : d = [do |-> "deleteCluster", name |-> Head(f.rest), rec |-> TRUE]
      BY <2>4, ImplicitStays, NewFrames DEF Targets, Tidy, Well
    <3>2. Proceed(t, <<d, g>>)
      BY <1>1, <1>6, <2>1, <2>4, <3>1 DEF ClustersOf
    <3>3. d.do = "deleteCluster" /\ d.do \in Deleting /\ d.do \in BelowRuleList
      BY <3>1 DEF Deleting, Targets, BelowRuleList
    <3>4. ASSUME NEW x \in listed, obj[x].auto
          PROVE  ~Drops(d, x) /\ (Drops(g, x) => Lost(x) \/ Aims(d, x))
      <4>1. ~Drops(d, x)
        BY <3>3 DEF Drops
      <4>2. obj[x].kind = "cluster" /\ obj[x].name = Head(f.rest) => Aims(d, x)
        BY <3>1 DEF Aims, Deletes
      <4>3. QED
        BY <2>3, <3>4, <4>1, <4>2
    <3>5. QED
      BY <1>1, <1>2, <2>2, <2>3a, <3>2, <3>3, <3>4, QuietTwo
  <2>5. CASE ~Implicit("cluster", Head(f.rest))
    <3>1. Proceed(t, <<g>>)
      BY <1>1, <1>6, <2>1, <2>5 DEF ClustersOf
    <3>2. \A x \in listed : obj[x].auto => (Drops(g, x) => Lost(x))
      BY <2>3, <2>5
    <3>3. QED
      BY <1>1, <1>2, <2>2, <2>3a, <3>1, <3>2, QuietOne
  <2>6. QED
    BY <2>4, <2>5
<1>7. QED
  BY <1>5, <1>6

\* An object changes to fewer references, outside of what goes on below a rulelist.
LEMMA ReferShrinks ==
  ASSUME Tidy, NEW t \in Tasks, raced' = raced, Frame(t).do \notin BelowRuleList,
         NEW i \in Ids, NEW refs \in Seq(Int), Refer(i, refs), Elements(refs) \subseteq Elements(obj[i].refs)
  PROVE  /\ Shrinks(t) /\ listed' = listed
         /\ obj'[i].refs = refs /\ \A j \in 1 .. made : j # i => obj'[j] = obj[j]
<1>1. obj \in [Ids -> Objects] /\ obj' = [obj EXCEPT ![i].refs = refs] /\ listed' = listed
  BY DEF Refer, Tidy, Well, TypeOK
<1>2. obj'[i].refs = refs
  BY <1>1 DEF Objects
<1>3. \A j \in 1 .. made : j # i => obj'[j] = obj[j]
  <2>1. 1 .. made \subseteq Ids
    BY MadeAreIds, TypeParts DEF Tidy, Well
  <2>2. QED
    BY <1>1, <2>1
<1>4. \A j \in 1 .. made : Elements(obj'[j].refs) \subseteq Elements(obj[j].refs)
  BY <1>2, <1>3
<1>5. QED
  BY <1>1, <1>2, <1>3, <1>4 DEF Shrinks

LEMMA RulesOfCleans ==
  ASSUME Tidy, NEW t \in Tasks, RulesOf(t)
  PROVE  Throw(t) \/ Cleaned(t)
<1>1. PICK f \in Frames : /\ f = Frame(t) /\ f.do = "rulesOf" /\ Runs(t, "rulesOf")
                          /\ f = task[t][1] /\ 1 \in 1 .. Len(task[t])
  BY Running DEF RulesOf, Tidy, Well
<1>2. /\ raced' = raced /\ f.id \in Ids /\ f.rest \in Seq(Int) /\ obj[f.id].refs \in Seq(Int)
      /\ "rulesOf" \in Deleting /\ "rulesOf" \notin BelowRuleList
  BY <1>1, DeletionFrames DEF RulesOf, Leftovers, Deleting, BelowRuleList, Tidy, Well, TypeOK, Objects
<1>3. obj[f.id].kind = "rulelist"
  BY <1>1 DEF Tidy, Well, StackInv, Legal, KindOK
<1>4. ASSUME NEW g, g.do \in {"unlist", "rulesOf"}, g.id = f.id, NEW x
      PROVE  Aims(f, x) => Aims(g, x)
  BY <1>1, <1>4 DEF Aims, Deletes
<1>5. CASE f.rest = <<>> /\ Proceed(t, <<Unlisting(f.id, TRUE)>>) /\ UNCHANGED objects
  <2>1. PICK u \in Frames : u = Unlisting(f.id, TRUE)
    BY <1>2, NewFrames DEF Unlisting
  <2>2. u.do = "unlist" /\ u.id = f.id /\ u.do \in Deleting
    BY <2>1 DEF Unlisting, Deleting, Leftovers
  <2>3. Proceed(t, <<u>>)
    BY <1>5, <2>1
  <2>4. ASSUME NEW x \in listed, obj[x].auto, Drops(u, x) PROVE Lost(x)
    <3>1. Drops(f, x)
      BY <1>1, <1>5, <2>2, <2>4, NoElement DEF Drops
    <3>2. QED
      BY <1>1, <2>4, <3>1, NothingDropped
  <2>5. ASSUME NEW x PROVE Aims(Frame(t), x) => Aims(u, x)
    <3>1. Aims(f, x) => Aims(u, x)
      BY <1>4, <2>2
    <3>2. QED
      BY <1>1, <3>1
  <2>6. QED
    BY <1>1, <1>2, <1>5, <2>2, <2>3, <2>4, <2>5, QuietOne
<1>6. CASE /\ f.rest # <<>>
           /\ IF Implicit("rule", Head(f.rest))
              THEN Refer(f.id, Without(obj[f.id].refs, Head(f.rest))) ELSE UNCHANGED objects
           /\ Proceed(t, <<[do |-> "deleteRule", name |-> Head(f.rest), rec |-> TRUE],
                           [f EXCEPT !.rest = Tail(@)]>>)
  <2>1. PICK g \in Frames : /\ g = [f EXCEPT !.rest = Tail(@)] /\ g.do = "rulesOf" /\ g.id = f.id
                            /\ g.rest = Tail(f.rest) /\ Head(f.rest) \in Int
    BY <1>1, <1>6, NextFrames
  <2>2. PICK n \in Int : n = Head(f.rest)
    BY <2>1
  <2>3. PICK d \in Frames : d = [do |-> "deleteRule", name |-> n, rec |-> TRUE]
    BY <2>1, NewFrames DEF Targets
  <2>4. Proceed(t, <<d, g>>) /\ strays' = strays
    BY <1>6, <2>1, <2>2, <2>3 DEF Proceed
  <2>5. /\ d.do = "deleteRule" /\ d.name = n /\ d.do \in Deleting /\ d.do \in BelowRuleList
        /\ g.do \in Deleting /\ g.do \notin Targets /\ g.do # "removeRule"
    BY <2>1, <2>3 DEF Deleting, Leftovers, BelowRuleList, Targets
  <2>6. <<d, g>> \in Seq(Frames) /\ Turns(t, <<d, g>>)
    BY <1>1, <1>2, <2>4, <2>5, DeletingFrames, TwoTurn DEF Tidy, Well
  <2>7. PICK refs \in Seq(Int) :
          /\ refs = Without(obj[f.id].refs, n) /\ Elements(refs) \subseteq Elements(obj[f.id].refs)
          /\ Elements(obj[f.id].refs) \ {n} \subseteq Elements(refs)
    BY <1>2, WithoutElement
  <2>8. /\ Shrinks(t) /\ listed' = listed
        /\ \A j \in 1 .. made : \A m \in Elements(obj[j].refs) :
             m \in Elements(obj'[j].refs) \/ (j = f.id /\ m = n)
    <3>1. CASE Refer(f.id, refs)
      <4>1. /\ Shrinks(t) /\ listed' = listed
            /\ obj'[f.id].refs = refs /\ \A j \in 1 .. made : j # f.id => obj'[j] = obj[j]
        BY <1>1, <1>2, <2>7, <3>1, ReferShrinks
      <4>2. QED
        BY <2>7, <4>1
    <3>2. CASE UNCHANGED objects
      BY <1>2, <3>2, QuietDeletion DEF objects
    <3>3. QED
      BY <1>6, <2>2, <2>7, <3>1, <3>2
  <2>9. ASSUME NEW x \in listed, obj[x].kind = "rule", obj[x].name = n PROVE Aims(d, x)
    BY <2>5, <2>9 DEF Aims, Deletes
  <2>10. Kept /\ \A x \in listed : x \in 1 .. made
    BY DEF Tidy, Well, Keeps, TypeOK
  <2>11. f.id \in 1 .. made
    BY <1>2, <1>3 DEF Tidy, Well, TypeOK, Ids
  <2>12. ASSUME NEW x \in listed, obj[x].auto, Drops(g, x)' PROVE Lost(x) \/ Aims(d, x)
    <3>1. Owns(f.id, obj[x].kind, obj[x].name)' /\ obj'[x].name \notin Elements(Tail(f.rest))
      BY <2>1, <2>12 DEF Drops
    <3>2. Owns(f.id, obj[x].kind, obj[x].name) /\ obj[x].name \notin Elements(Tail(f.rest))
      BY <2>8, <2>10, <2>11, <3>1 DEF Owns, Kept, Shrinks
    <3>3. obj[x].kind = "rule"
      BY <1>3, <3>2 DEF Owns, OwnerOf
    <3>4. CASE obj[x].name \notin Elements(f.rest)
      <4>1. Drops(f, x)
        BY <1>1, <3>2, <3>4 DEF Drops
      <4>2. QED
        BY <1>1, <2>12, <4>1, NothingDropped
    <3>5. CASE obj[x].name \in Elements(f.rest)
      <4>1. obj[x].name = Head(f.rest)
        BY <1>2, <1>6, <3>2, <3>5, HeadOrTail
      <4>2. QED
        BY <2>2, <2>9, <3>3, <4>1
    <3>6. QED
      BY <3>4, <3>5
  <2>13. ASSUME NEW x \in listed, obj[x].auto, HasOwner(obj[x].kind, obj[x].name)
         PROVE  Aims(d, x) \/ HasOwner(obj[x].kind, obj[x].name)'
    <3>1. PICK j \in listed : Owns(j, obj[x].kind, obj[x].name)
      BY <2>13 DEF HasOwner
    <3>2. j \in 1 .. made /\ x \in 1 .. made /\ obj[x].name \in Elements(obj[j].refs)
      BY <2>10, <3>1 DEF Owns
    <3>3. CASE obj[x].name \in Elements(obj'[j].refs)
      BY <2>8, <2>10, <3>1, <3>2, <3>3 DEF HasOwner, Owns, Kept
    <3>4. CASE j = f.id /\ obj[x].name = n
      <4>1. obj[x].kind = "rule"
        BY <1>3, <3>1, <3>4 DEF Owns, OwnerOf
      <4>2. QED
        BY <2>9, <3>4, <4>1
    <3>5. QED
      BY <2>8, <3>2, <3>3, <3>4
  <2>14. ASSUME NEW x \in listed, obj[x].auto
         PROVE  /\ Aims(Frame(t), x) => Aims(g, x)
                /\ ~(Drops(d, x)')
    <3>1. Aims(f, x) => Aims(g, x)
      <4>1. g.do = "rulesOf" /\ g.id = f.id
        BY <2>1
      <4>2. QED
        BY <1>4, <4>1
    <3>2. ~(Drops(d, x)')
      BY <2>5 DEF Drops
    <3>3. QED
      BY <1>1, <3>1, <3>2
  <2>15. \A x \in listed' : obj[x].auto =>
           /\ Aims(Frame(t), x) => Lost(x) \/ Aims(d, x) \/ Aims(g, x)
           /\ ~(Drops(d, x)')
           /\ Drops(g, x)' => Lost(x) \/ Aims(d, x)
    BY <2>8, <2>12, <2>14
  <2>16. \A x \in listed' : obj[x].auto /\ HasOwner(obj[x].kind, obj[x].name) =>
           Lost(x) \/ Aims(d, x) \/ HasOwner(obj[x].kind, obj[x].name)'
    BY <2>8, <2>13
  <2>17. Frame(t).do \in Deleting
    BY <1>1, <1>2
  <2>18. QED
    BY <2>4, <2>6, <2>8, <2>15, <2>16, <2>17, TwoCleans
<1>7. QED
  BY <1>1, <1>5, <1>6 DEF RulesOf

LEMMA RemovedElements ==
  ASSUME NEW S, NEW s \in Seq(S), NEW pos \in Nat
  PROVE  /\ RemoveAt(s, pos) \in Seq(S)
         /\ Elements(RemoveAt(s, pos)) \subseteq Elements(s)
         /\ \A x \in Elements(s) :
              x \in Elements(RemoveAt(s, pos)) \/ (pos < Len(s) /\ x = s[pos + 1])
<1>1. CASE ~(pos < Len(s))
  BY <1>1 DEF RemoveAt
<1>2. CASE pos < Len(s)
  <2>1. PICK m \in Nat : m = Len(s)
    BY LenProperties
  <2>2. PICK w \in Seq(S) :
          /\ w = RemoveAt(s, pos) /\ Len(w) = m - 1
          /\ \A i \in 1 .. m - 1 : w[i] = IF i <= pos THEN s[i] ELSE s[i + 1]
    <3>1. RemoveAt(s, pos) \in Seq(S)
      BY Removed
    <3>2. PICK w : w = RemoveAt(s, pos)
      OBVIOUS
    <3>3. /\ w \in Seq(S) /\ Len(w) = Len(s) - 1
          /\ \A i \in 1 .. Len(s) - 1 : w[i] = IF i <= pos THEN s[i] ELSE s[i + 1]
      BY <1>2, <3>2, Removed
    <3>4. QED
      BY <2>1, <3>2, <3>3
  <2>3. ASSUME NEW i \in 1 .. m - 1 PROVE w[i] \in Elements(s)
    <3>1. i \in 1 .. m /\ i + 1 \in 1 .. m /\ (w[i] = s[i] \/ w[i] = s[i + 1])
      BY <2>1, <2>2
    <3>2. s[i] \in Elements(s) /\ s[i + 1] \in Elements(s)
      BY <2>1, <3>1, ElementsOf
    <3>3. QED
      BY <3>1, <3>2
  <2>4. Elements(w) \subseteq Elements(s)
    BY <2>2, <2>3, ElementsOf
  <2>5. ASSUME NEW q \in 1 .. m, q # pos + 1 PROVE s[q] \in Elements(w)
    <3>1. CASE q <= pos
      <4>1. q \in 1 .. m - 1 /\ w[q] = s[q]
        BY <1>2, <2>1, <2>2, <3>1
      <4>2. QED
        BY <2>2, <4>1, ElementsOf
    <3>2. CASE ~(q <= pos)
      <4>1. q - 1 \in 1 .. m - 1 /\ ~(q - 1 <= pos) /\ (q - 1) + 1 = q
        BY <2>1, <2>5, <3>2
      <4>2. w[q - 1] = s[q]
        BY <2>2, <4>1
      <4>3. QED
        BY <2>2, <4>1, <4>2, ElementsOf
    <3>3. QED
      BY <3>1, <3>2
  <2>6. ASSUME NEW x \in Elements(s) PROVE x \in Elements(w) \/ x = s[pos + 1]
    <3>1. PICK q \in 1 .. m : s[q] = x
      BY <2>1, ElementsOf
    <3>2. QED
      BY <2>5, <3>1
  <2>7. QED
    BY <1>2, <2>2, <2>4, <2>6
<1>3. QED
  BY <1>1, <1>2

LEMMA DeleteRuleFromRuleListCleans ==
  ASSUME Tidy, NEW t \in Tasks, DeleteRuleFromRuleList(t)
  PROVE  Throw(t) \/ Cleaned(t)
<1>1. PICK f \in Frames : /\ f = Frame(t) /\ f.do = "deleteRuleFromRuleList"
                          /\ Runs(t, "deleteRuleFromRuleList")
  BY Running DEF DeleteRuleFromRuleList, Tidy, Well
<1>2. /\ UNCHANGED objects /\ raced' = raced /\ f.pos \in Nat /\ f.rec \in BOOLEAN
      /\ "deleteRuleFromRuleList" \in Deleting /\ "deleteRuleFromRuleList" \notin BelowRuleList
  BY <1>1, DeletionFrames DEF DeleteRuleFromRuleList, Deleting, BelowRuleList
<1>3. ASSUME NEW x PROVE ~Aims(Frame(t), x)
  BY <1>1 DEF Aims, Deletes
<1>4. PICK i : i = The("rulelist", f.name)
  OBVIOUS
<1>5. PICK n : n = Len(obj[i].refs)
  OBVIOUS
<1>6. CASE ~Defined("rulelist", f.name) \/ f.pos > n \/ (f.rec /\ f.pos = n)
  BY <1>1, <1>4, <1>5, <1>6 DEF DeleteRuleFromRuleList
<1>7. CASE ~(~Defined("rulelist", f.name) \/ f.pos > n \/ (f.rec /\ f.pos = n))
  <2>1. i \in Ids /\ obj[i].refs \in Seq(Int) /\ n \in Nat
    BY <1>4, <1>5, <1>7, TheIsNamed, LenProperties DEF TypeOK, Objects, Tidy, Well
  <2>2. PICK r \in Frames : r = [do |-> "removeRule", id |-> i, pos |-> f.pos, rec |-> f.rec]
    BY <1>2, <2>1, NewFrames
  <2>3. /\ r.do = "removeRule" /\ r.id = i /\ r.pos = f.pos /\ r.rec = f.rec
        /\ r.do \in Deleting /\ r.do \notin Targets
    BY <2>2 DEF Deleting, Leftovers, Targets
  <2>4. CASE f.rec
    <3>1. f.pos + 1 \in 1 .. n
      BY <1>2, <1>7, <2>1, <2>4
    <3>2. obj[i].refs[f.pos + 1] \in Int
      BY <1>5, <2>1, <3>1, ElementOfSeq
    <3>3. PICK d \in Frames :
            d = [do |-> "deleteRule", name |-> obj[i].refs[f.pos + 1], rec |-> TRUE]
      BY <3>2, NewFrames DEF Targets
    <3>4. Proceed(t, <<d, r>>)
      BY <1>1, <1>4, <1>5, <1>7, <2>2, <2>4, <3>3 DEF DeleteRuleFromRuleList
    <3>5. /\ d.do = "deleteRule" /\ d.name = obj[i].refs[f.pos + 1]
          /\ d.do \in Deleting /\ d.do \in BelowRuleList
      BY <3>3 DEF Deleting, Targets, BelowRuleList
    <3>6. ASSUME NEW x \in listed PROVE ~Drops(d, x) /\ (Drops(r, x) => Aims(d, x))
      BY <2>3, <3>5 DEF Drops, Aims, Deletes
    <3>7. QED
      BY <1>1, <1>2, <1>3, <2>3, <3>4, <3>5, <3>6, QuietTwo
  <2>5. CASE ~f.rec
    <3>1. Proceed(t, <<r>>)
      BY <1>1, <1>4, <1>5, <1>7, <2>2, <2>5 DEF DeleteRuleFromRuleList
    <3>2. ASSUME NEW x \in listed PROVE ~Drops(r, x)
      BY <2>3, <2>5 DEF Drops
    <3>3. QED
      BY <1>1, <1>2, <1>3, <2>3, <3>1, <3>2, QuietOne
  <2>6. QED
    BY <2>4, <2>5
<1>8. QED
  BY <1>6, <1>7

LEMMA RemoveRuleCleans ==
  ASSUME Tidy, NEW t \in Tasks, RemoveRule(t)
  PROVE  Cleaned(t)
<1>1. PICK f \in Frames : f = Frame(t) /\ f.do = "removeRule" /\ Runs(t, "removeRule")
                          /\ f = task[t][1] /\ 1 \in 1 .. Len(task[t])
  BY Running DEF RemoveRule, Tidy, Well
<1>2. /\ f.id \in Ids /\ f.pos \in Nat /\ f.rec \in BOOLEAN /\ raced' = raced
      /\ f.do \in Deleting /\ f.do \notin BelowRuleList
  BY <1>1, DeletionFrames DEF RemoveRule, Deleting, Leftovers, BelowRuleList
<1>3. obj[f.id].kind = "rulelist"
  BY <1>1 DEF Tidy, Well, StackInv, Legal, KindOK
<1>4. PICK s \in Seq(Int) : s = obj[f.id].refs
  BY <1>2 DEF Tidy, Well, TypeOK, Objects
<1>5. PICK refs \in Seq(Int) :
        /\ refs = RemoveAt(s, f.pos) /\ Elements(refs) \subseteq Elements(s)
        /\ \A x \in Elements(s) : x \in Elements(refs) \/ (f.pos < Len(s) /\ x = s[f.pos + 1])
  BY <1>2, RemovedElements
<1>6. Refer(f.id, refs) /\ Continue(t, <<>>, Same(t, <<>>))
  BY <1>1, <1>4, <1>5 DEF RemoveRule
<1>7. /\ Shrinks(t) /\ listed' = listed
      /\ obj'[f.id].refs = refs /\ \A j \in 1 .. made : j # f.id => obj'[j] = obj[j]
  BY <1>1, <1>2, <1>4, <1>5, <1>6, ReferShrinks
<1>8. <<>> \in Seq(Frames) /\ Turns(t, <<>>)
  BY <1>1, <1>6, NoTurn DEF Tidy, Well
<1>9. \A x \in listed' : obj[x].auto /\ Aims(Frame(t), x) => Lost(x)
  BY <1>1 DEF Aims, Deletes
<1>10. Kept /\ \A x \in listed : x \in 1 .. made
  BY DEF Tidy, Well, Keeps, TypeOK
<1>11. ASSUME f.rec, NEW x \in listed, obj[x].auto, HasOwner(obj[x].kind, obj[x].name)
       PROVE  Lost(x) \/ HasOwner(obj[x].kind, obj[x].name)'
  <2>1. PICK j \in listed : Owns(j, obj[x].kind, obj[x].name)
    BY <1>11 DEF HasOwner
  <2>2. j \in 1 .. made /\ x \in 1 .. made /\ obj[x].name \in Elements(obj[j].refs)
    BY <1>10, <2>1 DEF Owns
  <2>3. CASE obj[x].name \in Elements(obj'[j].refs)
    BY <1>7, <1>10, <2>1, <2>2, <2>3 DEF HasOwner, Owns, Kept
  <2>4. CASE j = f.id /\ f.pos < Len(s) /\ obj[x].name = s[f.pos + 1]
    <3>1. obj[x].kind = "rule"
      BY <1>3, <2>1, <2>4 DEF Owns, OwnerOf
    <3>2. Drops(f, x)
      BY <1>1, <1>4, <1>11, <2>4, <3>1 DEF Drops
    <3>3. QED
      BY <1>1, <1>11, <3>2, NothingDropped
  <2>5. QED
    BY <1>4, <1>5, <1>7, <2>2, <2>3, <2>4
<1>12. \/ LeavesStrays
       \/ /\ strays' = strays
          /\ \A x \in listed' : obj[x].auto /\ HasOwner(obj[x].kind, obj[x].name) =>
               Lost(x) \/ HasOwner(obj[x].kind, obj[x].name)'
  <2>1. IF f.rec THEN strays' = strays ELSE LeavesStrays
    BY <1>1 DEF RemoveRule
  <2>2. QED
    BY <1>7, <1>11, <2>1
<1>13. QED
  BY <1>1, <1>2, <1>7, <1>8, <1>9, <1>12, NoneCleans

LEMMA UnlistCleans ==
  ASSUME Tidy, NEW t \in Tasks, Unlist(t)
  PROVE  Cleaned(t)
<1>1. PICK f \in Frames : f = Frame(t) /\ f.do = "unlist" /\ Runs(t, "unlist")
                          /\ f = task[t][1] /\ 1 \in 1 .. Len(task[t])
  BY Running DEF Unlist, Tidy, Well
<1>2. raced' = raced /\ obj' = obj /\ listed' = listed \ {f.id} /\ f.do \in Deleting
  BY <1>1 DEF Unlist, Deleting, Leftovers
<1>3. Shrinks(t)
  BY <1>2 DEF Shrinks
<1>4. <<>> \in Seq(Frames) /\ Turns(t, <<>>)
  <2>1. Continue(t, <<>>, Same(t, <<>>))
    BY DEF Unlist
  <2>2. QED
    BY <1>1, <2>1, NoTurn DEF Tidy, Well
<1>5. \A x \in listed' : obj[x].auto /\ Aims(Frame(t), x) => Lost(x)
  BY <1>1, <1>2 DEF Aims, Deletes
<1>6. ASSUME f.rec, NEW x \in listed, obj[x].auto, HasOwner(obj[x].kind, obj[x].name)
      PROVE  Lost(x) \/ HasOwner(obj[x].kind, obj[x].name)'
  <2>1. PICK j \in listed : Owns(j, obj[x].kind, obj[x].name)
    BY <1>6 DEF HasOwner
  <2>2. CASE j # f.id
    BY <1>2, <2>1, <2>2 DEF HasOwner, Owns
  <2>3. CASE j = f.id
    <3>1. Drops(f, x)
      BY <1>1, <1>6, <2>1, <2>3 DEF Drops
    <3>2. QED
      BY <1>1, <1>6, <3>1, NothingDropped
  <2>4. QED
    BY <2>2, <2>3
<1>7. \/ LeavesStrays
      \/ /\ strays' = strays
         /\ \A x \in listed' : obj[x].auto /\ HasOwner(obj[x].kind, obj[x].name) =>
              Lost(x) \/ HasOwner(obj[x].kind, obj[x].name)'
  <2>1. IF f.rec THEN strays' = strays ELSE LeavesStrays
    BY <1>1 DEF Unlist
  <2>2. QED
    BY <1>2, <1>6, <2>1
<1>8. QED
  BY <1>1, <1>2, <1>3, <1>4, <1>5, <1>7, NoneCleans

\* Endpoints leave, and what they leave owns nothing.
LEMMA LeavingShrinks ==
  ASSUME Tidy, NEW t \in Tasks, raced' = raced, NEW n, Defined("endpoint", n), LeaveEndPoint(n)
  PROVE  /\ Shrinks(t) /\ listed' \subseteq listed
         /\ \A k, m : HasOwner(k, m) => HasOwner(k, m)'
<1>1. PICK e, c \in listed : Departs(n, e, c)
  BY Leaving DEF Tidy, Well
<1>2. /\ listed' = listed \ {e} /\ obj[e].kind = "endpoint" /\ obj[c].kind = "cluster"
      /\ obj[c].refs \in Seq(Int)
  BY <1>1 DEF Departs
<1>3. PICK refs \in Seq(Int) :
        refs = Without(obj[c].refs, n) /\ Elements(refs) \subseteq Elements(obj[c].refs)
  BY <1>2, WithoutElement
<1>4. 1 .. made \subseteq Ids /\ listed \subseteq 1 .. made /\ obj \in [Ids -> Objects]
  BY MadeAreIds, TypeParts DEF Tidy, Well, TypeOK
<1>5. obj[c] \in Objects
  BY <1>4
<1>6. obj'[c].refs = refs
  BY <1>1, <1>3, <1>5 DEF Departs, Objects
<1>7. \A j \in 1 .. made : j # c => obj'[j] = obj[j]
  BY <1>1, <1>4 DEF Departs
<1>8. Shrinks(t)
  BY <1>2, <1>3, <1>6, <1>7 DEF Shrinks
<1>9. ASSUME NEW k, NEW m, HasOwner(k, m) PROVE HasOwner(k, m)'
  <2>1. PICK j \in listed : Owns(j, k, m)
    BY <1>9 DEF HasOwner
  <2>2. j # c /\ j # e
    BY <1>2, <2>1 DEF Owns, OwnerOf
  <2>3. j \in listed' /\ obj'[j] = obj[j]
    BY <1>2, <1>4, <1>7, <2>2
  <2>4. QED
    BY <2>1, <2>3 DEF HasOwner, Owns
<1>10. QED
  BY <1>2, <1>8, <1>9

LEMMA EndPointsOfCleans ==
  ASSUME Tidy, NEW t \in Tasks, EndPointsOf(t)
  PROVE  Throw(t) \/ Cleaned(t)
<1>1. PICK f \in Frames : /\ f = Frame(t) /\ f.do = "endpointsOf" /\ Runs(t, "endpointsOf")
                          /\ f = task[t][1] /\ 1 \in 1 .. Len(task[t])
  BY Running DEF EndPointsOf, Tidy, Well
<1>2. /\ raced' = raced /\ f.id \in Ids /\ f.rec \in BOOLEAN
      /\ "endpointsOf" \in Deleting
  BY <1>1, DeletionFrames DEF EndPointsOf, Leftovers, Deleting
<1>3. obj[f.id].kind = "cluster"
  BY <1>1 DEF Tidy, Well, StackInv, Legal, KindOK
<1>4. ASSUME NEW g, g.do \in {"unlist", "endpointsOf"}, g.id = f.id, NEW x
      PROVE  Aims(Frame(t), x) => Aims(g, x)
  BY <1>1, <1>4 DEF Aims, Deletes
<1>5. CASE f.rest = <<>> /\ Proceed(t, <<Unlisting(f.id, f.rec)>>) /\ UNCHANGED objects
  <2>1. PICK u \in Frames : u = Unlisting(f.id, f.rec)
    BY <1>2, NewFrames DEF Unlisting
  <2>2. u.do = "unlist" /\ u.id = f.id /\ u.do \in Deleting /\ u.do \in BelowRuleList
    BY <2>1 DEF Unlisting, Deleting, Leftovers, BelowRuleList
  <2>3. Proceed(t, <<u>>)
    BY <1>5, <2>1
  <2>4. ASSUME NEW x PROVE ~Drops(u, x)
    BY <1>3, <2>2 DEF Drops, Owns, OwnerOf
  <2>5. ASSUME NEW x PROVE Aims(Frame(t), x) => Aims(u, x)
    BY <1>4, <2>2
  <2>6. QED
    BY <1>1, <1>2, <1>5, <2>2, <2>3, <2>4, <2>5, QuietOne
<1>6. CASE /\ f.rest # <<>> /\ Defined("endpoint", Head(f.rest)) /\ LeaveEndPoint(Head(f.rest))
           /\ Proceed(t, <<[f EXCEPT !.rest = Tail(@)]>>)
  <2>1. PICK g \in Frames : g = [f EXCEPT !.rest = Tail(@)] /\ g.do = f.do /\ g.id = f.id
    BY <1>1, <1>6, NextFrames
  <2>2. Proceed(t, <<g>>)
    BY <1>6, <2>1
  <2>3. g.do = "endpointsOf" /\ g.id = f.id
    BY <1>1, <2>1
  <2>4. g.do \in Deleting /\ g.do \in BelowRuleList
    BY <2>3 DEF Deleting, Leftovers, BelowRuleList
  <2>5. <<g>> \in Seq(Frames) /\ Turns(t, <<g>>)
    BY <1>1, <1>2, <2>2, <2>4, DeletingFrames, OneTurn DEF Tidy, Well
  <2>6. /\ Shrinks(t) /\ listed' \subseteq listed
        /\ \A k, m : HasOwner(k, m) => HasOwner(k, m)'
    BY <1>2, <1>6, LeavingShrinks
  <2>7. ASSUME NEW x \in listed'
        PROVE  (Aims(Frame(t), x) => Aims(g, x)) /\ ~(Drops(g, x)')
    <3>1. Aims(Frame(t), x) => Aims(g, x)
      BY <1>4, <2>3
    <3>2. ~(Drops(g, x)')
      BY <2>3 DEF Drops
    <3>3. QED
      BY <3>1, <3>2
  <2>8. \A x \in listed' : obj[x].auto /\ HasOwner(obj[x].kind, obj[x].name) =>
          Lost(x) \/ Aims(g, x) \/ HasOwner(obj[x].kind, obj[x].name)'
    <3>1. SUFFICES ASSUME NEW x \in listed', HasOwner(obj[x].kind, obj[x].name)
                   PROVE  HasOwner(obj[x].kind, obj[x].name)'
      OBVIOUS
    <3>2. Kept /\ x \in 1 .. made
      BY <2>6 DEF Tidy, Well, Keeps, TypeOK
    <3>3. PICK k, m : k = obj[x].kind /\ m = obj[x].name /\ k = obj'[x].kind /\ m = obj'[x].name
      BY <3>2 DEF Kept
    <3>4. HasOwner(k, m)'
      BY <2>6, <3>1, <3>3
    <3>5. QED
      BY <3>3, <3>4
  <2>9. strays' = strays /\ Frame(t).do \in Deleting
    BY <1>1, <1>2, <2>2 DEF Proceed
  <2>10. \A x \in listed' : obj[x].auto =>
           /\ Aims(Frame(t), x) => Lost(x) \/ Aims(g, x)
           /\ Drops(g, x)' => Lost(x)
    BY <2>7
  <2>11. QED
    BY <2>5, <2>6, <2>8, <2>9, <2>10, OneCleans
<1>7. QED
  BY <1>1, <1>5, <1>6 DEF EndPointsOf, DropEndPoint

LEMMA DeleteEndPointCleans ==
  ASSUME Tidy, NEW t \in Tasks, DeleteEndPoint(t)
  PROVE  Throw(t) \/ Cleaned(t)
<1>1. PICK f \in Frames : f = Frame(t) /\ f.do = "deleteEndPoint" /\ Runs(t, "deleteEndPoint")
  BY Running DEF DeleteEndPoint, Tidy, Well
<1>2. raced' = raced /\ f.do \in Deleting
  BY <1>1 DEF DeleteEndPoint, Targets, Deleting
<1>3. CASE Defined("endpoint", f.name) /\ LeaveEndPoint(f.name) /\ Proceed(t, <<>>)
  <2>1. <<>> \in Seq(Frames) /\ Turns(t, <<>>)
    BY <1>1, <1>3, NoTurn DEF Tidy, Well
  <2>2. /\ Shrinks(t) /\ listed' \subseteq listed
        /\ \A k, m : HasOwner(k, m) => HasOwner(k, m)'
    BY <1>2, <1>3, LeavingShrinks
  <2>3. ASSUME NEW x \in listed', obj[x].auto PROVE ~Aims(Frame(t), x)
    <3>1. x \in 1 .. made
      BY <2>2 DEF Tidy, Well, TypeOK
    <3>2. obj[x].kind # "endpoint"
      BY <2>3, <3>1 DEF Tidy, Well, RefsInv
    <3>3. QED
      BY <1>1, <3>2 DEF Aims, Deletes
  <2>4. \A x \in listed' : obj[x].auto /\ HasOwner(obj[x].kind, obj[x].name) =>
          Lost(x) \/ HasOwner(obj[x].kind, obj[x].name)'
    <3>1. SUFFICES ASSUME NEW x \in listed', HasOwner(obj[x].kind, obj[x].name)
                   PROVE  HasOwner(obj[x].kind, obj[x].name)'
      OBVIOUS
    <3>2. Kept /\ x \in 1 .. made
      BY <2>2 DEF Tidy, Well, Keeps, TypeOK
    <3>3. PICK k, m : k = obj[x].kind /\ m = obj[x].name /\ k = obj'[x].kind /\ m = obj'[x].name
      BY <3>2 DEF Kept
    <3>4. HasOwner(k, m)'
      BY <2>2, <3>1, <3>3
    <3>5. QED
      BY <3>3, <3>4
  <2>5. strays' = strays
    BY <1>3 DEF Proceed
  <2>6. QED
    BY <1>1, <1>2, <2>1, <2>2, <2>3, <2>4, <2>5, NoneCleans
<1>4. QED
  BY <1>1, <1>3 DEF DeleteEndPoint, DropEndPoint

LEMMA DeleteCleans ==
  ASSUME Tidy, NEW t \in Tasks, Delete(t)
  PROVE  Throw(t) \/ Cleaned(t)
<1>1. Rethrow(t) => Throw(t)
  BY DEF Rethrow, Fails
<1>2. QED
  BY <1>1, DeleteListenerCleans, DeleteRuleListCleans, RulesOfCleans, DeleteRuleFromRuleListCleans,
     RemoveRuleCleans, DeleteRuleCleans, DeleteRouteCleans, ClustersOfCleans, DeleteClusterCleans,
     EndPointsOfCleans, DeleteEndPointCleans, UnlistCleans DEF Delete

-----------------------------------------------------------------------------
(* Every step keeps what is known of owners.                               *)

OwnersInv == OrderInv /\ BindingInv /\ RefsInv /\ EmptiedInv /\ OrphansInv

LEMMA RacedGrows ==
  ASSUME NEW t, Call(t) \/ Add(t) \/ Delete(t)
  PROVE  raced \subseteq raced'
<1>1. CASE Call(t)
  BY <1>1 DEF Call
<1>2. CASE Add(t)
  BY <1>2 DEF Add, AddListener, PushListener, RunListener, AddRuleList, FillRuleList, AddRuleToRuleList,
     AddRuleTo, InsertRule, AddRule, BindRoute, AddRoute, FillRoute, AddCluster, FillCluster, RunCluster,
     AddEndPoint, Fails, Race
<1>3. CASE Delete(t)
  BY <1>3 DEF Delete, DeleteListener, DeleteRuleList, RulesOf, DeleteRuleFromRuleList, RemoveRule,
     DeleteRule, DeleteRoute, ClustersOf, DeleteCluster, EndPointsOf, DeleteEndPoint, Unlist, Rethrow,
     Fails
<1>4. QED
  BY <1>1, <1>2, <1>3

LEMMA TurnOfStep ==
  ASSUME NEW t, Add(t) \/ Delete(t)
  PROVE  turn \in {NoTask, t}
<1>1. CASE Add(t)
  BY <1>1 DEF Add, AddListener, PushListener, RunListener, AddRuleList, FillRuleList, AddRuleToRuleList,
     AddRuleTo, InsertRule, AddRule, BindRoute, AddRoute, FillRoute, AddCluster, FillCluster, RunCluster,
     AddEndPoint, Runs
<1>2. CASE Delete(t)
  BY <1>2 DEF Delete, DeleteListener, DeleteRuleList, RulesOf, DeleteRuleFromRuleList, RemoveRule,
     DeleteRule, DeleteRoute, ClustersOf, DeleteCluster, EndPointsOf, DeleteEndPoint, Unlist, Rethrow,
     Runs
<1>3. QED
  BY <1>1, <1>2

LEMMA SameOrder ==
  ASSUME OrderInv, BindingInv, UNCHANGED <<objects, task, turn>>
  PROVE  OrderInv' /\ BindingInv'
<1>1. UNCHANGED <<obj, task, turn>>
  BY DEF objects
<1>2. OrderInv'
  BY <1>1 DEF OrderInv, OrderOK, LinkOK
<1>3. BindingInv'
  BY <1>1 DEF BindingInv, Binding
<1>4. QED
  BY <1>2, <1>3

LEMMA OwnersAfter ==
  ASSUME IInv, OwnersInv, NEW t \in Tasks, Call(t) \/ Add(t) \/ Delete(t)
  PROVE  OwnersInv'
<1>1. TypeOK /\ StackInv /\ UniqueNames /\ MembersInv
  BY DEF IInv
<1>2. OrderInv /\ BindingInv /\ RefsInv /\ EmptiedInv /\ OrphansInv
  BY DEF OwnersInv
<1>3. Keeps /\ Effect(t)
  BY <1>1, NextKeeps, StepEffect DEF Next
<1>4. RefsInv'
  BY <1>1, <1>2, <1>3, RefsAfter
<1>5. Well /\ Tidy
  BY <1>1, <1>2, <1>3, <1>4 DEF Well, Tidy
<1>6. CASE Restarts(t) /\ OrphansInv'
  <2>1. OrderInv'
    BY <1>1, <1>2, <1>6, OrderRestart DEF Restarts
  <2>2. BindingInv'
    BY <1>1, <1>2, <1>3, <1>6, BindingRestart DEF Restarts
  <2>3. EmptiedInv'
    BY <1>5, <1>6, EmptiedByRestart
  <2>4. QED
    BY <1>4, <1>6, <2>1, <2>2, <2>3 DEF OwnersInv
<1>7. CASE Call(t)
  <2>1. OrphansInv'
    BY <1>2, <1>5, <1>7, OrphansByCall
  <2>2. Restarts(t)
    <3>1. PICK r \in Requests : task' = [task EXCEPT ![t] = <<r>>]
      BY <1>7 DEF Call
    <3>2. task'[t] = <<r>> /\ \A u \in Tasks : u # t => task'[u] = task[u]
      BY <1>1, <3>1 DEF TypeOK
    <3>3. r \in Asked
      BY RegistryAssumption
    <3>4. turn = NoTask
      BY <1>7 DEF Call
    <3>5. QED
      BY <3>2, <3>3, <3>4 DEF Restarts
  <2>3. QED
    BY <1>6, <2>1, <2>2
<1>8. CASE (Add(t) \/ Delete(t)) /\ Throw(t)
  <2>1. turn \in {NoTask, t}
    BY <1>8, TurnOfStep
  <2>2. LeavesStrays
    BY <1>8 DEF Throw
  <2>3. Restarts(t)
    BY <1>1, <1>8, <2>1 DEF Throw, Restarts, TypeOK
  <2>4. OrphansInv'
    BY <1>5, <2>2, OrphansByError
  <2>5. QED
    BY <1>6, <2>3, <2>4
<1>9. CASE Stops
  BY <1>2, <1>4, <1>5, <1>9, SameOrder, SameOwners DEF Stops, OwnersInv
<1>10. CASE (Add(t) \/ Delete(t)) /\ Builds(t)
  <2>1. PICK xs \in Seq(Frames) : Turns(t, xs)
    BY <1>10 DEF Builds
  <2>2. OrderInv'
    BY <1>1, <1>2, <2>1, OrderAfter
  <2>3. BindingInv'
    BY <1>1, <1>2, <1>3, <2>1, BindingAfter
  <2>4. EmptiedInv'
    BY <1>5, <1>10, EmptiedByAddition
  <2>5. raced \subseteq raced' /\ turn \in {NoTask, t}
    BY <1>10, RacedGrows, TurnOfStep
  <2>6. OrphansInv'
    BY <1>2, <1>5, <1>10, <2>5, OrphansByAddition DEF Builds
  <2>7. QED
    BY <1>4, <2>2, <2>3, <2>4, <2>6 DEF OwnersInv
<1>11. CASE Cleaned(t)
  <2>1. PICK xs \in Seq(Frames) : Turns(t, xs) /\ Cleans(t, xs)
    BY <1>11 DEF Cleaned
  <2>2. OrderInv'
    BY <1>1, <1>2, <2>1, OrderAfter
  <2>3. BindingInv'
    BY <1>1, <1>2, <1>3, <2>1, BindingAfter
  <2>4. EmptiedInv'
    BY <1>2, <1>5, <2>1, EmptiedByDeletion
  <2>5. OrphansInv'
    BY <1>2, <1>5, <2>1, OrphansByDeletion
  <2>6. QED
    BY <1>4, <2>2, <2>3, <2>4, <2>5 DEF OwnersInv
<1>12. Add(t) => Throw(t) \/ Stops \/ Builds(t)
  BY <1>5, AddBuilds
<1>13. Delete(t) => Throw(t) \/ Cleaned(t)
  BY <1>5, DeleteCleans
<1>14. QED
  BY <1>7, <1>8, <1>9, <1>10, <1>11, <1>12, <1>13

LEMMA NextOwners ==
  ASSUME IInv, OwnersInv, [Next]_vars
  PROVE  OwnersInv'
<1>1. CASE Next
  BY <1>1, OwnersAfter DEF Next
<1>2. CASE UNCHANGED vars
  <2>1. UNCHANGED <<made, obj, listed, task, turn, raced, strays>>
    BY <1>2 DEF vars
  <2>2. OrderInv' /\ BindingInv'
    BY <2>1, SameOrder DEF OwnersInv, objects
  <2>3. RefsInv'
    BY <2>1 DEF OwnersInv, RefsInv
  <2>4. Well
    <3>1. TypeOK' /\ StackInv'
      BY <1>2, StutterInv DEF IInv
    <3>2. Kept
      BY <2>1 DEF Kept
    <3>3. QED
      BY <2>3, <3>1, <3>2 DEF Well, Keeps, IInv, OwnersInv
  <2>5. EmptiedInv' /\ OrphansInv'
    BY <2>1, <2>4, SameOwners DEF OwnersInv, objects
  <2>6. QED
    BY <2>2, <2>3, <2>5 DEF OwnersInv
<1>3. QED
  BY <1>1, <1>2

LEMMA InitOwners == Init => OwnersInv
<1> SUFFICES ASSUME Init PROVE OwnersInv
  OBVIOUS
<1>1. listed = {} /\ made = 0 /\ turn = NoTask
  BY DEF Init
<1>2. \A t \in Tasks : task[t] = <<>>
  BY DEF Init
<1>3. \A t \in Tasks : \A p : p \notin 1 .. Len(task[t])
  BY <1>2
<1>4. OrderInv /\ BindingInv /\ EmptiedInv
  BY <1>3 DEF OrderInv, BindingInv, Binding, EmptiedInv
<1>5. RefsInv /\ OrphansInv
  BY <1>1 DEF RefsInv, OrphansInv, Orphans
<1>6. QED
  BY <1>4, <1>5 DEF OwnersInv

\* At rest, every autogenerated object that has no owner was left behind: by an operation
\* that failed, by a deletion of its owner alone, by a deletion that overtook its addition,
\* or behind an object of the same name.  The recursive deletions (deleteListener,
\* deleteRuleList, deleteRule, deleteRoute, deleteRuleFromRuleList) leave nothing behind, in
\* whatever order they and the additions take turns at the awaits.
THEOREM OwnersAlwaysKnown == Spec => []OwnersKnown
<1>1. OwnersInv => OwnersKnown
  BY RegistryAssumption DEF OwnersInv, OrphansInv, OwnersKnown, Lost
<1>2. QED
  BY <1>1, InitInv, NextInv, InitOwners, NextOwners, PTL DEF Spec
=============================================================================
