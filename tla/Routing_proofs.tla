----------------------------- MODULE Routing_proofs -----------------------------
(* Proofs about Routing, for any rulelists, metadata, sessions and endpoints.  *)
EXTENDS Routing, TLAPS, SequenceTheorems, FiniteSetTheorems, WellFoundedInduction

-----------------------------------------------------------------------------
(* Numbers.                                                                *)

LEMMA LeastNumber ==
  ASSUME NEW S \in SUBSET Nat, S # {}
  PROVE  \E x \in S : \A y \in S : x <= y
<1>1. \E x \in S : \A y \in S : ~(<<y, x>> \in OpToRel(<, Nat))
  BY NatLessThanWellFounded, WFMin
<1>2. \A x, y \in S : ~(<<y, x>> \in OpToRel(<, Nat)) => x <= y
  BY DEF OpToRel
<1>3. QED
  BY <1>1, <1>2

\* Induction up to N.
LEMMA UpTo ==
  ASSUME NEW N \in Nat, NEW S, 0 \in S, \A n \in 0 .. N : n \in S /\ n # N => n + 1 \in S
  PROVE  0 .. N \subseteq S
<1> SUFFICES ASSUME (0 .. N) \ S # {} PROVE FALSE
  OBVIOUS
<1>1. PICK x \in (0 .. N) \ S : \A y \in (0 .. N) \ S : x <= y
  <2>1. (0 .. N) \ S \in SUBSET Nat
    OBVIOUS
  <2>2. QED
    BY <2>1, LeastNumber
<1>2. x # 0 /\ x - 1 \in 0 .. N
  BY <1>1
<1>3. x - 1 \in S
  BY <1>1, <1>2
<1>4. QED
  BY <1>1, <1>2, <1>3

-----------------------------------------------------------------------------
(* The lookup.                                                             *)

\* A lookup with n calls left, given the lookups with one less.
Deeper(f, n, m) == [l \in ListNames |-> IF n = 0 THEN "overflow" ELSE Verdict(l, m, f[n - 1])]

Unfolds(f, n, m) == f = [k \in 0 .. n |-> Deeper(f, k, m)]

\* The recursion of the lookup has a solution at every depth.
LEMMA UnfoldsOnce ==
  ASSUME NEW n \in Nat, NEW f, NEW m, Unfolds(f, n, m)
  PROVE  \E g : Unfolds(g, n + 1, m)
<1> DEFINE g == [k \in 0 .. n + 1 |-> Deeper(f, k, m)]
<1>1. \A k \in 0 .. n : f[k] = Deeper(f, k, m) /\ k \in 0 .. n + 1
  BY DEF Unfolds
<1>2. \A k \in 0 .. n : g[k] = f[k]
  BY <1>1
<1>3. \A k \in 0 .. n + 1 : k # 0 => k - 1 \in 0 .. n
  OBVIOUS
<1>4. ASSUME NEW k \in 0 .. n + 1 PROVE Deeper(f, k, m) = Deeper(g, k, m)
  <2>1. CASE k = 0
    BY <2>1 DEF Deeper
  <2>2. CASE k # 0
    <3>1. f[k - 1] = g[k - 1]
      BY <1>2, <1>3, <2>2
    <3>2. PICK h : h = g
      OBVIOUS
    <3>3. Deeper(f, k, m) = Deeper(h, k, m)
      BY <3>1, <3>2 DEF Deeper
    <3>4. QED
      BY <3>2, <3>3
  <2>3. QED
    BY <2>1, <2>2
<1>5. PICK h : h = g
  OBVIOUS
<1>6. Unfolds(h, n + 1, m)
  BY <1>4, <1>5 DEF Unfolds
<1>7. QED
  BY <1>6

LEMMA LookupsUnfold ==
  ASSUME NEW m
  PROVE  \A n \in 0 .. MaxDepth, l \in ListNames :
           Lookups(m)[n][l] = IF n = 0 THEN "overflow" ELSE Verdict(l, m, Lookups(m)[n - 1])
<1> DEFINE S == {n \in Nat : \E f : Unfolds(f, n, m)}
<1>1. 0 \in S
  <2>1. PICK f : f = [k \in 0 .. 0 |-> [l \in ListNames |-> "overflow"]]
    OBVIOUS
  <2>2. Unfolds(f, 0, m)
    BY <2>1 DEF Unfolds, Deeper
  <2>3. QED
    BY <2>2
<1>2. ASSUME NEW n \in 0 .. MaxDepth, n \in S, n # MaxDepth PROVE n + 1 \in S
  BY <1>2, UnfoldsOnce, RoutingAssumption
<1>3. MaxDepth \in S
  <2> HIDE DEF S
  <2>1. 0 .. MaxDepth \subseteq S
    BY <1>1, <1>2, UpTo, RoutingAssumption
  <2>2. QED
    BY <2>1, RoutingAssumption
<1>4. PICK f : Unfolds(f, MaxDepth, m)
  BY <1>3
<1>5. Unfolds(Lookups(m), MaxDepth, m)
  BY <1>4 DEF Lookups, Unfolds, Deeper
<1>6. PICK h : h = Lookups(m)
  OBVIOUS
<1>7. \A n \in 0 .. MaxDepth : h[n] = Deeper(h, n, m)
  BY <1>5, <1>6 DEF Unfolds
<1>8. QED
  BY <1>6, <1>7 DEF Deeper

\* The loop over the rules of a list stops at most once, where the list speaks.
LEMMA FirstSpeaks ==
  ASSUME table \in Tables, NEW l, DefinedList(l), NEW m
  PROVE  IF FirstStop(l, m) = {} THEN \A i \in DOMAIN List(l) : Silent(l, i, m)
         ELSE \E i \in DOMAIN List(l) :
                FirstStop(l, m) = {i} /\ \A j : Speaks(l, j, m) <=> j = i
<1>1. List(l) \in Seq(RuleNames)
  BY RoutingAssumption DEF TableOK, List, DefinedList
<1>2. DOMAIN List(l) = 1 .. Len(List(l)) /\ Len(List(l)) \in Nat
  BY <1>1
<1>3. \A i : Silent(l, i, m) <=> ~Stops(l, i, m)
  BY DEF Silent, Stops, Matches
<1>4. \A j : Speaks(l, j, m) <=>
        /\ j \in DOMAIN List(l) /\ Stops(l, j, m) /\ \A i \in 1 .. j - 1 : ~Stops(l, i, m)
  BY <1>3 DEF Speaks, Silent, Stops, Matches
<1> DEFINE S == {i \in DOMAIN List(l) : Stops(l, i, m)}
<1>5. FirstStop(l, m) = {i \in S : \A j \in S : i <= j}
  BY DEF FirstStop
<1>6. CASE S = {}
  BY <1>3, <1>5, <1>6
<1>7. CASE S # {}
  <2>1. PICK i \in S : \A j \in S : i <= j
    <3>1. S \in SUBSET Nat
      BY <1>2
    <3>2. QED
      BY <1>7, <3>1, LeastNumber
  <2>2. FirstStop(l, m) = {i}
    BY <1>2, <1>5, <2>1
  <2>3. \A j : Speaks(l, j, m) <=> j = i
    BY <1>2, <1>4, <2>1
  <2>4. QED
    BY <2>1, <2>2, <2>3
<1>8. QED
  BY <1>6, <1>7

\* A list either defers to one other, or decides.
LEMMA VerdictCases ==
  ASSUME table \in Tables, NEW l, NEW m, NEW deferred
  PROVE  \/ \E k \in ListNames :
              /\ Verdict(l, m, deferred) = deferred[k]
              /\ \A j : Defers(l, j, m) <=> j = k
              /\ \A o : ~Decides(l, o, m)
         \/ /\ Decides(l, Verdict(l, m, deferred), m) /\ Verdict(l, m, deferred) # "overflow"
            /\ Verdict(l, m, deferred) \in RuleNames \union Failures
            /\ \A k \in ListNames : ~Defers(l, k, m)
<1>1. CASE ~DefinedList(l)
  BY <1>1 DEF Verdict, Decides, Defers, Failures
<1>2. CASE DefinedList(l) /\ FirstStop(l, m) = {}
  <2>1. \A i \in DOMAIN List(l) : Silent(l, i, m)
    BY <1>2, FirstSpeaks
  <2>2. \A i : ~(Speaks(l, i, m) /\ DefinedRule(List(l)[i]))
    BY <2>1 DEF Speaks
  <2>3. QED
    BY <1>2, <2>1, <2>2 DEF Verdict, Decides, Defers, Failures
<1>3. CASE DefinedList(l) /\ FirstStop(l, m) # {}
  <2>1. PICK i \in DOMAIN List(l) :
          FirstStop(l, m) = {i} /\ \A j : Speaks(l, j, m) <=> j = i
    BY <1>3, FirstSpeaks
  <2>2. PICK r : r = List(l)[i]
    OBVIOUS
  <2>3. Verdict(l, m, deferred) =
          IF ~DefinedRule(r) THEN "no rule"
          ELSE IF Rule(r).apply \in ListNames THEN deferred[Rule(r).apply] ELSE r
    <3>1. (CHOOSE j \in FirstStop(l, m) : TRUE) = i
      BY <2>1
    <3>2. QED
      BY <1>3, <2>1, <2>2, <3>1 DEF Verdict
  <2>4. \A j : Defers(l, j, m) <=> DefinedRule(r) /\ Rule(r).apply = j
    BY <1>3, <2>1, <2>2 DEF Defers
  <2>5. r \in RuleNames /\ r # "overflow"
    <3>1. List(l) \in Seq(RuleNames)
      BY <1>3, RoutingAssumption DEF TableOK, List, DefinedList
    <3>2. r \in RuleNames
      BY <2>1, <2>2, <3>1
    <3>3. QED
      BY <3>2, RoutingAssumption DEF Failures
  <2>6. ~Silent(l, i, m)
    BY <2>1, <2>2 DEF Speaks, Silent
  <2>7. ASSUME NEW o
        PROVE  Decides(l, o, m) <=> \/ DefinedRule(r) /\ o = r /\ Rule(o).apply \notin ListNames
                                    \/ ~DefinedRule(r) /\ o = "no rule"
    <3>1. ~\A j \in DOMAIN List(l) : Silent(l, j, m)
      BY <2>1, <2>6
    <3>2. Decides(l, o, m) <=>
            \E j \in DOMAIN List(l) :
              /\ Speaks(l, j, m)
              /\ \/ DefinedRule(List(l)[j]) /\ o = List(l)[j] /\ Rule(o).apply \notin ListNames
                 \/ ~DefinedRule(List(l)[j]) /\ o = "no rule"
      BY <1>3, <3>1 DEF Decides
    <3>3. QED
      BY <2>1, <2>2, <3>2
  <2>8. CASE ~DefinedRule(r)
    BY <2>3, <2>4, <2>7, <2>8 DEF Failures
  <2>9. CASE DefinedRule(r) /\ Rule(r).apply \in ListNames
    BY <2>3, <2>4, <2>7, <2>9
  <2>10. CASE DefinedRule(r) /\ Rule(r).apply \notin ListNames
    BY <2>3, <2>4, <2>5, <2>7, <2>10
  <2>11. QED
    BY <2>8, <2>9, <2>10
<1>4. QED
  BY <1>1, <1>2, <1>3

-----------------------------------------------------------------------------
(* Lists that defer to each other.                                         *)

\* From list l, the first n lists that a lookup passes.
Way(p, n, l, m) ==
  p \in [1 .. n -> ListNames] /\ p[1] = l /\ \A i \in 1 .. n - 1 : Defers(p[i], p[i + 1], m)

LEMMA WayExtends ==
  ASSUME NEW n \in Nat \ {0}, NEW p, NEW k, NEW l \in ListNames, NEW m,
         Way(p, n, k, m), Defers(l, k, m)
  PROVE  \E q : Way(q, n + 1, l, m) /\ q[n + 1] = p[n]
<1>1. PICK q : q = [i \in 1 .. n + 1 |-> IF i = 1 THEN l ELSE p[i - 1]]
  OBVIOUS
<1>2. \A i \in 1 .. n + 1 : i # 1 => i - 1 \in 1 .. n
  OBVIOUS
<1>3. q \in [1 .. n + 1 -> ListNames] /\ q[1] = l /\ q[n + 1] = p[n]
  <2>1. \A i \in 1 .. n : p[i] \in ListNames
    BY DEF Way
  <2>2. 1 \in 1 .. n + 1 /\ n + 1 \in 1 .. n + 1 /\ n + 1 # 1 /\ n + 1 - 1 = n
    OBVIOUS
  <2>3. QED
    BY <1>1, <1>2, <2>1, <2>2
<1>4. ASSUME NEW i \in 1 .. n PROVE Defers(q[i], q[i + 1], m)
  <2>1. q[i + 1] = p[i]
    <3>1. i + 1 \in 1 .. n + 1 /\ i + 1 # 1 /\ i + 1 - 1 = i
      OBVIOUS
    <3>2. QED
      BY <1>1, <3>1
  <2>2. CASE i = 1
    BY <1>3, <2>1, <2>2 DEF Way
  <2>3. CASE i # 1
    <3>1. q[i] = p[i - 1] /\ i - 1 \in 1 .. n - 1 /\ i - 1 + 1 = i
      BY <1>1, <2>3
    <3>2. Defers(p[i - 1], p[i], m)
      BY <3>1 DEF Way
    <3>3. QED
      BY <2>1, <3>1, <3>2
  <2>4. QED
    BY <2>2, <2>3
<1>5. \A i \in 1 .. n + 1 - 1 : Defers(q[i], q[i + 1], m)
  BY <1>4
<1>6. QED
  BY <1>3, <1>5 DEF Way

\* What a lookup with n calls finds from list l: the end of a way of at most n lists, or
\* a way that goes on after n.
Found(n, l, o, m) ==
  IF o = "overflow" THEN \E p : Way(p, n + 1, l, m)
  ELSE /\ o \in RuleNames \union Failures
       /\ \E k \in 1 .. n : \E p : Way(p, k, l, m) /\ Decides(p[k], o, m)

LEMMA LookupsFind ==
  ASSUME table \in Tables, NEW m
  PROVE  \A n \in 0 .. MaxDepth, l \in ListNames : Found(n, l, Lookups(m)[n][l], m)
<1> DEFINE S == {n \in Nat : n \in 0 .. MaxDepth =>
                   \A l \in ListNames : Found(n, l, Lookups(m)[n][l], m)}
<1>1. ASSUME NEW l \in ListNames PROVE Found(0, l, Lookups(m)[0][l], m)
  <2>1. 0 \in 0 .. MaxDepth
    BY RoutingAssumption
  <2>2. Lookups(m)[0][l] = "overflow"
    BY <2>1, LookupsUnfold
  <2>3. PICK p : p = [i \in 1 .. 1 |-> l]
    OBVIOUS
  <2>4. Way(p, 0 + 1, l, m)
    BY <2>3 DEF Way
  <2>5. QED
    BY <2>2, <2>4 DEF Found
<1>2. ASSUME NEW n \in 0 .. MaxDepth, n \in S, n # MaxDepth, NEW l \in ListNames
      PROVE  Found(n + 1, l, Lookups(m)[n + 1][l], m)
  <2>1. n + 1 \in 0 .. MaxDepth /\ n + 1 # 0 /\ n + 1 - 1 = n /\ n \in Nat
    BY <1>2, RoutingAssumption
  <2>2. PICK o, deferred : deferred = Lookups(m)[n] /\ o = Verdict(l, m, deferred)
    OBVIOUS
  <2>3. Lookups(m)[n + 1][l] = o
    BY <2>1, <2>2, LookupsUnfold
  <2>4. CASE \E k \in ListNames : o = deferred[k] /\ Defers(l, k, m)
    <3>1. PICK k \in ListNames : o = deferred[k] /\ Defers(l, k, m)
      BY <2>4
    <3>2. Found(n, k, o, m)
      BY <1>2, <2>2, <3>1
    <3>3. CASE o = "overflow"
      <4>1. PICK p : Way(p, n + 1, k, m)
        BY <3>2, <3>3 DEF Found
      <4>2. \E q : Way(q, n + 1 + 1, l, m)
        BY <2>1, <3>1, <4>1, WayExtends
      <4>3. QED
        BY <2>3, <3>3, <4>2 DEF Found
    <3>4. CASE o # "overflow"
      <4>0. PICK j \in 1 .. n : \E p : Way(p, j, k, m) /\ Decides(p[j], o, m)
        BY <3>2, <3>4 DEF Found
      <4>1. PICK p : Way(p, j, k, m) /\ Decides(p[j], o, m)
        BY <4>0
      <4>2. j \in Nat \ {0} /\ j + 1 \in 1 .. n + 1
        BY <2>1
      <4>3. PICK q : Way(q, j + 1, l, m) /\ q[j + 1] = p[j]
        BY <3>1, <4>1, <4>2, WayExtends
      <4>4. Decides(q[j + 1], o, m) /\ o \in RuleNames \union Failures
        BY <3>2, <3>4, <4>1, <4>3 DEF Found
      <4>5. QED
        BY <2>3, <3>4, <4>2, <4>3, <4>4 DEF Found
    <3>5. QED
      BY <3>3, <3>4
  <2>5. CASE Decides(l, o, m) /\ o # "overflow" /\ o \in RuleNames \union Failures
    <3>1. PICK p : p = [i \in 1 .. 1 |-> l]
      OBVIOUS
    <3>2. Way(p, 1, l, m) /\ p[1] = l /\ 1 \in 1 .. n + 1
      BY <2>1, <3>1 DEF Way
    <3>3. QED
      BY <2>3, <2>5, <3>2 DEF Found
  <2>6. QED
    BY <2>2, <2>4, <2>5, VerdictCases
<1>3. 0 .. MaxDepth \subseteq S
  <2>1. 0 \in S
    BY <1>1
  <2>2. \A n \in 0 .. MaxDepth : n \in S /\ n # MaxDepth => n + 1 \in S
    BY <1>2
  <2> HIDE DEF S
  <2>3. QED
    BY <2>1, <2>2, UpTo, RoutingAssumption
<1>4. QED
  BY <1>3

\* A list defers to at most one other, and not when it decides.
LEMMA DefersOnce ==
  ASSUME table \in Tables, NEW l, NEW m, NEW k \in ListNames, Defers(l, k, m)
  PROVE  (\A j : Defers(l, j, m) => j = k) /\ \A o : ~Decides(l, o, m)
<1>1. PICK d : d = Lookups(m)[0]
  OBVIOUS
<1>2. \E i \in ListNames : (\A j : Defers(l, j, m) <=> j = i) /\ \A o : ~Decides(l, o, m)
  <2>1. CASE \A i \in ListNames : ~Defers(l, i, m)
    BY <2>1
  <2>2. CASE ~\A i \in ListNames : ~Defers(l, i, m)
    <3>1. PICK v : v = Verdict(l, m, d)
      OBVIOUS
    <3>2. \/ \E i \in ListNames : /\ v = d[i]
                                 /\ \A j : Defers(l, j, m) <=> j = i
                                 /\ \A o : ~Decides(l, o, m)
          \/ \A i \in ListNames : ~Defers(l, i, m)
      BY <3>1, VerdictCases
    <3>3. QED
      BY <2>2, <3>2
  <2>3. QED
    BY <2>1, <2>2
<1>3. QED
  BY <1>2

\* Ways from the same list are the same as far as both go.
LEMMA WaysAgree ==
  ASSUME table \in Tables, NEW m, NEW l,
         NEW n \in Nat \ {0}, NEW p, Way(p, n, l, m),
         NEW j \in Nat \ {0}, NEW q, Way(q, j, l, m), n <= j
  PROVE  \A i \in 1 .. n : p[i] = q[i]
<1> DEFINE S == {i \in Nat : p[i + 1] = q[i + 1]}
<1>1. 0 \in S
  BY DEF Way
<1>2. ASSUME NEW i \in 0 .. n - 1, i \in S, i # n - 1 PROVE i + 1 \in S
  <2>1. i + 1 \in 1 .. n - 1 /\ i + 1 \in 1 .. j - 1 /\ i + 1 + 1 \in 1 .. j
    BY <1>2
  <2>2. PICK x \in Nat : x = i + 1
    BY <2>1
  <2>3. Defers(p[x], p[x + 1], m) /\ Defers(q[x], q[x + 1], m) /\ q[x + 1] \in ListNames
    BY <2>1, <2>2 DEF Way
  <2>4. p[x] = q[x]
    BY <1>2, <2>2
  <2>5. p[x + 1] = q[x + 1]
    BY <2>3, <2>4, DefersOnce
  <2>6. QED
    BY <2>2, <2>5
<1>3. 0 .. n - 1 \subseteq S
  <2> HIDE DEF S
  <2>1. n - 1 \in Nat
    OBVIOUS
  <2>2. QED
    BY <1>1, <1>2, <2>1, UpTo
<1>4. ASSUME NEW i \in 1 .. n PROVE p[i] = q[i]
  <2>1. i - 1 \in 0 .. n - 1 /\ i - 1 + 1 = i
    OBVIOUS
  <2>2. QED
    BY <1>3, <2>1
<1>5. QED
  BY <1>4

\* A part of a way is a way.
HasParts(p, n, m) ==
  \A i, e \in 1 .. n : \A k \in Nat \ {0} :
    e = i + k - 1 => \E q : Way(q, k, p[i], m) /\ q[k] = p[e]

LEMMA PartOfWay ==
  ASSUME NEW m, NEW l, NEW n \in Nat \ {0}, NEW p, Way(p, n, l, m)
  PROVE  HasParts(p, n, m)
<1> SUFFICES ASSUME NEW i \in 1 .. n, NEW e \in 1 .. n, NEW k \in Nat \ {0}, e = i + k - 1
             PROVE  \E q : Way(q, k, p[i], m) /\ q[k] = p[e]
  BY DEF HasParts
<1>1. PICK q : q = [d \in 1 .. k |-> p[i + d - 1]]
  OBVIOUS
<1>2. \A d \in 1 .. k : i + d - 1 \in 1 .. n
  OBVIOUS
<1>3. \A d \in 1 .. n : p[d] \in ListNames
  BY DEF Way
<1>4. q \in [1 .. k -> ListNames]
  BY <1>1, <1>2, <1>3
<1>5. 1 \in 1 .. k /\ k \in 1 .. k /\ i + 1 - 1 = i
  OBVIOUS
<1>6. q[1] = p[i] /\ q[k] = p[e]
  BY <1>1, <1>5
<1>7. ASSUME NEW d \in 1 .. k - 1 PROVE Defers(q[d], q[d + 1], m)
  <2>1. d \in 1 .. k /\ d + 1 \in 1 .. k /\ i + (d + 1) - 1 = (i + d - 1) + 1
    OBVIOUS
  <2>2. PICK c : c = i + d - 1
    OBVIOUS
  <2>3. c \in 1 .. n - 1
    BY <2>2
  <2>4. q[d] = p[c] /\ q[d + 1] = p[c + 1]
    BY <1>1, <2>1, <2>2
  <2>5. QED
    BY <2>3, <2>4 DEF Way
<1>8. QED
  BY <1>4, <1>6, <1>7 DEF Way

\* A way that ends at a list that decides passes no list twice.
LEMMA WayInjective ==
  ASSUME table \in Tables, NEW m, NEW l, NEW n \in Nat \ {0}, NEW p, Way(p, n, l, m),
         NEW o, Decides(p[n], o, m)
  PROVE  IsInjective(p)
<1>0. HasParts(p, n, m)
  BY PartOfWay
<1>1. ASSUME NEW i \in 1 .. n, NEW j \in 1 .. n, p[i] = p[j], i < j PROVE FALSE
  <2>1. PICK k \in Nat \ {0} : k = n - j + 1
    OBVIOUS
  <2>2. PICK x \in 1 .. n : x = n /\ x = j + k - 1
    BY <2>1
  <2>3. PICK e \in 1 .. n - 1 : e = i + k - 1
    BY <1>1, <2>1
  <2>4. PICK f : Way(f, k, p[i], m) /\ f[k] = p[e]
    <3>1. e \in 1 .. n
      OBVIOUS
    <3>2. QED
      BY <1>0, <2>3, <3>1 DEF HasParts
  <2>5. PICK g : Way(g, k, p[j], m) /\ g[k] = p[n]
    <3>1. \E g : Way(g, k, p[j], m) /\ g[k] = p[x]
      BY <1>0, <2>2 DEF HasParts
    <3>2. QED
      BY <2>2, <3>1
  <2>6. f[k] = g[k]
    <3>1. k \in 1 .. k /\ k <= k
      OBVIOUS
    <3>2. Way(g, k, p[i], m)
      BY <1>1, <2>5
    <3>3. QED
      BY <2>4, <3>1, <3>2, WaysAgree
  <2>7. Defers(p[e], p[e + 1], m) /\ p[e + 1] \in ListNames
    <3>1. e + 1 \in 1 .. n
      OBVIOUS
    <3>2. QED
      BY <3>1 DEF Way
  <2>8. QED
    BY <2>4, <2>5, <2>6, <2>7, DefersOnce
<1>2. ASSUME NEW i \in 1 .. n, NEW j \in 1 .. n, p[i] = p[j], i # j PROVE FALSE
  <2>1. i < j \/ j < i
    BY <1>2
  <2>2. QED
    BY <1>1, <1>2, <2>1
<1>3. DOMAIN p = 1 .. n
  BY DEF Way
<1>4. QED
  BY <1>2, <1>3 DEF IsInjective

LEMMA InjectiveIsShort ==
  ASSUME NEW n \in Nat, NEW p \in [1 .. n -> ListNames], IsInjective(p)
  PROVE  n <= Cardinality(ListNames)
<1>1. p \in Injection(1 .. n, ListNames)
  BY DEF Injection
<1>2. Cardinality(1 .. n) <= Cardinality(ListNames)
  BY <1>1, FS_Injection, RoutingAssumption
<1>3. Cardinality(1 .. n) = n
  BY FS_Interval
<1>4. QED
  BY <1>2, <1>3

LEMMA ChainIsWay ==
  ASSUME NEW m, NEW p
  PROVE  p \in Chains(m) <=>
           \E n \in 1 .. Cardinality(ListNames) :
             Way(p, n, Start, m) /\ IsInjective(p) /\ Len(p) = n
<1>1. \A n \in Nat : \A q \in [1 .. n -> ListNames] : Len(q) = n
  OBVIOUS
<1>2. Cardinality(ListNames) \in Nat
  BY FS_CardinalityType, RoutingAssumption
<1>3. QED
  BY <1>1, <1>2 DEF Chains, Way

\* What the lookup of a session finds is what the chain of lists leads to.
LEMMA LookupFollowsChain ==
  ASSUME table \in Tables, NEW m
  PROVE  IF Lookup(m) = "overflow"
         THEN \A p \in Chains(m) : \E k \in ListNames : Defers(p[Len(p)], k, m)
         ELSE /\ \E p \in Chains(m) : Decides(p[Len(p)], Lookup(m), m)
              /\ Lookup(m) \in RuleNames \union Failures
<1>1. Found(MaxDepth, Start, Lookup(m), m)
  BY LookupsFind, RoutingAssumption DEF Lookup
<1>2. CASE Lookup(m) = "overflow"
  <2>1. PICK q : Way(q, MaxDepth + 1, Start, m)
    BY <1>1, <1>2 DEF Found
  <2>2. ASSUME NEW p \in Chains(m) PROVE \E k \in ListNames : Defers(p[Len(p)], k, m)
    <3>1. PICK n \in 1 .. Cardinality(ListNames) : Way(p, n, Start, m) /\ Len(p) = n
      BY <2>2, ChainIsWay
    <3>2. PICK N \in Nat \ {0} : N = MaxDepth + 1
      BY RoutingAssumption
    <3>3. n \in Nat \ {0} /\ n <= N /\ n \in 1 .. n /\ n \in 1 .. N - 1 /\ n + 1 \in 1 .. N
      BY <3>2, FS_CardinalityType, RoutingAssumption
    <3>4. p[n] = q[n] /\ Defers(q[n], q[n + 1], m) /\ q[n + 1] \in ListNames
      <4>1. Way(q, N, Start, m)
        BY <2>1, <3>2
      <4>2. p[n] = q[n]
        BY <3>1, <3>3, <4>1, WaysAgree
      <4>3. QED
        BY <3>3, <4>1, <4>2 DEF Way
    <3>5. QED
      BY <3>1, <3>4
  <2>3. QED
    BY <1>2, <2>2
<1>3. CASE Lookup(m) # "overflow"
  <2>0. PICK n \in 1 .. MaxDepth : \E p : Way(p, n, Start, m) /\ Decides(p[n], Lookup(m), m)
    BY <1>1, <1>3 DEF Found
  <2>1. PICK p : Way(p, n, Start, m) /\ Decides(p[n], Lookup(m), m)
    BY <2>0
  <2>2. n \in Nat \ {0} /\ p \in [1 .. n -> ListNames]
    BY <2>1, RoutingAssumption DEF Way
  <2>3. IsInjective(p) /\ n <= Cardinality(ListNames)
    BY <2>1, <2>2, WayInjective, InjectiveIsShort
  <2>4. Len(p) = n /\ n \in 1 .. Cardinality(ListNames)
    BY <2>2, <2>3, FS_CardinalityType, RoutingAssumption
  <2>5. p \in Chains(m)
    BY <2>1, <2>3, <2>4, ChainIsWay
  <2>6. QED
    BY <1>1, <1>3, <2>1, <2>4, <2>5 DEF Found
<1>4. QED
  BY <1>2, <1>3

\* A rule that is found is defined, or the lookup has failed.
LEMMA FoundIsRule ==
  ASSUME table \in Tables, NEW m
  PROVE  /\ Lookup(m) \in RuleNames \union Failures
         /\ Lookup(m) \notin Failures => DefinedRule(Lookup(m))
<1>1. PICK o : o = Lookup(m)
  OBVIOUS
<1>2. CASE o = "overflow"
  BY <1>1, <1>2 DEF Failures
<1>3. CASE o # "overflow"
  <2>1. o \in RuleNames \union Failures /\ \E l : Decides(l, o, m)
    BY <1>1, <1>3, LookupFollowsChain
  <2>2. \A l : Decides(l, o, m) /\ o \notin Failures => DefinedRule(o)
    <3>1. ASSUME NEW l, Decides(l, o, m), o \notin Failures PROVE DefinedRule(o)
      <4>1. PICK i \in DOMAIN List(l) :
              IF DefinedRule(List(l)[i]) THEN o = List(l)[i] ELSE o = "no rule"
        BY <3>1 DEF Decides, Failures
      <4>2. CASE DefinedRule(List(l)[i])
        BY <4>1, <4>2
      <4>3. CASE ~DefinedRule(List(l)[i])
        BY <3>1, <4>1, <4>3 DEF Failures
      <4>4. QED
        BY <4>2, <4>3
    <3>2. QED
      BY <3>1
  <2>3. QED
    BY <1>1, <2>1, <2>2
<1>4. QED
  BY <1>2, <1>3

LEMMA RewrittenType ==
  ASSUME table \in Tables, NEW m \in Values \union {NoValue}
  PROVE  Rewritten(m, Lookup(m)) \in Values \union {NoValue}
<1>1. PICK r : r = Lookup(m)
  OBVIOUS
<1>2. r \notin Failures => Rule(r).rewrite \in Values \union {NoValue}
  BY <1>1, FoundIsRule, RoutingAssumption DEF DefinedRule, Rule, TableOK
<1>3. Rewritten(m, r) \in Values \union {NoValue}
  BY <1>2 DEF Rewritten
<1>4. QED
  BY <1>1, <1>3

-----------------------------------------------------------------------------
(* Endpoints in their order.                                               *)

\* Endpoint x is before y.
Before(es, x, y) == \E p, q \in DOMAIN es : p < q /\ es[p] = x /\ es[q] = y

\* The endpoints without the one at position i.
IsWithout(w, es, i) ==
  /\ w \in Seq(EndPoints) /\ Len(w) = Len(es) - 1
  /\ \A j \in 1 .. Len(w) : w[j] = IF j < i THEN es[j] ELSE es[j + 1]

LEMMA WithoutIs ==
  ASSUME NEW es \in Seq(EndPoints), NEW e \in ToSet(es)
  PROVE  \E i \in 1 .. Len(es) : es[i] = e /\ IsWithout(Without(es, e), es, i)
<1>1. PICK i : i = CHOOSE k \in DOMAIN es : es[k] = e
  OBVIOUS
<1>2. i \in DOMAIN es /\ es[i] = e
  BY <1>1 DEF ToSet
<1>3. PICK n \in Nat : n = Len(es) /\ i \in 1 .. n
  BY <1>2
<1>4. PICK a, b : a = SubSeq(es, 1, i - 1) /\ b = SubSeq(es, i + 1, n)
  OBVIOUS
<1>5. a \in Seq(EndPoints) /\ Len(a) = i - 1 /\ \A j \in 1 .. i - 1 : a[j] = es[j]
  <2>1. \A j \in 1 .. i - 1 : es[j] \in EndPoints
    BY <1>3
  <2>2. QED
    BY <1>3, <1>4, <2>1
<1>6. b \in Seq(EndPoints) /\ Len(b) = n - i /\ \A j \in 1 .. n - i : b[j] = es[j + i]
  <2>1. \A j \in i + 1 .. n : es[j] \in EndPoints
    BY <1>3
  <2>2. QED
    BY <1>3, <1>4, <2>1
<1>7. Without(es, e) = a \o b
  BY <1>1, <1>3, <1>4 DEF Without, RemoveAt
<1>8. PICK w : w = a \o b
  OBVIOUS
<1>9. /\ w \in Seq(EndPoints) /\ Len(w) = n - 1
      /\ \A j \in 1 .. n - 1 : w[j] = IF j < i THEN es[j] ELSE es[j + 1]
  <2>1. w \in Seq(EndPoints) /\ Len(w) = Len(a) + Len(b)
    BY <1>5, <1>6, <1>8, ConcatProperties
  <2>2. Len(w) = n - 1
    BY <1>3, <1>5, <1>6, <2>1
  <2>3. \A j \in 1 .. n - 1 : w[j] = IF j <= i - 1 THEN a[j] ELSE b[j - (i - 1)]
    BY <1>3, <1>5, <1>6, <1>8, <2>2
  <2>4. ASSUME NEW j \in 1 .. n - 1 PROVE w[j] = IF j < i THEN es[j] ELSE es[j + 1]
    <3>1. CASE j < i
      <4>1. j \in 1 .. i - 1 /\ j <= i - 1
        BY <1>3, <3>1
      <4>2. QED
        BY <1>5, <2>3, <3>1, <4>1
    <3>2. CASE ~(j < i)
      <4>1. PICK k \in 1 .. n - i : k = j - (i - 1) /\ k + i = j + 1 /\ ~(j <= i - 1)
        BY <1>3, <3>2
      <4>2. QED
        BY <1>6, <2>3, <3>2, <4>1
    <3>3. QED
      BY <3>1, <3>2
  <2>5. QED
    BY <2>1, <2>2, <2>4
<1>10. QED
  BY <1>2, <1>3, <1>7, <1>8, <1>9 DEF IsWithout

\* An endpoint that is deleted changes nothing in the order of the others.
LEMMA WithoutKeeps ==
  ASSUME NEW es \in Seq(EndPoints), IsInjective(es), NEW e \in ToSet(es)
  PROVE  /\ Without(es, e) \in Seq(EndPoints) /\ IsInjective(Without(es, e))
         /\ ToSet(Without(es, e)) \subseteq ToSet(es)
         /\ \A x, y : Before(Without(es, e), x, y) => Before(es, x, y)
<1>1. PICK w : w = Without(es, e)
  OBVIOUS
<1>2. PICK i \in 1 .. Len(es) : IsWithout(w, es, i)
  BY <1>1, WithoutIs
<1>3. PICK n \in Nat : n = Len(es) /\ Len(w) = n - 1 /\ i \in 1 .. n
  BY <1>2 DEF IsWithout
<1>4. DOMAIN es = 1 .. n /\ DOMAIN w = 1 .. n - 1
  BY <1>2, <1>3 DEF IsWithout
\* The position where an endpoint has been.
<1>5. PICK f : f = [j \in 1 .. n - 1 |-> IF j < i THEN j ELSE j + 1]
  OBVIOUS
<1>6. \A j \in 1 .. n - 1 : f[j] \in 1 .. n /\ w[j] = es[f[j]]
  BY <1>2, <1>3, <1>5 DEF IsWithout
<1>7. \A j, k \in 1 .. n - 1 : j < k => f[j] < f[k]
  BY <1>3, <1>5
<1>8. w \in Seq(EndPoints)
  BY <1>2 DEF IsWithout
<1>9. IsInjective(w)
  <2>1. SUFFICES ASSUME NEW j \in 1 .. n - 1, NEW k \in 1 .. n - 1, w[j] = w[k], j # k
                 PROVE  FALSE
    BY <1>4 DEF IsInjective
  <2>2. f[j] = f[k]
    BY <1>4, <1>6, <2>1 DEF IsInjective
  <2>3. j < k \/ k < j
    BY <2>1
  <2>4. QED
    BY <1>6, <1>7, <2>2, <2>3
<1>10. ToSet(w) \subseteq ToSet(es)
  BY <1>4, <1>6 DEF ToSet
<1>11. \A x, y : Before(w, x, y) => Before(es, x, y)
  BY <1>4, <1>6, <1>7 DEF Before
<1>12. QED
  BY <1>1, <1>8, <1>9, <1>10, <1>11

\* An endpoint that is added is the last one.
LEMMA AppendKeeps ==
  ASSUME NEW es \in Seq(EndPoints), IsInjective(es), NEW e \in EndPoints, e \notin ToSet(es)
  PROVE  /\ Append(es, e) \in Seq(EndPoints) /\ IsInjective(Append(es, e))
         /\ ToSet(Append(es, e)) = ToSet(es) \union {e}
         /\ \A x, y : Before(Append(es, e), x, y) => Before(es, x, y) \/ y = e
<1>0. PICK w : w = Append(es, e)
  OBVIOUS
<1>1. PICK n \in Nat : n = Len(es)
  OBVIOUS
<1>2. /\ w \in Seq(EndPoints) /\ DOMAIN es = 1 .. n /\ DOMAIN w = 1 .. n + 1
      /\ w[n + 1] = e /\ \A j \in 1 .. n : w[j] = es[j]
  BY <1>0, <1>1
<1>3. \A j \in 1 .. n : es[j] # e
  BY <1>2 DEF ToSet
<1>4. \A j \in 1 .. n + 1 : j = n + 1 \/ j \in 1 .. n
  OBVIOUS
<1>5. IsInjective(w)
  BY <1>2, <1>3, <1>4 DEF IsInjective
<1>6. ToSet(w) = ToSet(es) \union {e}
  <2>1. n + 1 \in 1 .. n + 1 /\ \A j \in 1 .. n : j \in 1 .. n + 1
    OBVIOUS
  <2>2. QED
    BY <1>2, <1>4, <2>1 DEF ToSet
<1>7. ASSUME NEW x, NEW y, Before(w, x, y), y # e PROVE Before(es, x, y)
  <2>1. PICK p, q \in 1 .. n + 1 : p < q /\ w[p] = x /\ w[q] = y
    BY <1>2, <1>7 DEF Before
  <2>2. q # n + 1
    BY <1>2, <1>7, <2>1
  <2>3. p \in 1 .. n /\ q \in 1 .. n
    BY <2>1, <2>2
  <2>4. QED
    BY <1>2, <2>1, <2>3 DEF Before
<1>8. QED
  BY <1>0, <1>2, <1>5, <1>6, <1>7

\* No endpoint is before and after another.
LEMMA BeforeOnce ==
  ASSUME NEW es \in Seq(EndPoints), IsInjective(es), NEW x, NEW y, Before(es, x, y)
  PROVE  x # y /\ ~Before(es, y, x)
<1>1. DOMAIN es \subseteq Nat
  OBVIOUS
<1>2. PICK p, q \in DOMAIN es : p < q /\ es[p] = x /\ es[q] = y
  BY DEF Before
<1>3. \A i, j \in DOMAIN es : (es[i] = x => i = p) /\ (es[j] = y => j = q)
  BY <1>2 DEF IsInjective
<1>4. p # q /\ ~(q < p)
  BY <1>1, <1>2
<1>5. QED
  BY <1>2, <1>3, <1>4 DEF Before

\* The key of an address is its last endpoint.
LEMMA KeyOf ==
  ASSUME NEW es \in Seq(EndPoints), NEW old, NEW a \in Addresses
  PROVE  IF \E x \in ToSet(es) : AddressOf[x] = a
         THEN /\ Keys(old, es)[a] \in ToSet(es) /\ AddressOf[Keys(old, es)[a]] = a
              /\ \A x \in ToSet(es) : AddressOf[x] = a =>
                   x = Keys(old, es)[a] \/ Before(es, x, Keys(old, es)[a])
         ELSE Keys(old, es)[a] = NoValue
<1> DEFINE S == {i \in DOMAIN es : AddressOf[es[i]] = a}
<1>1. Keys(old, es)[a] = IF S = {} THEN NoValue ELSE es[CHOOSE i \in S : \A j \in S : j <= i]
  BY DEF Keys, Entered, NoKeys
<1>2. (\E x \in ToSet(es) : AddressOf[x] = a) <=> S # {}
  BY DEF ToSet
<1>3. CASE S = {}
  BY <1>1, <1>2, <1>3
<1>4. CASE S # {}
  <2>1. PICK n \in Nat : n = Len(es)
    OBVIOUS
  <2>2. DOMAIN es = 1 .. n
    BY <2>1
  <2>3. \E i \in S : \A j \in S : j <= i
    <3>1. PICK D : D = {d \in Nat : n - d \in S}
      OBVIOUS
    <3>2. \A i \in S : i \in 1 .. n /\ n - i \in D /\ n - (n - i) = i
      BY <2>2, <3>1
    <3>3. D \in SUBSET Nat /\ D # {}
      BY <1>4, <3>1, <3>2
    <3>4. PICK d \in D : \A c \in D : d <= c
      BY <3>3, LeastNumber
    <3>5. n - d \in S /\ d \in Nat
      BY <3>1, <3>4
    <3>6. \A j \in S : j <= n - d
      BY <3>2, <3>4, <3>5
    <3>7. QED
      BY <3>5, <3>6
  <2>4. PICK i \in S : i = CHOOSE k \in S : \A j \in S : j <= k
    BY <2>3
  <2>5. \A j \in S : j <= i
    BY <2>3, <2>4
  <2>6. Keys(old, es)[a] = es[i] /\ i \in DOMAIN es /\ AddressOf[es[i]] = a
    BY <1>1, <1>4, <2>4
  <2>7. \A x \in ToSet(es) : AddressOf[x] = a => x = es[i] \/ Before(es, x, es[i])
    <3>1. SUFFICES ASSUME NEW j \in DOMAIN es, AddressOf[es[j]] = a
                   PROVE  es[j] = es[i] \/ Before(es, es[j], es[i])
      BY DEF ToSet
    <3>2. j = i \/ j < i
      BY <2>2, <2>5, <2>6, <3>1
    <3>3. QED
      BY <2>6, <3>2 DEF Before
  <2>8. QED
    BY <1>2, <1>4, <2>6, <2>7 DEF ToSet
<1>5. QED
  BY <1>3, <1>4
\* What the load balancer picks.
LEMMA PickPresent ==
  ASSUME TypeOK, endpoints # <<>>, NEW m \in Values \union {NoValue}, NEW e \in Pick(m)
  PROVE  /\ e \in ToSet(endpoints)
         /\ policy = "Trivial" => e = endpoints[1]
         /\ policy # "Trivial" /\ m # NoValue =>
              \E i \in DOMAIN ring[m] :
                /\ ring[m][i] \in Points /\ e = keys[ring[m][i][1]]
                /\ ring[m][i][1] = AddressOf[e]
                /\ \A j \in DOMAIN ring[m] : ring[m][j] \in Points => i <= j
<1>1. /\ endpoints \in Seq(EndPoints)
      /\ \A a : keys[a] = Keys(keys, endpoints)[a]
  BY DEF TypeOK
<1>2. \A a \in Addresses : keys[a] # NoValue => keys[a] \in ToSet(endpoints) /\ AddressOf[keys[a]] = a
  <2>1. ASSUME NEW a \in Addresses, keys[a] # NoValue
        PROVE  keys[a] \in ToSet(endpoints) /\ AddressOf[keys[a]] = a
    <3>1. PICK k : k = Keys(keys, endpoints)[a]
      OBVIOUS
    <3>2. k # NoValue /\ k = keys[a]
      BY <1>1, <2>1, <3>1
    <3>3. QED
      BY <1>1, <3>1, <3>2, KeyOf
  <2>2. QED
    BY <2>1
<1>3. \A p \in Points : p[1] \in Addresses /\ keys[p[1]] # NoValue
  BY DEF Points, Keyed
<1>4. CASE policy = "Trivial"
  <2>1. e = endpoints[1]
    BY <1>4 DEF Pick
  <2>2. 1 \in DOMAIN endpoints
    BY <1>1
  <2>3. QED
    BY <1>4, <2>1, <2>2 DEF ToSet
<1>5. CASE policy # "Trivial" /\ m = NoValue
  <2>1. PICK a \in Addresses : keys[a] # NoValue /\ e = keys[a]
    BY <1>5, <1>3 DEF Pick
  <2>2. QED
    BY <1>2, <1>5, <2>1
<1>6. CASE policy # "Trivial" /\ m # NoValue
  <2>1. PICK i \in DOMAIN ring[m] :
          /\ e = keys[ring[m][i][1]] /\ ring[m][i] \in Points
          /\ \A j \in DOMAIN ring[m] : ring[m][j] \in Points => i <= j
    BY <1>6 DEF Pick, Nearest
  <2>2. PICK a \in Addresses : a = ring[m][i][1] /\ keys[a] # NoValue /\ e = keys[a]
    BY <1>3, <2>1
  <2>3. e \in ToSet(endpoints) /\ a = AddressOf[e]
    BY <1>2, <2>2
  <2>4. QED
    BY <1>6, <2>1, <2>2, <2>3
<1>7. QED
  BY <1>4, <1>5, <1>6

\* The first endpoint has none before it.
LEMMA FirstPicked ==
  ASSUME TypeOK, endpoints # <<>>, policy = "Trivial", NEW m \in Values \union {NoValue},
         NEW e \in Pick(m)
  PROVE  \A x \in ToSet(endpoints) : ~Before(endpoints, x, e) /\ (x = e \/ Before(endpoints, e, x))
<1>1. e = endpoints[1]
  BY PickPresent
<1>2. endpoints \in Seq(EndPoints) /\ IsInjective(endpoints)
  BY DEF TypeOK
<1>3. PICK n \in Nat \ {0} : n = Len(endpoints)
  BY <1>2
<1>4. DOMAIN endpoints = 1 .. n /\ 1 \in 1 .. n
  BY <1>2, <1>3
<1>5. ASSUME NEW x \in ToSet(endpoints), x # e PROVE Before(endpoints, e, x)
  <2>1. PICK q \in 1 .. n : endpoints[q] = x
    BY <1>4 DEF ToSet
  <2>2. 1 < q
    BY <1>1, <1>5, <2>1
  <2>3. QED
    BY <1>1, <1>4, <2>1, <2>2 DEF Before
<1>6. ASSUME NEW x \in ToSet(endpoints) PROVE ~Before(endpoints, x, e)
  <2>1. CASE x = e
    BY <1>2, <2>1, BeforeOnce
  <2>2. CASE x # e
    BY <1>2, <1>5, <2>2, BeforeOnce
  <2>3. QED
    BY <2>1, <2>2
<1>7. QED
  BY <1>5, <1>6

\* The nearest point of the ring has no nearer one, and the last endpoint at its address
\* none after it.
LEMMA NearestPicked ==
  ASSUME TypeOK, endpoints # <<>>, policy # "Trivial", NEW m \in Values, m # NoValue,
         NEW e \in Pick(m)
  PROVE  /\ \E i \in DOMAIN ring[m] :
              /\ ring[m][i] \in Points /\ ring[m][i][1] = AddressOf[e]
              /\ \A j \in DOMAIN ring[m] : ring[m][j] \in Points => i <= j
         /\ \A x \in ToSet(endpoints) : AddressOf[x] = AddressOf[e] =>
              /\ ~Before(endpoints, e, x)
              /\ x = e \/ Before(endpoints, x, e)
<1>1. PICK i \in DOMAIN ring[m] :
        /\ ring[m][i] \in Points /\ e = keys[ring[m][i][1]] /\ ring[m][i][1] = AddressOf[e]
        /\ \A j \in DOMAIN ring[m] : ring[m][j] \in Points => i <= j
  BY PickPresent
<1>2. endpoints \in Seq(EndPoints) /\ IsInjective(endpoints) /\ keys = Keys(keys, endpoints)
  BY DEF TypeOK
<1>3. ToSet(endpoints) \subseteq EndPoints
  BY <1>2 DEF ToSet
<1>4. ASSUME NEW x \in ToSet(endpoints)
      PROVE  /\ AddressOf[x] \in Addresses /\ keys[AddressOf[x]] # NoValue
             /\ x = keys[AddressOf[x]] \/ Before(endpoints, x, keys[AddressOf[x]])
  <2>1. PICK a : a = AddressOf[x]
    OBVIOUS
  <2>2. a \in Addresses
    BY <1>3, <2>1, RoutingAssumption
  <2>3. /\ Keys(keys, endpoints)[a] \in ToSet(endpoints)
        /\ x = Keys(keys, endpoints)[a] \/ Before(endpoints, x, Keys(keys, endpoints)[a])
    BY <1>2, <2>1, <2>2, KeyOf
  <2>4. keys[a] = Keys(keys, endpoints)[a]
    BY <1>2
  <2>5. QED
    BY <1>3, <2>1, <2>2, <2>3, <2>4, RoutingAssumption
<1>5. ASSUME NEW x \in ToSet(endpoints), AddressOf[x] = AddressOf[e]
      PROVE  ~Before(endpoints, e, x) /\ (x = e \/ Before(endpoints, x, e))
  <2>1. x = e \/ Before(endpoints, x, e)
    BY <1>1, <1>4, <1>5
  <2>2. CASE x = e
    BY <1>2, <2>2, BeforeOnce
  <2>3. CASE Before(endpoints, x, e)
    BY <1>2, <2>3, BeforeOnce
  <2>4. QED
    BY <2>1, <2>2, <2>3
<1>6. QED
  BY <1>1, <1>5

-----------------------------------------------------------------------------
(* Types.                                                                  *)

LEMMA TypeInit == Init => TypeOK
<1> SUFFICES ASSUME Init PROVE TypeOK
  OBVIOUS
<1>1. endpoints \in Seq(EndPoints) /\ IsInjective(endpoints)
  BY DEF Init, IsInjective
<1>2. keys = Keys(keys, endpoints)
  BY DEF Init, Keys, Entered, NoKeys
<1>3. changes \in 0 .. MaxChanges
  BY RoutingAssumption DEF Init
<1>4. QED
  BY <1>1, <1>2, <1>3 DEF Init, TypeOK

LEMMA KeysForget == \A old, more, es : Keys(old, es) = Keys(more, es)
BY DEF Keys

LEMMA TypeStep ==
  ASSUME TypeOK, [Next]_vars
  PROVE  TypeOK'
<1> USE DEF routing, cluster
<1>1. ASSUME NEW s \in Sessions, Create(s) PROVE TypeOK'
  <2>1. PICK r : r = Lookup(meta[s])
    OBVIOUS
  <2>2. r \in RuleNames \union Failures /\ Rewritten(meta[s], r) \in Values \union {NoValue}
    BY <2>1, FoundIsRule, RewrittenType DEF TypeOK
  <2>3. /\ found' = [found EXCEPT ![s] = r]
        /\ meta' = [meta EXCEPT ![s] = Rewritten(meta[s], r)]
        /\ state' = [state EXCEPT ![s] = IF Routes(r) THEN "routed" ELSE "failed"]
    BY <1>1, <2>1 DEF Create
  <2>4. /\ meta' \in [Sessions -> Values \union {NoValue}]
        /\ found' \in [Sessions -> RuleNames \union Failures \union {NoValue}]
        /\ state' \in [Sessions -> {"new", "routed", "failed", "connected"}]
    BY <2>2, <2>3 DEF TypeOK
  <2>5. \A t \in Sessions : IF state'[t] = "connected" THEN at'[t] \in EndPoints ELSE added'[t] = {}
    BY <1>1, <2>3 DEF TypeOK, Create
  <2>6. UNCHANGED <<table, ring, policy, endpoints, keys, changes, at, added, seen>>
    BY <1>1 DEF Create
  <2>7. QED
    BY <2>4, <2>5, <2>6 DEF TypeOK
<1>2. ASSUME NEW s \in Sessions, Connect(s) PROVE TypeOK'
  <2>1. PICK e \in Pick(meta[s]) : at' = [at EXCEPT ![s] = e]
    BY <1>2 DEF Connect
  <2>2. e \in EndPoints
    BY <1>2, <2>1, PickPresent DEF Connect, TypeOK, ToSet
  <2>3. UNCHANGED <<table, ring, policy, meta, found, endpoints, keys, changes, added>>
    BY <1>2 DEF Connect
  <2>4. state' = [state EXCEPT ![s] = "connected"]
    BY <1>2 DEF Connect
  <2>5. /\ at' \in [Sessions -> EndPoints \union {NoValue}]
        /\ state' \in [Sessions -> {"new", "routed", "failed", "connected"}]
        /\ \A t \in Sessions : IF state'[t] = "connected" THEN at'[t] \in EndPoints ELSE added'[t] = {}
    BY <2>1, <2>2, <2>3, <2>4 DEF TypeOK
  <2>6. seen' \in [Sessions -> SUBSET AllPoints]
    BY <1>2 DEF Connect, TypeOK, Points
  <2>7. QED
    BY <2>3, <2>5, <2>6 DEF TypeOK
<1>3. ASSUME NEW es, Change(es), es \in Seq(EndPoints), IsInjective(es)
      PROVE  /\ endpoints' \in Seq(EndPoints) /\ IsInjective(endpoints')
             /\ keys' = Keys(keys', endpoints') /\ changes' \in 0 .. MaxChanges
  <2>1. changes' \in 0 .. MaxChanges
    BY <1>3, RoutingAssumption DEF Change, TypeOK
  <2>2. QED
    BY <1>3, <2>1, KeysForget DEF Change
<1>4. ASSUME NEW e \in EndPoints, AddEndPoint(e) PROVE TypeOK'
  <2>1. Append(endpoints, e) \in Seq(EndPoints) /\ IsInjective(Append(endpoints, e))
    BY <1>4, AppendKeeps DEF AddEndPoint, TypeOK
  <2>2. Change(Append(endpoints, e))
    BY <1>4 DEF AddEndPoint
  <2>3. /\ endpoints' \in Seq(EndPoints) /\ IsInjective(endpoints')
        /\ keys' = Keys(keys', endpoints') /\ changes' \in 0 .. MaxChanges
    BY <1>3, <2>1, <2>2
  <2>4. /\ added' = [s \in Sessions |-> IF state[s] = "connected" THEN added[s] \union {e} ELSE {}]
        /\ UNCHANGED <<table, ring, policy, meta, found, state, at, seen>>
    BY <1>4 DEF AddEndPoint
  <2>5. /\ added' \in [Sessions -> SUBSET EndPoints]
        /\ \A t \in Sessions : IF state'[t] = "connected" THEN at'[t] \in EndPoints ELSE added'[t] = {}
    BY <2>4 DEF TypeOK
  <2>6. QED
    BY <2>3, <2>4, <2>5 DEF TypeOK
<1>5. ASSUME NEW e \in EndPoints, DeleteEndPoint(e) PROVE TypeOK'
  <2>1. Without(endpoints, e) \in Seq(EndPoints) /\ IsInjective(Without(endpoints, e))
    BY <1>5, WithoutKeeps DEF DeleteEndPoint, TypeOK
  <2>2. Change(Without(endpoints, e)) /\ UNCHANGED <<table, ring, policy, meta, found, state, at, added, seen>>
    BY <1>5 DEF DeleteEndPoint
  <2>3. /\ endpoints' \in Seq(EndPoints) /\ IsInjective(endpoints')
        /\ keys' = Keys(keys', endpoints') /\ changes' \in 0 .. MaxChanges
    BY <1>3, <2>1, <2>2
  <2>4. QED
    BY <2>2, <2>3 DEF TypeOK
<1>6. CASE UNCHANGED vars
  BY <1>6 DEF vars, TypeOK
<1>7. QED
  BY <1>1, <1>2, <1>4, <1>5, <1>6 DEF Next

\* Everything has its type, and the keys are those of the endpoints there are.
THEOREM RoutingTypeCorrect == Spec => []TypeOK
<1>1. Init => TypeOK
  BY TypeInit
<1>2. TypeOK /\ [Next]_vars => TypeOK'
  BY TypeStep
<1>3. QED
  BY <1>1, <1>2, PTL DEF Spec

-----------------------------------------------------------------------------
(* The lookup of a session follows the chain of lists.                     *)

\* A session gets the rule that the chain of deferred lookups leads to, whatever the
\* lists and their rules, and only a circle of lists exhausts the stack.
THEOREM LookupsFollowChains == Spec => LookupIsChain
<1> DEFINE Follows(s) ==
      state[s] = "new" /\ state'[s] # "new" =>
        LET ends == {p \in Chains(meta[s]) : Decides(p[Len(p)], found'[s], meta[s])} IN
        IF found'[s] = "overflow"
        THEN \A p \in Chains(meta[s]) : \E k \in ListNames : Defers(p[Len(p)], k, meta[s])
        ELSE ends # {}
<1>1. ASSUME TypeOK, [Next]_vars, NEW s \in Sessions, state[s] = "new", state'[s] # "new"
      PROVE  Follows(s)
  <2>1. found'[s] = Lookup(meta[s])
    <3>1. ASSUME NEW t \in Sessions, Create(t) PROVE found'[s] = Lookup(meta[s])
      <4>1. found' = [found EXCEPT ![t] = Lookup(meta[t])]
        BY <3>1 DEF Create
      <4>2. t = s
        BY <1>1, <3>1 DEF Create, TypeOK
      <4>3. QED
        BY <1>1, <4>1, <4>2 DEF TypeOK
    <3>2. ASSUME NEW t \in Sessions, Connect(t) PROVE FALSE
      BY <1>1, <3>2 DEF Connect, TypeOK
    <3>3. ASSUME NEW e \in EndPoints, AddEndPoint(e) \/ DeleteEndPoint(e) PROVE FALSE
      BY <1>1, <3>3 DEF AddEndPoint, DeleteEndPoint
    <3>4. CASE UNCHANGED vars
      BY <1>1, <3>4 DEF vars
    <3>5. QED
      BY <1>1, <3>1, <3>2, <3>3, <3>4 DEF Next
  <2>2. table \in Tables
    BY <1>1 DEF TypeOK
  <2>3. QED
    BY <2>1, <2>2, LookupFollowsChain
<1>2. TypeOK /\ [Next]_vars => [\A s \in Sessions : Follows(s)]_vars
  <2>1. ASSUME TypeOK, [Next]_vars, NEW s \in Sessions PROVE Follows(s)
    BY <1>1, <2>1
  <2> HIDE DEF Follows
  <2>2. QED
    BY <2>1
<1>3. QED
  BY <1>2, RoutingTypeCorrect, PTL DEF Spec, LookupIsChain

-----------------------------------------------------------------------------
(* Sessions with the same metadata get the same endpoint.                  *)

\* By the hash ring, the address of t has the nearest of the points that t has seen, and
\* of the endpoints that t has known its own is the last there.
AtNearest(t) ==
  /\ \E i \in DOMAIN ring[meta[t]] :
       /\ ring[meta[t]][i] \in seen[t] /\ ring[meta[t]][i][1] = AddressOf[at[t]]
       /\ \A j \in DOMAIN ring[meta[t]] : ring[meta[t]][j] \in seen[t] => i <= j
  /\ \A x \in ToSet(endpoints) \ added[t] :
       AddressOf[x] = AddressOf[at[t]] => ~Before(endpoints, at[t], x)

\* The trivial load balancer has given it the first one.
AtFirst(t) ==
  at[t] \in added[t] \/ \A x \in ToSet(endpoints) \ added[t] : ~Before(endpoints, x, at[t])

AtHome(t) ==
  state[t] = "connected" =>
    IF policy = "Trivial" THEN AtFirst(t) ELSE meta[t] # NoValue => AtNearest(t)

LEMMA HomeStep ==
  ASSUME TypeOK, [Next]_vars, NEW t \in Sessions, AtHome(t)
  PROVE  AtHome(t)'
<1> USE DEF routing, cluster
\* Changes of the cluster keep the order of the endpoints that t has known.
<1>1. ASSUME UNCHANGED <<policy, ring, meta, state, at, seen>>,
             added[t] \subseteq added'[t],
             \A x \in ToSet(endpoints') \ added'[t] : x \in ToSet(endpoints),
             \A x, y : Before(endpoints', x, y) =>
               Before(endpoints, x, y) \/ (state[t] = "connected" => y \in added'[t])
      PROVE  AtHome(t)'
  <2>1. SUFFICES ASSUME state[t] = "connected" PROVE AtHome(t)'
    BY <1>1 DEF AtHome
  <2>2. \A x \in ToSet(endpoints') \ added'[t] : x \in ToSet(endpoints) \ added[t]
    BY <1>1
  <2>3. ASSUME policy = "Trivial", AtFirst(t) PROVE AtFirst(t)'
    BY <1>1, <2>1, <2>2, <2>3 DEF AtFirst
  <2>4. ASSUME meta[t] # NoValue, AtNearest(t) PROVE AtNearest(t)'
    <3>1. \A x \in ToSet(endpoints') \ added'[t] :
            AddressOf[x] = AddressOf[at[t]] => ~Before(endpoints', at[t], x)
      BY <1>1, <2>1, <2>2, <2>4 DEF AtNearest
    <3>2. QED
      BY <1>1, <2>4, <3>1 DEF AtNearest
  <2>5. QED
    BY <1>1, <2>1, <2>3, <2>4 DEF AtHome
<1>2. ASSUME NEW s \in Sessions, Create(s) PROVE AtHome(t)'
  <2>1. CASE s = t
    BY <1>2, <2>1 DEF Create, AtHome, TypeOK
  <2>2. CASE s # t
    <3>1. /\ state'[t] = state[t] /\ meta'[t] = meta[t]
          /\ UNCHANGED <<policy, ring, endpoints, at, added, seen>>
      BY <1>2, <2>2 DEF Create, TypeOK
    <3>2. QED
      BY <3>1 DEF AtHome, AtFirst, AtNearest
  <2>3. QED
    BY <2>1, <2>2
<1>3. ASSUME NEW s \in Sessions, Connect(s) PROVE AtHome(t)'
  <2>1. CASE s # t
    <3>1. /\ state'[t] = state[t] /\ at'[t] = at[t] /\ seen'[t] = seen[t]
          /\ UNCHANGED <<policy, ring, endpoints, meta, added>>
      BY <1>3, <2>1 DEF Connect, TypeOK
    <3>2. QED
      BY <3>1 DEF AtHome, AtFirst, AtNearest
  <2>2. CASE s = t
    <3>1. PICK e \in Pick(meta[t]) : at'[t] = e
      BY <1>3, <2>2 DEF Connect, TypeOK
    <3>2. UNCHANGED <<policy, ring, endpoints, keys, meta, added>> /\ endpoints # <<>>
      BY <1>3 DEF Connect
    <3>3. added[t] = {} /\ seen'[t] = Points /\ meta[t] \in Values \union {NoValue}
      BY <1>3, <2>2 DEF Connect, TypeOK
    <3>4. CASE policy = "Trivial"
      BY <3>1, <3>2, <3>3, <3>4, FirstPicked DEF AtHome, AtFirst
    <3>5. CASE policy # "Trivial" /\ meta[t] # NoValue
      BY <3>1, <3>2, <3>3, <3>5, NearestPicked DEF AtHome, AtNearest
    <3>6. CASE policy # "Trivial" /\ meta[t] = NoValue
      BY <3>2, <3>6 DEF AtHome
    <3>7. QED
      BY <3>4, <3>5, <3>6
  <2>3. QED
    BY <2>1, <2>2
<1>4. ASSUME NEW e \in EndPoints, AddEndPoint(e) PROVE AtHome(t)'
  <2>1. /\ endpoints' = Append(endpoints, e) /\ e \notin ToSet(endpoints)
        /\ added'[t] = IF state[t] = "connected" THEN added[t] \union {e} ELSE {}
        /\ UNCHANGED <<policy, ring, meta, state, at, seen>>
    BY <1>4 DEF AddEndPoint, Change
  <2>2. ToSet(endpoints') = ToSet(endpoints) \union {e}
        /\ \A x, y : Before(endpoints', x, y) => Before(endpoints, x, y) \/ y = e
    BY <2>1, AppendKeeps DEF TypeOK
  <2>3. CASE state[t] = "connected"
    BY <1>1, <2>1, <2>2, <2>3
  <2>4. CASE state[t] # "connected"
    BY <2>1, <2>4 DEF AtHome
  <2>5. QED
    BY <2>3, <2>4
<1>5. ASSUME NEW e \in EndPoints, DeleteEndPoint(e) PROVE AtHome(t)'
  <2>1. /\ endpoints' = Without(endpoints, e) /\ e \in ToSet(endpoints)
        /\ UNCHANGED <<policy, ring, meta, state, at, added, seen>>
    BY <1>5 DEF DeleteEndPoint, Change
  <2>2. ToSet(endpoints') \subseteq ToSet(endpoints)
        /\ \A x, y : Before(endpoints', x, y) => Before(endpoints, x, y)
    BY <2>1, WithoutKeeps DEF TypeOK
  <2>3. QED
    BY <1>1, <2>1, <2>2
<1>6. CASE UNCHANGED vars
  BY <1>6 DEF vars, AtHome, AtFirst, AtNearest
<1>7. QED
  BY <1>2, <1>3, <1>4, <1>5, <1>6 DEF Next

\* Sessions are at home where the load balancer has put them.
LEMMA HomeInvariant == Spec => [](\A t \in Sessions : AtHome(t))
<1>1. Init => \A t \in Sessions : AtHome(t)
  BY DEF Init, AtHome
<1>2. TypeOK /\ (\A t \in Sessions : AtHome(t)) /\ [Next]_vars => (\A t \in Sessions : AtHome(t))'
  BY HomeStep
<1>3. QED
  BY <1>1, <1>2, RoutingTypeCorrect, PTL DEF Spec

\* A session gets an endpoint of the cluster, and the one that another session of the same
\* metadata has, unless endpoints were deleted or added in a way that forces another, or
\* that gives their addresses other shares of the hash ring: for any endpoints, weights,
\* addresses, order of the points and changes of the cluster (HashRingLoadBalancer).
THEOREM ChangesMoveNoSession == Spec => Affinity
<1> DEFINE Stays(s) ==
      state[s] = "routed" /\ state'[s] = "connected" =>
        /\ at'[s] \in ToSet(endpoints)
        /\ \A t \in Sessions :
             state[t] = "connected" /\ meta[t] = meta[s] /\ meta[s] # NoValue
               => \/ at'[s] = at[t] \/ at[t] \notin ToSet(endpoints)
                  \/ at'[s] \in added[t] \/ Reweighted(t, AddressOf[at'[s]])
                  \/ policy = "Trivial" /\ at[t] \in added[t]
<1>1. ASSUME TypeOK, \A t \in Sessions : AtHome(t), [Next]_vars, NEW s \in Sessions,
             state[s] = "routed", state'[s] = "connected"
      PROVE  Stays(s)
  <2>1. Connect(s)
    <3>1. ASSUME NEW t \in Sessions, Create(t) PROVE FALSE
      BY <1>1, <3>1 DEF Create, TypeOK
    <3>2. ASSUME NEW t \in Sessions, Connect(t) PROVE Connect(s)
      BY <1>1, <3>2 DEF Connect, TypeOK
    <3>3. ASSUME NEW e \in EndPoints, AddEndPoint(e) \/ DeleteEndPoint(e) PROVE FALSE
      BY <1>1, <3>3 DEF AddEndPoint, DeleteEndPoint
    <3>4. CASE UNCHANGED vars
      BY <1>1, <3>4 DEF vars
    <3>5. QED
      BY <1>1, <3>1, <3>2, <3>3, <3>4 DEF Next
  <2>2. PICK e \in Pick(meta[s]) : at'[s] = e
    BY <1>1, <2>1 DEF Connect, TypeOK
  <2>3. endpoints # <<>> /\ meta[s] \in Values \union {NoValue}
    BY <1>1, <2>1 DEF Connect, TypeOK
  <2>4. e \in ToSet(endpoints)
    BY <1>1, <2>3, PickPresent
  <2>5. ASSUME NEW t \in Sessions, state[t] = "connected", meta[t] = meta[s], meta[s] # NoValue,
               at[t] \in ToSet(endpoints), e \notin added[t], ~Reweighted(t, AddressOf[e]),
               ~(policy = "Trivial" /\ at[t] \in added[t])
        PROVE  e = at[t]
    <3>1. CASE policy = "Trivial"
      <4>1. ~Before(endpoints, e, at[t])
        BY <1>1, <2>4, <2>5, <3>1 DEF AtHome, AtFirst
      <4>2. QED
        BY <1>1, <2>2, <2>3, <2>5, <3>1, <4>1, FirstPicked
    <3>2. CASE policy # "Trivial"
      <4>1. AtNearest(t)
        BY <1>1, <2>5, <3>2 DEF AtHome
      <4>2. PICK i \in DOMAIN ring[meta[s]] :
              /\ ring[meta[s]][i] \in Points /\ ring[meta[s]][i][1] = AddressOf[e]
              /\ \A j \in DOMAIN ring[meta[s]] : ring[meta[s]][j] \in Points => i <= j
        BY <1>1, <2>2, <2>3, <2>5, <3>2, NearestPicked
      <4>3. PICK k \in DOMAIN ring[meta[s]] :
              /\ ring[meta[s]][k] \in seen[t] /\ ring[meta[s]][k][1] = AddressOf[at[t]]
              /\ \A j \in DOMAIN ring[meta[s]] : ring[meta[s]][j] \in seen[t] => k <= j
        BY <2>5, <4>1 DEF AtNearest
      <4>4. i \in Nat /\ k \in Nat
        <5>1. ring[meta[s]] \in Seq(AllPoints)
          BY <1>1, <2>3, <2>5, RoutingAssumption DEF TypeOK
        <5>2. QED
          BY <4>2, <4>3, <5>1
      <4>5. AddressOf[e] = AddressOf[at[t]]
        <5>1. SUFFICES ASSUME AddressOf[e] # AddressOf[at[t]] PROVE FALSE
          OBVIOUS
        <5>2. policy = "HashRing"
          BY <1>1, <3>2 DEF TypeOK
        <5>3. ring[meta[s]][k] \in Points /\ ring[meta[s]][i] \in seen[t]
          BY <2>5, <4>2, <4>3, <5>1, <5>2 DEF Reweighted
        <5>4. i = k
          BY <4>2, <4>3, <4>4, <5>3
        <5>5. QED
          BY <4>2, <4>3, <5>1, <5>4
      <4>6. ~Before(endpoints, at[t], e)
        BY <2>4, <2>5, <4>1, <4>5 DEF AtNearest
      <4>7. at[t] = e \/ Before(endpoints, at[t], e)
        BY <1>1, <2>2, <2>3, <2>5, <3>2, <4>5, NearestPicked
      <4>8. QED
        BY <4>6, <4>7
    <3>3. QED
      BY <3>1, <3>2
  <2>6. QED
    BY <2>2, <2>4, <2>5
<1>2. TypeOK /\ (\A t \in Sessions : AtHome(t)) /\ [Next]_vars => [\A s \in Sessions : Stays(s)]_vars
  <2>1. ASSUME TypeOK, \A t \in Sessions : AtHome(t), [Next]_vars, NEW s \in Sessions PROVE Stays(s)
    BY <1>1, <2>1
  <2> HIDE DEF Stays
  <2>2. QED
    BY <2>1
<1>3. QED
  BY <1>2, RoutingTypeCorrect, HomeInvariant, PTL DEF Spec, Affinity

=================================================================================
