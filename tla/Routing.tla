-------------------------------- MODULE Routing --------------------------------
(***************************************************************************)
(* How a new session finds its way: create() looks up the rules of its     *)
(* listener, rewrites its metadata and gets its route, in one turn; later, *)
(* when the endpoints of the cluster may be others, the load balancer      *)
(* picks one by the rewritten metadata.                                    *)
(*                                                                         *)
(* The metadata is one value, which rules match, rewrite and hash on.      *)
(* Rulelists and rules are found by name when they are needed.             *)
(***************************************************************************)
EXTENDS Naturals, Sequences, FiniteSets, SequencesExt

CONSTANTS
  ListNames,     \* rulelists that a rule or a listener may refer to
  Start,         \* the rulelist of the listener
  Values,        \* of the metadata
  NoValue,       \* the metadata has no such field; of a rule: it rewrites nothing
  Wildcard,      \* the match of a rule that matches everything
  RuleNames,     \* rules that a rulelist may have
  Tables,        \* rulelists, rules and routes that are defined
  Sessions,
  EndPoints, Addresses, AddressOf,   \* endpoints and their addresses
  WeightOf,      \* of an endpoint
  VNodes,        \* of the hash ring: the points that an address has on average (40)
  Rings,         \* orders in which a hash ring may have the points of all addresses
  MaxDepth,      \* bound: lookups on the stack
  MaxChanges     \* bound: changes of the cluster

\* What a lookup finds when it finds no rule with a route.
Failures == {"no list", "no rule", "no match", "overflow"}

\* The points that addresses may have in the hash ring, numbered for each address.
AllPoints == {<<a, i>> : a \in Addresses, i \in 1 .. VNodes * Cardinality(Addresses)}

\* Lists are of rules, defined or not, and the metadata is rewritten to a value.
TableOK(t) ==
  /\ \A l \in DOMAIN t.lists : t.lists[l] \in Seq(RuleNames)
  /\ \A r \in DOMAIN t.rules : t.rules[r].rewrite \in Values \union {NoValue}

ASSUME RoutingAssumption ==
  /\ Start \in ListNames /\ IsFiniteSet(ListNames)
  /\ RuleNames \intersect Failures = {}
  /\ \A t \in Tables : TableOK(t)
  /\ MaxDepth \in Nat /\ Cardinality(ListNames) <= MaxDepth
  /\ IsFiniteSet(Addresses) /\ AddressOf \in [EndPoints -> Addresses]
  /\ WeightOf \in [EndPoints -> Nat \ {0}] /\ VNodes \in Nat \ {0}
  /\ \A r \in Rings : r \in Seq(AllPoints) /\ IsInjective(r) /\ ToSet(r) = AllPoints
  /\ NoValue \notin Values /\ NoValue \notin EndPoints
  /\ MaxChanges \in Nat

VARIABLES
  table,      \* the rulelists, rules and routes
  endpoints,  \* Cluster.endpoints
  keys,       \* of the load balancer: of an address the endpoint, or NoValue
  policy,     \* of the load balancer
  ring,       \* of a value: all points, in the order in which a hash ring tries those it has
  state,      \* of a session: "new", "routed", "failed" or "connected"
  meta,       \* its metadata
  found,      \* what its lookup has found: a rule, or why there is none
  at,         \* the endpoint it is connected to
  added,      \* history: endpoints added since it was connected
  seen,       \* history: the points of the hash ring when it was connected
  changes

routing == <<table, ring, policy, meta, found>>
cluster == <<endpoints, keys, changes>>
vars == <<table, endpoints, keys, policy, ring, state, meta, found, at, added, seen,
          changes>>

-----------------------------------------------------------------------------
(* Rules and rulelists.                                                    *)

List(l) == table.lists[l]
Rule(r) == table.rules[r]
DefinedList(l) == l \in DOMAIN table.lists
DefinedRule(r) == r \in DOMAIN table.rules
Matches(r, m) == Rule(r).match \in {m, Wildcard}

\* Mutant: a rule that is not defined is passed over.
StopsAtMatch(l, i, m) == DefinedRule(List(l)[i]) /\ Matches(List(l)[i], m)

\* Position i is where the loop over the rules of l leaves off: the rule there has a
\* match, or there is no such rule.
Stops(l, i, m) == ~DefinedRule(List(l)[i]) \/ Matches(List(l)[i], m)

FirstStop(l, m) ==
  LET S == {i \in DOMAIN List(l) : Stops(l, i, m)}
  IN {i \in S : \A j \in S : i <= j}

\* The loop over the rules of l: the first that matches decides, and another list
\* does if it defers to it, with no way back.
Verdict(l, m, deferred) ==
  IF ~DefinedList(l) THEN "no list"
  ELSE IF FirstStop(l, m) = {} THEN "no match"
  ELSE LET r == List(l)[CHOOSE i \in FirstStop(l, m) : TRUE] IN
       IF ~DefinedRule(r) THEN "no rule"
       ELSE IF Rule(r).apply \in ListNames THEN deferred[Rule(r).apply] ELSE r

\* lookup(), which calls itself as often as the stack allows.
Lookups(m) ==
  LET At[n \in 0 .. MaxDepth] ==
        [l \in ListNames |-> IF n = 0 THEN "overflow" ELSE Verdict(l, m, At[n - 1])]
  IN At

Lookup(m) == Lookups(m)[MaxDepth][Start]

\* The session's metadata is rewritten by the rule that is found, not by those that
\* defer to it, also if its route turns out to be undefined.
Rewritten(m, r) == IF r \in Failures \/ Rule(r).rewrite = NoValue THEN m ELSE Rule(r).rewrite

Routes(r) == r \notin Failures /\ Rule(r).route \in table.routes

\* create()
Create(s) ==
  /\ state[s] = "new"
  /\ LET r == Lookup(meta[s]) IN
       /\ found' = [found EXCEPT ![s] = r]
       /\ meta' = [meta EXCEPT ![s] = Rewritten(meta[s], r)]
       /\ state' = [state EXCEPT ![s] = IF Routes(r) THEN "routed" ELSE "failed"]
  /\ UNCHANGED <<table, ring, policy, cluster, at, added, seen>>

-----------------------------------------------------------------------------
(* Endpoints and the load balancer.                                        *)

NoKeys == [a \in Addresses |-> NoValue]

\* Each endpoint in turn is entered at its address.
Entered(old, es) ==
  [a \in Addresses |->
     LET S == {i \in DOMAIN es : AddressOf[es[i]] = a}
     IN IF S = {} THEN old[a] ELSE es[CHOOSE i \in S : \A j \in S : j <= i]]

\* Mutant: the keys of endpoints that are gone stay.
KeysKept(old, es) == Entered(old, es)

\* update(): the keys are built anew.
Keys(old, es) == Entered(NoKeys, es)

Change(es) ==
  /\ changes < MaxChanges /\ changes' = changes + 1
  /\ endpoints' = es
  /\ keys' = Keys(keys, es)

AddEndPoint(e) ==
  /\ e \notin ToSet(endpoints)
  /\ Change(Append(endpoints, e))
  /\ added' = [s \in Sessions |-> IF state[s] = "connected" THEN added[s] \union {e} ELSE {}]
  /\ UNCHANGED <<routing, state, at, seen>>

\* findIndex() and splice().
Without(es, e) == RemoveAt(es, CHOOSE i \in DOMAIN es : es[i] = e)

DeleteEndPoint(e) ==
  /\ e \in ToSet(endpoints)
  /\ Change(Without(endpoints, e))
  /\ UNCHANGED <<routing, state, at, added, seen>>

\* new HashRing(): the ring is built anew with each update, and an address gets points by
\* the share of its endpoint's weight in that of all keys.
Keyed == {a \in Addresses : keys[a] # NoValue}
Weight(a) == WeightOf[keys[a]]
Points ==
  {p \in AllPoints : p[1] \in Keyed /\
     p[2] * MapThenSumSet(Weight, Keyed) <= Weight(p[1]) * VNodes * Cardinality(Keyed)}

\* HashRing.get(): the address of the first point in the order of the ring.
Nearest(m) ==
  LET S == {i \in DOMAIN ring[m] : ring[m][i] \in Points}
  IN {ring[m][i][1] : i \in {k \in S : \A j \in S : k <= j}}

\* apply(): "Trivial" takes the first endpoint, "HashRing" hashes the metadata, or a
\* random number if there is none.
Pick(m) ==
  IF policy = "Trivial" THEN {endpoints[1]}
  ELSE {keys[a] : a \in IF m = NoValue THEN {p[1] : p \in Points} ELSE Nearest(m)}

\* The stage connects to the endpoint that the load balancer picks, when there is one.
Connect(s) ==
  /\ state[s] = "routed" /\ endpoints # <<>>
  /\ \E e \in Pick(meta[s]) : at' = [at EXCEPT ![s] = e]
  /\ state' = [state EXCEPT ![s] = "connected"]
  /\ seen' = [seen EXCEPT ![s] = Points]
  /\ UNCHANGED <<routing, cluster, added>>

-----------------------------------------------------------------------------

Init ==
  /\ table \in Tables
  /\ policy \in {"Trivial", "HashRing"}
  /\ ring \in [Values -> Rings]
  /\ endpoints = <<>> /\ keys = NoKeys /\ changes = 0
  /\ state = [s \in Sessions |-> "new"]
  /\ meta \in [Sessions -> Values \union {NoValue}]
  /\ found = [s \in Sessions |-> NoValue] /\ at = [s \in Sessions |-> NoValue]
  /\ added = [s \in Sessions |-> {}] /\ seen = [s \in Sessions |-> {}]

Next ==
  \/ \E s \in Sessions : Create(s) \/ Connect(s)
  \/ \E e \in EndPoints : AddEndPoint(e) \/ DeleteEndPoint(e)

Spec == Init /\ [][Next]_vars

-----------------------------------------------------------------------------
(* Properties.                                                             *)

\* The type invariant: a session that is connected has an endpoint, and only such a
\* session remembers what was added since.
TypeOK ==
  /\ table \in Tables /\ policy \in {"Trivial", "HashRing"}
  /\ ring \in [Values -> Rings]
  /\ endpoints \in Seq(EndPoints) /\ IsInjective(endpoints)
  /\ keys = Keys(keys, endpoints) /\ changes \in 0 .. MaxChanges
  /\ state \in [Sessions -> {"new", "routed", "failed", "connected"}]
  /\ meta \in [Sessions -> Values \union {NoValue}]
  /\ found \in [Sessions -> RuleNames \union Failures \union {NoValue}]
  /\ at \in [Sessions -> EndPoints \union {NoValue}]
  /\ added \in [Sessions -> SUBSET EndPoints] /\ seen \in [Sessions -> SUBSET AllPoints]
  /\ \A s \in Sessions : IF state[s] = "connected" THEN at[s] \in EndPoints ELSE added[s] = {}

\* What the rules say, with no word on loops and stacks: a list decides by the first
\* of its rules that matches, or that is not defined.
Silent(l, i, m) == DefinedRule(List(l)[i]) /\ Rule(List(l)[i]).match \notin {m, Wildcard}
Speaks(l, i, m) ==
  /\ i \in DOMAIN List(l) /\ \A j \in 1 .. i - 1 : Silent(l, j, m)
  /\ DefinedRule(List(l)[i]) => ~Silent(l, i, m)

Defers(l, k, m) ==
  DefinedList(l) /\ \E i \in DOMAIN List(l) :
    Speaks(l, i, m) /\ DefinedRule(List(l)[i]) /\ Rule(List(l)[i]).apply = k

Decides(l, o, m) ==
  \/ ~DefinedList(l) /\ o = "no list"
  \/ DefinedList(l) /\ o = "no match" /\ \A i \in DOMAIN List(l) : Silent(l, i, m)
  \/ DefinedList(l) /\ \E i \in DOMAIN List(l) :
       /\ Speaks(l, i, m)
       /\ IF DefinedRule(List(l)[i]) THEN o = List(l)[i] /\ Rule(o).apply \notin ListNames
          ELSE o = "no rule"

\* Lists that defer to each other from the listener's on, none of them twice.
Chains(m) ==
  {p \in UNION {[1 .. n -> ListNames] : n \in 1 .. Cardinality(ListNames)} :
     /\ p[1] = Start /\ IsInjective(p)
     /\ \A i \in 1 .. Len(p) - 1 : Defers(p[i], p[i + 1], m)}

\* The rule of a session is the one that the chain of deferred lookups leads to; a
\* lookup that exhausts the stack is one whose lists defer to each other in a circle,
\* and no list on the way has a second chance.
LookupIsChain ==
  [][\A s \in Sessions : state[s] = "new" /\ state'[s] # "new" =>
       LET ends == {p \in Chains(meta[s]) : Decides(p[Len(p)], found'[s], meta[s])} IN
       IF found'[s] = "overflow"
       THEN \A p \in Chains(meta[s]) : \E k \in ListNames : Defers(p[Len(p)], k, meta[s])
       ELSE ends # {}]_vars

\* Since t was connected, the weights have changed so that the address of its endpoint
\* has lost points of the hash ring, or another address, b, has got some.
Reweighted(t, b) ==
  /\ policy = "HashRing" /\ b # AddressOf[at[t]]
  /\ \/ \E p \in seen[t] \ Points : p[1] = AddressOf[at[t]]
     \/ \E p \in Points \ seen[t] : p[1] = b

\* A session gets an endpoint that the cluster has at the time, and the one that another
\* session with the same metadata has got, unless that is gone, the session's own was
\* added since, or their shares of the hash ring have shifted, which endpoints of equal
\* weights do not; or, with the trivial load balancer, the other's was deleted and added
\* again: changes move no session without need, whatever addresses the endpoints share.
Affinity ==
  [][\A s \in Sessions : state[s] = "routed" /\ state'[s] = "connected" =>
       /\ at'[s] \in ToSet(endpoints)
       /\ \A t \in Sessions :
            state[t] = "connected" /\ meta[t] = meta[s] /\ meta[s] # NoValue
              => \/ at'[s] = at[t] \/ at[t] \notin ToSet(endpoints)
                 \/ at'[s] \in added[t] \/ Reweighted(t, AddressOf[at'[s]])
                 \/ policy = "Trivial" /\ at[t] \in added[t]]_vars
=============================================================================
