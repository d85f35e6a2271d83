-------------------------------- MODULE MCRouting --------------------------------
(* Two rulelists of up to two rules: rules that defer, that rewrite, that have no *)
(* route, and that are not defined.  Endpoints of two weights, two of them at one *)
(* address.                                                                       *)
EXTENDS Routing

Lists2 == {"l1", "l2"}
Rules3 == {"r1", "r2", "r3"}
Nobody == "none"
Star == "*"
Shared == [e1 |-> "a1", e2 |-> "a1", e3 |-> "a2", e4 |-> "a3"]
Weights == [e1 |-> 1, e2 |-> 2, e3 |-> 1, e4 |-> 2]

\* The first points decide: an address keeps or loses its second point when others come.
InOrder ==
  [k \in 1 .. Cardinality(AllPoints) |->
     <<(<<"a1", "a2", "a3">>)[((k - 1) % 3) + 1], ((k - 1) \div 3) + 1>>]
Ring(first) == first \o SelectSeq(InOrder, LAMBDA p : p \notin ToSet(first))
MCRings == {Ring(<<<<"a1", 2>>, <<"a2", 1>>, <<"a3", 1>>>>), Ring(<<<<"a3", 2>>, <<"a2", 2>>>>)}

RuleSeqs == {<<"r1">>, <<"r2">>, <<"r1", "r2">>, <<"r1", "r3">>, <<"r3", "r2">>}

DefersTo(l, m) == [match |-> m, apply |-> l, rewrite |-> Nobody, route |-> Nobody]
Leads(route, m, v) == [match |-> m, apply |-> Nobody, rewrite |-> v, route |-> route]

Defined == [r1 : {DefersTo(l, m) : l \in Lists2, m \in {"v1", Star}},
            r2 : {Leads("up", Star, "v1"), Leads("up", "v2", Nobody), DefersTo("l1", Star)}]

MCTables ==
  {[lists |-> ls, rules |-> rs, routes |-> {"up"}] :
     ls \in [{"l1"} -> RuleSeqs] \union [Lists2 -> RuleSeqs], rs \in Defined}

\* What each table does with any metadata shows from the initial states; later, tables
\* of which the new sessions get the same are one, and the hash ring is only told apart
\* where it is used.
Outcome(s) ==
  LET r == Lookup(meta[s]) IN
  IF state[s] = "new" THEN <<r, Rewritten(meta[s], r), Routes(r)>> ELSE <<>>

View ==
  <<IF changes = 0 /\ \A s \in Sessions : state[s] = "new" THEN <<table>>
    ELSE [s \in Sessions |-> Outcome(s)],
    IF policy = "HashRing" THEN <<ring, seen>> ELSE <<>>,
    policy, endpoints, keys, state, meta, at, added, changes>>
================================================================================
