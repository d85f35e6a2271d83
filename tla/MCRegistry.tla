------------------------------ MODULE MCRegistry ------------------------------
(* Small requests for TLC: a listener with everything inline, objects that  *)
(* refer to each other by name, and their deletions.                        *)
EXTENDS Registry

Unnamed == 0

Inline(n, parts) == [name |-> n, inline |-> TRUE, parts |-> parts]
Ref(n) == [name |-> n, inline |-> FALSE, parts |-> <<>>]

\* A route with a destination and an ingress chain of one cluster, both inline.
Destination == Inline(Unnamed, <<Inline(1, <<>>)>>)
Chain == Inline(Unnamed, <<Inline(Unnamed, <<>>)>>)
FullRoute(n) == Inline(n, <<Destination, Chain>>)

\* The parts of the requests below, and theirs.
AllItems ==
  {Ref(1), Ref(2), Inline(1, <<>>), Inline(2, <<>>), Inline(Unnamed, <<>>), Destination, Chain,
   FullRoute(Unnamed), FullRoute(1), Inline(Unnamed, <<FullRoute(Unnamed)>>), Inline(1, <<Ref(1)>>),
   Inline(Unnamed, <<Inline(Unnamed, <<FullRoute(Unnamed)>>), Ref(1)>>),
   Inline(1, <<Inline(1, <<Ref(1)>>)>>)}

Additions ==
  { [do |-> "addListener", auto |-> FALSE,
     item |-> Inline(1, <<Inline(Unnamed, <<Inline(Unnamed, <<FullRoute(Unnamed)>>), Ref(1)>>)>>)],
    [do |-> "addListener", auto |-> FALSE, item |-> Inline(1, <<Ref(1)>>)],
    [do |-> "addRuleList", auto |-> FALSE,
     item |-> Inline(1, <<Inline(1, <<Inline(1, <<Ref(1)>>)>>), Ref(2)>>)],
    [do |-> "addRuleToRuleList", name |-> 1, item |-> Inline(2, <<Ref(1)>>), pos |-> 1],
    [do |-> "addRule", auto |-> FALSE, item |-> Inline(2, <<FullRoute(1)>>)],
    [do |-> "addRule", auto |-> FALSE, item |-> Inline(1, <<>>)],
    [do |-> "addRoute", auto |-> FALSE, item |-> FullRoute(1)],
    [do |-> "addCluster", auto |-> FALSE, item |-> Inline(1, <<Inline(1, <<>>), Inline(2, <<>>)>>)],
    [do |-> "addEndPoint", cluster |-> 1, name |-> 1] }

Deletions ==
  [do : {"deleteListener", "deleteRuleList", "deleteRule", "deleteRoute", "deleteCluster",
         "deleteEndPoint"}, name : {1}, rec : BOOLEAN]
    \union [do : {"deleteRuleFromRuleList"}, name : {1}, pos : 0 .. 1, rec : BOOLEAN]

AllRequests == Additions \union Deletions
=============================================================================
