------------------------------- MODULE Registry -------------------------------
(***************************************************************************)
(* The registry of listeners, rulelists, rules, routes, clusters and       *)
(* endpoints, and the API operations that add and delete them.  Objects    *)
(* refer to each other by name.  A request may define an object inline,    *)
(* inside the one that refers to it; such an object is autogenerated.      *)
(*                                                                         *)
(* A task is one operation in progress, as a stack of what is left to do.  *)
(* Code runs to the next await without interruption (turn is the task that *)
(* runs); at an await any task may go on.  The static configuration starts *)
(* all its additions at once, so that tasks overlap at every await.        *)
(***************************************************************************)
EXTENDS Integers, Sequences

CONSTANTS
  Tasks,       \* operations in progress at the same time
  Items,       \* the objects that requests define inline or refer to
  Requests,    \* the operations that clients and the configuration ask for
  MaxObjects,  \* bound: objects created
  MaxCalls,    \* bound: operations
  MaxFaults    \* bound: listeners and clusters that do not start, sessions in the way

Kinds == {"listener", "rulelist", "rule", "route", "cluster", "endpoint"}
Ids == 1 .. MaxObjects
NoTask == 0

\* What a request says of an object: a name, or none (0), whether the object is
\* defined here or by its name, and the objects it refers to.
Item == [name : Int, inline : BOOLEAN, parts : Seq(Items)]

Asked ==
  [do : {"addListener"}, auto : {FALSE}, item : {x \in Item : x.parts # <<>>}]
    \union [do : {"addRuleList", "addRule", "addRoute", "addCluster"}, auto : {FALSE}, item : Item]
    \union [do : {"addRuleToRuleList"}, name : Int, item : Item, pos : Nat]
    \union [do : {"addEndPoint"}, cluster : Int, name : Int]
    \union [do : {"deleteListener", "deleteRuleList", "deleteRule", "deleteRoute",
                  "deleteCluster", "deleteEndPoint"}, name : Int, rec : BOOLEAN]
    \union [do : {"deleteRuleFromRuleList"}, name : Int, pos : Nat, rec : BOOLEAN]

ASSUME RegistryAssumption ==
  /\ NoTask \notin Tasks
  /\ Items \subseteq Item /\ Requests \subseteq Asked
  /\ MaxObjects \in Nat /\ MaxCalls \in Nat /\ MaxFaults \in Nat

VARIABLES
  made,     \* the number of objects created
  gen,      \* names generated (the indices of the classes)
  obj,      \* kind, name, autogenerated, and the names an object refers to
  listed,   \* the objects in the arrays; an array has them in the order of creation
  task,     \* the stack of each task
  turn,     \* the task whose code is running
  up,       \* whether the process runs
  calls, faults,
  raced,    \* history: <<kind, name>> that two tasks added at the same time
  strays    \* history: objects that lost their owner by a failure, a plain
            \* deletion, or a deletion that overtook an addition

objects == <<made, obj, listed>>
vars == <<made, gen, obj, listed, task, turn, up, calls, faults, raced, strays>>

-----------------------------------------------------------------------------
(* Lookups by name.                                                        *)

Named(k, n) == {i \in listed : obj[i].kind = k /\ obj[i].name = n}

Defined(k, n) == Named(k, n) # {}

\* find() and findIndex(): the first of that name in the array.
The(k, n) == CHOOSE i \in Named(k, n) : \A j \in Named(k, n) : i <= j

\* A fault: the flag is not looked at.
ImplicitOrNot(k, n) == Defined(k, n)

\* An object that a recursive deletion deletes with its owner.
Implicit(k, n) == Defined(k, n) /\ obj[The(k, n)].auto

Elements(s) == {s[i] : i \in 1 .. Len(s)}

\* splice() inserts at the end when the position is beyond it.
Insert(s, pos, n) ==
  IF pos > Len(s) THEN Append(s, n)
  ELSE SubSeq(s, 1, pos) \o <<n>> \o SubSeq(s, pos + 1, Len(s))

\* splice() removes nothing when the position is beyond the end.
RemoveAt(s, pos) ==
  IF pos < Len(s) THEN SubSeq(s, 1, pos) \o SubSeq(s, pos + 2, Len(s)) ELSE s

\* findIndex() and splice(): the first n leaves.
First(s, n) ==
  CHOOSE p \in 1 .. Len(s) : s[p] = n /\ \A q \in 1 .. Len(s) : s[q] = n => p <= q

Without(s, n) == IF n \in Elements(s) THEN RemoveAt(s, First(s, n) - 1) ELSE s

-----------------------------------------------------------------------------
(* Types.                                                                  *)

Objects == [kind : Kinds \union {"none"}, name : Int, auto : BOOLEAN, refs : Seq(Int)]

\* A frame is a call, or what is left of one after the calls it makes.
Frames ==
  Asked
    \union [do : {"addRuleList", "addRule", "addRoute", "addCluster"}, auto : {TRUE}, item : Item]
    \union [do : {"pushListener"}, name : Int, rules : Int]
    \union [do : {"runListener", "runCluster"}, id : Ids]
    \union [do : {"fillRuleList"}, id : Ids, rest : Seq(Items), pos : Nat]
    \union [do : {"addRuleTo"}, id : Ids, item : Item, pos : Nat]
    \union [do : {"insertRule"}, id : Ids, name : Int, pos : Nat]
    \union [do : {"bindRoute"}, id : Ids, name : Int]
    \union [do : {"fillRoute"}, name : Int, auto : BOOLEAN, done : Seq(Int), rest : Seq(Items)]
    \union [do : {"fillCluster"}, id : Ids, rest : Seq(Items)]
    \union [do : {"unlist"}, id : Ids, rec : BOOLEAN]
    \union [do : {"rulesOf", "clustersOf"}, id : Ids, rest : Seq(Int)]
    \union [do : {"endpointsOf"}, id : Ids, rest : Seq(Int), rec : BOOLEAN]
    \union [do : {"removeRule"}, id : Ids, pos : Nat, rec : BOOLEAN]
    \union [do : {"fail"}]

TypeOK ==
  /\ made \in 0 .. MaxObjects /\ gen \in Nat
  /\ obj \in [Ids -> Objects]
  /\ listed \subseteq 1 .. made
  /\ \A i \in Ids : obj[i].kind = "none" <=> i > made
  /\ task \in [Tasks -> Seq(Frames)]
  /\ turn \in Tasks \union {NoTask} /\ up \in BOOLEAN
  /\ calls \in 0 .. MaxCalls /\ faults \in 0 .. MaxFaults
  /\ raced \subseteq {"listener", "route"} \X Int
  /\ strays \subseteq Ids

-----------------------------------------------------------------------------
(* Owners.                                                                 *)

OwnerKind == [rulelist |-> "listener", rule |-> "rulelist", route |-> "rule",
              cluster |-> "route"]

Owned(i) ==
  \E j \in listed : obj[j].kind = OwnerKind[obj[i].kind] /\ obj[i].name \in Elements(obj[j].refs)

\* A task is about to bind the object to its owner.
Pending(i) ==
  \E t \in Tasks : \E x \in Elements(task[t]) :
    \/ x.do = "insertRule" /\ obj[i].kind = "rule" /\ x.name = obj[i].name
    \/ x.do = "bindRoute" /\ obj[i].kind = "route" /\ x.name = obj[i].name
    \/ x.do = "pushListener" /\ obj[i].kind = "rulelist" /\ x.rules = obj[i].name
    \/ x.do = "fillRoute" /\ obj[i].kind = "cluster" /\ obj[i].name \in Elements(x.done)

Orphans == {i \in listed : obj[i].auto /\ ~Owned(i) /\ ~Pending(i)}

\* A step after which objects may be left without an owner.
LeavesStrays == strays' = strays \union Orphans'

-----------------------------------------------------------------------------
(* Control: a task goes on with the frames in xs before the rest of its    *)
(* stack, at once or after an await; or it throws, which nothing catches   *)
(* but the two rollbacks, which are frames of their own.                   *)

Runs(t, what) == up /\ turn \in {NoTask, t} /\ task[t] # <<>> /\ Head(task[t]).do = what

Frame(t) == Head(task[t])

Continue(t, xs, next) ==
  /\ task' = [task EXCEPT ![t] = xs \o Tail(@)]
  /\ turn' = next
  /\ UNCHANGED <<up, calls>>

\* The task that goes on when the frame is done and the frames xs are left to do.
Same(t, xs) == IF xs \o Tail(task[t]) = <<>> THEN NoTask ELSE t

Proceed(t, xs) == Continue(t, xs, Same(t, xs)) /\ UNCHANGED strays

Await(t, xs) == Continue(t, xs, NoTask) /\ UNCHANGED strays

Throw(t) ==
  /\ task' = [task EXCEPT ![t] = <<>>]
  /\ turn' = NoTask
  /\ UNCHANGED <<up, calls>>
  /\ LeavesStrays

Fails(t) == UNCHANGED <<made, gen, obj, listed, raced>> /\ Throw(t)

\* Something outside the registry goes wrong.
Fault == faults < MaxFaults /\ faults' = faults + 1

\* A new object at the end of its array.
Create(k, n, auto, refs) ==
  /\ made < MaxObjects
  /\ made' = made + 1
  /\ obj' = [obj EXCEPT ![made + 1] = [kind |-> k, name |-> n, auto |-> auto, refs |-> refs]]
  /\ listed' = listed \union {made + 1}

Refer(i, refs) == obj' = [obj EXCEPT ![i].refs = refs] /\ UNCHANGED <<made, listed>>

\* An inline object has the name it is given, or one with the index of its class.
WithName(item) == [item EXCEPT !.name = IF item.name # 0 THEN item.name ELSE -(gen + 1)]
CountName(item) == gen' = IF item.name # 0 THEN gen ELSE gen + 1

\* The names that additions of kind k, which push after an await, are going to define.
Adding(k) ==
  {x.name : x \in {y \in UNION {Elements(task[t]) : t \in Tasks} :
                     y.do = (IF k = "listener" THEN "pushListener" ELSE "fillRoute")}}

Race(k, n) == raced' = IF n \in Adding(k) THEN raced \union {<<k, n>>} ELSE raced

-----------------------------------------------------------------------------
(* Additions.                                                              *)

\* An operation starts, from the API or from the static configuration.
Call(t) ==
  /\ up /\ turn = NoTask /\ task[t] = <<>> /\ calls < MaxCalls
  /\ \E r \in Requests : task' = [task EXCEPT ![t] = <<r>>]
  /\ calls' = calls + 1
  /\ UNCHANGED <<objects, gen, turn, up, faults, raced, strays>>

\* The listener's rules are a rulelist of their own, or the name of one.
AddListener(t) ==
  /\ Runs(t, "addListener")
  /\ UNCHANGED <<objects, faults>>
  /\ LET f == Frame(t)  rl == WithName(f.item.parts[1])
         push == [do |-> "pushListener", name |-> f.item.name, rules |-> rl.name]
     IN \/ Defined("listener", f.item.name) /\ Fails(t)
        \/ /\ ~Defined("listener", f.item.name)
           /\ Race("listener", f.item.name)
           /\ CountName(f.item.parts[1])
           /\ Proceed(t, IF rl.inline
                         THEN <<[do |-> "addRuleList", item |-> rl, auto |-> TRUE], push>>
                         ELSE <<push>>)

PushListener(t) ==
  /\ Runs(t, "pushListener")
  /\ Create("listener", Frame(t).name, FALSE, <<Frame(t).rules>>)
  /\ Await(t, <<[do |-> "runListener", id |-> made + 1]>>)
  /\ UNCHANGED <<gen, faults, raced>>

\* A listener that does not start is deleted, by its name; its socket also fails
\* when the listener was deleted meanwhile.
RunListener(t) ==
  /\ Runs(t, "runListener")
  /\ UNCHANGED <<objects, gen, raced>>
  /\ LET i == Frame(t).id
         rollback == <<[do |-> "deleteListener", name |-> obj[i].name, rec |-> TRUE],
                       [do |-> "fail"]>>
     IN \/ Await(t, <<>>) /\ UNCHANGED faults
        \/ Fault /\ Proceed(t, rollback)
        \/ i \notin listed /\ Proceed(t, rollback) /\ UNCHANGED faults

AddRuleList(t) ==
  /\ Runs(t, "addRuleList")
  /\ UNCHANGED <<gen, faults, raced>>
  /\ LET f == Frame(t) IN
     \/ Defined("rulelist", f.item.name) /\ UNCHANGED objects /\ Throw(t)
     \/ /\ ~Defined("rulelist", f.item.name)
        /\ Create("rulelist", f.item.name, f.auto, <<>>)
        /\ Proceed(t, <<[do |-> "fillRuleList", id |-> made + 1, rest |-> f.item.parts, pos |-> 0]>>)

FillRuleList(t) ==
  /\ Runs(t, "fillRuleList")
  /\ UNCHANGED <<objects, gen, faults, raced>>
  /\ LET f == Frame(t) IN
     IF f.rest = <<>> THEN Await(t, <<>>)
     ELSE Proceed(t, <<[do |-> "addRuleTo", id |-> f.id, item |-> Head(f.rest), pos |-> f.pos],
                       [f EXCEPT !.rest = Tail(@), !.pos = @ + 1]>>)

\* The API looks up the rulelist; what follows is done on the object.
AddRuleToRuleList(t) ==
  /\ Runs(t, "addRuleToRuleList")
  /\ UNCHANGED <<faults>>
  /\ LET f == Frame(t) IN
     \/ ~Defined("rulelist", f.name) /\ Fails(t)
     \/ /\ Defined("rulelist", f.name)
        /\ Proceed(t, <<[do |-> "addRuleTo", id |-> The("rulelist", f.name),
                         item |-> f.item, pos |-> f.pos]>>)
        /\ UNCHANGED <<objects, gen, raced>>

AddRuleTo(t) ==
  /\ Runs(t, "addRuleTo")
  /\ UNCHANGED <<objects, faults, raced>>
  /\ LET f == Frame(t)  rule == WithName(f.item)
         insert == [do |-> "insertRule", id |-> f.id, name |-> rule.name, pos |-> f.pos]
     IN \/ f.pos > Len(obj[f.id].refs) /\ UNCHANGED gen /\ Throw(t)
        \/ /\ f.pos <= Len(obj[f.id].refs)
           /\ CountName(f.item)
           /\ Proceed(t, IF rule.inline
                         THEN <<[do |-> "addRule", item |-> rule, auto |-> TRUE], insert>>
                         ELSE <<insert>>)

\* The position was checked before the rule was added.  The rulelist may be gone.
InsertRule(t) ==
  /\ Runs(t, "insertRule")
  /\ LET f == Frame(t) IN
     /\ Refer(f.id, Insert(obj[f.id].refs, f.pos, f.name))
     /\ Continue(t, <<>>, NoTask)
     /\ IF f.id \in listed THEN UNCHANGED strays ELSE LeavesStrays
  /\ UNCHANGED <<gen, faults, raced>>

\* A rule with an inline route has no route until it is added.
AddRule(t) ==
  /\ Runs(t, "addRule")
  /\ UNCHANGED <<faults, raced>>
  /\ LET f == Frame(t)  route == WithName(f.item.parts[1]) IN
     \/ Defined("rule", f.item.name) /\ UNCHANGED <<objects, gen>> /\ Throw(t)
     \/ /\ ~Defined("rule", f.item.name) /\ f.item.parts = <<>>
        /\ Create("rule", f.item.name, f.auto, <<>>)
        /\ Await(t, <<>>)
        /\ UNCHANGED gen
     \/ /\ ~Defined("rule", f.item.name) /\ f.item.parts # <<>> /\ ~route.inline
        /\ Create("rule", f.item.name, f.auto, <<route.name>>)
        /\ Await(t, <<>>)
        /\ UNCHANGED gen
     \/ /\ ~Defined("rule", f.item.name) /\ f.item.parts # <<>> /\ route.inline
        /\ Create("rule", f.item.name, f.auto, <<>>)
        /\ CountName(f.item.parts[1])
        /\ Proceed(t, <<[do |-> "addRoute", item |-> route, auto |-> TRUE],
                        [do |-> "bindRoute", id |-> made + 1, name |-> route.name]>>)

BindRoute(t) ==
  /\ Runs(t, "bindRoute")
  /\ Refer(Frame(t).id, <<Frame(t).name>>)
  /\ Continue(t, <<>>, NoTask)
  /\ IF Frame(t).id \in listed THEN UNCHANGED strays ELSE LeavesStrays
  /\ UNCHANGED <<gen, faults, raced>>

\* The parts of a route are its destination and the clusters of its chains.
AddRoute(t) ==
  /\ Runs(t, "addRoute")
  /\ UNCHANGED <<objects, faults>>
  /\ LET f == Frame(t) IN
     \/ Defined("route", f.item.name) /\ Fails(t)
     \/ /\ ~Defined("route", f.item.name)
        /\ Race("route", f.item.name)
        /\ Proceed(t, <<[do |-> "fillRoute", name |-> f.item.name, auto |-> f.auto,
                         done |-> <<>>, rest |-> f.item.parts]>>)
        /\ UNCHANGED gen

FillRoute(t) ==
  /\ Runs(t, "fillRoute")
  /\ UNCHANGED <<faults, raced>>
  /\ LET f == Frame(t)  c == WithName(Head(f.rest))
         next == [f EXCEPT !.done = Append(@, c.name), !.rest = Tail(@)]
     IN \/ /\ f.rest = <<>>
           /\ Create("route", f.name, f.auto, f.done)
           /\ Await(t, <<>>)
           /\ UNCHANGED gen
        \/ /\ f.rest # <<>>
           /\ CountName(Head(f.rest))
           /\ Proceed(t, IF c.inline
                         THEN <<[do |-> "addCluster", item |-> c, auto |-> TRUE], next>>
                         ELSE <<next>>)
           /\ UNCHANGED objects

\* A fault: the name is not looked up.
AddClusterAnyway(t) ==
  /\ Runs(t, "addCluster")
  /\ UNCHANGED <<gen, faults, raced>>
  /\ Create("cluster", Frame(t).item.name, Frame(t).auto, <<>>)
  /\ Proceed(t, <<[do |-> "fillCluster", id |-> made + 1, rest |-> Frame(t).item.parts]>>)

AddCluster(t) ==
  /\ Runs(t, "addCluster")
  /\ UNCHANGED <<gen, faults, raced>>
  /\ LET f == Frame(t) IN
     \/ Defined("cluster", f.item.name) /\ UNCHANGED objects /\ Throw(t)
     \/ /\ ~Defined("cluster", f.item.name)
        /\ Create("cluster", f.item.name, f.auto, <<>>)
        /\ Proceed(t, <<[do |-> "fillCluster", id |-> made + 1, rest |-> f.item.parts]>>)

\* A new endpoint in the registry and in its cluster c.
JoinEndPoint(n, c) ==
  /\ made < MaxObjects
  /\ made' = made + 1
  /\ obj' = [obj EXCEPT ![made + 1] = [kind |-> "endpoint", name |-> n, auto |-> FALSE,
                                       refs |-> <<obj[c].name>>],
                        ![c].refs = Append(@, n)]
  /\ listed' = listed \union {made + 1}

\* The call of addEndPoint is not awaited: when it fails, nothing handles the
\* rejected promise, which ends the process.
FillCluster(t) ==
  /\ Runs(t, "fillCluster")
  /\ UNCHANGED <<faults, raced>>
  /\ LET f == Frame(t)  e == WithName(Head(f.rest)) IN
     \/ /\ f.rest = <<>>
        /\ Await(t, <<[do |-> "runCluster", id |-> f.id]>>)
        /\ UNCHANGED <<objects, gen>>
     \/ /\ f.rest # <<>> /\ ~Defined("endpoint", e.name)
        /\ CountName(Head(f.rest))
        /\ JoinEndPoint(e.name, The("cluster", obj[f.id].name))
        /\ Proceed(t, <<[f EXCEPT !.rest = Tail(@)]>>)
     \/ /\ f.rest # <<>> /\ Defined("endpoint", e.name)
        /\ up' = FALSE
        /\ UNCHANGED <<objects, gen, task, turn, calls, strays>>

RunCluster(t) ==
  /\ Runs(t, "runCluster")
  /\ UNCHANGED <<objects, gen, raced>>
  /\ \/ Await(t, <<>>) /\ UNCHANGED faults
     \/ /\ Fault
        /\ Proceed(t, <<[do |-> "deleteCluster", name |-> obj[Frame(t).id].name, rec |-> TRUE],
                        [do |-> "fail"]>>)

AddEndPoint(t) ==
  /\ Runs(t, "addEndPoint")
  /\ UNCHANGED <<faults, gen, raced>>
  /\ LET f == Frame(t)  ok == ~Defined("endpoint", f.name) /\ Defined("cluster", f.cluster) IN
     \/ ~ok /\ UNCHANGED objects /\ Throw(t)
     \/ ok /\ JoinEndPoint(f.name, The("cluster", f.cluster)) /\ Await(t, <<>>)

-----------------------------------------------------------------------------
(* Deletions.  They run from the start to the end without an await.        *)

\* After the objects an object owns, it leaves its array.
Unlisting(i, rec) == [do |-> "unlist", id |-> i, rec |-> rec]

Unlist(t) ==
  /\ Runs(t, "unlist")
  /\ listed' = listed \ {Frame(t).id}
  /\ UNCHANGED <<made, gen, obj, faults, raced>>
  /\ Continue(t, <<>>, Same(t, <<>>))
  /\ IF Frame(t).rec THEN UNCHANGED strays ELSE LeavesStrays

DeleteListener(t) ==
  /\ Runs(t, "deleteListener")
  /\ UNCHANGED <<objects, gen, faults, raced>>
  /\ LET f == Frame(t)  i == The("listener", f.name) IN
     IF ~Defined("listener", f.name) THEN Throw(t)
     ELSE Proceed(t, IF f.rec /\ Implicit("rulelist", obj[i].refs[1])
                     THEN <<[do |-> "deleteRuleList", name |-> obj[i].refs[1], rec |-> TRUE],
                            Unlisting(i, TRUE)>>
                     ELSE <<Unlisting(i, f.rec)>>)

DeleteRuleList(t) ==
  /\ Runs(t, "deleteRuleList")
  /\ UNCHANGED <<objects, gen, faults, raced>>
  /\ LET f == Frame(t)  i == The("rulelist", f.name) IN
     IF ~Defined("rulelist", f.name) THEN Throw(t)
     ELSE Proceed(t, IF f.rec THEN <<[do |-> "rulesOf", id |-> i, rest |-> obj[i].refs]>>
                     ELSE <<Unlisting(i, FALSE)>>)

\* All rules of a rulelist are deleted, autogenerated or not.
RulesOf(t) ==
  /\ Runs(t, "rulesOf")
  /\ UNCHANGED <<gen, faults, raced>>
  /\ LET f == Frame(t)  r == Head(f.rest)  refs == obj[f.id].refs IN
     \/ f.rest = <<>> /\ Proceed(t, <<Unlisting(f.id, TRUE)>>) /\ UNCHANGED objects
     \/ /\ f.rest # <<>>
        /\ IF Implicit("rule", r) THEN Refer(f.id, Without(refs, r)) ELSE UNCHANGED objects
        /\ Proceed(t, <<[do |-> "deleteRule", name |-> r, rec |-> TRUE],
                        [f EXCEPT !.rest = Tail(@)]>>)

\* The position may be the length of the list: there is no rule then, which only
\* a recursive deletion notices.
DeleteRuleFromRuleList(t) ==
  /\ Runs(t, "deleteRuleFromRuleList")
  /\ UNCHANGED <<objects, gen, faults, raced>>
  /\ LET f == Frame(t)  i == The("rulelist", f.name)  n == Len(obj[i].refs) IN
     IF ~Defined("rulelist", f.name) \/ f.pos > n \/ (f.rec /\ f.pos = n) THEN Throw(t)
     ELSE LET remove == [do |-> "removeRule", id |-> i, pos |-> f.pos, rec |-> f.rec] IN
          Proceed(t, IF f.rec THEN <<[do |-> "deleteRule", name |-> obj[i].refs[f.pos + 1],
                                      rec |-> TRUE], remove>>
                     ELSE <<remove>>)

RemoveRule(t) ==
  /\ Runs(t, "removeRule")
  /\ LET f == Frame(t) IN
     /\ Refer(f.id, RemoveAt(obj[f.id].refs, f.pos))
     /\ Continue(t, <<>>, Same(t, <<>>))
     /\ IF f.rec THEN UNCHANGED strays ELSE LeavesStrays
  /\ UNCHANGED <<gen, faults, raced>>

DeleteRule(t) ==
  /\ Runs(t, "deleteRule")
  /\ UNCHANGED <<objects, gen, faults, raced>>
  /\ LET f == Frame(t)  i == The("rule", f.name)  refs == obj[i].refs IN
     IF ~Defined("rule", f.name) THEN Throw(t)
     ELSE Proceed(t, IF f.rec /\ refs # <<>> /\ Implicit("route", refs[1])
                     THEN <<[do |-> "deleteRoute", name |-> refs[1], rec |-> TRUE],
                            Unlisting(i, TRUE)>>
                     ELSE <<Unlisting(i, f.rec)>>)

\* A fault: only the destination is deleted, not the clusters of the chains.
DeleteRouteAlone(t) ==
  /\ Runs(t, "deleteRoute")
  /\ UNCHANGED <<objects, gen, faults, raced>>
  /\ LET f == Frame(t)  i == The("route", f.name) IN
     IF ~Defined("route", f.name) THEN Throw(t)
     ELSE Proceed(t, IF f.rec THEN <<[do |-> "clustersOf", id |-> i, rest |-> <<Head(obj[i].refs)>>]>>
                     ELSE <<Unlisting(i, FALSE)>>)

DeleteRoute(t) ==
  /\ Runs(t, "deleteRoute")
  /\ UNCHANGED <<objects, gen, faults, raced>>
  /\ LET f == Frame(t)  i == The("route", f.name) IN
     IF ~Defined("route", f.name) THEN Throw(t)
     ELSE Proceed(t, IF f.rec THEN <<[do |-> "clustersOf", id |-> i, rest |-> obj[i].refs]>>
                     ELSE <<Unlisting(i, FALSE)>>)

ClustersOf(t) ==
  /\ Runs(t, "clustersOf")
  /\ UNCHANGED <<objects, gen, faults, raced>>
  /\ LET f == Frame(t)  next == [f EXCEPT !.rest = Tail(@)] IN
     Proceed(t, IF f.rest = <<>> THEN <<Unlisting(f.id, TRUE)>>
                ELSE IF Implicit("cluster", Head(f.rest))
                THEN <<[do |-> "deleteCluster", name |-> Head(f.rest), rec |-> TRUE], next>>
                ELSE <<next>>)

\* Recursion is about the sessions: the loop over them throws at one that has no
\* destination.  The endpoints are deleted in any case.
DeleteCluster(t) ==
  /\ Runs(t, "deleteCluster")
  /\ UNCHANGED <<objects, gen, raced>>
  /\ LET f == Frame(t)  i == The("cluster", f.name) IN
     \/ ~Defined("cluster", f.name) /\ Throw(t) /\ UNCHANGED faults
     \/ Defined("cluster", f.name) /\ f.rec /\ Fault /\ Throw(t)
     \/ /\ Defined("cluster", f.name)
        /\ Proceed(t, <<[do |-> "endpointsOf", id |-> i, rest |-> obj[i].refs, rec |-> f.rec]>>)
        /\ UNCHANGED faults

\* A fault: the cluster keeps the endpoint.
LeaveRegistryOnly(n) ==
  /\ listed' = listed \ {The("endpoint", n)}
  /\ UNCHANGED <<made, obj>>

\* An endpoint leaves the registry and its cluster.
LeaveEndPoint(n) ==
  LET e == The("endpoint", n)  c == The("cluster", obj[e].refs[1]) IN
  /\ obj' = [obj EXCEPT ![c].refs = Without(@, n)]
  /\ listed' = listed \ {e}
  /\ UNCHANGED made

\* The loop over the sessions, after the endpoint is gone, throws at a session
\* with a stage that has no endpoint.
DropEndPoint(t, n, rec, xs) ==
  \/ ~Defined("endpoint", n) /\ UNCHANGED <<objects, faults>> /\ Throw(t)
  \/ Defined("endpoint", n) /\ LeaveEndPoint(n) /\ rec /\ Fault /\ Throw(t)
  \/ Defined("endpoint", n) /\ LeaveEndPoint(n) /\ Proceed(t, xs) /\ UNCHANGED faults

EndPointsOf(t) ==
  /\ Runs(t, "endpointsOf")
  /\ UNCHANGED <<gen, raced>>
  /\ LET f == Frame(t) IN
     \/ f.rest = <<>> /\ Proceed(t, <<Unlisting(f.id, f.rec)>>) /\ UNCHANGED <<objects, faults>>
     \/ f.rest # <<>> /\ DropEndPoint(t, Head(f.rest), f.rec, <<[f EXCEPT !.rest = Tail(@)]>>)

DeleteEndPoint(t) ==
  /\ Runs(t, "deleteEndPoint")
  /\ UNCHANGED <<gen, raced>>
  /\ DropEndPoint(t, Frame(t).name, Frame(t).rec, <<>>)

\* What a rollback ends with: the error that caused it.
Rethrow(t) == Runs(t, "fail") /\ Fails(t) /\ UNCHANGED faults

-----------------------------------------------------------------------------

Init ==
  /\ made = 0 /\ gen = 0 /\ listed = {}
  /\ obj = [i \in Ids |-> [kind |-> "none", name |-> 0, auto |-> FALSE, refs |-> <<>>]]
  /\ task = [t \in Tasks |-> <<>>]
  /\ turn = NoTask /\ up = TRUE /\ calls = 0 /\ faults = 0
  /\ raced = {} /\ strays = {}

Add(t) ==
  \/ AddListener(t) \/ PushListener(t) \/ RunListener(t)
  \/ AddRuleList(t) \/ FillRuleList(t) \/ AddRuleToRuleList(t) \/ AddRuleTo(t) \/ InsertRule(t)
  \/ AddRule(t) \/ BindRoute(t) \/ AddRoute(t) \/ FillRoute(t)
  \/ AddCluster(t) \/ FillCluster(t) \/ RunCluster(t) \/ AddEndPoint(t)

Delete(t) ==
  \/ DeleteListener(t) \/ DeleteRuleList(t) \/ RulesOf(t)
  \/ DeleteRuleFromRuleList(t) \/ RemoveRule(t) \/ DeleteRule(t)
  \/ DeleteRoute(t) \/ ClustersOf(t) \/ DeleteCluster(t) \/ EndPointsOf(t)
  \/ DeleteEndPoint(t) \/ Unlist(t) \/ Rethrow(t)

Next == \E t \in Tasks : Call(t) \/ Add(t) \/ Delete(t)

Spec == Init /\ [][Next]_vars

-----------------------------------------------------------------------------
(* What a recursive dump needs: names of objects that are gone are marked  *)
(* as stale, but the endpoints of a cluster are taken for granted.         *)

\* The names an object refers to.
Refs(k, n) == Elements(obj[The(k, n)].refs)

DumpsEndPoint(n) == Defined("endpoint", n)

DumpsCluster(n) == Defined("cluster", n) /\ \A e \in Refs("cluster", n) : DumpsEndPoint(e)

\* A fault: clusters are dumped without a look whether they are there.
DumpsRouteBlindly(n) == Defined("route", n) /\ \A c \in Refs("route", n) : DumpsCluster(c)

DumpsRoute(n) ==
  Defined("route", n) /\ \A c \in Refs("route", n) : Defined("cluster", c) => DumpsCluster(c)

DumpsRule(n) ==
  Defined("rule", n) /\ \A r \in Refs("rule", n) : Defined("route", r) => DumpsRoute(r)

DumpsRuleList(n) ==
  Defined("rulelist", n) /\ \A r \in Refs("rulelist", n) : Defined("rule", r) => DumpsRule(r)

DumpsListener(n) ==
  Defined("listener", n)
    /\ \A l \in Refs("listener", n) : Defined("rulelist", l) => DumpsRuleList(l)

-----------------------------------------------------------------------------
(* Properties.                                                             *)

\* No two objects of a kind have the same name, whatever overlaps, but listeners
\* and routes that two operations added at the same time: their names are looked
\* up before an await and defined after it (addListener, addRoute).
UniqueNames ==
  \A i, j \in listed :
    i # j /\ obj[i].kind = obj[j].kind /\ obj[i].name = obj[j].name
      => <<obj[i].kind, obj[i].name>> \in raced

\* The endpoints of the registry and those of the clusters are the same: an
\* endpoint belongs to the cluster it names, and a cluster has no other, also in
\* the middle of a deletion and after one that failed half-way.
EndPointsAgree ==
  /\ \A e \in listed : obj[e].kind = "endpoint" =>
       /\ Defined("cluster", obj[e].refs[1])
       /\ obj[e].name \in Refs("cluster", obj[e].refs[1])
  /\ \A c \in listed : obj[c].kind = "cluster" =>
       \A n \in Elements(obj[c].refs) :
         \E e \in Named("endpoint", n) : obj[e].refs = <<obj[c].name>>

\* An autogenerated object is within reach of a recursive deletion of its owner,
\* unless an operation failed, its owner was deleted alone, or its owner was
\* deleted while it was being added; listeners and routes of one name hide each
\* other.  Recursive deletions leave nothing behind.
OwnersKnown ==
  turn = NoTask => \A i \in Orphans : i \in strays \/ <<obj[i].kind, obj[i].name>> \in raced

\* Whatever is stale or half deleted, any object can be dumped recursively: the
\* dumps reach no endpoint that is not in the registry.
DumpsWork ==
  \A i \in listed : LET n == obj[i].name IN
    CASE obj[i].kind = "listener" -> DumpsListener(n)
      [] obj[i].kind = "rulelist" -> DumpsRuleList(n)
      [] obj[i].kind = "rule" -> DumpsRule(n)
      [] obj[i].kind = "route" -> DumpsRoute(n)
      [] obj[i].kind = "cluster" -> DumpsCluster(n)
      [] obj[i].kind = "endpoint" -> DumpsEndPoint(n)

\* The object that leaves is the one an operation was asked to delete, or the one
\* whose addition is rolled back: nothing is left to do after it.
Requested(t) == Len(task[t]) = 1 \/ task[t][2].do = "fail"

\* A recursive deletion never deletes a listener, rulelist, route or cluster that
\* was defined by a request of its own: only the object that was asked for and
\* autogenerated ones leave, and rules and endpoints with the lists they are on.
ExplicitSurvive ==
  [][\A i \in listed \ listed' :
       \/ obj[i].auto \/ obj[i].kind \in {"rule", "endpoint"}
       \/ \E t \in Tasks : Runs(t, "unlist") /\ Frame(t).id = i /\ Requested(t)]_vars
=============================================================================
