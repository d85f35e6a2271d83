# Verification of l7mp

l7mp is a programmable L7 meta-proxy: listeners accept connections and emit
*sessions*, a session is matched against rules, routed through a chain of
*clusters* and piped stream by stream, and everything can be changed over a REST
API while traffic flows.  The proxy is one Node.js process and one event loop;
what makes it hard is that every connect, retry, close, timer and API call is a
turn of that loop of its own, and that they come in any order.

This directory holds TLA+ modules that model the parts of the proxy, TLC
configurations that check them on small instances, and TLAPS proofs of the
properties that matter most for every instance.  `PROJECT.json` is the index:
the components, the runs, the faulty variants each property is tried against,
the source lines behind each definition, the findings, the hazards, the theorems.

## Inventory

| Component | Source | State | Operations | Hard behaviour |
|---|---|---|---|---|
| Session and stages | `session.js` | status, stages and their streams, active streams, pipes, retries in progress | create, pipeline, connect, disconnect, repipe, error, end, destroy | connects, retries, closes and API calls overlap; a connect outlives its session |
| Session table | `l7mp.js` 120-133, 1109-1190 | the array of sessions, their names, scheduled removals | addSession, newName, getSession, deleteSession | sessions are found by name after they are gone; names are reused |
| Object registry | `l7mp.js` 305-1098, `route.js`, `rule.js` | arrays of listeners, rulelists, rules, routes, clusters, endpoints; which are autogenerated | add, get, dump and delete of each, recursively or not | checks before an `await` and pushes after it; partial failure of nested operations; dangling names |
| UDP listener | `listener.js` 354-621 | one socket and session per remote (server mode), one socket (singleton mode) | run, onConnectServer, onRequest, reconnectSingleton, close | packets arrive while a socket is being connected; stale entries |
| Stream listeners | `listener.js` 100-350, 623-700 | server sockets, session numbers | run, onRequest, close | none of their own; they start sessions |
| JSONSocket handshake | `listener.js` 701-869, `cluster.js` 611-752 | stage of the header exchange | header, response, timeout | a timeout races a late answer |
| Clusters and endpoints | `cluster.js` 175-513 | endpoints, load balancer, retriable | stream, connect, add and delete endpoint | a timeout races a late `open` |
| Load balancer | `cluster.js` 63-166 | endpoint weights, the hash ring | update, apply | boundaries, an empty cluster |
| Rules and rulelists | `rule.js` | predicates, rules of a list | match, getAtPath, setAtPath | nesting, missing paths |
| Streams | `stream.js` | ports of a broadcast room, closed inputs of a merge | add, remove, write, end | errors of one port reach the others |
| Sync cluster | `cluster.js` 973-1006 | rooms of sessions by a query value | stream | join and leave overlap |
| UDP kernel offload | `udp-offload.js`, `kernel-offload/` | the set of redirected flows, kernel maps | setOffload, getStats, shutdown | table and kernel disagree |
| Kubernetes operator | `k8s-operator/l7mp.py` | custom resources, the objects it pushed | update, conv, exec | events reordered, one proxy of many fails |
| REST API controller | `l7mp-openapi.js` | none of its own | one handler per operation | forwards to the registry |
| Entry, errors, monitoring | `l7mp-proxy.js`, `error.js`, `monitoring.js`, `stream-counter.js` | counters | start, count | none |

A listener calls `addSession` of the table with the source stream.  The session
looks up its listener, rules and route in the registry by name and keeps a copy
of the route, so all of these may be deleted under it.  It calls the clusters to
connect its stages, and its listener to reconnect its source.  Streams call back
into the session when they close.  The end of a session is an event; the table
removes the session in a later turn of the event loop.

What makes each correct:

- *Session*: one connect per stage, no gap in the pipeline when it is announced,
  retries within the policy, nothing left open or retrying when it ends.
- *Session table*: names are unique, a removal removes the session it was
  scheduled for, a recursive deletion ends every session concerned.
- *Registry*: names are unique per kind, endpoints belong to existing clusters,
  autogenerated objects have an owner, a failed operation leaves nothing behind.
- *UDP listener*: one session per remote, no packet to a dead socket.
- *JSONSocket*: a client is connected only after the server has answered that it agrees; a side
  that has given up holds no open socket, and the other side learns of it.
- *Load balancer, rules*: the lookup finds the rule that the chain of deferred
  lists leads to; a session gets an endpoint that exists, and keeps to it.
- *Sync cluster*: a room is one broadcast domain, and only who leaves it ends it.
- *Offload*: what the kernel redirects belongs to a pipe between open sockets.
- *Operator*: the proxies' objects converge to the custom resources.

## Modules

| Module | Models | Proofs |
|---|---|---|
| `Session` | one session and its stages; implements `SessionLifecycle` | `Session_proofs` |
| `SessionLifecycle` | the abstract life of a session | |
| `SessionTable` | several sessions, names, name reuse, recursive deletions | `SessionTable_proofs` |
| `UDPListener` | remotes, sockets, the map of sessions | `UDPListener_proofs` |
| `Registry` | the object graph, with concurrent additions and nested deletions | `Registry_proofs` |
| `JSONSocket` | client and server of the handshake over three kinds of transport; implements `Handshake` | `JSONSocket_proofs` |
| `Handshake` | the abstract handshake | |
| `Offload` | the kernel maps and filters, the pipes of sessions, restarts | `Offload_proofs` |
| `SyncCluster` | the rooms of the Sync cluster, with the pipes of Node.js | `SyncCluster_proofs` |
| `Routing` | rule lookup, rewriting and load balancing | `Routing_proofs` |

`MCSession`, `MCRegistry`, `MCJSONSocket`, `MCOffload` and `MCRouting` instantiate
them for TLC.  Modules meet where one takes for granted what another checks:
`Session` takes connects that succeed or fail from the clusters (`JSONSocket`) and
its lookup by name from the table (`SessionTable`); `SyncCluster` takes sessions that
are set up or fail from `Session`; `Registry` takes the loops over sessions, which may
throw, from `SessionTable`; `UDPListener` takes sessions that end or fail from `Session`.

What is left of the plan is the Kubernetes operator (see "Not modelled").

## Session: one session and its stages

### What is modelled

A step of `Session.tla` is one macrotask of the event loop together with all the
promise reactions that run before the loop turns: an attempt settles, a retry
timer fires, a stream closes, the API is called, a `setImmediate` callback runs.

| State | Code |
|---|---|
| `status` | `session.status`; FINALIZING is left out, as it never lasts beyond a step |
| `stage` | `stage.status` of the source, the chains and the destination |
| `stream` | the current stream of a stage: open, ending (`end()` called, not closed yet), closed |
| `conn`, `tries` | the connect or reconnect in progress at a stage under `p-retry`: an attempt, or the wait for the next one, and its number |
| `pipeline` | the promise of `pipeline()`: new, running, ready, failed |
| `active` | `session.active_streams` |
| `piped` | the pipes between current streams that are in place |
| `listed`, `reaps` | membership of `l7mp.sessions`, scheduled calls of `deleteSession` |
| `origins` | the stages whose listener or cluster exists in the registry |
| `policy` | `route.retry` of the session's own copy of the route |
| `gone` | history: `destroy()` has run |

| Action | Code |
|---|---|
| `Route`, `RouteFails` | `create()` and the synchronous part of `pipeline()` |
| `Connect`, `Complete` | an attempt succeeds: the promise waits for other stages, or `pipeline_finish`, `pipeline_event_handlers` and `connected()` run |
| `AttemptFails`, `RetryTimer` | `onFailedAttempt`, the timer of `p-retry` and the checks at the start of `run` |
| `Close` | a stream closes or errs; `disconnect()` runs if handlers are set |
| `Reconnect` | the rest of `disconnect()` after its `await`, with `repipe()` |
| `DeleteEndPoint`, `EndSession` | API calls: recursive deletion of an endpoint; deletion of the session, of its listener or of a cluster |
| `ToggleOrigin` | a listener or cluster is deleted or added under the session |
| `Reap` | the `setImmediate` (after the tracking time, if any) of a 'destroy' event |

`Finalize` is `error()` or `end()` with the `destroy()` they call: it skips a
stage that is RETRYING, ends the others, and emits 'destroy' in any case.  An
attempt in flight is not cancelled by it, as in the code, so that it may settle
on a destroyed session.  An attempt that fails is retried (`AttemptFailed`), but for a
`TypeError`, on which p-retry rejects at once, without `onFailedAttempt`: the status of the
stage stays what it was (`Rejected`, the second disjunct of `AttemptFails`).

The stream of a stage is an abstraction of sockets of all kinds; the piping
order of chain elements, the routes' `retry.timeout` as a duration, load
balancing and the rewriting of metadata are abstracted.  A retriable source
(`listener.reconnect`, only UDP in singleton mode) is a member of `Retriable`.
An error on a stream without handlers is an exception in Node, which ends the process
(`l7mp-proxy.js` 47-50, 79-86); the model takes it for a close that nobody notices, as a
process that has ended keeps no promise to break.

### The runs

| Run | Shows |
|---|---|
| `session_overlap` | two losses and an API call on a session with two chains, all stages retriable: `ActiveStreams`, `NoGap`, `OneConnectPerStage` |
| `session_retry` | every retry mode, zero to two retries, a loss, a call, a cluster or listener that goes or returns: `TypeOK`, `NoUnwatchedStream`, `RemovalScheduled`, `AttemptsBounded`, `NoRetryAfterRemoval`; a disconnect settles (`DisconnectSettles`), a session that is over stops retrying (`DestroyedStopsRetrying`), and the session implements `SessionLifecycle` with its fairness (`KeepsPromise`) |
| `session_egress` | a statement of a comment that the code does not keep (below) |

Bounds.  `MaxFaults` limits streams that close by themselves: two are enough for
any pair of reconnects to overlap, at neighbours, at the same stage, or with
one between them.  `MaxCalls` and `MaxToggles` are one each: the second call on a
session finds it destroyed, and what it does then is `Finalize` once more.  The
policies range over all modes and the counts 0, 1, 2, on both sides of the
`num_retries - 1` of a reconnect.  Chains of one or two stages have a first, a
last and a middle element.  Deadlock is not checked: a session that is removed
or that nobody disturbs stops.

Fairness.  The router runs at once; an attempt settles because the clusters
bound the time of a connect by `route.retry.timeout`; timers and `setImmediate`
callbacks run.  Nothing makes a stream close or a client call the API.

### The proofs

`Session_proofs.tla` proves, for every chain, policy and bound:

- `TypeCorrect`: `[]TypeOK`.
- `OneConnect`, `StreamsWatched`, `RemovalComes`: from the inductive invariant
  `ConnectInv`.  `OneConnectPerStage` is not inductive: it needs `IdleStart` (no
  connect before the router has run, none at the source before the pipeline is
  ready), or `Complete` could make READY a stage that is still connecting; and
  `NoUnwatchedStream` needs it, because destroy() leaves open only streams of
  stages that are RETRYING, which have none.  `RemovalScheduled` needs its
  converse `EndBeforeRemoval`.
- `PipelineConsistent` and `ActiveStreamsExact`: `[]NoGap` and `[]ActiveStreams`, on
  top of `ConnectInv`: a loss or a return changes the set of missing stages by
  exactly one element, the pipes at it and the counter by one.  They use
  cardinalities of finite sets.
- `RetryBudget`: `[]AttemptsBounded`, from the budget of the connect in progress,
  which changes when the pipeline becomes ready, when no set-up connect is left.
- `RetriesAbandoned`: the action property `NoRetryAfterRemoval`.
- `ImplementsLifecycle`: every step of a session is a step of
  `SessionLifecycle` under the mapping `Phase`, `Missing`, or stutters.

The assumptions are those on the constants: the source is not a cluster, the
clusters are finitely many, policies are records of a mode and a natural number.
Liveness, and the fairness of the life cycle, are only model-checked.

## SessionTable: several sessions and their names

`l7mp.sessions` is an array that everything searches by name.  `SessionTable.tla`
has the naming (`Emit`, `Refuse`: `addSession` with `newName`), the ends of
sessions one by one and with their listener or cluster, the scheduled removals
(`Reap`) and the lookups by name of retries (`RetryTimer`, `Lose`).  A session
object is its number of birth, the order of the array; of its inside the connects to its
clusters are left (`conn`, one stage per cluster), the clusters (`via`, empty if the router
failed before there was a destination) and its `life`, where a zombie is a session
that has connected after its end.  `DELETE` of a listener or a cluster is both the
recursive one, which ends sessions, and the default one, which leaves them alive and
listed.  A recursive deletion of a cluster may throw on the way: at a session that has no
destination (`Throws`), or at a stage that has no endpoint (`SomeUnconnected`).

What `Session` takes for granted of the table is that only its own removal takes a
session out of it.  Removals go by name, one for every end, in a later turn or after the
tracking time; names are reused.  `AliveIsListed` says how far that is safe: a live
session may be lost to the second removal of an earlier session of its name that was
ended twice, and to nothing else.  `ServedByRegistry` is about the other end of a
session's life: a session that can be listed runs on a listener and clusters of the
registry, unless one of these was deleted on its own.  Recursive deletions leave none
behind, also when their loop stops in the middle: then the cluster stays as well.  The
exceptions are history: `endedTwice` and `spared`.

Listeners for UDP, Unix domain sockets, HTTP, WebSocket and JSONSocket number
their sessions, from 0 for every listener object; TCP listeners name them after
the peer's address and port (`Peers`).

| Run | Shows |
|---|---|
| `table_names` | names reused in every way, deletions with and without sessions, one listener or cluster added again: `TypeOK`, `NamesUnique`, `AliveIsListed`, `ServedByRegistry`, and `OverLeaves` under the fairness of `Reap`, a callback of the event loop |

Bounds: three sessions (one that ends twice, one that takes its name, one that
stays), one attempt of `newName` besides the plain name instead of 20, one call
and one addition: with these a name is given twice, at once and one after the
other, and removals are doubled.

The source of a live session may close (`LoseSource`); its reconnection, for a UDP
singleton, is in `Session`.  Sessions of several clusters are in the module and in the
proofs; the run has one cluster.

`SessionTable_proofs.tla` proves for all constants `TableTypeCorrect`,
`UniqueNames`, `AliveSessionsListed` and `ServedSessions`.  The inductive
invariant of the third is `PlaceInv`: every session is accounted for (`Accounted`: in the table with
as many removals scheduled as it has ends, or out of it with none), or a session up to it
with its name was ended twice; and a session in the table is the latest of its name
(`LatestInTable`), so that a removal never takes an earlier one.  `AliveIsListed` alone
does not say whose removal the next `Reap` is.  `ServedByRegistry` is inductive with the types.
For `UsedOnce == Numbered = Listeners /\ MaxAdds = 0`, it
proves that no two sessions ever share a name (`NoNamesakes`, from `NamesFresh`: names
carry numbers below the next number of their listener), so that every live session
is in the table (`AliveSessionsFound`).  `UniqueNames` would not do for that: it is the
sessions out of the table that share names with those in it.  A listener that is
deleted and added again does break it, although it numbers its sessions: it starts
again from 0, and a retry of a session of the deleted listener goes on when it finds
the new session of its name.
## UDPListener: one session per remote

`UDPListener.tla` models a UDP listener in server mode.  `sessions` is
`this.sessions`, the map from `address:port` to a socket; sockets are numbered as
they are created, `remote`, `socket` and `session` are what became of each.  What
happens inside a session is in `Session`; here a session is set up, answered by
the router with success or failure, and ended, in any order that `Session` allows
(a session ended during its set-up may still be answered with success: `zombie`).

| Action | Code |
|---|---|
| `Packet` | the 'message' event of a remote that has no entry: `onConnectServer` up to its first `await` |
| `ConnectFails`, `Connected` | the rest of `onConnectServer`; `onRequest` up to the `await` of `emitSession` |
| `Accept`, `Refuse` | the rest of `onRequest`: handlers are set only after status 200 |
| `EndSession`, `Error`, `Close` | ends of sessions; the 'error' and 'close' events of sockets with their handlers, which go by the remote |
| `DeleteListener` | `close()` with or without the end of the sessions |

Packets may come between the two awaits of a socket's set-up.  For numeric
addresses Node.js completes bind and connect before the next event; the model
does not depend on it, and allows more than happens then.  Which socket the kernel
hands a datagram to, and the payload, are left out: a packet of a known remote
changes nothing in the model.  Errors come only to connected sessions, as nothing
is sent to a remote before.

| Run | Shows |
|---|---|
| `udp_remotes` | three sockets, two remotes that are let in and one that is not: `TypeOK`, `ClosedIsForgotten`, `OneSession`, and under fairness `Forgotten`, `PurgedCloses` |

Three sockets of one remote are one that errs or is raced, one that takes its
entry, and one that comes when the first has deleted the entry of the second.
Fairness: a socket's set-up ends (local system calls) and the `setImmediate` of
`DatagramStream.end` runs; sessions need not ever be answered.

`UDPListener_proofs.tla` proves `TypeOK`, `ClosedIsForgotten` and `OneSession` for
any remotes and number of sockets.  `MapInv` ties the map to the sockets: an entry
is of its remote, and the socket of a connected session in the map has handlers,
which is what makes `ClosedIsForgotten` inductive.  For `OneSession`, `CleanInv`
says of an undisturbed remote that its open or closing socket is the entry of the
map and that one being connected is alone.  The exceptions (`Disturbed`) are
real: the handlers of a socket that has erred run a second time when it is closed,
and delete the entry of the socket that was opened in between.


## Registry: objects that refer to each other by name

`Registry.tla` models the arrays of listeners, rulelists, rules, routes, clusters and
endpoints in `l7mp.js` and all operations that add and delete them.  A request may
define an object inline, at any depth; such an object is created on the way and
marked as autogenerated.

An operation is a task: `task[t]` is the stack of what it has left to do, a frame for
each call or each round of a loop.  JavaScript runs from one `await` to the next
without interruption, so `turn` names the task whose code runs, and `Await` gives it
up.  The `async` functions for additions await the addition of nested objects; the
deletions have no `await` and run in one turn.  This is where the additions of
the static configuration, all started at once by `run()`, and requests of the API
overlap.

| State, operator | Code |
|---|---|
| `listed`, `obj` | the arrays, in the order of creation; kind, name, `autogenerated`, the names referred to |
| `gen` | the indices of the classes for generated names |
| `Named`, `The`, `Implicit` | `findIndex`, `find` and the test of a recursive deletion |
| `Throw`, `LeavesStrays` | an error; what it leaves without an owner |
| `AddListener` … `AddEndPoint` | the `add…` functions, cut at their awaits |
| `RunListener`, `RunCluster`, `Rethrow` | a start that fails and is rolled back by deletion by name |
| `FillCluster` | the call of `addEndPoint` that is not awaited: its failure ends the process |
| `DeleteListener` … `DeleteEndPoint`, `Unlist` | the `delete…` functions |
| `DumpsListener` … | what the recursive dumps look up, and what they take for granted |

`registry_objects` checks every sequence of three of 23 requests in two tasks, one of which
defines everything inline, with a start that fails or a session in the way of a deletion:
`UniqueNames`, `EndPointsAgree`, `OwnersKnown`, `DumpsWork` and `ExplicitSurvive`.
Each property names its exceptions, which are what the code does: listeners and
routes that were added at the same time share a name (`raced`); failures, plain
deletions and deletions that overtake an addition leave autogenerated objects
without an owner (`strays`).  Three requests are one that creates, one that
overlaps with it and one that deletes; with two objects of each kind there
is one to spare and one to take by mistake.

Not modelled: the API's `getEndPoint`, which reads an undefined variable and always
answers 400 (`l7mp-openapi.js`), and the dumps' text.

`Registry_proofs.tla` proves, for any tasks, requests, nesting of inline objects and bounds,
`RegistryTypeCorrect` (`TypeOK`, which types every frame: a stack is a sequence of
records of a dozen shapes), `NamesAreUnique`, `EndPointsAtHome`, `DumpsAlwaysWork`,
`DeletionsSpareOthers` and `OwnersAlwaysKnown`.  `Items` is there for it: the objects that requests mention, so that
nesting has a type without a recursive definition.  One invariant, `IInv`, carries the first five:

| Part | Says | Needed because |
|---|---|---|
| `StackInv` | the object of a frame is of the frame's kind (`KindOK`); a deletion is the one that was asked for, and is followed by nothing but the error of a rollback, or is of an autogenerated object (`Allowed`); the frames between which a cluster is filled or emptied run at once (`Undisturbed`) | `ExplicitSurvive` speaks of the last step of a deletion, the test of `autogenerated` was made many frames before; a cluster may leave the registry only once it is empty |
| `PendingInv` | a name that a task is about to push is not defined, and no other task is about to push it, unless the two are in `raced` | `addListener` and `addRoute` look a name up before an `await` and push after it: `UniqueNames` alone is lost at the push |
| `MembersInv` | an endpoint names a cluster that has it, a cluster lists an endpoint once and only if it is there | `splice` removes the first of a name: with an endpoint on the list twice, a dump would find it after it is gone |

A step is followed by its effect on the stacks (the lemmas `...Keeps`), on the names (`...Names`)
and on the objects (`Effect`: a step rebinds references, defines an object, joins an endpoint to its cluster,
lets one leave, or lets an object go), so that the invariants are about five effects and not
thirty actions.  `DumpsWork` follows from `EndPointsAgree` and `UniqueNames`, as the names of clusters
are never raced.  The lemmas on `Insert`, `RemoveAt` and `Without` say what `splice` does to a list and its elements.

`OwnersAlwaysKnown` needs to know, besides, what every stack is going to do.  `OwnersInv` has

| Part | Says | Needed because |
|---|---|---|
| `OrderInv` | what is left of a deletion is on the stack of the task that runs, under deletions only, and a `removeRule` under those that leave rulelists alone; an addition of an autogenerated object is on top of the frame that binds it | nothing may come between the calls of a deletion, and a new object is never an orphan while its owner waits for it |
| `BindingInv` | a rule that waits for its route has none, and one frame waits for it | `bindRoute` writes the only reference of a rule: it must not take another away |
| `RefsInv` | a listener refers to one rulelist, a rule to one route at most; what is autogenerated has a kind that is owned | `deleteListener` and `deleteRule` follow one reference |
| `EmptiedInv` | when a frame ends by taking references away (`Drops`: `unlist` of an owner, the end of a loop, `removeRule`), what it refers to is the target of a frame above it | the recursive deletion deletes what is owned before the owner, in frames of their own |
| `OrphansInv` | an orphan is a stray, or shares its name, or the task that has the turn is about to delete it | `OwnersKnown`, extended to the middle of a deletion |

A step of an addition `Builds`: it takes no reference away, and binds what it had promised.  A step of a
deletion is `Cleaned`: its new frames go on with what the frame was about (`Passes`), delete first what they
will drop (`Empties`) and what the step itself took away (`Disowns`).  Each action is shown to be one of the two, to
throw, or to stop the process; from then on the proof is about these four cases.

## JSONSocket: a handshake over streams, messages and datagrams

`JSONSocket.tla` is one attempt of a stage to connect (`NetSocketCluster._stream`,
`JSONSocketCluster._stream`) and one session of a listener (`JSONSocketListener.onSession`) with
the transport between them: bytes, which may split and join messages, messages in order, or
datagrams, which are lost and overtake each other.  Either side may be another program
(`role`), which sends any header, or none.

| State | Code |
|---|---|
| `client` | `_stream()`: a socket that opens, the wait for the response, the session before and after it pipes |
| `server` | `onSession()`: the wait for the header, the router, the session |
| `cstream`, `sstream` | the sockets; a socket may open after its client has given up (`OpenLate`) |
| `toServer`, `toClient` | messages on their way |
| `answer` | the first message that the server has sent |
| `up` | the processes: an error or rejection that nobody handles ends one |

`MCJSONSocket` has two connections, one of any role and transport and one that shares
the process with it and can end it.  `jsonsocket_handshake` checks `ConnectedIsAnswered`,
`FailedIsClosed`, `PayloadIsData`, `ServerFollows` and that both sides implement
`Handshake`, where a client asks, a server agrees, refuses or answers without saying which,
once, and a client is not kept waiting.  One payload message and one loss suffice: a message that arrives before, after
or instead of the response is one that overtakes it or follows it.  Fairness: the waits of the
client have timeouts, the event loop delivers what has come, the router settles
(`KeepsPromise` of `Session`).

What the properties except is what the code does.  A late connect that fails ends the
client's process (`cluster.js` 367-385); a client that closes before its header has come ends
the server's (`listener.js` 748); the header `null` does so, too, and as a response
it leaves the client's socket open.
What comes before the session has piped its stream is lost.  An error after the
set-up is written into the stream as a header, which the other side's session gets as
payload, and which may say 200.

A response without a status connects the client (`cluster.js` 739), although
`doc/jsonsocket-spec.org` 73-78 demands that it fails then; and this program sends one when a
session fails with a `TypeError` or another error of the language, whose `status` is undefined
(`listener.js` 838-844).  `ConnectedIsAgreed` states the demand and `jsonsocket_status` refutes it.
The promise that the code keeps, and that `ConnectedIsAnswered` and `Handshake` state, is weaker:
there such an answer is "unclear", which is no agreement and which a client may connect on.

`JSONSocket_proofs.tla` proves, for any number of connections, payload and losses,
`JSONSocketTypeCorrect`, `ConnectedAnswered` (`ConnectedIsAnswered`) and `KeepsHandshake`: every step
is a step of `Handshake` or a stutter.  The invariant is `HandshakeInv`, a conjunction
for each connection: no acceptance is on its way unless the server has given one (`SentInv`,
needed since `ConnectedIsAnswered` says nothing of messages), the answer follows the server's
state (`ServerInv`), and nothing happens before a client comes (`ClientInv`).  The
simulation is by sides: a step of a connection changes one side, by a transition that
`SideStep` lists.  The fairness of `Handshake` is only model-checked.

`FailedStreamsClosed` is `FailedIsClosed`.  Its invariant `LeftInv` adds that a socket that is
opening has sent nothing and its server knows of nobody, and that `null` is on its way only if it was
the first answer.  `PayloadDelivered` is `PayloadIsData`: on a byte stream (`OrderInv`, `GotInv`)
there is nothing but payload behind the answer that the client waits for, or at all once it has
taken it, except the error's header, which is last and after which the server sends no more.

## Offload: the kernel's redirects follow the pipes

`Offload.tla` models the engine of `udp-offload.js`, with `tc` filters and pinned maps that outlive
the process, and what `pipe()` and the unpipe handlers of `session.js` do to the map of
redirects.  Maps are numbered by the start of the process that loaded them, so that a
filter may read maps nobody writes any more.

| Action | Code |
|---|---|
| `Start`, `StartDisabled` | `applyAdmin()` with `init()`: some interfaces may have got the filter when it fails |
| `Exit`, `Kill` | the exit handler with `shutdown()`, which may stop half-way; no exit handler |
| `Connect`, `End`, `Fail`, `Reconnect` | a session is piped, destroyed, loses and regains a socket |
| `CloseListener` | a singleton listener is deleted: its socket is the session's |
| `DeleteEndPoint` | recursive `deleteEndPoint()`: `disconnect()` of all sessions whose destination it is |
| `Evict` | the kernel's maps are of the LRU kind |

`offload_redirects` checks, with two sessions, two interfaces and two starts, `RedirectsAreOwned`,
`EngineIsLoaded`, `NoFilterLeft` and `OthersKeepRedirects`.  Two starts are one that leaves
something behind and one that finds it; two sessions share a port of a cluster that binds it.
Exceptions: `hidden` are 5-tuples whose socket was closed before the pipe was removed, so that the
redirect stays: that of a deleted singleton listener, as the handler asks the closed socket for its
address and gives up (`session.js` 208-215), and that of a deleted endpoint's
session that connects again, as `disconnect()` takes the handlers away and destroys the stream (`session.js`
756-760), and only the redirect of the neighbour, whose pipe into the stream goes, is removed.
Sessions that do not connect again are destroyed in the same turn, before the socket
is closed, and lose both.  `unclean` are interfaces whose filter a process has left, because it
was killed, did not set it up itself or failed on the way.

`Offload_proofs.tla` proves `TypeOK` and the three invariants for any sessions, interfaces, ports and
number of starts (`KernelFollowsPipes`, `EnginesLoaded`, `FiltersAccounted`).
`RedirectsAreOwned` is inductive only with `EngineInv`, which says that maps of starts to come
are empty and that a running engine writes the maps of its own start, so that a new
engine begins with no redirects; and with `AbsentInv`, which says that a session that is not there
has no open socket.  `SessionsKeepApart` proves the action property `OthersKeepRedirects`: sessions
share no 5-tuple but a bound one (`SharedInv`), and a step of a session writes no redirect but
those of the 5-tuples that it has before or after it (`Touches`, for the set of
sessions that a deletion of an endpoint disconnects).

The `VIEW` of `MCOffload` leaves out the contents of maps of earlier starts, which no step reads, and keeps
whether there are any, for the mutant that does read them.

Not modelled: `flows`, the set of flow objects, from which flows that are removed by an equal
object never go, and the statistics (`getStat`, `dumpStat`) read for it; `session.pipes`,
which counts unpipe events of pipes that were never counted and may go below zero.  The
documentation has `offload_ifs` as a string separated by commas; the code goes through an array.

## SyncCluster: rooms

`SyncCluster.tla` models the `Sync` cluster and `BroadcastStream` with the semantics of Node's `pipe()`
(version 14, as in the `Dockerfile`): a pipe ends its output when its input ends, is taken
down when the output has finished, and pauses the input while an output is full.  A port
has an input, which its session writes, an output, which it reads, and pipes to and from
all ports of its room with another key.

| Action | Code |
|---|---|
| `Join`, `Pipe` | `SyncCluster._stream()` with `BroadcastStream.add()`; the session is connected and reads |
| `Leave`, `Stop` | `destroy()`; what the port is piped to ends, too |
| `Write`, `End`, `Finish` | events of the streams |
| `PortEnd` | the 'end' of a port, with `remove()` of its key |

`sync_rooms` checks three ports of three names in two rooms: `OneDomain`, `EndsByLeaving` and, under the
fairness of the streams' events, `EndSpreads`.  Three ports are a leaver, one that is there and
one that joins between the end of the leaver and its removal, or one that stalls;
a name that is used again needs no fourth.  A run with four ports found nothing in its first
million states and was not finished.

What the code does, which the properties except: the leaver's own port stays in the room and
ends those that join until its own output has been read to the end; a session that stalls holds
that up.  Ports of one key are not connected, and `remove()` takes the first of them.  A
write to an output that has ended is an error whose handler throws (`stream.js` 175-178), which
ends the process.  Rooms are never deleted.

`SyncCluster_proofs.tla` proves `TypeOK` and `EndsByLeaving` (`OnlyLeavingEnds`) for any sessions, rooms and
number of ports, from `LeavingInv`: it needs `RoomInv`, that pipes stay in a room and that an input
is ended only by a session that has left.

`RoomsAreDomains` proves `OneDomain` from `DomainInv`.  A port that is in the list hears the others
(`ListInv`), so the question is whether a live port can be out of the list: `remove()` goes by the name
and takes the first port of that name, which need not be the one that has ended.  `TwinInv` says
that a live port is in the list and hears all that later ports of its name hear, `CountInv` that
each end takes exactly one of a name, and `EndInv` that an end is told only after the output is
finished: when a live port is the first of its name in the list, nobody with the name has an end left to tell.
`EndSpreads` is liveness and only model-checked.

## Routing: rules and load balancing

`Routing.tla` has `create()` of a session, in one step: the lookup of its rules, the rewriting of its
metadata, the route; and later, when endpoints have come and gone, `apply()` of the load balancer.
Metadata is one value, and rules match one value or all.  The hash ring is a library's (external): it
is built anew with every change from the addresses and weights of the endpoints (`Keys`), an
address gets a number of points by its share of all weights (`Points`; 40 for each with equal
weights), and an order of all points that there may be stands for the hash of each value.

The lookup is a recursive function with a bounded stack (`MaxDepth`), as a lookup in a circle is one
that overflows the stack: any depth from the number of lists on gives the same answer.
`LookupIsChain` compares it with a definition without recursion: chains of lists that defer
to each other, none of them twice.

`Affinity` says when two sessions of the same metadata may get different endpoints: one is gone or was
added in between, or the weights have shifted their shares (`Reweighted`): the address of the first has
lost points of the ring or that of the second has gained some.  That happens where
`weight: e.weight` (`cluster.js` 110) differs: an endpoint of weight 2 takes points
from two of weight 1 whose sessions may then change places, though neither was touched.
With equal weights shares never shift (in exact arithmetic: the library rounds a quotient of
floating-point numbers down), and affinity is strict.  `openapi/l7mp-openapi.yaml` (768-775) promises no more, "soft
session affinity ... with high probability".

`routing_lookup` checks all pairs of lists of up to two rules of a set of three that has rules that
defer, in a circle or to a list that is missing, that rewrite, or that are not defined; with two
sessions, and four endpoints at three addresses, of weights 1 and 2, two of them at one address with different
weights.  Five changes let an endpoint be added, deleted and added again behind another, when the trivial load
balancer moves on with nothing gone (the last case of `Affinity`), with two more before or after.
Without the case of `Reweighted` TLC finds sessions moved in this instance; with four equal weights it does not.
The `VIEW` keeps the tables of rules apart in the initial states, where each is used with all metadata,
and later by what they do with the sessions that are new.

Both are theorems (`LookupsFollowChains`, `ChangesMoveNoSession`), for lists and endpoints of any number.  The
first is an induction on the calls that are left: a lookup finds the end of a way of lists
that defer to each other, of at most that many lists, or there is a way that goes on.  A list
defers to one other at most, so ways from one list agree, a way that ends passes no list twice, and
more calls than lists are enough for those.  The second rests on an invariant about the order of
the endpoints (`AtHome`): no point of the ring that a connected session has seen is nearer than one of
its own address, and of the endpoints that it has known and that are still there none of the same address
comes after its own; with the trivial load balancer, none comes before it.  Additions append and deletions keep the
order, so only those that a session has not known can come in its way.

What the code does: the rewriting of rules that only defer is ignored, and a rule that
defers to a list is not looked at for its route; a missing rule before the one that would match makes the lookup
fail; a circle is a RangeError, which has no status; endpoints that share an
address hide each other (`cluster.js` 110); metadata whose hash key is null is a TypeError.
The paths into nested metadata and the forms of predicates are abstracted.

## Findings

Each is a run that expects a violation; `PROJECT.json` quotes the lines.

- `ReconnectKeepsSession` (`session_egress`): `repipe()` cannot repipe the last egress stage; its
  successful reconnect destroys the session.
- `MergeStaysOpen` (`sync_merge`): the comments of `MergeStream` promise outputs that outlive their
  writers; `add()` of the broadcast stream uses `pipe()`, which ends them.
- `ConnectedIsAgreed` (`jsonsocket_status`): a response header without a status connects the client
  of a JSONSocket, where `doc/jsonsocket-spec.org` demands that it closes and fails.

Met on the way, and part of the models, where properties make an exception for them:

- A session that is ended while an attempt is in flight becomes CONNECTED after DESTROYED.
- When one stage fails the set-up, a stage that connects later keeps an open stream that
  nobody ends; a close during the set-up goes unnoticed.
- `session.status` never becomes DISCONNECTED; `destroy()` returns whether a stage is
  retrying and no caller looks at it, so that a session leaves the table while it retries.
- The second removal of a session removes a later, live session of the same name.
- A session without a destination makes the recursive deletion of any cluster fail half-way.
- The closed socket of a UDP session that was refused stays in the pool; its remote is
  never heard again.
- The recursive deletion of an endpoint leaves the redirect of its 5-tuple in the kernel, when
  the session connects again.
- An endpoint of another weight moves sessions between endpoints that nobody touched.
- A recursive deletion of a rulelist deletes rules that other rulelists use.

## What is proved, and what is only checked

The proofs rest on the named assumptions of each module's constants and on nothing else.
Liveness and the fairness parts of the two refinements are beyond TLAPS and are model-checked.
Every safety property of the passing runs, state or action property, is stated by a theorem.

## Not modelled

The Kubernetes operator is a program of its own in Python that calls the API; it shares no
state with the proxy, and a model of it would be a project beside this one.  Of the proxy: the
byte-level work of streams, HTTP replies and server errors, the counters of pipes and the
statistics of offloaded flows, the forms of predicates and paths, monitoring, logging, validation
of requests (a library against the generated schema), the eBPF program, Helm charts, static
configuration files and the generated client.  `PROJECT.json` gives the status of each
component, and lists the hazards no property covers with the reason.
