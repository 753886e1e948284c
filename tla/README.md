# A TLA+ development of the DAS attention broker

This directory models the attention broker (`src/src/attention_broker_server`,
`src/src/commons`, `src/src/main`) and the network of cache nodes
(`src/src/atom_space_node`, `src/src/cache_node`): TLA+ modules translated from the C++ sources,
TLC configurations that check them on small instances, and TLAPS proofs of the
most important results for every instance. `PROJECT.json` maps every definition
to the lines it models and lists components, runs, mutants, findings, hazards
and theorems.

Paths below are relative to `src/src/attention_broker_server/` unless they
begin with another directory.

## 1. The system

Clients of a DAS query engine report, over gRPC, which atoms appeared in the
answers to a query. The broker keeps a *Hebbian network* per context: nodes are
atoms, and the edge `A->B` counts how often B was in an answer that also had A.
A `correlate` call updates the counts; a `stimulate` call distributes a fixed
amount of *importance tokens* over the atoms. Both calls only enqueue their
request: worker threads do the work later.

```
 gRPC threads                      queues                worker threads
 stimulate ----select network----> stimulus_requests ---> even ids: TokenSpreader
 correlate ----select network----> correlation_requests-> odd ids:  HebbianUpdater
                                                               |
 SIGINT -> graceful_shutdown -> WorkerThreads::graceful_stop   v
                                                  HebbianNetwork (HandleTrie of nodes,
                                                  a HandleTrie of edges in each node)
```

### Inventory

| Component | State | Operations | Hard behaviour | What makes it correct |
|---|---|---|---|---|
| **Request queue** `commons/RequestQueue` | a ring of pointers, `start`, `end`, `count`, `size`, a mutex | `enqueue`, `dequeue`, `enlarge_request_queue` | the ring wraps and is enlarged while wrapped; many threads | it is a FIFO queue; no cell is read before it was written |
| **Worker threads** `WorkerThreads`, `RequestSelector` | `stop_flag`, the threads | the loop of each worker, `graceful_stop` | several workers per queue; a worker naps for 100 ms when its queue is empty and then looks only at `stop_flag` | every request is processed once; none is stranded; the stop terminates and drains |
| **AttentionBrokerServer**, `main/main.cc` | the map of contexts, `rpc_api_enabled`, two queues | constructor, `ping`, `stimulate`, `correlate`, `select_hebbian_network`, `graceful_shutdown`, destructor, SIGINT handler | handlers run concurrently with each other, with the workers and with the shutdown; no lock protects the map; any thread may get the signal, also one that holds a lock; static objects are initialised in either order | contexts do not mix; one network per context; the answer tells what became of the request; a signal ends the process, and drained |
| **Hebbian network**, `HebbianNetworkUpdater` | counts of nodes and edges, end points of edges, `arity`, `largest_arity`, `tokens_to_distribute` | `correlation`, `add_node`, `add_symmetric_edge`, `add_asymmetric_edge`, `alienate_tokens`, `visit_nodes` | workers interleave inside `add_asymmetric_edge`; `arity` has no lock | counts are exact, weights are bounded, derived data agree with the counts |
| **Stimulus spreader** `StimulusSpreader` | `importance` and `stimuli_to_spread` of every node; the data of one request | `spread_stimuli`: rents, wages, consolidation, one cycle of spreading | three separate visits of a network that changes in between | tokens are neither created nor lost; importances stay non-negative |
| **HandleTrie** | a trie with a lock per node | `insert`, `lookup`, `traverse` | lock coupling, splits, `lookup` that releases before it locks | it is a map: a key that is present is found |
| **Message broker** `atom_space_node/MessageBroker` | peers, stubs, `peers_mutex`, the incoming queue | `add_peer`, `send`, `broadcast`, `join_network`, `execute_message`, inbox threads | calls to other nodes under a lock, stubs without a lock, calls that fail unnoticed | no node executes a message more often than there are ways to it; one working way is enough; broadcasts end |
| **AtomSpaceNode, leadership, cache nodes** | leader, role of each node | `join_network`, election, `node_joined_network` | order of joining messages | one leader, every client knows its server |
| **Expression hasher** `hasher` | static buffers | MD5 of expressions | none that a model checker reaches | the digest |
| **Utilities** `commons/Utils` | none | errors, timers, random strings | an error is an exception that ends the thread | none of their own |

Interactions: the gRPC threads and the workers share the two queues; workers of
both kinds share the networks; the thread that handles SIGINT shares
`rpc_api_enabled` and `stop_flag` with everyone. There is no persistence and no
retry. The message broker is a separate library that the broker process does
not call.

## 2. Modules

| Module | Models | Built on |
|---|---|---|
| `AbstractRequestQueue` | what the queue promises: a sequence with atomic operations | |
| `RequestQueue` | the ring, `enqueue` and `dequeue` in two steps under the mutex | refines `AbstractRequestQueue` |
| `RequestQueueProofs` | theorems about `RequestQueue` | |
| `WorkerThreads` | workers, selector, stop | uses the abstract queue |
| `WorkerThreadsProofs` | theorems about `WorkerThreads` | |
| `AttentionBrokerServer`, `MCAttentionBrokerServer` | handlers, contexts, signals, shutdown, exit | extends `WorkerThreads` |
| `AttentionBrokerServerProofs` | theorems about `AttentionBrokerServer` | extends `WorkerThreadsProofs` |
| `HebbianNetwork` | correlations by several workers | |
| `HebbianNetworkProofs` | theorems about `HebbianNetwork`: arities, sequential correlations, counts and weights | |
| `AbstractHandleTrie` | what the trie promises: a map with atomic operations | |
| `HandleTrie`, `MCHandleTrie` | `insert`, `lookup`, `traverse` by many threads | refines `AbstractHandleTrie` |
| `HandleTrieProofs` | theorems about `HandleTrie` | |
| `StimulusSpreader`, `MCStimulusSpreader` | stimuli and correlations on one network | extends `HebbianNetwork` |
| `StimulusSpreaderProofs` | theorems about `StimulusSpreader` | extends `HebbianNetworkProofs` |
| `MessageBroker` | the brokers of several nodes: calls, locks, inbox threads | uses the abstract queue |
| `AbstractNetwork` | what a network of nodes promises about its messages | |
| `AtomSpaceNetwork`, `MCPeerNetwork` | networks of any shape: joining, election, adding peers, commands | extends `MessageBroker`, refines `AbstractNetwork` |
| `AtomSpaceNetworkProofs` | theorems about `AtomSpaceNetwork` | |
| `CacheNetwork`, `MCCacheNetwork` | a cache server and its clients | gives the parameters of `AtomSpaceNetwork` their values |
| `CacheNetworkProofs` | theorem about `CacheNetwork`: nothing is lost | extends `AtomSpaceNetworkProofs` |

In every module a definition whose name has the form `Name_Slip` is a mutated
form of `Name`: the bug it contains is named in the comment before it. No
specification uses them; they document, for each property, a plausible bug that
the property detects.

### Request queue

`requests` is a function from the cells `0..size-1`; a cell that was allocated
and never written holds `Garbage`. An operation takes two steps,
`BeginEnqueue`/`EndEnqueue` and `BeginDequeue`/`EndDequeue`, between which the
mutex is held, so that other callers are seen waiting; the enlargement happens
inside `BeginEnqueue`, as in the code. `CellsCopied` counts the cells the
do-while of `enlarge_request_queue` visits. `Contents` reads the ring from
`start`; under it the ring implements `AbstractRequestQueue`: `EndEnqueue` is the
abstract `Enqueue`, `EndDequeue` the abstract `Dequeue`, everything else stutters.

### Worker threads

A worker is in `"next"` (about to ask the selector), `"processing"`,
`"sleeping"` (between an empty answer and the check of `stop_flag`) or
`"stopped"`. The queue operations are atomic, which `RequestQueueIsFIFO`
justifies. `graceful_stop` sets the flag and joins the threads in order; a
thread that was joined leaves `joinable`. The histories `arrival` (was a worker
of this queue on duty when the request came?) and `accepted` (did it come before
the stop?) are read only by properties. `main.cc` creates ten workers; the model
takes `ThreadsCount` as a constant. `Reuse` gives the name of a processed request
to a later one, so the number of requests over time is not bounded: only the
number that is in the system at once.

### Server and process

A call is received, selects its network (`SelectExisting`, or `SelectMissing`
followed by `CreateNetwork`: the map is searched and changed without a lock, so
they are separate steps), enqueues its request and only then reads
`rpc_api_enabled`. A search during another call's insertion is a data race on an
`unordered_map`; the model lets it miss an entry that is there, and goes no
further (a crash of the process would hide everything else). An entry is
`Absent`, a network, or `NULL`: the index operator inserts a null pointer when it
is asked for the default context and finds none. That can happen because
`service` (`main/main.cc:16`) and `GLOBAL_CONTEXT` are static objects of two
translation units: a program linked with `main.o` first constructs the service
while the name of its default context is still the empty string, and stores the
network where no call looks for it. `service_first` is the choice of the build.

`phase` follows `main.cc`: SIGINT, `graceful_shutdown`, `exit`, the destructor of
the static service, `graceful_shutdown` again. `handler` is the thread that runs
the signal handler: a worker, the thread of a call (named after the call) or another
one (`Main`, which stands for the main thread and for those of gRPC that serve no
call). The thread stays where it is and keeps the mutex it was interrupted with
(`held`, chosen by `MayHold`): a worker that of its queue in `dequeue` or that of
`stop_flag`, a call that of its queue in `enqueue`. Whoever needs that mutex is
`Blocked` from then on: the workers of the queue, the calls that enqueue, or, with
`stop_flag_mutex`, `StopWorkers` itself. A thread that runs the handler is
`Suspended`: it takes no step of its own, and `join` of itself throws
(`JoinThrows`), as does the join of a thread that was joined, which every regular
shutdown ends with. A second SIGINT (`SigintAgain`) runs a second handler in another
thread; one of the two joins a thread that the other one joins, which the model makes
the end of the process. Calls never run out: `CallAgain` gives the name of a call that
returned, and whose request was processed, to a new one, so callers may go on for ever
after the shutdown began. gRPC is external: it delivers calls in threads of its own at
any time, also after the shutdown.

### Hebbian network

Handles are `1..HandleCount`, in the order that `compare` gives strings. One
`correlation` is a sequence of steps of its worker: `AddNode` for every element,
`NextPair` for every turn of the two loops, and for either edge of a pair the
steps of `add_asymmetric_edge`: insertion, the check of the count (outside the
lock), the pointers, the read and the write of `arity`, the comparison and the
assignment under `largest_arity_mutex`. The build may read `arity` once or twice
under that mutex, so `AssignLargest` chooses. An insertion in the trie is one
step, which `HandleTrie` justifies. Nothing checks the length of the handles a client
sends: `list` is what comes before the first one that `HandleTrie::insert` refuses,
`malformed` says that there is one, and `Throw` is the end of the process after the
nodes before it were counted and no edge was.

### HandleTrie

A node is named after the letters that led to it when it was created: an
internal node after a prefix, a leaf after its whole key (its `suffix`). An
internal node never moves and a leaf never becomes one, but a leaf moves down
when it is split off, and `suffix_start` and the pointers to it change. A step
ends where the code unlocks a node or waits for one: `insert` holds a node and
its parent (`at_node`), unlocks the grandparent before it waits for a child
(`at_child`); `lookup` and `traverse` hold one node in each step, and a traversal
may keep the root. `Refuse` is the call of `insert` or `lookup` with a key of another
length than `key_size`: it throws (`ERROR`) before it locks anything, in the trie as in
the map. Letters are the numbers `TLB` gives to digits: the keys are
spelled in one case, as the hashes are. The refinement answers a lookup when it
has read the pointer to a leaf, before it locks the leaf; a value is the number
of insertions merged into it.

### Stimulus spreader

Importance is an integer number of units (`TOKENS` units are the code's 1.0);
`NaN` stands for every infinite or undefined result, which is absorbing. The
three visits of the network hold the lock of the trie's root. `CollectRent` is
one step because importances are written only by other visits; the visits that
write are one step per node and, in the second one, per traversal of the node's
neighbors, since `add_asymmetric_edge` does not need the root. An `add_node` that
passed the root before a visit began can be placed before the visit, or after it
if the visit misses the node: its worker needs the root for its next operation,
and a node is locked while it is visited, so nothing tells these orders apart.
`Crash` is the end of the process by an uncaught exception (`WagesThrow`: no `SUM` in
the request, or a handle of a wrong length, one of `Malformed`, that
`importance_changes` refuses after the rents were collected and the tokens alienated)
or by a NULL pointer. `disturbances` is a history of what the code's own
accounting cannot balance: an overlapping stimulus or correlation, a handle the
network does not know or the trie refuses, a node without neighbors (what it spreads reaches
nobody), a request whose `SUM` is missing or is not what its counts add up to
(nothing checks it), a node that is charged a rent it no longer owns (`"debt"`).
Correlations that overlapped each other count as one that overlaps every later
stimulus: they may have left an edge without end points, or an arity above
`largest_arity`. Each property names the disturbances it allows.

### Message broker, nodes and cache nodes

Each node is a process: `thread[n][t]` is what thread `t` of node `n` is doing,
with the message in its hands, the peers it has still to call and the
`ClientContext`s it has left; `Main` is the thread that uses the node. `broadcast`
reads the number of peers (`BroadcastBegins`), locks (`Lock`), calls every peer
in any order (`CallPeer`) and unlocks; an inbox thread forwards a broadcast by the
same three steps, with one context, before it executes the command (`Act`).
`add_peer` enters the peer under the lock (`AddPeer`) and the stub without it
(`InsertStub`). Where these steps allow it a process ends: `CallCrashes` goes
through a stub that is missing or is being written, or reuses a context, which
gRPC answers by a failed assertion; when `Main` runs out of contexts it writes
behind an array, and the model lets it survive or not. `SendThrows` leaves
`peers_mutex` locked by `Main`: whoever called `send` may catch the exception.
`Terminate` takes everything in the process away.

gRPC is modelled from its use: a call of a node that listens queues the message
there, any other call fails, and nobody looks at the status. That a channel waits
before it connects again is left out: it would only make more calls fail.

`AtomSpaceNetwork` adds what an `AtomSpaceNode` does with it: `JoinNetwork` (threads
and election) and `Announce`, `Broadcast`, `Send` and `UserAddsPeer` by the user of
a node, and `act`. The id of a message stands for its command and arguments; the
message that announces a node has the name of the node. What a subclass decides is
a parameter: the peers a node knows from its constructor, its vote, whether
`node_joined_network` adds the node that joined, the commands it knows. `audience`
is the history of whom a message could reach when it was issued, `hurried` tells
whether an operation ever began before the last one was over, or before the peers
of its node had joined. `CacheNetwork` is the instance that `CacheNode.cc` defines:
a star whose centre adds everybody.

`AbstractNetwork` says what the interface of the broker promises about messages:
one is executed only by those it is addressed to, never by its origin, and at most
once for every way (simple path over the peers that can ever exist) from its origin.
Where there is one way that is at most once, as in the star. The interface promises
more: `atom_space_node/MessageBroker.h:195-197` says that a request is never re-sent
to nodes that have already received it. In a circle that is not so, because the list of
visited recipients travels with the message: a node that got it by one way executes it
again when it comes by the other. `NeverResent` states the promise, and the run
`peer_network_resent` shows the violation; the abstract network states what holds.

## 3. Runs

Passing runs, with TLC's distinct states:

| Run | Instance | States | Shows |
|---|---|---|---|
| `request_queue` | 2 callers, 2 requests, initial size 2, at most 5 queued | 1.2 M | `RingInvariant`, `ImplementsFIFO` |
| `worker_threads` | 3 workers (two share a queue), 3 requests at a time, no bound on their number | 66 k | `ExactlyOnce`, `NeverStranded`, `DrainedOnReturn`, liveness: `EventuallyProcessed`, `StopReturns` |
| `server` | 2 calls at a time, without end, 3 workers (two share a queue), 2 signals in any thread with any mutex it may hold; 2 contexts and the empty name | 802 k | `ContextsIsolated`, `UnracedContextHasOneNetwork`, `OnlyTheDefaultIsIgnored`, `AnsweredOKBeforeStop`, `EndsDrained`, `ServedUnlessInterrupted`, liveness: `SigintEnds` |
| `stimulus` | 2 updaters, 3 correlations out of 5 lists, each cut short by a malformed handle or not, on 3 handles; 2 spreaders, 2 stimuli out of 5 requests, 2 correlations on a path of 3 atoms | 1.6 M | `ExactCounts`, `WeightBounded`, `ArityNeverOvercounts`, `ExactWhenSequential`; `ConservedWhenAlone`, `NeverCreated`, `ImportanceNotNegative`, `CrashNeedsCorrelation` |
| `handle_trie` | 2 threads, 4 operations, 3 keys of 3 letters and others | 277 k | `PathsIntact`, `TraversesInOrder`, `ImplementsMap`, liveness: `OperationsReturn` |
| `peer_network` | 3 nodes in a line, the ends may be joined, one inbox thread each, 1 call | 123 k | refinement: `ImplementsNetwork`; liveness: `BroadcastsEnd`, `OneWayIsEnough` |
| `cache_network` | a server with 2 inbox threads, 3 clients with 1, one call, 2 operations at a time | 240 k | `PacedNetworkIsReliable`, liveness: `EventuallyReached`, `EventuallyKnown` |

Each of them also checks the type invariant of its module, except `cache_network`
(`peer_network` checks it). None takes longer than a minute or two with two workers.

Why the bounds are enough:

* `request_queue`: five requests make the ring grow from 2 to 4 to 8 cells, and
  since the length of the run is not bounded, with every offset of `start`,
  wrapped or not. Two callers are enough for every contention for the mutex.
* `worker_threads`: two workers of one queue race for a request, and one may nap
  while the other works; the third serves the other queue. Three requests let
  one arrive while another is held and a third is queued.
* `server`: the signal comes at any step to any thread, with each mutex the thread may
  hold, and a second one at any later step. Two workers of the stimulus queue let one go
  on while the other is interrupted; the other queue has one worker, so that an
  interrupted worker may be the only one. Two calls at a time, without end, keep a queue
  from ever being empty. The shutdown does not read the contexts, so these calls name
  the default one, and `select_hebbian_network` uses nothing that workers and signals
  write, so calls that name other contexts, or none, come once each and meet no signal:
  two calls race for one context or name different ones; a third one would only repeat
  one of these. `MCAttentionBrokerServer` leaves out steps that repeat others: the
  second call arrives before the first; where contexts matter, the first call is a
  correlation, and calls of different contexts use more than one combination of the two
  queues.
* `stimulus`, the counts: three lists give two overlapping requests and one before or
  after them; the lists share a pair, or one handle only, one has three handles, so
  that both loops make all their turns, and one repeats a handle. Each may be cut short
  by a malformed handle, so that a request ends after any number of nodes. All orders of
  the two updaters occur as long as no stimulus comes; the stimuli need fewer lists.
* `handle_trie`: two keys share two letters, so the second one pushes the first
  down twice before it splits it; a third key branches off above them. Four
  operations allow one or two keys to be there when two operations race.
* `stimulus`, the tokens: on a path the middle node has arity 2 and the ends arity 1, so
  spreading rates and weights differ; two stimuli run one after the other or
  overlap at any step, with a correlation before, between or during them, and two
  updaters overlap each other before them. `MCStimulusSpreader` leaves out that a
  request overlaps both a request and a correlation, and that one with a wrong or
  missing `SUM`, or with a malformed handle, overlaps anything. A debt takes more
  overlapping stimuli than the run has, since each charges a tenth of what it finds; the properties are proved
  for any number of them. The rates are those of `AttentionBrokerServer.cc`.
  `Tolerance` is a thousandth of the tokens, as the repository's tests allow; it
  absorbs the integer rounding, of which `TokensAreKept` shows that it takes at
  most 24 units here.
* `cache_network`: two inbox threads of the server handle two joins at once, or a
  join and a command; a client has one peer and never adds one, so one thread
  does what ten would. The third client is the first one whose messages the
  server forwards twice; it also lacks the command, so that a process ends for
  that reason. `MaxOverlap` lets two operations begin before the network comes to
  rest, at every step of each other; the sequence of operations has five. The
  third client joins last, when the network has come to rest.
* `peer_network`: three nodes in a circle are the least where a broadcast comes by
  two ways. The peers of the circle are added in the run, by users or by an
  announcement, so that the line, the half and the whole circle all occur, with
  broadcasts under way while they change. One operation begins at a time; the
  messages of one broadcast race with each other all the same.

Deadlock is checked for `request_queue` only: in the other models the callers
run out of requests, the workers end or a process terminates.

Fairness is assumed in `worker_threads`, `server`, `handle_trie`, `peer_network` and
`cache_network`: weak fairness of every worker, of the thread that joins (in
`server`: of the thread that runs the handler), of every thread inside an
operation of the trie, of every thread of a node that has something to do and of
the start of its gRPC server, because the operating system schedules every runnable
thread. Nothing makes a request or a signal arrive, a stop be asked for, or a node
join, add a peer, broadcast or send. `StopReturns` says that `graceful_stop`
returns unless requests arrive for ever: workers look at `stop_flag` only when
their queue is empty, and the handlers keep enqueuing after the shutdown began.
`SigintEnds` makes the same exception for the whole process.

Runs that are expected to find a violation, each of one statement that the
repository's own documentation makes:

| Run | Statement | What happens |
|---|---|---|
| `worker_threads_stop` | `WorkerThreads.h:42-43`: both queues are processed before the threads stop | a request is enqueued while all workers of its queue nap; they wake up, see `stop_flag` and end |
| `server_context_race` | `AttentionBrokerServer.h:41`: a context is a `HebbianNetwork` object | two first calls for a context both find nothing and create a network; one of them is lost with its request |
| `server_default_context` | `AttentionBrokerServer.h:42-43`: the constructor creates the default context for callers that specify none | `service` is initialised before `GLOBAL_CONTEXT`; a call without a context gets a null pointer, is answered OK and ignored |
| `stimulus_tokens` | `StimulusSpreader.h:80-81`: the total amount of tokens remains fixed | the second of two overlapping spreaders overwrites `stimuli_to_spread` before the first has delivered it |
| `peer_network_resent` | `atom_space_node/MessageBroker.h:195-197`: a request is never re-sent to nodes that have already received it | `a` receives `c`, and `c`'s announcement comes to `b` directly and through `a`: `b` executes it twice |

The passing runs state what remains true instead. `DrainedOnReturn` says that
only requests which arrived during such a nap are left; `UnracedContextHasOneNetwork`
that only the race splits a context; `OnlyTheDefaultIsIgnored` that only calls of
the default context can be without a network; `AnsweredOKBeforeStop` that an OK
answer is reliable (a CANCELLED one is not: the request was enqueued before the flag
was read, and may be processed); `ArityNeverOvercounts` and `ExactWhenSequential` what concurrency can
and cannot do to the derived data (two workers that insert the same edge may both
read a count of 2, and nobody sets its end points: `CrashNeedsCorrelation`); `NeverCreated` that overlapping spreaders lose
tokens but create none, unless one charges a node more than it owns;
`ImportanceNotNegative` that nothing but an overlap brings that about, whatever the
requests say; `CrashNeedsCorrelation` that stimuli alone, whatever their handles and counts, never
follow a NULL pointer: it takes a correlation, or a request that lacks `SUM` or has a
handle of a wrong length, to end the process.

What a signal does depends on the thread it comes to. A regular shutdown ends by an
exception (the destructor joins the threads once more, `AttentionBrokerServer.cc:22`),
but, as `EndsDrained` says, only after all workers have ended and what arrived on duty
was processed; `SigintEnds` says that a signal to a thread that is no worker and holds
no mutex of the queues always gets there, unless requests arrive for ever. Both stop
where the code keeps no promise. If a worker receives the signal, it waits for itself:
the process ends with requests in its queues or, as long as callers keep the workers
before it in the list busy, not at all, although `AttentionBrokerServer.h:111-113` says
that `graceful_shutdown` waits for all requests in the queues. If a call receives it
inside `enqueue` (`commons/RequestQueue.cc:21-28`), the workers of that queue wait for a
mutex that the handler's own thread holds, the handler waits for them, and nothing ends,
although `WorkerThreads.h:43-45` says that the threads return when the queues are empty.
Dropping the exemption of either property makes TLC show this. `ServedUnlessInterrupted`
says how far it reaches: a request that arrived on duty has a worker able to run, unless
the signal interrupted a worker of its queue, or the holder of that queue's mutex.

`OneWayIsEnough` and `BroadcastsEnd` say what circles are worth: as long as one way of
nodes that go on working leads to a node, a message whose calls did not fail
reaches it, and no circle keeps a broadcast alive or blocks a lock.

`PacedNetworkIsReliable` says how far the cache network can be trusted: with a
server that joins first, at most two clients, and operations that wait for each
other, as in `message_broker_test.cc`, nothing is lost. Each restriction is needed.
The announcement of a third client makes the server forward a message twice with
one `ClientContext`, and ends it; two clients that join at once may make it use a
stub that is not there yet; a client that joins before the server listens stays
unknown to it, because the failed call goes unnoticed. A client hears only of the clients
that join after it (`message_broker_test.cc` has a TODO on this), so no property says that
it hears of all. `EventuallyReached` also says that calling other nodes with
`peers_mutex` locked cannot block: a receiver only queues the message.

## 4. Proofs

| Theorem | Statement |
|---|---|
| `RequestQueueProofs!RingAlwaysConsistent` | `Spec => []RingInvariant` |
| `RequestQueueProofs!RequestQueueIsFIFO` | `Spec => ImplementsFIFO` |
| `WorkerThreadsProofs!ThreadsWellFormed` | `ThreadsSpec => []ThreadsTypeOK` |
| `WorkerThreadsProofs!RequestsHandledOnce` | `ThreadsSpec => []ExactlyOnce` |
| `WorkerThreadsProofs!RequestsNeverStranded` | `ThreadsSpec => []NeverStranded` |
| `WorkerThreadsProofs!ReturnDrains` | `ThreadsSpec => []DrainedOnReturn` |
| `AttentionBrokerServerProofs!ServerWellFormed` | `Spec => []TypeOK` |
| `AttentionBrokerServerProofs!ServerHandlesOnce` | `Spec => [](ExactlyOnce /\ ServedUnlessInterrupted)` |
| `AttentionBrokerServerProofs!CallsOfContextsIsolated` | `Spec => []ContextsIsolated` |
| `AttentionBrokerServerProofs!UnracedContextsWhole` | `Spec => []UnracedContextHasOneNetwork` |
| `AttentionBrokerServerProofs!OnlyDefaultCallsIgnored` | `Spec => []OnlyTheDefaultIsIgnored` |
| `AttentionBrokerServerProofs!OKMeansAccepted` | `Spec => []AnsweredOKBeforeStop` |
| `AttentionBrokerServerProofs!ProcessEndsDrained` | `Spec => []EndsDrained` |
| `HebbianNetworkProofs!HebbianTypeOK` | `Spec => []TypeOK` |
| `HebbianNetworkProofs!AritiesNeverOvercount` | `Spec => []ArityNeverOvercounts` |
| `HebbianNetworkProofs!ExactOneAtATime` | `Spec => []ExactWhenSequential` |
| `HebbianNetworkProofs!CountsAreExact` | `Spec => []ExactCounts` |
| `HebbianNetworkProofs!WeightsAreBounded` | `Spec => []WeightBounded` |
| `HandleTrieProofs!InvHolds` | `Spec => []Inv`, the inductive invariant of the trie |
| `HandleTrieProofs!TypesHold` | `Spec => []TypeOK` |
| `HandleTrieProofs!PathsStayIntact` | `Spec => []PathsIntact` |
| `HandleTrieProofs!TrieImplementsMap` | `Spec => ImplementsMap` |
| `HandleTrieProofs!TraversalsInOrder` | `Spec => []TraversesInOrder` |
| `StimulusSpreaderProofs!SpreadersWellFormed` | `SpreaderSpec => []SpreaderTypeOK` |
| `StimulusSpreaderProofs!OnlyCorrelationsCrash` | `SpreaderSpec => []CrashNeedsCorrelation` |
| `StimulusSpreaderProofs!NoNodeOwes` | `SpreaderSpec => []ImportanceNotNegative` |
| `StimulusSpreaderProofs!TokensAreNotCreated` | `SpreaderSpec => []NeverCreated` |
| `StimulusSpreaderProofs!TokensAreKept` | `SpreaderSpec => []ConservedWhenAlone`, if `MaxStimuli * RequestLoss <= Tolerance` and there is a spreader |
| `AtomSpaceNetworkProofs!NetworkWellFormed` | `Spec => []TypeOK` |
| `AtomSpaceNetworkProofs!OnlyAddresseesExecute` | `Spec => []OnlyAddressees` |
| `AtomSpaceNetworkProofs!ExecutedByWays` | `Spec => []WithinWays`: no more executions than ways |
| `AtomSpaceNetworkProofs!NetworkIsImplemented` | `Spec => ImplementsNetwork` |
| `CacheNetworkProofs!PacedNetworkLosesNothing` | `Spec => []PacedNetworkIsReliable` |

They hold for every number of callers, workers, calls, contexts, handles,
requests and nodes, under the named assumptions of the modules: the initial size is positive
and no request is `NULL` or `Garbage`; there are at least two workers; the default
context is one of the contexts and the names of contexts, calls, threads, `NULL` and
`Absent` are different; lists consist of handles; malformed names are no handles; the correlation workers and the
spreaders are finitely many (each is a thread that `main.cc` creates); the alphabet
and the size of keys are positive; rates are percentages, the lower bound of the
spreading rate below the upper one, and counts and `SUM` are natural numbers (they
are unsigned); the nodes are finitely many, and none knows itself before it joins; in a cache network
they know and add whom `CacheNode.cc` says, and no user adds a peer (`CacheParameters`, `CacheAssumption`).

**Ring.** `RingInvariant` is inductive. `RingConsistent` relates the cursors to
`count` and says that the occupied cells hold requests; `OperationInProgress`
says what the holder of the mutex has already written or read, without which the
second step of an operation could not be shown to keep the first part.
`CopiesWholeRing` proves that the do-while, started on a full ring where `start`
and `end` coincide, goes exactly once around. All modular arithmetic goes through
`OneTurn`: the indices are below twice the size. For the refinement
`StepSimulation` maps every step to an abstract step or a stutter; the
enlargement is the interesting stutter, since it moves every cell and must leave
`Contents` unchanged.

**Workers.** The inductive invariant is the type invariant with `ExactlyOnce`,
`NeverStranded` and `JoinOrder` (threads before the cursor of `graceful_stop` were
joined, and a joined thread has stopped). `DrainedOnReturn` follows: when the stop
has returned no worker is on duty, so by `NeverStranded` no request that found one
on duty is queued, by the types none is held, and by `ExactlyOnce` it was processed.

**Server.** `ServerInvariant` extends the invariant of the queues, which every step
of the server keeps because it is a step of the threads or leaves them alone
(`ThreadSteps`). `OwnersInvariant` names the context every network was created for
and says that it is stored and selected only there; `CreateNetwork` is the step that
needs it, since a call creates at most one network. `SplitInvariant`: as long as a
context has not raced, a call about to create its network finds its entry absent,
and every call that has selected has the entry. `DefaultInvariant` says what a null
entry and an absent default entry presuppose. `ApiInvariant` orders the shutdown: as
long as the API is enabled `stop_flag` is not set, so what is enqueued is accepted.
`ShutdownInvariant` follows the two calls of `graceful_shutdown`: the first joins the
threads in order, never the one that runs the handler, so the second, and the
destructor, come only when no thread is left to join; then all workers have
stopped, and `EndedDrains` (no worker on duty, so nothing that arrived on duty is
queued or held) gives `EndsDrained`. `ServedUnlessInterrupted` is `NeverStranded` of the
queues with a case distinction: the worker on duty that `NeverStranded` gives can run, is
the one that runs the handler, or waits for the mutex of its queue (`stop_flag_mutex`
only blocks workers that are off duty).

**Arities.** `ArityNeverOvercounts` is not inductive: it does not say why two
workers cannot both count one edge, nor what a lost update may write. The
invariant adds two parts. `OneClaim`: an edge in hand was counted, two workers
with the same edge in hand have counted it at least twice, and at most one of
them claims it as new: whoever claims it read a count of 1, so the other one
inserted later and reads at least 2. `ArityBound`: call a neighbor of a
node *open* while some worker counts it in `arity`, or is about to (it has read a
count of 1, or will), and *settled* otherwise; then `arity` and the value in the
register of a worker that is about to write it are at most the number of settled
neighbors, which only grows, and `largest_arity` and what is assigned to it at
most the number of neighbors. A write of a stale register plus one stays within
the bound because it settles one more neighbor.

**One correlation at a time.** `Sequential` is the invariant of `ExactWhenSequential`:
as long as no two correlations overlapped, only one worker is at work, an edge is
linked unless it is the one in hand, an arity is the number of neighbors less the one
that the worker has still to count, and `largest_arity` is the largest arity unless the
worker is about to raise it.

**Counts and weights.** `ExactCounts` compares a counter with a sum over the history of
requests. The proof counts pairs instead of adding numbers: `Places(list, h)` is the set
of positions at which a list has a handle, an edge is counted once for each pair of
places, and a sum is the cardinality of a family of sets (`Rows`, `RowCount`), of which the
proof needs only how it changes with one of its sets. `LoopOK` says where a worker is in
the two loops, and `Counts`, the invariant, that what was counted and what the workers
have still to count (`NodesLeft`, `EdgesLeft`) is what the requests say; when all workers
are idle nothing is left. `Weights` relates the two counters of a weight: what the edges
of a node may come to, those its workers have still to count for places of it that they
did count (`EdgesDue`) included, is at most the node's count times the largest number of
times that a request repeats the neighbor.

**Trie.** `Inv` has the shape of the tree (`TreeOK`: every letter of an internal node
leads to nothing, to an internal node with one more letter or to a leaf below it whose
`suffix_start` says so), the mutexes (each is held exactly by the thread that holds it by
its program counter) and the place of every thread: `AtNode` and `AtChild` say of an
insertion that the letters of the key up to its cursor led to the node it is at, and
`AtLookup` says less of a lookup, which holds nothing: the leaf it is about to lock may
have moved down. Both changes of the tree are a new leaf and a leaf that is pushed below
a new internal node (a split is both), so preservation is proved of these
two, for any functions in the place of `children` and `suffix_start`; `Grows` says what
others may rely on, and `PlaceSurvives` that a place survives the changes of a thread
that holds other mutexes. For the refinement an insertion takes effect with its last
step, a lookup when it reads the pointer to a leaf or finds none; until then a key that
is present is still reachable from where the lookup is. `Ordered`, the invariant of a
traversal, says that what was visited comes before what is below the nodes on its stack,
that these are in order, and that each key that was there when it began was visited, is
on the stack, or is below an internal node on it.

**Stimuli.** The properties are about sums over the nodes, so the module first proves
what it needs of sums over finite sets: how one changes with one value, with the values
of a subset, or with one more element, and how much a sum of rounded shares may be below
what was shared (`SumSharesLoss`: less than one unit each). Four invariants use it, each
one holding only as long as the disturbances its property excludes have not occurred.
`CrashInvariant`: a request that lacks `SUM`, or a handle that the trie refuses, is
noted when it arrives and before it throws (`FaultsNoted`, `ThrowsNoted`); while a
stimulus is at work no correlation is (`AtRest`), so every node it consolidates has an entry (`EntriesCover`) and every edge it follows is linked, by
`Sequential`. `CreditInvariant`: there is one stimulus at a time, so the rent that a
node is charged is one that it still owns (`RentsAffordable`); and what it spreads is a
share of what is left, because its arity is at most the copy of `largest_arity`.
`SolventInvariant`: `Wealth`, which counts the tokens of nodes, those being spread, those
nobody owns, and the wages less the rents that are still to be applied, never exceeds
`TOKENS`; overwriting what another stimulus has still to spread only takes from it.
`KeptInvariant` bounds the loss from below: what a node has still to spread belongs to
the stimulus at work (`Spent`), whoever is paid is in the network (`Listed`), and `Wealth`
with what rounding took of the requests so far is at least `TOKENS` with what it may
still take of this one (`Sustained`). One request loses less than a unit for each handle
it pays and for each edge it follows, at most `RequestLoss` in total. The theorem's
hypothesis says that the tolerance allows this much for every request; it bounds the
integers of the model, not the code, whose doubles round far less. The run's constants
satisfy it (2 requests of 12 units, a tolerance of 100).

**Network.** `NetworkInvariant` follows a message from its origin to the thread that
executes it. `InFlight` says of every message in a queue or in the hands of a thread
that it was issued, that a broadcast carries its origin among the visited recipients,
and that any other message is where it was sent to; an inbox thread that goes on with
a message is therefore at an addressee. `MutexOK` says that the loops over the peers
of a node exclude each other, also after a `send` that threw with the mutex locked.
`HistoryStays` and `ThreadStep` carry over what a step does not touch, since a message
that was issued keeps its origin and addressees. The refinement needs `WithinWays`:
no node executes a message more often than there are ways without a circle to it. No
message tells by which way it came, because the visited recipients are a set and `send`
does not even fill them, so the state has nothing to count. The invariant
`Routed` says instead that a history of ways exists that fits the state: the ways each
message went (`used`), those by which came what a node executed (`done`), what is in its
queue (`queued`) and what its threads hold (`held`). Being an existential statement it
needs no variable. `Routes` says of such a history that a message goes on only where it
has come (`UsedOK`), that each execution came by a way of its own (`DoneOK`), that no two
queued or held copies, nor an executed one, came by the same way (`QueuedOK`,
`HeldOK`, `HeldApart`), and that from the end of a way the message has not gone yet to
whom it is still to be sent (`Unsent`). The crucial step is a call: the way of the
caller and then the callee is new, because the caller has yet to call that node; and it
is simple, because whoever lies on the way of a broadcast is among its visited recipients
(`CameBy`), which a forwarder never calls. That peers are only those that `Ways` counts is an
invariant of its own (`PeersPossible`). The executions then are as many as the ways in
`done`, which are some of finitely many (`WaysFinite`).

**Cache network.** `PacedNetworkIsReliable` speaks of states at rest, so its invariant
says what the network looks like while an operation is under way. `PacedInvariant`: as
long as no operation was hurried, at most two clients joined and commands are known where
they are addressed (`Paced`, which no step makes true again), the network is `Calm`:
nothing ended, nothing failed, the peers form a `Star`; and there is one message whose
`Operation` every thread and queue is busy with, all others being complete. `Delivery` is
the core: a node that the message has to reach has executed it once and neither holds nor
awaits it, or holds it once and awaits it no more, or awaits it (`Owed`: some thread
will call the node with it) and holds nothing. `Coming` says whom a broadcast that the server has still to forward is for, and
`Route` which recipients it has visited, so that it never goes back. `Acquainted` follows
the client that joins from its announcement into the peers and the stubs of the server:
a peer without a stub is the client that is being added, which nobody
calls because the message is its own. A thread has a context for each call it has yet to make (`Enough`): the server forwards a message to at
most one other client, and that is where the restriction to two clients enters; a user's
thread has as many contexts as it had peers. When all is quiet no node holds or awaits
anything, which leaves the first case of `Delivery`. The proof goes through the
steps of the main thread and of the inbox threads, one lemma each; the lemmas before them
say how `Owed`, `Holds` and the parts of `Operation` change when one thread or queue does.
The type and message invariants of `AtomSpaceNetworkProofs` are used as they are.

TLC checked each of these invariants on the instances
of the runs before they were proved; of `Routed`, whose histories it cannot enumerate, it
checks what follows from it, `ImplementsNetwork`.

Only model-checked: liveness under fairness (the prover has no rules for it that
apply to `ENABLED`). Every invariant and every refinement that a run checks is
stated by a theorem.

## 5. Not modelled

* The destruction of nodes: the inbox threads never end (`AtomSpaceNode.h:58` has a
  TODO), so a node is never destroyed while they run in any use the code supports.
  The outbox threads, which only sleep, and the messages the inbox threads leak.
* A signal that interrupts a worker while it processes a request, holding a lock of a
  trie or `largest_arity_mutex`: the worker is then the thread that runs the handler, and
  the join of itself fails as in the model, but another worker that needs the lock may
  block first, which the composed model, where processing is one step, does not show.
  Locks inside the C and C++ libraries (allocation, `cout`), which a handler may wait for
  as well.
* The life of gRPC's messages: the queues hold pointers to messages that gRPC
  destroys when the handler returns (`AttentionBrokerServer.cc:50`). The models
  treat a queued request as a value.
* The expression hasher: MD5 of strings in static buffers. The server uses only its
  constants, no two threads call it in this program, and a digest is a function whose
  values TLC could only repeat.
* The utilities: errors, timers, random strings and sleeps keep no state. `Utils::error`
  throws. The models contain this for a key of a wrong length (`HandleTrie!Refuse`,
  `HebbianNetwork!Throw`, `StimulusSpreader!WagesThrow`), a missing `SUM` (`WagesThrow`), a
  `send` to an unknown peer (`SendThrows`) and an unknown command (`UnknownCommand`). Its
  other calls are in factories, in the default case of the workers' `switch`, in the
  constructor of `HandleTrie` and for a broker without a node: this program passes none of
  them an argument that meets their conditions.
* Overflow of the unsigned counts (2^32 requests), memory exhaustion, the accessors,
  logging.

## 6. Plan

Done: all components but the hasher and the utilities; every safety invariant of the
runs is proved for every instance, and so are the refinements of the queue,
of the trie and of the network. What would be worth doing next, in order:

1. The worker's processing in steps inside the server, so that a signal can interrupt it
   with the locks of a network.
2. Larger networks: a circle of four nodes, two operations at a time.
