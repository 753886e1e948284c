--------------------------- MODULE HebbianNetwork ---------------------------
(***************************************************************************)
(* One HebbianNetwork updated by the correlation workers: the nodes, the    *)
(* edges and the arities of HebbianNetwork.cc, and                          *)
(* ExactCountHebbianUpdater::correlation, which every worker runs on the    *)
(* request it dequeued.                                                     *)
(*                                                                          *)
(* HandleTrie::insert adds a value, or merges it into the one that is       *)
(* there, while it holds the lock of the key's trie node: it is one step.   *)
(* What add_asymmetric_edge does with the edge it gets back is done outside *)
(* that lock, one memory access at a time.                                  *)
(*                                                                          *)
(* Nothing between the caller and the trie checks the length of a handle.   *)
(* HandleTrie::insert does, and throws in the worker, where nothing catches *)
(* it.                                                                      *)
(***************************************************************************)
EXTENDS Integers, Sequences, FiniteSets, FiniteSetsExt

CONSTANTS
    HandleCount,   \* the handles are 1..HandleCount, in the order of compare()
    Updaters,      \* the workers that serve the correlation queue
    Lists,         \* the handle lists a request may carry, each up to the first
                   \* handle of a wrong length
    MaxRequests,   \* bound of the model: requests processed in total
    NULL           \* no edge; also "nobody" for the mutex

Handles == 1..HandleCount
Edges == Handles \X Handles

ASSUME HandleAssumption == HandleCount \in Nat \ {0}
ASSUME ListAssumption == Lists \subseteq Seq(Handles)
ASSUME BoundAssumption == MaxRequests \in Nat
ASSUME NullAssumption == NULL \notin Updaters /\ NULL \notin Edges
ASSUME UpdaterAssumption == IsFiniteSet(Updaters)

VARIABLES
    node_count,           \* Node::count, 0 when the handle is not in the trie
    edge_count,           \* Edge::count, 0 when it is not in the neighbors
    linked,               \* the edges whose node1 and node2 were set
    arity,                \* Node::arity
    largest_arity,
    largest_arity_mutex,  \* the worker that holds it, or NULL
    pc,                   \* where each worker is
    request,              \* the list it processes
    malformed,            \* does the request go on, with a handle of a wrong length
    nodes,                \* the handles it still has to add_node
    outer, inner,         \* the rests of the two nested loops over the list
    edges,                \* the edges of the current pair it has still to add
    edge,                 \* the edge it is adding, or NULL
    register,             \* the arity it read
    received,             \* history: the requests, in the order they started
    overlapped            \* history: two requests were processed at once

graphVars == <<node_count, edge_count, linked, arity>>
largestVars == <<largest_arity, largest_arity_mutex>>
loopVars == <<request, malformed, nodes, outer, inner>>
workerVars == <<pc, loopVars, edges, edge, register>>
historyVars == <<received, overlapped>>
vars == <<graphVars, largestVars, workerVars, historyVars>>
-----------------------------------------------------------------------------
(* Helpers *)

\* Slip: pairs in both orders, so that every edge is added twice.
Precedes_Either(a, b) == a # b

\* s1.compare(s2) < 0
Precedes(a, b) == a < b

\* add_symmetric_edge
BothWays(a, b) == << <<a, b>>, <<b, a>> >>

Neighbors(h) == {b \in Handles : edge_count[<<h, b>>] > 0}

Goto(t, label) == pc' = [pc EXCEPT ![t] = label]
-----------------------------------------------------------------------------
(* ExactCountHebbianUpdater::correlation *)

\* A worker has dequeued a request.  The RPC handler answers an empty one itself and
\* does not queue it.
Start(t, list) ==
    /\ pc[t] = "idle"
    /\ Len(received) < MaxRequests
    /\ \E bad \in BOOLEAN :
          /\ bad \/ list # <<>>
          /\ malformed' = [malformed EXCEPT ![t] = bad]
    /\ request' = [request EXCEPT ![t] = list]
    /\ nodes' = [nodes EXCEPT ![t] = list]
    /\ outer' = [outer EXCEPT ![t] = list]
    /\ inner' = [inner EXCEPT ![t] = list]
    /\ Goto(t, "next")
    /\ received' = Append(received, list)
    /\ overlapped' = (overlapped \/ \E u \in Updaters \ {t} : pc[u] # "idle")
    /\ UNCHANGED <<graphVars, largestVars, edges, edge, register>>

\* network->add_node(s): a new node counts 1, an existing one is merged.
AddNode(t) ==
    /\ pc[t] = "next"
    /\ nodes[t] # <<>>
    /\ node_count' = [node_count EXCEPT ![Head(nodes[t])] = @ + 1]
    /\ nodes' = [nodes EXCEPT ![t] = Tail(@)]
    /\ UNCHANGED <<edge_count, linked, arity, largestVars, pc, request, malformed,
                   outer, inner, edges, edge, register, historyVars>>

\* Slip: the loops over the pairs start before all nodes were counted.
NodesAdded_Early(t) == TRUE

NodesAdded(t) == nodes[t] = <<>> /\ ~malformed[t]

\* network->add_node(s) for a handle of a wrong length: nodes->insert throws, and the
\* process ends.
Throw(t) ==
    /\ pc[t] = "next"
    /\ nodes[t] = <<>> /\ malformed[t]
    /\ Goto(t, "terminated")
    /\ UNCHANGED <<graphVars, largestVars, loopVars, edges, edge, register,
                   historyVars>>

\* One turn of the inner loop, and of the outer one when the inner one ends.
NextPair(t) ==
    /\ pc[t] = "next"
    /\ NodesAdded(t)
    /\ edges[t] = <<>>
    /\ outer[t] # <<>>
    /\ edges' = IF Precedes(Head(outer[t]), Head(inner[t]))
                THEN [edges EXCEPT ![t] = BothWays(Head(outer[t]), Head(inner[t]))]
                ELSE edges
    /\ IF Len(inner[t]) = 1
       THEN /\ outer' = [outer EXCEPT ![t] = Tail(@)]
            /\ inner' = [inner EXCEPT ![t] = request[t]]
       ELSE /\ inner' = [inner EXCEPT ![t] = Tail(@)]
            /\ UNCHANGED outer
    /\ UNCHANGED <<graphVars, largestVars, pc, request, malformed, nodes, edge,
                   register, historyVars>>

\* correlation returns.
Finish(t) ==
    /\ pc[t] = "next"
    /\ nodes[t] = <<>> /\ ~malformed[t]
    /\ edges[t] = <<>> /\ outer[t] = <<>>
    /\ Goto(t, "idle")
    /\ UNCHANGED <<graphVars, largestVars, loopVars, edges, edge, register,
                   historyVars>>
-----------------------------------------------------------------------------
(* HebbianNetwork::add_asymmetric_edge *)

\* node1->neighbors->insert(handle2, new Edge())
InsertEdge(t) ==
    /\ pc[t] = "next"
    /\ edges[t] # <<>>
    /\ edge' = [edge EXCEPT ![t] = Head(edges[t])]
    /\ edges' = [edges EXCEPT ![t] = Tail(@)]
    /\ edge_count' = [edge_count EXCEPT ![Head(edges[t])] = @ + 1]
    /\ Goto(t, "check")
    /\ UNCHANGED <<node_count, linked, arity, largestVars, loopVars, register,
                   historyVars>>

\* Slip: every insertion is taken for the first one.
FirstTime_Always(t) == TRUE

\* The edge is read again, outside the lock under which it was inserted.
FirstTime(t) == edge_count[edge[t]] = 1

Done(t) ==
    /\ edge' = [edge EXCEPT ![t] = NULL]
    /\ Goto(t, "next")

CheckFirstTime(t) ==
    /\ pc[t] = "check"
    /\ IF FirstTime(t) THEN Goto(t, "link") /\ UNCHANGED edge ELSE Done(t)
    /\ UNCHANGED <<graphVars, largestVars, loopVars, edges, register, historyVars>>

\* Slip: the pointers are not set.
Linked_Forgotten(t) == linked

\* The edges that have both pointers after the two assignments.
Linked(t) == linked \cup {edge[t]}

\* edge->node1 = node1; edge->node2 = node2
LinkEdge(t) ==
    /\ pc[t] = "link"
    /\ linked' = Linked(t)
    /\ Goto(t, "read_arity")
    /\ UNCHANGED <<node_count, edge_count, arity, largestVars, loopVars, edges,
                   edge, register, historyVars>>

\* node1->arity += 1, on an integer that is not atomic: a read ...
ReadArity(t) ==
    /\ pc[t] = "read_arity"
    /\ register' = [register EXCEPT ![t] = arity[edge[t][1]]]
    /\ Goto(t, "write_arity")
    /\ UNCHANGED <<graphVars, largestVars, loopVars, edges, edge, historyVars>>

\* ... and a write.
WriteArity(t) ==
    /\ pc[t] = "write_arity"
    /\ arity' = [arity EXCEPT ![edge[t][1]] = register[t] + 1]
    /\ Goto(t, "compare")
    /\ UNCHANGED <<node_count, edge_count, linked, largestVars, loopVars, edges,
                   edge, register, historyVars>>

\* Under largest_arity_mutex the arity, which other workers still write without
\* it, is compared ...
CompareArity(t) ==
    /\ pc[t] = "compare"
    /\ largest_arity_mutex = NULL
    /\ register' = [register EXCEPT ![t] = arity[edge[t][1]]]
    /\ IF register'[t] > largest_arity
       THEN /\ largest_arity_mutex' = t
            /\ Goto(t, "assign")
            /\ UNCHANGED edge
       ELSE /\ Done(t)
            /\ UNCHANGED largest_arity_mutex
    /\ UNCHANGED <<graphVars, largest_arity, loopVars, edges, historyVars>>

\* Slip: the mutex is not released.
Unlock_Forgotten == UNCHANGED largest_arity_mutex

Unlock == largest_arity_mutex' = NULL

\* ... and assigned; the build may read it a second time or keep the first value.
AssignLargest(t) ==
    /\ pc[t] = "assign"
    /\ largest_arity' \in {register[t], arity[edge[t][1]]}
    /\ Unlock
    /\ Done(t)
    /\ UNCHANGED <<graphVars, loopVars, edges, register, historyVars>>
-----------------------------------------------------------------------------
Init ==
    /\ node_count = [h \in Handles |-> 0]
    /\ edge_count = [e \in Edges |-> 0]
    /\ linked = {}
    /\ arity = [h \in Handles |-> 0]
    /\ largest_arity = 0
    /\ largest_arity_mutex = NULL
    /\ pc = [t \in Updaters |-> "idle"]
    /\ request = [t \in Updaters |-> <<>>]
    /\ malformed = [t \in Updaters |-> FALSE]
    /\ nodes = [t \in Updaters |-> <<>>]
    /\ outer = [t \in Updaters |-> <<>>]
    /\ inner = [t \in Updaters |-> <<>>]
    /\ edges = [t \in Updaters |-> <<>>]
    /\ edge = [t \in Updaters |-> NULL]
    /\ register = [t \in Updaters |-> 0]
    /\ received = <<>>
    /\ overlapped = FALSE

AddEdge(t) ==
    \/ InsertEdge(t)
    \/ CheckFirstTime(t)
    \/ LinkEdge(t)
    \/ ReadArity(t)
    \/ WriteArity(t)
    \/ CompareArity(t)
    \/ AssignLargest(t)

Correlation(t) ==
    \/ AddNode(t)
    \/ NextPair(t)
    \/ AddEdge(t)
    \/ Throw(t)
    \/ Finish(t)

\* The process runs until a worker throws.
Alive == \A t \in Updaters : pc[t] # "terminated"

Next ==
    /\ Alive
    /\ \E t \in Updaters : Correlation(t) \/ \E list \in Lists : Start(t, list)

Spec == Init /\ [][Next]_vars
-----------------------------------------------------------------------------
(* Properties *)

GraphType ==
    /\ node_count \in [Handles -> Nat]
    /\ edge_count \in [Edges -> Nat]
    /\ linked \in SUBSET Edges
    /\ arity \in [Handles -> Nat]
    /\ largest_arity \in Nat
    /\ largest_arity_mutex \in Updaters \cup {NULL}
    /\ received \in Seq(Lists)
    /\ overlapped \in BOOLEAN

WorkerType ==
    /\ pc \in [Updaters -> {"idle", "next", "check", "link", "read_arity",
                            "write_arity", "compare", "assign", "terminated"}]
    /\ request \in [Updaters -> Seq(Handles)]
    /\ malformed \in [Updaters -> BOOLEAN]
    /\ nodes \in [Updaters -> Seq(Handles)]
    /\ outer \in [Updaters -> Seq(Handles)]
    /\ inner \in [Updaters -> Seq(Handles)]
    /\ edges \in [Updaters -> Seq(Edges)]
    /\ edge \in [Updaters -> Edges \cup {NULL}]
    /\ register \in [Updaters -> Nat]

\* A worker has an edge in hand exactly inside add_asymmetric_edge, it holds the
\* mutex exactly between lock and unlock, and it never reads past its list.
WorkerShape ==
    \A t \in Updaters :
        /\ edge[t] = NULL <=> pc[t] \in {"idle", "next", "terminated"}
        /\ largest_arity_mutex = t <=> pc[t] = "assign"
        /\ outer[t] # <<>> => inner[t] # <<>> /\ request[t] # <<>>

TypeOK == GraphType /\ WorkerType /\ WorkerShape

Quiescent == \A t \in Updaters : pc[t] = "idle"

\* Where a list has h.
Places(list, h) == {i \in DOMAIN list : list[i] = h}
Occurrences(list, h) == Cardinality(Places(list, h))

\* What the requests say, whatever the order they were processed in: each place of
\* h in a request counts the node, each pair of places of a and b the edge.
ExpectedNodeCount(h) ==
    Cardinality(UNION {{k} \X Places(received[k], h) : k \in DOMAIN received})
ExpectedEdgeCount(a, b) ==
    IF a = b THEN 0
    ELSE Cardinality(UNION {{k} \X (Places(received[k], a) \X Places(received[k], b)) :
                               k \in DOMAIN received})

\* EXACT_COUNT: between requests, however the workers interleaved, every node
\* and every edge was counted exactly as often as the requests say, the same in
\* both directions (HebbianNetworkUpdater.cc:37-55, HebbianNetwork.cc:32-58).
ExactCounts ==
    Quiescent =>
        /\ \A h \in Handles : node_count[h] = ExpectedNodeCount(h)
        /\ \A a, b \in Handles : edge_count[<<a, b>>] = ExpectedEdgeCount(a, b)

\* The largest number of times that a request repeats h.
Repetitions(h) == Max({Occurrences(received[k], h) : k \in DOMAIN received} \cup {0})

\* HebbianNetwork.h:19-23: the weight of A->B, edge count over node count, is a
\* probability as long as no request repeats B, also in the middle of a request
\* and whatever else repeats; in general it is at most the largest number of times
\* that a request repeats B.  A node is counted before its edges are, and its
\* occurrences once each, its edges once per pair (HebbianNetworkUpdater.cc:40-52).
WeightBounded ==
    \A a, b \in Handles : edge_count[<<a, b>>] <= node_count[a] * Repetitions(b)

\* At most one worker takes an edge for a new one, so no edge is counted twice:
\* arity and largest_arity never exceed the numbers of neighbors
\* (HebbianNetwork.cc:41-51).
ArityNeverOvercounts ==
    /\ \A h \in Handles : arity[h] <= Cardinality(Neighbors(h))
    /\ \E h \in Handles : largest_arity <= Cardinality(Neighbors(h))

\* As long as requests were processed one at a time the derived data is exact:
\* every edge has its end points, arity is the number of neighbors and
\* largest_arity the largest of them.
ExactWhenSequential ==
    Quiescent /\ ~overlapped =>
        /\ \A e \in Edges : edge_count[e] > 0 => e \in linked
        /\ \A h \in Handles : arity[h] = Cardinality(Neighbors(h))
        /\ \A h \in Handles : arity[h] <= largest_arity
        /\ \E h \in Handles : arity[h] = largest_arity
=============================================================================
