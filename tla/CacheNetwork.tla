---------------------------- MODULE CacheNetwork ----------------------------
(***************************************************************************)
(* CacheNode (cache_node): a network of one server, which is its leader,    *)
(* and clients that know only the server.  A client that joins announces    *)
(* itself to the server, which adds it to its peers; the clients that hear  *)
(* of it do nothing.  The definitions below are the values of the           *)
(* parameters of AtomSpaceNetwork.                                          *)
(***************************************************************************)
EXTENDS AtomSpaceNetwork

CONSTANT Server     \* the node that is the server; all others are clients

ASSUME CacheAssumption == Server \in Nodes /\ Links = {}

Clients == Nodes \ {Server}

\* The constructor of a client adds the server.
known_peers == [n \in Nodes |-> IF n = Server THEN {} ELSE {Server}]

\* Everybody votes for the server.
cast_leadership_vote == [n \in Nodes |-> Server]

\* Slip: the server disregards announcements as the clients do.
adds_joining_node_None == {}

\* Only the server's node_joined_network adds the node.
adds_joining_node == {Server}

\* Those of a cache network.
ASSUME CacheParameters == Known = known_peers /\ Welcoming = adds_joining_node
-----------------------------------------------------------------------------
(* Properties *)

Joined == {c \in Clients : origin[c] = c}

\* Every command was known to the nodes it had to reach.
ProperCalls == \A id \in Calls : \A p \in audience[id] : id \in Commands[p]

\* A server with at most two clients, whose operations wait for each other as
\* the tests wait, loses nothing: no process ends, no call fails, and when all is
\* quiet every message was executed exactly once by every node it had to reach,
\* and the server knows all the clients (message_broker_test.cc:146-200).
PacedNetworkIsReliable ==
    ~ hurried /\ Cardinality(Joined) <= 2 /\ ProperCalls =>
    /\ down = {} /\ lost = {}
    /\ Quiet =>
        /\ Joined = peers[Server] /\ Joined = grpc_stub[Server]
        /\ \A id \in Ids : \A p \in audience[id] : handled[p][id] = 1

\* A process on the way to p ended, a call with the message failed, or a send
\* that threw left peers_mutex locked on the way.
Disrupted(id, p) ==
    \/ \E n \in Nodes \cap {Server, origin[id], p} :
        ~ Working(n)
    \/ id \in lost

\* Nodes that call each other while they hold their locks never wait in a
\* circle: in the end every message has reached everybody it has to reach,
\* unless the way was disrupted (MessageBroker.cc:89-95, 159-173).
EventuallyReached ==
    <>[](\A id \in Ids : \A p \in audience[id] :
            handled[p][id] > 0 \/ Disrupted(id, p))

\* In the end the server knows every client that joined (CacheNode.h:21-23).
EventuallyKnown ==
    <>[](\A c \in Joined : c \in peers[Server] \/ Disrupted(c, Server))
=============================================================================
