-------------------------- MODULE AtomSpaceNetwork --------------------------
(***************************************************************************)
(* AtomSpaceNode with its leadership broker (atom_space_node): a network of *)
(* nodes of any shape.  A node knows some peers before it joins, announces  *)
(* itself by a broadcast when it joins, and then adds peers, broadcasts and *)
(* sends the commands of its subclass.  What the subclass decides (whom it  *)
(* votes for, whether it adds a node that joined, which commands it knows)  *)
(* is a parameter.                                                          *)
(***************************************************************************)
EXTENDS MessageBroker, SequencesExt

CONSTANTS
    Known,      \* the peers each node was given before it joined
    Links,      \* the further peers, as pairs, that users add later
    Welcoming,  \* the nodes whose node_joined_network adds the new node
    Vote,       \* what cast_leadership_vote of each node answers
    Commands,   \* the calls whose command the subclass of each node knows
    Calls,      \* bound of the model: the calls of broadcast and send
    MaxOverlap  \* bound of the model: operations that begin before the network
                \* comes to rest

ASSUME NetworkAssumption ==
    /\ MaxOverlap \in Nat \ {0}
    /\ NULL \notin Nodes
    /\ Ids = Nodes \cup Calls /\ Calls \cap Nodes = {} /\ Commands \in [Nodes -> SUBSET Calls]
    /\ Known \in [Nodes -> SUBSET Nodes] /\ \A n \in Nodes : n \notin Known[n]
    /\ Links \subseteq Nodes \X Nodes /\ \A n \in Nodes : <<n, n>> \notin Links
    /\ Welcoming \subseteq Nodes /\ Vote \in [Nodes -> Nodes]

VARIABLES
    leader_id,    \* network_leader_id of each node; NULL is the empty string
    handled,      \* history: how often each node executed each message
    origin,       \* history: the node each message comes from, or NULL
    recipients,   \* history: the nodes each message is addressed to
    audience,     \* history: those that could be reached when it was issued
    underway,     \* history: the operations that began since the network was quiet
    hurried       \* history: an operation began before the last one was over, or
                  \* before the peers of its node had joined

nodeVars == <<leader_id, handled, origin, recipients, audience, underway, hurried>>
vars == <<brokerVars, nodeVars>>
-----------------------------------------------------------------------------
\* Nothing is under way: every queue is empty, no thread is at work, and every
\* node that joined answers.
Quiet ==
    \A n \in Nodes :
        /\ incoming_messages[n] = <<>>
        /\ Started(n) => n \in listening
        /\ \A t \in Threads(n) : thread[n][t].pc \in {"off", "idle"}

\* The nodes to which the peers that are known now lead from n: those in every set
\* that has n and with every node its peers.
Reachable(n) ==
    {p \in Nodes \ {n} :
        \A S \in SUBSET Nodes : n \in S /\ (\A m \in S : peers[m] \subseteq S) => p \in S}

\* An operation begins: n issues a message.
Issue(n, id, addressees, reachable) ==
    /\ origin[id] = NULL
    /\ Quiet \/ underway < MaxOverlap
    /\ underway' = IF Quiet THEN 1 ELSE underway + 1
    /\ origin' = [origin EXCEPT ![id] = n]
    /\ recipients' = [recipients EXCEPT ![id] = addressees]
    /\ audience' = [audience EXCEPT ![id] = reachable]
    /\ hurried' = (hurried \/ ~ Quiet \/ \E p \in peers[n] : origin[p] = NULL)
    /\ UNCHANGED <<peers, grpc_stub, peers_mutex, incoming_messages, listening,
                   down, lost, handled>>

\* join_network up to the broadcast: the threads start, and the election ends at
\* once, with the vote of the node itself.  The message that announces n is
\* named n.
JoinNetwork(n) ==
    /\ Issue(n, n, Nodes \ {n}, Reachable(n))
    /\ thread' = [thread EXCEPT ![n] = ThreadsStarted(n)]
    /\ leader_id' = [leader_id EXCEPT ![n] = Vote[n]]

\* The broadcast of NODE_JOINED_NETWORK.
Announce(n) ==
    /\ At(n, Main, "announcing")
    /\ BroadcastBegins(n, n)
    /\ UNCHANGED <<peers, grpc_stub, peers_mutex, incoming_messages, listening,
                   down, lost, nodeVars>>

Broadcast(n, id) ==
    /\ At(n, Main, "idle")
    /\ Issue(n, id, Nodes \ {n}, Reachable(n))
    /\ BroadcastBegins(n, id)
    /\ UNCHANGED leader_id

Send(n, id, recipient) ==
    /\ At(n, Main, "idle")
    /\ Issue(n, id, {recipient}, {recipient} \cap peers[n])
    /\ SendBegins(n, id, recipient)
    /\ UNCHANGED leader_id

\* The user of n adds a peer.
UserAddsPeer(n, p) ==
    /\ At(n, Main, "idle")
    /\ <<n, p>> \in Links /\ p \notin peers[n]
    /\ thread' = [thread EXCEPT ![n][Main] =
                      [Idle EXCEPT !.pc = "adding", !.targets = {p}]]
    /\ UNCHANGED <<peers, grpc_stub, peers_mutex, incoming_messages, listening,
                   down, lost, nodeVars>>
-----------------------------------------------------------------------------
\* Slip: every node disregards announcements.
node_joined_network_Ignored(n, joining, local) == Idle

\* What the thread that executes NODE_JOINED_NETWORK goes on to do.
node_joined_network(n, joining, local) ==
    IF n \in Welcoming THEN [local EXCEPT !.pc = "adding", !.targets = {joining}]
    ELSE Idle

\* Every node knows NODE_JOINED_NETWORK, its subclass the other commands.
message_factory(n, id) == id \in Nodes \cup Commands[n]

\* act() of the message; the commands of the subclass leave the network alone.
act(n, local) ==
    IF local.message.id \in Nodes
    THEN node_joined_network(n, local.message.id, local)
    ELSE Idle

Act(n, t) ==
    /\ At(n, t, "acting")
    /\ LET local == thread[n][t] IN
       /\ message_factory(n, local.message.id)
       /\ handled' = [handled EXCEPT ![n][local.message.id] = @ + 1]
       /\ thread' = [thread EXCEPT ![n][t] = act(n, local)]
    /\ UNCHANGED <<peers, grpc_stub, peers_mutex, incoming_messages, listening,
                   down, lost, leader_id, origin, recipients, audience, underway,
                   hurried>>

\* message_factory answers NULL, and nobody catches the exception.
UnknownCommand(n, t) ==
    /\ At(n, t, "acting")
    /\ ~ message_factory(n, thread[n][t].message.id)
    /\ Terminate(n)
    /\ UNCHANGED nodeVars

Step(n, t) ==
    \/ BrokerStep(n, t) /\ UNCHANGED nodeVars
    \/ Act(n, t) \/ UnknownCommand(n, t)
    \/ t = Main /\ Announce(n)

Init ==
    /\ BrokerInit(Known)
    /\ leader_id = [n \in Nodes |-> NULL]
    /\ handled = [n \in Nodes |-> [id \in Ids |-> 0]]
    /\ origin = [id \in Ids |-> NULL]
    /\ recipients = [id \in Ids |-> {}]
    /\ audience = [id \in Ids |-> {}]
    /\ underway = 0 /\ hurried = FALSE

Next ==
    \E n \in Nodes :
        \/ JoinNetwork(n)
        \/ Listen(n) /\ UNCHANGED nodeVars
        \/ \E id \in Calls : Broadcast(n, id)
        \/ \E id \in Calls, recipient \in Nodes \ {n} : Send(n, id, recipient)
        \/ \E p \in Nodes : UserAddsPeer(n, p)
        \/ \E t \in Threads(n) : Step(n, t)

Spec == Init /\ [][Next]_vars

\* Every thread that has something to do is scheduled; nothing makes a node join,
\* add a peer, or call broadcast or send.
Fairness ==
    \A n \in Nodes :
        /\ WF_vars(Listen(n) /\ UNCHANGED nodeVars)
        /\ \A t \in Threads(n) : WF_vars(Step(n, t))

FairSpec == Spec /\ Fairness
-----------------------------------------------------------------------------
(* Properties *)

\* The state of the brokers; a node that has a leader has the one it voted for
\* (LeadershipBroker.cc:53-59).
TypeOK ==
    /\ BrokerTypeOK
    /\ \A n \in Nodes : leader_id[n] \in {NULL, Vote[n]}
    /\ handled \in [Nodes -> [Ids -> Nat]]
    /\ origin \in [Ids -> Nodes \cup {NULL}]
    /\ recipients \in [Ids -> SUBSET Nodes]
    /\ \A id \in Ids : audience[id] \subseteq recipients[id]
    /\ underway \in 0..MaxOverlap /\ hurried \in BOOLEAN

\* Every peer a node may ever have.
Possible == {e \in Nodes \X Nodes :
                \/ e[2] \in Known[e[1]]
                \/ e \in Links
                \/ e[1] \in Welcoming /\ e[1] # e[2]}

\* The simple paths from each node to each other one.
Ways ==
    LET paths == {w \in SeqOf(Nodes, Cardinality(Nodes)) \ {<<>>} :
                    /\ IsInjective(w)
                    /\ \A i \in 1..(Len(w) - 1) : <<w[i], w[i + 1]>> \in Possible} IN
    [n \in Nodes |-> [p \in Nodes |-> {w \in paths : w[1] = n /\ w[Len(w)] = p}]]

NumberOfWays == [n \in Nodes |-> [p \in Nodes |-> Cardinality(Ways[n][p])]]

\* Those of them along peers that were known from the beginning.
KnownWays ==
    [n \in Nodes |-> [p \in Nodes |->
        {w \in Ways[n][p] : \A i \in 1..(Len(w) - 1) : w[i + 1] \in Known[w[i]]}]]

Abstract == INSTANCE AbstractNetwork
    WITH Ways <- NumberOfWays

\* In any network, whatever its users do and whoever fails, a message is executed
\* only by nodes it is addressed to, never by the one it comes from, and at most
\* once for every way that leads there without a circle: so at most once where
\* there is one way (MessageBroker.cc:77-96, MessageBroker.h:75-106).  The header
\* promises more, NeverResent, which a circle of peers breaks.
ImplementsNetwork == Abstract!Spec

\* MessageBroker.h:195-197: a request contains a list of the visited nodes "so a
\* request is never re-sent to nodes that have already received it", and none
\* executes it a second time.  The list has the nodes on the way of this copy, not
\* those that other copies reached (MessageBroker.cc:83-95).
NeverResent == \A n \in Nodes, id \in Ids : handled[n][id] <= 1

\* send threw in n and left peers_mutex locked.
Blocked(n) == peers_mutex[n] = Main /\ thread[n][Main].pc # "calling"

\* Broadcasts die out, also where peers form circles: in the end every node that
\* is not blocked is at rest (MessageBroker.cc:77-96).
BroadcastsEnd ==
    \A n \in Nodes : <>[](Blocked(n) \/ \A t \in Threads(n) : thread[n][t].pc \in {"off", "idle"})

\* The peers n had from the beginning are there, and it forwards messages.
Working(n) == n \notin down /\ ~ Blocked(n)

\* One way is enough: a message whose calls did not fail reaches a node if some
\* way there, along peers that were known from the beginning, leads through
\* nodes that go on working, whatever becomes of the others
\* (MessageBroker.h:189-197).
OneWayIsEnough ==
    <>[](\A id \in Ids : \A p \in audience[id] :
            \/ handled[p][id] > 0
            \/ id \in lost
            \/ \A w \in KnownWays[origin[id]][p] : \E i \in DOMAIN w : ~ Working(w[i]))
=============================================================================
