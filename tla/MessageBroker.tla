--------------------------- MODULE MessageBroker ---------------------------
(***************************************************************************)
(* SynchronousGRPC (atom_space_node/MessageBroker.cc): the message brokers  *)
(* of a set of nodes.  Every node is a process with a gRPC server, which    *)
(* puts every message it is given in a queue, inbox threads that read the   *)
(* queue, and the thread that uses the node, called Main here.  Nodes call  *)
(* each other through a stub per peer while they hold peers_mutex.          *)
(*                                                                          *)
(* This module has the state and the actions of the brokers; what a message *)
(* does to the node that receives it is left to the module that extends it. *)
(* The queue is the FIFO queue that RequestQueue implements.                *)
(***************************************************************************)
EXTENDS Naturals, Sequences, FiniteSets

CONSTANTS
    Nodes,          \* the ids of the nodes
    InboxThreads,   \* the inbox threads each node starts
    Main,           \* the thread that uses the node
    Ids,            \* the messages: a name for the command with its arguments
    NULL            \* no message; nobody, for a mutex

Threads(n) == InboxThreads[n] \cup {Main}

ASSUME BrokerAssumption ==
    /\ IsFiniteSet(Nodes)
    /\ \A n \in Nodes : Main \notin InboxThreads[n] /\ NULL \notin Threads(n)

Messages == [id: Ids, is_broadcast: BOOLEAN, visited_recipients: SUBSET Nodes]

VARIABLES
    peers,              \* the peers each node knows
    grpc_stub,          \* the peers each node has a stub for
    peers_mutex,        \* the thread of each node that holds it, or NULL
    incoming_messages,  \* the queue of each node
    listening,          \* the nodes whose gRPC server answers
    down,               \* the nodes whose process was terminated
    thread,             \* what each thread of each node is doing
    lost                \* history: the messages of the calls that failed

brokerVars == <<peers, grpc_stub, peers_mutex, incoming_messages, listening,
                down, thread, lost>>

At(n, t, where) == n \notin down /\ thread[n][t].pc = where

\* A thread between two operations.
Idle == [pc |-> "idle", message |-> NULL, targets |-> {}, contexts |-> 0]

NoThread(n) == [t \in Threads(n) |-> [Idle EXCEPT !.pc = "off"]]

\* An uncaught exception, a failed assertion or a wild pointer ends the process
\* with everything in it.
Terminate(n) ==
    /\ down' = down \cup {n}
    /\ peers' = [peers EXCEPT ![n] = {}]
    /\ grpc_stub' = [grpc_stub EXCEPT ![n] = {}]
    /\ peers_mutex' = [peers_mutex EXCEPT ![n] = NULL]
    /\ incoming_messages' = [incoming_messages EXCEPT ![n] = <<>>]
    /\ listening' = listening \ {n}
    /\ thread' = [thread EXCEPT ![n] = NoThread(n)]
    /\ UNCHANGED lost
-----------------------------------------------------------------------------
(* Remote calls.  The caller waits for the answer and ignores its status.   *)

\* execute_message of the recipient queues the message and takes no lock.  If
\* nobody listens, a call that did not ask to wait for the connection fails.
RemoteCall(p, message) ==
    \/ /\ p \in listening
       /\ incoming_messages' = [incoming_messages EXCEPT ![p] = Append(@, message)]
       /\ UNCHANGED lost
    \/ /\ p \notin listening
       /\ lost' = lost \cup {message.id}
       /\ UNCHANGED incoming_messages

\* Another thread of the node is writing grpc_stub, which no lock protects.
StubsChanging(n, t) ==
    \E other \in Threads(n) \ {t} : thread[n][other].pc = "inserting"

\* One call of a loop over the peers, or the call of send.  Main may write past
\* its array of contexts without being noticed.
CallPeer(n, t) ==
    /\ At(n, t, "calling") \/ At(n, t, "sending")
    /\ \E p \in thread[n][t].targets \cap grpc_stub[n] :
        LET local == thread[n][t] IN
        /\ local.contexts > 0 \/ t = Main
        /\ RemoteCall(p, local.message)
        /\ thread' = [thread EXCEPT ![n][t] =
                [local EXCEPT !.targets = local.targets \ {p},
                              !.contexts = IF local.contexts = 0 THEN 0
                                           ELSE local.contexts - 1]]
    /\ UNCHANGED <<peers, grpc_stub, peers_mutex, listening, down>>

\* The stub is a null pointer or is read while it is written, or there is no
\* ClientContext left: gRPC refuses one that was used before, and behind the end
\* of the array there is none.
CallCrashes(n, t) ==
    /\ At(n, t, "calling") \/ At(n, t, "sending")
    /\ \E p \in thread[n][t].targets :
        \/ p \notin grpc_stub[n]
        \/ thread[n][t].contexts = 0
        \/ StubsChanging(n, t)
    /\ Terminate(n)
-----------------------------------------------------------------------------
(* broadcast and send, in the thread that uses the node *)

Broadcasting(n, id) ==
    [id |-> id, is_broadcast |-> TRUE, visited_recipients |-> {n}]

Sending(id) == [id |-> id, is_broadcast |-> FALSE, visited_recipients |-> {}]

\* Slip: one context for all peers, as in the inbox threads.
ContextsFor_One(n) == 1

\* The contexts broadcast allocates: the number of peers, read without the lock.
ContextsFor(n) == Cardinality(peers[n])

\* What Main does next when it calls broadcast: it returns at once if the node
\* has no peer.
BroadcastBegins(n, id) ==
    thread' = [thread EXCEPT ![n][Main] =
        IF peers[n] = {} THEN Idle
        ELSE [pc |-> "locking", message |-> Broadcasting(n, id),
              targets |-> {}, contexts |-> ContextsFor(n)]]

SendBegins(n, id, recipient) ==
    thread' = [thread EXCEPT ![n][Main] =
        [pc |-> "checking", message |-> Sending(id), targets |-> {recipient},
         contexts |-> 1]]

\* The recipient is a peer; its stub is used after the mutex was released.
SendChecked(n) ==
    /\ At(n, Main, "checking") /\ peers_mutex[n] = NULL
    /\ thread[n][Main].targets \subseteq peers[n]
    /\ thread' = [thread EXCEPT ![n][Main].pc = "sending"]
    /\ UNCHANGED <<peers, grpc_stub, peers_mutex, incoming_messages, listening,
                   down, lost>>

\* The recipient is unknown: the exception leaves peers_mutex locked.
SendThrows(n) ==
    /\ At(n, Main, "checking") /\ peers_mutex[n] = NULL
    /\ ~ thread[n][Main].targets \subseteq peers[n]
    /\ peers_mutex' = [peers_mutex EXCEPT ![n] = Main]
    /\ thread' = [thread EXCEPT ![n][Main] = Idle]
    /\ UNCHANGED <<peers, grpc_stub, incoming_messages, listening, down,
                   lost>>

SendReturns(n) ==
    /\ At(n, Main, "sending") /\ thread[n][Main].targets = {}
    /\ thread' = [thread EXCEPT ![n][Main] = Idle]
    /\ UNCHANGED <<peers, grpc_stub, peers_mutex, incoming_messages, listening,
                   down, lost>>
-----------------------------------------------------------------------------
(* The inbox threads *)

\* Slip: the node forwards the message without adding itself.
Visited_NotThisNode(n, message) == message

\* The message with this node among its visited recipients.
Visited(n, message) ==
    [message EXCEPT !.visited_recipients = @ \cup {n}]

\* A broadcast that has been here is dropped, any other one is forwarded first.
Dequeue(n, t) ==
    /\ At(n, t, "idle") /\ incoming_messages[n] # <<>>
    /\ LET message == Head(incoming_messages[n]) IN
       thread' = [thread EXCEPT ![n][t] =
            IF message.is_broadcast /\ n \in message.visited_recipients THEN Idle
            ELSE [pc |-> IF message.is_broadcast THEN "locking" ELSE "acting",
                  message |-> message, targets |-> {}, contexts |-> 1]]
    /\ incoming_messages' = [incoming_messages EXCEPT ![n] = Tail(@)]
    /\ UNCHANGED <<peers, grpc_stub, peers_mutex, listening, down, lost>>

\* Slip: a broadcast goes only to the node it came from.
Targets_Swapped(n, message) == peers[n] \cap message.visited_recipients

\* Whom an inbox thread forwards a message to.
Targets(n, message) == peers[n] \ message.visited_recipients

\* Slip: Main loops over the peers without peers_mutex.
Lock_NotMain(n, t) ==
    /\ At(n, t, "locking") /\ (t = Main \/ peers_mutex[n] = NULL)
    /\ peers_mutex' = [peers_mutex EXCEPT ![n] = IF t = Main THEN @ ELSE t]
    /\ LET local == thread[n][t] IN
       thread' = [thread EXCEPT ![n][t] =
            [local EXCEPT !.pc = "calling",
                          !.targets = IF t = Main THEN peers[n]
                                      ELSE Targets(n, local.message),
                          !.message = IF t = Main THEN @ ELSE Visited(n, @)]]
    /\ UNCHANGED <<peers, grpc_stub, incoming_messages, listening, down, lost>>

\* Both loops over the peers run inside peers_mutex.
Lock(n, t) ==
    /\ At(n, t, "locking") /\ peers_mutex[n] = NULL
    /\ peers_mutex' = [peers_mutex EXCEPT ![n] = t]
    /\ LET local == thread[n][t] IN
       thread' = [thread EXCEPT ![n][t] =
            IF t = Main THEN [local EXCEPT !.pc = "calling", !.targets = peers[n]]
            ELSE [local EXCEPT !.pc = "calling",
                               !.targets = Targets(n, local.message),
                               !.message = Visited(n, local.message)]]
    /\ UNCHANGED <<peers, grpc_stub, incoming_messages, listening, down, lost>>

\* Slip: an inbox thread leaves the loop without unlocking.
Unlock_OnlyMain(n, t) ==
    /\ At(n, t, "calling") /\ thread[n][t].targets = {}
    /\ peers_mutex' = [peers_mutex EXCEPT ![n] = IF t = Main THEN NULL ELSE @]
    /\ thread' = [thread EXCEPT ![n][t].pc = IF t = Main THEN "idle" ELSE "acting"]
    /\ UNCHANGED <<peers, grpc_stub, incoming_messages, listening, down, lost>>

\* broadcast returns; an inbox thread goes on to execute the command.
Unlock(n, t) ==
    /\ At(n, t, "calling") /\ thread[n][t].targets = {}
    /\ peers_mutex' = [peers_mutex EXCEPT ![n] = NULL]
    /\ thread' = IF t = Main THEN [thread EXCEPT ![n][t] = Idle]
                 ELSE [thread EXCEPT ![n][t].pc = "acting"]
    /\ UNCHANGED <<peers, grpc_stub, incoming_messages, listening, down, lost>>
-----------------------------------------------------------------------------
(* add_peer: the peer first, its stub without the lock                      *)

AddPeer(n, t) ==
    /\ At(n, t, "adding") /\ peers_mutex[n] = NULL
    /\ peers' = [peers EXCEPT ![n] = @ \cup thread[n][t].targets]
    /\ thread' = [thread EXCEPT ![n][t].pc = "inserting"]
    /\ UNCHANGED <<grpc_stub, peers_mutex, incoming_messages, listening, down,
                   lost>>

\* Two unprotected insertions at once may lose one of the stubs.
InsertStub(n, t) ==
    /\ At(n, t, "inserting")
    /\ \/ grpc_stub' = [grpc_stub EXCEPT ![n] = @ \cup thread[n][t].targets]
       \/ StubsChanging(n, t) /\ UNCHANGED grpc_stub
    /\ thread' = [thread EXCEPT ![n][t] = Idle]
    /\ UNCHANGED <<peers, peers_mutex, incoming_messages, listening, down,
                   lost>>

InsertCrashes(n, t) ==
    /\ At(n, t, "inserting") /\ StubsChanging(n, t)
    /\ Terminate(n)
-----------------------------------------------------------------------------
(* join_network starts the threads; the gRPC server answers some time later *)

ThreadsStarted(n) ==
    [t \in Threads(n) |-> IF t = Main THEN [Idle EXCEPT !.pc = "announcing"] ELSE Idle]

Started(n) == thread[n][Main].pc # "off"

Listen(n) ==
    /\ n \notin listening \cup down /\ Started(n)
    /\ listening' = listening \cup {n}
    /\ UNCHANGED <<peers, grpc_stub, peers_mutex, incoming_messages, down,
                   thread, lost>>

\* "known" is what each node was told of before it joined.
BrokerInit(known) ==
    /\ peers = known /\ grpc_stub = known
    /\ peers_mutex = [n \in Nodes |-> NULL]
    /\ incoming_messages = [n \in Nodes |-> <<>>]
    /\ listening = {} /\ down = {} /\ lost = {}
    /\ thread = [n \in Nodes |-> NoThread(n)]

MainStep(n) ==
    SendChecked(n) \/ SendThrows(n) \/ SendReturns(n)

\* The steps a thread takes by itself inside the broker.
BrokerStep(n, t) ==
    \/ Lock(n, t) \/ CallPeer(n, t) \/ CallCrashes(n, t) \/ Unlock(n, t)
    \/ AddPeer(n, t) \/ InsertStub(n, t) \/ InsertCrashes(n, t)
    \/ t = Main /\ MainStep(n)
    \/ t # Main /\ Dequeue(n, t)

Locals == [pc: {"off", "announcing", "idle", "checking", "sending", "locking",
                "calling", "acting", "adding", "inserting"},
           message: Messages \cup {NULL},
           targets: SUBSET Nodes,
           contexts: Nat]

\* The mutex of a node is held by the thread that loops over its peers, or by
\* Main since a send that threw.
BrokerTypeOK ==
    /\ peers \in [Nodes -> SUBSET Nodes]
    /\ grpc_stub \in [Nodes -> SUBSET Nodes]
    /\ \A n \in Nodes : /\ peers_mutex[n] \in Threads(n) \cup {NULL}
                        /\ thread[n] \in [Threads(n) -> Locals]
    /\ incoming_messages \in [Nodes -> Seq(Messages)]
    /\ listening \in SUBSET Nodes /\ down \in SUBSET Nodes
    /\ lost \in SUBSET Ids
    /\ \A n \in Nodes : \A t \in Threads(n) :
        thread[n][t].pc = "calling" => peers_mutex[n] = t
=============================================================================
