------------------------- MODULE CacheNetworkProofs -------------------------
(***************************************************************************)
(* For any number of clients that are known to the network, of calls and of *)
(* inbox threads: a server with at most two clients that joined, whose      *)
(* operations wait for each other, loses nothing.                           *)
(***************************************************************************)
EXTENDS CacheNetwork, AtomSpaceNetworkProofs

\* What PacedNetworkIsReliable assumes; no step makes it true again.
Paced == ~ hurried /\ Cardinality(Joined) <= 2 /\ ProperCalls

\* The server is the hub of the network, and everybody else knows only the server.
Star ==
    /\ \A c \in Clients : peers[c] = {Server} /\ grpc_stub[c] = {Server}
    /\ grpc_stub[Server] \subseteq peers[Server] /\ peers[Server] \subseteq Joined
    /\ Joined # {} => origin[Server] = Server
    /\ \A n \in Nodes : /\ origin[n] \in {NULL, n}
                        /\ Started(n) <=> origin[n] = n
    /\ \A id \in Ids : origin[id] \in Nodes => origin[origin[id]] = origin[id]

Calm == Paced /\ down = {} /\ lost = {} /\ Star

Busy(l) == l.pc \notin {"off", "idle"}

\* The thread has a context for each call it has yet to make.
Enough(l) == Cardinality(l.targets) <= l.contexts

\* What Main may be doing at n while id is under way.
MainPaced(n, l, id) ==
    Busy(l) =>
        /\ origin[id] = n
        /\ l.pc \in {"announcing", "locking", "calling", "checking", "sending"}
        /\ l.pc = "announcing" => id = n
        /\ l.pc \in {"locking", "calling"} => l.message = Broadcasting(n, id)
        /\ l.pc = "locking" => Cardinality(peers[n]) <= l.contexts
        /\ l.pc \in {"checking", "sending"} => l.message = Sending(id)
        /\ l.pc = "checking" => l.contexts = 1 /\ \E r \in Nodes : l.targets = {r}
        /\ l.pc \in {"calling", "sending"} => l.targets \subseteq peers[n] /\ Enough(l)

\* A broadcast comes to the server from its origin, and to a client from the server.
Route(p, m, id) ==
    /\ m.id = id
    /\ m.is_broadcast =>
        m.visited_recipients = {origin[id]} \cup IF p = Server THEN {} ELSE {Server}

\* What an inbox thread may be doing at n while id is under way.
InboxPaced(n, l, id) ==
    Busy(l) =>
        /\ n \in audience[id]
        /\ Carries(l) \/ l.pc \in {"adding", "inserting"}
        /\ l.message.id = id
        /\ l.pc = "locking" => Route(n, l.message, id) /\ l.contexts = 1
        /\ l.pc = "calling" =>
             /\ l.targets \subseteq peers[n] /\ Enough(l)
             /\ IF n = Server THEN l.message.visited_recipients = {origin[id], Server}
                ELSE l.targets = {}
        /\ l.pc \in {"adding", "inserting"} =>
             n = Server /\ id \in Clients /\ origin[id] = id /\ l.targets = {id}
        /\ l.pc = "inserting" => id \in peers[n]

InboxAtRest(n) == \A t \in InboxThreads[n] : ~ Busy(thread[n][t])

\* A node has one message at a time, in its queue or in one of its inbox threads.
OneAtATime(n) ==
    /\ \A t, u \in InboxThreads[n] : Busy(thread[n][t]) /\ Busy(thread[n][u]) => t = u
    /\ incoming_messages[n] # <<>> => InboxAtRest(n)

QueuePaced(n, id) ==
    incoming_messages[n] # <<>> =>
        /\ n \in audience[id] /\ Len(incoming_messages[n]) = 1
        /\ Route(n, incoming_messages[n][1], id)

\* Thread t of n, which is doing l, will call p.
Owes(n, t, l, p) ==
    \/ l.pc \in {"calling", "sending"} /\ p \in l.targets
    \/ l.pc = "checking" /\ p \in l.targets /\ p \in peers[n]
    \/ l.pc = "announcing" /\ p \in peers[n]
    \/ l.pc = "locking" /\ p \in peers[n] /\ (t # Main => p \notin l.message.visited_recipients)

\* Main, which is doing l at n, will bring the server a broadcast.
Casting(n, l) ==
    l.pc \in {"announcing", "locking", "calling"} /\ Owes(n, Main, l, Server)

\* The server will get a broadcast, or has one in its queue.
Coming ==
    \/ \E n \in Nodes : Casting(n, thread[n][Main])
    \/ incoming_messages[Server] # <<>> /\ incoming_messages[Server][1].is_broadcast

\* Somebody will call p with the message.
Owed(p, id) ==
    \/ \E n \in Nodes : \E t \in Threads(n) : Owes(n, t, thread[n][t], p)
    \/ Coming /\ p \in peers[Server] /\ p # origin[id]

\* The message is at n, which has not executed it.
Holds(n) ==
    \/ incoming_messages[n] # <<>>
    \/ \E t \in InboxThreads[n] : Carries(thread[n][t])

\* The message is on the way to a node it has to reach, or there, or executed.
Delivery(p, id) ==
    /\ Owed(p, id) => p \in audience[id] /\ incoming_messages[p] = <<>> /\ InboxAtRest(p)
    /\ p \in audience[id] => handled[p][id] = IF Owed(p, id) \/ Holds(p) THEN 0 ELSE 1

\* The server knows the clients that joined, but for the one that is joining.
Acquainted(id) ==
    /\ \A c \in peers[Server] \ grpc_stub[Server] :
        c = id /\ \E t \in InboxThreads[Server] : thread[Server][t].pc = "inserting"
    /\ \A c \in Joined \ peers[Server] :
        /\ c = id /\ Server \in audience[id]
        /\ \/ handled[Server][id] = 0
           \/ \E t \in InboxThreads[Server] : thread[Server][t].pc = "adding"

Complete(j) == \A p \in audience[j] : handled[p][j] = 1

\* Nothing but the message id is under way.
Operation(id) ==
    /\ \A j \in Ids \ {id} : Complete(j)
    /\ \A n \in Nodes :
        /\ MainPaced(n, thread[n][Main], id)
        /\ \A t \in InboxThreads[n] : InboxPaced(n, thread[n][t], id)
        /\ OneAtATime(n) /\ QueuePaced(n, id) /\ Delivery(n, id)
        /\ Started(n) => n \in listening \/ n = id
    /\ Acquainted(id)
    /\ \A p \in audience[id] : origin[p] = p

\* The inductive invariant.
PacedInvariant == Paced => Calm /\ \E id \in Ids : Operation(id)
-----------------------------------------------------------------------------
LEMMA OneThreadChanges ==
    ASSUME NetworkInvariant, NEW n \in Nodes, NEW t \in Threads(n), NEW l,
           thread' = [thread EXCEPT ![n][t] = l]
    PROVE  \A m \in Nodes : \A s \in Threads(m) :
              thread'[m][s] = IF m = n /\ s = t THEN l ELSE thread[m][s]
  BY DEF NetworkInvariant, ThreadsOK

\* What the paced network leaves alone in every step that issues nothing.
LEMMA CalmStays ==
    ASSUME NetworkInvariant, Calm,
           UNCHANGED <<peers, grpc_stub, down, lost, hurried, origin, audience>>,
           \A n \in Nodes : Started(n)' <=> Started(n)
    PROVE  Calm'
  BY DEF Calm, Paced, ProperCalls, Star, Joined

\* A step of a thread between two states in which it has the same to do: it owes the
\* same calls, and the message stays at the node.
LEMMA LocalMove ==
    ASSUME NetworkInvariant, Calm, NEW id \in Ids, Operation(id),
           NEW n \in Nodes, NEW t \in Threads(n), NEW l,
           thread' = [thread EXCEPT ![n][t] = l],
           UNCHANGED <<peers, grpc_stub, incoming_messages, listening, down, lost, nodeVars>>,
           thread[n][t].pc # "off", l.pc # "off",
           t = Main => /\ MainPaced(n, l, id)
                       /\ Casting(n, l) <=> Casting(n, thread[n][t]),
           t # Main => InboxPaced(n, l, id) /\ Carries(l) /\ Carries(thread[n][t]),
           \A p \in Nodes : Owes(n, t, l, p) <=> Owes(n, t, thread[n][t], p)
    PROVE  Calm' /\ Operation(id)'
  <1>1. \A m \in Nodes : \A s \in Threads(m) :
            thread'[m][s] = IF m = n /\ s = t THEN l ELSE thread[m][s]
    BY DEF NetworkInvariant, ThreadsOK
  <1>2. /\ \A m \in Nodes : Main \in Threads(m) /\ Main \notin InboxThreads[m]
        /\ \A m \in Nodes : \A s \in InboxThreads[m] : s \in Threads(m)
    BY BrokerAssumption DEF Threads
  <1>3. \A m \in Nodes : \A x :
            /\ MainPaced(m, x, id)' <=> MainPaced(m, x, id)
            /\ InboxPaced(m, x, id)' <=> InboxPaced(m, x, id)
    BY DEF MainPaced, InboxPaced, Route, nodeVars, Enough
  <1>4. \A m \in Nodes : \A s : \A x : \A p : Owes(m, s, x, p)' <=> Owes(m, s, x, p)
    BY DEF Owes
  <1>5. \A p \in Nodes : Owed(p, id)' <=> Owed(p, id)
    <2>1. \A m \in Nodes : \A s \in Threads(m) : \A p \in Nodes :
            Owes(m, s, thread[m][s], p)' <=> Owes(m, s, thread[m][s], p)
      BY <1>1, <1>4
    <2>2. \A m \in Nodes : Casting(m, thread[m][Main])' <=> Casting(m, thread[m][Main])
      BY <1>1, <1>2, <1>4 DEF Casting
    <2>3. Coming' <=> Coming
      BY <2>2 DEF Coming
    <2> QED
      BY <2>1, <2>3 DEF Owed, nodeVars
  <1>6. \A m \in Nodes : \A s \in InboxThreads[m] :
            /\ Busy(thread'[m][s]) <=> Busy(thread[m][s])
            /\ Carries(thread'[m][s]) <=> Carries(thread[m][s])
            /\ thread'[m][s].pc = "inserting" <=> thread[m][s].pc = "inserting"
            /\ thread'[m][s].pc = "adding" <=> thread[m][s].pc = "adding"
    BY <1>1, <1>2 DEF Busy, Carries
  <1>7. \A m \in Nodes : /\ InboxAtRest(m)' <=> InboxAtRest(m)
                         /\ Holds(m)' <=> Holds(m)
    BY <1>6 DEF InboxAtRest, Holds
  <1>8. \A m \in Nodes : Started(m)' <=> Started(m)
    BY <1>1, <1>2 DEF Started
  <1>9. Calm'
    <2>1. UNCHANGED <<peers, grpc_stub, down, lost, hurried, origin, audience>>
      BY DEF nodeVars
    <2> QED
      BY <1>8, <2>1, CalmStays
  <1>10. ASSUME NEW m \in Nodes
         PROVE  /\ MainPaced(m, thread[m][Main], id)'
                /\ \A s \in InboxThreads[m] : InboxPaced(m, thread[m][s], id)'
    <2>1. MainPaced(m, thread[m][Main], id)'
      BY <1>1, <1>2, <1>3 DEF Operation
    <2>2. ASSUME NEW s \in InboxThreads[m]
          PROVE  InboxPaced(m, thread[m][s], id)'
      BY <1>1, <1>2, <1>3 DEF Operation
    <2> QED
      BY <2>1, <2>2
  <1>11. ASSUME NEW m \in Nodes
         PROVE  OneAtATime(m)' /\ QueuePaced(m, id)' /\ Delivery(m, id)'
    <2>1. OneAtATime(m) /\ QueuePaced(m, id) /\ Delivery(m, id)
      BY DEF Operation
    <2>2. OneAtATime(m)'
      BY <2>1, <1>6, <1>7 DEF OneAtATime
    <2>3. QueuePaced(m, id)'
      BY <2>1 DEF QueuePaced, Route, nodeVars
    <2>4. Delivery(m, id)'
      BY <2>1, <1>5, <1>7 DEF Delivery, nodeVars
    <2> QED
      BY <2>2, <2>3, <2>4
  <1>12. Acquainted(id)'
    BY <1>6, CacheAssumption DEF Operation, Acquainted, Joined, nodeVars
  <1>13. /\ \A j \in Ids \ {id} : Complete(j)'
         /\ \A p \in audience'[id] : origin'[p] = p
         /\ \A m \in Nodes : Started(m)' => m \in listening' \/ m = id
    BY <1>8 DEF Operation, Complete, nodeVars
  <1> QED
    BY <1>9, <1>10, <1>11, <1>12, <1>13 DEF Operation

\* What the invariants say of one thread of the paced network.
LEMMA OnePaced ==
    ASSUME NetworkInvariant, NEW id \in Ids, Operation(id), NEW n \in Nodes,
           NEW t \in Threads(n)
    PROVE  /\ thread[n][t] \in Locals
           /\ t = Main => MainPaced(n, thread[n][t], id) /\ MainOK(n, thread[n][t])
           /\ t # Main => /\ t \in InboxThreads[n]
                          /\ InboxPaced(n, thread[n][t], id) /\ InboxOK(n, thread[n][t])
  BY OneLocal DEF Operation, Threads

LEMMA PeersFinite ==
    ASSUME NetworkInvariant, NEW n \in Nodes
    PROVE  IsFiniteSet(peers[n]) /\ Cardinality(peers[n]) \in Nat
  <1>1. peers[n] \subseteq Nodes
    BY DEF NetworkInvariant, SetsOK
  <1>2. IsFiniteSet(peers[n])
    BY <1>1, BrokerAssumption, FS_Subset
  <1> QED
    BY <1>2, FS_CardinalityType

LEMMA JoinedFinite == IsFiniteSet(Joined) /\ Cardinality(Joined) \in Nat
  <1>1. Joined \subseteq Nodes
    BY DEF Joined, Clients
  <1>2. IsFiniteSet(Joined)
    BY <1>1, BrokerAssumption, FS_Subset
  <1> QED
    BY <1>2, FS_CardinalityType

\* The server forwards the message of a client to at most one other client.
LEMMA OneOther ==
    ASSUME NetworkInvariant, Calm, NEW o \in Joined
    PROVE  Cardinality(peers[Server] \ {o}) <= 1
  <1>1. /\ IsFiniteSet(Joined \ {o}) /\ Cardinality(Joined \ {o}) \in Nat
        /\ Cardinality(Joined \ {o}) = Cardinality(Joined) - 1
    BY JoinedFinite, FS_RemoveElement, FS_CardinalityType
  <1>2. Cardinality(Joined \ {o}) <= 1
    BY <1>1, JoinedFinite DEF Calm, Paced
  <1>3. peers[Server] \ {o} \subseteq Joined \ {o}
    BY DEF Calm, Star
  <1>4. /\ Cardinality(peers[Server] \ {o}) <= Cardinality(Joined \ {o})
        /\ IsFiniteSet(peers[Server] \ {o})
    BY <1>1, <1>3, FS_Subset
  <1>5. Cardinality(peers[Server] \ {o}) \in Nat
    BY <1>4, FS_CardinalityType
  <1> QED
    BY <1>1, <1>2, <1>4, <1>5

\* The origin of a message that the server got joined as a client.
LEMMA OriginJoined ==
    ASSUME NetworkInvariant, Calm, NEW id \in Ids, Server \in audience[id]
    PROVE  origin[id] \in Joined
  <1>1. Server \in recipients[id]
    BY DEF NetworkInvariant, HistoryOK
  <1>2. origin[id] \in Nodes /\ origin[id] # Server
    BY <1>1 DEF NetworkInvariant, HistoryOK
  <1> QED
    BY <1>2 DEF Calm, Star, Joined, Clients

LEMMA LockPaced ==
    ASSUME NetworkInvariant, Calm, NEW id \in Ids, Operation(id),
           NEW n \in Nodes, NEW t \in Threads(n), Lock(n, t), UNCHANGED nodeVars
    PROVE  Calm' /\ Operation(id)'
  <1> DEFINE m == thread[n][t].message
             l == IF t = Main
                  THEN [thread[n][t] EXCEPT !.pc = "calling", !.targets = peers[n]]
                  ELSE [thread[n][t] EXCEPT !.pc = "calling",
                                            !.targets = Targets(n, m),
                                            !.message = Visited(n, m)]
  <1>1. /\ thread' = [thread EXCEPT ![n][t] = l]
        /\ thread[n][t].pc = "locking"
        /\ UNCHANGED <<peers, grpc_stub, incoming_messages, listening, down, lost>>
    BY DEF Lock, At
  <1>2. thread[n][t] \in Locals
    BY OnePaced
  <1>3. CASE t = Main
    <2>1. MainPaced(n, thread[n][t], id)
      BY <1>3, OnePaced
    <2>2. l = [pc |-> "calling", message |-> m, targets |-> peers[n],
               contexts |-> thread[n][t].contexts]
      BY <1>2, <1>3 DEF Locals
    <2> HIDE DEF l
    <2>3. l.pc = "calling" /\ l.message = m /\ l.targets = peers[n]
            /\ l.contexts = thread[n][t].contexts
      BY <2>2
    <2>4. MainPaced(n, l, id)
      BY <1>1, <2>1, <2>3 DEF MainPaced, Busy, Enough
    <2>5. \A p \in Nodes : Owes(n, t, l, p) <=> Owes(n, t, thread[n][t], p)
      BY <1>1, <1>3, <2>3 DEF Owes
    <2>6. Casting(n, l) <=> Casting(n, thread[n][t])
      BY <1>1, <1>3, <2>3, <2>5, CacheAssumption DEF Casting
    <2> QED
      BY <1>1, <1>3, <2>3, <2>4, <2>5, <2>6, LocalMove
  <1>4. CASE t # Main
    <2>1. /\ InboxPaced(n, thread[n][t], id) /\ m \in Messages /\ m.is_broadcast
          /\ m.id = id
      BY <1>1, <1>4, OnePaced DEF InboxOK, InboxPaced, Busy
    <2>2. /\ n \in audience[id] /\ thread[n][t].contexts = 1
          /\ m.visited_recipients = {origin[id]} \cup IF n = Server THEN {} ELSE {Server}
      BY <1>1, <2>1 DEF InboxPaced, Busy, Route
    <2>3. l = [pc |-> "calling", message |-> Visited(n, m), targets |-> Targets(n, m),
               contexts |-> 1]
      BY <1>2, <1>4, <2>2 DEF Locals
    <2>4. /\ Visited(n, m).id = id
          /\ Visited(n, m).visited_recipients = m.visited_recipients \cup {n}
      BY <2>1 DEF Visited, Messages
    <2> HIDE DEF l, m
    <2>5. l.pc = "calling" /\ l.message = Visited(n, m) /\ l.targets = Targets(n, m)
            /\ l.contexts = 1
      BY <2>3
    <2>6. l.targets \subseteq peers[n]
      BY <2>5 DEF Targets
    <2>7. InboxPaced(n, l, id)
      <3>1. CASE n = Server
        <4>1. Targets(n, m) = peers[Server] \ {origin[id]}
          BY <2>2, <3>1 DEF Targets
        <4>2. Enough(l)
          BY <2>2, <2>5, <3>1, <4>1, OriginJoined, OneOther DEF Enough
        <4>3. l.message.visited_recipients = {origin[id], Server}
          BY <2>2, <2>4, <2>5, <3>1
        <4> QED
          BY <2>2, <2>4, <2>5, <2>6, <3>1, <4>2, <4>3 DEF InboxPaced, Carries
      <3>2. CASE n # Server
        <4>1. peers[n] = {Server}
          BY <3>2 DEF Calm, Star, Clients
        <4>2. l.targets = {}
          BY <2>2, <2>5, <3>2, <4>1 DEF Targets
        <4>3. Enough(l)
          BY <2>5, <4>2, FS_EmptySet DEF Enough
        <4> QED
          BY <2>2, <2>4, <2>5, <2>6, <3>2, <4>2, <4>3 DEF InboxPaced, Carries
      <3> QED
        BY <3>1, <3>2
    <2>8. \A p \in Nodes : Owes(n, t, l, p) <=> Owes(n, t, thread[n][t], p)
      BY <1>1, <1>4, <2>5 DEF Owes, Targets, m
    <2>9. Carries(l) /\ Carries(thread[n][t])
      BY <1>1, <2>5 DEF Carries
    <2> QED
      BY <1>1, <1>4, <2>5, <2>7, <2>8, <2>9, LocalMove
  <1> QED
    BY <1>3, <1>4

LEMMA UnlockPaced ==
    ASSUME NetworkInvariant, Calm, NEW id \in Ids, Operation(id),
           NEW n \in Nodes, NEW t \in Threads(n), Unlock(n, t), UNCHANGED nodeVars
    PROVE  Calm' /\ Operation(id)'
  <1> DEFINE l == IF t = Main THEN Idle ELSE [thread[n][t] EXCEPT !.pc = "acting"]
  <1>1. /\ thread' = [thread EXCEPT ![n][t] = l]
        /\ thread[n][t].pc = "calling" /\ thread[n][t].targets = {}
        /\ UNCHANGED <<peers, grpc_stub, incoming_messages, listening, down, lost>>
    BY DEF Unlock, At
  <1>2. CASE t = Main
    <2>1. l.pc = "idle"
      BY <1>2 DEF Idle
    <2> HIDE DEF l
    <2>2. MainPaced(n, l, id)
      BY <2>1 DEF MainPaced, Busy
    <2>3. \A p \in Nodes : ~ Owes(n, t, l, p) /\ ~ Owes(n, t, thread[n][t], p)
      BY <1>1, <2>1 DEF Owes
    <2>4. ~ Casting(n, l) /\ ~ Casting(n, thread[n][t])
      BY <1>2, <2>3, CacheAssumption DEF Casting
    <2> QED
      BY <1>1, <1>2, <2>1, <2>2, <2>3, <2>4, LocalMove
  <1>3. CASE t # Main
    <2>1. /\ InboxPaced(n, thread[n][t], id) /\ thread[n][t] \in Locals
      BY <1>3, OnePaced
    <2>2. l.pc = "acting" /\ l.message = thread[n][t].message
      BY <1>3, <2>1 DEF Locals
    <2> HIDE DEF l
    <2>3. InboxPaced(n, l, id)
      BY <1>1, <2>1, <2>2 DEF InboxPaced, Busy, Carries
    <2>4. \A p \in Nodes : ~ Owes(n, t, l, p) /\ ~ Owes(n, t, thread[n][t], p)
      BY <1>1, <2>2 DEF Owes
    <2>5. Carries(l) /\ Carries(thread[n][t])
      BY <1>1, <2>2 DEF Carries
    <2> QED
      BY <1>1, <1>3, <2>2, <2>3, <2>4, <2>5, LocalMove
  <1> QED
    BY <1>2, <1>3

LEMMA MainPacedStep ==
    ASSUME NetworkInvariant, Calm, NEW id \in Ids, Operation(id),
           NEW n \in Nodes, MainStep(n), UNCHANGED nodeVars
    PROVE  Calm' /\ Operation(id)'
  <1>1. Main \in Threads(n)
    BY DEF Threads
  <1>2. thread[n][Main] \in Locals /\ MainPaced(n, thread[n][Main], id)
    BY <1>1, OnePaced
  <1>3. CASE SendChecked(n)
    <2> DEFINE l == [thread[n][Main] EXCEPT !.pc = "sending"]
    <2>1. /\ thread' = [thread EXCEPT ![n][Main] = l]
          /\ thread[n][Main].pc = "checking" /\ thread[n][Main].targets \subseteq peers[n]
          /\ UNCHANGED <<peers, grpc_stub, incoming_messages, listening, down, lost>>
      <3>1. [thread EXCEPT ![n][Main].pc = "sending"] = [thread EXCEPT ![n][Main] = l]
        BY DEF NetworkInvariant, ThreadsOK
      <3> QED
        BY <1>3, <3>1 DEF SendChecked, At
    <2>2. /\ l.pc = "sending" /\ l.message = thread[n][Main].message
          /\ l.targets = thread[n][Main].targets /\ l.contexts = thread[n][Main].contexts
      BY <1>2 DEF Locals
    <2> HIDE DEF l
    <2>3. l.message = Sending(id) /\ origin[id] = n /\ l.contexts = 1
            /\ \E r \in Nodes : l.targets = {r}
      BY <1>2, <2>1, <2>2 DEF MainPaced, Busy
    <2>4. Enough(l)
      BY <2>3, FS_Singleton DEF Enough
    <2>5. MainPaced(n, l, id)
      BY <2>1, <2>2, <2>3, <2>4 DEF MainPaced, Busy
    <2>6. \A p \in Nodes : Owes(n, Main, l, p) <=> Owes(n, Main, thread[n][Main], p)
      BY <2>1, <2>2 DEF Owes
    <2>7. ~ Casting(n, l) /\ ~ Casting(n, thread[n][Main])
      BY <2>1, <2>2 DEF Casting
    <2> QED
      BY <1>1, <2>1, <2>2, <2>5, <2>6, <2>7, LocalMove
  <1>4. CASE SendThrows(n) \/ SendReturns(n)
    <2>1. /\ thread' = [thread EXCEPT ![n][Main] = Idle]
          /\ \/ thread[n][Main].pc = "checking" /\ ~ thread[n][Main].targets \subseteq peers[n]
             \/ thread[n][Main].pc = "sending" /\ thread[n][Main].targets = {}
          /\ UNCHANGED <<peers, grpc_stub, incoming_messages, listening, down, lost>>
      BY <1>4 DEF SendThrows, SendReturns, At
    <2>2. Idle.pc = "idle"
      BY DEF Idle
    <2>3. MainPaced(n, Idle, id)
      BY <2>2 DEF MainPaced, Busy
    <2>4. thread[n][Main].pc = "checking" => \E r \in Nodes : thread[n][Main].targets = {r}
      BY <1>2 DEF MainPaced, Busy
    <2>5. \A p \in Nodes : ~ Owes(n, Main, Idle, p) /\ ~ Owes(n, Main, thread[n][Main], p)
      BY <2>1, <2>2, <2>4 DEF Owes
    <2>6. ~ Casting(n, Idle) /\ ~ Casting(n, thread[n][Main])
      BY <2>1, <2>2 DEF Casting
    <2>7. thread[n][Main].pc # "off"
      BY <2>1
    <2> QED
      BY <1>1, <2>1, <2>2, <2>3, <2>5, <2>6, <2>7, LocalMove
  <1> QED
    BY <1>3, <1>4 DEF MainStep

LEMMA AnnouncePaced ==
    ASSUME NetworkInvariant, Calm, NEW id \in Ids, Operation(id),
           NEW n \in Nodes, Announce(n)
    PROVE  Calm' /\ Operation(id)'
  <1> DEFINE new == [pc |-> "locking", message |-> Broadcasting(n, n),
                     targets |-> {}, contexts |-> ContextsFor(n)]
  <1>1. PICK l : l = IF peers[n] = {} THEN Idle ELSE new
    OBVIOUS
  <1>2. /\ thread' = [thread EXCEPT ![n][Main] = l]
        /\ thread[n][Main].pc = "announcing"
        /\ UNCHANGED <<peers, grpc_stub, incoming_messages, listening, down, lost, nodeVars>>
    BY <1>1 DEF Announce, BroadcastBegins, At
  <1>3. Main \in Threads(n)
    BY DEF Threads
  <1>4. id = n /\ origin[id] = n
    BY <1>2, <1>3, OnePaced DEF MainPaced, Busy
  <1>5. CASE peers[n] = {}
    <2>1. l.pc = "idle"
      BY <1>1, <1>5 DEF Idle
    <2>2. MainPaced(n, l, id)
      BY <2>1 DEF MainPaced, Busy
    <2>3. \A p \in Nodes : ~ Owes(n, Main, l, p) /\ ~ Owes(n, Main, thread[n][Main], p)
      BY <1>2, <1>5, <2>1 DEF Owes
    <2>4. ~ Casting(n, l) /\ ~ Casting(n, thread[n][Main])
      BY <2>3, CacheAssumption DEF Casting
    <2> QED
      BY <1>2, <1>3, <2>1, <2>2, <2>3, <2>4, LocalMove
  <1>6. CASE peers[n] # {}
    <2>1. l.pc = "locking" /\ l.message = Broadcasting(n, id) /\ l.contexts = Cardinality(peers[n])
      BY <1>1, <1>4, <1>6 DEF ContextsFor
    <2>2. Cardinality(peers[n]) <= l.contexts
      BY <2>1, PeersFinite
    <2>3. MainPaced(n, l, id)
      BY <1>4, <2>1, <2>2 DEF MainPaced, Busy
    <2>4. \A p \in Nodes : Owes(n, Main, l, p) <=> Owes(n, Main, thread[n][Main], p)
      BY <1>2, <2>1 DEF Owes
    <2>5. Casting(n, l) <=> Casting(n, thread[n][Main])
      BY <1>2, <2>1, <2>4, CacheAssumption DEF Casting
    <2> QED
      BY <1>2, <1>3, <2>1, <2>3, <2>4, <2>5, LocalMove
  <1> QED
    BY <1>5, <1>6

\* A server that answers changes nothing else.
LEMMA ListenPaced ==
    ASSUME NetworkInvariant, Calm, NEW id \in Ids, Operation(id),
           NEW n \in Nodes, Listen(n), UNCHANGED nodeVars
    PROVE  Calm' /\ Operation(id)'
  <1>1. /\ listening' = listening \cup {n}
        /\ UNCHANGED <<peers, grpc_stub, incoming_messages, down, thread, lost>>
        /\ UNCHANGED <<handled, origin, audience, hurried>>
    BY DEF Listen, nodeVars
  <1>2. Calm'
    BY <1>1, CalmStays DEF Started
  <1>3. \A p \in Nodes : Delivery(p, id)'
    <2>1. \A p \in Nodes : Owed(p, id)' <=> Owed(p, id)
      BY <1>1 DEF Owed, Owes, Coming, Casting
    <2>2. \A p \in Nodes : Delivery(p, id)
      BY DEF Operation
    <2> QED
      BY <1>1, <2>1, <2>2 DEF Delivery, Holds, InboxAtRest
  <1>4. ASSUME NEW p \in Nodes
        PROVE  /\ MainPaced(p, thread[p][Main], id)'
               /\ \A t \in InboxThreads[p] : InboxPaced(p, thread[p][t], id)'
               /\ OneAtATime(p)' /\ QueuePaced(p, id)'
    <2>1. MainPaced(p, thread[p][Main], id)'
      BY <1>1 DEF Operation, MainPaced, Enough
    <2>2. \A t \in InboxThreads[p] : InboxPaced(p, thread[p][t], id)'
      BY <1>1 DEF Operation, InboxPaced, Enough, Route
    <2>3. OneAtATime(p)' /\ QueuePaced(p, id)'
      BY <1>1 DEF Operation, OneAtATime, InboxAtRest, QueuePaced, Route
    <2> QED
      BY <2>1, <2>2, <2>3
  <1>5. Acquainted(id)'
    BY <1>1 DEF Operation, Acquainted, Joined
  <1>6. /\ \A j \in Ids \ {id} : Complete(j)'
        /\ \A p \in audience'[id] : origin'[p] = p
        /\ \A m \in Nodes : Started(m)' => m \in listening' \/ m = id
    BY <1>1 DEF Operation, Complete, Started
  <1> QED
    BY <1>2, <1>3, <1>4, <1>5, <1>6 DEF Operation

\* The message goes to nobody it comes from.
LEMMA NotToItself ==
    ASSUME NetworkInvariant, Calm, NEW id \in Ids, NEW p \in audience[id]
    PROVE  p \in Nodes /\ p # origin[id] /\ p # id
  <1>1. p \in recipients[id] /\ origin[id] \notin recipients[id] /\ recipients[id] \subseteq Nodes
           /\ origin[id] \in Nodes
    BY DEF NetworkInvariant, HistoryOK
  <1>2. p = id => origin[id] = id
    BY <1>1, NetworkAssumption DEF Calm, Star
  <1> QED
    BY <1>1, <1>2

LEMMA OwesPeers ==
    ASSUME NetworkInvariant, Calm, NEW id \in Ids, Operation(id),
           NEW n \in Nodes, NEW t \in Threads(n), NEW p, Owes(n, t, thread[n][t], p)
    PROVE  p \in peers[n] /\ Busy(thread[n][t])
  <1>1. Busy(thread[n][t])
    BY DEF Owes, Busy
  <1>2. thread[n][t].pc \in {"calling", "sending"} => thread[n][t].targets \subseteq peers[n]
    <2>1. CASE t = Main
      BY <1>1, <2>1, OnePaced DEF MainPaced
    <2>2. CASE t # Main
      BY <1>1, <2>2, OnePaced DEF InboxPaced, Carries
    <2> QED
      BY <2>1, <2>2
  <1> QED
    BY <1>1, <1>2 DEF Owes

\* Two threads of a node are busy only if one of them is Main, whose message
\* no inbox thread of its node handles.
LEMMA OneBusy ==
    ASSUME NetworkInvariant, Calm, NEW id \in Ids, Operation(id),
           NEW n \in Nodes, NEW t \in Threads(n), NEW s \in Threads(n),
           Busy(thread[n][t]), Busy(thread[n][s])
    PROVE  t = s
  <1>1. \A u \in Threads(n) : u = Main /\ Busy(thread[n][u]) => origin[id] = n
    BY OnePaced DEF MainPaced
  <1>2. \A u \in Threads(n) : u # Main /\ Busy(thread[n][u]) => u \in InboxThreads[n] /\ n \in audience[id]
    BY OnePaced DEF InboxPaced
  <1>3. n \in audience[id] => n # origin[id]
    BY NotToItself
  <1>4. OneAtATime(n)
    BY DEF Operation
  <1> QED
    BY <1>1, <1>2, <1>3, <1>4 DEF OneAtATime

\* Every call finds the stub of a node that answers, and a context.
LEMMA MayCall ==
    ASSUME NetworkInvariant, Calm, NEW id \in Ids, Operation(id),
           NEW n \in Nodes, NEW t \in Threads(n), NEW p,
           thread[n][t].pc \in {"calling", "sending"}, p \in thread[n][t].targets
    PROVE  /\ p \in grpc_stub[n] /\ thread[n][t].contexts > 0 /\ ~ StubsChanging(n, t)
           /\ p \in audience[id] /\ p \in listening /\ Enough(thread[n][t])
  <1>1. Owes(n, t, thread[n][t], p)
    BY DEF Owes
  <1>2. p \in peers[n] /\ Busy(thread[n][t])
    BY <1>1, OwesPeers
  <1>3. p \in Nodes
    BY <1>2 DEF NetworkInvariant, SetsOK
  <1>4. Owed(p, id)
    BY <1>1 DEF Owed
  <1>5. p \in audience[id]
    BY <1>3, <1>4 DEF Operation, Delivery
  <1>6. p # origin[id] /\ p # id
    BY <1>5, NotToItself
  <1>7. p \in listening
    BY <1>3, <1>5, <1>6 DEF Operation, Calm, Star
  <1>8. Enough(thread[n][t])
    <2>1. CASE t = Main
      BY <1>2, <2>1, OnePaced DEF MainPaced
    <2>2. CASE t # Main
      BY <1>2, <2>2, OnePaced DEF InboxPaced, Carries
    <2> QED
      BY <2>1, <2>2
  <1>9. thread[n][t].contexts > 0
    <2>1. thread[n][t].targets \subseteq Nodes /\ thread[n][t].contexts \in Nat
      BY OnePaced DEF Locals
    <2>2. IsFiniteSet(thread[n][t].targets)
      BY <2>1, BrokerAssumption, FS_Subset
    <2>3. Cardinality(thread[n][t].targets) \in Nat /\ Cardinality(thread[n][t].targets) # 0
      BY <2>2, FS_CardinalityType, FS_EmptySet
    <2> QED
      BY <1>8, <2>1, <2>3 DEF Enough
  <1>10. ~ StubsChanging(n, t)
    BY <1>2, OneBusy DEF StubsChanging, Busy
  <1>11. p \in grpc_stub[n]
    <2>1. CASE n = Server
      BY <1>2, <1>6, <2>1 DEF Operation, Acquainted
    <2>2. CASE n # Server
      BY <1>2, <2>2 DEF Calm, Star, Clients
    <2> QED
      BY <2>1, <2>2
  <1> QED
    BY <1>5, <1>7, <1>8, <1>9, <1>10, <1>11

LEMMA NoCallCrashes ==
    ASSUME NetworkInvariant, Calm, NEW id \in Ids, Operation(id),
           NEW n \in Nodes, NEW t \in Threads(n)
    PROVE  ~ CallCrashes(n, t)
  <1> SUFFICES ASSUME CallCrashes(n, t) PROVE FALSE
    OBVIOUS
  <1>1. PICK p \in thread[n][t].targets :
          p \notin grpc_stub[n] \/ thread[n][t].contexts = 0 \/ StubsChanging(n, t)
    BY DEF CallCrashes
  <1>2. thread[n][t].pc \in {"calling", "sending"}
    BY DEF CallCrashes, At
  <1>3. p \in grpc_stub[n] /\ thread[n][t].contexts > 0 /\ ~ StubsChanging(n, t)
    BY <1>2, MayCall
  <1> QED
    BY <1>1, <1>3

LEMMA NoInsertCrashes ==
    ASSUME NetworkInvariant, Calm, NEW id \in Ids, Operation(id),
           NEW n \in Nodes, NEW t \in Threads(n), At(n, t, "inserting")
    PROVE  ~ StubsChanging(n, t)
  BY OneBusy DEF StubsChanging, Busy, At

LEMMA NoUnknownCommand ==
    ASSUME NetworkInvariant, Calm, NEW id \in Ids, Operation(id),
           NEW n \in Nodes, NEW t \in Threads(n)
    PROVE  ~ UnknownCommand(n, t)
  <1> SUFFICES ASSUME UnknownCommand(n, t) PROVE FALSE
    OBVIOUS
  <1>1. thread[n][t].pc = "acting" /\ ~ message_factory(n, thread[n][t].message.id)
    BY DEF UnknownCommand, At
  <1>2. t # Main
    BY <1>1, OnePaced DEF MainOK
  <1>3. thread[n][t].message.id = id /\ n \in audience[id]
    BY <1>1, <1>2, OnePaced DEF InboxPaced, Busy
  <1>4. id \in Calls => id \in Commands[n]
    BY <1>3 DEF Calm, Paced, ProperCalls
  <1> QED
    BY <1>1, <1>3, <1>4, NetworkAssumption DEF message_factory

\* While the server handles a message, or has one in its queue, nobody brings it a
\* broadcast.
LEMMA NoCasting ==
    ASSUME NetworkInvariant, Calm, NEW id \in Ids, Operation(id),
           incoming_messages[Server] # <<>> \/ ~ InboxAtRest(Server)
    PROVE  \A m \in Nodes : ~ Casting(m, thread[m][Main])
  <1>1. ~ Owed(Server, id)
    BY CacheAssumption DEF Operation, Delivery
  <1> QED
    BY <1>1 DEF Owed, Casting, Threads

\* Only one thread will call p.
LEMMA OnlyCaller ==
    ASSUME NetworkInvariant, Calm, NEW id \in Ids, Operation(id),
           NEW n \in Nodes, NEW t \in Threads(n), NEW p \in Nodes, Owes(n, t, thread[n][t], p)
    PROVE  /\ \A m \in Nodes : \A s \in Threads(m) :
                Owes(m, s, thread[m][s], p) => m = n /\ s = t
           /\ ~ (Coming /\ p \in peers[Server])
  <1>1. \A m \in Nodes : \A s \in Threads(m) :
            Owes(m, s, thread[m][s], p) => p \in peers[m] /\ Busy(thread[m][s])
    BY OwesPeers
  <1>2. Server \notin peers[Server] /\ \A c \in Clients : peers[c] = {Server}
    BY DEF Calm, Star, Joined, Clients
  <1>3. Owed(p, id)
    BY DEF Owed
  <1>4. p \in audience[id] /\ InboxAtRest(p) /\ incoming_messages[p] = <<>>
    BY <1>3 DEF Operation, Delivery
  <1>5. CASE p = Server
    <2>1. \A m \in Nodes : \A s \in Threads(m) :
              Owes(m, s, thread[m][s], Server) => s = Main /\ m = origin[id]
      <3>1. SUFFICES ASSUME NEW m \in Nodes, NEW s \in Threads(m),
                            Owes(m, s, thread[m][s], Server)
                     PROVE  s = Main /\ m = origin[id]
        OBVIOUS
      <3>2. m # Server /\ Busy(thread[m][s])
        BY <1>1, <1>2, <1>5, <3>1
      <3>3. s = Main
        <4>1. SUFFICES ASSUME s # Main PROVE FALSE
          OBVIOUS
        <4>2. InboxPaced(m, thread[m][s], id) /\ InboxOK(m, thread[m][s])
          BY <4>1, OnePaced
        <4>3. /\ thread[m][s].pc = "calling" => thread[m][s].targets = {}
              /\ thread[m][s].pc = "locking" => Server \in thread[m][s].message.visited_recipients
          BY <3>2, <4>2 DEF InboxPaced, InboxOK, Route
        <4>4. thread[m][s].pc \notin {"announcing", "checking", "sending"}
          BY <4>2 DEF InboxOK
        <4> QED
          BY <3>1, <4>1, <4>3, <4>4 DEF Owes
      <3>4. m = origin[id]
        BY <3>2, <3>3, OnePaced DEF MainPaced
      <3> QED
        BY <3>3, <3>4
    <2> QED
      BY <1>2, <1>5, <2>1
  <1>6. CASE p # Server
    <2>1. \A m \in Nodes : \A s \in Threads(m) : Owes(m, s, thread[m][s], p) => m = Server
      BY <1>1, <1>2, <1>6 DEF Clients
    <2>2. n = Server
      BY <2>1
    <2>3. \A s \in Threads(n) : Owes(n, s, thread[n][s], p) => s = t
      BY <1>1, OneBusy
    <2>4. ~ Coming
      <3>1. CASE t = Main
        <4>1. origin[id] = Server
          BY <1>1, <2>2, <3>1, OnePaced DEF MainPaced
        <4>2. Server \notin audience[id]
          BY <4>1, NotToItself
        <4>3. incoming_messages[Server] = <<>>
          BY <4>2, CacheAssumption DEF Operation, QueuePaced
        <4>4. ~ Owed(Server, id)
          BY <4>2, CacheAssumption DEF Operation, Delivery
        <4> QED
          BY <4>3, <4>4 DEF Coming, Casting, Owed, Threads
      <3>2. CASE t # Main
        <4>1. t \in InboxThreads[Server] /\ Busy(thread[Server][t])
          BY <1>1, <2>2, <3>2 DEF Threads
        <4>2. ~ InboxAtRest(Server)
          BY <4>1 DEF InboxAtRest
        <4>3. incoming_messages[Server] = <<>>
          BY <4>2, CacheAssumption DEF Operation, OneAtATime
        <4> QED
          BY <4>2, <4>3, NoCasting DEF Coming
      <3> QED
        BY <3>1, <3>2
    <2> QED
      BY <2>1, <2>2, <2>3, <2>4
  <1> QED
    BY <1>5, <1>6

\* The message a thread calls p with takes the right way.
LEMMA CallRoute ==
    ASSUME NetworkInvariant, Calm, NEW id \in Ids, Operation(id),
           NEW n \in Nodes, NEW t \in Threads(n), NEW p,
           thread[n][t].pc \in {"calling", "sending"}, p \in thread[n][t].targets
    PROVE  /\ Route(p, thread[n][t].message, id)
           /\ thread[n][t].message.is_broadcast <=> thread[n][t].pc = "calling"
  <1>1. Owes(n, t, thread[n][t], p)
    BY DEF Owes
  <1>2. p \in peers[n] /\ Busy(thread[n][t])
    BY <1>1, OwesPeers
  <1>3. Server \notin peers[Server] /\ \A c \in Clients : peers[c] = {Server}
    BY DEF Calm, Star, Joined, Clients
  <1>4. p = Server <=> n # Server
    BY <1>2, <1>3 DEF Clients
  <1>5. CASE t = Main
    <2>1. MainPaced(n, thread[n][t], id)
      BY <1>5, OnePaced
    <2>2. origin[id] = n
      BY <1>2, <2>1 DEF MainPaced
    <2>3. CASE thread[n][t].pc = "calling"
      <3>1. thread[n][t].message = Broadcasting(n, id)
        BY <1>2, <2>1, <2>3 DEF MainPaced
      <3> QED
        BY <1>4, <2>2, <2>3, <3>1 DEF Broadcasting, Route
    <2>4. CASE thread[n][t].pc = "sending"
      <3>1. thread[n][t].message = Sending(id)
        BY <1>2, <2>1, <2>4 DEF MainPaced
      <3> QED
        BY <2>4, <3>1 DEF Sending, Route
    <2> QED
      BY <2>3, <2>4
  <1>6. CASE t # Main
    <2>1. InboxPaced(n, thread[n][t], id) /\ InboxOK(n, thread[n][t])
      BY <1>6, OnePaced
    <2>2. thread[n][t].pc = "calling"
      BY <2>1 DEF InboxOK
    <2>3. thread[n][t].message.is_broadcast /\ thread[n][t].message.id = id
      BY <2>1, <2>2 DEF InboxOK, InboxPaced, Busy
    <2>4. n = Server /\ thread[n][t].message.visited_recipients = {origin[id], Server}
      BY <1>2, <2>1, <2>2 DEF InboxPaced
    <2> QED
      BY <1>4, <2>2, <2>3, <2>4 DEF Route
  <1> QED
    BY <1>5, <1>6

\* A call moves the message from the thread that owed it to the queue of a node that
\* was at rest.
LEMMA CallPaced ==
    ASSUME NetworkInvariant, Calm, NEW id \in Ids, Operation(id),
           NEW n \in Nodes, NEW t \in Threads(n), CallPeer(n, t), UNCHANGED nodeVars
    PROVE  Calm' /\ Operation(id)'
  <1> DEFINE local == thread[n][t]
  <1>1. PICK p \in local.targets \cap grpc_stub[n] :
          /\ RemoteCall(p, local.message)
          /\ thread' = [thread EXCEPT ![n][t] =
                [local EXCEPT !.targets = local.targets \ {p},
                              !.contexts = IF local.contexts = 0 THEN 0
                                           ELSE local.contexts - 1]]
    BY DEF CallPeer
  <1>2. /\ local.pc \in {"calling", "sending"}
        /\ UNCHANGED <<peers, grpc_stub, listening, down>>
        /\ UNCHANGED <<handled, origin, audience, hurried>>
    BY DEF CallPeer, At, nodeVars
  <1>3. /\ local \in Locals
        /\ t = Main => MainPaced(n, local, id)
        /\ t # Main => InboxPaced(n, local, id)
    BY OnePaced
  <1>4. p \in Nodes
    BY <1>3 DEF Locals
  <1> DEFINE l == [pc |-> local.pc, message |-> local.message, targets |-> local.targets \ {p},
                   contexts |-> IF local.contexts = 0 THEN 0 ELSE local.contexts - 1]
  <1>5. thread' = [thread EXCEPT ![n][t] = l]
    <2>1. [local EXCEPT !.targets = local.targets \ {p},
                        !.contexts = IF local.contexts = 0 THEN 0
                                     ELSE local.contexts - 1] = l
      BY <1>3, CallEffect
    <2> QED
      BY <1>1, <2>1
  <1>6. Owes(n, t, local, p)
    BY <1>2 DEF Owes
  <1>7. /\ local.contexts > 0 /\ p \in audience[id] /\ p \in listening
        /\ Cardinality(local.targets) <= local.contexts
    BY <1>2, MayCall DEF Enough
  <1>8. /\ incoming_messages' = [incoming_messages EXCEPT ![p] = Append(@, local.message)]
        /\ UNCHANGED lost
    BY <1>1, <1>7 DEF RemoteCall
  <1>9. /\ \A m \in Nodes : \A s \in Threads(m) :
              Owes(m, s, thread[m][s], p) => m = n /\ s = t
        /\ ~ (Coming /\ p \in peers[Server])
    BY <1>4, <1>6, OnlyCaller
  <1>10. Owed(p, id)
    BY <1>6 DEF Owed
  <1>11. incoming_messages[p] = <<>> /\ InboxAtRest(p) /\ handled[p][id] = 0
    BY <1>4, <1>7, <1>10 DEF Operation, Delivery
  <1>12. Route(p, local.message, id) /\ (local.message.is_broadcast <=> local.pc = "calling")
    BY <1>2, CallRoute
  <1>13. /\ incoming_messages'[p] # <<>> /\ Len(incoming_messages'[p]) = 1
         /\ incoming_messages'[p][1] = local.message
         /\ \A m \in Nodes \ {p} : incoming_messages'[m] = incoming_messages[m]
    <2>1. /\ incoming_messages'[p] = Append(<<>>, local.message)
          /\ \A m \in Nodes \ {p} : incoming_messages'[m] = incoming_messages[m]
      BY <1>4, <1>8, <1>11 DEF NetworkInvariant, QueuesOK
    <2> QED
      BY <2>1
  <1>14. l.pc = local.pc /\ l.message = local.message /\ l.targets = local.targets \ {p}
          /\ l.contexts = local.contexts - 1
    BY <1>3, <1>7 DEF Locals
  <1>15. Cardinality(l.targets) <= l.contexts
    <2>1. IsFiniteSet(local.targets)
      BY <1>3, BrokerAssumption, FS_Subset DEF Locals
    <2>2. Cardinality(local.targets \ {p}) = Cardinality(local.targets) - 1
      BY <2>1, FS_RemoveElement
    <2>3. Cardinality(local.targets) \in Nat /\ local.contexts \in Nat
      BY <1>3, <2>1, FS_CardinalityType DEF Locals
    <2> QED
      BY <1>7, <1>14, <2>2, <2>3
  <1>16. /\ \A m \in Nodes : Main \in Threads(m) /\ Main \notin InboxThreads[m]
         /\ \A m \in Nodes : \A s \in InboxThreads[m] : s \in Threads(m)
    BY BrokerAssumption DEF Threads
  <1> HIDE DEF l
  <1>17. \A m \in Nodes : \A s \in Threads(m) :
            thread'[m][s] = IF m = n /\ s = t THEN l ELSE thread[m][s]
    BY <1>5 DEF NetworkInvariant, ThreadsOK
  <1>18. \A m \in Nodes : \A s \in Threads(m) : thread'[m][s].pc = thread[m][s].pc
    BY <1>14, <1>17
  <1>19. ASSUME NEW m \in Nodes
         PROVE  /\ MainPaced(m, thread[m][Main], id)'
                /\ \A s \in InboxThreads[m] : InboxPaced(m, thread[m][s], id)'
    <2>1. \A x : /\ MainPaced(m, x, id)' <=> MainPaced(m, x, id)
                 /\ InboxPaced(m, x, id)' <=> InboxPaced(m, x, id)
      BY <1>2 DEF MainPaced, InboxPaced, Route, Enough
    <2>2. t = Main => MainPaced(n, l, id)
      BY <1>2, <1>3, <1>14, <1>15 DEF MainPaced, Busy, Enough
    <2>3. t # Main => InboxPaced(n, l, id)
      BY <1>2, <1>3, <1>14, <1>15 DEF InboxPaced, Busy, Enough, Carries
    <2>4. MainPaced(m, thread[m][Main], id)'
      BY <1>16, <1>17, <2>1, <2>2 DEF Operation
    <2>5. ASSUME NEW s \in InboxThreads[m]
          PROVE  InboxPaced(m, thread[m][s], id)'
      BY <1>16, <1>17, <2>1, <2>3 DEF Operation
    <2> QED
      BY <2>4, <2>5
  <1>20. \A m \in Nodes : \A s \in Threads(m) : \A q \in Nodes :
            Owes(m, s, thread[m][s], q)' <=> Owes(m, s, thread[m][s], q) /\ q # p
    <2>1. \A q \in Nodes : Owes(n, t, l, q) <=> Owes(n, t, local, q) /\ q # p
      BY <1>2, <1>14 DEF Owes
    <2>2. \A m \in Nodes : \A s : \A x : \A q : Owes(m, s, x, q)' <=> Owes(m, s, x, q)
      BY <1>2 DEF Owes
    <2> QED
      BY <1>9, <1>17, <2>1, <2>2
  <1>21. Coming' <=> Coming
    <2>1. CASE p = Server
      <3>1. \A m \in Nodes : ~ Casting(m, thread[m][Main])'
        <4>1. \A m \in Nodes : ~ Owes(m, Main, thread[m][Main], p)'
          BY <1>4, <1>16, <1>20
        <4> QED
          BY <2>1, <4>1 DEF Casting
      <3>2. Coming' <=> local.message.is_broadcast
        BY <1>13, <2>1, <3>1 DEF Coming
      <3>3. t = Main
        <4>1. InboxAtRest(Server)
          BY <1>11, <2>1
        <4>2. n # Server
          BY <1>6, <2>1, OwesPeers DEF Calm, Star, Joined, Clients
        <4>3. t # Main => local.targets = {}
          BY <1>2, <1>3, <4>2, OnePaced DEF InboxPaced, InboxOK, Busy
        <4> QED
          BY <4>3
      <3>4. local.pc = "calling" => Casting(n, thread[n][Main])
        BY <1>6, <2>1, <3>3 DEF Casting
      <3>5. \A m \in Nodes : Casting(m, thread[m][Main]) => m = n /\ local.pc = "calling"
        BY <1>2, <1>9, <1>16, <2>1, <3>3 DEF Casting
      <3> QED
        BY <1>11, <1>12, <2>1, <3>2, <3>4, <3>5 DEF Coming
    <2>2. CASE p # Server
      <3>1. \A m \in Nodes : Casting(m, thread[m][Main])' <=> Casting(m, thread[m][Main])
        BY <1>16, <1>18, <1>20, <2>2, CacheAssumption DEF Casting
      <3>2. incoming_messages'[Server] = incoming_messages[Server]
        BY <1>13, <2>2, CacheAssumption
      <3> QED
        BY <3>1, <3>2 DEF Coming
    <2> QED
      BY <2>1, <2>2
  <1>22. \A q \in Nodes : Owed(q, id)' <=> Owed(q, id) /\ q # p
    BY <1>2, <1>9, <1>20, <1>21 DEF Owed
  <1>23. \A m \in Nodes : InboxAtRest(m)' <=> InboxAtRest(m)
    BY <1>16, <1>18 DEF InboxAtRest, Busy
  <1>24. ASSUME NEW q \in Nodes
         PROVE  Delivery(q, id)'
    <2>1. Delivery(q, id)
      BY DEF Operation
    <2>2. CASE q = p
      BY <1>2, <1>11, <1>13, <1>22, <2>2 DEF Delivery, Holds
    <2>3. CASE q # p
      <3>1. Holds(q)' <=> Holds(q)
        BY <1>13, <1>16, <1>18, <2>3 DEF Holds, Carries
      <3> QED
        BY <1>2, <1>13, <1>22, <1>23, <2>1, <2>3, <3>1 DEF Delivery
    <2> QED
      BY <2>2, <2>3
  <1>25. ASSUME NEW q \in Nodes
         PROVE  OneAtATime(q)' /\ QueuePaced(q, id)'
    <2>1. OneAtATime(q) /\ QueuePaced(q, id)
      BY DEF Operation
    <2>2. CASE q = p
      <3>1. OneAtATime(q)'
        BY <1>11, <1>16, <1>18, <1>23, <2>1, <2>2 DEF OneAtATime, Busy
      <3>2. QueuePaced(q, id)'
        BY <1>2, <1>7, <1>12, <1>13, <2>2 DEF QueuePaced, Route
      <3> QED
        BY <3>1, <3>2
    <2>3. CASE q # p
      <3>1. OneAtATime(q)'
        BY <1>13, <1>16, <1>18, <1>23, <2>1, <2>3 DEF OneAtATime, Busy
      <3>2. QueuePaced(q, id)'
        BY <1>2, <1>13, <2>1, <2>3 DEF QueuePaced, Route
      <3> QED
        BY <3>1, <3>2
    <2> QED
      BY <2>2, <2>3
  <1>26. Acquainted(id)'
    BY <1>2, <1>16, <1>18, CacheAssumption DEF Operation, Acquainted, Joined
  <1>27. \A m \in Nodes : Started(m)' <=> Started(m)
    BY <1>16, <1>18 DEF Started
  <1>28. Calm'
    BY <1>2, <1>8, <1>27, CalmStays
  <1>29. /\ \A j \in Ids \ {id} : Complete(j)'
         /\ \A q \in audience'[id] : origin'[q] = q
         /\ \A m \in Nodes : Started(m)' => m \in listening' \/ m = id
    BY <1>2, <1>27 DEF Operation, Complete
  <1> QED
    BY <1>19, <1>24, <1>25, <1>26, <1>28, <1>29 DEF Operation

\* A message moves from the queue to an inbox thread, which owes the calls that
\* were expected.
LEMMA DequeuePaced ==
    ASSUME NetworkInvariant, Calm, NEW id \in Ids, Operation(id),
           NEW n \in Nodes, NEW t \in Threads(n), t # Main, Dequeue(n, t), UNCHANGED nodeVars
    PROVE  Calm' /\ Operation(id)'
  <1> DEFINE message == Head(incoming_messages[n])
             new == [pc |-> IF message.is_broadcast THEN "locking" ELSE "acting",
                     message |-> message, targets |-> {}, contexts |-> 1]
  <1>1. /\ thread[n][t].pc = "idle" /\ incoming_messages[n] # <<>>
        /\ thread' = [thread EXCEPT ![n][t] =
              IF message.is_broadcast /\ n \in message.visited_recipients THEN Idle ELSE new]
        /\ incoming_messages' = [incoming_messages EXCEPT ![n] = Tail(@)]
        /\ UNCHANGED <<peers, grpc_stub, listening, down, lost>>
        /\ UNCHANGED <<handled, origin, audience, hurried>>
    BY DEF Dequeue, At, nodeVars
  <1>2. OneAtATime(n) /\ QueuePaced(n, id) /\ Delivery(n, id)
    BY DEF Operation
  <1>3. n \in audience[id] /\ Len(incoming_messages[n]) = 1 /\ InboxAtRest(n) /\ ~ Owed(n, id)
    BY <1>1, <1>2 DEF OneAtATime, QueuePaced, Delivery
  <1>4. /\ incoming_messages[n] \in Seq(Messages)
        /\ message = incoming_messages[n][1] /\ message \in Messages
    BY <1>1 DEF NetworkInvariant, QueuesOK
  <1>5. message.id = id /\ Route(n, message, id)
    BY <1>1, <1>2, <1>4 DEF QueuePaced, Route
  <1>6. /\ incoming_messages'[n] = <<>>
        /\ \A m \in Nodes \ {n} : incoming_messages'[m] = incoming_messages[m]
    BY <1>1, <1>3, <1>4 DEF NetworkInvariant, QueuesOK
  <1>7. n # origin[id]
    BY <1>3, NotToItself
  <1>8. ~ (message.is_broadcast /\ n \in message.visited_recipients)
    BY <1>5, <1>7 DEF Route
  <1>9. PICK l : l = new
    OBVIOUS
  <1>10. /\ l.pc = (IF message.is_broadcast THEN "locking" ELSE "acting")
         /\ l.message = message /\ l.targets = {} /\ l.contexts = 1
    BY <1>9
  <1>11. thread' = [thread EXCEPT ![n][t] = l]
    BY <1>1, <1>8, <1>9
  <1> HIDE DEF new
  <1>12. /\ \A m \in Nodes : Main \in Threads(m) /\ Main \notin InboxThreads[m]
         /\ \A m \in Nodes : \A s \in InboxThreads[m] : s \in Threads(m)
         /\ t \in InboxThreads[n]
    BY BrokerAssumption DEF Threads
  <1>13. \A m \in Nodes : \A s \in Threads(m) :
            thread'[m][s] = IF m = n /\ s = t THEN l ELSE thread[m][s]
    BY <1>11 DEF NetworkInvariant, ThreadsOK
  <1>14. \A m \in Nodes : thread'[m][Main] = thread[m][Main]
    BY <1>12, <1>13
  <1>15. ASSUME NEW m \in Nodes
         PROVE  /\ MainPaced(m, thread[m][Main], id)'
                /\ \A s \in InboxThreads[m] : InboxPaced(m, thread[m][s], id)'
    <2>1. \A x : /\ MainPaced(m, x, id)' <=> MainPaced(m, x, id)
                 /\ InboxPaced(m, x, id)' <=> InboxPaced(m, x, id)
      BY <1>1 DEF MainPaced, InboxPaced, Route, Enough
    <2>2. InboxPaced(n, l, id)
      BY <1>3, <1>5, <1>10 DEF InboxPaced, Carries
    <2>3. MainPaced(m, thread[m][Main], id)'
      BY <1>14, <2>1 DEF Operation
    <2>4. ASSUME NEW s \in InboxThreads[m]
          PROVE  InboxPaced(m, thread[m][s], id)'
      BY <1>12, <1>13, <2>1, <2>2 DEF Operation
    <2> QED
      BY <2>3, <2>4
  <1>16. \A m \in Nodes : \A s : \A x : \A q : Owes(m, s, x, q)' <=> Owes(m, s, x, q)
    BY <1>1 DEF Owes
  <1>17. \A q : ~ Owes(n, t, thread[n][t], q)
    BY <1>1 DEF Owes
  <1>18. \A m \in Nodes : Casting(m, thread[m][Main])' <=> Casting(m, thread[m][Main])
    BY <1>14, <1>16 DEF Casting
  <1>19. \A q \in Nodes : Owed(q, id)' <=> Owed(q, id)
    <2>1. CASE n = Server
      <3>1. \A m \in Nodes : ~ Casting(m, thread[m][Main])
        BY <1>1, <2>1, NoCasting
      <3>2. ~ Coming' /\ (Coming <=> message.is_broadcast)
        BY <1>1, <1>4, <1>6, <1>18, <2>1, <3>1 DEF Coming
      <3>3. \A q : Owes(n, t, l, q) <=>
                      message.is_broadcast /\ q \in peers[Server] /\ q # origin[id]
        BY <1>5, <1>10, <2>1 DEF Owes, Route
      <3>4. ASSUME NEW q \in Nodes
            PROVE  (\E m \in Nodes : \E s \in Threads(m) : Owes(m, s, thread[m][s], q)')
                   <=> \/ \E m \in Nodes : \E s \in Threads(m) : Owes(m, s, thread[m][s], q)
                       \/ Owes(n, t, l, q)
        BY <1>13, <1>16, <1>17
      <3> QED
        BY <1>1, <3>2, <3>3, <3>4 DEF Owed
    <2>2. CASE n # Server
      <3>1. Coming' <=> Coming
        BY <1>6, <1>18, <2>2, CacheAssumption DEF Coming
      <3>2. peers[n] = {Server}
        BY <2>2 DEF Calm, Star, Clients
      <3>3. \A q : ~ Owes(n, t, l, q)
        BY <1>5, <1>10, <2>2, <3>2 DEF Owes, Route
      <3>4. \A m \in Nodes : \A s \in Threads(m) : \A q :
              Owes(m, s, thread[m][s], q)' <=> Owes(m, s, thread[m][s], q)
        BY <1>13, <1>16, <1>17, <3>3
      <3> QED
        BY <1>1, <3>1, <3>4 DEF Owed
    <2> QED
      BY <2>1, <2>2
  <1>20. ASSUME NEW q \in Nodes
         PROVE  OneAtATime(q)' /\ QueuePaced(q, id)' /\ Delivery(q, id)'
    <2>1. OneAtATime(q) /\ QueuePaced(q, id) /\ Delivery(q, id)
      BY DEF Operation
    <2>2. CASE q = n
      <3>1. OneAtATime(q)'
        BY <1>3, <1>6, <1>12, <1>13, <2>2 DEF OneAtATime, InboxAtRest
      <3>2. QueuePaced(q, id)'
        BY <1>6, <2>2 DEF QueuePaced
      <3>3. Holds(q) /\ Holds(q)'
        <4>1. Carries(thread'[n][t])
          BY <1>10, <1>12, <1>13 DEF Carries
        <4> QED
          BY <1>1, <1>12, <2>2, <4>1 DEF Holds
      <3>4. Delivery(q, id)'
        BY <1>1, <1>3, <1>19, <2>1, <2>2, <3>3 DEF Delivery
      <3> QED
        BY <3>1, <3>2, <3>4
    <2>3. CASE q # n
      <3>1. \A s \in InboxThreads[q] : thread'[q][s] = thread[q][s]
        BY <1>12, <1>13, <2>3
      <3>2. incoming_messages'[q] = incoming_messages[q]
        BY <1>6, <2>3
      <3>3. (Holds(q)' <=> Holds(q)) /\ (InboxAtRest(q)' <=> InboxAtRest(q))
        BY <3>1, <3>2 DEF Holds, InboxAtRest
      <3>4. OneAtATime(q)'
        BY <2>1, <3>1, <3>2, <3>3 DEF OneAtATime
      <3>5. QueuePaced(q, id)'
        BY <1>1, <2>1, <3>2 DEF QueuePaced, Route
      <3>6. Delivery(q, id)'
        BY <1>1, <1>19, <2>1, <3>2, <3>3 DEF Delivery
      <3> QED
        BY <3>4, <3>5, <3>6
    <2> QED
      BY <2>2, <2>3
  <1>21. Acquainted(id)'
    <2>1. \A s \in InboxThreads[Server] :
             thread[Server][s].pc \in {"inserting", "adding"} => thread'[Server][s] = thread[Server][s]
      BY <1>1, <1>12, <1>13, CacheAssumption
    <2>2. Acquainted(id)
      BY DEF Operation
    <2> QED
      BY <1>1, <2>1, <2>2 DEF Acquainted, Joined
  <1>22. \A m \in Nodes : Started(m)' <=> Started(m)
    BY <1>14 DEF Started
  <1>23. Calm'
    BY <1>1, <1>22, CalmStays
  <1>24. /\ \A j \in Ids \ {id} : Complete(j)'
         /\ \A q \in audience'[id] : origin'[q] = q
         /\ \A m \in Nodes : Started(m)' => m \in listening' \/ m = id
    BY <1>1, <1>22 DEF Operation, Complete
  <1> QED
    BY <1>15, <1>20, <1>21, <1>23, <1>24 DEF Operation

\* An inbox thread that is busy is the only one of its node, and its queue is empty.
LEMMA BusyInbox ==
    ASSUME NetworkInvariant, Calm, NEW id \in Ids, Operation(id),
           NEW n \in Nodes, NEW t \in InboxThreads[n], Busy(thread[n][t])
    PROVE  /\ \A s \in InboxThreads[n] : Busy(thread[n][s]) => s = t
           /\ incoming_messages[n] = <<>> /\ ~ InboxAtRest(n) /\ ~ Owed(n, id)
           /\ ~ Busy(thread[n][Main])
  <1>1. ~ InboxAtRest(n)
    BY DEF InboxAtRest
  <1>2. OneAtATime(n) /\ Delivery(n, id)
    BY DEF Operation
  <1>3. Main \in Threads(n) /\ t \in Threads(n) /\ t # Main
    BY BrokerAssumption DEF Threads
  <1>4. ~ Busy(thread[n][Main])
    BY <1>3, OneBusy
  <1> QED
    BY <1>1, <1>2, <1>4 DEF OneAtATime, Delivery

\* The thread of the one message at n executed it.
LEMMA ActPaced ==
    ASSUME NetworkInvariant, Calm, NEW id \in Ids, Operation(id),
           NEW n \in Nodes, NEW t \in Threads(n), Act(n, t)
    PROVE  Calm' /\ Operation(id)'
  <1>1. /\ thread[n][t].pc = "acting"
        /\ thread' = [thread EXCEPT ![n][t] = act(n, thread[n][t])]
        /\ UNCHANGED <<peers, grpc_stub, incoming_messages, listening, down, lost,
                       origin, audience, hurried>>
    BY DEF Act, At
  <1>2. t # Main /\ t \in InboxThreads[n] /\ InboxPaced(n, thread[n][t], id)
          /\ thread[n][t] \in Locals
    BY <1>1, OnePaced DEF MainOK
  <1>3. Busy(thread[n][t]) /\ Carries(thread[n][t])
    BY <1>1 DEF Busy, Carries
  <1>4. n \in audience[id] /\ thread[n][t].message.id = id
    BY <1>2, <1>3 DEF InboxPaced
  <1>5. /\ \A s \in InboxThreads[n] : Busy(thread[n][s]) => s = t
        /\ incoming_messages[n] = <<>> /\ ~ Owed(n, id)
    BY <1>2, <1>3, BusyInbox
  <1>6. handled[n][id] = 0
    <2>1. Holds(n)
      BY <1>2, <1>3 DEF Holds
    <2> QED
      BY <1>4, <2>1 DEF Operation, Delivery
  <1>7. /\ handled'[n][id] = 1
        /\ \A p \in Nodes, j \in Ids : p # n \/ j # id => handled'[p][j] = handled[p][j]
    <2>1. handled' = [handled EXCEPT ![n][id] = @ + 1]
      BY <1>4 DEF Act
    <2>2. handled \in [Nodes -> [Ids -> Nat]]
      BY DEF NetworkInvariant, HistoryOK
    <2> QED
      BY <1>6, <2>1, <2>2
  <1>8. PICK l : l = act(n, thread[n][t])
    OBVIOUS
  <1>9. id \in Nodes /\ n = Server => id \in Clients /\ origin[id] = id
    <2>1. n = Server => origin[id] \in Joined
      BY <1>4, OriginJoined
    <2>2. id \in Nodes => origin[id] \in {NULL, id}
      BY DEF Calm, Star
    <2> QED
      BY <2>1, <2>2, NetworkAssumption DEF Joined, Clients
  <1>10. /\ (~ Busy(l) /\ l.pc # "off") \/ l.pc = "adding"
         /\ InboxPaced(n, l, id)
         /\ n = Server /\ id \in Clients => l.pc = "adding"
    <2>1. CASE id \in Nodes /\ n = Server
      <3>1. l = [thread[n][t] EXCEPT !.pc = "adding", !.targets = {id}]
        BY <1>4, <1>8, <2>1, CacheParameters DEF act, node_joined_network, adds_joining_node
      <3>2. l.pc = "adding" /\ l.targets = {id} /\ l.message = thread[n][t].message
        BY <1>2, <3>1 DEF Locals
      <3> QED
        BY <1>4, <1>9, <2>1, <3>2 DEF InboxPaced
    <2>2. CASE ~ (id \in Nodes /\ n = Server)
      <3>1. l = Idle
        BY <1>4, <1>8, <2>2, CacheParameters DEF act, node_joined_network, adds_joining_node
      <3>2. l.pc = "idle"
        BY <3>1 DEF Idle
      <3> QED
        BY <2>2, <3>2 DEF InboxPaced, Busy, Clients
    <2> QED
      BY <2>1, <2>2
  <1>11. l.pc \in {"idle", "adding"} /\ ~ Carries(l)
    <2>1. l.pc # "off"
      BY <1>10
    <2> QED
      BY <1>10, <2>1 DEF Busy, Carries
  <1>12. /\ \A m \in Nodes : Main \in Threads(m) /\ Main \notin InboxThreads[m]
         /\ \A m \in Nodes : \A s \in InboxThreads[m] : s \in Threads(m)
    BY BrokerAssumption DEF Threads
  <1>13. \A m \in Nodes : \A s \in Threads(m) :
            thread'[m][s] = IF m = n /\ s = t THEN l ELSE thread[m][s]
    BY <1>1, <1>8 DEF NetworkInvariant, ThreadsOK
  <1>14. \A m \in Nodes : thread'[m][Main] = thread[m][Main]
    BY <1>2, <1>12, <1>13
  <1>15. ASSUME NEW m \in Nodes
         PROVE  /\ MainPaced(m, thread[m][Main], id)'
                /\ \A s \in InboxThreads[m] : InboxPaced(m, thread[m][s], id)'
    <2>1. \A x : /\ MainPaced(m, x, id)' <=> MainPaced(m, x, id)
                 /\ InboxPaced(m, x, id)' <=> InboxPaced(m, x, id)
      BY <1>1 DEF MainPaced, InboxPaced, Route, Enough
    <2>2. MainPaced(m, thread[m][Main], id)'
      BY <1>14, <2>1 DEF Operation
    <2>3. ASSUME NEW s \in InboxThreads[m]
          PROVE  InboxPaced(m, thread[m][s], id)'
      BY <1>10, <1>12, <1>13, <2>1 DEF Operation
    <2> QED
      BY <2>2, <2>3
  <1>16. \A q \in Nodes : Owed(q, id)' <=> Owed(q, id)
    <2>1. \A m \in Nodes : \A s : \A x : \A q : Owes(m, s, x, q)' <=> Owes(m, s, x, q)
      BY <1>1 DEF Owes
    <2>2. \A q : ~ Owes(n, t, thread[n][t], q) /\ ~ Owes(n, t, l, q)
      BY <1>1, <1>11 DEF Owes
    <2>3. \A m \in Nodes : \A s \in Threads(m) : \A q :
              Owes(m, s, thread[m][s], q)' <=> Owes(m, s, thread[m][s], q)
      BY <1>13, <2>1, <2>2
    <2>4. Coming' <=> Coming
      BY <1>1, <1>14, <2>1 DEF Coming, Casting
    <2> QED
      BY <1>1, <2>3, <2>4 DEF Owed
  <1>17. ASSUME NEW q \in Nodes
         PROVE  OneAtATime(q)' /\ QueuePaced(q, id)' /\ Delivery(q, id)'
    <2>1. OneAtATime(q) /\ QueuePaced(q, id) /\ Delivery(q, id)
      BY DEF Operation
    <2>2. QueuePaced(q, id)'
      BY <1>1, <2>1 DEF QueuePaced, Route
    <2>3. CASE q = n
      <3>1. \A s \in InboxThreads[n] : Busy(thread'[n][s]) => s = t
        BY <1>5, <1>12, <1>13
      <3>2. OneAtATime(q)'
        BY <1>1, <1>5, <2>3, <3>1 DEF OneAtATime
      <3>3. ~ Holds(q)'
        <4>1. \A s \in InboxThreads[n] : ~ Carries(thread'[n][s])
          BY <1>5, <1>11, <1>12, <1>13 DEF Carries, Busy
        <4> QED
          BY <1>1, <1>5, <2>3, <4>1 DEF Holds
      <3>4. Delivery(q, id)'
        BY <1>5, <1>7, <1>16, <2>3, <3>3 DEF Delivery
      <3> QED
        BY <2>2, <3>2, <3>4
    <2>4. CASE q # n
      <3>1. \A s \in InboxThreads[q] : thread'[q][s] = thread[q][s]
        BY <1>12, <1>13, <2>4
      <3>2. (Holds(q)' <=> Holds(q)) /\ (InboxAtRest(q)' <=> InboxAtRest(q))
        BY <1>1, <3>1 DEF Holds, InboxAtRest
      <3>3. OneAtATime(q)'
        BY <1>1, <2>1, <3>1, <3>2 DEF OneAtATime
      <3>4. Delivery(q, id)'
        BY <1>1, <1>7, <1>16, <2>1, <2>4, <3>2 DEF Delivery
      <3> QED
        BY <2>2, <3>3, <3>4
    <2> QED
      BY <2>3, <2>4
  <1>18. Acquainted(id)'
    <2>1. Acquainted(id)
      BY DEF Operation
    <2>2. CASE n = Server
      <3>1. \A s \in InboxThreads[Server] : thread[Server][s].pc # "inserting"
        BY <1>1, <1>5, <2>2 DEF Busy
      <3>2. id \in Clients => thread'[Server][t].pc = "adding"
        BY <1>10, <1>12, <1>13, <1>2, <2>2
      <3> QED
        BY <1>1, <1>2, <2>1, <2>2, <3>1, <3>2 DEF Acquainted, Joined
    <2>3. CASE n # Server
      <3>1. \A s \in InboxThreads[Server] : thread'[Server][s] = thread[Server][s]
        BY <1>12, <1>13, <2>3, CacheAssumption
      <3>2. handled'[Server][id] = handled[Server][id]
        BY <1>7, <2>3, CacheAssumption
      <3> QED
        BY <1>1, <2>1, <3>1, <3>2 DEF Acquainted, Joined
    <2> QED
      BY <2>2, <2>3
  <1>19. \A m \in Nodes : Started(m)' <=> Started(m)
    BY <1>14 DEF Started
  <1>20. Calm'
    BY <1>1, <1>19, CalmStays
  <1>21. ASSUME NEW j \in Ids \ {id}
         PROVE  Complete(j)'
    <2>1. audience[j] \subseteq Nodes
      BY DEF NetworkInvariant, HistoryOK
    <2> QED
      BY <1>1, <1>7, <2>1 DEF Operation, Complete
  <1>22. /\ \A q \in audience'[id] : origin'[q] = q
         /\ \A m \in Nodes : Started(m)' => m \in listening' \/ m = id
    BY <1>1, <1>19 DEF Operation
  <1> QED
    BY <1>15, <1>17, <1>18, <1>20, <1>21, <1>22 DEF Operation

\* The server adds the client that is joining while it has nothing else to do, and
\* nothing is on the way to it.
LEMMA Adding ==
    ASSUME NetworkInvariant, Calm, NEW id \in Ids, Operation(id),
           NEW n \in Nodes, NEW t \in Threads(n), thread[n][t].pc \in {"adding", "inserting"}
    PROVE  /\ n = Server /\ t \in InboxThreads[n] /\ t # Main
           /\ id \in Clients /\ origin[id] = id /\ thread[n][t].targets = {id}
           /\ thread[n][t].pc = "inserting" => id \in peers[n]
           /\ thread[n][t].message.id = id /\ n \in audience[id]
           /\ \A s \in Threads(n) : Busy(thread[n][s]) => s = t
           /\ incoming_messages[n] = <<>> /\ ~ Coming
  <1>1. Busy(thread[n][t])
    BY DEF Busy
  <1>2. t # Main
    BY <1>1, OnePaced DEF MainPaced
  <1>3. InboxPaced(n, thread[n][t], id) /\ t \in InboxThreads[n]
    BY <1>2, OnePaced
  <1>4. /\ n = Server /\ id \in Clients /\ origin[id] = id /\ thread[n][t].targets = {id}
        /\ thread[n][t].pc = "inserting" => id \in peers[n]
        /\ thread[n][t].message.id = id /\ n \in audience[id]
    BY <1>1, <1>3 DEF InboxPaced
  <1>5. \A s \in Threads(n) : Busy(thread[n][s]) => s = t
    BY <1>1, OneBusy
  <1>6. incoming_messages[n] = <<>> /\ ~ InboxAtRest(n)
    BY <1>1, <1>3, BusyInbox
  <1>7. ~ Coming
    BY <1>4, <1>6, NoCasting DEF Coming
  <1> QED
    BY <1>2, <1>3, <1>4, <1>5, <1>6, <1>7

LEMMA AddPeerPaced ==
    ASSUME NetworkInvariant, Calm, NEW id \in Ids, Operation(id),
           NEW n \in Nodes, NEW t \in Threads(n), AddPeer(n, t), UNCHANGED nodeVars
    PROVE  Calm' /\ Operation(id)'
  <1> DEFINE l == [thread[n][t] EXCEPT !.pc = "inserting"]
  <1>1. /\ thread[n][t].pc = "adding"
        /\ UNCHANGED <<grpc_stub, incoming_messages, listening, down, lost>>
        /\ UNCHANGED <<handled, origin, audience, hurried>>
        /\ peers' = [peers EXCEPT ![n] = @ \cup thread[n][t].targets]
        /\ thread' = [thread EXCEPT ![n][t].pc = "inserting"]
    BY DEF AddPeer, At, nodeVars
  <1>2. /\ n = Server /\ t \in InboxThreads[n] /\ t # Main
        /\ id \in Clients /\ origin[id] = id /\ thread[n][t].targets = {id}
        /\ thread[n][t].message.id = id /\ n \in audience[id]
        /\ \A s \in Threads(n) : Busy(thread[n][s]) => s = t
        /\ incoming_messages[n] = <<>> /\ ~ Coming
    BY <1>1, Adding
  <1>3. thread[n][t] \in Locals
    BY OnePaced
  <1>4. l.pc = "inserting" /\ l.message = thread[n][t].message /\ l.targets = thread[n][t].targets
    BY <1>3 DEF Locals
  <1>5. thread' = [thread EXCEPT ![n][t] = l]
    BY <1>1 DEF NetworkInvariant, ThreadsOK
  <1> HIDE DEF l
  <1>6. /\ peers'[Server] = peers[Server] \cup {id}
        /\ \A m \in Nodes \ {Server} : peers'[m] = peers[m]
    BY <1>1, <1>2 DEF NetworkInvariant, SetsOK
  <1>7. /\ \A m \in Nodes : Main \in Threads(m) /\ Main \notin InboxThreads[m]
        /\ \A m \in Nodes : \A s \in InboxThreads[m] : s \in Threads(m)
    BY BrokerAssumption DEF Threads
  <1>8. \A m \in Nodes : \A s \in Threads(m) :
            thread'[m][s] = IF m = n /\ s = t THEN l ELSE thread[m][s]
    BY <1>5 DEF NetworkInvariant, ThreadsOK
  <1>9. \A m \in Nodes : thread'[m][Main] = thread[m][Main]
    BY <1>2, <1>7, <1>8
  <1>10. \A m \in Nodes : \A s \in InboxThreads[m] :
            /\ Busy(thread'[m][s]) <=> Busy(thread[m][s])
            /\ Carries(thread'[m][s]) <=> Carries(thread[m][s])
    BY <1>1, <1>4, <1>7, <1>8 DEF Busy, Carries
  <1>11. Calm'
    <2>1. peers'[Server] \subseteq Joined
      BY <1>2, <1>6 DEF Calm, Star, Joined
    <2>2. \A m \in Nodes : Started(m)' <=> Started(m)
      BY <1>9 DEF Started
    <2>3. Joined' = Joined /\ Paced'
      BY <1>1 DEF Calm, Paced, ProperCalls, Joined
    <2>4. Star'
      BY <1>1, <1>6, <2>1, <2>2, <2>3 DEF Calm, Star, Clients
    <2> QED
      BY <1>1, <2>3, <2>4 DEF Calm
  <1>12. ASSUME NEW m \in Nodes
         PROVE  /\ MainPaced(m, thread[m][Main], id)'
                /\ \A s \in InboxThreads[m] : InboxPaced(m, thread[m][s], id)'
    <2>1. CASE m = Server
      <3>1. ~ Busy(thread[m][Main])
        BY <1>2, <1>7, <2>1
      <3>2. MainPaced(m, thread[m][Main], id)'
        BY <1>9, <3>1 DEF MainPaced, Busy
      <3>3. ASSUME NEW s \in InboxThreads[m]
            PROVE  InboxPaced(m, thread[m][s], id)'
        <4>1. CASE s = t
          <5>1. thread'[m][s] = l
            BY <1>2, <1>7, <1>8, <2>1, <4>1
          <5> QED
            BY <1>1, <1>2, <1>4, <1>6, <2>1, <5>1 DEF InboxPaced, Busy, Carries
        <4>2. CASE s # t
          BY <1>2, <1>7, <1>8, <2>1, <4>2 DEF InboxPaced, Busy
        <4> QED
          BY <4>1, <4>2
      <3> QED
        BY <3>2, <3>3
    <2>2. CASE m # Server
      <3>1. \A x : /\ MainPaced(m, x, id)' <=> MainPaced(m, x, id)
                   /\ InboxPaced(m, x, id)' <=> InboxPaced(m, x, id)
        <4>1. \A x : MainPaced(m, x, id)' <=> MainPaced(m, x, id)
          BY <1>1, <1>6, <2>2 DEF MainPaced, Route, Enough
        <4>2. \A x : InboxPaced(m, x, id)' <=> InboxPaced(m, x, id)
          BY <1>1, <1>6, <2>2 DEF InboxPaced, Route, Enough
        <4> QED
          BY <4>1, <4>2
      <3>2. \A s \in Threads(m) : thread'[m][s] = thread[m][s]
        BY <1>2, <1>8, <2>2
      <3>3. MainPaced(m, thread[m][Main], id)'
        BY <1>9, <3>1 DEF Operation
      <3>4. ASSUME NEW s \in InboxThreads[m]
            PROVE  InboxPaced(m, thread[m][s], id)'
        BY <1>7, <3>1, <3>2 DEF Operation
      <3> QED
        BY <3>3, <3>4
    <2> QED
      BY <2>1, <2>2
  <1>13. \A q \in Nodes : Owed(q, id)' <=> Owed(q, id)
    <2>1. \A m \in Nodes : \A s \in Threads(m) : \A q :
              Owes(m, s, thread[m][s], q)' <=> Owes(m, s, thread[m][s], q)
      <3>1. ASSUME NEW m \in Nodes, NEW s \in Threads(m), NEW q
            PROVE  Owes(m, s, thread[m][s], q)' <=> Owes(m, s, thread[m][s], q)
        <4>1. CASE m = Server
          <5>1. ~ Owes(m, s, thread[m][s], q)
            BY <1>1, <1>2, <4>1 DEF Owes, Busy
          <5>2. ~ Owes(m, s, thread[m][s], q)'
            BY <1>2, <1>4, <1>8, <4>1 DEF Owes, Busy
          <5> QED
            BY <5>1, <5>2
        <4>2. CASE m # Server
          <5>1. thread'[m][s] = thread[m][s] /\ peers'[m] = peers[m]
            BY <1>2, <1>6, <1>8, <4>2
          <5> QED
            BY <5>1 DEF Owes
        <4> QED
          BY <4>1, <4>2
      <3> QED
        BY <3>1
    <2>2. ~ Coming'
      <3>1. \A m \in Nodes : Casting(m, thread[m][Main])' <=> Casting(m, thread[m][Main])
        <4>1. \A m \in Nodes : Owes(m, Main, thread[m][Main], Server)'
                                  <=> Owes(m, Main, thread[m][Main], Server)
          BY <1>7, <2>1
        <4> QED
          BY <1>9, <4>1 DEF Casting
      <3> QED
        BY <1>1, <1>2, <3>1 DEF Coming
    <2> QED
      BY <1>2, <2>1, <2>2 DEF Owed
  <1>14. ASSUME NEW q \in Nodes
         PROVE  OneAtATime(q)' /\ QueuePaced(q, id)' /\ Delivery(q, id)'
    <2>1. OneAtATime(q) /\ QueuePaced(q, id) /\ Delivery(q, id)
      BY DEF Operation
    <2>2. (Holds(q)' <=> Holds(q)) /\ (InboxAtRest(q)' <=> InboxAtRest(q))
      BY <1>1, <1>10 DEF Holds, InboxAtRest
    <2>3. OneAtATime(q)'
      BY <1>1, <1>10, <2>1, <2>2 DEF OneAtATime
    <2>4. QueuePaced(q, id)'
      BY <1>1, <2>1 DEF QueuePaced, Route
    <2>5. Delivery(q, id)'
      BY <1>1, <1>13, <2>1, <2>2 DEF Delivery
    <2> QED
      BY <2>3, <2>4, <2>5
  <1>15. Acquainted(id)'
    <2>1. Acquainted(id) /\ Joined' = Joined
      BY <1>1 DEF Operation, Joined
    <2>2. thread'[Server][t].pc = "inserting"
      BY <1>2, <1>4, <1>8
    <2> QED
      BY <1>1, <1>2, <1>6, <2>1, <2>2 DEF Acquainted
  <1>16. /\ \A j \in Ids \ {id} : Complete(j)'
         /\ \A q \in audience'[id] : origin'[q] = q
         /\ \A m \in Nodes : Started(m)' => m \in listening' \/ m = id
    BY <1>1, <1>9 DEF Operation, Complete, Started
  <1> QED
    BY <1>11, <1>12, <1>14, <1>15, <1>16 DEF Operation

LEMMA InsertStubPaced ==
    ASSUME NetworkInvariant, Calm, NEW id \in Ids, Operation(id),
           NEW n \in Nodes, NEW t \in Threads(n), InsertStub(n, t), UNCHANGED nodeVars
    PROVE  Calm' /\ Operation(id)'
  <1>1. /\ thread[n][t].pc = "inserting" /\ At(n, t, "inserting")
        /\ UNCHANGED <<peers, incoming_messages, listening, down, lost>>
        /\ UNCHANGED <<handled, origin, audience, hurried>>
        /\ \/ grpc_stub' = [grpc_stub EXCEPT ![n] = @ \cup thread[n][t].targets]
           \/ StubsChanging(n, t)
        /\ thread' = [thread EXCEPT ![n][t] = Idle]
    BY DEF InsertStub, At, nodeVars
  <1>2. /\ n = Server /\ t \in InboxThreads[n] /\ t # Main
        /\ id \in Clients /\ thread[n][t].targets = {id} /\ id \in peers[n]
        /\ \A s \in Threads(n) : Busy(thread[n][s]) => s = t
        /\ incoming_messages[n] = <<>> /\ ~ Coming
    BY <1>1, Adding
  <1>3. grpc_stub' = [grpc_stub EXCEPT ![n] = @ \cup {id}]
    BY <1>1, <1>2, NoInsertCrashes
  <1>4. /\ grpc_stub'[Server] = grpc_stub[Server] \cup {id}
        /\ \A m \in Nodes \ {Server} : grpc_stub'[m] = grpc_stub[m]
    BY <1>2, <1>3 DEF NetworkInvariant, SetsOK
  <1>5. Idle.pc = "idle"
    BY DEF Idle
  <1>6. /\ \A m \in Nodes : Main \in Threads(m) /\ Main \notin InboxThreads[m]
        /\ \A m \in Nodes : \A s \in InboxThreads[m] : s \in Threads(m)
    BY BrokerAssumption DEF Threads
  <1>7. \A m \in Nodes : \A s \in Threads(m) :
            thread'[m][s] = IF m = n /\ s = t THEN Idle ELSE thread[m][s]
    BY <1>1 DEF NetworkInvariant, ThreadsOK
  <1>8. \A m \in Nodes : thread'[m][Main] = thread[m][Main]
    BY <1>2, <1>6, <1>7
  <1>9. \A m \in Nodes : \A s \in InboxThreads[m] :
            /\ Busy(thread'[m][s]) => Busy(thread[m][s])
            /\ Carries(thread'[m][s]) <=> Carries(thread[m][s])
    BY <1>1, <1>5, <1>6, <1>7 DEF Busy, Carries
  <1>10. Calm'
    <2>1. \A m \in Nodes : Started(m)' <=> Started(m)
      BY <1>8 DEF Started
    <2>2. Joined' = Joined /\ Paced'
      BY <1>1 DEF Calm, Paced, ProperCalls, Joined
    <2>3. Star'
      BY <1>1, <1>2, <1>4, <2>1, <2>2 DEF Calm, Star, Clients
    <2> QED
      BY <1>1, <2>2, <2>3 DEF Calm
  <1>11. ASSUME NEW m \in Nodes
         PROVE  /\ MainPaced(m, thread[m][Main], id)'
                /\ \A s \in InboxThreads[m] : InboxPaced(m, thread[m][s], id)'
    <2>1. \A x : /\ MainPaced(m, x, id)' <=> MainPaced(m, x, id)
                 /\ InboxPaced(m, x, id)' <=> InboxPaced(m, x, id)
      BY <1>1 DEF MainPaced, InboxPaced, Route, Enough
    <2>2. InboxPaced(n, Idle, id)
      BY <1>5 DEF InboxPaced, Busy
    <2>3. MainPaced(m, thread[m][Main], id)'
      BY <1>8, <2>1 DEF Operation
    <2>4. ASSUME NEW s \in InboxThreads[m]
          PROVE  InboxPaced(m, thread[m][s], id)'
      BY <1>6, <1>7, <2>1, <2>2 DEF Operation
    <2> QED
      BY <2>3, <2>4
  <1>12. \A q \in Nodes : Owed(q, id)' <=> Owed(q, id)
    <2>1. \A m \in Nodes : \A s : \A x : \A q : Owes(m, s, x, q)' <=> Owes(m, s, x, q)
      BY <1>1 DEF Owes
    <2>2. \A q : ~ Owes(n, t, thread[n][t], q) /\ ~ Owes(n, t, Idle, q)
      BY <1>1, <1>5 DEF Owes
    <2>3. \A m \in Nodes : \A s \in Threads(m) : \A q :
              Owes(m, s, thread[m][s], q)' <=> Owes(m, s, thread[m][s], q)
      BY <1>7, <2>1, <2>2
    <2>4. Coming' <=> Coming
      BY <1>1, <1>8, <2>1 DEF Coming, Casting
    <2> QED
      BY <1>1, <2>3, <2>4 DEF Owed
  <1>13. ASSUME NEW q \in Nodes
         PROVE  OneAtATime(q)' /\ QueuePaced(q, id)' /\ Delivery(q, id)'
    <2>1. OneAtATime(q) /\ QueuePaced(q, id) /\ Delivery(q, id)
      BY DEF Operation
    <2>2. (Holds(q)' <=> Holds(q)) /\ (InboxAtRest(q) => InboxAtRest(q)')
      BY <1>1, <1>9 DEF Holds, InboxAtRest
    <2>3. OneAtATime(q)'
      BY <1>1, <1>9, <2>1, <2>2 DEF OneAtATime
    <2>4. QueuePaced(q, id)'
      BY <1>1, <2>1 DEF QueuePaced, Route
    <2>5. Delivery(q, id)'
      BY <1>1, <1>12, <2>1, <2>2 DEF Delivery
    <2> QED
      BY <2>3, <2>4, <2>5
  <1>14. Acquainted(id)'
    <2>1. Acquainted(id) /\ Joined' = Joined
      BY <1>1 DEF Operation, Joined
    <2>2. \A c \in Joined \ peers[Server] : FALSE
      BY <1>2, <2>1 DEF Acquainted
    <2>3. \A c \in peers[Server] \ grpc_stub'[Server] : FALSE
      BY <1>4, <2>1 DEF Acquainted
    <2> QED
      BY <1>1, <2>1, <2>2, <2>3 DEF Acquainted
  <1>15. /\ \A j \in Ids \ {id} : Complete(j)'
         /\ \A q \in audience'[id] : origin'[q] = q
         /\ \A m \in Nodes : Started(m)' => m \in listening' \/ m = id
    BY <1>1, <1>8 DEF Operation, Complete, Started
  <1> QED
    BY <1>10, <1>11, <1>13, <1>14, <1>15 DEF Operation
-----------------------------------------------------------------------------
(* The operations begin when all is quiet.                                  *)

LEMMA AtQuiet ==
    ASSUME NetworkInvariant, Calm, NEW id \in Ids, Operation(id), Quiet
    PROVE  /\ \A j \in Ids : Complete(j)
           /\ Joined = peers[Server] /\ Joined = grpc_stub[Server]
  <1>1. \A n \in Nodes : /\ incoming_messages[n] = <<>>
                         /\ \A t \in Threads(n) : ~ Busy(thread[n][t])
    BY DEF Quiet, Busy
  <1>2. \A n \in Nodes : \A t \in InboxThreads[n] : t \in Threads(n)
    BY DEF Threads
  <1>3. ASSUME NEW p \in Nodes
        PROVE  ~ Owed(p, id) /\ ~ Holds(p)
    <2>1. \A n \in Nodes : \A t \in Threads(n) : \A q : ~ Owes(n, t, thread[n][t], q)
      BY <1>1 DEF Owes, Busy
    <2>2. ~ Coming
      <3>1. \A n \in Nodes : ~ Casting(n, thread[n][Main])
        BY <2>1 DEF Casting, Threads
      <3> QED
        BY <1>1, <3>1, CacheAssumption DEF Coming
    <2>3. ~ Holds(p)
      BY <1>1, <1>2 DEF Holds, Carries, Busy
    <2> QED
      BY <2>1, <2>2, <2>3 DEF Owed
  <1>4. audience[id] \subseteq Nodes
    BY DEF NetworkInvariant, HistoryOK
  <1>5. Complete(id)
    BY <1>3, <1>4 DEF Operation, Delivery, Complete
  <1>6. \A j \in Ids : Complete(j)
    BY <1>5 DEF Operation
  <1>7. \A t \in InboxThreads[Server] : thread[Server][t].pc \notin {"adding", "inserting"}
    BY <1>1, <1>2, CacheAssumption DEF Busy
  <1>8. peers[Server] \subseteq grpc_stub[Server]
    BY <1>7 DEF Operation, Acquainted
  <1>9. Joined \subseteq peers[Server]
    BY <1>5, <1>7 DEF Operation, Acquainted, Complete
  <1> QED
    BY <1>6, <1>8, <1>9 DEF Calm, Star

\* The server and whom it knows are all that can be reached.
LEMMA ReachableInStar ==
    ASSUME NetworkInvariant, Calm, NEW n \in Nodes
    PROVE  Reachable(n) = ({Server} \cup peers[Server]) \ {n}
  <1>1. peers[Server] \subseteq Nodes /\ Server \in Nodes
    BY CacheAssumption DEF NetworkInvariant, SetsOK
  <1>2. \A c \in Nodes : c # Server => peers[c] = {Server}
    BY DEF Calm, Star, Clients
  <1>3. ASSUME NEW p \in Reachable(n)
        PROVE  p \in ({Server} \cup peers[Server]) \ {n}
    <2> DEFINE S == {n, Server} \cup peers[Server]
    <2>1. S \in SUBSET Nodes /\ n \in S
      BY <1>1
    <2>2. \A m \in S : peers[m] \subseteq S
      BY <1>1, <1>2
    <2>3. p \in S /\ p # n
      BY <1>3, <2>1, <2>2 DEF Reachable
    <2> QED
      BY <2>3
  <1>4. ASSUME NEW p \in ({Server} \cup peers[Server]) \ {n}
        PROVE  p \in Reachable(n)
    <2>1. p \in Nodes \ {n}
      BY <1>1, <1>4
    <2>2. ASSUME NEW S \in SUBSET Nodes, n \in S, \A m \in S : peers[m] \subseteq S
          PROVE  p \in S
      <3>1. Server \in S
        BY <1>2, <2>2
      <3> QED
        BY <1>4, <2>2, <3>1
    <2> QED
      BY <2>1, <2>2 DEF Reachable
  <1> QED
    BY <1>3, <1>4

LEMMA NotIssued ==
    ASSUME NetworkInvariant, NEW id \in Ids, origin[id] = NULL
    PROVE  audience[id] = {} /\ \A p \in Nodes : handled[p][id] = 0
  <1>1. recipients[id] = {}
    BY NetworkAssumption DEF NetworkInvariant, HistoryOK
  <1>2. audience[id] = {}
    BY <1>1 DEF NetworkInvariant, HistoryOK
  <1>3. \A p \in Nodes : handled[p][id] \in Nat /\ ~ handled[p][id] > 0
    BY <1>1 DEF NetworkInvariant, HistoryOK, OnlyAddressees
  <1> QED
    BY <1>2, <1>3

\* What holds when an operation begins that does not end the pace.
LEMMA BeforeIssue ==
    ASSUME NetworkInvariant, PacedInvariant, NEW n \in Nodes, NEW id \in Ids,
           NEW addressees, NEW reachable, Issue(n, id, addressees, reachable),
           id \in Nodes => id = n, Paced'
    PROVE  /\ Calm /\ Quiet
           /\ \A p \in peers[n] : origin[p] # NULL
           /\ \A j \in Ids : Complete(j)
           /\ Joined = peers[Server] /\ Joined = grpc_stub[Server]
  <1>1. ~ hurried /\ Quiet /\ \A p \in peers[n] : origin[p] # NULL
    BY DEF Paced, Issue
  <1>2. /\ origin[id] = NULL
        /\ \A j \in Ids : origin'[j] = IF j = id THEN n ELSE origin[j]
        /\ \A j \in Ids : audience'[j] = IF j = id THEN reachable ELSE audience[j]
    BY DEF Issue, NetworkInvariant, HistoryOK
  <1>3. Cardinality(Joined) <= 2
    <2>1. Joined \subseteq Joined'
      BY <1>2, NetworkAssumption DEF Joined, Clients
    <2>2. Joined' \subseteq Nodes
      BY DEF Joined, Clients
    <2>3. IsFiniteSet(Joined') /\ Cardinality(Joined') \in Nat
      BY <2>2, BrokerAssumption, FS_Subset, FS_CardinalityType
    <2>4. Cardinality(Joined) <= Cardinality(Joined')
      BY <2>1, <2>3, FS_Subset
    <2>5. Cardinality(Joined') <= 2
      BY DEF Paced
    <2> QED
      BY <2>3, <2>4, <2>5, JoinedFinite
  <1>4. \A j \in Calls : \A p \in audience[j] : j \in Commands[p]
    <2>1. audience[id] = {}
      BY <1>2, NotIssued
    <2> QED
      BY <1>2, <2>1, NetworkAssumption DEF Paced, ProperCalls
  <1>5. Paced
    BY <1>1, <1>3, <1>4 DEF Paced, ProperCalls
  <1>6. PICK j \in Ids : Operation(j)
    BY <1>5 DEF PacedInvariant
  <1>7. Calm
    BY <1>5 DEF PacedInvariant
  <1> QED
    BY <1>1, <1>6, <1>7, AtQuiet

\* A message that n issues when all is quiet, and that Main of n, which does l
\* then, owes to those that can be reached.
LEMMA IssuePaced ==
    ASSUME NetworkInvariant, PacedInvariant, NEW n \in Nodes, NEW id \in Ids,
           NEW addressees, NEW reachable, Issue(n, id, addressees, reachable),
           id \in Nodes => id = n, Paced', reachable \subseteq Nodes,
           NEW l, thread'[n][Main] = l, l.pc # "off", MainPaced(n, l, id)',
           \A s \in InboxThreads[n] : ~ Busy(thread'[n][s]),
           \A m \in Nodes \ {n} : thread'[m] = thread[m],
           id # n => Started(n),
           id \in Clients => Server \in reachable,
           \A p \in reachable : origin[p] = p,
           \A p \in Nodes : (\/ Owes(n, Main, l, p)
                             \/ Casting(n, l) /\ p \in peers[Server] /\ p # n)
                            <=> p \in reachable
    PROVE  Calm' /\ Operation(id)'
  <1>1. /\ Calm /\ Quiet
        /\ \A p \in peers[n] : origin[p] # NULL
        /\ \A j \in Ids : Complete(j)
        /\ Joined = peers[Server] /\ Joined = grpc_stub[Server]
    BY BeforeIssue
  <1>2. /\ origin[id] = NULL
        /\ \A j \in Ids : origin'[j] = IF j = id THEN n ELSE origin[j]
        /\ \A j \in Ids : audience'[j] = IF j = id THEN reachable ELSE audience[j]
        /\ UNCHANGED <<peers, grpc_stub, incoming_messages, listening, down, lost, handled>>
    BY DEF Issue, NetworkInvariant, HistoryOK
  <1>3. Nodes \subseteq Ids /\ Server \in Nodes /\ NULL \notin Nodes
    BY NetworkAssumption, CacheAssumption
  <1>4. /\ \A m \in Nodes : Main \in Threads(m) /\ Main \notin InboxThreads[m]
        /\ \A m \in Nodes : \A s \in InboxThreads[m] : s \in Threads(m)
    BY BrokerAssumption DEF Threads
  <1>5. /\ \A m \in Nodes : incoming_messages'[m] = <<>>
        /\ \A m \in Nodes : \A s \in Threads(m) : ~ (m = n /\ s = Main) => ~ Busy(thread'[m][s])
    <2>1. \A m \in Nodes : \A s \in Threads(m) : ~ Busy(thread[m][s])
      BY <1>1 DEF Quiet, Busy
    <2>2. \A s \in Threads(n) : s # Main => s \in InboxThreads[n]
      BY DEF Threads
    <2> QED
      BY <1>1, <1>2, <2>1, <2>2 DEF Quiet
  <1>6. \A m \in Nodes \ {n} : Started(m)' <=> Started(m)
    BY DEF Started
  <1>7. Started(n)'
    BY DEF Started
  <1>8. origin'[n] = n
    <2>1. CASE id = n
      BY <1>2, <2>1
    <2>2. CASE id # n
      BY <1>1, <1>2, <1>3, <2>2 DEF Calm, Star
    <2> QED
      BY <2>1, <2>2
  <1>9. Joined \subseteq Joined' /\ Joined' \subseteq Joined \cup {n}
    BY <1>2, <1>3 DEF Joined, Clients
  <1>10. Star'
    <2>1. \A c \in Clients : peers'[c] = {Server} /\ grpc_stub'[c] = {Server}
      BY <1>1, <1>2 DEF Calm, Star
    <2>2. grpc_stub'[Server] \subseteq peers'[Server] /\ peers'[Server] \subseteq Joined'
      BY <1>1, <1>2, <1>9
    <2>3. Joined' # {} => origin'[Server] = Server
      <3>1. CASE n = Server
        BY <1>8, <3>1
      <3>2. CASE n # Server
        <4>1. origin[Server] # NULL
          BY <1>1, <3>2 DEF Calm, Star, Clients
        <4>2. origin[Server] = Server
          BY <1>1, <1>3, <4>1 DEF Calm, Star
        <4> QED
          BY <1>2, <1>3, <4>1, <4>2
      <3> QED
        BY <3>1, <3>2
    <2>4. ASSUME NEW m \in Nodes
          PROVE  origin'[m] \in {NULL, m} /\ (Started(m)' <=> origin'[m] = m)
      <3>1. CASE m = n
        BY <1>7, <1>8, <3>1
      <3>2. CASE m # n
        BY <1>1, <1>2, <1>3, <1>6, <3>2 DEF Calm, Star
      <3> QED
        BY <3>1, <3>2
    <2>5. ASSUME NEW j \in Ids, origin'[j] \in Nodes
          PROVE  origin'[origin'[j]] = origin'[j]
      <3>1. CASE j = id
        BY <1>2, <1>8, <3>1
      <3>2. CASE j # id
        <4>1. PICK o \in Nodes : o = origin[j] /\ o = origin'[j]
          BY <1>2, <2>5, <3>2
        <4>2. origin[o] = o
          BY <1>1, <4>1 DEF Calm, Star
        <4>3. origin'[o] = o
          BY <1>2, <1>3, <4>2
        <4> QED
          BY <4>1, <4>3
      <3> QED
        BY <3>1, <3>2
    <2> QED
      BY <2>1, <2>2, <2>3, <2>4, <2>5 DEF Star
  <1>11. Calm'
    BY <1>1, <1>2, <1>10 DEF Calm
  <1>12. \A p \in Nodes : Owed(p, id)' <=> p \in reachable
    <2>1. \A m \in Nodes : \A s : \A x : \A p : Owes(m, s, x, p)' <=> Owes(m, s, x, p)
      BY <1>2 DEF Owes
    <2>2. \A m \in Nodes : \A s \in Threads(m) : \A p :
              ~ (m = n /\ s = Main) => ~ Owes(m, s, thread[m][s], p)'
      BY <1>5 DEF Owes, Busy
    <2>3. \A p : Owes(n, Main, thread[n][Main], p)' <=> Owes(n, Main, l, p)
      BY <2>1
    <2>4. Coming' <=> Casting(n, l)
      <3>1. \A m \in Nodes : Casting(m, thread[m][Main])' => m = n
        BY <1>4, <2>2 DEF Casting
      <3>2. Casting(n, thread[n][Main])' <=> Casting(n, l)
        BY <2>3 DEF Casting
      <3> QED
        BY <1>3, <1>5, <3>1, <3>2 DEF Coming
    <2>5. ASSUME NEW p \in Nodes
          PROVE  (\E m \in Nodes : \E s \in Threads(m) : Owes(m, s, thread[m][s], p)')
                 <=> Owes(n, Main, l, p)
      BY <1>4, <2>2, <2>3
    <2> QED
      BY <1>2, <2>4, <2>5 DEF Owed
  <1>13. ASSUME NEW p \in Nodes
         PROVE  /\ MainPaced(p, thread[p][Main], id)'
                /\ \A s \in InboxThreads[p] : InboxPaced(p, thread[p][s], id)'
                /\ OneAtATime(p)' /\ QueuePaced(p, id)' /\ Delivery(p, id)'
                /\ Started(p)' => p \in listening' \/ p = id
    <2>1. MainPaced(p, thread[p][Main], id)'
      <3>1. CASE p = n
        BY <3>1
      <3>2. CASE p # n
        BY <1>4, <1>5, <3>2 DEF MainPaced, Busy
      <3> QED
        BY <3>1, <3>2
    <2>2. \A s \in InboxThreads[p] : ~ Busy(thread'[p][s])
      BY <1>4, <1>5
    <2>3. \A s \in InboxThreads[p] : InboxPaced(p, thread[p][s], id)'
      BY <2>2 DEF InboxPaced, Busy
    <2>4. OneAtATime(p)' /\ QueuePaced(p, id)'
      BY <1>5, <2>2 DEF OneAtATime, QueuePaced
    <2>5. handled'[p][id] = 0
      BY <1>2, NotIssued
    <2>6. Delivery(p, id)'
      BY <1>2, <1>5, <1>12, <2>2, <2>5 DEF Delivery, InboxAtRest
    <2>7. Started(p)' => p \in listening' \/ p = id
      <3>1. \A m \in Nodes : Started(m) => m \in listening
        BY <1>1 DEF Quiet
      <3> QED
        BY <1>2, <1>6, <3>1
    <2> QED
      BY <2>1, <2>3, <2>4, <2>6, <2>7
  <1>14. Acquainted(id)'
    <2>1. handled'[Server][id] = 0
      BY <1>2, <1>3, NotIssued
    <2>2. \A c \in Joined' \ peers'[Server] : c = id /\ Server \in audience'[id]
      <3>1. \A c \in Joined' : c \in Clients
        BY DEF Joined
      <3>2. \A c \in Joined' \ Joined : c = n /\ c = id
        BY <1>2, <1>3, <1>9 DEF Joined, Clients
      <3> QED
        BY <1>1, <1>2, <3>1, <3>2
    <2> QED
      BY <1>1, <1>2, <2>1, <2>2 DEF Acquainted
  <1>15. \A j \in Ids \ {id} : Complete(j)'
    BY <1>1, <1>2 DEF Complete
  <1>16. \A p \in audience'[id] : origin'[p] = p
    BY <1>2, <1>3
  <1> QED
    BY <1>11, <1>13, <1>14, <1>15, <1>16 DEF Operation

\* What Main of n owes when it is about to broadcast.
LEMMA BroadcastReaches ==
    ASSUME NetworkInvariant, Calm, NEW n \in Nodes, Joined = peers[Server],
           \A p \in peers[n] : origin[p] # NULL,
           NEW l, \/ l.pc \in {"announcing", "locking"}
                  \/ l.pc = "idle" /\ peers[n] = {}
    PROVE  /\ \A p \in Nodes : (\/ Owes(n, Main, l, p)
                                \/ Casting(n, l) /\ p \in peers[Server] /\ p # n)
                               <=> p \in Reachable(n)
           /\ \A p \in Reachable(n) : origin[p] = p
           /\ Reachable(n) \subseteq Nodes
           /\ n \in Clients => Server \in Reachable(n)
  <1>1. Reachable(n) = ({Server} \cup peers[Server]) \ {n}
    BY ReachableInStar
  <1>2. /\ Server \notin peers[Server] /\ \A c \in Clients : peers[c] = {Server}
        /\ \A p \in peers[Server] : p \in Nodes /\ origin[p] = p
        /\ Server \in Nodes
    BY CacheAssumption DEF Calm, Star, Joined, Clients
  <1>3. \A p \in Nodes : Owes(n, Main, l, p) <=> p \in peers[n]
    BY DEF Owes
  <1>4. Casting(n, l) <=> Server \in peers[n]
    BY <1>2, <1>3 DEF Casting
  <1>5. CASE n = Server
    BY <1>1, <1>2, <1>3, <1>4, <1>5 DEF Clients
  <1>6. CASE n # Server
    <2>1. peers[n] = {Server}
      BY <1>2, <1>6 DEF Clients
    <2>2. origin[Server] = Server
      BY <1>2, <2>1 DEF Calm, Star
    <2> QED
      BY <1>1, <1>2, <1>3, <1>4, <1>6, <2>1, <2>2
  <1> QED
    BY <1>5, <1>6

LEMMA JoinPaced ==
    ASSUME NetworkInvariant, PacedInvariant, NEW n \in Nodes, JoinNetwork(n), Paced'
    PROVE  Calm' /\ Operation(n)'
  <1>1. /\ Issue(n, n, Nodes \ {n}, Reachable(n))
        /\ thread' = [thread EXCEPT ![n] = ThreadsStarted(n)]
    BY DEF JoinNetwork
  <1>2. n \in Ids
    BY NetworkAssumption
  <1>3. /\ Calm /\ \A p \in peers[n] : origin[p] # NULL
        /\ Joined = peers[Server]
    BY <1>1, <1>2, BeforeIssue
  <1>4. PICK l : l = [Idle EXCEPT !.pc = "announcing"]
    OBVIOUS
  <1>5. l.pc = "announcing"
    BY <1>4 DEF Idle
  <1>6. /\ thread'[n][Main] = l
        /\ \A s \in InboxThreads[n] : ~ Busy(thread'[n][s])
        /\ \A m \in Nodes \ {n} : thread'[m] = thread[m]
    <2>1. thread'[n] = ThreadsStarted(n) /\ \A m \in Nodes \ {n} : thread'[m] = thread[m]
      BY <1>1 DEF NetworkInvariant, ThreadsOK
    <2>2. ThreadsStarted(n)[Main] = l
      BY <1>4 DEF ThreadsStarted, Threads
    <2>3. \A s \in InboxThreads[n] : ThreadsStarted(n)[s] = Idle
      BY BrokerAssumption DEF ThreadsStarted, Threads
    <2>4. ~ Busy(Idle)
      BY DEF Busy, Idle
    <2> QED
      BY <2>1, <2>2, <2>3, <2>4
  <1>7. origin'[n] = n
    BY <1>1, <1>2 DEF Issue, NetworkInvariant, HistoryOK
  <1>8. MainPaced(n, l, n)'
    BY <1>5, <1>7 DEF MainPaced
  <1>9. /\ \A p \in Nodes : (\/ Owes(n, Main, l, p)
                             \/ Casting(n, l) /\ p \in peers[Server] /\ p # n)
                            <=> p \in Reachable(n)
        /\ \A p \in Reachable(n) : origin[p] = p
        /\ Reachable(n) \subseteq Nodes
        /\ n \in Clients => Server \in Reachable(n)
    BY <1>3, <1>5, BroadcastReaches
  <1> QED
    BY <1>1, <1>2, <1>5, <1>6, <1>8, <1>9, IssuePaced

LEMMA BroadcastPaced ==
    ASSUME NetworkInvariant, PacedInvariant, NEW n \in Nodes, NEW id \in Calls,
           Broadcast(n, id), Paced'
    PROVE  Calm' /\ Operation(id)'
  <1> DEFINE new == [pc |-> "locking", message |-> Broadcasting(n, id),
                     targets |-> {}, contexts |-> ContextsFor(n)]
  <1>1. PICK l : l = IF peers[n] = {} THEN Idle ELSE new
    OBVIOUS
  <1>2. /\ thread[n][Main].pc = "idle"
        /\ Issue(n, id, Nodes \ {n}, Reachable(n))
        /\ thread' = [thread EXCEPT ![n][Main] = l]
    BY <1>1 DEF Broadcast, BroadcastBegins, At
  <1>3. id \in Ids /\ id \notin Nodes /\ id # n
    BY NetworkAssumption
  <1>4. /\ Calm /\ Quiet /\ \A p \in peers[n] : origin[p] # NULL
        /\ Joined = peers[Server]
    BY <1>2, <1>3, BeforeIssue
  <1>5. \/ l.pc = "idle" /\ peers[n] = {}
        \/ l.pc = "locking" /\ l.message = Broadcasting(n, id) /\ l.contexts = Cardinality(peers[n])
    BY <1>1 DEF Idle, ContextsFor
  <1> HIDE DEF new
  <1>6. Main \in Threads(n) /\ \A s \in InboxThreads[n] : s \in Threads(n) /\ s # Main
    BY BrokerAssumption DEF Threads
  <1>7. /\ thread'[n][Main] = l
        /\ \A s \in InboxThreads[n] : thread'[n][s] = thread[n][s]
        /\ \A m \in Nodes \ {n} : thread'[m] = thread[m]
    BY <1>2, <1>6 DEF NetworkInvariant, ThreadsOK
  <1>8. \A s \in InboxThreads[n] : ~ Busy(thread'[n][s])
    BY <1>4, <1>6, <1>7 DEF Quiet, Busy
  <1>9. origin'[id] = n /\ peers' = peers
    BY <1>2, <1>3 DEF Issue, NetworkInvariant, HistoryOK
  <1>10. MainPaced(n, l, id)'
    BY <1>5, <1>9, PeersFinite DEF MainPaced, Busy
  <1>11. /\ \A p \in Nodes : (\/ Owes(n, Main, l, p)
                              \/ Casting(n, l) /\ p \in peers[Server] /\ p # n)
                             <=> p \in Reachable(n)
         /\ \A p \in Reachable(n) : origin[p] = p
         /\ Reachable(n) \subseteq Nodes
    BY <1>4, <1>5, BroadcastReaches
  <1>12. Started(n) /\ l.pc # "off" /\ id \notin Clients
    BY <1>2, <1>3, <1>5 DEF Started, Clients
  <1> QED
    BY <1>2, <1>3, <1>7, <1>8, <1>10, <1>11, <1>12, IssuePaced

LEMMA SendPaced ==
    ASSUME NetworkInvariant, PacedInvariant, NEW n \in Nodes, NEW id \in Calls,
           NEW recipient \in Nodes \ {n}, Send(n, id, recipient), Paced'
    PROVE  Calm' /\ Operation(id)'
  <1> DEFINE new == [pc |-> "checking", message |-> Sending(id), targets |-> {recipient},
                     contexts |-> 1]
  <1>1. PICK l : l = new
    OBVIOUS
  <1>2. /\ thread[n][Main].pc = "idle"
        /\ Issue(n, id, {recipient}, {recipient} \cap peers[n])
        /\ thread' = [thread EXCEPT ![n][Main] = l]
    BY <1>1 DEF Send, SendBegins, At
  <1>3. id \in Ids /\ id \notin Nodes /\ id # n
    BY NetworkAssumption
  <1>4. /\ Calm /\ Quiet /\ \A p \in peers[n] : origin[p] # NULL
    BY <1>2, <1>3, BeforeIssue
  <1>5. l.pc = "checking" /\ l.message = Sending(id) /\ l.targets = {recipient} /\ l.contexts = 1
    BY <1>1
  <1> HIDE DEF new
  <1>6. Main \in Threads(n) /\ \A s \in InboxThreads[n] : s \in Threads(n) /\ s # Main
    BY BrokerAssumption DEF Threads
  <1>7. /\ thread'[n][Main] = l
        /\ \A s \in InboxThreads[n] : thread'[n][s] = thread[n][s]
        /\ \A m \in Nodes \ {n} : thread'[m] = thread[m]
    BY <1>2, <1>6 DEF NetworkInvariant, ThreadsOK
  <1>8. \A s \in InboxThreads[n] : ~ Busy(thread'[n][s])
    BY <1>4, <1>6, <1>7 DEF Quiet, Busy
  <1>9. origin'[id] = n /\ peers' = peers
    BY <1>2, <1>3 DEF Issue, NetworkInvariant, HistoryOK
  <1>10. MainPaced(n, l, id)'
    BY <1>5, <1>9 DEF MainPaced
  <1>11. \A p \in Nodes : (\/ Owes(n, Main, l, p)
                           \/ Casting(n, l) /\ p \in peers[Server] /\ p # n)
                          <=> p \in {recipient} \cap peers[n]
    BY <1>5 DEF Owes, Casting
  <1>12. \A p \in {recipient} \cap peers[n] : origin[p] = p
    BY <1>4 DEF Calm, Star
  <1>13. Started(n) /\ l.pc # "off" /\ id \notin Clients
    BY <1>2, <1>3, <1>5 DEF Started, Clients
  <1> QED
    BY <1>2, <1>3, <1>7, <1>8, <1>10, <1>11, <1>12, <1>13, IssuePaced
-----------------------------------------------------------------------------
LEMMA StepPaced ==
    ASSUME NetworkInvariant, Calm, NEW id \in Ids, Operation(id),
           NEW n \in Nodes, NEW t \in Threads(n), Step(n, t)
    PROVE  Calm' /\ Operation(id)'
  <1>1. CASE Lock(n, t) /\ UNCHANGED nodeVars
    BY <1>1, LockPaced
  <1>2. CASE CallPeer(n, t) /\ UNCHANGED nodeVars
    BY <1>2, CallPaced
  <1>3. CASE Unlock(n, t) /\ UNCHANGED nodeVars
    BY <1>3, UnlockPaced
  <1>4. CASE AddPeer(n, t) /\ UNCHANGED nodeVars
    BY <1>4, AddPeerPaced
  <1>5. CASE InsertStub(n, t) /\ UNCHANGED nodeVars
    BY <1>5, InsertStubPaced
  <1>6. CASE MainStep(n) /\ UNCHANGED nodeVars
    BY <1>6, MainPacedStep
  <1>7. CASE t # Main /\ Dequeue(n, t) /\ UNCHANGED nodeVars
    BY <1>7, DequeuePaced
  <1>8. CASE Act(n, t)
    BY <1>8, ActPaced
  <1>9. CASE Announce(n)
    BY <1>9, AnnouncePaced
  <1>10. ~ CallCrashes(n, t) /\ ~ UnknownCommand(n, t)
    BY NoCallCrashes, NoUnknownCommand
  <1>11. ~ InsertCrashes(n, t)
    BY NoInsertCrashes DEF InsertCrashes
  <1> QED
    BY <1>1, <1>2, <1>3, <1>4, <1>5, <1>6, <1>7, <1>8, <1>9, <1>10, <1>11
    DEF Step, BrokerStep

LEMMA PacedInitially == Init => PacedInvariant
  <1> SUFFICES ASSUME Init PROVE PacedInvariant
    OBVIOUS
  <1>1. /\ peers = Known /\ grpc_stub = Known /\ listening = {} /\ down = {} /\ lost = {}
        /\ \A n \in Nodes : incoming_messages[n] = <<>>
        /\ \A n \in Nodes : \A t \in Threads(n) : thread[n][t] = [Idle EXCEPT !.pc = "off"]
        /\ \A id \in Ids : origin[id] = NULL /\ audience[id] = {}
    BY DEF Init, BrokerInit, NoThread
  <1>2. /\ Server \in Nodes /\ NULL \notin Nodes /\ Nodes \subseteq Ids
        /\ \A m \in Nodes : Main \in Threads(m)
        /\ \A m \in Nodes : \A s \in InboxThreads[m] : s \in Threads(m)
    BY NetworkAssumption, CacheAssumption DEF Threads
  <1>3. \A n \in Nodes : \A t \in Threads(n) : ~ Busy(thread[n][t]) /\ thread[n][t].pc = "off"
    BY <1>1 DEF Busy, Idle
  <1>4. Joined = {}
    BY <1>1, <1>2 DEF Joined, Clients
  <1>5. Star
    <2>1. peers[Server] = {} /\ \A c \in Clients : peers[c] = {Server}
      BY <1>1, <1>2, CacheParameters DEF known_peers, Clients
    <2>2. \A n \in Nodes : ~ Started(n)
      BY <1>2, <1>3 DEF Started
    <2> QED
      BY <1>1, <1>2, <1>4, <2>1, <2>2 DEF Star
  <1>6. Operation(Server)
    <2>1. \A p \in Nodes : ~ Owed(p, Server)
      <3>1. \A n \in Nodes : \A t \in Threads(n) : \A q : ~ Owes(n, t, thread[n][t], q)
        BY <1>3 DEF Owes
      <3>2. ~ Coming
        BY <1>1, <1>2, <3>1 DEF Coming, Casting
      <3> QED
        BY <3>1, <3>2 DEF Owed
    <2>2. ASSUME NEW n \in Nodes
          PROVE  /\ MainPaced(n, thread[n][Main], Server)
                 /\ \A t \in InboxThreads[n] : InboxPaced(n, thread[n][t], Server)
                 /\ OneAtATime(n) /\ QueuePaced(n, Server) /\ Delivery(n, Server)
                 /\ ~ Started(n)
      <3>1. MainPaced(n, thread[n][Main], Server) /\ ~ Started(n)
        BY <1>2, <1>3 DEF MainPaced, Started
      <3>2. \A t \in InboxThreads[n] : ~ Busy(thread[n][t])
        BY <1>2, <1>3
      <3>3. OneAtATime(n) /\ QueuePaced(n, Server)
        BY <1>1, <3>2 DEF OneAtATime, QueuePaced
      <3>4. Delivery(n, Server)
        BY <1>1, <1>2, <2>1 DEF Delivery
      <3> QED
        BY <3>1, <3>2, <3>3, <3>4 DEF InboxPaced
    <2>3. Acquainted(Server)
      BY <1>1, <1>4 DEF Acquainted
    <2> QED
      BY <1>1, <1>2, <2>2, <2>3 DEF Operation, Complete
  <1> QED
    BY <1>1, <1>2, <1>5, <1>6 DEF PacedInvariant, Calm

LEMMA NextPaced ==
    ASSUME NetworkInvariant, PacedInvariant, Next
    PROVE  PacedInvariant'
  <1> SUFFICES ASSUME Paced' PROVE Calm' /\ \E id \in Ids : Operation(id)'
    BY DEF PacedInvariant
  <1>1. PICK n \in Nodes :
          \/ JoinNetwork(n)
          \/ Listen(n) /\ UNCHANGED nodeVars
          \/ \E id \in Calls : Broadcast(n, id)
          \/ \E id \in Calls, recipient \in Nodes \ {n} : Send(n, id, recipient)
          \/ \E p \in Nodes : UserAddsPeer(n, p)
          \/ \E t \in Threads(n) : Step(n, t)
    BY DEF Next
  <1>2. Nodes \subseteq Ids /\ Calls \subseteq Ids
    BY NetworkAssumption
  <1>3. CASE JoinNetwork(n)
    BY <1>2, <1>3, JoinPaced
  <1>4. CASE \E id \in Calls : Broadcast(n, id)
    BY <1>2, <1>4, BroadcastPaced
  <1>5. CASE \E id \in Calls, recipient \in Nodes \ {n} : Send(n, id, recipient)
    BY <1>2, <1>5, SendPaced
  <1>6. CASE \E p \in Nodes : UserAddsPeer(n, p)
    BY <1>6, CacheAssumption DEF UserAddsPeer
  <1>7. ASSUME UNCHANGED <<origin, audience, hurried>>
        PROVE  Calm /\ \E id \in Ids : Operation(id)
    BY <1>7 DEF PacedInvariant, Paced, ProperCalls, Joined
  <1>8. CASE Listen(n) /\ UNCHANGED nodeVars
    <2>1. PICK id \in Ids : Calm /\ Operation(id)
      BY <1>7, <1>8 DEF nodeVars
    <2> QED
      BY <1>8, <2>1, ListenPaced
  <1>9. ASSUME NEW t \in Threads(n), Step(n, t)
        PROVE  Calm' /\ \E id \in Ids : Operation(id)'
    <2>1. UNCHANGED <<origin, audience, hurried>>
      BY <1>9 DEF Step, Act, UnknownCommand, Announce, nodeVars
    <2>2. PICK id \in Ids : Calm /\ Operation(id)
      BY <1>7, <2>1
    <2> QED
      BY <1>9, <2>2, StepPaced
  <1> QED
    BY <1>1, <1>3, <1>4, <1>5, <1>6, <1>8, <1>9

LEMMA StutterPaced ==
    ASSUME PacedInvariant, UNCHANGED vars
    PROVE  PacedInvariant'
  <1>1. /\ UNCHANGED <<peers, grpc_stub, incoming_messages, listening, down, thread, lost>>
        /\ UNCHANGED <<handled, origin, audience, hurried>>
    BY DEF vars, brokerVars, nodeVars
  <1>2. (Calm' <=> Calm) /\ (Paced' <=> Paced)
    BY <1>1 DEF Calm, Paced, ProperCalls, Star, Joined, Started
  <1>3. ASSUME NEW id \in Ids
        PROVE  Operation(id) => Operation(id)'
    <2>1. \A n \in Nodes : \A s : \A x :
            /\ MainPaced(n, x, id)' <=> MainPaced(n, x, id)
            /\ InboxPaced(n, x, id)' <=> InboxPaced(n, x, id)
            /\ \A q : Owes(n, s, x, q)' <=> Owes(n, s, x, q)
      BY <1>1 DEF MainPaced, InboxPaced, Route, Enough, Owes
    <2>2. \A n \in Nodes : /\ MainPaced(n, thread[n][Main], id)' <=> MainPaced(n, thread[n][Main], id)
                           /\ \A t : InboxPaced(n, thread[n][t], id)'
                                        <=> InboxPaced(n, thread[n][t], id)
      BY <1>1, <2>1
    <2>3. Coming' <=> Coming
      BY <1>1, <2>1 DEF Coming, Casting
    <2>4. \A q : Owed(q, id)' <=> Owed(q, id)
      BY <1>1, <2>1, <2>3 DEF Owed
    <2>5. \A n \in Nodes : Delivery(n, id)' <=> Delivery(n, id)
      BY <1>1, <2>4 DEF Delivery, Holds, InboxAtRest
    <2>6. \A n \in Nodes : /\ OneAtATime(n)' <=> OneAtATime(n)
                           /\ QueuePaced(n, id)' <=> QueuePaced(n, id)
                           /\ Started(n)' <=> Started(n)
      BY <1>1 DEF OneAtATime, InboxAtRest, QueuePaced, Route, Started
    <2>7. Acquainted(id)' <=> Acquainted(id)
      BY <1>1 DEF Acquainted, Joined
    <2>8. \A j : Complete(j)' <=> Complete(j)
      BY <1>1 DEF Complete
    <2> QED
      BY <1>1, <2>2, <2>5, <2>6, <2>7, <2>8 DEF Operation
  <1> QED
    BY <1>2, <1>3 DEF PacedInvariant

LEMMA PacedInductive == Spec => []PacedInvariant
  <1>1. NetworkInvariant /\ PacedInvariant /\ [Next]_vars => PacedInvariant'
    BY NextPaced, StutterPaced
  <1> QED
    BY <1>1, PacedInitially, NetworkInductive, PTL DEF Spec

\* A server with at most two clients, whose operations wait for each other, loses
\* nothing, for any number of clients that may join and of threads and calls
\* (message_broker_test.cc:146-200).
THEOREM PacedNetworkLosesNothing == Spec => []PacedNetworkIsReliable
  <1>1. NetworkInvariant /\ PacedInvariant => PacedNetworkIsReliable
    <2> SUFFICES ASSUME NetworkInvariant, PacedInvariant,
                        ~ hurried, Cardinality(Joined) <= 2, ProperCalls
                 PROVE  /\ down = {} /\ lost = {}
                        /\ Quiet => /\ Joined = peers[Server] /\ Joined = grpc_stub[Server]
                                    /\ \A id \in Ids : \A p \in audience[id] : handled[p][id] = 1
      BY DEF PacedNetworkIsReliable
    <2>1. Paced
      BY DEF Paced
    <2>2. PICK id \in Ids : Calm /\ Operation(id)
      BY <2>1 DEF PacedInvariant
    <2> QED
      BY <2>2, AtQuiet DEF Calm, Complete
  <1> QED
    BY <1>1, PacedInductive, NetworkInductive, PTL
=============================================================================
