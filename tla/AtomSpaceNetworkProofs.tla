---------------------- MODULE AtomSpaceNetworkProofs ----------------------
(***************************************************************************)
(* For networks of any size and shape: the brokers are well formed and      *)
(* loop over their peers only inside peers_mutex, a message is executed     *)
(* only by nodes it is addressed to and never by its origin, and the        *)
(* network implements the abstract one: no node executes a message more     *)
(* often than there are ways without a circle to it.                        *)
(***************************************************************************)
EXTENDS AtomSpaceNetwork, FiniteSetTheorems, SequenceTheorems, TLAPS

\* A message on its way to p, or in the hands of p: it was issued, and a broadcast
\* carries its origin among the nodes it visited.
InFlight(p, m) ==
    /\ origin[m.id] \in Nodes
    /\ IF m.is_broadcast
       THEN origin[m.id] \in m.visited_recipients /\ recipients[m.id] = Nodes \ {origin[m.id]}
       ELSE p \in recipients[m.id]

\* What a thread may be doing, and with which message.
MainOK(n, l) ==
    /\ l.pc # "acting"
    /\ l.pc \in {"locking", "calling"}
          => l.message \in Messages /\ l.message.is_broadcast /\ InFlight(n, l.message)
    /\ l.pc \in {"checking", "sending"}
          => /\ l.message \in Messages /\ ~ l.message.is_broadcast
             /\ origin[l.message.id] \in Nodes
             /\ l.targets \subseteq recipients[l.message.id]
    /\ l.pc = "announcing" => origin[n] = n /\ recipients[n] = Nodes \ {n}

InboxOK(n, l) ==
    /\ l.pc \notin {"announcing", "checking", "sending"}
    /\ l.pc \in {"locking", "calling", "acting"}
          => /\ l.message \in Messages /\ InFlight(n, l.message)
             /\ n \in recipients[l.message.id]
    /\ l.pc \in {"locking", "calling"} => l.message.is_broadcast

LocalOK(n, t, l) ==
    /\ l \in Locals
    /\ IF t = Main THEN MainOK(n, l) ELSE InboxOK(n, l)

ThreadsOK ==
    /\ DOMAIN thread = Nodes
    /\ \A n \in Nodes : thread[n] \in [Threads(n) -> Locals]
    /\ \A n \in Nodes : \A t \in Threads(n) : LocalOK(n, t, thread[n][t])

QueuesOK ==
    /\ incoming_messages \in [Nodes -> Seq(Messages)]
    /\ \A n \in Nodes : \A i \in 1..Len(incoming_messages[n]) :
          InFlight(n, incoming_messages[n][i])

\* The loops over the peers exclude each other.
MutexOK ==
    /\ DOMAIN peers_mutex = Nodes
    /\ \A n \in Nodes : peers_mutex[n] \in Threads(n) \cup {NULL}
    /\ \A n \in Nodes : \A t \in Threads(n) :
          thread[n][t].pc = "calling" => peers_mutex[n] = t

SetsOK ==
    /\ peers \in [Nodes -> SUBSET Nodes]
    /\ grpc_stub \in [Nodes -> SUBSET Nodes]
    /\ listening \in SUBSET Nodes /\ down \in SUBSET Nodes
    /\ lost \in SUBSET Ids
    /\ DOMAIN leader_id = Nodes
    /\ \A n \in Nodes : leader_id[n] \in {NULL, Vote[n]}

\* Only nodes a message is addressed to execute it.
OnlyAddressees ==
    \A n \in Nodes, id \in Ids :
        handled[n][id] > 0 => n \in recipients[id] /\ n # origin[id]

HistoryOK ==
    /\ handled \in [Nodes -> [Ids -> Nat]]
    /\ origin \in [Ids -> Nodes \cup {NULL}]
    /\ recipients \in [Ids -> SUBSET Nodes]
    /\ DOMAIN audience = Ids
    /\ \A id \in Ids : audience[id] \subseteq recipients[id]
    /\ \A id \in Ids : recipients[id] # {} => origin[id] \in Nodes
    /\ \A id \in Ids : origin[id] \notin recipients[id]
    /\ underway \in 0..MaxOverlap /\ hurried \in BOOLEAN

\* The inductive invariant.
NetworkInvariant ==
    ThreadsOK /\ QueuesOK /\ MutexOK /\ SetsOK /\ HistoryOK /\ OnlyAddressees

\* A message that was issued keeps its origin and its addressees.
HistoryKept ==
    \A id \in Ids : origin[id] \in Nodes =>
        origin'[id] = origin[id] /\ recipients'[id] = recipients[id]
-----------------------------------------------------------------------------
LEMMA InFlightStays ==
    ASSUME HistoryKept, NEW p \in Nodes, NEW m \in Messages, InFlight(p, m)
    PROVE  InFlight(p, m)'
  BY DEF HistoryKept, InFlight, Messages

LEMMA LocalStays ==
    ASSUME HistoryKept, NetworkAssumption, NEW n \in Nodes, NEW t, NEW l \in Locals,
           LocalOK(n, t, l)
    PROVE  LocalOK(n, t, l)'
  <1>1. \A m \in Messages : InFlight(n, m) => InFlight(n, m)'
    BY InFlightStays
  <1>2. n \in Ids
    BY DEF NetworkAssumption
  <1> QED
    BY <1>1, <1>2 DEF LocalOK, MainOK, InboxOK, HistoryKept, InFlight, Messages, Locals

\* A step that changes one thread.
LEMMA OneThread ==
    ASSUME ThreadsOK, HistoryKept, NEW n \in Nodes, NEW t \in Threads(n), NEW l,
           thread' = [thread EXCEPT ![n][t] = l],
           LocalOK(n, t, l)'
    PROVE  ThreadsOK'
  <1>1. \A m \in Nodes : \A s : \A x \in Locals : LocalOK(m, s, x) => LocalOK(m, s, x)'
    BY LocalStays, NetworkAssumption
  <1>2. l \in Locals
    BY DEF LocalOK
  <1>3. DOMAIN thread' = Nodes
    BY DEF ThreadsOK
  <1>4. ASSUME NEW m \in Nodes
        PROVE  /\ thread'[m] \in [Threads(m) -> Locals]
               /\ \A s \in Threads(m) :
                    thread'[m][s] = IF m = n /\ s = t THEN l ELSE thread[m][s]
    BY <1>2 DEF ThreadsOK
  <1>5. ASSUME NEW m \in Nodes, NEW s \in Threads(m)
        PROVE  LocalOK(m, s, thread[m][s])'
    BY <1>1, <1>4 DEF ThreadsOK
  <1> QED
    BY <1>3, <1>4, <1>5 DEF ThreadsOK, Threads

historyVars == <<handled, origin, recipients, audience, underway, hurried>>

LEMMA HistoryStays ==
    ASSUME HistoryOK, OnlyAddressees, UNCHANGED historyVars
    PROVE  HistoryKept /\ HistoryOK' /\ OnlyAddressees'
  BY DEF historyVars, HistoryKept, HistoryOK, OnlyAddressees

LEMMA QueuesStay ==
    ASSUME QueuesOK, HistoryKept, UNCHANGED incoming_messages
    PROVE  QueuesOK'
  <1>1. \A n \in Nodes : \A m \in Messages : InFlight(n, m) => InFlight(n, m)'
    BY InFlightStays
  <1>2. \A n \in Nodes : \A i \in 1..Len(incoming_messages[n]) : incoming_messages[n][i] \in Messages
    BY DEF QueuesOK
  <1> QED
    BY <1>1, <1>2 DEF QueuesOK

\* A step of a thread that leaves the history alone.
LEMMA ThreadStep ==
    ASSUME NetworkInvariant, UNCHANGED historyVars,
           NEW n \in Nodes, NEW t \in Threads(n), NEW l,
           thread' = [thread EXCEPT ![n][t] = l], LocalOK(n, t, l)
    PROVE  ThreadsOK' /\ HistoryOK' /\ OnlyAddressees'
  <1>1. HistoryKept /\ HistoryOK' /\ OnlyAddressees'
    BY HistoryStays DEF NetworkInvariant
  <1>2. LocalOK(n, t, l)'
    BY <1>1, LocalStays, NetworkAssumption DEF LocalOK
  <1> QED
    BY <1>1, <1>2, OneThread DEF NetworkInvariant

\* What the invariant says of one thread.
LEMMA OneLocal ==
    ASSUME NetworkInvariant, NEW n \in Nodes, NEW t \in Threads(n)
    PROVE  /\ thread[n][t] \in Locals
           /\ LocalOK(n, t, thread[n][t])
           /\ t = Main => MainOK(n, thread[n][t])
           /\ t # Main => InboxOK(n, thread[n][t])
  BY DEF NetworkInvariant, ThreadsOK, LocalOK

LEMMA IdleOK == \A n \in Nodes : \A t : LocalOK(n, t, Idle)
  BY DEF LocalOK, MainOK, InboxOK, Idle, Locals

LEMMA TerminateKeeps ==
    ASSUME NetworkInvariant, NEW n \in Nodes, Terminate(n), UNCHANGED nodeVars
    PROVE  NetworkInvariant'
  <1> USE DEF Terminate, NetworkInvariant
  <1>1. HistoryKept /\ HistoryOK' /\ OnlyAddressees'
    BY HistoryStays DEF nodeVars, historyVars
  <1>2. QueuesOK'
    <2>1. \A m \in Nodes : \A x \in Messages : InFlight(m, x) => InFlight(m, x)'
      BY <1>1, InFlightStays
    <2>2. \A m \in Nodes : \A i \in 1..Len(incoming_messages[m]) : incoming_messages[m][i] \in Messages
      BY DEF QueuesOK
    <2>3. incoming_messages' \in [Nodes -> Seq(Messages)]
      BY DEF QueuesOK
    <2>4. ASSUME NEW m \in Nodes, NEW i \in 1..Len(incoming_messages'[m])
          PROVE  InFlight(m, incoming_messages[m][i])'
      <3>1. CASE m = n
        BY <2>4, <3>1 DEF QueuesOK
      <3>2. CASE m # n
        BY <2>1, <2>2, <2>4, <3>2 DEF QueuesOK
      <3> QED
        BY <3>1, <3>2
    <2> QED
      BY <2>3, <2>4 DEF QueuesOK
  <1>3. ThreadsOK'
    <2>1. \A t : LocalOK(n, t, [Idle EXCEPT !.pc = "off"])'
      BY DEF LocalOK, MainOK, InboxOK, Idle, Locals
    <2>2. \A m \in Nodes : \A s : \A x \in Locals : LocalOK(m, s, x) => LocalOK(m, s, x)'
      BY <1>1, LocalStays, NetworkAssumption
    <2>3. NoThread(n) \in [Threads(n) -> Locals]
      BY DEF NoThread, Idle, Locals
    <2>4. ASSUME NEW m \in Nodes
          PROVE  /\ thread'[m] \in [Threads(m) -> Locals]
                 /\ \A s \in Threads(m) : LocalOK(m, s, thread[m][s])'
      <3>1. CASE m = n
        BY <2>1, <2>3, <3>1 DEF ThreadsOK, NoThread
      <3>2. CASE m # n
        BY <2>2, <3>2 DEF ThreadsOK
      <3> QED
        BY <3>1, <3>2
    <2> QED
      BY <2>4 DEF ThreadsOK, Threads
  <1>4. MutexOK'
    BY DEF MutexOK, ThreadsOK, NoThread, Idle, Threads
  <1>5. SetsOK'
    BY DEF SetsOK, nodeVars
  <1> QED
    BY <1>1, <1>2, <1>3, <1>4, <1>5

\* A step that does not touch the locks, and begins no loop over the peers.
LEMMA MutexStep ==
    ASSUME NetworkInvariant, UNCHANGED peers_mutex,
           NEW n \in Nodes, NEW t \in Threads(n), NEW l,
           thread' = [thread EXCEPT ![n][t] = l],
           l.pc = "calling" => thread[n][t].pc = "calling"
    PROVE  MutexOK'
  <1> USE DEF NetworkInvariant, ThreadsOK, MutexOK
  <1>1. ASSUME NEW m \in Nodes, NEW s \in Threads(m)
        PROVE  thread'[m][s] = IF m = n /\ s = t THEN l ELSE thread[m][s]
    OBVIOUS
  <1> QED
    BY <1>1 DEF Threads

LEMMA LockKeeps ==
    ASSUME NetworkInvariant, NEW n \in Nodes, NEW t \in Threads(n), Lock(n, t),
           UNCHANGED nodeVars
    PROVE  NetworkInvariant'
  <1> DEFINE m == thread[n][t].message
             l == IF t = Main
                  THEN [thread[n][t] EXCEPT !.pc = "calling", !.targets = peers[n]]
                  ELSE [thread[n][t] EXCEPT !.pc = "calling",
                                            !.targets = Targets(n, m),
                                            !.message = Visited(n, m)]
  <1>1. /\ thread' = [thread EXCEPT ![n][t] = l]
        /\ thread[n][t].pc = "locking"
        /\ peers_mutex[n] = NULL /\ peers_mutex' = [peers_mutex EXCEPT ![n] = t]
        /\ UNCHANGED <<peers, grpc_stub, incoming_messages, listening, down, lost>>
    BY DEF Lock, At
  <1>2. peers[n] \subseteq Nodes
    BY DEF NetworkInvariant, SetsOK
  <1>3. LocalOK(n, t, l)
    <2>1. CASE t = Main
      <3>1. /\ m \in Messages /\ m.is_broadcast /\ InFlight(n, m)
            /\ thread[n][t] \in Locals
        BY <1>1, <2>1, OneLocal DEF MainOK
      <3>2. l = [pc |-> "calling", message |-> m, targets |-> peers[n],
                 contexts |-> thread[n][t].contexts]
        BY <2>1, <3>1 DEF Locals
      <3> HIDE DEF l, m
      <3> QED
        BY <1>2, <2>1, <3>1, <3>2 DEF LocalOK, MainOK, Locals
    <2>2. CASE t # Main
      <3>1. /\ m \in Messages /\ m.is_broadcast /\ InFlight(n, m) /\ n \in recipients[m.id]
            /\ thread[n][t] \in Locals
        BY <1>1, <2>2, OneLocal DEF InboxOK
      <3>2. /\ Visited(n, m) \in Messages /\ Visited(n, m).id = m.id
            /\ Visited(n, m).is_broadcast
            /\ Visited(n, m).visited_recipients = m.visited_recipients \cup {n}
        BY <3>1 DEF Visited, Messages
      <3>3. InFlight(n, Visited(n, m))
        BY <3>1, <3>2 DEF InFlight
      <3>4. l = [pc |-> "calling", message |-> Visited(n, m), targets |-> Targets(n, m),
                 contexts |-> thread[n][t].contexts]
        BY <2>2, <3>1 DEF Locals
      <3> HIDE DEF l, m
      <3> QED
        BY <1>2, <2>2, <3>1, <3>2, <3>3, <3>4 DEF LocalOK, InboxOK, Locals, Targets
    <2> QED
      BY <2>1, <2>2
  <1> HIDE DEF l
  <1>4. ThreadsOK' /\ HistoryOK' /\ OnlyAddressees'
    BY <1>1, <1>3, ThreadStep DEF nodeVars, historyVars
  <1>5. QueuesOK'
    BY <1>1, QueuesStay, HistoryStays DEF NetworkInvariant, nodeVars, historyVars
  <1>6. MutexOK'
    <2>1. ASSUME NEW p \in Nodes, NEW s \in Threads(p)
          PROVE  thread'[p][s] = IF p = n /\ s = t THEN l ELSE thread[p][s]
      BY <1>1 DEF NetworkInvariant, ThreadsOK
    <2> QED
      BY <1>1, <2>1, BrokerAssumption DEF NetworkInvariant, MutexOK, Threads
  <1>7. SetsOK'
    BY <1>1 DEF NetworkInvariant, SetsOK, nodeVars
  <1> QED
    BY <1>4, <1>5, <1>6, <1>7 DEF NetworkInvariant

LEMMA UnlockKeeps ==
    ASSUME NetworkInvariant, NEW n \in Nodes, NEW t \in Threads(n), Unlock(n, t),
           UNCHANGED nodeVars
    PROVE  NetworkInvariant'
  <1> DEFINE l == IF t = Main THEN Idle ELSE [thread[n][t] EXCEPT !.pc = "acting"]
  <1>1. /\ thread' = [thread EXCEPT ![n][t] = l]
        /\ thread[n][t].pc = "calling"
        /\ peers_mutex' = [peers_mutex EXCEPT ![n] = NULL]
        /\ UNCHANGED <<peers, grpc_stub, incoming_messages, listening, down, lost>>
    BY DEF Unlock, At
  <1>2. LocalOK(n, t, l) /\ l.pc # "calling"
    <2>1. CASE t = Main
      BY <2>1, IdleOK DEF Idle
    <2>2. CASE t # Main
      BY <1>1, <2>2, OneLocal DEF LocalOK, InboxOK, Locals
    <2> QED
      BY <2>1, <2>2
  <1> HIDE DEF l
  <1>3. ThreadsOK' /\ HistoryOK' /\ OnlyAddressees'
    BY <1>1, <1>2, ThreadStep DEF nodeVars, historyVars
  <1>4. QueuesOK'
    BY <1>1, QueuesStay, HistoryStays DEF NetworkInvariant, nodeVars, historyVars
  <1>5. MutexOK'
    <2>1. ASSUME NEW p \in Nodes, NEW s \in Threads(p)
          PROVE  thread'[p][s] = IF p = n /\ s = t THEN l ELSE thread[p][s]
      BY <1>1 DEF NetworkInvariant, ThreadsOK
    <2> QED
      BY <1>1, <1>2, <2>1 DEF NetworkInvariant, MutexOK, Threads
  <1>6. SetsOK'
    BY <1>1 DEF NetworkInvariant, SetsOK, nodeVars
  <1> QED
    BY <1>3, <1>4, <1>5, <1>6 DEF NetworkInvariant

\* A message that is queued at a node it may go to.
LEMMA AppendKeeps ==
    ASSUME QueuesOK, HistoryKept, NEW p \in Nodes, NEW m \in Messages, InFlight(p, m),
           incoming_messages' = [incoming_messages EXCEPT ![p] = Append(@, m)]
    PROVE  QueuesOK'
  <1>1. \A n \in Nodes : \A x \in Messages : InFlight(n, x) => InFlight(n, x)'
    BY InFlightStays
  <1>2. incoming_messages' \in [Nodes -> Seq(Messages)]
    BY DEF QueuesOK
  <1>3. ASSUME NEW n \in Nodes, NEW i \in 1..Len(incoming_messages'[n])
        PROVE  InFlight(n, incoming_messages[n][i])'
    <2>1. CASE n = p
      <3>1. incoming_messages[p] \in Seq(Messages) /\ incoming_messages'[p] = Append(incoming_messages[p], m)
        BY DEF QueuesOK
      <3>2. CASE i = Len(incoming_messages[p]) + 1
        BY <1>1, <2>1, <3>1, <3>2
      <3>3. CASE i \in 1..Len(incoming_messages[p])
        BY <1>1, <2>1, <3>1, <3>3 DEF QueuesOK
      <3> QED
        BY <1>3, <2>1, <3>1, <3>2, <3>3
    <2>2. CASE n # p
      <3>1. incoming_messages'[n] = incoming_messages[n] /\ incoming_messages[n] \in Seq(Messages)
        BY <2>2 DEF QueuesOK
      <3> QED
        BY <1>1, <1>3, <3>1 DEF QueuesOK
    <2> QED
      BY <2>1, <2>2
  <1> QED
    BY <1>2, <1>3 DEF QueuesOK

LEMMA CallEffect ==
    ASSUME NEW l \in Locals, NEW x, NEW c
    PROVE  [l EXCEPT !.targets = x, !.contexts = c]
             = [pc |-> l.pc, message |-> l.message, targets |-> x, contexts |-> c]
  <1>1. [l EXCEPT !.targets = x, !.contexts = c]
          = [[l EXCEPT !.targets = x] EXCEPT !.contexts = c]
    BY Zenon
  <1>2. [l EXCEPT !.targets = x]
          = [pc |-> l.pc, message |-> l.message, targets |-> x, contexts |-> l.contexts]
    BY DEF Locals
  <1>3. [[pc |-> l.pc, message |-> l.message, targets |-> x, contexts |-> l.contexts]
               EXCEPT !.contexts = c]
          = [pc |-> l.pc, message |-> l.message, targets |-> x, contexts |-> c]
    OBVIOUS
  <1> QED
    BY <1>1, <1>2, <1>3, Zenon

LEMMA CallKeeps ==
    ASSUME NetworkInvariant, NEW n \in Nodes, NEW t \in Threads(n), CallPeer(n, t),
           UNCHANGED nodeVars
    PROVE  NetworkInvariant'
  <1> DEFINE local == thread[n][t]
  <1>1. PICK p \in local.targets \cap grpc_stub[n] :
          /\ RemoteCall(p, local.message)
          /\ thread' = [thread EXCEPT ![n][t] =
                [local EXCEPT !.targets = local.targets \ {p},
                              !.contexts = IF local.contexts = 0 THEN 0
                                           ELSE local.contexts - 1]]
    BY DEF CallPeer
  <1>2. local.pc \in {"calling", "sending"} /\ UNCHANGED <<peers, grpc_stub, peers_mutex, listening, down>>
    BY DEF CallPeer, At
  <1>3. local \in Locals
    BY OneLocal
  <1>4. p \in Nodes
    BY <1>3 DEF Locals
  <1> DEFINE l == [pc |-> local.pc, message |-> local.message, targets |-> local.targets \ {p},
                   contexts |-> IF local.contexts = 0 THEN 0 ELSE local.contexts - 1]
  <1>5. thread' = [thread EXCEPT ![n][t] = l]
    <2>1. [local EXCEPT !.targets = local.targets \ {p},
                        !.contexts = IF local.contexts = 0 THEN 0
                                     ELSE local.contexts - 1] = l
      BY <1>3, CallEffect
    <2> QED
      BY <1>1, <2>1
  <1>6. LocalOK(n, t, l)
    <2>1. l \in Locals
      BY <1>3 DEF Locals
    <2>2. t = Main => MainOK(n, l)
      BY <1>2, OneLocal DEF MainOK
    <2>3. t # Main => InboxOK(n, l)
      BY <1>2, OneLocal DEF InboxOK
    <2> HIDE DEF l
    <2> QED
      BY <2>1, <2>2, <2>3 DEF LocalOK
  <1>7. local.message \in Messages /\ InFlight(p, local.message)
    <2>1. CASE t = Main
      BY <1>1, <1>2, <2>1, OneLocal DEF MainOK, InFlight
    <2>2. CASE t # Main
      BY <1>1, <1>2, <2>2, OneLocal DEF InboxOK, InFlight
    <2> QED
      BY <2>1, <2>2
  <1>8. l.pc = "calling" => thread[n][t].pc = "calling"
    OBVIOUS
  <1> HIDE DEF l
  <1>9. ThreadsOK' /\ HistoryOK' /\ OnlyAddressees'
    BY <1>5, <1>6, ThreadStep DEF nodeVars, historyVars
  <1>10. QueuesOK'
    <2>1. HistoryKept
      BY HistoryStays DEF NetworkInvariant, nodeVars, historyVars
    <2> QED
      BY <1>1, <1>4, <1>7, <2>1, AppendKeeps, QueuesStay DEF RemoteCall, NetworkInvariant
  <1>11. MutexOK'
    BY <1>2, <1>5, <1>8, MutexStep
  <1>12. SetsOK'
    BY <1>1, <1>2, <1>7 DEF NetworkInvariant, SetsOK, nodeVars, RemoteCall, Messages
  <1> QED
    BY <1>9, <1>10, <1>11, <1>12 DEF NetworkInvariant

LEMMA DequeueKeeps ==
    ASSUME NetworkInvariant, NEW n \in Nodes, NEW t \in Threads(n), t # Main, Dequeue(n, t),
           UNCHANGED nodeVars
    PROVE  NetworkInvariant'
  <1> DEFINE m == Head(incoming_messages[n])
             l == IF m.is_broadcast /\ n \in m.visited_recipients THEN Idle
                  ELSE [pc |-> IF m.is_broadcast THEN "locking" ELSE "acting",
                        message |-> m, targets |-> {}, contexts |-> 1]
  <1>1. /\ thread' = [thread EXCEPT ![n][t] = l]
        /\ incoming_messages[n] # <<>>
        /\ incoming_messages' = [incoming_messages EXCEPT ![n] = Tail(@)]
        /\ UNCHANGED <<peers, grpc_stub, peers_mutex, listening, down, lost>>
    BY DEF Dequeue
  <1>2. incoming_messages[n] \in Seq(Messages)
    BY DEF NetworkInvariant, QueuesOK
  <1>3. m = incoming_messages[n][1] /\ 1 \in 1..Len(incoming_messages[n]) /\ m \in Messages
    BY <1>1, <1>2
  <1>4. InFlight(n, m)
    BY <1>3 DEF NetworkInvariant, QueuesOK
  <1>5. LocalOK(n, t, l) /\ l.pc # "calling"
    <2>1. CASE m.is_broadcast /\ n \in m.visited_recipients
      BY <2>1, IdleOK DEF Idle
    <2>2. CASE m.is_broadcast /\ n \notin m.visited_recipients
      <3>1. n \in recipients[m.id]
        BY <1>4, <2>2 DEF InFlight
      <3>2. l = [pc |-> "locking", message |-> m, targets |-> {}, contexts |-> 1]
        BY <2>2
      <3> HIDE DEF l, m
      <3> QED
        BY <1>3, <1>4, <2>2, <3>1, <3>2 DEF LocalOK, InboxOK, Locals
    <2>3. CASE ~ m.is_broadcast
      <3>1. n \in recipients[m.id]
        BY <1>4, <2>3 DEF InFlight
      <3>2. l = [pc |-> "acting", message |-> m, targets |-> {}, contexts |-> 1]
        BY <2>3
      <3> HIDE DEF l, m
      <3> QED
        BY <1>3, <1>4, <2>3, <3>1, <3>2 DEF LocalOK, InboxOK, Locals
    <2> QED
      BY <2>1, <2>2, <2>3
  <1> HIDE DEF l, m
  <1>6. ThreadsOK' /\ HistoryOK' /\ OnlyAddressees'
    BY <1>1, <1>5, ThreadStep DEF nodeVars, historyVars
  <1>7. QueuesOK'
    <2>1. HistoryKept
      BY HistoryStays DEF NetworkInvariant, nodeVars, historyVars
    <2>2. \A p \in Nodes : \A x \in Messages : InFlight(p, x) => InFlight(p, x)'
      BY <2>1, InFlightStays
    <2>3. incoming_messages' \in [Nodes -> Seq(Messages)]
      BY <1>1, <1>2 DEF NetworkInvariant, QueuesOK
    <2>4. ASSUME NEW p \in Nodes, NEW i \in 1..Len(incoming_messages'[p])
          PROVE  InFlight(p, incoming_messages[p][i])'
      <3>1. incoming_messages[p] \in Seq(Messages)
        BY DEF NetworkInvariant, QueuesOK
      <3>2. CASE p = n
        <4>1. /\ incoming_messages'[n] = Tail(incoming_messages[n])
              /\ i + 1 \in 1..Len(incoming_messages[n])
              /\ incoming_messages'[n][i] = incoming_messages[n][i + 1]
          BY <1>1, <1>2, <2>4, <3>2 DEF NetworkInvariant, QueuesOK
        <4> QED
          BY <1>2, <2>2, <3>2, <4>1 DEF NetworkInvariant, QueuesOK
      <3>3. CASE p # n
        <4>1. incoming_messages'[p] = incoming_messages[p]
          BY <1>1, <3>3 DEF NetworkInvariant, QueuesOK
        <4> QED
          BY <2>2, <2>4, <3>1, <4>1 DEF NetworkInvariant, QueuesOK
      <3> QED
        BY <3>2, <3>3
    <2> QED
      BY <2>3, <2>4 DEF QueuesOK
  <1>8. MutexOK'
    BY <1>1, <1>5, MutexStep
  <1>9. SetsOK'
    BY <1>1 DEF NetworkInvariant, SetsOK, nodeVars
  <1> QED
    BY <1>6, <1>7, <1>8, <1>9 DEF NetworkInvariant

LEMMA AddPeerKeeps ==
    ASSUME NetworkInvariant, NEW n \in Nodes, NEW t \in Threads(n), AddPeer(n, t),
           UNCHANGED nodeVars
    PROVE  NetworkInvariant'
  <1> DEFINE local == thread[n][t]
             l == [pc |-> "inserting", message |-> local.message,
                   targets |-> local.targets, contexts |-> local.contexts]
  <1>1. local \in Locals
    BY OneLocal
  <1>2. /\ thread' = [thread EXCEPT ![n][t] = [local EXCEPT !.pc = "inserting"]]
        /\ peers' = [peers EXCEPT ![n] = @ \cup local.targets]
        /\ UNCHANGED <<grpc_stub, peers_mutex, incoming_messages, listening, down, lost>>
    BY DEF AddPeer
  <1>3. [local EXCEPT !.pc = "inserting"] = l
    BY <1>1 DEF Locals
  <1>4. thread' = [thread EXCEPT ![n][t] = l]
    BY <1>2, <1>3
  <1>5. LocalOK(n, t, l) /\ l.pc # "calling"
    BY <1>1 DEF LocalOK, MainOK, InboxOK, Locals
  <1>6. local.targets \subseteq Nodes
    BY <1>1 DEF Locals
  <1> HIDE DEF l
  <1>7. ThreadsOK' /\ HistoryOK' /\ OnlyAddressees'
    BY <1>4, <1>5, ThreadStep DEF nodeVars, historyVars
  <1>8. QueuesOK'
    BY <1>2, QueuesStay, HistoryStays DEF NetworkInvariant, nodeVars, historyVars
  <1>9. MutexOK'
    <2>1. UNCHANGED peers_mutex /\ (l.pc = "calling" => thread[n][t].pc = "calling")
      BY <1>2, <1>5
    <2> QED
      BY <1>4, <2>1, MutexStep
  <1>10. SetsOK'
    BY <1>2, <1>6 DEF NetworkInvariant, SetsOK, nodeVars
  <1> QED
    BY <1>7, <1>8, <1>9, <1>10 DEF NetworkInvariant

LEMMA InsertStubKeeps ==
    ASSUME NetworkInvariant, NEW n \in Nodes, NEW t \in Threads(n), InsertStub(n, t),
           UNCHANGED nodeVars
    PROVE  NetworkInvariant'
  <1>1. /\ thread' = [thread EXCEPT ![n][t] = Idle]
        /\ \/ grpc_stub' = [grpc_stub EXCEPT ![n] = @ \cup thread[n][t].targets]
           \/ UNCHANGED grpc_stub
        /\ UNCHANGED <<peers, peers_mutex, incoming_messages, listening, down, lost>>
    BY DEF InsertStub
  <1>2. thread[n][t].targets \subseteq Nodes
    BY OneLocal DEF Locals
  <1>3. ThreadsOK' /\ HistoryOK' /\ OnlyAddressees'
    BY <1>1, IdleOK, ThreadStep DEF nodeVars, historyVars
  <1>4. QueuesOK'
    BY <1>1, QueuesStay, HistoryStays DEF NetworkInvariant, nodeVars, historyVars
  <1>5. MutexOK'
    <2>1. Idle.pc # "calling"
      BY DEF Idle
    <2> QED
      BY <1>1, <2>1, MutexStep
  <1>6. SetsOK'
    BY <1>1, <1>2 DEF NetworkInvariant, SetsOK, nodeVars
  <1> QED
    BY <1>3, <1>4, <1>5, <1>6 DEF NetworkInvariant

LEMMA MainKeeps ==
    ASSUME NetworkInvariant, NEW n \in Nodes, MainStep(n), UNCHANGED nodeVars
    PROVE  NetworkInvariant'
  <1> DEFINE local == thread[n][Main]
             checked == [pc |-> "sending", message |-> local.message,
                         targets |-> local.targets, contexts |-> local.contexts]
  <1>1. Main \in Threads(n) /\ local \in Locals /\ MainOK(n, local)
    BY OneLocal DEF Threads
  <1>2. [local EXCEPT !.pc = "sending"] = checked
    BY <1>1 DEF Locals
  <1>3. Idle.pc # "calling"
    BY DEF Idle
  <1>4. CASE SendChecked(n)
    <2>1. /\ thread' = [thread EXCEPT ![n][Main] = checked] /\ local.pc = "checking"
          /\ UNCHANGED <<peers, grpc_stub, peers_mutex, incoming_messages, listening,
                         down, lost>>
      BY <1>2, <1>4 DEF SendChecked, At
    <2>2. LocalOK(n, Main, checked) /\ checked.pc # "calling"
      BY <1>1, <2>1 DEF LocalOK, MainOK, Locals
    <2> HIDE DEF checked
    <2>3. ThreadsOK' /\ HistoryOK' /\ OnlyAddressees'
      BY <1>1, <2>1, <2>2, ThreadStep DEF nodeVars, historyVars
    <2>4. QueuesOK'
      BY <2>1, QueuesStay, HistoryStays DEF NetworkInvariant, nodeVars, historyVars
    <2>5. MutexOK'
      BY <1>1, <2>1, <2>2, MutexStep
    <2>6. SetsOK'
      BY <2>1 DEF NetworkInvariant, SetsOK, nodeVars
    <2> QED
      BY <2>3, <2>4, <2>5, <2>6 DEF NetworkInvariant
  <1>5. CASE SendThrows(n)
    <2>1. /\ thread' = [thread EXCEPT ![n][Main] = Idle]
          /\ peers_mutex[n] = NULL
          /\ peers_mutex' = [peers_mutex EXCEPT ![n] = Main]
          /\ UNCHANGED <<peers, grpc_stub, incoming_messages, listening, down, lost>>
      BY <1>5 DEF SendThrows
    <2>2. ThreadsOK' /\ HistoryOK' /\ OnlyAddressees'
      BY <1>1, <2>1, IdleOK, ThreadStep DEF nodeVars, historyVars
    <2>3. QueuesOK'
      BY <2>1, QueuesStay, HistoryStays DEF NetworkInvariant, nodeVars, historyVars
    <2>4. MutexOK'
      <3>1. ASSUME NEW p \in Nodes, NEW s \in Threads(p)
            PROVE  thread'[p][s] = IF p = n /\ s = Main THEN Idle ELSE thread[p][s]
        BY <2>1 DEF NetworkInvariant, ThreadsOK
      <3> QED
        BY <1>1, <1>3, <2>1, <3>1, BrokerAssumption DEF NetworkInvariant, MutexOK, Threads
    <2>5. SetsOK'
      BY <2>1 DEF NetworkInvariant, SetsOK, nodeVars
    <2> QED
      BY <2>2, <2>3, <2>4, <2>5 DEF NetworkInvariant
  <1>6. CASE SendReturns(n)
    <2>1. /\ thread' = [thread EXCEPT ![n][Main] = Idle]
          /\ UNCHANGED <<peers, grpc_stub, peers_mutex, incoming_messages, listening,
                         down, lost>>
      BY <1>6 DEF SendReturns
    <2>2. ThreadsOK' /\ HistoryOK' /\ OnlyAddressees'
      BY <1>1, <2>1, IdleOK, ThreadStep DEF nodeVars, historyVars
    <2>3. QueuesOK'
      BY <2>1, QueuesStay, HistoryStays DEF NetworkInvariant, nodeVars, historyVars
    <2>4. MutexOK'
      BY <1>1, <1>3, <2>1, MutexStep
    <2>5. SetsOK'
      BY <2>1 DEF NetworkInvariant, SetsOK, nodeVars
    <2> QED
      BY <2>2, <2>3, <2>4, <2>5 DEF NetworkInvariant
  <1> QED
    BY <1>4, <1>5, <1>6 DEF MainStep
-----------------------------------------------------------------------------
(* The operations that issue a message, and the steps of the node           *)

LEMMA IssueKeeps ==
    ASSUME NetworkInvariant, NEW n \in Nodes, NEW id \in Ids, NEW addressees, NEW reachable,
           Issue(n, id, addressees, reachable),
           reachable \subseteq addressees, addressees \subseteq Nodes \ {n}
    PROVE  /\ HistoryKept /\ HistoryOK' /\ OnlyAddressees' /\ QueuesOK'
           /\ origin'[id] = n /\ recipients'[id] = addressees
  <1>1. /\ origin[id] = NULL
        /\ origin' = [origin EXCEPT ![id] = n]
        /\ recipients' = [recipients EXCEPT ![id] = addressees]
        /\ audience' = [audience EXCEPT ![id] = reachable]
        /\ UNCHANGED <<handled, incoming_messages>>
    BY DEF Issue
  <1>2. underway' \in 0..MaxOverlap
    <2>1. underway < MaxOverlap => underway + 1 \in 0..MaxOverlap
      BY NetworkAssumption DEF NetworkInvariant, HistoryOK
    <2>2. 1 \in 0..MaxOverlap
      BY NetworkAssumption
    <2> QED
      BY <2>1, <2>2 DEF Issue
  <1>3. hurried' \in BOOLEAN
    BY DEF Issue
  <1>4. origin[id] \notin Nodes
    BY <1>1, NetworkAssumption
  <1>5. HistoryKept
    BY <1>1, <1>4 DEF HistoryKept, NetworkInvariant, HistoryOK
  <1>6. HistoryOK'
    BY <1>1, <1>2, <1>3 DEF NetworkInvariant, HistoryOK
  <1>7. recipients[id] = {}
    BY <1>4 DEF NetworkInvariant, HistoryOK
  <1>8. OnlyAddressees'
    BY <1>1, <1>7 DEF NetworkInvariant, HistoryOK, OnlyAddressees
  <1>9. QueuesOK'
    BY <1>1, <1>5, QueuesStay DEF NetworkInvariant
  <1> QED
    BY <1>1, <1>5, <1>6, <1>8, <1>9 DEF NetworkInvariant, HistoryOK

LEMMA JoinKeeps ==
    ASSUME NetworkInvariant, NEW n \in Nodes, JoinNetwork(n)
    PROVE  NetworkInvariant'
  <1>1. n \in Ids
    BY NetworkAssumption
  <1>2. /\ Issue(n, n, Nodes \ {n}, Reachable(n))
        /\ thread' = [thread EXCEPT ![n] = ThreadsStarted(n)]
        /\ leader_id' = [leader_id EXCEPT ![n] = Vote[n]]
        /\ UNCHANGED <<peers, grpc_stub, peers_mutex, listening, down, lost>>
    BY DEF JoinNetwork, Issue
  <1>3. Reachable(n) \subseteq Nodes \ {n}
    BY DEF Reachable
  <1>4. /\ HistoryKept /\ HistoryOK' /\ OnlyAddressees' /\ QueuesOK'
        /\ origin'[n] = n /\ recipients'[n] = Nodes \ {n}
    BY <1>1, <1>2, <1>3, IssueKeeps
  <1>5. ThreadsOK'
    <2>1. \A m \in Nodes : \A s : \A x \in Locals : LocalOK(m, s, x) => LocalOK(m, s, x)'
      BY <1>4, LocalStays, NetworkAssumption
    <2>2. \A s : LocalOK(n, s, Idle)'
      BY <2>1, IdleOK DEF LocalOK
    <2>3. [Idle EXCEPT !.pc = "announcing"]
             = [pc |-> "announcing", message |-> NULL, targets |-> {}, contexts |-> 0]
      BY DEF Idle
    <2>4. LocalOK(n, Main, [Idle EXCEPT !.pc = "announcing"])'
      BY <1>4, <2>3 DEF LocalOK, MainOK, Locals
    <2>5. ThreadsStarted(n) \in [Threads(n) -> Locals]
      BY <2>2, <2>4 DEF ThreadsStarted, LocalOK
    <2>6. ASSUME NEW m \in Nodes
          PROVE  /\ thread'[m] \in [Threads(m) -> Locals]
                 /\ \A s \in Threads(m) : LocalOK(m, s, thread[m][s])'
      <3>1. CASE m = n
        BY <1>2, <2>2, <2>4, <2>5, <3>1 DEF NetworkInvariant, ThreadsOK, ThreadsStarted
      <3>2. CASE m # n
        BY <1>2, <2>1, <3>2 DEF NetworkInvariant, ThreadsOK
      <3> QED
        BY <3>1, <3>2
    <2> QED
      BY <1>2, <2>6 DEF NetworkInvariant, ThreadsOK, Threads
  <1>6. MutexOK'
    <2>1. \A s \in Threads(n) : thread'[n][s].pc # "calling"
      BY <1>2 DEF NetworkInvariant, ThreadsOK, ThreadsStarted, Idle
    <2>2. \A m \in Nodes \ {n} : thread'[m] = thread[m]
      BY <1>2 DEF NetworkInvariant, ThreadsOK
    <2> QED
      BY <1>2, <2>1, <2>2 DEF NetworkInvariant, MutexOK, Threads
  <1>7. SetsOK'
    BY <1>2 DEF NetworkInvariant, SetsOK
  <1> QED
    BY <1>4, <1>5, <1>6, <1>7 DEF NetworkInvariant

LEMMA ContextsCounted ==
    ASSUME NetworkInvariant, NEW n \in Nodes
    PROVE  ContextsFor(n) \in Nat
  <1>1. peers[n] \subseteq Nodes
    BY DEF NetworkInvariant, SetsOK
  <1>2. IsFiniteSet(peers[n])
    BY <1>1, BrokerAssumption, FS_Subset
  <1> QED
    BY <1>2, FS_CardinalityType DEF ContextsFor

\* What Main has to do after broadcast of a message that n issued.
LEMMA BroadcastOK ==
    ASSUME NetworkInvariant, NEW n \in Nodes, NEW id \in Ids,
           BroadcastBegins(n, id),
           HistoryKept, origin'[id] = n, recipients'[id] = Nodes \ {n},
           UNCHANGED peers_mutex
    PROVE  ThreadsOK' /\ MutexOK'
  <1> DEFINE new == [pc |-> "locking", message |-> Broadcasting(n, id),
                     targets |-> {}, contexts |-> ContextsFor(n)]
  <1>1. PICK l : l = IF peers[n] = {} THEN Idle ELSE new
    OBVIOUS
  <1>2. thread' = [thread EXCEPT ![n][Main] = l]
    BY <1>1 DEF BroadcastBegins
  <1>3. Main \in Threads(n)
    BY DEF Threads
  <1>4. LocalOK(n, Main, l)' /\ l.pc # "calling"
    <2>1. CASE peers[n] = {}
      <3>1. l = Idle
        BY <1>1, <2>1
      <3> QED
        BY <3>1, LocalStays, IdleOK, NetworkAssumption DEF LocalOK, Idle
    <2>2. CASE peers[n] # {}
      <3>1. /\ l.pc = "locking" /\ l.message = Broadcasting(n, id)
            /\ l = [pc |-> "locking", message |-> l.message, targets |-> {},
                    contexts |-> l.contexts]
            /\ l.contexts \in Nat
        BY <1>1, <2>2, ContextsCounted
      <3>2. /\ l.message \in Messages /\ l.message.is_broadcast
            /\ l.message.id = id /\ l.message.visited_recipients = {n}
        BY <3>1 DEF Broadcasting, Messages
      <3>3. InFlight(n, l.message)'
        BY <3>2 DEF InFlight
      <3>4. l \in Locals
        BY <3>1, <3>2 DEF Locals
      <3> QED
        BY <3>1, <3>2, <3>3, <3>4 DEF LocalOK, MainOK
    <2> QED
      BY <2>1, <2>2
  <1>5. ThreadsOK'
    BY <1>2, <1>3, <1>4, OneThread DEF NetworkInvariant
  <1> QED
    BY <1>2, <1>3, <1>4, <1>5, MutexStep

LEMMA BroadcastKeeps ==
    ASSUME NetworkInvariant, NEW n \in Nodes, NEW id \in Calls, Broadcast(n, id)
    PROVE  NetworkInvariant'
  <1>1. /\ Issue(n, id, Nodes \ {n}, Reachable(n)) /\ BroadcastBegins(n, id)
        /\ UNCHANGED <<peers, grpc_stub, peers_mutex, listening, down, lost, leader_id>>
    BY DEF Broadcast, Issue
  <1>2. id \in Ids /\ Reachable(n) \subseteq Nodes \ {n}
    BY NetworkAssumption DEF Reachable
  <1>3. /\ HistoryKept /\ HistoryOK' /\ OnlyAddressees' /\ QueuesOK'
        /\ origin'[id] = n /\ recipients'[id] = Nodes \ {n}
    BY <1>1, <1>2, IssueKeeps
  <1>4. ThreadsOK' /\ MutexOK'
    BY <1>1, <1>2, <1>3, BroadcastOK
  <1>5. SetsOK'
    BY <1>1 DEF NetworkInvariant, SetsOK
  <1> QED
    BY <1>3, <1>4, <1>5 DEF NetworkInvariant

LEMMA AnnounceKeeps ==
    ASSUME NetworkInvariant, NEW n \in Nodes, Announce(n)
    PROVE  NetworkInvariant'
  <1>1. /\ BroadcastBegins(n, n) /\ thread[n][Main].pc = "announcing"
        /\ UNCHANGED <<peers, grpc_stub, peers_mutex, incoming_messages, listening,
                       down, lost, nodeVars>>
    BY DEF Announce, At
  <1>2. Main \in Threads(n) /\ n \in Ids
    BY NetworkAssumption DEF Threads
  <1>3. HistoryKept /\ HistoryOK' /\ OnlyAddressees'
    BY <1>1, HistoryStays DEF NetworkInvariant, nodeVars, historyVars
  <1>4. origin'[n] = n /\ recipients'[n] = Nodes \ {n}
    BY <1>1, <1>2, OneLocal DEF MainOK, nodeVars
  <1>5. ThreadsOK' /\ MutexOK'
    BY <1>1, <1>2, <1>3, <1>4, BroadcastOK
  <1>6. QueuesOK'
    BY <1>1, <1>3, QueuesStay DEF NetworkInvariant
  <1>7. SetsOK'
    BY <1>1 DEF NetworkInvariant, SetsOK, nodeVars
  <1> QED
    BY <1>3, <1>5, <1>6, <1>7 DEF NetworkInvariant

LEMMA SendKeeps ==
    ASSUME NetworkInvariant, NEW n \in Nodes, NEW id \in Calls,
           NEW recipient \in Nodes \ {n}, Send(n, id, recipient)
    PROVE  NetworkInvariant'
  <1> DEFINE l == [pc |-> "checking", message |-> Sending(id),
                   targets |-> {recipient}, contexts |-> 1]
  <1>1. /\ Issue(n, id, {recipient}, {recipient} \cap peers[n])
        /\ thread' = [thread EXCEPT ![n][Main] = l]
        /\ UNCHANGED <<peers, grpc_stub, peers_mutex, listening, down, lost, leader_id>>
    BY DEF Send, SendBegins, Issue
  <1>2. id \in Ids /\ Main \in Threads(n)
    BY NetworkAssumption DEF Threads
  <1>3. /\ HistoryKept /\ HistoryOK' /\ OnlyAddressees' /\ QueuesOK'
        /\ origin'[id] = n /\ recipients'[id] = {recipient}
    BY <1>1, <1>2, IssueKeeps
  <1>4. LocalOK(n, Main, l)'
    <2>1. Sending(id) \in Messages /\ ~ Sending(id).is_broadcast /\ Sending(id).id = id
      BY <1>2 DEF Sending, Messages
    <2>2. l \in Locals
      BY <2>1 DEF Locals
    <2> QED
      BY <1>3, <2>1, <2>2 DEF LocalOK, MainOK
  <1>5. l.pc # "calling"
    OBVIOUS
  <1> HIDE DEF l
  <1>6. ThreadsOK'
    BY <1>1, <1>2, <1>3, <1>4, OneThread DEF NetworkInvariant
  <1>7. MutexOK'
    BY <1>1, <1>2, <1>5, MutexStep
  <1>8. SetsOK'
    BY <1>1 DEF NetworkInvariant, SetsOK
  <1> QED
    BY <1>3, <1>6, <1>7, <1>8 DEF NetworkInvariant

LEMMA UserAddsPeerKeeps ==
    ASSUME NetworkInvariant, NEW n \in Nodes, NEW p \in Nodes, UserAddsPeer(n, p)
    PROVE  NetworkInvariant'
  <1> DEFINE l == [pc |-> "adding", message |-> NULL, targets |-> {p}, contexts |-> 0]
  <1>1. /\ thread' = [thread EXCEPT ![n][Main] =
                          [Idle EXCEPT !.pc = "adding", !.targets = {p}]]
        /\ UNCHANGED <<peers, grpc_stub, peers_mutex, incoming_messages, listening,
                       down, lost, nodeVars>>
    BY DEF UserAddsPeer
  <1>2. [Idle EXCEPT !.pc = "adding", !.targets = {p}]
          = [[Idle EXCEPT !.pc = "adding"] EXCEPT !.targets = {p}]
    BY Zenon
  <1>3. [Idle EXCEPT !.pc = "adding"]
          = [pc |-> "adding", message |-> NULL, targets |-> {}, contexts |-> 0]
    BY DEF Idle
  <1>4. thread' = [thread EXCEPT ![n][Main] = l]
    <2>1. [[pc |-> "adding", message |-> NULL, targets |-> {}, contexts |-> 0]
               EXCEPT !.targets = {p}] = l
      OBVIOUS
    <2>2. [Idle EXCEPT !.pc = "adding", !.targets = {p}] = l
      BY <1>2, <1>3, <2>1, Zenon
    <2> QED
      BY <1>1, <2>2, Zenon
  <1>5. LocalOK(n, Main, l) /\ l.pc # "calling"
    BY DEF LocalOK, MainOK, Locals
  <1>6. Main \in Threads(n)
    BY DEF Threads
  <1> HIDE DEF l
  <1>7. ThreadsOK' /\ HistoryOK' /\ OnlyAddressees'
    BY <1>1, <1>4, <1>5, <1>6, ThreadStep DEF nodeVars, historyVars
  <1>8. QueuesOK'
    BY <1>1, QueuesStay, HistoryStays DEF NetworkInvariant, nodeVars, historyVars
  <1>9. MutexOK'
    BY <1>1, <1>4, <1>5, <1>6, MutexStep
  <1>10. SetsOK'
    BY <1>1 DEF NetworkInvariant, SetsOK, nodeVars
  <1> QED
    BY <1>7, <1>8, <1>9, <1>10 DEF NetworkInvariant

\* The effect of act on the history: one addressee executed the message once more.
LEMMA ActHandles ==
    ASSUME NetworkInvariant, NEW n \in Nodes, NEW t \in Threads(n), Act(n, t)
    PROVE  \E id \in Ids :
             /\ id = thread[n][t].message.id
             /\ t # Main
             /\ origin[id] \in Nodes /\ n \in recipients[id]
             /\ handled' = [handled EXCEPT ![n] = [handled[n] EXCEPT ![id] = handled[n][id] + 1]]
  <1>1. /\ handled' = [handled EXCEPT ![n][thread[n][t].message.id] = @ + 1]
        /\ thread[n][t].pc = "acting"
    BY DEF Act, At
  <1>2. t # Main
    BY <1>1, OneLocal DEF MainOK
  <1>3. /\ thread[n][t].message \in Messages /\ InFlight(n, thread[n][t].message)
        /\ n \in recipients[thread[n][t].message.id]
    BY <1>1, <1>2, OneLocal DEF InboxOK
  <1>4. thread[n][t].message.id \in Ids
    BY <1>3 DEF Messages
  <1> QED
    BY <1>1, <1>2, <1>3, <1>4 DEF InFlight

LEMMA ActKeeps ==
    ASSUME NetworkInvariant, NEW n \in Nodes, NEW t \in Threads(n), Act(n, t)
    PROVE  NetworkInvariant'
  <1>1. PICK id \in Ids :
             /\ id = thread[n][t].message.id
             /\ t # Main
             /\ origin[id] \in Nodes /\ n \in recipients[id]
             /\ handled' = [handled EXCEPT ![n] = [handled[n] EXCEPT ![id] = handled[n][id] + 1]]
    BY ActHandles
  <1>2. /\ UNCHANGED <<peers, grpc_stub, peers_mutex, incoming_messages, listening,
                       down, lost, leader_id, origin, recipients, audience, underway,
                       hurried>>
        /\ thread[n][t].pc = "acting"
        /\ thread' = [thread EXCEPT ![n][t] = act(n, thread[n][t])]
    BY DEF Act, At
  <1>3. HistoryKept
    BY <1>2 DEF HistoryKept
  <1>4. HistoryOK'
    BY <1>1, <1>2 DEF NetworkInvariant, HistoryOK
  <1>5. OnlyAddressees'
    <2>1. n # origin[id]
      BY <1>1 DEF NetworkInvariant, HistoryOK
    <2>2. ASSUME NEW p \in Nodes, NEW x \in Ids, handled'[p][x] > 0
          PROVE  p \in recipients[x] /\ p # origin[x]
      <3>1. CASE p = n /\ x = id
        BY <1>1, <2>1, <3>1
      <3>2. CASE p # n \/ x # id
        <4>1. handled'[p][x] = handled[p][x]
          BY <1>1, <3>2 DEF NetworkInvariant, HistoryOK
        <4> QED
          BY <2>2, <4>1 DEF NetworkInvariant, OnlyAddressees
      <3> QED
        BY <3>1, <3>2
    <2> QED
      BY <1>2, <2>2 DEF OnlyAddressees
  <1>6. thread[n][t] \in Locals
    BY OneLocal
  <1>7. act(n, thread[n][t]) \in Locals /\ act(n, thread[n][t]).pc \in {"idle", "adding"}
    <2>1. Idle \in Locals /\ Idle.pc = "idle"
      BY DEF Idle, Locals
    <2>2. ASSUME id \in Nodes
          PROVE  /\ [thread[n][t] EXCEPT !.pc = "adding", !.targets = {id}] \in Locals
                 /\ [thread[n][t] EXCEPT !.pc = "adding", !.targets = {id}].pc = "adding"
      BY <1>6, <2>2 DEF Locals
    <2> QED
      BY <1>1, <2>1, <2>2 DEF act, node_joined_network
  <1>8. PICK l : l = act(n, thread[n][t])
    OBVIOUS
  <1>9. LocalOK(n, t, l)' /\ l.pc # "calling"
    BY <1>1, <1>7, <1>8 DEF LocalOK, InboxOK
  <1>10. ThreadsOK'
    BY <1>2, <1>3, <1>8, <1>9, OneThread DEF NetworkInvariant
  <1>11. QueuesOK'
    BY <1>2, <1>3, QueuesStay DEF NetworkInvariant
  <1>12. MutexOK'
    BY <1>2, <1>8, <1>9, MutexStep
  <1>13. SetsOK'
    BY <1>2 DEF NetworkInvariant, SetsOK
  <1> QED
    BY <1>4, <1>5, <1>10, <1>11, <1>12, <1>13 DEF NetworkInvariant

LEMMA ListenKeeps ==
    ASSUME NetworkInvariant, NEW n \in Nodes, Listen(n), UNCHANGED nodeVars
    PROVE  NetworkInvariant'
  <1>1. /\ listening' = listening \cup {n}
        /\ UNCHANGED <<peers, grpc_stub, peers_mutex, incoming_messages, down, thread, lost>>
    BY DEF Listen
  <1>2. HistoryKept /\ HistoryOK' /\ OnlyAddressees'
    BY HistoryStays DEF NetworkInvariant, nodeVars, historyVars
  <1>3. ThreadsOK'
    BY <1>1, <1>2, LocalStays, NetworkAssumption DEF NetworkInvariant, ThreadsOK
  <1>4. QueuesOK'
    BY <1>1, <1>2, QueuesStay DEF NetworkInvariant
  <1>5. MutexOK' /\ SetsOK'
    BY <1>1 DEF NetworkInvariant, MutexOK, SetsOK, nodeVars
  <1> QED
    BY <1>2, <1>3, <1>4, <1>5 DEF NetworkInvariant
-----------------------------------------------------------------------------
LEMMA NetworkInitially == Init => NetworkInvariant
  <1> SUFFICES ASSUME Init PROVE NetworkInvariant
    OBVIOUS
  <1> USE NetworkAssumption DEF Init, BrokerInit
  <1>1. \A n \in Nodes : \A t : LocalOK(n, t, [Idle EXCEPT !.pc = "off"])
    BY DEF LocalOK, MainOK, InboxOK, Idle, Locals
  <1>2. ThreadsOK
    BY <1>1 DEF ThreadsOK, NoThread, LocalOK
  <1>3. QueuesOK
    BY DEF QueuesOK
  <1>4. MutexOK
    BY DEF MutexOK, NoThread, Idle
  <1>5. SetsOK
    BY DEF SetsOK
  <1>6. HistoryOK
    <2>1. underway \in 0..MaxOverlap /\ hurried \in BOOLEAN
      <3>1. 0 \in 0..MaxOverlap
        OBVIOUS
      <3>2. underway = 0 /\ hurried = FALSE
        BY Zenon
      <3> QED
        BY <3>1, <3>2, Zenon
    <2>2. /\ handled \in [Nodes -> [Ids -> Nat]]
          /\ origin \in [Ids -> Nodes \cup {NULL}]
          /\ recipients \in [Ids -> SUBSET Nodes]
      OBVIOUS
    <2>3. \A id \in Ids : origin[id] = NULL /\ recipients[id] = {} /\ audience[id] = {}
      OBVIOUS
    <2> QED
      BY <2>1, <2>2, <2>3 DEF HistoryOK
  <1>7. OnlyAddressees
    BY DEF OnlyAddressees
  <1> QED
    BY <1>2, <1>3, <1>4, <1>5, <1>6, <1>7 DEF NetworkInvariant

LEMMA StepKeeps ==
    ASSUME NetworkInvariant, NEW n \in Nodes, NEW t \in Threads(n), Step(n, t)
    PROVE  NetworkInvariant'
  <1>1. CASE Lock(n, t) /\ UNCHANGED nodeVars
    BY <1>1, LockKeeps
  <1>2. CASE CallPeer(n, t) /\ UNCHANGED nodeVars
    BY <1>2, CallKeeps
  <1>3. CASE CallCrashes(n, t) /\ UNCHANGED nodeVars
    BY <1>3, TerminateKeeps DEF CallCrashes
  <1>4. CASE Unlock(n, t) /\ UNCHANGED nodeVars
    BY <1>4, UnlockKeeps
  <1>5. CASE AddPeer(n, t) /\ UNCHANGED nodeVars
    BY <1>5, AddPeerKeeps
  <1>6. CASE InsertStub(n, t) /\ UNCHANGED nodeVars
    BY <1>6, InsertStubKeeps
  <1>7. CASE InsertCrashes(n, t) /\ UNCHANGED nodeVars
    BY <1>7, TerminateKeeps DEF InsertCrashes
  <1>8. CASE MainStep(n) /\ UNCHANGED nodeVars
    BY <1>8, MainKeeps
  <1>9. CASE t # Main /\ Dequeue(n, t) /\ UNCHANGED nodeVars
    BY <1>9, DequeueKeeps
  <1>10. CASE Act(n, t)
    BY <1>10, ActKeeps
  <1>11. CASE UnknownCommand(n, t)
    BY <1>11, TerminateKeeps DEF UnknownCommand
  <1>12. CASE Announce(n)
    BY <1>12, AnnounceKeeps
  <1> QED
    BY <1>1, <1>2, <1>3, <1>4, <1>5, <1>6, <1>7, <1>8, <1>9, <1>10, <1>11, <1>12
    DEF Step, BrokerStep

LEMMA NextKeeps ==
    ASSUME NetworkInvariant, Next
    PROVE  NetworkInvariant'
  <1>1. PICK n \in Nodes :
          \/ JoinNetwork(n)
          \/ Listen(n) /\ UNCHANGED nodeVars
          \/ \E id \in Calls : Broadcast(n, id)
          \/ \E id \in Calls, recipient \in Nodes \ {n} : Send(n, id, recipient)
          \/ \E p \in Nodes : UserAddsPeer(n, p)
          \/ \E t \in Threads(n) : Step(n, t)
    BY DEF Next
  <1> QED
    BY <1>1, JoinKeeps, ListenKeeps, BroadcastKeeps, SendKeeps, UserAddsPeerKeeps, StepKeeps

LEMMA StutterKeeps ==
    ASSUME NetworkInvariant, UNCHANGED vars
    PROVE  NetworkInvariant'
  <1> USE DEF NetworkInvariant, vars, brokerVars, nodeVars
  <1>1. HistoryKept /\ HistoryOK' /\ OnlyAddressees'
    BY HistoryStays DEF historyVars
  <1>2. ThreadsOK'
    BY <1>1, LocalStays, NetworkAssumption DEF ThreadsOK
  <1>3. QueuesOK'
    BY <1>1, QueuesStay
  <1>4. MutexOK' /\ SetsOK'
    BY DEF MutexOK, SetsOK
  <1> QED
    BY <1>1, <1>2, <1>3, <1>4

LEMMA NetworkInductive == Spec => []NetworkInvariant
  <1>1. NetworkInvariant /\ [Next]_vars => NetworkInvariant'
    BY NextKeeps, StutterKeeps
  <1> QED
    BY <1>1, NetworkInitially, PTL DEF Spec

\* The state of the brokers in networks of any shape; among it, that a thread
\* loops over the peers of its node only while it holds peers_mutex
\* (MessageBroker.cc:86-96, 155-174).
THEOREM NetworkWellFormed == Spec => []TypeOK
  <1>1. NetworkInvariant => TypeOK
    BY DEF NetworkInvariant, TypeOK, BrokerTypeOK, ThreadsOK, QueuesOK, MutexOK, SetsOK,
           HistoryOK
  <1> QED
    BY <1>1, NetworkInductive, PTL

\* Whoever crashes, and whatever shape the peers have, a message is executed only
\* by nodes it is addressed to, and its own node never gets it back
\* (MessageBroker.cc:77-96, 150-174).
THEOREM OnlyAddresseesExecute == Spec => []OnlyAddressees
  BY NetworkInductive, PTL DEF NetworkInvariant
-----------------------------------------------------------------------------
(* Ways: the simple paths over the peers that nodes may ever have.          *)

\* The peers n may have.
MayPeer(n) == {p \in Nodes : <<n, p>> \in Possible}

\* A simple path from o to n over the peers that can ever exist.
IsWay(o, n, w) ==
    /\ w \in Seq(Nodes) /\ Len(w) >= 1 /\ w[1] = o /\ w[Len(w)] = n
    /\ \A i, j \in 1..Len(w) : w[i] = w[j] => i = j
    /\ \A i \in 1..(Len(w) - 1) : w[i + 1] \in MayPeer(w[i])

LEMMA MayPeerOthers ==
    ASSUME NEW n \in Nodes
    PROVE  MayPeer(n) \subseteq Nodes \ {n}
  BY NetworkAssumption DEF MayPeer, Possible

LEMMA SeqOfIs ==
    ASSUME NEW S, NEW k \in Nat, NEW w
    PROVE  w \in SeqOf(S, k) <=> w \in Seq(S) /\ Len(w) <= k
  <1>1. ASSUME w \in SeqOf(S, k)
        PROVE  w \in Seq(S) /\ Len(w) <= k
    <2>1. PICK m \in 0..k : w \in [1..m -> S]
      BY <1>1 DEF SeqOf
    <2> QED
      BY <2>1
  <1>2. ASSUME w \in Seq(S), Len(w) <= k
        PROVE  w \in SeqOf(S, k)
    <2>1. Len(w) \in 0..k /\ w \in [1..Len(w) -> S]
      BY <1>2
    <2> QED
      BY <2>1 DEF SeqOf
  <1> QED
    BY <1>1, <1>2

LEMMA NoRepetition ==
    ASSUME NEW w \in Seq(Nodes), \A i, j \in 1..Len(w) : w[i] = w[j] => i = j
    PROVE  Len(w) <= Cardinality(Nodes)
  <1>1. w \in Injection(1..Len(w), Nodes)
    BY DEF Injection, IsInjective
  <1>2. Len(w) \in Nat /\ Cardinality(1..Len(w)) = Len(w)
    BY FS_Interval
  <1>3. Cardinality(1..Len(w)) <= Cardinality(Nodes)
    BY <1>1, BrokerAssumption, FS_Injection
  <1> QED
    BY <1>2, <1>3

LEMMA WaysAre ==
    ASSUME NEW o \in Nodes, NEW n \in Nodes, NEW w
    PROVE  w \in Ways[o][n] <=> IsWay(o, n, w)
  <1>1. Cardinality(Nodes) \in Nat
    BY BrokerAssumption, FS_CardinalityType
  <1>2. w \in Ways[o][n] <=>
          /\ w \in SeqOf(Nodes, Cardinality(Nodes)) \ {<<>>}
          /\ IsInjective(w)
          /\ \A i \in 1..(Len(w) - 1) : <<w[i], w[i + 1]>> \in Possible
          /\ w[1] = o /\ w[Len(w)] = n
    BY DEF Ways
  <1>3. w \in SeqOf(Nodes, Cardinality(Nodes)) <=> w \in Seq(Nodes) /\ Len(w) <= Cardinality(Nodes)
    BY <1>1, SeqOfIs
  <1>4. ASSUME w \in Seq(Nodes)
        PROVE  /\ w # <<>> <=> Len(w) >= 1
               /\ IsInjective(w) <=> \A i, j \in 1..Len(w) : w[i] = w[j] => i = j
               /\ \A i \in 1..(Len(w) - 1) : w[i] \in Nodes /\ w[i + 1] \in Nodes
    BY <1>4 DEF IsInjective
  <1>5. ASSUME IsWay(o, n, w)
        PROVE  Len(w) <= Cardinality(Nodes)
    BY <1>5, NoRepetition DEF IsWay
  <1> QED
    BY <1>2, <1>3, <1>4, <1>5 DEF IsWay, MayPeer

LEMMA WayExtends ==
    ASSUME NEW o \in Nodes, NEW n \in Nodes, NEW w \in Ways[o][n],
           NEW p \in MayPeer(n), \A i \in 1..Len(w) : w[i] # p
    PROVE  /\ w \in Seq(Nodes) /\ p \in Nodes
           /\ Append(w, p) \in Ways[o][p] /\ Len(Append(w, p)) = Len(w) + 1
  <1>1. IsWay(o, n, w) /\ p \in Nodes
    BY WaysAre DEF MayPeer
  <1>2. /\ w \in Seq(Nodes) /\ Len(w) \in Nat /\ Len(w) >= 1 /\ w[1] = o /\ w[Len(w)] = n
    BY <1>1 DEF IsWay
  <1>3. PICK x : x = Append(w, p)
    OBVIOUS
  <1>4. /\ x \in Seq(Nodes) /\ Len(x) = Len(w) + 1 /\ x[Len(w) + 1] = p
        /\ \A i \in 1..Len(w) : x[i] = w[i]
    BY <1>1, <1>2, <1>3
  <1>5. x[1] = o /\ x[Len(x)] = p
    BY <1>2, <1>4
  <1>6. \A i, j \in 1..Len(x) : x[i] = x[j] => i = j
    BY <1>1, <1>2, <1>4 DEF IsWay
  <1>7. \A i \in 1..(Len(x) - 1) : x[i + 1] \in MayPeer(x[i])
    <2>1. TAKE i \in 1..(Len(x) - 1)
    <2>2. CASE i = Len(w)
      BY <1>2, <1>4, <2>2
    <2>3. CASE i # Len(w)
      <3>1. i \in 1..(Len(w) - 1) /\ i \in 1..Len(w) /\ i + 1 \in 1..Len(w)
        BY <1>2, <1>4, <2>3
      <3> QED
        BY <1>1, <1>4, <3>1 DEF IsWay
    <2> QED
      BY <2>2, <2>3
  <1>8. IsWay(o, p, x)
    BY <1>2, <1>4, <1>5, <1>6, <1>7 DEF IsWay
  <1> QED
    BY <1>1, <1>2, <1>3, <1>4, <1>8, WaysAre

LEMMA WayAlone ==
    ASSUME NEW o \in Nodes
    PROVE  <<o>> \in Ways[o][o]
  <1>1. IsWay(o, o, <<o>>)
    BY DEF IsWay
  <1> QED
    BY <1>1, WaysAre

LEMMA WayEnds ==
    ASSUME NEW o \in Nodes, NEW n \in Nodes, NEW m \in Nodes, NEW w,
           w \in Ways[o][n], w \in Ways[o][m]
    PROVE  n = m
  BY WaysAre DEF IsWay

\* Sequences of a certain length over a finite set are finitely many.
LEMMA SequencesFinite ==
    ASSUME NEW S, IsFiniteSet(S), NEW k \in Nat
    PROVE  IsFiniteSet([1..k -> S])
  <1> DEFINE T == SUBSET ((1..k) \X S)
             F == [1..k -> S]
             g == [f \in F |-> {<<i, f[i]>> : i \in 1..k}]
  <1>1. IsFiniteSet(1..k)
    BY FS_Interval
  <1>2. IsFiniteSet(T)
    BY <1>1, FS_Product, FS_SUBSET
  <1>3. g \in [F -> T]
    OBVIOUS
  <1>4. ASSUME NEW a \in F, NEW b \in F, g[a] = g[b]
        PROVE  a = b
    <2>1. \A i \in 1..k : a[i] = b[i]
      <3>1. TAKE i \in 1..k
      <3>2. <<i, a[i]>> \in g[a]
        OBVIOUS
      <3>3. <<i, a[i]>> \in {<<j, b[j]>> : j \in 1..k}
        BY <1>4, <3>2
      <3> QED
        BY <3>3
    <2> QED
      BY <2>1
  <1>5. g \in Injection(F, T)
    <2>1. DOMAIN g = F
      OBVIOUS
    <2> HIDE DEF g, F, T
    <2> QED
      BY <1>3, <1>4, <2>1 DEF Injection, IsInjective
  <1> HIDE DEF g, T
  <1> QED
    BY <1>2, <1>5, FS_Injection

LEMMA WaysFinite ==
    ASSUME NEW o \in Nodes, NEW n \in Nodes
    PROVE  IsFiniteSet(Ways[o][n])
  <1> DEFINE N == Cardinality(Nodes)
             T == {[1..m -> Nodes] : m \in 0..N}
             f == [m \in 0..N |-> [1..m -> Nodes]]
  <1>1. N \in Nat
    BY BrokerAssumption, FS_CardinalityType
  <1>2. IsFiniteSet(0..N)
    BY <1>1, FS_Interval
  <1>3. f \in Surjection(0..N, T)
    BY DEF Surjection
  <1>4. IsFiniteSet(T)
    <2> HIDE DEF f, T, N
    <2> QED
      BY <1>2, <1>3, FS_Surjection
  <1>5. \A X \in T : IsFiniteSet(X)
    BY <1>1, BrokerAssumption, SequencesFinite
  <1>6. IsFiniteSet(UNION T)
    <2> HIDE DEF T
    <2> QED
      BY <1>4, <1>5, FS_UNION
  <1>7. Ways[o][n] \subseteq UNION T
    BY DEF Ways, SeqOf
  <1> QED
    BY <1>6, <1>7, FS_Subset
-----------------------------------------------------------------------------
(* Peers: nodes know, and call, only those that they may have.              *)

\* The nodes that a thread of n calls or adds are such peers.
Reaches(n, l) == l.pc \in {"calling", "sending", "adding"} => l.targets \subseteq MayPeer(n)

\* The message that announces a node comes from that node.
OwnNames == \A n \in Nodes : origin[n] \in {NULL, n}

\* A node has, and calls, only peers that it may have.
PeersPossible ==
    /\ \A n \in Nodes : peers[n] \subseteq MayPeer(n)
    /\ \A n \in Nodes : \A t \in Threads(n) : Reaches(n, thread[n][t])

\* A step of one thread that adds no peer but its targets.
LEMMA PeersStep ==
    ASSUME NetworkInvariant, PeersPossible, NEW n \in Nodes, NEW t \in Threads(n), NEW l,
           thread' = [thread EXCEPT ![n][t] = l], Reaches(n, l),
           \/ UNCHANGED peers
           \/ /\ thread[n][t].pc = "adding"
              /\ peers' = [peers EXCEPT ![n] = @ \cup thread[n][t].targets]
    PROVE  PeersPossible'
  <1>1. ASSUME NEW m \in Nodes, NEW s \in Threads(m)
        PROVE  Reaches(m, thread'[m][s])
    <2>1. thread'[m][s] = IF m = n /\ s = t THEN l ELSE thread[m][s]
      BY DEF NetworkInvariant, ThreadsOK
    <2>2. Reaches(m, thread[m][s])
      BY DEF PeersPossible
    <2> QED
      BY <2>1, <2>2
  <1>2. ASSUME NEW m \in Nodes
        PROVE  peers'[m] \subseteq MayPeer(m)
    BY DEF PeersPossible, Reaches, NetworkInvariant, SetsOK
  <1> QED
    BY <1>1, <1>2 DEF PeersPossible, Threads, Reaches

LEMMA IdleReaches == \A n : Reaches(n, Idle)
  BY DEF Reaches, Idle

LEMMA PeersTerminate ==
    ASSUME NetworkInvariant, PeersPossible, NEW n \in Nodes, Terminate(n)
    PROVE  PeersPossible'
  <1>1. /\ thread' = [thread EXCEPT ![n] = NoThread(n)]
        /\ peers' = [peers EXCEPT ![n] = {}]
    BY DEF Terminate
  <1>2. ASSUME NEW m \in Nodes, NEW s \in Threads(m)
        PROVE  Reaches(m, thread'[m][s])
    <2>1. CASE m = n
      BY <1>1, <2>1 DEF NetworkInvariant, ThreadsOK, NoThread, Reaches, Idle
    <2>2. CASE m # n
      BY <1>1, <2>2 DEF NetworkInvariant, ThreadsOK, PeersPossible
    <2> QED
      BY <2>1, <2>2
  <1>3. ASSUME NEW m \in Nodes
        PROVE  peers'[m] \subseteq MayPeer(m)
    BY <1>1 DEF NetworkInvariant, SetsOK, PeersPossible
  <1> QED
    BY <1>2, <1>3 DEF PeersPossible, Threads, Reaches

LEMMA PeersJoin ==
    ASSUME NetworkInvariant, PeersPossible, NEW n \in Nodes, JoinNetwork(n)
    PROVE  PeersPossible'
  <1>1. thread' = [thread EXCEPT ![n] = ThreadsStarted(n)] /\ UNCHANGED peers
    BY DEF JoinNetwork, Issue
  <1>2. ASSUME NEW m \in Nodes, NEW s \in Threads(m)
        PROVE  Reaches(m, thread'[m][s])
    <2>1. CASE m = n
      BY <1>1, <2>1 DEF NetworkInvariant, ThreadsOK, ThreadsStarted, Reaches, Idle
    <2>2. CASE m # n
      BY <1>1, <2>2 DEF NetworkInvariant, ThreadsOK, PeersPossible
    <2> QED
      BY <2>1, <2>2
  <1> QED
    BY <1>1, <1>2 DEF PeersPossible, Threads, Reaches

LEMMA BroadcastPossible ==
    ASSUME NetworkInvariant, PeersPossible, NEW n \in Nodes, NEW id, BroadcastBegins(n, id),
           UNCHANGED peers
    PROVE  PeersPossible'
  <1>1. PICK l : /\ thread' = [thread EXCEPT ![n][Main] = l]
                 /\ l = IF peers[n] = {} THEN Idle
                        ELSE [pc |-> "locking", message |-> Broadcasting(n, id),
                              targets |-> {}, contexts |-> ContextsFor(n)]
    BY DEF BroadcastBegins
  <1>2. Main \in Threads(n) /\ Reaches(n, l)
    BY <1>1, IdleReaches DEF Threads, Reaches
  <1> QED
    BY <1>1, <1>2, PeersStep

\* The threads of the brokers.
LEMMA PeersBrokerStep ==
    ASSUME NetworkInvariant, PeersPossible, NEW n \in Nodes, NEW t \in Threads(n),
           BrokerStep(n, t)
    PROVE  PeersPossible'
  <1> DEFINE local == thread[n][t]
  <1>1. local \in Locals /\ Reaches(n, local) /\ peers[n] \subseteq MayPeer(n)
    BY OneLocal DEF PeersPossible
  <1>2. ASSUME NEW l, thread' = [thread EXCEPT ![n][t] = l], Reaches(n, l),
               \/ UNCHANGED peers
               \/ /\ local.pc = "adding"
                  /\ peers' = [peers EXCEPT ![n] = @ \cup local.targets]
        PROVE  PeersPossible'
    BY <1>2, PeersStep
  <1>3. CASE Lock(n, t)
    <2>1. PICK l : /\ thread' = [thread EXCEPT ![n][t] = l]
                   /\ l = IF t = Main THEN [local EXCEPT !.pc = "calling", !.targets = peers[n]]
                          ELSE [local EXCEPT !.pc = "calling",
                                             !.targets = Targets(n, local.message),
                                             !.message = Visited(n, local.message)]
                   /\ UNCHANGED peers
      BY <1>3 DEF Lock
    <2>2. l.targets \subseteq peers[n]
      BY <1>1, <2>1 DEF Locals, Targets
    <2> QED
      BY <1>1, <1>2, <2>1, <2>2 DEF Reaches
  <1>4. CASE CallPeer(n, t)
    <2>1. PICK p : /\ thread' = [thread EXCEPT ![n][t] =
                        [local EXCEPT !.targets = local.targets \ {p},
                                      !.contexts = IF local.contexts = 0 THEN 0
                                                   ELSE local.contexts - 1]]
                   /\ UNCHANGED peers
      BY <1>4 DEF CallPeer
    <2>2. PICK l : l = [pc |-> local.pc, message |-> local.message,
                        targets |-> local.targets \ {p},
                        contexts |-> IF local.contexts = 0 THEN 0 ELSE local.contexts - 1]
      OBVIOUS
    <2>3. [local EXCEPT !.targets = local.targets \ {p},
                        !.contexts = IF local.contexts = 0 THEN 0
                                     ELSE local.contexts - 1] = l
      BY <1>1, <2>2, CallEffect
    <2>4. thread' = [thread EXCEPT ![n][t] = l]
      BY <2>1, <2>3
    <2>5. Reaches(n, l)
      BY <1>1, <2>2 DEF Reaches
    <2> QED
      BY <1>2, <2>1, <2>4, <2>5
  <1>5. CASE CallCrashes(n, t) \/ InsertCrashes(n, t)
    BY <1>5, PeersTerminate DEF CallCrashes, InsertCrashes
  <1>6. CASE Unlock(n, t)
    <2>1. PICK l : /\ thread' = [thread EXCEPT ![n][t] = l]
                   /\ l = IF t = Main THEN Idle ELSE [local EXCEPT !.pc = "acting"]
                   /\ UNCHANGED peers
      BY <1>6 DEF Unlock
    <2>2. Reaches(n, l)
      BY <1>1, <2>1, IdleReaches DEF Reaches, Locals
    <2> QED
      BY <1>2, <2>1, <2>2
  <1>7. CASE AddPeer(n, t)
    <2>1. PICK l : /\ thread' = [thread EXCEPT ![n][t] = l]
                   /\ l = [local EXCEPT !.pc = "inserting"]
                   /\ local.pc = "adding"
                   /\ peers' = [peers EXCEPT ![n] = @ \cup local.targets]
      BY <1>7 DEF AddPeer, At
    <2>2. Reaches(n, l)
      BY <1>1, <2>1 DEF Reaches, Locals
    <2> QED
      BY <1>2, <2>1, <2>2
  <1>8. CASE InsertStub(n, t)
    BY <1>2, <1>8, IdleReaches DEF InsertStub
  <1>9. CASE t = Main /\ MainStep(n)
    <2>1. CASE SendChecked(n)
      <3>1. PICK l : /\ thread' = [thread EXCEPT ![n][t] = l]
                     /\ l = [local EXCEPT !.pc = "sending"]
                     /\ local.targets \subseteq peers[n]
                     /\ UNCHANGED peers
        BY <1>9, <2>1 DEF SendChecked
      <3>2. Reaches(n, l)
        BY <1>1, <3>1 DEF Reaches, Locals
      <3> QED
        BY <1>2, <3>1, <3>2
    <2>2. CASE SendThrows(n) \/ SendReturns(n)
      BY <1>2, <1>9, <2>2, IdleReaches DEF SendThrows, SendReturns
    <2> QED
      BY <1>9, <2>1, <2>2 DEF MainStep
  <1>10. CASE Dequeue(n, t)
    <2>1. PICK l : /\ thread' = [thread EXCEPT ![n][t] = l]
                   /\ UNCHANGED peers
                   /\ l.pc \in {"idle", "locking", "acting"}
      <3> DEFINE message == Head(incoming_messages[n])
                 k == IF message.is_broadcast /\ n \in message.visited_recipients THEN Idle
                      ELSE [pc |-> IF message.is_broadcast THEN "locking" ELSE "acting",
                            message |-> message, targets |-> {}, contexts |-> 1]
      <3>1. thread' = [thread EXCEPT ![n][t] = k] /\ UNCHANGED peers
        BY <1>10 DEF Dequeue
      <3>2. k.pc \in {"idle", "locking", "acting"}
        BY DEF Idle
      <3> QED
        BY <3>1, <3>2
    <2> QED
      BY <1>2, <2>1 DEF Reaches
  <1> QED
    BY <1>3, <1>4, <1>5, <1>6, <1>7, <1>8, <1>9, <1>10 DEF BrokerStep

LEMMA PeersAct ==
    ASSUME NetworkInvariant, OwnNames, PeersPossible, NEW n \in Nodes, NEW t \in Threads(n),
           Act(n, t)
    PROVE  PeersPossible'
  <1>1. PICK id \in Ids :
             /\ id = thread[n][t].message.id
             /\ t # Main
             /\ origin[id] \in Nodes /\ n \in recipients[id]
    BY ActHandles
  <1>2. /\ thread[n][t] \in Locals /\ thread[n][t].pc = "acting" /\ UNCHANGED peers
        /\ thread' = [thread EXCEPT ![n][t] = act(n, thread[n][t])]
    BY OneLocal DEF Act, At
  <1>3. ASSUME id \in Nodes
        PROVE  n # id
    <2>1. origin[id] = id
      BY <1>1, <1>3, NetworkAssumption DEF OwnNames
    <2>2. origin[id] \notin recipients[id]
      BY DEF NetworkInvariant, HistoryOK
    <2> QED
      BY <1>1, <2>1, <2>2
  <1>4. PICK l : l = act(n, thread[n][t])
    OBVIOUS
  <1>5. Reaches(n, l)
    <2>1. CASE id \in Nodes /\ n \in Welcoming
      <3>1. l = [thread[n][t] EXCEPT !.pc = "adding", !.targets = {id}]
        BY <1>1, <1>4, <2>1 DEF act, node_joined_network
      <3>2. l.targets = {id}
        BY <1>2, <3>1 DEF Locals
      <3>3. id \in MayPeer(n)
        BY <1>3, <2>1 DEF MayPeer, Possible
      <3> QED
        BY <3>2, <3>3 DEF Reaches
    <2>2. CASE ~ (id \in Nodes /\ n \in Welcoming)
      BY <1>1, <1>4, <2>2, IdleReaches DEF act, node_joined_network
    <2> QED
      BY <2>1, <2>2
  <1> QED
    BY <1>2, <1>4, <1>5, PeersStep

LEMMA NamesKept ==
    ASSUME NetworkInvariant, OwnNames, [Next]_vars
    PROVE  OwnNames'
  <1>1. CASE UNCHANGED vars
    BY <1>1 DEF OwnNames, vars, nodeVars
  <1>2. CASE Next
    <2>1. PICK n \in Nodes :
            \/ JoinNetwork(n)
            \/ Listen(n) /\ UNCHANGED nodeVars
            \/ \E id \in Calls : Broadcast(n, id)
            \/ \E id \in Calls, recipient \in Nodes \ {n} : Send(n, id, recipient)
            \/ \E p \in Nodes : UserAddsPeer(n, p)
            \/ \E t \in Threads(n) : Step(n, t)
      BY <1>2 DEF Next
    <2>2. ASSUME NEW id \in Ids, id \in Nodes => id = n,
                 origin' = [origin EXCEPT ![id] = n]
          PROVE  OwnNames'
      BY <2>2, NetworkAssumption DEF OwnNames, NetworkInvariant, HistoryOK
    <2>3. CASE JoinNetwork(n)
      BY <2>2, <2>3, NetworkAssumption DEF JoinNetwork, Issue
    <2>4. ASSUME NEW id \in Calls, NEW recipient, Broadcast(n, id) \/ Send(n, id, recipient)
          PROVE  OwnNames'
      <3>1. id \in Ids /\ id \notin Nodes
        BY NetworkAssumption
      <3> QED
        BY <2>2, <2>4, <3>1 DEF Broadcast, Send, Issue
    <2>5. CASE UNCHANGED origin
      BY <2>5 DEF OwnNames
    <2>6. CASE Listen(n) /\ UNCHANGED nodeVars
      BY <2>5, <2>6 DEF nodeVars
    <2>7. CASE \E p \in Nodes : UserAddsPeer(n, p)
      BY <2>5, <2>7 DEF UserAddsPeer, nodeVars
    <2>8. ASSUME NEW t \in Threads(n), Step(n, t)
          PROVE  OwnNames'
      BY <2>5, <2>8 DEF Step, Act, UnknownCommand, Announce, nodeVars
    <2> QED
      BY <2>1, <2>3, <2>4, <2>6, <2>7, <2>8
  <1> QED
    BY <1>1, <1>2

LEMMA PeersKept ==
    ASSUME NetworkInvariant, OwnNames, PeersPossible, [Next]_vars
    PROVE  PeersPossible'
  <1>1. CASE UNCHANGED <<peers, thread>>
    BY <1>1 DEF PeersPossible
  <1>2. CASE UNCHANGED vars
    BY <1>1, <1>2 DEF vars, brokerVars
  <1>3. CASE Next
    <2>1. PICK n \in Nodes :
            \/ JoinNetwork(n)
            \/ Listen(n) /\ UNCHANGED nodeVars
            \/ \E id \in Calls : Broadcast(n, id)
            \/ \E id \in Calls, recipient \in Nodes \ {n} : Send(n, id, recipient)
            \/ \E p \in Nodes : UserAddsPeer(n, p)
            \/ \E t \in Threads(n) : Step(n, t)
      BY <1>3 DEF Next
    <2>2. Main \in Threads(n)
      BY DEF Threads
    <2>3. CASE Listen(n) /\ UNCHANGED nodeVars
      BY <1>1, <2>3 DEF Listen
    <2>4. ASSUME NEW id \in Calls, Broadcast(n, id)
          PROVE  PeersPossible'
      BY <2>4, BroadcastPossible DEF Broadcast, Issue
    <2>5. ASSUME NEW id \in Calls, NEW recipient \in Nodes \ {n}, Send(n, id, recipient)
          PROVE  PeersPossible'
      <3> DEFINE l == [pc |-> "checking", message |-> Sending(id),
                       targets |-> {recipient}, contexts |-> 1]
      <3>1. thread' = [thread EXCEPT ![n][Main] = l] /\ UNCHANGED peers
        BY <2>5 DEF Send, SendBegins, Issue
      <3>2. Reaches(n, l)
        BY DEF Reaches
      <3> HIDE DEF l
      <3> QED
        BY <2>2, <3>1, <3>2, PeersStep
    <2>6. ASSUME NEW p \in Nodes, UserAddsPeer(n, p)
          PROVE  PeersPossible'
      <3>1. PICK l : /\ thread' = [thread EXCEPT ![n][Main] = l]
                     /\ l = [Idle EXCEPT !.pc = "adding", !.targets = {p}]
                     /\ <<n, p>> \in Links
                     /\ UNCHANGED peers
        BY <2>6 DEF UserAddsPeer
      <3>2. l.targets = {p}
        BY <3>1 DEF Idle
      <3>3. p \in MayPeer(n)
        BY <3>1 DEF MayPeer, Possible
      <3> QED
        BY <2>2, <3>1, <3>2, <3>3, PeersStep DEF Reaches
    <2>7. ASSUME NEW t \in Threads(n), Step(n, t)
          PROVE  PeersPossible'
      <3>1. CASE Announce(n)
        BY <3>1, BroadcastPossible DEF Announce
      <3>2. CASE UnknownCommand(n, t)
        BY <3>2, PeersTerminate DEF UnknownCommand
      <3> QED
        BY <2>7, <3>1, <3>2, PeersAct, PeersBrokerStep DEF Step
    <2> QED
      BY <2>1, <2>3, <2>4, <2>5, <2>6, <2>7, PeersJoin
  <1> QED
    BY <1>2, <1>3

LEMMA PeersInitially == Init => OwnNames /\ PeersPossible
  <1> SUFFICES ASSUME Init PROVE OwnNames /\ PeersPossible
    OBVIOUS
  <1>1. OwnNames
    BY NetworkAssumption DEF Init, OwnNames
  <1>2. peers = Known /\ thread = [n \in Nodes |-> NoThread(n)]
    BY DEF Init, BrokerInit
  <1>3. \A n \in Nodes : Known[n] \subseteq MayPeer(n)
    BY NetworkAssumption DEF MayPeer, Possible
  <1>4. \A n \in Nodes : \A t \in Threads(n) : Reaches(n, thread[n][t])
    BY <1>2 DEF NoThread, Idle, Reaches
  <1> QED
    BY <1>1, <1>2, <1>3, <1>4 DEF PeersPossible
-----------------------------------------------------------------------------
(* Routes.  No message says on which way it came, but a history of the ways *)
(* would: used[id] are the ways that id went, done[n][id] those on which    *)
(* came what n executed, queued[n] those on which came what is in its       *)
(* queue, and held[n][t] the one on which came what its thread t has.       *)

Carries(l) == l.pc \in {"locking", "calling", "acting"}

\* The message m could have come to n by the way w.
CameBy(n, m, w, used) ==
    /\ origin[m.id] \in Nodes
    /\ w \in Ways[origin[m.id]][n] /\ w \in used[m.id] /\ Len(w) >= 2
    /\ m.is_broadcast => \A i \in 1..(Len(w) - 1) : w[i] \in m.visited_recipients

\* From the end of w the message id has not gone to the nodes S.
Unsent(id, w, S, used) == \A p \in S : Append(w, p) \notin used[id]

\* A message goes on only where it has come.
UsedOK(used) ==
    /\ used \in [Ids -> SUBSET Seq(Nodes)]
    /\ \A id \in Ids : used[id] # {} => origin[id] \in Nodes
    /\ \A id \in Ids : \A w \in Seq(Nodes), p \in Nodes :
          Append(w, p) \in used[id] => Len(w) <= 1 \/ w \in used[id]

\* Each execution came by a way of its own.
DoneOK(used, done) ==
    \A n \in Nodes, id \in Ids :
        /\ done[n][id] \subseteq used[id]
        /\ IsFiniteSet(done[n][id]) /\ Cardinality(done[n][id]) = handled[n][id]
        /\ origin[id] \in Nodes => done[n][id] \subseteq Ways[origin[id]][n]

\* The messages q of the queue of n came by the ways v.
QueueOK(n, q, v, used, done) ==
    /\ v \in Seq(Seq(Nodes)) /\ Len(v) = Len(q)
    /\ \A i \in 1..Len(v) : /\ CameBy(n, q[i], v[i], used)
                            /\ Unsent(q[i].id, v[i], Nodes, used)
                            /\ v[i] \notin done[n][q[i].id]
    /\ \A i, j \in 1..Len(v) : q[i].id = q[j].id /\ v[i] = v[j] => i = j

QueuedOK(used, done, queued) ==
    \A n \in Nodes : QueueOK(n, incoming_messages[n], queued[n], used, done)

\* What an inbox thread of n does, which is doing l with a message that came by w.
HeldOK(n, l, w, used, done) ==
    Carries(l) =>
        /\ CameBy(n, l.message, w, used)
        /\ w \notin done[n][l.message.id]
        /\ l.pc = "locking" => Unsent(l.message.id, w, Nodes, used)
        /\ l.pc = "calling" =>
            /\ Unsent(l.message.id, w, l.targets, used)
            /\ n \in l.message.visited_recipients
            /\ l.targets \cap l.message.visited_recipients = {}

\* What came by different ways is different.
HeldApart(queued, held) ==
    \A n \in Nodes : \A t \in InboxThreads[n] :
        Carries(thread[n][t]) =>
            /\ \A u \in InboxThreads[n] :
                  /\ Carries(thread[n][u]) /\ thread[n][u].message.id = thread[n][t].message.id
                  /\ held[n][u] = held[n][t]
                  => u = t
            /\ \A i \in 1..Len(queued[n]) :
                  incoming_messages[n][i].id = thread[n][t].message.id
                  => queued[n][i] # held[n][t]

\* What Main does at n, which is doing l.
MainSends(n, l, used) ==
    /\ l.pc = "announcing" => Unsent(n, <<n>>, Nodes, used)
    /\ l.pc \in {"locking", "calling", "checking", "sending"} =>
        /\ origin[l.message.id] = n
        /\ l.message.is_broadcast => l.message.visited_recipients = {n}
    /\ l.pc = "locking" => Unsent(l.message.id, <<n>>, Nodes, used)
    /\ l.pc \in {"calling", "checking", "sending"} =>
        Unsent(l.message.id, <<n>>, l.targets, used)

Routes(used, done, queued, held) ==
    /\ UsedOK(used) /\ DoneOK(used, done) /\ QueuedOK(used, done, queued)
    /\ HeldApart(queued, held)
    /\ \A n \in Nodes :
        /\ MainSends(n, thread[n][Main], used)
        /\ \A t \in InboxThreads[n] : HeldOK(n, thread[n][t], held[n][t], used, done)

\* Such a history exists.
Routed == \E used, done, queued, held : Routes(used, done, queued, held)
-----------------------------------------------------------------------------
\* What is known of a message that does not move is not disturbed.
LEMMA CameByStays ==
    ASSUME HistoryKept, NEW n \in Nodes, NEW m \in Messages, NEW w, NEW used,
           CameBy(n, m, w, used)
    PROVE  CameBy(n, m, w, used)'
  BY DEF CameBy, HistoryKept, Messages

\* A message that a thread has.
LEMMA MessageHeld ==
    ASSUME NetworkInvariant, NEW n \in Nodes, NEW t \in InboxThreads[n]
    PROVE  /\ t \in Threads(n) /\ t # Main /\ thread[n][t] \in Locals
           /\ Carries(thread[n][t]) => /\ thread[n][t].message \in Messages
                                       /\ thread[n][t].message.id \in Ids
  <1>1. t \in Threads(n) /\ t # Main
    BY BrokerAssumption DEF Threads
  <1>2. InboxOK(n, thread[n][t]) /\ thread[n][t] \in Locals
    BY <1>1, OneLocal
  <1> QED
    BY <1>1, <1>2 DEF InboxOK, Carries, Messages

LEMMA MessageQueued ==
    ASSUME NetworkInvariant, NEW n \in Nodes
    PROVE  /\ incoming_messages[n] \in Seq(Messages)
           /\ \A i \in 1..Len(incoming_messages[n]) : /\ incoming_messages[n][i] \in Messages
                                                      /\ incoming_messages[n][i].id \in Ids
  <1>1. incoming_messages[n] \in Seq(Messages)
    BY DEF NetworkInvariant, QueuesOK
  <1>2. \A i \in 1..Len(incoming_messages[n]) : incoming_messages[n][i] \in Messages
    BY <1>1
  <1> QED
    BY <1>1, <1>2 DEF Messages

\* Steps that take no message from one place to another.
LEMMA RoutesKept ==
    ASSUME NetworkInvariant, HistoryKept, UNCHANGED handled,
           NEW used, NEW done, NEW queued, NEW held, NEW queued2,
           Routes(used, done, queued, held),
           \A n \in Nodes :
              \/ incoming_messages'[n] = incoming_messages[n] /\ queued2[n] = queued[n]
              \/ incoming_messages'[n] = <<>> /\ queued2[n] = <<>>,
           \A n \in Nodes : MainSends(n, thread[n][Main], used)',
           \A n \in Nodes : \A t \in InboxThreads[n] :
              Carries(thread[n][t])' =>
                /\ Carries(thread[n][t]) /\ thread'[n][t].message.id = thread[n][t].message.id
                /\ HeldOK(n, thread[n][t], held[n][t], used, done)'
    PROVE  Routes(used, done, queued2, held)'
  <1>1. UsedOK(used)'
    BY DEF Routes, UsedOK, HistoryKept
  <1>2. DoneOK(used, done)'
    <2>1. ASSUME NEW n \in Nodes, NEW id \in Ids, origin'[id] \in Nodes
          PROVE  done[n][id] \subseteq Ways[origin'[id]][n]
      <3>1. CASE origin[id] \in Nodes
        BY <3>1 DEF Routes, DoneOK, HistoryKept
      <3>2. CASE origin[id] \notin Nodes
        BY <3>2 DEF Routes, DoneOK, UsedOK
      <3> QED
        BY <3>1, <3>2
    <2> QED
      BY <2>1 DEF Routes, DoneOK
  <1>3. QueuedOK(used, done, queued2)'
    <2> USE DEF QueuedOK, QueueOK
    <2>1. TAKE n \in Nodes
    <2>2. CASE incoming_messages'[n] = <<>> /\ queued2[n] = <<>>
      BY <2>2
    <2>3. CASE incoming_messages'[n] = incoming_messages[n] /\ queued2[n] = queued[n]
      <3>1. \A m \in Messages : \A w : CameBy(n, m, w, used) => CameBy(n, m, w, used)'
        BY CameByStays
      <3>2. Len(queued[n]) = Len(incoming_messages[n])
        BY DEF Routes, QueuedOK, QueueOK
      <3>3. \A i \in 1..Len(queued[n]) : incoming_messages[n][i] \in Messages
        BY <3>2, MessageQueued
      <3> QED
        BY <2>3, <3>1, <3>3 DEF Routes, QueuedOK, QueueOK, Unsent
    <2> QED
      BY <2>2, <2>3 DEF QueuedOK, QueueOK
  <1>4. HeldApart(queued2, held)'
    <2> USE DEF HeldApart
    <2>1. TAKE n \in Nodes
    <2>2. TAKE t \in InboxThreads[n]
    <2>3. SUFFICES ASSUME Carries(thread[n][t])'
          PROVE  /\ \A u \in InboxThreads[n] :
                      /\ Carries(thread[n][u])'
                      /\ thread'[n][u].message.id = thread'[n][t].message.id
                      /\ held[n][u] = held[n][t]
                      => u = t
                 /\ \A i \in 1..Len(queued2[n]) :
                      incoming_messages'[n][i].id = thread'[n][t].message.id
                      => queued2[n][i] # held[n][t]
      OBVIOUS
    <2> QED
      BY <2>3 DEF Routes, HeldApart
  <1>5. \A n \in Nodes : \A t \in InboxThreads[n] :
            HeldOK(n, thread[n][t], held[n][t], used, done)'
    BY DEF HeldOK
  <1> QED
    BY <1>1, <1>2, <1>3, <1>4, <1>5 DEF Routes

LEMMA MainStays ==
    ASSUME HistoryKept, NEW n \in Nodes, NEW l, MainOK(n, l), NEW used, MainSends(n, l, used)
    PROVE  MainSends(n, l, used)'
  <1>1. ASSUME l.pc \in {"locking", "calling", "checking", "sending"}
        PROVE  l.message.id \in Ids
    BY <1>1 DEF MainOK, Messages
  <1> QED
    BY <1>1 DEF MainSends, HistoryKept, Unsent

LEMMA HeldStays ==
    ASSUME HistoryKept, NEW n \in Nodes, NEW l, InboxOK(n, l), NEW w, NEW used, NEW done,
           HeldOK(n, l, w, used, done)
    PROVE  HeldOK(n, l, w, used, done)'
  <1>1. Carries(l) => l.message \in Messages
    BY DEF InboxOK, Carries
  <1>2. Carries(l) => (CameBy(n, l.message, w, used) => CameBy(n, l.message, w, used)')
    BY <1>1, CameByStays
  <1> QED
    BY <1>2 DEF HeldOK, Unsent

\* A step of one thread that takes no message from one place to another.
LEMMA RoutesThread ==
    ASSUME NetworkInvariant, HistoryKept, UNCHANGED <<handled, incoming_messages>>,
           NEW used, NEW done, NEW queued, NEW held, Routes(used, done, queued, held),
           NEW n \in Nodes, NEW t \in Threads(n), NEW l,
           thread' = [thread EXCEPT ![n][t] = l],
           t = Main => MainSends(n, l, used)',
           t # Main /\ Carries(l) =>
                /\ Carries(thread[n][t]) /\ l.message.id = thread[n][t].message.id
                /\ HeldOK(n, l, held[n][t], used, done)'
    PROVE  Routes(used, done, queued, held)'
  <1>1. \A m \in Nodes : \A s \in Threads(m) :
            thread'[m][s] = IF m = n /\ s = t THEN l ELSE thread[m][s]
    BY DEF NetworkInvariant, ThreadsOK
  <1>2. ASSUME NEW m \in Nodes
        PROVE  MainSends(m, thread[m][Main], used)'
    <2>1. Main \in Threads(m) /\ MainOK(m, thread[m][Main])
      BY OneLocal DEF Threads
    <2>2. MainSends(m, thread[m][Main], used)
      BY DEF Routes
    <2>3. PICK k : k = thread[m][Main]
      OBVIOUS
    <2>4. MainSends(m, k, used)'
      BY <2>1, <2>2, <2>3, MainStays
    <2>5. CASE m = n /\ t = Main
      BY <1>1, <2>1, <2>5 DEF MainSends
    <2>6. CASE ~ (m = n /\ t = Main)
      <3>1. thread'[m][Main] = k
        BY <1>1, <2>1, <2>3, <2>6
      <3> QED
        BY <2>4, <3>1 DEF MainSends
    <2> QED
      BY <2>5, <2>6
  <1>3. ASSUME NEW m \in Nodes, NEW s \in InboxThreads[m], Carries(thread[m][s])'
        PROVE  /\ Carries(thread[m][s]) /\ thread'[m][s].message.id = thread[m][s].message.id
               /\ HeldOK(m, thread[m][s], held[m][s], used, done)'
    <2>1. s \in Threads(m) /\ s # Main
      BY MessageHeld
    <2>2. CASE m = n /\ s = t
      <3>1. thread'[m][s] = l
        BY <1>1, <2>1, <2>2
      <3> QED
        BY <1>3, <2>1, <2>2, <3>1 DEF HeldOK
    <2>3. CASE ~ (m = n /\ s = t)
      <3>1. PICK k : k = thread[m][s]
        OBVIOUS
      <3>2. thread'[m][s] = k
        BY <1>1, <2>1, <2>3, <3>1
      <3>3. HeldOK(m, k, held[m][s], used, done)'
        BY <2>1, <3>1, OneLocal, HeldStays DEF Routes
      <3> QED
        BY <1>3, <3>1, <3>2, <3>3 DEF HeldOK
    <2> QED
      BY <2>2, <2>3
  <1> QED
    BY <1>2, <1>3, RoutesKept

LEMMA RoutesTerminate ==
    ASSUME NetworkInvariant, HistoryKept, Routed, NEW n \in Nodes, Terminate(n),
           UNCHANGED handled
    PROVE  Routed'
  <1>1. PICK used, done, queued, held : Routes(used, done, queued, held)
    BY DEF Routed
  <1>2. /\ incoming_messages' = [incoming_messages EXCEPT ![n] = <<>>]
        /\ thread' = [thread EXCEPT ![n] = NoThread(n)]
    BY DEF Terminate
  <1>3. \A s \in Threads(n) : thread'[n][s].pc = "off"
    BY <1>2 DEF NetworkInvariant, ThreadsOK, NoThread, Idle
  <1>4. \A m \in Nodes \ {n} : thread'[m] = thread[m]
    BY <1>2 DEF NetworkInvariant, ThreadsOK
  <1>5. PICK queued2 : queued2 = [m \in Nodes |-> IF m = n THEN <<>> ELSE queued[m]]
    OBVIOUS
  <1>6. \A m \in Nodes :
           \/ incoming_messages'[m] = incoming_messages[m] /\ queued2[m] = queued[m]
           \/ incoming_messages'[m] = <<>> /\ queued2[m] = <<>>
    BY <1>2, <1>5 DEF NetworkInvariant, QueuesOK
  <1>7. ASSUME NEW m \in Nodes
        PROVE  MainSends(m, thread[m][Main], used)'
    <2>1. Main \in Threads(m) /\ MainOK(m, thread[m][Main])
      BY OneLocal DEF Threads
    <2>2. CASE m = n
      BY <1>3, <2>1, <2>2 DEF MainSends
    <2>3. CASE m # n
      <3>1. PICK k : k = thread[m][Main]
        OBVIOUS
      <3>2. MainSends(m, k, used)'
        BY <1>1, <2>1, <3>1, MainStays DEF Routes
      <3>3. thread'[m][Main] = k
        BY <1>4, <2>3, <3>1
      <3> QED
        BY <3>2, <3>3 DEF MainSends
    <2> QED
      BY <2>2, <2>3
  <1>8. ASSUME NEW m \in Nodes, NEW s \in InboxThreads[m], Carries(thread[m][s])'
        PROVE  /\ Carries(thread[m][s]) /\ thread'[m][s].message.id = thread[m][s].message.id
               /\ HeldOK(m, thread[m][s], held[m][s], used, done)'
    <2>1. s \in Threads(m) /\ s # Main
      BY MessageHeld
    <2>2. m # n
      BY <1>3, <1>8, <2>1 DEF Carries
    <2>3. PICK k : k = thread[m][s]
      OBVIOUS
    <2>4. thread'[m][s] = k
      BY <1>4, <2>2, <2>3
    <2>5. HeldOK(m, k, held[m][s], used, done)'
      BY <1>1, <2>1, <2>3, OneLocal, HeldStays DEF Routes
    <2> QED
      BY <1>8, <2>3, <2>4, <2>5 DEF HeldOK
  <1>9. Routes(used, done, queued2, held)'
    BY <1>1, <1>6, <1>7, <1>8, RoutesKept
  <1> QED
    BY <1>9 DEF Routed

\* A message that is new has gone nowhere.
LEMMA NewUnsent ==
    ASSUME NEW used, UsedOK(used), NEW id \in Ids, origin[id] = NULL, NEW w, NEW S
    PROVE  Unsent(id, w, S, used)
  BY NetworkAssumption DEF UsedOK, Unsent

LEMMA RoutesJoin ==
    ASSUME NetworkInvariant, Routed, NEW n \in Nodes, JoinNetwork(n)
    PROVE  Routed'
  <1>1. PICK used, done, queued, held : Routes(used, done, queued, held)
    BY DEF Routed
  <1>2. n \in Ids /\ Reachable(n) \subseteq Nodes \ {n}
    BY NetworkAssumption DEF Reachable
  <1>3. /\ Issue(n, n, Nodes \ {n}, Reachable(n)) /\ origin[n] = NULL
        /\ thread' = [thread EXCEPT ![n] = ThreadsStarted(n)]
        /\ UNCHANGED <<incoming_messages, handled>>
    BY DEF JoinNetwork, Issue
  <1>4. HistoryKept
    BY <1>2, <1>3, IssueKeeps
  <1>5. /\ thread'[n][Main].pc = "announcing"
        /\ \A s \in Threads(n) \ {Main} : thread'[n][s].pc = "idle"
    BY <1>3 DEF NetworkInvariant, ThreadsOK, ThreadsStarted, Threads, Idle
  <1>6. \A m \in Nodes \ {n} : thread'[m] = thread[m]
    BY <1>3 DEF NetworkInvariant, ThreadsOK
  <1>7. Unsent(n, <<n>>, Nodes, used)
    BY <1>1, <1>2, <1>3, NewUnsent DEF Routes
  <1>8. ASSUME NEW m \in Nodes
        PROVE  MainSends(m, thread[m][Main], used)'
    <2>1. Main \in Threads(m) /\ MainOK(m, thread[m][Main])
      BY OneLocal DEF Threads
    <2>2. CASE m = n
      BY <1>5, <1>7, <2>2 DEF MainSends, Unsent
    <2>3. CASE m # n
      <3>1. PICK k : k = thread[m][Main]
        OBVIOUS
      <3>2. MainSends(m, k, used)'
        BY <1>1, <1>4, <2>1, <3>1, MainStays DEF Routes
      <3>3. thread'[m][Main] = k
        BY <1>6, <2>3, <3>1
      <3> QED
        BY <3>2, <3>3 DEF MainSends
    <2> QED
      BY <2>2, <2>3
  <1>9. ASSUME NEW m \in Nodes, NEW s \in InboxThreads[m], Carries(thread[m][s])'
        PROVE  /\ Carries(thread[m][s]) /\ thread'[m][s].message.id = thread[m][s].message.id
               /\ HeldOK(m, thread[m][s], held[m][s], used, done)'
    <2>1. s \in Threads(m) /\ s # Main
      BY MessageHeld
    <2>2. m # n
      BY <1>5, <1>9, <2>1 DEF Carries
    <2>3. PICK k : k = thread[m][s]
      OBVIOUS
    <2>4. thread'[m][s] = k
      BY <1>6, <2>2, <2>3
    <2>5. HeldOK(m, k, held[m][s], used, done)'
      BY <1>1, <1>4, <2>1, <2>3, OneLocal, HeldStays DEF Routes
    <2> QED
      BY <1>9, <2>3, <2>4, <2>5 DEF HeldOK
  <1>10. Routes(used, done, queued, held)'
    BY <1>1, <1>3, <1>4, <1>8, <1>9, RoutesKept
  <1> QED
    BY <1>10 DEF Routed

\* Main begins a broadcast of a message that has gone nowhere.
LEMMA RoutesBroadcastBegins ==
    ASSUME NetworkInvariant, HistoryKept, UNCHANGED <<handled, incoming_messages>>,
           NEW used, NEW done, NEW queued, NEW held, Routes(used, done, queued, held),
           NEW n \in Nodes, NEW id \in Ids, BroadcastBegins(n, id), origin'[id] = n,
           Unsent(id, <<n>>, Nodes, used)
    PROVE  Routed'
  <1>1. PICK l : /\ thread' = [thread EXCEPT ![n][Main] = l]
                 /\ l = IF peers[n] = {} THEN Idle
                        ELSE [pc |-> "locking", message |-> Broadcasting(n, id),
                              targets |-> {}, contexts |-> ContextsFor(n)]
    BY DEF BroadcastBegins
  <1>2. Main \in Threads(n)
    BY DEF Threads
  <1>3. MainSends(n, l, used)'
    BY <1>1 DEF MainSends, Idle, Broadcasting, Unsent
  <1> QED
    BY <1>1, <1>2, <1>3, RoutesThread DEF Routed

LEMMA RoutesBroadcast ==
    ASSUME NetworkInvariant, Routed, NEW n \in Nodes, NEW id \in Calls, Broadcast(n, id)
    PROVE  Routed'
  <1>1. PICK used, done, queued, held : Routes(used, done, queued, held)
    BY DEF Routed
  <1>2. id \in Ids /\ Reachable(n) \subseteq Nodes \ {n}
    BY NetworkAssumption DEF Reachable
  <1>3. /\ Issue(n, id, Nodes \ {n}, Reachable(n)) /\ origin[id] = NULL
        /\ BroadcastBegins(n, id)
        /\ UNCHANGED <<incoming_messages, handled>>
    BY DEF Broadcast, Issue
  <1>4. HistoryKept /\ origin'[id] = n
    BY <1>2, <1>3, IssueKeeps
  <1>5. Unsent(id, <<n>>, Nodes, used)
    BY <1>1, <1>2, <1>3, NewUnsent DEF Routes
  <1> QED
    BY <1>1, <1>2, <1>3, <1>4, <1>5, RoutesBroadcastBegins

LEMMA RoutesAnnounce ==
    ASSUME NetworkInvariant, Routed, NEW n \in Nodes, Announce(n)
    PROVE  Routed'
  <1>1. PICK used, done, queued, held : Routes(used, done, queued, held)
    BY DEF Routed
  <1>2. n \in Ids /\ Main \in Threads(n)
    BY NetworkAssumption DEF Threads
  <1>3. /\ thread[n][Main].pc = "announcing" /\ BroadcastBegins(n, n)
        /\ UNCHANGED <<incoming_messages, handled, origin, recipients>>
    BY DEF Announce, At, nodeVars
  <1>4. HistoryKept /\ origin'[n] = n
    BY <1>2, <1>3, OneLocal DEF HistoryKept, MainOK
  <1>5. Unsent(n, <<n>>, Nodes, used)
    BY <1>1, <1>3 DEF Routes, MainSends
  <1> QED
    BY <1>1, <1>2, <1>3, <1>4, <1>5, RoutesBroadcastBegins

LEMMA RoutesSend ==
    ASSUME NetworkInvariant, Routed, NEW n \in Nodes, NEW id \in Calls,
           NEW recipient \in Nodes \ {n}, Send(n, id, recipient)
    PROVE  Routed'
  <1>1. PICK used, done, queued, held : Routes(used, done, queued, held)
    BY DEF Routed
  <1> DEFINE l == [pc |-> "checking", message |-> Sending(id),
                   targets |-> {recipient}, contexts |-> 1]
  <1>2. /\ Issue(n, id, {recipient}, {recipient} \cap peers[n]) /\ origin[id] = NULL
        /\ thread' = [thread EXCEPT ![n][Main] = l]
        /\ UNCHANGED <<incoming_messages, handled>>
    BY DEF Send, SendBegins, Issue
  <1>3. id \in Ids /\ Main \in Threads(n)
    BY NetworkAssumption DEF Threads
  <1>4. HistoryKept /\ origin'[id] = n
    BY <1>2, <1>3, IssueKeeps
  <1>5. Unsent(id, <<n>>, {recipient}, used)
    BY <1>1, <1>2, <1>3, NewUnsent DEF Routes
  <1>6. MainSends(n, l, used)'
    BY <1>4, <1>5 DEF MainSends, Sending, Unsent
  <1> HIDE DEF l
  <1> QED
    BY <1>1, <1>2, <1>3, <1>4, <1>6, RoutesThread DEF Routed

LEMMA RoutesUserAddsPeer ==
    ASSUME NetworkInvariant, Routed, NEW n \in Nodes, NEW p \in Nodes, UserAddsPeer(n, p)
    PROVE  Routed'
  <1>1. PICK used, done, queued, held : Routes(used, done, queued, held)
    BY DEF Routed
  <1>2. PICK l : /\ thread' = [thread EXCEPT ![n][Main] = l]
                 /\ l = [Idle EXCEPT !.pc = "adding", !.targets = {p}]
    BY DEF UserAddsPeer
  <1>3. Main \in Threads(n) /\ HistoryKept /\ UNCHANGED <<handled, incoming_messages>>
    BY DEF Threads, HistoryKept, UserAddsPeer, nodeVars
  <1>4. MainSends(n, l, used)'
    BY <1>2 DEF MainSends, Idle
  <1> QED
    BY <1>1, <1>2, <1>3, <1>4, RoutesThread DEF Routed

\* The steps of a thread that neither send nor receive.
LEMMA RoutesLocalStep ==
    ASSUME NetworkInvariant, PeersPossible, Routed, UNCHANGED nodeVars,
           NEW n \in Nodes, NEW t \in Threads(n),
           \/ Lock(n, t) \/ Unlock(n, t) \/ AddPeer(n, t) \/ InsertStub(n, t)
           \/ t = Main /\ MainStep(n)
    PROVE  Routed'
  <1> DEFINE local == thread[n][t]
  <1>1. PICK used, done, queued, held : Routes(used, done, queued, held)
    BY DEF Routed
  <1>2. HistoryKept /\ UNCHANGED <<handled, origin>>
    BY DEF HistoryKept, nodeVars
  <1>3. /\ local \in Locals
        /\ t = Main => MainOK(n, local) /\ MainSends(n, local, used)
    BY <1>1, OneLocal DEF Routes
  <1>4. t # Main => InboxOK(n, local) /\ HeldOK(n, local, held[n][t], used, done)
    BY <1>1, OneLocal DEF Routes, Threads
  <1>5. UNCHANGED incoming_messages
    BY DEF Lock, Unlock, AddPeer, InsertStub, MainStep, SendChecked, SendThrows, SendReturns
  <1>6. ASSUME NEW l, thread' = [thread EXCEPT ![n][t] = l],
               t = Main => MainSends(n, l, used)',
               t # Main /\ Carries(l) =>
                    /\ Carries(local) /\ l.message.id = local.message.id
                    /\ HeldOK(n, l, held[n][t], used, done)'
        PROVE  Routed'
    BY <1>1, <1>2, <1>5, <1>6, RoutesThread DEF Routed
  <1>7. ASSUME NEW l, thread' = [thread EXCEPT ![n][t] = l], l.pc \in {"idle", "inserting"}
        PROVE  Routed'
    BY <1>6, <1>7 DEF MainSends, Carries
  <1>8. Idle.pc = "idle"
    BY DEF Idle
  <1>9. CASE Lock(n, t)
    <2>1. local.pc = "locking"
      BY <1>9 DEF Lock, At
    <2>2. PICK l : /\ thread' = [thread EXCEPT ![n][t] = l]
                   /\ l = IF t = Main THEN [local EXCEPT !.pc = "calling", !.targets = peers[n]]
                          ELSE [local EXCEPT !.pc = "calling",
                                             !.targets = Targets(n, local.message),
                                             !.message = Visited(n, local.message)]
      BY <1>9 DEF Lock
    <2>3. peers[n] \subseteq Nodes \ {n}
      BY MayPeerOthers DEF PeersPossible
    <2>4. CASE t = Main
      <3>1. l.pc = "calling" /\ l.message = local.message /\ l.targets = peers[n]
        BY <1>3, <2>2, <2>4 DEF Locals
      <3>2. MainSends(n, l, used)'
        BY <1>2, <1>3, <2>1, <2>3, <2>4, <3>1 DEF MainSends, Unsent
      <3> QED
        BY <1>6, <2>2, <2>4, <3>2
    <2>5. CASE t # Main
      <3>1. PICK m \in Messages : m = local.message
        BY <1>4, <2>1, <2>5 DEF InboxOK
      <3>2. l.pc = "calling" /\ l.message = Visited(n, m) /\ l.targets = Targets(n, m)
        BY <1>3, <2>2, <2>5, <3>1 DEF Locals
      <3>3. /\ Visited(n, m).id = m.id /\ Visited(n, m).is_broadcast = m.is_broadcast
            /\ Visited(n, m).visited_recipients = m.visited_recipients \cup {n}
        BY DEF Visited, Messages
      <3>4. /\ CameBy(n, m, held[n][t], used) /\ held[n][t] \notin done[n][m.id]
            /\ Unsent(m.id, held[n][t], Nodes, used)
        BY <1>4, <2>1, <2>5, <3>1 DEF HeldOK, Carries
      <3>5. CameBy(n, l.message, held[n][t], used)'
        BY <1>2, <3>2, <3>3, <3>4 DEF CameBy
      <3>6. HeldOK(n, l, held[n][t], used, done)'
        BY <2>3, <3>2, <3>3, <3>4, <3>5 DEF HeldOK, Unsent, Targets
      <3> QED
        BY <1>6, <2>1, <2>2, <2>5, <3>1, <3>2, <3>3, <3>6 DEF Carries
    <2> QED
      BY <2>4, <2>5
  <1>10. CASE Unlock(n, t)
    <2>1. CASE t = Main
      BY <1>7, <1>8, <1>10, <2>1 DEF Unlock
    <2>2. CASE t # Main
      <3>1. PICK l : thread' = [thread EXCEPT ![n][t] = l] /\ l = [local EXCEPT !.pc = "acting"]
        BY <1>10, <2>2 DEF Unlock
      <3>2. l.pc = "acting" /\ l.message = local.message /\ local.pc = "calling"
        BY <1>3, <1>10, <3>1 DEF Locals, Unlock, At
      <3>3. HeldOK(n, l, held[n][t], used, done)'
        BY <1>2, <1>4, <2>2, <3>2 DEF HeldOK, Carries, CameBy
      <3> QED
        BY <1>6, <2>2, <3>1, <3>2, <3>3 DEF Carries
    <2> QED
      BY <2>1, <2>2
  <1>11. CASE AddPeer(n, t)
    <2>1. PICK l : thread' = [thread EXCEPT ![n][t] = l] /\ l = [local EXCEPT !.pc = "inserting"]
      BY <1>11 DEF AddPeer
    <2>2. l.pc = "inserting"
      BY <1>3, <2>1 DEF Locals
    <2> QED
      BY <1>7, <2>1, <2>2
  <1>12. CASE InsertStub(n, t)
    BY <1>7, <1>8, <1>12 DEF InsertStub
  <1>13. CASE t = Main /\ (SendThrows(n) \/ SendReturns(n))
    BY <1>7, <1>8, <1>13 DEF SendThrows, SendReturns
  <1>14. CASE t = Main /\ SendChecked(n)
    <2>1. PICK l : thread' = [thread EXCEPT ![n][t] = l] /\ l = [local EXCEPT !.pc = "sending"]
      BY <1>14 DEF SendChecked
    <2>2. /\ l.pc = "sending" /\ l.message = local.message /\ l.targets = local.targets
          /\ local.pc = "checking"
      BY <1>3, <1>14, <2>1 DEF Locals, SendChecked, At
    <2>3. MainSends(n, l, used)'
      BY <1>2, <1>3, <1>14, <2>2 DEF MainSends, Unsent
    <2> QED
      BY <1>6, <1>14, <2>1, <2>3
  <1> QED
    BY <1>9, <1>10, <1>11, <1>12, <1>13, <1>14 DEF MainStep

\* The command is executed by the way its message came.
LEMMA RoutesAct ==
    ASSUME NetworkInvariant, Routed, NEW n \in Nodes, NEW t \in Threads(n), Act(n, t)
    PROVE  Routed'
  <1>1. PICK used, done, queued, held : Routes(used, done, queued, held)
    BY DEF Routed
  <1>2. PICK id \in Ids :
             /\ id = thread[n][t].message.id
             /\ t # Main
             /\ origin[id] \in Nodes /\ n \in recipients[id]
             /\ handled' = [handled EXCEPT ![n] = [handled[n] EXCEPT ![id] = handled[n][id] + 1]]
    BY ActHandles
  <1>3. /\ thread[n][t] \in Locals /\ thread[n][t].pc = "acting"
        /\ UNCHANGED <<incoming_messages, origin, recipients>>
        /\ thread' = [thread EXCEPT ![n][t] = act(n, thread[n][t])]
    BY OneLocal DEF Act, At
  <1>4. PICK l : l = act(n, thread[n][t])
    OBVIOUS
  <1>5. l.pc \in {"idle", "adding"}
    BY <1>3, <1>4 DEF act, node_joined_network, Idle, Locals
  <1>6. PICK w : w = held[n][t]
    OBVIOUS
  <1>7. /\ t \in InboxThreads[n] /\ Carries(thread[n][t])
        /\ w \in Ways[origin[id]][n] /\ w \in used[id] /\ w \notin done[n][id]
    BY <1>1, <1>2, <1>3, <1>6 DEF Routes, HeldOK, Carries, CameBy, Threads
  <1>8. PICK done2 : done2 = [m \in Nodes |-> [x \in Ids |->
                        IF m = n /\ x = id THEN done[n][id] \cup {w} ELSE done[m][x]]]
    OBVIOUS
  <1>9. \A m \in Nodes, x \in Ids :
            done2[m][x] = IF m = n /\ x = id THEN done[n][id] \cup {w} ELSE done[m][x]
    BY <1>8
  <1>10. \A m \in Nodes, x \in Ids :
            handled'[m][x] = IF m = n /\ x = id THEN handled[n][id] + 1 ELSE handled[m][x]
    BY <1>2 DEF NetworkInvariant, HistoryOK
  <1>11. \A m \in Nodes : \A s \in Threads(m) :
            thread'[m][s] = IF m = n /\ s = t THEN l ELSE thread[m][s]
    BY <1>3, <1>4 DEF NetworkInvariant, ThreadsOK
  <1>12. UsedOK(used)'
    BY <1>1, <1>3 DEF Routes, UsedOK
  <1>13. DoneOK(used, done2)'
    <2>1. /\ IsFiniteSet(done[n][id]) /\ Cardinality(done[n][id]) = handled[n][id]
      BY <1>1 DEF Routes, DoneOK
    <2>2. /\ IsFiniteSet(done[n][id] \cup {w})
          /\ Cardinality(done[n][id] \cup {w}) = handled[n][id] + 1
      BY <1>7, <2>1, FS_AddElement
    <2>3. ASSUME NEW m \in Nodes, NEW x \in Ids
          PROVE  /\ done2[m][x] \subseteq used[x]
                 /\ IsFiniteSet(done2[m][x]) /\ Cardinality(done2[m][x]) = handled'[m][x]
                 /\ origin[x] \in Nodes => done2[m][x] \subseteq Ways[origin[x]][m]
      <3>1. CASE m = n /\ x = id
        BY <1>1, <1>7, <1>9, <1>10, <2>2, <3>1 DEF Routes, DoneOK
      <3>2. CASE ~ (m = n /\ x = id)
        BY <1>1, <1>9, <1>10, <3>2 DEF Routes, DoneOK
      <3> QED
        BY <3>1, <3>2
    <2> QED
      BY <1>3, <2>3 DEF DoneOK
  <1>14. QueuedOK(used, done2, queued)'
    <2>1. ASSUME NEW m \in Nodes, NEW i \in 1..Len(queued[m])
          PROVE  queued[m][i] \notin done2[m][incoming_messages[m][i].id]
      <3>1. incoming_messages[m][i].id \in Ids
        BY <1>1, MessageQueued DEF Routes, QueuedOK, QueueOK
      <3>2. queued[m][i] \notin done[m][incoming_messages[m][i].id]
        BY <1>1 DEF Routes, QueuedOK, QueueOK
      <3>3. m = n /\ incoming_messages[m][i].id = id => queued[m][i] # w
        BY <1>1, <1>2, <1>6, <1>7 DEF Routes, HeldApart
      <3> QED
        BY <1>9, <3>1, <3>2, <3>3
    <2> QED
      BY <1>1, <1>3, <2>1 DEF Routes, QueuedOK, QueueOK, CameBy, Unsent
  <1>15. HeldApart(queued, held)'
    <2>1. ASSUME NEW m \in Nodes, NEW s \in InboxThreads[m], Carries(thread'[m][s])
          PROVE  thread'[m][s] = thread[m][s]
      <3>1. s \in Threads(m)
        BY DEF Threads
      <3> QED
        BY <1>5, <1>11, <2>1, <3>1 DEF Carries
    <2> QED
      BY <1>1, <1>3, <2>1 DEF Routes, HeldApart, Carries
  <1>16. ASSUME NEW m \in Nodes
         PROVE  MainSends(m, thread[m][Main], used)'
    <2>1. thread'[m][Main] = thread[m][Main]
      BY <1>2, <1>11 DEF Threads
    <2> QED
      BY <1>1, <1>3, <2>1 DEF Routes, MainSends, Unsent
  <1>17. ASSUME NEW m \in Nodes, NEW s \in InboxThreads[m]
         PROVE  HeldOK(m, thread[m][s], held[m][s], used, done2)'
    <2>1. s \in Threads(m) /\ (Carries(thread[m][s]) => thread[m][s].message.id \in Ids)
      BY MessageHeld
    <2>2. CASE m = n /\ s = t
      BY <1>5, <1>11, <2>1, <2>2 DEF HeldOK, Carries
    <2>3. CASE ~ (m = n /\ s = t)
      <3>1. PICK k : k = thread[m][s]
        OBVIOUS
      <3>2. thread'[m][s] = k
        BY <1>11, <2>1, <2>3, <3>1
      <3>3. HeldOK(m, k, held[m][s], used, done)
        BY <1>1, <3>1 DEF Routes
      <3>4. Carries(k) => held[m][s] \notin done2[m][k.message.id]
        <4>1. Carries(k) /\ m = n /\ k.message.id = id => held[m][s] # w
          BY <1>1, <1>2, <1>6, <1>7, <2>3, <3>1 DEF Routes, HeldApart
        <4> QED
          BY <1>9, <2>1, <3>1, <3>3, <4>1 DEF HeldOK
      <3>5. HeldOK(m, k, held[m][s], used, done2)'
        BY <1>3, <3>3, <3>4 DEF HeldOK, CameBy, Unsent
      <3> QED
        BY <3>2, <3>5 DEF HeldOK
    <2> QED
      BY <2>2, <2>3
  <1>18. Routes(used, done2, queued, held)'
    BY <1>12, <1>13, <1>14, <1>15, <1>16, <1>17 DEF Routes
  <1> QED
    BY <1>18 DEF Routed

\* The rest of a queue.
LEMMA QueueTail ==
    ASSUME NEW n \in Nodes, NEW q \in Seq(Messages), q # <<>>, NEW v, NEW used, NEW done,
           QueueOK(n, q, v, used, done)
    PROVE  /\ QueueOK(n, Tail(q), Tail(v), used, done)
           /\ Len(v) = Len(q) /\ 1 \in 1..Len(v) /\ Head(q) = q[1] /\ q[1] \in Messages
           /\ \A i \in 1..Len(Tail(v)) : /\ i + 1 \in 1..Len(v) /\ i + 1 # 1
                                         /\ Tail(v)[i] = v[i + 1] /\ Tail(q)[i] = q[i + 1]
  <1>1. /\ Len(q) \in Nat /\ Len(q) >= 1 /\ Len(v) = Len(q) /\ v \in Seq(Seq(Nodes)) /\ v # <<>>
        /\ Head(q) = q[1] /\ q[1] \in Messages
    <2>1. Len(q) \in Nat /\ Len(q) >= 1 /\ Head(q) = q[1] /\ q[1] \in Messages
      OBVIOUS
    <2> QED
      BY <2>1 DEF QueueOK
  <1>2. PICK r, x : r = Tail(q) /\ x = Tail(v)
    OBVIOUS
  <1>3. /\ x \in Seq(Seq(Nodes)) /\ Len(x) = Len(v) - 1
        /\ \A i \in 1..Len(x) : x[i] = v[i + 1]
    BY <1>1, <1>2
  <1>4. /\ Len(r) = Len(q) - 1
        /\ \A i \in 1..Len(r) : r[i] = q[i + 1]
    BY <1>1, <1>2
  <1>5. Len(x) = Len(r) /\ \A i \in 1..Len(x) : i + 1 \in 1..Len(v) /\ i + 1 # 1
    BY <1>1, <1>3, <1>4
  <1>6. \A i, j \in 1..Len(x) : i + 1 = j + 1 => i = j
    BY <1>1, <1>3
  <1>7. ASSUME NEW i \in 1..Len(x), NEW j \in 1..Len(x), r[i].id = r[j].id, x[i] = x[j]
        PROVE  i = j
    <2>1. q[i + 1].id = q[j + 1].id /\ v[i + 1] = v[j + 1]
      BY <1>3, <1>4, <1>5, <1>7
    <2> QED
      BY <1>5, <1>6, <2>1 DEF QueueOK
  <1>8. ASSUME NEW i \in 1..Len(x)
        PROVE  /\ CameBy(n, r[i], x[i], used) /\ Unsent(r[i].id, x[i], Nodes, used)
               /\ x[i] \notin done[n][r[i].id]
    <2>1. r[i] = q[i + 1] /\ x[i] = v[i + 1] /\ i + 1 \in 1..Len(v)
      BY <1>3, <1>4, <1>5
    <2> QED
      BY <2>1 DEF QueueOK
  <1>9. QueueOK(n, r, x, used, done)
    BY <1>3, <1>5, <1>7, <1>8 DEF QueueOK
  <1> QED
    BY <1>1, <1>2, <1>3, <1>4, <1>5, <1>9

LEMMA QueueStays ==
    ASSUME UNCHANGED origin, NEW n, NEW q, NEW v, NEW used, NEW done,
           QueueOK(n, q, v, used, done)
    PROVE  QueueOK(n, q, v, used, done)'
  BY DEF QueueOK, CameBy, Unsent

\* A thread takes the first message of the queue, with its way.
LEMMA RoutesDequeue ==
    ASSUME NetworkInvariant, Routed, UNCHANGED nodeVars,
           NEW n \in Nodes, NEW t \in Threads(n), t # Main, Dequeue(n, t)
    PROVE  Routed'
  <1>1. PICK used, done, queued, held : Routes(used, done, queued, held)
    BY DEF Routed
  <1>2. UNCHANGED <<handled, origin, recipients>>
    BY DEF nodeVars
  <1>3. PICK m : m = Head(incoming_messages[n])
    OBVIOUS
  <1>4. PICK l : /\ thread' = [thread EXCEPT ![n][t] = l]
                 /\ l = IF m.is_broadcast /\ n \in m.visited_recipients THEN Idle
                        ELSE [pc |-> IF m.is_broadcast THEN "locking" ELSE "acting",
                              message |-> m, targets |-> {}, contexts |-> 1]
    BY <1>3 DEF Dequeue
  <1>5. /\ incoming_messages[n] # <<>>
        /\ incoming_messages' = [incoming_messages EXCEPT ![n] = Tail(@)]
        /\ thread[n][t].pc = "idle"
    BY DEF Dequeue, At
  <1>6. /\ incoming_messages[n] \in Seq(Messages)
        /\ QueueOK(n, incoming_messages[n], queued[n], used, done)
    BY <1>1, MessageQueued DEF Routes, QueuedOK
  <1>7. PICK w : w = queued[n][1]
    OBVIOUS
  <1>8. 1 \in 1..Len(queued[n]) /\ m = incoming_messages[n][1] /\ m \in Messages
    BY <1>3, <1>5, <1>6, QueueTail
  <1>9. PICK queued2 : queued2 = [x \in Nodes |-> IF x = n THEN Tail(queued[n]) ELSE queued[x]]
    OBVIOUS
  <1>10. PICK held2 : held2 = [x \in Nodes |-> [s \in InboxThreads[x] |->
                                  IF x = n /\ s = t THEN w ELSE held[x][s]]]
    OBVIOUS
  <1>11. \A x \in Nodes : \A s \in InboxThreads[x] :
            held2[x][s] = IF x = n /\ s = t THEN w ELSE held[x][s]
    BY <1>10
  <1>12. \A x \in Nodes : \A s \in Threads(x) :
            thread'[x][s] = IF x = n /\ s = t THEN l ELSE thread[x][s]
    BY <1>4 DEF NetworkInvariant, ThreadsOK
  <1>13. /\ queued2[n] = Tail(queued[n]) /\ incoming_messages'[n] = Tail(incoming_messages[n])
         /\ \A i \in 1..Len(queued2[n]) :
              /\ i + 1 \in 1..Len(queued[n]) /\ i + 1 # 1 /\ queued2[n][i] = queued[n][i + 1]
              /\ incoming_messages'[n][i] = incoming_messages[n][i + 1]
    <2>1. queued2[n] = Tail(queued[n]) /\ incoming_messages'[n] = Tail(incoming_messages[n])
      BY <1>5, <1>9 DEF NetworkInvariant, QueuesOK
    <2>2. \A i \in 1..Len(Tail(queued[n])) :
              /\ i + 1 \in 1..Len(queued[n]) /\ i + 1 # 1
              /\ Tail(queued[n])[i] = queued[n][i + 1]
              /\ Tail(incoming_messages[n])[i] = incoming_messages[n][i + 1]
      BY <1>5, <1>6, QueueTail
    <2> QED
      BY <2>1, <2>2
  <1>14. \A x \in Nodes \ {n} : /\ queued2[x] = queued[x]
                                /\ incoming_messages'[x] = incoming_messages[x]
    BY <1>5, <1>9 DEF NetworkInvariant, QueuesOK
  <1>15. l.pc \in {"idle", "locking", "acting"} /\ (Carries(l) => l.message = m)
    BY <1>4 DEF Idle, Carries
  <1>16. UsedOK(used)' /\ DoneOK(used, done)'
    BY <1>1, <1>2 DEF Routes, UsedOK, DoneOK
  <1>17. QueuedOK(used, done, queued2)'
    <2>1. ASSUME NEW x \in Nodes
          PROVE  QueueOK(x, incoming_messages[x], queued2[x], used, done)'
      <3>1. PICK q : q = incoming_messages'[x]
        OBVIOUS
      <3>2. QueueOK(x, q, queued2[x], used, done)
        <4>1. CASE x = n
          BY <1>5, <1>6, <1>13, <3>1, <4>1, QueueTail
        <4>2. CASE x # n
          BY <1>1, <1>14, <3>1, <4>2 DEF Routes, QueuedOK
        <4> QED
          BY <4>1, <4>2
      <3>3. QueueOK(x, q, queued2[x], used, done)'
        BY <1>2, <3>2, QueueStays
      <3> QED
        BY <3>1, <3>3 DEF QueueOK
    <2> QED
      BY <2>1 DEF QueuedOK
  <1>18. HeldApart(queued2, held2)'
    <2>1. ASSUME NEW x \in Nodes, NEW s \in InboxThreads[x], NEW u \in InboxThreads[x],
                 Carries(thread'[x][s]), Carries(thread'[x][u]),
                 thread'[x][u].message.id = thread'[x][s].message.id,
                 held2[x][u] = held2[x][s]
          PROVE  u = s
      <3>1. s \in Threads(x) /\ u \in Threads(x)
        BY DEF Threads
      <3>2. ASSUME NEW v \in InboxThreads[n], v # t, Carries(thread[n][v]),
                   thread[n][v].message.id = m.id
            PROVE  held[n][v] # w
        BY <1>1, <1>7, <1>8, <3>2 DEF Routes, HeldApart
      <3>3. CASE x = n /\ s = t /\ u # t
        BY <1>11, <1>12, <1>15, <2>1, <3>1, <3>2, <3>3
      <3>4. CASE x = n /\ u = t /\ s # t
        BY <1>11, <1>12, <1>15, <2>1, <3>1, <3>2, <3>4
      <3>5. CASE x # n \/ (s # t /\ u # t)
        <4>1. /\ thread'[x][s] = thread[x][s] /\ thread'[x][u] = thread[x][u]
              /\ held2[x][s] = held[x][s] /\ held2[x][u] = held[x][u]
          BY <1>11, <1>12, <3>1, <3>5
        <4> QED
          BY <1>1, <2>1, <4>1 DEF Routes, HeldApart
      <3> QED
        BY <3>3, <3>4, <3>5
    <2>2. ASSUME NEW x \in Nodes, NEW s \in InboxThreads[x], Carries(thread'[x][s]),
                 NEW i \in 1..Len(queued2[x]),
                 incoming_messages'[x][i].id = thread'[x][s].message.id
          PROVE  queued2[x][i] # held2[x][s]
      <3>1. s \in Threads(x)
        BY DEF Threads
      <3>2. CASE x = n /\ s = t
        <4>1. /\ incoming_messages[n][i + 1].id = m.id /\ queued2[n][i] = queued[n][i + 1]
              /\ i + 1 \in 1..Len(queued[n]) /\ i + 1 # 1 /\ held2[x][s] = w
          BY <1>11, <1>12, <1>13, <1>15, <2>2, <3>1, <3>2
        <4> QED
          BY <1>1, <1>7, <1>8, <3>2, <4>1 DEF Routes, QueuedOK, QueueOK
      <3>3. CASE x = n /\ s # t
        <4>1. /\ thread'[n][s] = thread[n][s] /\ held2[n][s] = held[n][s]
              /\ incoming_messages'[n][i] = incoming_messages[n][i + 1]
              /\ queued2[n][i] = queued[n][i + 1] /\ i + 1 \in 1..Len(queued[n])
          BY <1>11, <1>12, <1>13, <2>2, <3>1, <3>3
        <4>2. Carries(thread[n][s])
          BY <2>2, <3>3, <4>1
        <4>3. \A j \in 1..Len(queued[n]) :
                 incoming_messages[n][j].id = thread[n][s].message.id
                 => queued[n][j] # held[n][s]
          BY <1>1, <3>3, <4>2 DEF Routes, HeldApart
        <4>4. incoming_messages[n][i + 1].id = thread[n][s].message.id
          BY <2>2, <3>3, <4>1
        <4> QED
          BY <3>3, <4>1, <4>3, <4>4
      <3>4. CASE x # n
        <4>1. thread'[x][s] = thread[x][s] /\ held2[x][s] = held[x][s]
          BY <1>11, <1>12, <3>1, <3>4
        <4> QED
          BY <1>1, <1>14, <2>2, <3>4, <4>1 DEF Routes, HeldApart
      <3> QED
        BY <3>2, <3>3, <3>4
    <2> QED
      BY <2>1, <2>2 DEF HeldApart, Carries
  <1>19. ASSUME NEW x \in Nodes
         PROVE  MainSends(x, thread[x][Main], used)'
    <2>1. thread'[x][Main] = thread[x][Main]
      BY <1>12 DEF Threads
    <2> QED
      BY <1>1, <1>2, <2>1 DEF Routes, MainSends, Unsent
  <1>20. ASSUME NEW x \in Nodes, NEW s \in InboxThreads[x]
         PROVE  HeldOK(x, thread[x][s], held2[x][s], used, done)'
    <2>1. s \in Threads(x)
      BY DEF Threads
    <2>2. CASE x = n /\ s = t
      <3>1. /\ CameBy(n, m, w, used) /\ Unsent(m.id, w, Nodes, used)
            /\ w \notin done[n][m.id]
        BY <1>1, <1>7, <1>8 DEF Routes, QueuedOK, QueueOK
      <3>2. HeldOK(n, l, w, used, done)'
        BY <1>2, <1>15, <3>1 DEF HeldOK, CameBy, Unsent
      <3>3. thread'[x][s] = l /\ held2[x][s] = w
        BY <1>11, <1>12, <2>1, <2>2
      <3> QED
        BY <2>2, <3>2, <3>3 DEF HeldOK
    <2>3. CASE ~ (x = n /\ s = t)
      <3>1. thread'[x][s] = thread[x][s] /\ held2[x][s] = held[x][s]
        BY <1>11, <1>12, <2>1, <2>3
      <3> QED
        BY <1>1, <1>2, <3>1 DEF Routes, HeldOK, CameBy, Unsent
    <2> QED
      BY <2>2, <2>3
  <1>21. Routes(used, done, queued2, held2)'
    BY <1>16, <1>17, <1>18, <1>19, <1>20 DEF Routes
  <1> QED
    BY <1>21 DEF Routed

-----------------------------------------------------------------------------
(* A message goes on: from the end of the way w that id went, to p.         *)

\* The ways that id went, with one more.
WithWay(used, id, w, p) == [used EXCEPT ![id] = @ \cup {Append(w, p)}]

\* The way is new, and so is whatever goes on from there.
OneMore(used, used2, id, w, p) ==
    /\ UsedOK(used2)
    /\ \A y \in Ids : used[y] \subseteq used2[y]
    /\ Append(w, p) \in used2[id]
    /\ Unsent(id, Append(w, p), Nodes, used2)
    /\ \A y \in Ids, v \in Seq(Nodes) : \A S \in SUBSET Nodes :
         Unsent(y, v, S, used) /\ (y = id /\ v = w => p \notin S) => Unsent(y, v, S, used2)

LEMMA OneStepMore ==
    ASSUME NEW used, UsedOK(used), NEW id \in Ids, origin[id] \in Nodes, NEW w \in Seq(Nodes),
           Len(w) = 1 \/ w \in used[id], Len(w) >= 1,
           NEW p \in Nodes, Append(w, p) \notin used[id]
    PROVE  OneMore(used, WithWay(used, id, w, p), id, w, p)
  <1>0. PICK used2 : used2 = WithWay(used, id, w, p)
    OBVIOUS
  <1>1. PICK x : x = Append(w, p)
    OBVIOUS
  <1>2. x \in Seq(Nodes) /\ Len(x) = Len(w) + 1 /\ x \notin used[id]
    BY <1>1
  <1>3. /\ used2 \in [Ids -> SUBSET Seq(Nodes)]
        /\ \A y \in Ids : used2[y] = IF y = id THEN used[id] \cup {x} ELSE used[y]
    BY <1>0, <1>1, <1>2 DEF UsedOK, WithWay
  <1>4. \A v \in Seq(Nodes), r \in Nodes : Append(v, r) = x <=> v = w /\ r = p
    BY <1>1, AppendInjective
  <1>5. UsedOK(used2)
    <2>1. \A y \in Ids : used2[y] # {} => origin[y] \in Nodes
      BY <1>3 DEF UsedOK
    <2>2. ASSUME NEW y \in Ids, NEW v \in Seq(Nodes), NEW r \in Nodes, Append(v, r) \in used2[y]
          PROVE  Len(v) <= 1 \/ v \in used2[y]
      <3>1. CASE Append(v, r) \in used[y]
        BY <1>3, <3>1 DEF UsedOK
      <3>2. CASE y = id /\ Append(v, r) = x
        <4>1. v = w
          BY <1>4, <3>2
        <4> QED
          BY <1>3, <3>2, <4>1
      <3> QED
        BY <1>3, <2>2, <3>1, <3>2
    <2> QED
      BY <1>3, <2>1, <2>2 DEF UsedOK
  <1>6. Unsent(id, x, Nodes, used2)
    <2>1. ASSUME NEW r \in Nodes
          PROVE  Append(x, r) \notin used2[id]
      <3>1. Append(x, r) # x
        BY <1>2
      <3>2. Append(x, r) \notin used[id]
        BY <1>2 DEF UsedOK
      <3> QED
        BY <1>3, <3>1, <3>2
    <2> QED
      BY <2>1 DEF Unsent
  <1>7. ASSUME NEW y \in Ids, NEW v \in Seq(Nodes), NEW S \in SUBSET Nodes,
               Unsent(y, v, S, used), y = id /\ v = w => p \notin S
        PROVE  Unsent(y, v, S, used2)
    BY <1>3, <1>4, <1>7 DEF Unsent
  <1> QED
    BY <1>0, <1>1, <1>3, <1>5, <1>6, <1>7 DEF OneMore

\* A queue that gets no message.
LEMMA QueueGrows ==
    ASSUME NEW n \in Nodes, NEW q \in Seq(Messages), NEW v, NEW used, NEW used2, NEW done,
           QueueOK(n, q, v, used, done),
           \A y \in Ids : used[y] \subseteq used2[y],
           \A i \in 1..Len(v) : Unsent(q[i].id, v[i], Nodes, used2)
    PROVE  QueueOK(n, q, v, used2, done)
  <1>1. \A i \in 1..Len(v) : q[i].id \in Ids
    <2>1. Len(v) = Len(q) /\ \A i \in 1..Len(q) : q[i] \in Messages
      BY DEF QueueOK
    <2> QED
      BY <2>1 DEF Messages
  <1> QED
    BY <1>1 DEF QueueOK, CameBy

\* A queue that gets the message m, which came by x.
LEMMA QueueAppend ==
    ASSUME NEW n \in Nodes, NEW q \in Seq(Messages), NEW v, NEW used, NEW done,
           QueueOK(n, q, v, used, done),
           NEW m \in Messages, NEW x \in Seq(Nodes), CameBy(n, m, x, used),
           Unsent(m.id, x, Nodes, used), x \notin done[n][m.id],
           \A i \in 1..Len(v) : q[i].id = m.id => v[i] # x
    PROVE  QueueOK(n, Append(q, m), Append(v, x), used, done)
  <1>1. PICK r, y : r = Append(q, m) /\ y = Append(v, x)
    OBVIOUS
  <1>2. v \in Seq(Seq(Nodes)) /\ Len(v) = Len(q) /\ Len(q) \in Nat
    BY DEF QueueOK
  <1>3. /\ y \in Seq(Seq(Nodes)) /\ Len(y) = Len(v) + 1 /\ y[Len(v) + 1] = x
        /\ \A i \in 1..Len(v) : y[i] = v[i]
    BY <1>1, <1>2
  <1>4. /\ Len(r) = Len(v) + 1 /\ r[Len(v) + 1] = m
        /\ \A i \in 1..Len(v) : r[i] = q[i]
    BY <1>1, <1>2
  <1>5. \A i \in 1..Len(y) : i \in 1..Len(v) \/ i = Len(v) + 1
    BY <1>2, <1>3
  <1>6. ASSUME NEW i \in 1..Len(y)
        PROVE  /\ CameBy(n, r[i], y[i], used) /\ Unsent(r[i].id, y[i], Nodes, used)
               /\ y[i] \notin done[n][r[i].id]
    BY <1>3, <1>4, <1>5 DEF QueueOK
  <1>7. ASSUME NEW i \in 1..Len(y), NEW j \in 1..Len(y), r[i].id = r[j].id, y[i] = y[j]
        PROVE  i = j
    <2>1. \A k \in 1..Len(v) : y[k] = v[k] /\ r[k] = q[k]
      BY <1>3, <1>4
    <2>2. \A k \in 1..Len(v) : ~ (r[k].id = m.id /\ y[k] = x)
      BY <2>1
    <2>3. CASE i \in 1..Len(v) /\ j \in 1..Len(v)
      BY <1>7, <2>1, <2>3 DEF QueueOK
    <2>4. CASE i \in 1..Len(v) /\ j = Len(v) + 1
      BY <1>3, <1>4, <1>7, <2>2, <2>4
    <2>5. CASE i = Len(v) + 1 /\ j \in 1..Len(v)
      BY <1>3, <1>4, <1>7, <2>2, <2>5
    <2> QED
      BY <1>5, <2>3, <2>4, <2>5
  <1>8. QueueOK(n, r, y, used, done)
    BY <1>3, <1>4, <1>6, <1>7 DEF QueueOK
  <1> QED
    BY <1>1, <1>8

\* What is in a queue that got a message.
LEMMA AppendHas ==
    ASSUME NEW S, NEW T, NEW q \in Seq(S), NEW v \in Seq(T), Len(v) = Len(q), NEW m, NEW x,
           NEW i \in 1..Len(Append(v, x))
    PROVE  \/ /\ i \in 1..Len(v)
              /\ Append(v, x)[i] = v[i] /\ Append(q, m)[i] = q[i]
           \/ Append(v, x)[i] = x /\ Append(q, m)[i] = m
  OBVIOUS

\* The way by which came what the thread t of n sends.
WayTo(held, n, t) == IF t = Main THEN <<n>> ELSE held[n][t]

\* What goes to p goes by a way to n, and on to p, that it has not gone.
GoesOn(n, t, p, m, w, used) ==
    /\ p \in MayPeer(n) /\ p \in Nodes
    /\ m \in Messages /\ m.id \in Ids /\ origin[m.id] \in Nodes
    /\ w \in Ways[origin[m.id]][n] /\ w \in Seq(Nodes) /\ Len(w) >= 1
    /\ Len(w) = 1 \/ w \in used[m.id]
    /\ t # Main => t \in InboxThreads[n] /\ Carries(thread[n][t]) /\ Len(w) >= 2
    /\ \A i \in 1..Len(w) : w[i] # p
    /\ m.is_broadcast => \A i \in 1..Len(w) : w[i] \in m.visited_recipients
    /\ Unsent(m.id, w, thread[n][t].targets, used)

LEMMA CallGoesOn ==
    ASSUME NetworkInvariant, PeersPossible,
           NEW used, NEW done, NEW queued, NEW held, Routes(used, done, queued, held),
           NEW n \in Nodes, NEW t \in Threads(n), thread[n][t].pc \in {"calling", "sending"},
           NEW p \in thread[n][t].targets
    PROVE  GoesOn(n, t, p, thread[n][t].message, WayTo(held, n, t), used)
  <1>0. PICK m, w : m = thread[n][t].message /\ w = WayTo(held, n, t)
    OBVIOUS
  <1> SUFFICES GoesOn(n, t, p, m, w, used)
    BY <1>0
  <1> USE DEF GoesOn
  <1>1. p \in MayPeer(n) /\ p \in Nodes /\ p # n
    BY MayPeerOthers DEF PeersPossible, Reaches
  <1>2. CASE t = Main
    <2>1. m \in Messages /\ m.id \in Ids /\ MainSends(n, thread[n][t], used)
      BY <1>0, <1>2, OneLocal DEF MainOK, Messages, Routes
    <2>2. /\ origin[m.id] = n
          /\ m.is_broadcast => m.visited_recipients = {n}
          /\ Unsent(m.id, <<n>>, thread[n][t].targets, used)
      BY <1>0, <2>1 DEF MainSends
    <2>3. w = <<n>> /\ w \in Seq(Nodes) /\ Len(w) = 1 /\ w[1] = n
      BY <1>0, <1>2 DEF WayTo
    <2> QED
      BY <1>1, <1>2, <2>1, <2>2, <2>3, WayAlone
  <1>3. CASE t # Main
    <2>1. t \in InboxThreads[n] /\ InboxOK(n, thread[n][t])
      BY <1>3, OneLocal DEF Threads
    <2>2. thread[n][t].pc = "calling" /\ m \in Messages /\ m.is_broadcast
      BY <1>0, <2>1 DEF InboxOK
    <2>3. HeldOK(n, thread[n][t], w, used, done) /\ Carries(thread[n][t])
      BY <1>0, <1>3, <2>1, <2>2 DEF Routes, Carries, WayTo
    <2>4. /\ CameBy(n, m, w, used) /\ Unsent(m.id, w, thread[n][t].targets, used)
          /\ n \in m.visited_recipients /\ p \notin m.visited_recipients
      BY <1>0, <2>2, <2>3 DEF HeldOK
    <2>5. m.id \in Ids /\ IsWay(origin[m.id], n, w)
      BY <2>2, <2>4, WaysAre DEF CameBy, Messages
    <2>6. \A i \in 1..Len(w) : w[i] \in m.visited_recipients
      <3>1. \A i \in 1..(Len(w) - 1) : w[i] \in m.visited_recipients
        BY <2>2, <2>4 DEF CameBy
      <3>2. w[Len(w)] = n /\ Len(w) \in Nat
        BY <2>5 DEF IsWay
      <3> QED
        BY <2>4, <3>1, <3>2
    <2> QED
      BY <1>1, <1>3, <2>1, <2>2, <2>3, <2>4, <2>5, <2>6 DEF CameBy, IsWay
  <1> QED
    BY <1>2, <1>3

\* Nothing else is at the end of the way w.
OthersElsewhere(n, t, id, w, queued, held, used2) ==
    /\ \A o \in Nodes : \A i \in 1..Len(queued[o]) :
          Unsent(incoming_messages[o][i].id, queued[o][i], Nodes, used2)
    /\ \A o \in Nodes : \A s \in InboxThreads[o] :
          ~ (o = n /\ s = t) /\ Carries(thread[o][s]) =>
            /\ thread[o][s].message.id = id => held[o][s] # w
            /\ held[o][s] \in Seq(Nodes)
    /\ \A o \in Nodes : <<o>> = w => o = n /\ t = Main

LEMMA OthersUnsent ==
    ASSUME NetworkInvariant,
           NEW used, NEW used2, NEW done, NEW queued, NEW held, Routes(used, done, queued, held),
           NEW n \in Nodes, NEW t \in Threads(n), NEW p \in Nodes, NEW message, NEW w,
           message = thread[n][t].message, w = WayTo(held, n, t),
           GoesOn(n, t, p, message, w, used), OneMore(used, used2, message.id, w, p)
    PROVE  OthersElsewhere(n, t, message.id, w, queued, held, used2)
  <1>0. PICK id : id = message.id
    OBVIOUS
  <1>7. /\ id = thread[n][t].message.id /\ origin[id] \in Nodes /\ w \in Ways[origin[id]][n]
        /\ t # Main => t \in InboxThreads[n] /\ Carries(thread[n][t]) /\ Len(w) >= 2
    BY <1>0 DEF GoesOn
  <1>8. \A y \in Ids, v \in Seq(Nodes) : \A S \in SUBSET Nodes :
           Unsent(y, v, S, used) /\ (y = id /\ v = w => p \notin S) => Unsent(y, v, S, used2)
    BY <1>0 DEF OneMore
  <1>9. (t = Main => w = <<n>>) /\ (t # Main => w = held[n][t])
    BY DEF WayTo
  <1>1. \A o \in Nodes : <<o>> = w => o = n /\ t = Main
    <2>1. TAKE o \in Nodes
    <2>2. SUFFICES ASSUME <<o>> = w PROVE o = n /\ t = Main
      OBVIOUS
    <2>3. Len(<<o>>) = 1
      OBVIOUS
    <2>4. t = Main
      <3>1. Len(w) = 1
        BY <2>2, <2>3, Zenon
      <3>2. ~ 1 >= 2
        OBVIOUS
      <3> QED
        BY <1>7, <3>1, <3>2, Zenon
    <2>5. <<o>> = <<n>>
      BY <1>9, <2>2, <2>4
    <2> QED
      BY <2>4, <2>5
  <1>2. ASSUME NEW o \in Nodes, NEW i \in 1..Len(queued[o])
        PROVE  Unsent(incoming_messages[o][i].id, queued[o][i], Nodes, used2)
    <2>1. PICK m \in Messages : m = incoming_messages[o][i]
      BY MessageQueued DEF Routes, QueuedOK, QueueOK
    <2>2. /\ CameBy(o, m, queued[o][i], used) /\ Unsent(m.id, queued[o][i], Nodes, used)
          /\ m.id \in Ids
      BY <2>1 DEF Routes, QueuedOK, QueueOK, Messages
    <2>3. queued[o][i] \in Seq(Nodes) /\ Len(queued[o][i]) >= 2
      BY <2>2, WaysAre DEF CameBy, IsWay
    <2>4. ASSUME m.id = id, queued[o][i] = w
          PROVE  FALSE
      <3>1. o = n
        BY <1>7, <2>2, <2>4, WayEnds DEF CameBy
      <3>2. t # Main
        <4>1. Len(<<n>>) = 1
          OBVIOUS
        <4>2. ~ 1 >= 2
          OBVIOUS
        <4> QED
          BY <1>9, <2>3, <2>4, <4>1, <4>2, Zenon
      <3> QED
        BY <1>7, <1>9, <2>1, <2>4, <3>1, <3>2 DEF Routes, HeldApart
    <2> QED
      BY <1>8, <2>1, <2>2, <2>3, <2>4
  <1>3. ASSUME NEW o \in Nodes, NEW s \in InboxThreads[o], ~ (o = n /\ s = t), Carries(thread[o][s])
        PROVE  /\ thread[o][s].message.id = id => held[o][s] # w
               /\ held[o][s] \in Seq(Nodes)
    <2>1. /\ CameBy(o, thread[o][s].message, held[o][s], used)
          /\ thread[o][s].message.id \in Ids
      BY <1>3, MessageHeld DEF Routes, HeldOK
    <2>2. held[o][s] \in Seq(Nodes) /\ Len(held[o][s]) >= 2
      BY <2>1, WaysAre DEF CameBy, IsWay
    <2>3. ASSUME thread[o][s].message.id = id, held[o][s] = w
          PROVE  FALSE
      <3>1. o = n
        BY <1>7, <2>1, <2>3, WayEnds DEF CameBy
      <3>2. t # Main
        <4>1. Len(<<n>>) = 1
          OBVIOUS
        <4>2. ~ 1 >= 2
          OBVIOUS
        <4> QED
          BY <1>9, <2>2, <2>3, <4>1, <4>2, Zenon
      <3> QED
        BY <1>3, <1>7, <1>9, <2>3, <3>1, <3>2 DEF Routes, HeldApart
    <2> QED
      BY <2>2, <2>3
  <1> QED
    BY <1>0, <1>1, <1>2, <1>3 DEF OthersElsewhere

\* The thread t of n calls p, and has one node less to call.
Called(n, t, p, l) ==
    /\ thread[n][t].pc \in {"calling", "sending"} /\ p \in thread[n][t].targets
    /\ RemoteCall(p, thread[n][t].message)
    /\ thread' = [thread EXCEPT ![n][t] = l]
    /\ l.pc = thread[n][t].pc /\ l.message = thread[n][t].message
    /\ l.targets = thread[n][t].targets \ {p}

LEMMA CallThread ==
    ASSUME NetworkInvariant, NEW n \in Nodes, NEW t \in Threads(n), CallPeer(n, t)
    PROVE  \E p, l : Called(n, t, p, l)
  <1> DEFINE local == thread[n][t]
  <1>1. PICK p \in local.targets \cap grpc_stub[n] :
          /\ RemoteCall(p, local.message)
          /\ thread' = [thread EXCEPT ![n][t] =
                [local EXCEPT !.targets = local.targets \ {p},
                              !.contexts = IF local.contexts = 0 THEN 0
                                           ELSE local.contexts - 1]]
    BY DEF CallPeer
  <1>2. local.pc \in {"calling", "sending"} /\ local \in Locals
    BY OneLocal DEF CallPeer, At
  <1>3. PICK l : l = [pc |-> local.pc, message |-> local.message, targets |-> local.targets \ {p},
                      contexts |-> IF local.contexts = 0 THEN 0 ELSE local.contexts - 1]
    OBVIOUS
  <1>4. [local EXCEPT !.targets = local.targets \ {p},
                      !.contexts = IF local.contexts = 0 THEN 0
                                   ELSE local.contexts - 1] = l
    BY <1>2, <1>3, CallEffect
  <1>5. thread' = [thread EXCEPT ![n][t] = l]
    BY <1>1, <1>4
  <1>6. l.pc = local.pc /\ l.message = local.message /\ l.targets = local.targets \ {p}
    BY <1>3
  <1>7. /\ p \in local.targets /\ local.pc \in {"calling", "sending"}
        /\ RemoteCall(p, local.message)
    BY <1>1, <1>2
  <1>8. Called(n, t, p, l)
    BY <1>5, <1>6, <1>7 DEF Called
  <1> QED
    BY <1>8

\* The message is queued at p: it came there by the way w and on to p.
LEMMA RoutesReceived ==
    ASSUME NetworkInvariant, UNCHANGED nodeVars, PeersPossible,
           NEW used, NEW done, NEW queued, NEW held, Routes(used, done, queued, held),
           NEW n \in Nodes, NEW t \in Threads(n), thread[n][t].pc \in {"calling", "sending"},
           NEW p \in thread[n][t].targets,
           incoming_messages' =
              [incoming_messages EXCEPT ![p] = Append(@, thread[n][t].message)],
           NEW l, thread' = [thread EXCEPT ![n][t] = l],
           l.pc = thread[n][t].pc, l.message = thread[n][t].message,
           l.targets = thread[n][t].targets \ {p}
    PROVE  Routed'
  <1>1. PICK m, w : m = thread[n][t].message /\ w = WayTo(held, n, t)
    OBVIOUS
  <1>2. PICK id : id = m.id
    OBVIOUS
  <1>3. /\ p \in MayPeer(n) /\ p \in Nodes
        /\ m \in Messages /\ id \in Ids /\ origin[id] \in Nodes
        /\ w \in Ways[origin[id]][n] /\ w \in Seq(Nodes) /\ Len(w) >= 1
        /\ Len(w) = 1 \/ w \in used[id]
        /\ t # Main => t \in InboxThreads[n] /\ Carries(thread[n][t]) /\ Len(w) >= 2
        /\ \A i \in 1..Len(w) : w[i] # p
        /\ m.is_broadcast => \A i \in 1..Len(w) : w[i] \in m.visited_recipients
        /\ Unsent(id, w, thread[n][t].targets, used)
    <2>1. GoesOn(n, t, p, m, w, used)
      BY <1>1, CallGoesOn
    <2> QED
      BY <1>2, <2>1 DEF GoesOn
  <1>4. PICK x : x = Append(w, p)
    OBVIOUS
  <1>5. /\ x \in Ways[origin[id]][p] /\ x \in Seq(Nodes) /\ Len(x) = Len(w) + 1
        /\ x \notin used[id]
    BY <1>3, <1>4, WayExtends DEF Unsent
  <1>6. PICK used2 : used2 = WithWay(used, id, w, p)
    OBVIOUS
  <1>7. /\ UsedOK(used2)
        /\ \A y \in Ids : used[y] \subseteq used2[y]
        /\ x \in used2[id]
        /\ Unsent(id, x, Nodes, used2)
        /\ \A y \in Ids, v \in Seq(Nodes) : \A S \in SUBSET Nodes :
              Unsent(y, v, S, used) /\ (y = id /\ v = w => p \notin S) => Unsent(y, v, S, used2)
    <2>1. UsedOK(used) /\ Append(w, p) \notin used[id]
      BY <1>4, <1>5 DEF Routes
    <2>2. OneMore(used, used2, id, w, p)
      BY <1>3, <1>6, <2>1, OneStepMore
    <2> QED
      BY <1>4, <2>2 DEF OneMore
  <1>8. /\ \A o \in Nodes : \A i \in 1..Len(queued[o]) :
              Unsent(incoming_messages[o][i].id, queued[o][i], Nodes, used2)
        /\ \A o \in Nodes : \A s \in InboxThreads[o] :
              ~ (o = n /\ s = t) /\ Carries(thread[o][s]) =>
              /\ thread[o][s].message.id = id => held[o][s] # w
              /\ held[o][s] \in Seq(Nodes)
        /\ \A o \in Nodes : <<o>> = w => o = n /\ t = Main
    <2>1. GoesOn(n, t, p, m, w, used)
      BY <1>1, CallGoesOn
    <2>2. OneMore(used, used2, m.id, w, p)
      BY <1>2, <1>4, <1>7 DEF OneMore
    <2>3. OthersElsewhere(n, t, m.id, w, queued, held, used2)
      BY <1>1, <1>3, <2>1, <2>2, OthersUnsent
    <2> QED
      BY <1>2, <2>3 DEF OthersElsewhere
  <1>9. CameBy(p, m, x, used2)
    <2>1. Len(x) - 1 = Len(w) /\ \A i \in 1..Len(w) : x[i] = w[i]
      BY <1>3, <1>4, <1>5
    <2>2. Len(x) >= 2
      BY <1>3, <1>5
    <2>3. m.is_broadcast => \A i \in 1..(Len(x) - 1) : x[i] \in m.visited_recipients
      BY <1>3, <2>1
    <2> QED
      BY <1>2, <1>3, <1>5, <1>7, <2>2, <2>3 DEF CameBy
  <1>10. UNCHANGED <<handled, origin>>
    BY DEF nodeVars
  <1>11. PICK queued2 : queued2 = [o \in Nodes |-> IF o = p THEN Append(queued[p], x)
                                                   ELSE queued[o]]
    OBVIOUS
  <1>12. /\ queued2[p] = Append(queued[p], x)
         /\ incoming_messages'[p] = Append(incoming_messages[p], m)
         /\ \A o \in Nodes \ {p} : /\ queued2[o] = queued[o]
                                   /\ incoming_messages'[o] = incoming_messages[o]
    BY <1>1, <1>3, <1>11 DEF NetworkInvariant, QueuesOK
  <1>13. \A o \in Nodes : \A s \in Threads(o) :
            thread'[o][s] = IF o = n /\ s = t THEN l ELSE thread[o][s]
    BY DEF NetworkInvariant, ThreadsOK
  <1>14. \A o \in Nodes : QueueOK(o, incoming_messages[o], queued[o], used2, done)
    BY <1>7, <1>8, MessageQueued, QueueGrows DEF Routes, QueuedOK
  <1>15. QueueOK(p, Append(incoming_messages[p], m), Append(queued[p], x), used2, done)
    <2>1. x \notin done[p][id]
      BY <1>3, <1>5 DEF Routes, DoneOK
    <2>2. \A i \in 1..Len(queued[p]) : incoming_messages[p][i].id = id => queued[p][i] # x
      BY <1>3, <1>5 DEF Routes, QueuedOK, QueueOK, CameBy
    <2>3. incoming_messages[p] \in Seq(Messages)
      BY <1>3, MessageQueued
    <2> QED
      BY <1>2, <1>3, <1>5, <1>7, <1>9, <1>14, <2>1, <2>2, <2>3, QueueAppend
  <1>23. \A i \in 1..Len(Append(queued[p], x)) :
              \/ /\ i \in 1..Len(queued[p])
                 /\ Append(queued[p], x)[i] = queued[p][i]
                 /\ Append(incoming_messages[p], m)[i] = incoming_messages[p][i]
              \/ Append(queued[p], x)[i] = x /\ Append(incoming_messages[p], m)[i] = m
    <2>1. /\ incoming_messages[p] \in Seq(Messages) /\ queued[p] \in Seq(Seq(Nodes))
          /\ Len(queued[p]) = Len(incoming_messages[p])
      BY <1>3, <1>14, MessageQueued DEF QueueOK
    <2> QED
      BY <2>1, AppendHas
  <1>16. QueuedOK(used2, done, queued2)'
    <2>1. ASSUME NEW o \in Nodes
          PROVE  QueueOK(o, incoming_messages[o], queued2[o], used2, done)'
      <3>1. PICK q : q = incoming_messages'[o]
        OBVIOUS
      <3>2. QueueOK(o, q, queued2[o], used2, done)
        BY <1>12, <1>14, <1>15, <3>1
      <3>3. QueueOK(o, q, queued2[o], used2, done)'
        BY <1>10, <3>2, QueueStays
      <3> QED
        BY <3>1, <3>3 DEF QueueOK
    <2> QED
      BY <2>1 DEF QueuedOK
  <1>17. UsedOK(used2)' /\ DoneOK(used2, done)'
    BY <1>7, <1>10 DEF Routes, UsedOK, DoneOK
  <1>18. \A o \in Nodes : \A s \in InboxThreads[o] :
            /\ Carries(thread'[o][s]) <=> Carries(thread[o][s])
            /\ thread'[o][s].message = thread[o][s].message
    BY <1>13 DEF Carries, Threads
  <1>19. HeldApart(queued2, held)'
    <2>1. ASSUME NEW o \in Nodes, NEW s \in InboxThreads[o], Carries(thread[o][s]),
                 NEW i \in 1..Len(queued2[o]),
                 incoming_messages'[o][i].id = thread[o][s].message.id
          PROVE  queued2[o][i] # held[o][s]
      <3>1. CASE /\ i \in 1..Len(queued[o]) /\ queued2[o][i] = queued[o][i]
                 /\ incoming_messages'[o][i] = incoming_messages[o][i]
        <4>1. \A j \in 1..Len(queued[o]) :
                 incoming_messages[o][j].id = thread[o][s].message.id
                 => queued[o][j] # held[o][s]
          BY <2>1 DEF Routes, HeldApart
        <4> QED
          BY <2>1, <3>1, <4>1
      <3>2. CASE o = p /\ queued2[o][i] = x /\ incoming_messages'[o][i] = m
        <4>1. thread[o][s].message.id = id
          BY <1>2, <2>1, <3>2
        <4>2. held[o][s] \in used[id]
          BY <2>1, <4>1 DEF Routes, HeldOK, CameBy
        <4> QED
          BY <1>5, <3>2, <4>2
      <3>3. CASE o # p
        BY <1>12, <2>1, <3>1, <3>3
      <3>4. CASE o = p
        <4>1. /\ queued2[o] = Append(queued[p], x) /\ i \in 1..Len(Append(queued[p], x))
              /\ incoming_messages'[o] = Append(incoming_messages[p], m)
          BY <1>12, <2>1, <3>4
        <4>2. CASE /\ i \in 1..Len(queued[p])
                   /\ Append(queued[p], x)[i] = queued[p][i]
                   /\ Append(incoming_messages[p], m)[i] = incoming_messages[p][i]
          BY <3>1, <3>4, <4>1, <4>2
        <4>3. CASE Append(queued[p], x)[i] = x /\ Append(incoming_messages[p], m)[i] = m
          BY <3>2, <3>4, <4>1, <4>3
        <4> QED
          BY <1>23, <4>1, <4>2, <4>3
      <3> QED
        BY <3>3, <3>4
    <2>2. ASSUME NEW o \in Nodes, NEW s \in InboxThreads[o], NEW u \in InboxThreads[o],
                 Carries(thread[o][s]), Carries(thread[o][u]),
                 thread[o][u].message.id = thread[o][s].message.id, held[o][u] = held[o][s]
          PROVE  u = s
      BY <2>2 DEF Routes, HeldApart
    <2> SUFFICES ASSUME NEW o \in Nodes, NEW s \in InboxThreads[o], Carries(thread'[o][s])
        PROVE  /\ \A u \in InboxThreads[o] :
                      /\ Carries(thread'[o][u])
                      /\ thread'[o][u].message.id = thread'[o][s].message.id
                      /\ held[o][u] = held[o][s]
                      => u = s
               /\ \A i \in 1..Len(queued2[o]) :
                      incoming_messages'[o][i].id = thread'[o][s].message.id
                      => queued2[o][i] # held[o][s]
      BY DEF HeldApart, Carries
    <2>3. Carries(thread[o][s]) /\ thread'[o][s].message.id = thread[o][s].message.id
      BY <1>18
    <2>4. ASSUME NEW u \in InboxThreads[o], Carries(thread'[o][u]),
                 thread'[o][u].message.id = thread'[o][s].message.id, held[o][u] = held[o][s]
          PROVE  u = s
      <3>1. Carries(thread[o][u]) /\ thread'[o][u].message = thread[o][u].message
        BY <1>18, <2>4
      <3> QED
        BY <2>2, <2>3, <2>4, <3>1
    <2> QED
      BY <2>1, <2>3, <2>4
  <1>20. ASSUME NEW o \in Nodes
         PROVE  MainSends(o, thread[o][Main], used2)'
    <2>1. Main \in Threads(o) /\ MainOK(o, thread[o][Main]) /\ thread[o][Main] \in Locals
      BY OneLocal DEF Threads
    <2>2. MainSends(o, thread[o][Main], used)
      BY DEF Routes
    <2>3. o \in Ids /\ <<o>> \in Seq(Nodes)
      BY NetworkAssumption
    <2>4. CASE o = n /\ t = Main
      <3>1. /\ origin[id] = n
            /\ m.is_broadcast => m.visited_recipients = {n}
            /\ Unsent(id, <<n>>, thread[n][t].targets, used)
        BY <1>1, <1>2, <2>2, <2>4 DEF MainSends
      <3>2. l.targets \in SUBSET Nodes /\ p \notin l.targets
        BY <2>1, <2>4 DEF Locals
      <3>3. Unsent(id, <<n>>, l.targets, used)
        BY <3>1 DEF Unsent
      <3>4. Unsent(id, <<n>>, l.targets, used2)
        BY <1>3, <1>7, <2>3, <2>4, <3>2, <3>3
      <3>5. thread'[o][Main] = l
        BY <1>13, <2>1, <2>4
      <3>6. MainSends(n, l, used2)
        <4>1. l.pc \in {"calling", "sending"} /\ l.message = m /\ l.message.id = id
          BY <1>1, <1>2
        <4> QED
          BY <3>1, <3>4, <4>1 DEF MainSends
      <3> QED
        BY <1>10, <2>4, <3>5, <3>6 DEF MainSends, Unsent
    <2>5. CASE ~ (o = n /\ t = Main)
      <3>1. PICK k : k = thread[o][Main]
        OBVIOUS
      <3>2. thread'[o][Main] = k
        BY <1>13, <2>1, <2>5, <3>1
      <3>3. k.targets \in SUBSET Nodes
        BY <2>1, <3>1 DEF Locals
      <3>4. k.pc \in {"locking", "calling", "checking", "sending"} => k.message.id \in Ids
        BY <2>1, <3>1 DEF MainOK, Messages
      <3>5. <<o>> # w
        BY <1>8, <2>5
      <3>6. MainSends(o, k, used2)
        BY <1>7, <2>2, <2>3, <3>1, <3>3, <3>4, <3>5 DEF MainSends
      <3> QED
        BY <1>10, <3>2, <3>6 DEF MainSends, Unsent
    <2> QED
      BY <2>4, <2>5
  <1>21. ASSUME NEW o \in Nodes, NEW s \in InboxThreads[o]
         PROVE  HeldOK(o, thread[o][s], held[o][s], used2, done)'
    <2>1. /\ s \in Threads(o) /\ thread[o][s] \in Locals
          /\ HeldOK(o, thread[o][s], held[o][s], used, done)
      BY MessageHeld DEF Routes
    <2>2. PICK k : k = thread[o][s]
      OBVIOUS
    <2>3. Carries(k) => k.message.id \in Ids
      BY <2>2, MessageHeld
    <2>4. k.targets \in SUBSET Nodes
      BY <2>1, <2>2 DEF Locals
    <2>5. CASE o = n /\ s = t
      <3>1. thread'[o][s] = l
        BY <1>13, <2>1, <2>5
      <3>2. s # Main
        BY MessageHeld
      <3>3. held[o][s] = w
        BY <1>1, <2>5, <3>2 DEF WayTo
      <3>4. k.pc = "calling" /\ l.pc = "calling" /\ l.message = m /\ l.targets = k.targets \ {p}
        BY <1>1, <1>3, <2>2, <2>5, <3>2 DEF Carries
      <3>5. /\ CameBy(n, m, w, used) /\ w \notin done[n][id]
            /\ Unsent(id, w, k.targets, used)
            /\ n \in m.visited_recipients /\ k.targets \cap m.visited_recipients = {}
        BY <1>1, <1>2, <2>1, <2>2, <2>5, <3>3, <3>4 DEF HeldOK, Carries
      <3>6. CameBy(n, m, w, used2)
        BY <1>2, <1>3, <1>7, <3>5 DEF CameBy
      <3>7. Unsent(id, w, l.targets, used)
        BY <3>4, <3>5 DEF Unsent
      <3>8. Unsent(id, w, l.targets, used2)
        BY <1>3, <1>7, <2>4, <3>4, <3>7
      <3>9. HeldOK(o, l, held[o][s], used2, done)
        BY <1>2, <2>5, <3>3, <3>4, <3>5, <3>6, <3>8 DEF HeldOK
      <3> QED
        BY <1>10, <3>1, <3>9 DEF HeldOK, CameBy, Unsent
    <2>6. CASE ~ (o = n /\ s = t)
      <3>1. thread'[o][s] = k
        BY <1>13, <2>1, <2>2, <2>6
      <3>2. Carries(k) => /\ k.message.id = id => held[o][s] # w
                          /\ held[o][s] \in Seq(Nodes)
        BY <1>8, <2>2, <2>6
      <3>3. HeldOK(o, k, held[o][s], used2, done)
        BY <1>7, <2>1, <2>2, <2>3, <2>4, <3>2 DEF HeldOK, CameBy
      <3> QED
        BY <1>10, <3>1, <3>3 DEF HeldOK, CameBy, Unsent
    <2> QED
      BY <2>5, <2>6
  <1>22. Routes(used2, done, queued2, held)'
    BY <1>16, <1>17, <1>19, <1>20, <1>21 DEF Routes
  <1> QED
    BY <1>22 DEF Routed

LEMMA RoutesCall ==
    ASSUME NetworkInvariant, PeersPossible, Routed, UNCHANGED nodeVars,
           NEW n \in Nodes, NEW t \in Threads(n), CallPeer(n, t)
    PROVE  Routed'
  <1>1. PICK used, done, queued, held : Routes(used, done, queued, held)
    BY DEF Routed
  <1>2. PICK p, l : Called(n, t, p, l)
    BY CallThread
  <1>3. /\ thread[n][t].pc \in {"calling", "sending"} /\ p \in thread[n][t].targets
        /\ RemoteCall(p, thread[n][t].message)
        /\ thread' = [thread EXCEPT ![n][t] = l]
        /\ l.pc = thread[n][t].pc /\ l.message = thread[n][t].message
        /\ l.targets = thread[n][t].targets \ {p}
    BY <1>2 DEF Called
  <1>4. CASE incoming_messages' = [incoming_messages EXCEPT ![p] = Append(@, thread[n][t].message)]
    BY <1>1, <1>4, <1>3, RoutesReceived
  <1>5. CASE UNCHANGED incoming_messages
    <2>1. HistoryKept /\ UNCHANGED <<handled, origin>>
      BY DEF HistoryKept, nodeVars
    <2>2. t = Main => MainSends(n, l, used)'
      <3>1. t = Main => MainSends(n, thread[n][t], used)
        BY <1>1 DEF Routes
      <3> QED
        BY <1>3, <2>1, <3>1 DEF MainSends, Unsent
    <2>3. t # Main /\ Carries(l) =>
             /\ Carries(thread[n][t]) /\ l.message.id = thread[n][t].message.id
             /\ HeldOK(n, l, held[n][t], used, done)'
      <3>1. t # Main => HeldOK(n, thread[n][t], held[n][t], used, done)
        BY <1>1 DEF Routes, Threads
      <3> QED
        BY <1>3, <2>1, <3>1 DEF HeldOK, Carries, CameBy, Unsent
    <2> QED
      BY <1>1, <1>5, <1>3, <2>1, <2>2, <2>3, RoutesThread DEF Routed
  <1> QED
    BY <1>4, <1>5, <1>3 DEF RemoteCall
-----------------------------------------------------------------------------
LEMMA RoutedInitially == Init => Routed
  <1> SUFFICES ASSUME Init PROVE Routed
    OBVIOUS
  <1>1. PICK used, done, queued, held :
          /\ used = [id \in Ids |-> {}] /\ done = [n \in Nodes |-> [id \in Ids |-> {}]]
          /\ queued = [n \in Nodes |-> <<>>] /\ held = <<>>
    OBVIOUS
  <1>2. /\ handled = [n \in Nodes |-> [id \in Ids |-> 0]]
        /\ incoming_messages = [n \in Nodes |-> <<>>]
        /\ thread = [n \in Nodes |-> NoThread(n)]
    BY DEF Init, BrokerInit
  <1>3. \A n \in Nodes : \A t \in Threads(n) : thread[n][t].pc = "off"
    BY <1>2 DEF NoThread, Idle
  <1>4. UsedOK(used)
    BY <1>1 DEF UsedOK
  <1>5. DoneOK(used, done)
    BY <1>1, <1>2, FS_EmptySet DEF DoneOK
  <1>6. QueuedOK(used, done, queued)
    BY <1>1, <1>2 DEF QueuedOK, QueueOK
  <1>7. \A n \in Nodes : /\ ~ Carries(thread[n][Main]) /\ thread[n][Main].pc = "off"
                         /\ \A t \in InboxThreads[n] : ~ Carries(thread[n][t])
    BY <1>3 DEF Carries, Threads
  <1>8. Routes(used, done, queued, held)
    BY <1>4, <1>5, <1>6, <1>7 DEF Routes, HeldApart, HeldOK, MainSends
  <1> QED
    BY <1>8 DEF Routed

LEMMA RoutedKept ==
    ASSUME NetworkInvariant, PeersPossible, Routed, [Next]_vars
    PROVE  Routed'
  <1>1. CASE UNCHANGED <<incoming_messages, thread, handled, origin>>
    <2>1. PICK used, done, queued, held : Routes(used, done, queued, held)
      BY DEF Routed
    <2>2. Routes(used, done, queued, held)'
      <3>1. UsedOK(used)' /\ DoneOK(used, done)'
        BY <1>1, <2>1 DEF Routes, UsedOK, DoneOK
      <3>2. QueuedOK(used, done, queued)'
        <4>1. ASSUME NEW n \in Nodes
              PROVE  QueueOK(n, incoming_messages[n], queued[n], used, done)'
          <5>1. PICK q : q = incoming_messages[n]
            OBVIOUS
          <5>2. QueueOK(n, q, queued[n], used, done)
            BY <2>1, <5>1 DEF Routes, QueuedOK
          <5>3. QueueOK(n, q, queued[n], used, done)'
            BY <1>1, <5>2, QueueStays
          <5> QED
            BY <1>1, <5>1, <5>3 DEF QueueOK
        <4> QED
          BY <4>1 DEF QueuedOK
      <3>3. HeldApart(queued, held)'
        BY <1>1, <2>1 DEF Routes, HeldApart, Carries
      <3>4. \A n \in Nodes : MainSends(n, thread[n][Main], used)'
        BY <1>1, <2>1 DEF Routes, MainSends, Unsent
      <3>5. \A n \in Nodes : \A t \in InboxThreads[n] :
               HeldOK(n, thread[n][t], held[n][t], used, done)'
        BY <1>1, <2>1 DEF Routes, HeldOK, Carries, CameBy, Unsent
      <3> QED
        BY <3>1, <3>2, <3>3, <3>4, <3>5 DEF Routes
    <2> QED
      BY <2>2 DEF Routed
  <1>2. CASE UNCHANGED vars
    BY <1>1, <1>2 DEF vars, brokerVars, nodeVars
  <1>3. CASE Next
    <2>1. PICK n \in Nodes :
            \/ JoinNetwork(n)
            \/ Listen(n) /\ UNCHANGED nodeVars
            \/ \E id \in Calls : Broadcast(n, id)
            \/ \E id \in Calls, recipient \in Nodes \ {n} : Send(n, id, recipient)
            \/ \E p \in Nodes : UserAddsPeer(n, p)
            \/ \E t \in Threads(n) : Step(n, t)
      BY <1>3 DEF Next
    <2>2. CASE Listen(n) /\ UNCHANGED nodeVars
      BY <1>1, <2>2 DEF Listen, nodeVars
    <2>3. ASSUME Terminate(n), UNCHANGED nodeVars
          PROVE  Routed'
      <3>1. HistoryKept /\ UNCHANGED handled
        BY <2>3 DEF HistoryKept, nodeVars
      <3> QED
        BY <2>3, <3>1, RoutesTerminate
    <2>4. ASSUME NEW t \in Threads(n), Step(n, t)
          PROVE  Routed'
      <3>1. CASE Act(n, t)
        BY <3>1, RoutesAct
      <3>2. CASE UnknownCommand(n, t)
        BY <2>3, <3>2 DEF UnknownCommand
      <3>3. CASE Announce(n)
        BY <3>3, RoutesAnnounce
      <3>4. CASE BrokerStep(n, t) /\ UNCHANGED nodeVars
        <4>1. CASE CallCrashes(n, t) \/ InsertCrashes(n, t)
          BY <2>3, <3>4, <4>1 DEF CallCrashes, InsertCrashes
        <4>2. CASE CallPeer(n, t)
          BY <3>4, <4>2, RoutesCall
        <4>3. CASE t # Main /\ Dequeue(n, t)
          BY <3>4, <4>3, RoutesDequeue
        <4>4. CASE \/ Lock(n, t) \/ Unlock(n, t) \/ AddPeer(n, t) \/ InsertStub(n, t)
                   \/ t = Main /\ MainStep(n)
          BY <3>4, <4>4, RoutesLocalStep
        <4> QED
          BY <3>4, <4>1, <4>2, <4>3, <4>4 DEF BrokerStep
      <3> QED
        BY <2>4, <3>1, <3>2, <3>3, <3>4 DEF Step
    <2> QED
      BY <2>1, <2>2, <2>4, RoutesJoin, RoutesBroadcast, RoutesSend, RoutesUserAddsPeer
  <1> QED
    BY <1>2, <1>3

\* No message is executed more often than there are ways to the node.
WithinWays ==
    \A n \in Nodes, id \in Ids :
        origin[id] \in Nodes => /\ NumberOfWays[origin[id]][n] \in Nat
                                /\ handled[n][id] <= NumberOfWays[origin[id]][n]

\* Who executed a message, by ways of its own, did it no more often than there
\* are ways.
LEMMA RoutedWithin ==
    ASSUME NetworkInvariant, Routed
    PROVE  WithinWays
  <1>1. PICK used, done, queued, held : Routes(used, done, queued, held)
    BY DEF Routed
  <1>2. ASSUME NEW n \in Nodes, NEW id \in Ids, origin[id] \in Nodes
        PROVE  /\ NumberOfWays[origin[id]][n] \in Nat
               /\ handled[n][id] <= NumberOfWays[origin[id]][n]
    <2>1. PICK ways : ways = Ways[origin[id]][n]
      OBVIOUS
    <2>2. IsFiniteSet(ways) /\ done[n][id] \subseteq ways
      BY <1>1, <1>2, <2>1, WaysFinite DEF Routes, DoneOK
    <2>3. Cardinality(ways) \in Nat /\ Cardinality(done[n][id]) <= Cardinality(ways)
      BY <2>2, FS_Subset, FS_CardinalityType
    <2>4. Cardinality(done[n][id]) = handled[n][id]
      BY <1>1 DEF Routes, DoneOK
    <2>5. NumberOfWays[origin[id]][n] = Cardinality(ways)
      BY <1>2, <2>1 DEF NumberOfWays
    <2> QED
      BY <2>3, <2>4, <2>5
  <1> QED
    BY <1>2 DEF WithinWays

\* What the last theorem needs of the past of a network.
NetworkHistory == OwnNames /\ PeersPossible /\ Routed

\* A node executes a message at most once for every way without a circle on which
\* the message can come to it, over peers that nodes ever may have: on the next
\* visit the visited_recipients of a broadcast tell that it was there
\* (MessageBroker.cc:77-96, 150-174).
THEOREM ExecutedByWays == Spec => []WithinWays
  <1>1. Init => NetworkHistory
    BY PeersInitially, RoutedInitially DEF NetworkHistory
  <1>2. NetworkInvariant /\ NetworkHistory /\ [Next]_vars => NetworkHistory'
    BY NamesKept, PeersKept, RoutedKept DEF NetworkHistory
  <1>3. NetworkInvariant /\ NetworkHistory => WithinWays
    BY RoutedWithin DEF NetworkHistory
  <1> QED
    BY <1>1, <1>2, <1>3, NetworkInductive, PTL DEF Spec
-----------------------------------------------------------------------------
(* The refinement of AbstractNetwork.                                       *)

LEMMA NumberOfWaysIsNumber ==
    ASSUME WithinWays', NEW n \in Nodes, NEW id \in Ids, origin'[id] \in Nodes,
           NEW k \in Nat, handled'[n][id] = k + 1
    PROVE  k < NumberOfWays[origin'[id]][n]
  <1>1. PICK o \in Nodes : o = origin'[id]
    OBVIOUS
  <1>2. NumberOfWays[o][n] \in Nat /\ handled'[n][id] <= NumberOfWays[o][n]
    BY <1>1, Zenon DEF WithinWays
  <1>3. PICK ways \in Nat : ways = NumberOfWays[o][n]
    BY <1>2, Zenon
  <1>4. k + 1 <= ways
    BY <1>2, <1>3, Zenon
  <1>5. k < ways
    BY <1>4
  <1> QED
    BY <1>1, <1>3, <1>5, Zenon

LEMMA AbstractInitially == Init => Abstract!Init
  BY DEF Init, Abstract!Init

LEMMA IssueIsAbstract ==
    ASSUME NetworkInvariant, Next,
           NEW n \in Nodes, NEW id \in Ids, NEW addressees, NEW reachable,
           Issue(n, id, addressees, reachable)
    PROVE  Abstract!Issue(n, id, addressees)
  BY DEF Issue, Abstract!Issue

LEMMA ActIsAbstract ==
    ASSUME NetworkInvariant, WithinWays', NEW n \in Nodes, NEW t \in Threads(n), Act(n, t)
    PROVE  Abstract!Next
  <1>1. PICK id \in Ids :
             /\ id = thread[n][t].message.id
             /\ t # Main
             /\ origin[id] \in Nodes /\ n \in recipients[id]
             /\ handled' = [handled EXCEPT ![n] = [handled[n] EXCEPT ![id] = handled[n][id] + 1]]
    BY ActHandles
  <1>2. UNCHANGED <<origin, recipients>>
    BY DEF Act
  <1>3. handled[n][id] \in Nat /\ handled'[n][id] = handled[n][id] + 1
    BY <1>1 DEF NetworkInvariant, HistoryOK
  <1>4. handled[n][id] < NumberOfWays[origin[id]][n]
    BY <1>1, <1>2, <1>3, NumberOfWaysIsNumber
  <1>5. handled' = [handled EXCEPT ![n][id] = @ + 1]
    BY <1>1
  <1>6. Abstract!Execute(n, id)
    BY <1>1, <1>2, <1>4, <1>5 DEF Abstract!Execute
  <1> QED
    BY <1>6 DEF Abstract!Next

LEMMA StepIsAbstract ==
    ASSUME NetworkInvariant, WithinWays', [Next]_vars
    PROVE  [Abstract!Next]_(Abstract!networkVars)
  <1> SUFFICES Abstract!Next \/ UNCHANGED <<origin, recipients, handled>>
    BY DEF Abstract!networkVars
  <1>1. CASE UNCHANGED vars
    BY <1>1 DEF vars, nodeVars
  <1>2. CASE Next
    <2>1. PICK n \in Nodes :
            \/ JoinNetwork(n)
            \/ Listen(n) /\ UNCHANGED nodeVars
            \/ \E id \in Calls : Broadcast(n, id)
            \/ \E id \in Calls, recipient \in Nodes \ {n} : Send(n, id, recipient)
            \/ \E p \in Nodes : UserAddsPeer(n, p)
            \/ \E t \in Threads(n) : Step(n, t)
      BY <1>2 DEF Next
    <2>2. CASE JoinNetwork(n)
      <3>1. n \in Ids /\ Abstract!Issue(n, n, Nodes \ {n})
        BY <1>2, <2>2, NetworkAssumption, IssueIsAbstract DEF JoinNetwork
      <3> QED
        BY <3>1 DEF Abstract!Next, Abstract!Broadcast
    <2>3. ASSUME NEW id \in Calls, Broadcast(n, id)
          PROVE  Abstract!Next
      <3>1. id \in Ids /\ Abstract!Issue(n, id, Nodes \ {n})
        BY <1>2, <2>3, NetworkAssumption, IssueIsAbstract DEF Broadcast
      <3> QED
        BY <3>1 DEF Abstract!Next, Abstract!Broadcast
    <2>4. ASSUME NEW id \in Calls, NEW recipient \in Nodes \ {n}, Send(n, id, recipient)
          PROVE  Abstract!Next
      <3>1. id \in Ids /\ Abstract!Issue(n, id, {recipient})
        BY <1>2, <2>4, NetworkAssumption, IssueIsAbstract DEF Send
      <3> QED
        BY <3>1 DEF Abstract!Next, Abstract!Send
    <2>5. CASE Listen(n) /\ UNCHANGED nodeVars
      BY <2>5 DEF nodeVars
    <2>6. CASE \E p \in Nodes : UserAddsPeer(n, p)
      BY <2>6 DEF UserAddsPeer, nodeVars
    <2>7. ASSUME NEW t \in Threads(n), Step(n, t)
          PROVE  Abstract!Next \/ UNCHANGED <<origin, recipients, handled>>
      BY <2>7, ActIsAbstract DEF Step, UnknownCommand, Announce, nodeVars
    <2> QED
      BY <2>1, <2>2, <2>3, <2>4, <2>5, <2>6, <2>7
  <1> QED
    BY <1>1, <1>2

\* The network implements the abstract one: every step issues a message to the
\* nodes that may get it, executes it at one of them, for which there still is a
\* way, or does nothing the abstract network sees (MessageBroker.cc:77-96,
\* MessageBroker.h:75-106).
THEOREM NetworkIsImplemented == Spec => ImplementsNetwork
  <1>1. NetworkInvariant /\ WithinWays' /\ [Next]_vars
            => [Abstract!Next]_(Abstract!networkVars)
    BY StepIsAbstract
  <1> QED
    BY <1>1, NetworkInductive, ExecutedByWays, AbstractInitially, PTL
    DEF Spec, ImplementsNetwork, Abstract!Spec
=============================================================================
