-------------------- MODULE AttentionBrokerServerProofs --------------------
(***************************************************************************)
(* For every set of calls, contexts and workers: calls of different         *)
(* contexts never share a network, a context is split only by calls that    *)
(* raced, only calls of the default context may be without a network, an    *)
(* answer OK means that the request was accepted, requests on duty keep a    *)
(* worker that can run unless the signal interrupts it, and the process     *)
(* ends after its queues are drained unless the signal came to a worker.    *)
(***************************************************************************)
EXTENDS AttentionBrokerServer, WorkerThreadsProofs

Names == Contexts \cup {NoContext}

\* What is known of a call once it has arrived.
CallsInvariant ==
    \A r \in Requests :
        /\ rpc[r] \in {"selecting", "creating", "enqueuing"}
              => type[r] \in RequestType /\ context[r] \in Names
        /\ network[r] # NULL
              => rpc[r] \notin {"none", "selecting", "creating"} /\ context[r] \in Names
        /\ rpc[r] = "none" => context[r] = NULL

\* The context a network was created for, and whether it was created.
Owner(n) == IF n = GLOBAL_CONTEXT THEN GLOBAL_CONTEXT ELSE Key(context[n])
Created(n) == n = GLOBAL_CONTEXT \/ rpc[n] # "none"

\* Networks are stored and selected under the context they were created for.
OwnersInvariant ==
    /\ \A c \in Contexts : hebbian_network[c] \notin {NULL, Absent}
          => Owner(hebbian_network[c]) = c /\ Created(hebbian_network[c])
    /\ \A r \in Requests : network[r] # NULL
          => Owner(network[r]) = Key(context[r]) /\ Created(network[r])

\* As long as a context has not raced, a call creates its network only if there
\* is none, and every call has the one in the map.
SplitInvariant ==
    \A r \in Requests :
        LET c == Key(context[r]) IN
        c \notin raced =>
            /\ rpc[r] = "creating" => hebbian_network[c] = Absent
            /\ Selected(r) => network[r] = hebbian_network[c]

\* What it takes for a call without a context to find no network: only such a call
\* makes a null entry, and only when it did not find the one of the constructor.
Excused == service_first \/ GLOBAL_CONTEXT \in raced

DefaultInvariant ==
    /\ hebbian_network[GLOBAL_CONTEXT] = Absent => service_first
    /\ \A c \in Contexts : hebbian_network[c] = NULL => c = GLOBAL_CONTEXT /\ Excused
    /\ \A r \in Requests : rpc[r] = "creating" /\ context[r] = NoContext => Excused
    /\ OnlyTheDefaultIsIgnored

\* The order of shutting down: the signal, then the API, then the flag.
ApiInvariant ==
    /\ phase \in {"serving", "shutdown"} => ~stop_flag
    /\ phase # "serving" => ~rpc_api_enabled
    /\ rpc_api_enabled => \A r \in Requests : arrival[r] # "none" => r \in accepted
    /\ \A r \in Requests : status[r] = "OK"
          => rpc[r] = "returned" /\ (arrival[r] # "none" => r \in accepted)

\* How far the two calls of graceful_shutdown are.  The first one joins the
\* threads in order, and never the one that runs the handler.
ShutdownInvariant ==
    /\ \A t \in Threads \ joinable : pc[t] = "stopped"
    /\ handler \in Threads => handler \in joinable
    /\ phase \in {"serving", "shutdown"} => stopper = "running" /\ joinable = Threads
    /\ phase = "stopping" => stopper \in {"joining", "returned", "terminated"}
    /\ phase = "stopping" /\ stopper = "joining"
          => cursor \in Threads /\ joinable = cursor..(ThreadsCount - 1)
    /\ phase = "destructor" => stopper = "returned"
    /\ phase = "stopping_again" => stopper \in {"joining", "terminated"}
    /\ phase = "interrupted" => stopper = "terminated"
    /\ stopper = "returned" => joinable = {}
    /\ phase \in {"destructor", "stopping_again"} => joinable = {}
    /\ stopper = "terminated" /\ handler \notin Threads /\ phase # "interrupted"
          => joinable = {}

\* The inductive invariant.
ServerInvariant ==
    /\ TypeOK /\ QueuesInvariant /\ CallsInvariant /\ OwnersInvariant
    /\ SplitInvariant /\ DefaultInvariant /\ ApiInvariant /\ ShutdownInvariant
-----------------------------------------------------------------------------
LEMMA InitServer == Init => ServerInvariant
  <1> SUFFICES ASSUME Init PROVE ServerInvariant
    OBVIOUS
  <1>1. QueuesInvariant
    BY InitThreads DEF Init, ThreadsInvariant
  <1>2. TypeOK
    BY <1>1, ContextAssumption DEF Init, TypeOK, QueuesInvariant, Networks
  <1>3. CallsInvariant /\ OwnersInvariant /\ SplitInvariant /\ DefaultInvariant
    BY ContextAssumption
    DEF Init, CallsInvariant, OwnersInvariant, Owner, Created, SplitInvariant, Selected,
        DefaultInvariant, Excused, OnlyTheDefaultIsIgnored
  <1>4. ApiInvariant /\ ShutdownInvariant
    BY ContextAssumption DEF Init, ThreadsInit, ApiInvariant, ShutdownInvariant
  <1> QED
    BY <1>1, <1>2, <1>3, <1>4 DEF ServerInvariant

\* What a step of the server is to its threads.
LEMMA ThreadSteps ==
    ASSUME CallsInvariant, Next
    PROVE  \/ UNCHANGED threadVars
           \/ \E callType \in RequestType, r \in Requests : Enqueue(callType, r)
           \/ \E t \in Threads : Worker(t)
           \/ \E r \in Requests : Reuse(r)
           \/ SetStopFlag
           \/ JoinWorker
           \/ Terminates
  <1>1. ASSUME NEW r \in Requests, Handler(r)
        PROVE  UNCHANGED threadVars \/ \E callType \in RequestType : Enqueue(callType, r)
    BY <1>1 DEF Handler, ReceiveNothing, Receive, SelectExisting, SelectMissing,
                CreateNetwork, EnqueueRequest, Reply, CallsInvariant
  <1>2. ASSUME NEW t, NEW m, Sigint(t, m) PROVE UNCHANGED threadVars
    BY <1>2 DEF Sigint
  <1>3. ASSUME Shutdown
        PROVE  UNCHANGED threadVars \/ SetStopFlag \/ JoinWorker \/ Terminates
    BY <1>3 DEF Shutdown, StopWorkers, Exit, JoinThrows
  <1>4. ASSUME NEW r \in Requests, CallAgain(r) PROVE UNCHANGED threadVars \/ Reuse(r)
    BY <1>4 DEF CallAgain
  <1> QED
    BY <1>1, <1>2, <1>3, <1>4 DEF Next, WorkerStep, SigintAgain

LEMMA QueuesKept ==
    ASSUME QueuesInvariant, CallsInvariant, Next
    PROVE  QueuesInvariant'
  <1>1. CASE UNCHANGED threadVars
    BY <1>1 DEF QueuesInvariant, ThreadsTypeOK, ExactlyOnce, Queued, Held,
                NeverStranded, OnDuty, threadVars, workerVars, stopVars, historyVars
  <1>2. CASE \E callType \in RequestType, r \in Requests : Enqueue(callType, r)
    BY <1>2, EnqueueKeeps
  <1>3. CASE \E t \in Threads : Worker(t)
    BY <1>3, TakeKeeps, FinishKeeps, IdleKeeps DEF Worker
  <1>4. CASE SetStopFlag
    BY <1>4, SetStopFlagKeeps
  <1>5. CASE JoinWorker
    BY <1>5, JoinKeeps DEF JoinWorker
  <1>6. CASE Terminates
    BY <1>6 DEF Terminates, QueuesInvariant, ThreadsTypeOK, ExactlyOnce, Queued,
                Held, NeverStranded, OnDuty, workerVars, historyVars
  <1>7. CASE \E r \in Requests : Reuse(r)
    BY <1>7, ReuseKeeps
  <1> QED
    BY <1>1, <1>2, <1>3, <1>4, <1>5, <1>6, <1>7, ThreadSteps

\* The steps that are no step of a handler and begin no new call leave the calls alone.
LEMMA CallsUnchanged ==
    ASSUME Next
    PROVE  \/ \E r \in Requests : Handler(r) \/ CallAgain(r)
           \/ UNCHANGED <<rpcVars, mapVars, raced>>
  BY DEF Next, WorkerStep, Sigint, Shutdown, StopWorkers, Exit, JoinThrows,
         SigintAgain, serverVars

\* A call leaves the shutdown alone.
LEMMA SignalsUnchanged ==
    ASSUME NEW r \in Requests, Handler(r) \/ CallAgain(r)
    PROVE  UNCHANGED signalVars
  BY DEF Handler, ReceiveNothing, Receive, SelectExisting, SelectMissing,
         CreateNetwork, EnqueueRequest, Reply, CallAgain

LEMMA KeyInContexts == \A c \in Names : Key(c) \in Contexts
  BY ContextAssumption DEF Names, Key

LEMMA CallsKept ==
    ASSUME TypeOK, CallsInvariant, Next
    PROVE  CallsInvariant'
  <1>1. CASE UNCHANGED <<rpcVars, mapVars, raced>>
    BY <1>1 DEF CallsInvariant, rpcVars
  <1>2. ASSUME NEW r \in Requests, Handler(r) PROVE CallsInvariant'
    <2> USE DEF TypeOK, CallsInvariant
    <2>1. CASE ReceiveNothing(r)
      BY <2>1 DEF ReceiveNothing
    <2>2. CASE \E callType \in RequestType, name \in Names : Receive(r, callType, name)
      BY <2>2 DEF Receive
    <2>3. CASE SelectExisting(r)
      BY <2>3 DEF SelectExisting
    <2>4. CASE SelectMissing(r)
      BY <2>4 DEF SelectMissing
    <2>5. CASE CreateNetwork(r)
      BY <2>5 DEF CreateNetwork
    <2>6. CASE EnqueueRequest(r)
      BY <2>6 DEF EnqueueRequest
    <2>7. CASE Reply(r)
      BY <2>7 DEF Reply
    <2> QED
      BY <1>2, <2>1, <2>2, <2>3, <2>4, <2>5, <2>6, <2>7 DEF Handler, Names
  <1>3. ASSUME NEW r \in Requests, CallAgain(r) PROVE CallsInvariant'
    BY <1>3 DEF CallAgain, TypeOK, CallsInvariant
  <1> QED
    BY <1>1, <1>2, <1>3, CallsUnchanged

\* The two halves of TypeOK.
CallsTypeOK ==
    /\ rpc \in [Requests -> {"none", "selecting", "creating", "enqueuing",
                             "replying", "returned"}]
    /\ type \in [Requests -> RequestType \cup {NULL}]
    /\ context \in [Requests -> Contexts \cup {NoContext, NULL}]
    /\ network \in [Requests -> Networks \cup {NULL}]
    /\ service_first \in BOOLEAN
    /\ hebbian_network \in [Contexts -> Networks \cup {NULL, Absent}]
    /\ status \in [Requests -> {"none", "OK", "CANCELLED"}]
    /\ raced \in SUBSET Contexts

SignalsTypeOK ==
    /\ rpc_api_enabled \in BOOLEAN
    /\ phase \in {"serving", "shutdown", "stopping", "destructor",
                  "stopping_again", "interrupted"}
    /\ handler \in Threads \cup Requests \cup {Main, NULL}
    /\ handler = NULL <=> phase = "serving"
    /\ held \in Mutexes \cup {NULL}

LEMMA TypeParts == TypeOK <=> ThreadsTypeOK /\ CallsTypeOK /\ SignalsTypeOK
  BY DEF TypeOK, CallsTypeOK, SignalsTypeOK

LEMMA CallsTypeKept ==
    ASSUME CallsTypeOK, CallsInvariant, NEW r \in Requests, Handler(r)
    PROVE  CallsTypeOK'
  <1> USE DEF CallsTypeOK, mapVars
  <1>1. rpc[r] \in {"selecting", "creating"} => Key(context[r]) \in Contexts
    BY KeyInContexts DEF CallsInvariant
  <1>2. CASE ReceiveNothing(r)
    BY <1>2 DEF ReceiveNothing
  <1>3. CASE \E callType \in RequestType, name \in Names : Receive(r, callType, name)
    BY <1>3 DEF Receive, Names
  <1>4. CASE SelectExisting(r)
    BY <1>1, <1>4 DEF SelectExisting, Known, RacedAt
  <1>5. CASE SelectMissing(r)
    BY <1>1, <1>5 DEF SelectMissing, RacedAt
  <1>6. CASE CreateNetwork(r)
    BY <1>1, <1>6 DEF CreateNetwork, NewEntry, RacedAt, Networks
  <1>7. CASE EnqueueRequest(r)
    BY <1>7 DEF EnqueueRequest
  <1>8. CASE Reply(r)
    BY <1>8 DEF Reply
  <1> QED
    BY <1>2, <1>3, <1>4, <1>5, <1>6, <1>7, <1>8 DEF Handler, Names

LEMMA CallAgainTypeKept ==
    ASSUME CallsTypeOK, NEW r \in Requests, CallAgain(r)
    PROVE  CallsTypeOK'
  BY DEF CallAgain, CallsTypeOK, mapVars

LEMMA SignalsTypeKept ==
    ASSUME SignalsTypeOK, ShutdownInvariant, Next
    PROVE  SignalsTypeOK'
  <1>1. ASSUME NEW t \in Threads \cup Requests \cup {Main}, NEW m \in Mutexes \cup {NULL},
               Sigint(t, m)
        PROVE  SignalsTypeOK'
    BY <1>1, NullAssumption, ContextAssumption DEF Sigint, DisableApi, SignalsTypeOK
  <1>2. CASE UNCHANGED signalVars
    BY <1>2 DEF signalVars, SignalsTypeOK
  <1>3. CASE StopWorkers
    BY <1>3 DEF StopWorkers, SignalsTypeOK
  <1>4. CASE Exit
    BY <1>4 DEF Exit, DisableApi, SignalsTypeOK
  <1>5. CASE SigintAgain
    BY <1>5 DEF SigintAgain, SignalsTypeOK, ShutdownInvariant
  <1> QED
    BY <1>1, <1>2, <1>3, <1>4, <1>5, SignalsUnchanged
    DEF Next, WorkerStep, Shutdown, JoinThrows, serverVars

LEMMA TypeKept ==
    ASSUME TypeOK, QueuesInvariant', CallsInvariant, ShutdownInvariant, Next
    PROVE  TypeOK'
  <1>1. ThreadsTypeOK'
    BY DEF QueuesInvariant
  <1>2. SignalsTypeOK'
    BY TypeParts, SignalsTypeKept
  <1>3. CASE \E r \in Requests : Handler(r)
    BY <1>1, <1>2, <1>3, TypeParts, CallsTypeKept DEF TypeOK, CallsTypeOK, SignalsTypeOK
  <1>5. CASE \E r \in Requests : CallAgain(r)
    BY <1>1, <1>2, <1>5, TypeParts, CallAgainTypeKept DEF TypeOK, CallsTypeOK, SignalsTypeOK
  <1>4. CASE UNCHANGED <<rpcVars, mapVars, raced>>
    BY <1>1, <1>2, <1>4 DEF TypeOK, SignalsTypeOK, rpcVars, mapVars
  <1> QED
    BY <1>3, <1>4, <1>5, CallsUnchanged

LEMMA OwnersKept ==
    ASSUME TypeOK, CallsInvariant, OwnersInvariant, Next
    PROVE  OwnersInvariant'
  <1>1. CASE UNCHANGED <<rpcVars, mapVars, raced>>
    BY <1>1 DEF OwnersInvariant, Owner, Created, Key, rpcVars, mapVars
  <1>2. ASSUME NEW r \in Requests, Handler(r) PROVE OwnersInvariant'
    <2>1. \A n \in Networks : n \notin {NULL, Absent} /\ (n = GLOBAL_CONTEXT \/ n \in Requests)
      BY NullAssumption, ContextAssumption DEF Networks
    \* A network that exists keeps its owner: its call does not arrive again.
    <2>2. \A n \in Networks : Created(n) => Owner(n)' = Owner(n) /\ Created(n)'
      <3>1. CASE \E callType \in RequestType, name \in Names : Receive(r, callType, name)
        BY <2>1, <3>1 DEF Receive, TypeOK, Owner, Created, Key
      <3>2. CASE context' = context /\ rpc'[r] # "none"
                 /\ \A x \in Requests \ {r} : rpc'[x] = rpc[x]
        BY <2>1, <3>2 DEF Owner, Created, Key
      <3> QED
        BY <1>2, <3>1, <3>2 DEF Handler, Names, TypeOK, ReceiveNothing, SelectExisting,
                                SelectMissing, CreateNetwork, EnqueueRequest, Reply
    <2>3. \A x \in Requests : network[x] # NULL => context'[x] = context[x]
      BY <1>2 DEF Handler, ReceiveNothing, Receive, SelectExisting, SelectMissing,
                  CreateNetwork, EnqueueRequest, Reply, CallsInvariant, TypeOK
    <2>4. CASE UNCHANGED <<network, hebbian_network>>
      BY <2>2, <2>3, <2>4 DEF OwnersInvariant, TypeOK, Key
    <2>5. CASE SelectExisting(r)
      <3>1. Key(context[r]) \in Contexts
        BY <2>5, KeyInContexts DEF SelectExisting, CallsInvariant
      <3>2. /\ network' = [network EXCEPT ![r] = hebbian_network[Key(context[r])]]
            /\ UNCHANGED <<hebbian_network, context>>
            /\ hebbian_network[Key(context[r])] # Absent
        BY <2>5 DEF SelectExisting, Known, mapVars
      <3> QED
        BY <2>2, <3>1, <3>2 DEF OwnersInvariant, TypeOK, Key
    <2>6. CASE CreateNetwork(r)
      <3>1. Key(context[r]) \in Contexts
        BY <2>6, KeyInContexts DEF CreateNetwork, CallsInvariant
      <3>2. /\ network' = [network EXCEPT ![r] = NewEntry(r)]
            /\ hebbian_network' = [hebbian_network EXCEPT ![Key(context[r])] = NewEntry(r)]
            /\ context' = context
            /\ NewEntry(r) \in {NULL, r}
        BY <2>6 DEF CreateNetwork, NewEntry
      <3>3. Owner(r)' = Key(context[r]) /\ Created(r)'
        BY <2>6, ContextAssumption DEF CreateNetwork, TypeOK, Owner, Created, Key
      <3> QED
        BY <2>2, <3>1, <3>2, <3>3 DEF OwnersInvariant, TypeOK, Key
    <2> QED
      BY <1>2, <2>4, <2>5, <2>6 DEF Handler, ReceiveNothing, Receive, SelectMissing,
                                    EnqueueRequest, Reply, mapVars
  <1>3. ASSUME NEW r \in Requests, CallAgain(r) PROVE OwnersInvariant'
    \* No network of this call is left.
    <2>1. /\ UNCHANGED hebbian_network
          /\ \A x \in Requests \ {r} :
                rpc'[x] = rpc[x] /\ context'[x] = context[x] /\ network'[x] = network[x]
          /\ network'[r] = NULL
          /\ \A c \in Contexts : hebbian_network[c] # r
          /\ \A x \in Requests \ {r} : network[x] # r
      BY <1>3 DEF CallAgain, TypeOK, mapVars
    <2>2. \A n \in Networks \ {r} : Created(n) => Owner(n)' = Owner(n) /\ Created(n)'
      BY <2>1 DEF Networks, Owner, Created, Key
    <2>3. \A c \in Contexts : hebbian_network[c] \in Networks \cup {NULL, Absent}
      BY DEF TypeOK
    <2>4. \A x \in Requests : network[x] \in Networks \cup {NULL}
      BY DEF TypeOK
    <2> QED
      BY <2>1, <2>2, <2>3, <2>4 DEF OwnersInvariant, Key
  <1> QED
    BY <1>1, <1>2, <1>3, CallsUnchanged

LEMMA SplitKept ==
    ASSUME CallsTypeOK, CallsInvariant, SplitInvariant, Next
    PROVE  SplitInvariant'
  <1> USE DEF Selected
  <1>1. CASE UNCHANGED <<rpcVars, mapVars, raced>>
    BY <1>1 DEF SplitInvariant, Key, rpcVars, mapVars
  <1>2. ASSUME NEW r \in Requests, Handler(r) PROVE SplitInvariant'
    <2> USE DEF CallsTypeOK, mapVars
    <2> DEFINE c == Key(context[r])
    <2>1. raced \subseteq raced'
      BY <1>2 DEF Handler, ReceiveNothing, Receive, SelectExisting, SelectMissing,
                  CreateNetwork, EnqueueRequest, Reply, RacedAt
    <2>2. CASE \E callType \in RequestType, name \in Names : Receive(r, callType, name)
      <3>1. /\ UNCHANGED <<network, hebbian_network, raced>>
            /\ rpc'[r] = "selecting"
            /\ \A x \in Requests \ {r} : rpc'[x] = rpc[x] /\ context'[x] = context[x]
        BY <2>2 DEF Receive
      <3> QED
        BY <3>1 DEF SplitInvariant, Key
    <2>3. CASE ReceiveNothing(r) \/ EnqueueRequest(r) \/ Reply(r)
      <3>1. /\ UNCHANGED <<network, context, hebbian_network, raced>>
            /\ rpc'[r] # "creating"
            /\ Selected(r)' => Selected(r)
            /\ \A x \in Requests \ {r} : rpc'[x] = rpc[x]
        BY <2>3 DEF ReceiveNothing, EnqueueRequest, Reply, CallsInvariant
      <3> QED
        BY <3>1 DEF SplitInvariant, Key
    <2>4. CASE SelectExisting(r)
      <3>1. /\ network' = [network EXCEPT ![r] = hebbian_network[c]]
            /\ UNCHANGED <<context, hebbian_network>>
            /\ rpc' = [rpc EXCEPT ![r] = "enqueuing"]
        BY <2>4 DEF SelectExisting
      <3> QED
        BY <2>1, <3>1 DEF SplitInvariant, Key
    <2>5. CASE SelectMissing(r)
      <3>1. /\ UNCHANGED <<network, context, hebbian_network>>
            /\ rpc' = [rpc EXCEPT ![r] = "creating"]
            /\ hebbian_network[c] = Absent \/ c \in raced'
        BY <2>5 DEF SelectMissing, Known, RacedAt
      <3> QED
        BY <2>1, <3>1 DEF SplitInvariant, Key
    <2>6. CASE CreateNetwork(r)
      <3>1. /\ network' = [network EXCEPT ![r] = NewEntry(r)]
            /\ hebbian_network' = [hebbian_network EXCEPT ![c] = NewEntry(r)]
            /\ UNCHANGED context
            /\ rpc[r] = "creating"
            /\ rpc' = [rpc EXCEPT ![r] = "enqueuing"]
            /\ c \notin raced' => ~OtherCreating(r)
        BY <2>6 DEF CreateNetwork, RacedAt
      <3>2. c \in Contexts
        BY <3>1, KeyInContexts DEF CallsInvariant
      <3> SUFFICES ASSUME NEW x \in Requests, Key(context[x]) \notin raced'
                   PROVE  /\ rpc'[x] = "creating" => hebbian_network'[Key(context[x])] = Absent
                          /\ Selected(x)' => network'[x] = hebbian_network'[Key(context[x])]
        BY <3>1 DEF SplitInvariant, Key
      <3>3. CASE x = r
        BY <3>1, <3>2, <3>3
      <3>4. CASE x # r /\ Key(context[x]) # c
        BY <2>1, <3>1, <3>2, <3>4 DEF SplitInvariant
      <3>5. CASE x # r /\ Key(context[x]) = c
        \* The context has not raced: no other call creates it or has selected it.
        <4>1. hebbian_network[c] = Absent
          BY <2>1, <3>1, <3>5 DEF SplitInvariant
        <4>2. ~Selected(x)
          BY <2>1, <3>5, <4>1, ContextAssumption DEF SplitInvariant, Networks
        <4>3. rpc[x] # "creating"
          BY <3>1, <3>5 DEF OtherCreating
        <4> QED
          BY <3>1, <3>5, <4>2, <4>3
      <3> QED
        BY <3>3, <3>4, <3>5
    <2> QED
      BY <1>2, <2>2, <2>3, <2>4, <2>5, <2>6 DEF Handler, Names
  <1>3. ASSUME NEW r \in Requests, CallAgain(r) PROVE SplitInvariant'
    <2>1. /\ UNCHANGED <<hebbian_network, service_first, raced>>
          /\ \A x \in Requests \ {r} :
                rpc'[x] = rpc[x] /\ context'[x] = context[x] /\ network'[x] = network[x]
          /\ rpc'[r] = "none"
      BY <1>3 DEF CallAgain, CallsTypeOK, mapVars
    <2> QED
      BY <2>1 DEF SplitInvariant, Key
  <1> QED
    BY <1>1, <1>2, <1>3, CallsUnchanged

LEMMA DefaultKept ==
    ASSUME CallsTypeOK, CallsInvariant, DefaultInvariant, Next
    PROVE  DefaultInvariant'
  <1> USE DEF DefaultInvariant, OnlyTheDefaultIsIgnored, Excused, Selected, mapVars
  <1>1. CASE UNCHANGED <<rpcVars, mapVars, raced>>
    BY <1>1 DEF Key, rpcVars
  <1>2. ASSUME NEW r \in Requests, Handler(r) PROVE DefaultInvariant'
    <2> USE DEF CallsTypeOK
    <2> DEFINE c == Key(context[r])
    <2>1. Excused => Excused'
      BY <1>2 DEF Handler, ReceiveNothing, Receive, SelectExisting, SelectMissing,
                  CreateNetwork, EnqueueRequest, Reply, RacedAt
    <2>2. CASE \E callType \in RequestType, name \in Names : Receive(r, callType, name)
      <3>1. /\ UNCHANGED <<network, hebbian_network, service_first, raced>>
            /\ rpc'[r] = "selecting"
            /\ \A x \in Requests \ {r} : rpc'[x] = rpc[x] /\ context'[x] = context[x]
        BY <2>2 DEF Receive
      <3> QED
        BY <3>1 DEF Key
    <2>3. CASE ReceiveNothing(r) \/ EnqueueRequest(r) \/ Reply(r)
      <3>1. /\ UNCHANGED <<network, context, hebbian_network, service_first, raced>>
            /\ rpc'[r] # "creating"
            /\ Selected(r)' => Selected(r)
            /\ \A x \in Requests \ {r} : rpc'[x] = rpc[x]
        BY <2>3 DEF ReceiveNothing, EnqueueRequest, Reply, CallsInvariant
      <3> QED
        BY <3>1 DEF Key
    <2>4. CASE SelectExisting(r)
      <3>1. /\ network' = [network EXCEPT ![r] = hebbian_network[c]]
            /\ UNCHANGED <<context, hebbian_network, service_first>>
            /\ rpc' = [rpc EXCEPT ![r] = "enqueuing"]
            /\ rpc[r] = "selecting"
        BY <2>4 DEF SelectExisting
      <3>2. c \in Contexts
        BY <3>1, KeyInContexts DEF CallsInvariant
      <3> QED
        BY <2>1, <3>1, <3>2 DEF Key
    <2>5. CASE SelectMissing(r)
      <3>1. /\ UNCHANGED <<network, context, hebbian_network, service_first>>
            /\ rpc' = [rpc EXCEPT ![r] = "creating"]
            /\ hebbian_network[c] = Absent \/ c \in raced'
        BY <2>5 DEF SelectMissing, Known, RacedAt
      <3>2. context[r] = NoContext => Excused'
        BY <3>1 DEF Key
      <3> QED
        BY <2>1, <3>1, <3>2 DEF Key
    <2>6. CASE CreateNetwork(r)
      <3>1. /\ network' = [network EXCEPT ![r] = NewEntry(r)]
            /\ hebbian_network' = [hebbian_network EXCEPT ![c] = NewEntry(r)]
            /\ UNCHANGED <<context, service_first>>
            /\ rpc[r] = "creating"
            /\ rpc' = [rpc EXCEPT ![r] = "enqueuing"]
        BY <2>6 DEF CreateNetwork
      <3>2. c \in Contexts
        BY <3>1, KeyInContexts DEF CallsInvariant
      <3>3. NewEntry(r) # Absent
        BY ContextAssumption DEF NewEntry
      <3>4. NewEntry(r) = NULL => c = GLOBAL_CONTEXT /\ Excused
        BY <3>1, NullAssumption DEF NewEntry, Key
      <3>5. /\ hebbian_network'[GLOBAL_CONTEXT] = Absent => service_first'
            /\ \A x \in Contexts : hebbian_network'[x] = NULL => x = GLOBAL_CONTEXT /\ Excused'
        BY <2>1, <3>1, <3>2, <3>3, <3>4
      <3>6. \A x \in Requests : rpc'[x] = "creating" /\ context'[x] = NoContext => Excused'
        BY <2>1, <3>1
      <3>7. OnlyTheDefaultIsIgnored'
        BY <2>1, <3>1, <3>4 DEF Key
      <3> QED
        BY <3>5, <3>6, <3>7
    <2> QED
      BY <1>2, <2>2, <2>3, <2>4, <2>5, <2>6 DEF Handler, Names
  <1>3. ASSUME NEW r \in Requests, CallAgain(r) PROVE DefaultInvariant'
    <2>1. /\ UNCHANGED <<hebbian_network, service_first, raced>>
          /\ \A x \in Requests \ {r} :
                rpc'[x] = rpc[x] /\ context'[x] = context[x] /\ network'[x] = network[x]
          /\ rpc'[r] = "none"
      BY <1>3 DEF CallAgain, CallsTypeOK, mapVars
    <2> QED
      BY <2>1 DEF Key
  <1> QED
    BY <1>1, <1>2, <1>3, CallsUnchanged

LEMMA ApiKept ==
    ASSUME TypeOK, CallsInvariant, ApiInvariant, ShutdownInvariant, Next
    PROVE  ApiInvariant'
  <1> USE DEF ApiInvariant
  <1>1. ASSUME NEW r \in Requests, Handler(r) PROVE ApiInvariant'
    <2>1. CASE EnqueueRequest(r)
      <3>1. /\ arrival' = [arrival EXCEPT ![r] = arrival'[r]]
            /\ accepted' = IF stop_flag THEN accepted ELSE accepted \cup {r}
            /\ UNCHANGED <<stop_flag, signalVars, status>>
            /\ rpc[r] = "enqueuing" /\ \A x \in Requests \ {r} : rpc'[x] = rpc[x]
        BY <2>1 DEF EnqueueRequest, Enqueue, stopVars, TypeOK, ThreadsTypeOK
      <3>2. rpc_api_enabled => ~stop_flag
        OBVIOUS
      <3> QED
        BY <3>1, <3>2 DEF TypeOK, ThreadsTypeOK, signalVars
    <2>2. CASE Reply(r)
      BY <2>2 DEF Reply, TypeOK, signalVars, threadVars, stopVars, historyVars
    <2>3. CASE UNCHANGED <<status, threadVars, signalVars>> /\ rpc[r] # "returned"
               /\ \A x \in Requests \ {r} : rpc'[x] = rpc[x]
      BY <2>3 DEF TypeOK, signalVars, threadVars, stopVars, historyVars
    <2> QED
      BY <1>1, <2>1, <2>2, <2>3
      DEF Handler, ReceiveNothing, Receive, SelectExisting, SelectMissing,
          CreateNetwork, TypeOK
  <1>2. CASE UNCHANGED <<rpc, status, arrival, accepted>> /\ rpc_api_enabled' = FALSE
             /\ phase' # "serving" /\ (phase' = "shutdown" => ~stop_flag')
    BY <1>2
  <1>3. ASSUME NEW t, NEW m, Sigint(t, m) PROVE ApiInvariant'
    BY <1>2, <1>3 DEF Sigint, DisableApi, rpcVars, threadVars, stopVars, historyVars
  <1>4. CASE StopWorkers \/ Exit \/ SigintAgain
    BY <1>2, <1>4 DEF StopWorkers, Exit, DisableApi, SigintAgain, SetStopFlag, Terminates,
                      rpcVars, threadVars, historyVars, ShutdownInvariant, TypeOK
  <1>5. CASE UNCHANGED <<rpc, status, arrival, accepted, stop_flag, signalVars>>
    BY <1>5 DEF signalVars
  <1>6. ASSUME \/ \E t \in Threads : WorkerStep(t)
               \/ JoinWorker /\ UNCHANGED serverVars
               \/ JoinThrows
        PROVE  UNCHANGED <<rpc, status, arrival, accepted, stop_flag, signalVars>>
    BY <1>6 DEF WorkerStep, Worker, TakeRequest, FinishRequest, Sleep, WakeUp,
                JoinWorker, Join, JoinThrows, Terminates, serverVars, rpcVars,
                stopVars, historyVars
  <1>7. ASSUME NEW r \in Requests, CallAgain(r) PROVE ApiInvariant'
    <2>1. /\ UNCHANGED <<stop_flag, signalVars>>
          /\ status'[r] = "none"
          /\ arrival'[r] = "none"
          /\ \A x \in Requests \ {r} :
                /\ rpc'[x] = rpc[x] /\ status'[x] = status[x] /\ arrival'[x] = arrival[x]
                /\ x \in accepted => x \in accepted'
      BY <1>7 DEF CallAgain, Reuse, TypeOK, ThreadsTypeOK, threadVars, stopVars, historyVars
    <2> QED
      BY <2>1 DEF signalVars
  <1> QED
    BY <1>1, <1>3, <1>4, <1>5, <1>6, <1>7 DEF Next, Shutdown

LEMMA ShutdownKept ==
    ASSUME TypeOK, CallsInvariant, ShutdownInvariant, Next
    PROVE  ShutdownInvariant'
  <1> USE DEF ShutdownInvariant
  <1>1. CASE /\ UNCHANGED <<signalVars, stopVars>>
             /\ \A t \in Threads : pc[t] = "stopped" => pc'[t] = "stopped"
    BY <1>1 DEF signalVars, stopVars
  <1>2. ASSUME NEW r \in Requests, Handler(r) PROVE ShutdownInvariant'
    <2>1. UNCHANGED threadVars \/ \E callType \in RequestType : Enqueue(callType, r)
      BY <1>2 DEF Handler, ReceiveNothing, Receive, SelectExisting, SelectMissing,
                  CreateNetwork, EnqueueRequest, Reply, CallsInvariant
    <2> QED
      BY <1>1, <1>2, <2>1, SignalsUnchanged, StoppedStays
      DEF TypeOK, threadVars, workerVars
  <1>3. ASSUME NEW t \in Threads, WorkerStep(t) PROVE ShutdownInvariant'
    BY <1>1, <1>3, StoppedStays DEF WorkerStep, TypeOK, serverVars
  <1>4. ASSUME NEW t, NEW m, Sigint(t, m) PROVE ShutdownInvariant'
    BY <1>4 DEF Sigint, threadVars, workerVars, stopVars
  <1>5. CASE StopWorkers
    BY <1>5, ThreadsAssumption DEF StopWorkers, SetStopFlag, workerVars, Threads
  <1>6. CASE JoinWorker /\ UNCHANGED serverVars
    <2>1. /\ Join /\ cursor # handler /\ cursor \in joinable
          /\ stopper = "joining" /\ joinable' = joinable \ {cursor}
          /\ UNCHANGED signalVars
      BY <1>6 DEF JoinWorker, Suspended, Join, serverVars
    <2>2. phase = "stopping"
      BY <2>1 DEF TypeOK
    <2>3. /\ \A t \in Threads \ joinable' : pc'[t] = "stopped"
          /\ stopper' = "joining"
                => cursor' \in Threads /\ joinable' = cursor'..(ThreadsCount - 1)
          /\ stopper' = "returned" => joinable' = {}
          /\ stopper' \in {"joining", "returned"}
      BY <2>1, <2>2, JoinInOrder DEF TypeOK
    <2> QED
      BY <2>1, <2>2, <2>3 DEF signalVars
  <1>7. CASE Exit
    BY <1>7 DEF Exit, threadVars, workerVars, stopVars
  <1>8. CASE JoinThrows
    <2>1. phase \in {"stopping", "stopping_again"} /\ stopper = "joining"
      BY <1>8 DEF JoinThrows, TypeOK
    <2>2. phase = "stopping" => handler \in Threads
      BY <1>8, <2>1, ThreadsAssumption DEF JoinThrows, Suspended, Threads
    <2>3. /\ stopper' = "terminated"
          /\ UNCHANGED <<pc, cursor, joinable, phase, handler>>
      BY <1>8 DEF JoinThrows, Terminates, serverVars, signalVars, workerVars
    <2> QED
      BY <2>1, <2>2, <2>3
  <1>9. CASE SigintAgain
    BY <1>9 DEF SigintAgain, Terminates, workerVars
  <1>10. ASSUME NEW r \in Requests, CallAgain(r) PROVE ShutdownInvariant'
    <2>1. UNCHANGED threadVars \/ Reuse(r)
      BY <1>10 DEF CallAgain
    <2> QED
      BY <1>1, <1>10, <2>1, SignalsUnchanged, StoppedStays
      DEF TypeOK, threadVars, workerVars
  <1> QED
    BY <1>2, <1>3, <1>4, <1>5, <1>6, <1>7, <1>8, <1>9, <1>10 DEF Next, Shutdown

LEMMA NextServer == ServerInvariant /\ [Next]_vars => ServerInvariant'
  <1> SUFFICES ASSUME ServerInvariant, [Next]_vars PROVE ServerInvariant'
    OBVIOUS
  <1> USE DEF ServerInvariant
  <1>1. CASE Next
    <2>1. CallsTypeOK
      BY TypeParts
    <2>2. QueuesInvariant'
      BY <1>1, QueuesKept
    <2>3. TypeOK'
      BY <1>1, <2>2, TypeKept
    <2>4. CallsInvariant' /\ OwnersInvariant' /\ SplitInvariant' /\ DefaultInvariant'
      BY <1>1, <2>1, CallsKept, OwnersKept, SplitKept, DefaultKept
    <2>5. ApiInvariant' /\ ShutdownInvariant'
      BY <1>1, ApiKept, ShutdownKept
    <2> QED
      BY <2>2, <2>3, <2>4, <2>5
  <1>2. CASE UNCHANGED vars
    <2> USE <1>2 DEF vars, threadVars, workerVars, stopVars, historyVars, serverVars,
                     rpcVars, mapVars, signalVars
    <2>1. QueuesInvariant'
      BY DEF QueuesInvariant, ThreadsTypeOK, ExactlyOnce, Queued, Held, NeverStranded, OnDuty
    <2>2. TypeOK'
      BY DEF TypeOK, ThreadsTypeOK
    <2>3. CallsInvariant' /\ OwnersInvariant' /\ SplitInvariant' /\ DefaultInvariant'
      BY DEF CallsInvariant, OwnersInvariant, Owner, Created, Key, SplitInvariant, Selected,
             DefaultInvariant, Excused, OnlyTheDefaultIsIgnored
    <2>4. ApiInvariant' /\ ShutdownInvariant'
      BY DEF ApiInvariant, ShutdownInvariant
    <2> QED
      BY <2>1, <2>2, <2>3, <2>4
  <1> QED
    BY <1>1, <1>2

LEMMA ServerInvariantHolds == Spec => []ServerInvariant
  BY InitServer, NextServer, PTL DEF Spec
-----------------------------------------------------------------------------
\* The state of the handlers, the contexts and the shutdown is well formed
\* (AttentionBrokerServer.cc:6-95, main.cc:16-35).
THEOREM ServerWellFormed == Spec => []TypeOK
  BY ServerInvariantHolds, PTL DEF ServerInvariant

\* The workers keep their promise inside the process, with the handlers, the signals
\* and the second join around them: no request is lost or handed out twice, and one
\* that arrived on duty has a worker that can go on, unless the signal interrupted
\* one of its workers on duty or a holder of the mutex of its queue
\* (WorkerThreads.cc:60-83, main.cc:18-23).
THEOREM ServerHandlesOnce == Spec => [](ExactlyOnce /\ ServedUnlessInterrupted)
  <1>1. ServerInvariant => ServedUnlessInterrupted
    <2> SUFFICES ASSUME ServerInvariant, NEW q \in RequestType,
                        \E i \in 1..Len(queue[q]) : arrival[queue[q][i]] = "on_duty"
                 PROVE  \/ \E t \in Threads : TypeOf(t) = q /\ OnDuty(t) /\ CanRun(t)
                        \/ handler \in Threads /\ TypeOf(handler) = q /\ OnDuty(handler)
                        \/ held = q
      BY DEF ServedUnlessInterrupted
    <2>1. PICK t \in Threads : TypeOf(t) = q /\ OnDuty(t)
      BY DEF ServerInvariant, QueuesInvariant, NeverStranded
    <2>2. CASE handler = t
      BY <2>1, <2>2
    <2>3. CASE handler # t /\ held # q
      BY <2>1, <2>3 DEF CanRun, Suspended, Blocked, OnDuty
    <2> QED
      BY <2>2, <2>3
  <1>2. ServerInvariant => ExactlyOnce
    BY DEF ServerInvariant, QueuesInvariant
  <1> QED
    BY <1>1, <1>2, ServerInvariantHolds, PTL

\* AttentionBrokerServer.cc:79-95: calls that name different contexts never work
\* on the same network, since each network is only found under the context it
\* was created for.
THEOREM CallsOfContextsIsolated == Spec => []ContextsIsolated
  <1>1. ServerInvariant => ContextsIsolated
    BY DEF ServerInvariant, OwnersInvariant, ContextsIsolated, Key
  <1> QED
    BY <1>1, ServerInvariantHolds, PTL

\* AttentionBrokerServer.cc:87-92: a context none of whose lookups overlapped an
\* insertion by another call has one network for all its calls.
THEOREM UnracedContextsWhole == Spec => []UnracedContextHasOneNetwork
  <1>1. ServerInvariant => UnracedContextHasOneNetwork
    BY DEF ServerInvariant, SplitInvariant, UnracedContextHasOneNetwork
  <1> QED
    BY <1>1, ServerInvariantHolds, PTL

\* AttentionBrokerServer.cc:18, 84-91: a call is ignored only if it is one of the
\* default context, and only after one of the two accidents.
THEOREM OnlyDefaultCallsIgnored == Spec => []OnlyTheDefaultIsIgnored
  <1>1. ServerInvariant => OnlyTheDefaultIsIgnored
    BY DEF ServerInvariant, DefaultInvariant
  <1> QED
    BY <1>1, ServerInvariantHolds, PTL

\* AttentionBrokerServer.cc:31-34, 51-54: a call that was answered OK had its
\* request queued before stop_flag was set.
THEOREM OKMeansAccepted == Spec => []AnsweredOKBeforeStop
  <1>1. ServerInvariant => AnsweredOKBeforeStop
    BY DEF ServerInvariant, ApiInvariant, AnsweredOKBeforeStop
  <1> QED
    BY <1>1, ServerInvariantHolds, PTL

\* main.cc:18-23: a process that ends without a worker having got the signal, and
\* without a second signal, ends in the second graceful_shutdown, when all workers
\* were joined; so its queues were drained.
THEOREM ProcessEndsDrained == Spec => []EndsDrained
  <1>1. ServerInvariant => EndsDrained
    <2> SUFFICES ASSUME ServerInvariant, stopper = "terminated", handler \notin Threads,
                        phase # "interrupted"
                 PROVE  /\ \A t \in Threads : pc[t] = "stopped"
                        /\ \A r \in Requests : arrival[r] = "on_duty" => r \in processed
      BY DEF EndsDrained
    <2>1. \A t \in Threads : pc[t] = "stopped"
      BY DEF ServerInvariant, ShutdownInvariant
    <2> QED
      BY <2>1, EndedDrains DEF ServerInvariant
  <1> QED
    BY <1>1, ServerInvariantHolds, PTL
=============================================================================
