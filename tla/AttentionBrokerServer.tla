----------------------- MODULE AttentionBrokerServer -----------------------
(***************************************************************************)
(* The gRPC service of the attention broker (AttentionBrokerServer.cc) and  *)
(* the process around it (main.cc), composed with its worker threads.       *)
(*                                                                          *)
(* gRPC serves every call in a thread of its own.  A call of stimulate or   *)
(* correlate selects the Hebbian network of its context, stores it in the   *)
(* request, enqueues a pointer to the request and answers; when the handler *)
(* returns, gRPC destroys the request message.  No lock is held between     *)
(* these steps.  SIGINT runs graceful_shutdown and exit in the thread that  *)
(* receives the signal, with the mutexes that thread holds at this moment,  *)
(* and exit runs the destructor of the static service, which runs           *)
(* graceful_shutdown again.                                                 *)
(***************************************************************************)
EXTENDS WorkerThreads

CONSTANTS
    Contexts,         \* the context names a caller may give
    GLOBAL_CONTEXT,   \* the name of the default context
    NoContext,        \* the empty context name
    Absent,           \* no entry in the map
    Main              \* the main thread, or one of gRPC's that serves no call

ASSUME ContextAssumption ==
    /\ GLOBAL_CONTEXT \in Contexts
    /\ NoContext \notin Contexts
    /\ GLOBAL_CONTEXT \notin Requests
    /\ NULL \notin Contexts \cup {NoContext}
    /\ Absent \notin Requests \cup Contexts \cup {NULL}
    /\ Main \notin Threads \cup Requests \cup {NULL}
    /\ NULL \notin Threads /\ Requests \cap Threads = {}

\* A HebbianNetwork object is named after the call that created it; the
\* constructor creates the network of the global context.
Networks == Requests \cup {GLOBAL_CONTEXT}

VARIABLES
    rpc,               \* where the handler of each call is
    type,              \* which of the two calls it is
    context,           \* the context each call names
    network,           \* the network each request carries, or NULL
    service_first,     \* static initialisation: is service before GLOBAL_CONTEXT
    hebbian_network,   \* the entry of each context: a network, NULL or Absent
    status,            \* the status each call answered
    rpc_api_enabled,
    phase,             \* how far main.cc is from service to exit
    handler,           \* the thread that runs ctrl_c_handler, or NULL: a worker,
                       \* the thread of a call (named after the call) or Main
    held,              \* the mutex this thread was interrupted with: of a queue
                       \* (named after its type), "stop_flag", or NULL
    raced              \* history: the contexts looked up or created while
                       \* another call was about to insert into the map

rpcVars == <<rpc, type, context, network, status>>
signalVars == <<rpc_api_enabled, phase, handler, held>>
mapVars == <<service_first, hebbian_network>>
serverVars == <<rpcVars, mapVars, signalVars, raced>>
vars == <<threadVars, serverVars>>
-----------------------------------------------------------------------------
(* The handlers of ping, stimulate and correlate *)

\* Slip: every context shares one entry.
Key_Global(c) == GLOBAL_CONTEXT

\* The entry of hebbian_network a context name stands for.
Key(c) == IF c = NoContext THEN GLOBAL_CONTEXT ELSE c

OtherCreating(r) == \E other \in Requests \ {r} : rpc[other] = "creating"

RacedAt(r) == IF OtherCreating(r) THEN raced \cup {Key(context[r])} ELSE raced

\* A ping, or a request without handles, is answered at once.
ReceiveNothing(r) ==
    /\ rpc[r] = "none"
    /\ rpc' = [rpc EXCEPT ![r] = "replying"]
    /\ UNCHANGED <<type, context, network, status, mapVars, signalVars,
                   raced, threadVars>>

\* A call of stimulate or correlate with handles arrives.
Receive(r, callType, name) ==
    /\ rpc[r] = "none"
    /\ rpc' = [rpc EXCEPT ![r] = "selecting"]
    /\ type' = [type EXCEPT ![r] = callType]
    /\ context' = [context EXCEPT ![r] = name]
    /\ UNCHANGED <<network, status, mapVars, signalVars, raced,
                   threadVars>>

\* Slip: the map is not searched before an entry is created.
Known_NotSearched(r) == context[r] = NoContext

\* Slip: the entry is used without being searched for.
Known_Assumed(r) == TRUE

\* Does select_hebbian_network find an entry in the map?  It may hold NULL.
Known(r) == hebbian_network[Key(context[r])] # Absent

SelectExisting(r) ==
    /\ rpc[r] = "selecting"
    /\ Known(r)
    /\ network' = [network EXCEPT ![r] = hebbian_network[Key(context[r])]]
    /\ rpc' = [rpc EXCEPT ![r] = "enqueuing"]
    /\ raced' = RacedAt(r)
    /\ UNCHANGED <<type, context, status, mapVars, signalVars,
                   threadVars>>

\* The search finds nothing.  A search that races with an insertion into the
\* unsynchronised map may also miss an entry that is there.
SelectMissing(r) ==
    /\ rpc[r] = "selecting"
    /\ ~Known(r) \/ OtherCreating(r)
    /\ rpc' = [rpc EXCEPT ![r] = "creating"]
    /\ raced' = RacedAt(r)
    /\ UNCHANGED <<type, context, network, status, mapVars, signalVars,
                   threadVars>>

\* Slip: every new entry is made by the index operator.
NewEntry_Null(r) == NULL

\* The entry made for a name that was not found: a new network, but a null pointer
\* for the empty name, where the index operator makes it.
NewEntry(r) == IF context[r] = NoContext THEN NULL ELSE r

CreateNetwork(r) ==
    /\ rpc[r] = "creating"
    /\ network' = [network EXCEPT ![r] = NewEntry(r)]
    /\ hebbian_network' = [hebbian_network EXCEPT ![Key(context[r])] = NewEntry(r)]
    /\ rpc' = [rpc EXCEPT ![r] = "enqueuing"]
    /\ raced' = RacedAt(r)
    /\ UNCHANGED <<type, context, status, service_first, signalVars, threadVars>>

\* The pointer to gRPC's own message is queued: rpc_api_enabled is not read yet.
\* enqueue locks request_queue_mutex.
EnqueueRequest(r) ==
    /\ rpc[r] = "enqueuing"
    /\ held # type[r]
    /\ Enqueue(type[r], r)
    /\ rpc' = [rpc EXCEPT ![r] = "replying"]
    /\ UNCHANGED <<type, context, network, status, mapVars, signalVars,
                   raced>>

\* The handler answers and returns; the message no longer exists.
Reply(r) ==
    /\ rpc[r] = "replying"
    /\ status' = [status EXCEPT ![r] = IF rpc_api_enabled THEN "OK" ELSE "CANCELLED"]
    /\ rpc' = [rpc EXCEPT ![r] = "returned"]
    /\ UNCHANGED <<type, context, network, mapVars, signalVars, raced,
                   threadVars>>

Handler(r) ==
    \/ ReceiveNothing(r)
    \/ \E callType \in RequestType, name \in Contexts \cup {NoContext} :
          Receive(r, callType, name)
    \/ SelectExisting(r)
    \/ SelectMissing(r)
    \/ CreateNetwork(r)
    \/ EnqueueRequest(r)
    \/ Reply(r)

\* Callers never run out of calls: the name of a call that has returned, whose
\* request was processed and which left no network behind, stands for a new one.
CallAgain(r) ==
    /\ rpc[r] = "returned"
    /\ \A c \in Contexts : hebbian_network[c] # r
    /\ \A other \in Requests \ {r} : network[other] # r
    /\ rpc' = [rpc EXCEPT ![r] = "none"]
    /\ type' = [type EXCEPT ![r] = NULL]
    /\ context' = [context EXCEPT ![r] = NULL]
    /\ network' = [network EXCEPT ![r] = NULL]
    /\ status' = [status EXCEPT ![r] = "none"]
    /\ \/ Reuse(r)
       \/ arrival[r] = "none" /\ UNCHANGED threadVars
    /\ UNCHANGED <<mapVars, signalVars, raced>>
-----------------------------------------------------------------------------
(* graceful_shutdown, called by ctrl_c_handler and again by the destructor *)

\* Slip: the API stays enabled.
DisableApi_Forgotten == UNCHANGED rpc_api_enabled

DisableApi == rpc_api_enabled' = FALSE

Mutexes == RequestType \cup {"stop_flag"}

\* The handler of r runs.
UnderWay(r) == rpc[r] \notin {"none", "returned"}

\* The mutexes a thread may hold at the moment of a signal: a worker that of its
\* queue in dequeue, and the one of stop_flag after its nap; a call that of its
\* queue in enqueue.
MayHold(t, m) ==
    \/ m = NULL
    \/ t \in Threads /\ \/ pc[t] = "next" /\ m = TypeOf(t)
                        \/ pc[t] = "sleeping" /\ m = "stop_flag"
    \/ t \in Requests /\ rpc[t] = "enqueuing" /\ m = type[t]

\* SIGINT reaches ctrl_c_handler while the service runs, in any thread: nothing in
\* the code chooses.  The thread keeps what it holds.
Sigint(t, m) ==
    /\ phase = "serving"
    /\ t \in Requests => UnderWay(t)
    /\ MayHold(t, m)
    /\ DisableApi
    /\ phase' = "shutdown"
    /\ handler' = t
    /\ held' = m
    /\ UNCHANGED <<rpcVars, mapVars, raced, threadVars>>

\* worker_threads->graceful_stop() in either call of graceful_shutdown.  It locks
\* the mutex of stop_flag.
StopWorkers ==
    /\ held # "stop_flag"
    /\ SetStopFlag
    /\ \/ phase = "shutdown" /\ phase' = "stopping"
       \/ phase = "destructor" /\ phase' = "stopping_again"
    /\ UNCHANGED <<rpcVars, mapVars, rpc_api_enabled, handler, held, raced>>

\* A thread that runs the signal handler does nothing else.
Suspended(t) == handler = t

\* The worker waits for the mutex of the interrupted thread.
Blocked(t) ==
    \/ pc[t] = "next" /\ held = TypeOf(t)
    \/ pc[t] = "sleeping" /\ held = "stop_flag"

CanRun(t) == ~Suspended(t) /\ ~Blocked(t)

JoinWorker == ~ Suspended(cursor) /\ Join

\* exit(0) destroys the static service.
Exit ==
    /\ phase = "stopping"
    /\ stopper = "returned"
    /\ DisableApi
    /\ phase' = "destructor"
    /\ UNCHANGED <<rpcVars, mapVars, handler, held, raced, threadVars>>

\* An exception leaves a signal handler or a destructor: std::terminate.
Terminates ==
    /\ stopper' = "terminated"
    /\ UNCHANGED <<stop_flag, cursor, joinable, workerVars, historyVars>>

\* join throws when the thread joins itself, and when it was joined before.
JoinThrows ==
    /\ stopper = "joining"
    /\ Suspended(cursor) \/ cursor \in Threads \ joinable
    /\ Terminates
    /\ UNCHANGED serverVars

\* A second SIGINT runs the handler in another thread; one of the two joins a
\* thread that the other one joins, or has joined.
SigintAgain ==
    /\ stopper \in {"joining", "returned"}
    /\ Terminates
    /\ phase' = "interrupted"
    /\ UNCHANGED <<rpcVars, mapVars, rpc_api_enabled, handler, held, raced>>
-----------------------------------------------------------------------------
\* service is static in main.cc, GLOBAL_CONTEXT in AttentionBrokerServer.cc, and the
\* order in which a build initialises them is not specified.  If service comes
\* first, GLOBAL_CONTEXT is still the empty string: the network is stored under the
\* empty name, where no call looks for it.
Init ==
    /\ ThreadsInit
    /\ rpc = [r \in Requests |-> "none"]
    /\ type = [r \in Requests |-> NULL]
    /\ context = [r \in Requests |-> NULL]
    /\ network = [r \in Requests |-> NULL]
    /\ service_first \in BOOLEAN
    /\ hebbian_network = [c \in Contexts |->
            IF c = GLOBAL_CONTEXT /\ ~service_first THEN GLOBAL_CONTEXT ELSE Absent]
    /\ status = [r \in Requests |-> "none"]
    /\ rpc_api_enabled = TRUE
    /\ phase = "serving"
    /\ handler = NULL
    /\ held = NULL
    /\ raced = {}

WorkerStep(t) == CanRun(t) /\ Worker(t) /\ UNCHANGED serverVars

Shutdown ==
    \/ JoinWorker /\ UNCHANGED serverVars
    \/ StopWorkers \/ Exit \/ JoinThrows

\* Until the process terminates, calls are served in any phase: nothing tells
\* gRPC to stop.
Next ==
    /\ stopper # "terminated"
    /\ \/ \E r \in Requests : ~Suspended(r) /\ Handler(r)
       \/ \E r \in Requests : CallAgain(r)
       \/ \E t \in Threads : WorkerStep(t)
       \/ \E t \in Threads \cup Requests \cup {Main}, m \in Mutexes \cup {NULL} :
             Sigint(t, m)
       \/ Shutdown
       \/ SigintAgain

Spec == Init /\ [][Next]_vars

\* The workers and the thread that runs the handler are scheduled.  Nothing makes
\* a call or a signal come.
ServerFairness ==
    /\ \A t \in Threads : WF_vars(stopper # "terminated" /\ WorkerStep(t))
    /\ WF_vars(stopper # "terminated" /\ Shutdown)

FairSpec == Spec /\ ServerFairness
-----------------------------------------------------------------------------
(* Properties *)

TypeOK ==
    /\ ThreadsTypeOK
    /\ rpc \in [Requests -> {"none", "selecting", "creating", "enqueuing",
                             "replying", "returned"}]
    /\ type \in [Requests -> RequestType \cup {NULL}]
    /\ context \in [Requests -> Contexts \cup {NoContext, NULL}]
    /\ network \in [Requests -> Networks \cup {NULL}]
    /\ service_first \in BOOLEAN
    /\ hebbian_network \in [Contexts -> Networks \cup {NULL, Absent}]
    /\ status \in [Requests -> {"none", "OK", "CANCELLED"}]
    /\ rpc_api_enabled \in BOOLEAN
    /\ phase \in {"serving", "shutdown", "stopping", "destructor",
                  "stopping_again", "interrupted"}
    /\ handler \in Threads \cup Requests \cup {Main, NULL}
    /\ handler = NULL <=> phase = "serving"
    /\ held \in Mutexes \cup {NULL}
    /\ raced \in SUBSET Contexts

\* Whatever the order of their lookups and insertions, calls that name
\* different contexts never write to the same network
\* (AttentionBrokerServer.cc:79-95, AttentionBrokerServer.h:41-43).
ContextsIsolated ==
    \A r, s \in Requests :
        /\ network[r] # NULL /\ network[s] # NULL
        /\ context[r] # NoContext /\ context[s] # NoContext
        /\ context[r] # context[s]
        => network[r] # network[s]

\* select_hebbian_network has returned in the handler of r.
Selected(r) == context[r] # NULL /\ rpc[r] \in {"enqueuing", "replying", "returned"}

\* The unsynchronised lookup is the only thing that splits a context: if no
\* lookup or creation of a context ever overlapped an insertion by another call,
\* all its calls work on one network, or all on none
\* (AttentionBrokerServer.cc:81-93).
UnracedContextHasOneNetwork ==
    \A r, s \in Requests :
        /\ Selected(r) /\ Selected(s)
        /\ Key(context[r]) = Key(context[s])
        /\ Key(context[r]) \notin raced
        => network[r] = network[s]

\* A call whose request carries no network is ignored by the workers and answered
\* like any other.  That can only happen to calls of the default context, and
\* only if service was initialised first or the entry of the default context was
\* looked up while another call inserted one (AttentionBrokerServer.cc:18, 84-91).
OnlyTheDefaultIsIgnored ==
    \A r \in Requests :
        Selected(r) /\ network[r] = NULL =>
            /\ Key(context[r]) = GLOBAL_CONTEXT
            /\ service_first \/ GLOBAL_CONTEXT \in raced

\* A call that was answered OK put its request in the queue before stop_flag
\* was set: the handler reads rpc_api_enabled after it enqueues, and
\* graceful_shutdown clears it before it stops the threads
\* (AttentionBrokerServer.cc:31-34, 51-54).
AnsweredOKBeforeStop ==
    \A r \in Requests :
        status[r] = "OK" /\ arrival[r] # "none" => r \in accepted

\* AttentionBrokerServer.h:41: a context is one HebbianNetwork object.
OneNetworkPerContext ==
    \A r, s \in Requests :
        /\ network[r] # NULL /\ network[s] # NULL
        /\ Key(context[r]) = Key(context[s])
        => network[r] = network[s]

\* AttentionBrokerServer.h:42-43: the constructor creates the context that is used
\* whenever the caller does not specify one.
DefaultContextExists ==
    \A r \in Requests :
        Selected(r) /\ context[r] = NoContext => network[r] # NULL

\* The process always ends by an exception, since exit joins the threads again.
\* But it ends late enough: unless the signal came to a worker, or came twice, all
\* workers have ended, and what arrived while one was on duty was processed
\* (main.cc:18-23, AttentionBrokerServer.cc:21-34).
EndsDrained ==
    stopper = "terminated" /\ handler \notin Threads /\ phase # "interrupted" =>
        /\ \A t \in Threads : pc[t] = "stopped"
        /\ \A r \in Requests : arrival[r] = "on_duty" => r \in processed

\* A request that arrived while one of its workers was on duty has a worker that
\* will look at its queue and can go on, also after the signal.  The exceptions are
\* what the signal interrupted: it came to such a worker, or to a thread that holds
\* the mutex of the queue (main.cc:18-23, WorkerThreads.cc:61-83).
ServedUnlessInterrupted ==
    \A q \in RequestType :
        (\E i \in 1..Len(queue[q]) : arrival[queue[q][i]] = "on_duty") =>
            \/ \E t \in Threads : TypeOf(t) = q /\ OnDuty(t) /\ CanRun(t)
            \/ handler \in Threads /\ TypeOf(handler) = q /\ OnDuty(handler)
            \/ held = q

\* A signal that comes to a thread which is no worker and holds no mutex of the
\* queues ends the process, whatever calls are under way, or requests arrive for
\* ever: calls go on being enqueued while they are answered CANCELLED, and a worker
\* looks at stop_flag only when its queue is empty (main.cc:18-23,
\* AttentionBrokerServer.cc:31-34, 51-54).
SigintEnds ==
    \/ []<><<Arrival>>_vars
    \/ (handler \in Requests \cup {Main} /\ held = NULL) ~> stopper = "terminated"
=============================================================================
