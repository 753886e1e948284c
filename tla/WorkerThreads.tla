--------------------------- MODULE WorkerThreads ---------------------------
(***************************************************************************)
(* The worker threads of the attention broker (WorkerThreads.cc) and the    *)
(* two queues they read from.  Thread ids select the queue                  *)
(* (RequestSelector.cc): even ids serve stimuli, odd ids correlations.  The *)
(* queues are used through AbstractRequestQueue, which RequestQueue is      *)
(* proved to implement: a sequence with atomic operations.                  *)
(*                                                                          *)
(* What a worker computes from a request is left to other modules; here a   *)
(* request is a pointer that is queued, held by a worker, then processed.   *)
(***************************************************************************)
EXTENDS Naturals, Sequences

CONSTANTS
    Requests,       \* the requests that may be in the system at one time
    ThreadsCount,   \* WORKER_THREADS_COUNT
    NULL            \* the null pointer

ASSUME ThreadsAssumption == ThreadsCount \in Nat /\ ThreadsCount >= 2
ASSUME NullAssumption == NULL \notin Requests

Threads == 0..(ThreadsCount - 1)

RequestType == {"STIMULUS", "CORRELATION"}

\* The queue EvenThreadCount::next reads from.
TypeOf(t) == IF t % 2 = 0 THEN "STIMULUS" ELSE "CORRELATION"

VARIABLES
    queue,        \* the two request queues
    pc,           \* where each worker is in worker_thread
    request,      \* the request each worker has in hand, or NULL
    stop_flag,
    stopper,      \* graceful_stop's caller: running, joining, returned
    cursor,       \* its position in "for (thread *worker_thread: threads)"
    joinable,     \* the threads that were not joined yet
    processed,    \* history: the requests whose processing is complete
    arrival,      \* history: whether each request found a worker on duty;
                  \* "none" before it arrives
    accepted      \* history: the requests enqueued before stop_flag was set

workerVars == <<queue, pc, request, processed>>
stopVars == <<stop_flag, stopper, cursor, joinable>>
historyVars == <<arrival, accepted>>
threadVars == <<workerVars, stopVars, historyVars>>

\* A worker on duty is going to look at its queue before it checks stop_flag.
OnDuty(t) == pc[t] \in {"next", "processing"}

Queued(r) == \E type \in RequestType :
                \E i \in 1..Len(queue[type]) : queue[type][i] = r
Held(r) == \E t \in Threads : pc[t] = "processing" /\ request[t] = r
-----------------------------------------------------------------------------
(* The callers of enqueue *)

\* A request is queued.  The two histories record what the code does not: was a
\* worker of its queue on duty, and had the shutdown begun.
Enqueue(type, r) ==
    /\ arrival[r] = "none"
    /\ queue' = [queue EXCEPT ![type] = Append(@, r)]
    /\ arrival' = [arrival EXCEPT ![r] =
          IF \E t \in Threads : TypeOf(t) = type /\ OnDuty(t)
          THEN "on_duty" ELSE "off_duty"]
    /\ accepted' = IF stop_flag THEN accepted ELSE accepted \cup {r}
    /\ UNCHANGED <<pc, request, processed, stopVars>>

\* The name of a processed request is used again for a later one: the number of
\* requests over time is not bounded.
Reuse(r) ==
    /\ r \in processed
    /\ processed' = processed \ {r}
    /\ arrival' = [arrival EXCEPT ![r] = "none"]
    /\ accepted' = accepted \ {r}
    /\ UNCHANGED <<queue, pc, request, stopVars>>
-----------------------------------------------------------------------------
(* worker_thread *)

\* Slip: the head is read and never removed.
Dequeued_Kept(type) == queue

\* The queues after a successful dequeue.
Dequeued(type) ==
    IF queue[type] = <<>> THEN queue ELSE [queue EXCEPT ![type] = Tail(@)]

\* What selector->next() answers to a worker.
Answer(t) == IF queue[TypeOf(t)] = <<>> THEN NULL ELSE Head(queue[TypeOf(t)])

\* Slip: the answer is not compared with NULL.
Found_Unchecked(t) == TRUE

Found(t) == Answer(t) # NULL

\* selector->next() finds a request.
TakeRequest(t) ==
    /\ pc[t] = "next"
    /\ Found(t)
    /\ request' = [request EXCEPT ![t] = Answer(t)]
    /\ queue' = Dequeued(TypeOf(t))
    /\ pc' = [pc EXCEPT ![t] = "processing"]
    /\ UNCHANGED <<processed, stopVars, historyVars>>

\* spread_stimuli or correlation returns.
FinishRequest(t) ==
    /\ pc[t] = "processing"
    /\ processed' = processed \cup {request[t]}
    /\ request' = [request EXCEPT ![t] = NULL]
    /\ pc' = [pc EXCEPT ![t] = "next"]
    /\ UNCHANGED <<queue, stopVars, historyVars>>

\* Slip: the worker goes to sleep when the other queue is empty.
NothingToDo_OtherQueue(t) ==
    \E type \in RequestType \ {TypeOf(t)} : queue[type] = <<>>

NothingToDo(t) == Answer(t) = NULL

\* selector->next() answers NULL: the worker sleeps for 100 milliseconds ...
Sleep(t) ==
    /\ pc[t] = "next"
    /\ NothingToDo(t)
    /\ pc' = [pc EXCEPT ![t] = "sleeping"]
    /\ UNCHANGED <<queue, request, processed, stopVars, historyVars>>

\* Slip: the result of the check is inverted.
StopsAfterNap_Inverted == ~stop_flag

StopsAfterNap == stop_flag

\* ... then checks stop_flag, and does not look at its queue again.
WakeUp(t) ==
    /\ pc[t] = "sleeping"
    /\ pc' = [pc EXCEPT ![t] = IF StopsAfterNap THEN "stopped" ELSE "next"]
    /\ UNCHANGED <<queue, request, processed, stopVars, historyVars>>

Worker(t) == TakeRequest(t) \/ FinishRequest(t) \/ Sleep(t) \/ WakeUp(t)
-----------------------------------------------------------------------------
(* graceful_stop *)

SetStopFlag ==
    /\ stop_flag' = TRUE
    /\ stopper' = "joining"
    /\ cursor' = 0
    /\ UNCHANGED <<joinable, workerVars, historyVars>>

\* Slip: the caller does not wait for the thread to end.
ThreadEnded_NoWait(t) == TRUE

ThreadEnded(t) == pc[t] = "stopped"

\* worker_thread->join() returns when the thread has ended.
Join ==
    /\ stopper = "joining"
    /\ cursor \in joinable
    /\ ThreadEnded(cursor)
    /\ joinable' = joinable \ {cursor}
    /\ cursor' = cursor + 1
    /\ stopper' = IF cursor + 1 = ThreadsCount THEN "returned" ELSE "joining"
    /\ UNCHANGED <<stop_flag, workerVars, historyVars>>
-----------------------------------------------------------------------------
ThreadsInit ==
    /\ queue = [type \in RequestType |-> <<>>]
    /\ pc = [t \in Threads |-> "next"]
    /\ request = [t \in Threads |-> NULL]
    /\ stop_flag = FALSE
    /\ stopper = "running"
    /\ cursor = 0
    /\ joinable = Threads
    /\ processed = {}
    /\ arrival = [r \in Requests |-> "none"]
    /\ accepted = {}

\* The threads under any callers: requests arrive at any time, also during and
\* after the shutdown (the RPC handlers never look at stop_flag), and
\* graceful_stop is called at most once.
GracefulStop == stopper = "running" /\ SetStopFlag

Arrival == \E type \in RequestType, r \in Requests : Enqueue(type, r)

ThreadsNext ==
    \/ Arrival
    \/ \E r \in Requests : Reuse(r)
    \/ \E t \in Threads : Worker(t)
    \/ GracefulStop
    \/ Join

ThreadsSpec == ThreadsInit /\ [][ThreadsNext]_threadVars

\* The operating system schedules every thread: the workers and the thread that
\* called graceful_stop.  Nothing forces a request to come or a stop to be
\* asked for.
Fairness ==
    /\ \A t \in Threads : WF_threadVars(Worker(t))
    /\ WF_threadVars(Join)

FairThreadsSpec == ThreadsSpec /\ Fairness
-----------------------------------------------------------------------------
(* Properties *)

ThreadsTypeOK ==
    /\ queue \in [RequestType -> Seq(Requests)]
    /\ pc \in [Threads -> {"next", "processing", "sleeping", "stopped"}]
    /\ request \in [Threads -> Requests \cup {NULL}]
    /\ \A t \in Threads : pc[t] = "processing" => request[t] \in Requests
    /\ stop_flag \in BOOLEAN
    /\ stopper \in {"running", "joining", "returned", "terminated"}
    /\ cursor \in 0..ThreadsCount
    /\ joinable \in SUBSET Threads
    /\ processed \in SUBSET Requests
    /\ arrival \in [Requests -> {"none", "on_duty", "off_duty"}]
    /\ accepted \in SUBSET Requests

\* No request that arrived is lost, and none is handed out twice, however many
\* workers read the same queue: at any time it is in one place of one queue, or
\* in the hands of one worker, or processed (WorkerThreads.cc:60-75).
ExactlyOnce ==
    /\ \A r \in Requests : arrival[r] # "none" <=> (Queued(r) \/ Held(r) \/ r \in processed)
    /\ \A r \in Requests : Queued(r) => ~Held(r) /\ r \notin processed
    /\ \A r \in Requests : Held(r) => r \notin processed
    /\ \A s, t \in Threads :
          pc[s] = "processing" /\ pc[t] = "processing" /\ request[s] = request[t] => s = t
    /\ \A a, b \in RequestType :
          \A i \in 1..Len(queue[a]), j \in 1..Len(queue[b]) :
             queue[a][i] = queue[b][j] => a = b /\ i = j

\* A request that arrived while one of its workers was on duty always has a
\* worker that will look at its queue: a worker leaves duty only when the queue
\* is empty, and stops only after that (WorkerThreads.cc:61-83).
NeverStranded ==
    \A type \in RequestType :
        (\E i \in 1..Len(queue[type]) : arrival[queue[type][i]] = "on_duty")
            => \E t \in Threads : TypeOf(t) = type /\ OnDuty(t)

\* graceful_stop returns when every worker has ended, and then only requests
\* that arrived while every worker of their queue was asleep (or gone) are
\* still queued (WorkerThreads.cc:34-41, WorkerThreads.h:42-45).
DrainedOnReturn ==
    stopper = "returned" =>
        /\ \A t \in Threads : pc[t] = "stopped"
        /\ \A r \in Requests : arrival[r] = "on_duty" => r \in processed

\* What WorkerThreads.h:42-44 says of graceful_stop: both queues are processed
\* before the threads stop, so a request accepted before the call is processed
\* when the call returns.
ProcessesAcceptedBeforeReturn == stopper = "returned" => accepted \subseteq processed

\* Every request is eventually processed as long as no stop is asked for, also
\* the ones that arrive while all workers sleep; one that found a worker on duty
\* is processed even if the stop comes.
EventuallyProcessed ==
    \A r \in Requests :
        /\ arrival[r] = "on_duty" ~> r \in processed
        /\ arrival[r] = "off_duty" ~> (r \in processed \/ stop_flag)

\* Only callers that never pause can keep graceful_stop from returning: it
\* returns, or requests arrive for ever.  A worker looks at stop_flag only after it
\* found its queue empty (WorkerThreads.cc:60-83).
StopReturns ==
    \/ []<><<Arrival>>_threadVars
    \/ stop_flag ~> stopper = "returned"
=============================================================================
