------------------------ MODULE WorkerThreadsProofs ------------------------
(***************************************************************************)
(* For every number of workers and every set of requests: no request is     *)
(* lost or handed out twice, and when graceful_stop returns only requests   *)
(* that arrived while all workers of their queue slept are left.            *)
(***************************************************************************)
EXTENDS WorkerThreads, SequenceTheorems, TLAPS

\* The join loop goes through the threads in order and leaves none behind.
JoinOrder ==
    /\ \A t \in Threads \ joinable : pc[t] = "stopped"
    /\ stopper = "running" => joinable = Threads
    /\ stopper = "joining" => joinable = cursor..(ThreadsCount - 1)
    /\ stopper = "returned" => joinable = {}

\* The part of the inductive invariant that holds whoever joins the threads.
QueuesInvariant == ThreadsTypeOK /\ ExactlyOnce /\ NeverStranded

\* The inductive invariant.
ThreadsInvariant == QueuesInvariant /\ JoinOrder

LEMMA InitThreads == ThreadsInit => ThreadsInvariant
  <1> SUFFICES ASSUME ThreadsInit PROVE ThreadsInvariant
    OBVIOUS
  <1>1. ThreadsTypeOK
    <2>1. <<>> \in Seq(Requests)
      OBVIOUS
    <2>2. queue \in [RequestType -> Seq(Requests)]
      BY <2>1 DEF ThreadsInit
    <2>3. 0 \in 0..ThreadsCount
      BY ThreadsAssumption
    <2>4. /\ pc \in [Threads -> {"next", "processing", "sleeping", "stopped"}]
          /\ request \in [Threads -> Requests \cup {NULL}]
          /\ arrival \in [Requests -> {"none", "on_duty", "off_duty"}]
          /\ \A t \in Threads : pc[t] # "processing"
      BY DEF ThreadsInit
    <2> QED
      BY <2>2, <2>3, <2>4 DEF ThreadsInit, ThreadsTypeOK
  <1>2. ExactlyOnce
    BY DEF ThreadsInit, ExactlyOnce, Queued, Held
  <1>3. NeverStranded /\ JoinOrder
    BY DEF ThreadsInit, NeverStranded, JoinOrder
  <1> QED
    BY <1>1, <1>2, <1>3 DEF ThreadsInvariant, QueuesInvariant

\* Each thread serves one of the two queues.
LEMMA TypeOfThread == \A t \in Threads : TypeOf(t) \in RequestType
  BY DEF TypeOf, RequestType

\* An RPC handler queues a request.
LEMMA EnqueueKeeps ==
    ASSUME QueuesInvariant, NEW type \in RequestType, NEW r \in Requests,
           Enqueue(type, r)
    PROVE  QueuesInvariant'
  <1> USE DEF QueuesInvariant
  <1>1. /\ queue[type] \in Seq(Requests)
        /\ queue' = [queue EXCEPT ![type] = Append(@, r)]
        /\ arrival[r] = "none"
        /\ UNCHANGED <<pc, request, processed, stopVars>>
    BY DEF ThreadsTypeOK, Enqueue
  <1>2. /\ queue'[type] \in Seq(Requests)
        /\ Len(queue'[type]) = Len(queue[type]) + 1
        /\ queue'[type][Len(queue[type]) + 1] = r
        /\ \A i \in 1..Len(queue[type]) : queue'[type][i] = queue[type][i]
        /\ \A a \in RequestType \ {type} : queue'[a] = queue[a]
    BY <1>1 DEF ThreadsTypeOK
  <1>3. ThreadsTypeOK'
    BY <1>1, <1>2 DEF ThreadsTypeOK, Enqueue, stopVars
  <1>4. ~Queued(r) /\ ~Held(r) /\ r \notin processed
    BY <1>1 DEF ExactlyOnce
  <1>5. /\ \A x \in Requests : Queued(x)' <=> (Queued(x) \/ x = r)
        /\ \A x \in Requests : Held(x)' <=> Held(x)
        /\ \A x \in Requests : (arrival'[x] # "none") <=> (arrival[x] # "none" \/ x = r)
    <2>1. \A a \in RequestType : \A i \in 1..Len(queue'[a]) :
             \/ i \in 1..Len(queue[a]) /\ queue'[a][i] = queue[a][i]
             \/ a = type /\ i = Len(queue[a]) + 1 /\ queue'[a][i] = r
      BY <1>1, <1>2 DEF ThreadsTypeOK
    <2>2. \A a \in RequestType : \A i \in 1..Len(queue[a]) :
             i \in 1..Len(queue'[a]) /\ queue'[a][i] = queue[a][i]
      BY <1>1, <1>2 DEF ThreadsTypeOK
    <2>3. Len(queue[type]) + 1 \in 1..Len(queue'[type])
      BY <1>2 DEF ThreadsTypeOK
    <2>4. \A x \in Requests : Queued(x)' <=> (Queued(x) \/ x = r)
      <3>1. ASSUME NEW x \in Requests, Queued(x)'
            PROVE  Queued(x) \/ x = r
        BY <2>1, <3>1 DEF Queued
      <3>2. ASSUME NEW x \in Requests, Queued(x) \/ x = r
            PROVE  Queued(x)'
        <4>1. CASE Queued(x)
          BY <2>2, <4>1 DEF Queued
        <4>2. CASE x = r
          BY <1>1, <1>2, <2>3, <4>2 DEF Queued
        <4> QED
          BY <3>2, <4>1, <4>2
      <3> QED
        BY <3>1, <3>2
    <2>5. \A x \in Requests : Held(x)' <=> Held(x)
      BY <1>1 DEF Held
    <2>6. \A x \in Requests : (arrival'[x] # "none") <=> (arrival[x] # "none" \/ x = r)
      BY DEF Enqueue, ThreadsTypeOK
    <2> QED
      BY <2>4, <2>5, <2>6
  <1>6. ExactlyOnce'
    <2>1. \A a, b \in RequestType :
             \A i \in 1..Len(queue'[a]), j \in 1..Len(queue'[b]) :
                queue'[a][i] = queue'[b][j] => a = b /\ i = j
      <3>1. \A a \in RequestType : \A i \in 1..Len(queue'[a]) :
               \/ i \in 1..Len(queue[a]) /\ queue'[a][i] = queue[a][i]
               \/ a = type /\ i = Len(queue[a]) + 1 /\ queue'[a][i] = r
        BY <1>1, <1>2 DEF ThreadsTypeOK
      <3>2. \A a \in RequestType : \A i \in 1..Len(queue[a]) : queue[a][i] # r
        BY <1>4 DEF Queued
      <3>3. \A a, b \in RequestType :
               \A i \in 1..Len(queue[a]), j \in 1..Len(queue[b]) :
                  queue[a][i] = queue[b][j] => a = b /\ i = j
        BY DEF ExactlyOnce
      <3>4. ASSUME NEW a \in RequestType, NEW b \in RequestType,
                   NEW i \in 1..Len(queue'[a]), NEW j \in 1..Len(queue'[b]),
                   queue'[a][i] = queue'[b][j]
            PROVE  a = b /\ i = j
        <4>1. \/ i \in 1..Len(queue[a]) /\ queue'[a][i] = queue[a][i]
              \/ a = type /\ i = Len(queue[a]) + 1 /\ queue'[a][i] = r
          BY <3>1
        <4>2. \/ j \in 1..Len(queue[b]) /\ queue'[b][j] = queue[b][j]
              \/ b = type /\ j = Len(queue[b]) + 1 /\ queue'[b][j] = r
          BY <3>1
        <4>3. CASE i \in 1..Len(queue[a]) /\ j \in 1..Len(queue[b])
          <5>1. queue'[a][i] = queue[a][i] /\ queue'[b][j] = queue[b][j]
            BY <1>2, <4>3
          <5>2. queue[a][i] = queue[b][j]
            BY <3>4, <5>1
          <5> QED
            BY <3>3, <4>3, <5>2
        <4>4. ASSUME i \in 1..Len(queue[a]), queue'[a][i] = queue[a][i], queue'[b][j] = r
              PROVE  FALSE
          BY <3>2, <3>4, <4>4
        <4>5. ASSUME j \in 1..Len(queue[b]), queue'[b][j] = queue[b][j], queue'[a][i] = r
              PROVE  FALSE
          BY <3>2, <3>4, <4>5
        <4> QED
          BY <4>1, <4>2, <4>3, <4>4, <4>5
      <3> QED
        BY <3>4
    <2>2. \A s, t \in Threads :
             pc'[s] = "processing" /\ pc'[t] = "processing" /\ request'[s] = request'[t]
                => s = t
      BY <1>1 DEF ExactlyOnce
    <2>3. \A x \in Requests : arrival'[x] # "none" <=> (Queued(x)' \/ Held(x)' \/ x \in processed')
      BY <1>1, <1>5 DEF ExactlyOnce
    <2>4. /\ \A x \in Requests : Queued(x)' => ~Held(x)' /\ x \notin processed'
          /\ \A x \in Requests : Held(x)' => x \notin processed'
      BY <1>1, <1>4, <1>5 DEF ExactlyOnce
    <2> QED
      BY <2>1, <2>2, <2>3, <2>4 DEF ExactlyOnce
  <1>7. NeverStranded'
    <2> SUFFICES ASSUME NEW a \in RequestType,
                        NEW i \in 1..Len(queue'[a]),
                        arrival'[queue'[a][i]] = "on_duty"
                 PROVE  \E t \in Threads : TypeOf(t) = a /\ OnDuty(t)'
      BY DEF NeverStranded
    <2>1. CASE a = type /\ i = Len(queue[a]) + 1
      <3>1. arrival'[r] = "on_duty"
        BY <1>2, <2>1
      <3>2. \E t \in Threads : TypeOf(t) = type /\ OnDuty(t)
        BY <3>1 DEF Enqueue, ThreadsTypeOK
      <3> QED
        BY <1>1, <2>1, <3>2 DEF OnDuty
    <2>2. CASE i \in 1..Len(queue[a]) /\ queue'[a][i] = queue[a][i]
      <3>1. queue[a][i] \in Requests /\ queue[a][i] # r
        BY <1>4, <2>2 DEF Queued, ThreadsTypeOK
      <3>2. arrival[queue[a][i]] = "on_duty"
        BY <2>2, <3>1 DEF Enqueue, ThreadsTypeOK
      <3>3. \E t \in Threads : TypeOf(t) = a /\ OnDuty(t)
        BY <2>2, <3>2 DEF NeverStranded
      <3> QED
        BY <1>1, <3>3 DEF OnDuty
    <2> QED
      BY <1>1, <1>2, <2>1, <2>2 DEF ThreadsTypeOK
  <1> QED
    BY <1>3, <1>6, <1>7

\* A worker takes the oldest request of its queue.
LEMMA TakeKeeps ==
    ASSUME QueuesInvariant, NEW t \in Threads, TakeRequest(t)
    PROVE  QueuesInvariant'
  <1> USE DEF QueuesInvariant
  <1> DEFINE type == TypeOf(t)
  <1> DEFINE r == Head(queue[type])
  <1>1. /\ type \in RequestType
        /\ queue[type] \in Seq(Requests) /\ queue[type] # <<>>
        /\ r \in Requests /\ r = queue[type][1] /\ 1 \in 1..Len(queue[type])
        /\ pc[t] = "next"
        /\ request' = [request EXCEPT ![t] = r]
        /\ queue' = [queue EXCEPT ![type] = Tail(@)]
        /\ pc' = [pc EXCEPT ![t] = "processing"]
        /\ UNCHANGED <<processed, stopVars, historyVars>>
    <2>1. type \in RequestType /\ queue[type] \in Seq(Requests)
      BY TypeOfThread DEF ThreadsTypeOK
    <2>2. queue[type] # <<>>
      BY DEF TakeRequest, Found, Answer
    <2> QED
      BY <2>1, <2>2 DEF TakeRequest, Found, Answer, Dequeued
  <1>2. /\ queue'[type] \in Seq(Requests)
        /\ Len(queue'[type]) = Len(queue[type]) - 1
        /\ \A i \in 1..Len(queue'[type]) : queue'[type][i] = queue[type][i + 1]
        /\ \A a \in RequestType \ {type} : queue'[a] = queue[a]
    <2>1. queue'[type] = Tail(queue[type])
      BY <1>1 DEF ThreadsTypeOK
    <2>2. \A a \in RequestType \ {type} : queue'[a] = queue[a]
      BY <1>1 DEF ThreadsTypeOK
    <2> HIDE DEF type, r
    <2>3. /\ Tail(queue[type]) \in Seq(Requests)
          /\ Len(Tail(queue[type])) = Len(queue[type]) - 1
          /\ \A i \in 1..Len(Tail(queue[type])) : Tail(queue[type])[i] = queue[type][i + 1]
      BY <1>1, HeadTailProperties
    <2> QED
      BY <2>1, <2>2, <2>3
  <1> HIDE DEF type, r
  <1>3. ThreadsTypeOK'
    BY <1>1, <1>2 DEF ThreadsTypeOK, stopVars, historyVars
  <1>4. /\ pc'[t] = "processing" /\ request'[t] = r
        /\ \A s \in Threads \ {t} : pc'[s] = pc[s] /\ request'[s] = request[s]
    BY <1>1 DEF ThreadsTypeOK
  \* What is queued afterwards was queued before, at the same place or the next.
  <1>5. \A a \in RequestType : \A i \in 1..Len(queue'[a]) :
           \/ a # type /\ i \in 1..Len(queue[a]) /\ queue'[a][i] = queue[a][i]
           \/ a = type /\ i + 1 \in 2..Len(queue[a]) /\ queue'[a][i] = queue[a][i + 1]
    BY <1>1, <1>2 DEF ThreadsTypeOK
  <1>6. Queued(r) /\ ~Held(r) /\ r \notin processed /\ arrival[r] # "none"
    BY <1>1 DEF Queued, ExactlyOnce
  <1>7. \A a \in RequestType : \A i \in 1..Len(queue'[a]) : queue'[a][i] # r
    BY <1>1, <1>5 DEF ExactlyOnce, ThreadsTypeOK
  <1>8. /\ \A x \in Requests : Queued(x)' <=> (Queued(x) /\ x # r)
        /\ \A x \in Requests : Held(x)' <=> (Held(x) \/ x = r)
    <2>1. ASSUME NEW x \in Requests, Queued(x), x # r PROVE Queued(x)'
      <3>0. PICK a \in RequestType : \E j \in 1..Len(queue[a]) : queue[a][j] = x
        BY <2>1 DEF Queued
      <3>1. PICK i \in 1..Len(queue[a]) : queue[a][i] = x
        BY <3>0
      <3>2. CASE a # type
        BY <1>2, <3>1, <3>2 DEF Queued
      <3>3. CASE a = type
        <4>1. i - 1 \in 1..Len(queue'[a]) /\ queue'[a][i - 1] = queue[a][i]
          BY <1>1, <1>2, <2>1, <3>1, <3>3
        <4> QED
          BY <3>1, <4>1 DEF Queued
      <3> QED
        BY <3>2, <3>3
    <2>2. ASSUME NEW x \in Requests, Queued(x)' PROVE Queued(x) /\ x # r
      <3>0. PICK a \in RequestType : \E j \in 1..Len(queue'[a]) : queue'[a][j] = x
        BY <2>2 DEF Queued
      <3>1. PICK i \in 1..Len(queue'[a]) : queue'[a][i] = x
        BY <3>0
      <3>2. \E j \in 1..Len(queue[a]) : queue[a][j] = x
        BY <1>1, <1>2, <1>5, <3>1 DEF ThreadsTypeOK
      <3> QED
        BY <1>7, <3>1, <3>2 DEF Queued
    <2>3. \A x \in Requests : Held(x)' <=> (Held(x) \/ x = r)
      BY <1>1, <1>4 DEF Held
    <2> QED
      BY <2>1, <2>2, <2>3
  <1>9. ExactlyOnce'
    <2>1. \A a, b \in RequestType :
             \A i \in 1..Len(queue'[a]), j \in 1..Len(queue'[b]) :
                queue'[a][i] = queue'[b][j] => a = b /\ i = j
      BY <1>5 DEF ExactlyOnce, ThreadsTypeOK
    <2>2. \A s, u \in Threads :
             pc'[s] = "processing" /\ pc'[u] = "processing" /\ request'[s] = request'[u]
                => s = u
      BY <1>4, <1>6 DEF ExactlyOnce, Held
    <2>3. \A x \in Requests : arrival'[x] # "none" <=> (Queued(x)' \/ Held(x)' \/ x \in processed')
      BY <1>1, <1>6, <1>8 DEF ExactlyOnce, historyVars
    <2>4. /\ \A x \in Requests : Queued(x)' => ~Held(x)' /\ x \notin processed'
          /\ \A x \in Requests : Held(x)' => x \notin processed'
      BY <1>1, <1>6, <1>8 DEF ExactlyOnce
    <2> QED
      BY <2>1, <2>2, <2>3, <2>4 DEF ExactlyOnce
  <1>10. NeverStranded'
    <2>1. TypeOf(t) = type /\ OnDuty(t)'
      BY <1>4 DEF OnDuty, type
    <2>2. \A s \in Threads : OnDuty(s) => OnDuty(s)'
      BY <1>4 DEF OnDuty
    <2>3. \A a \in RequestType \ {type} : queue'[a] = queue[a]
      BY <1>2
    <2>4. arrival' = arrival
      BY <1>1 DEF historyVars
    <2> QED
      BY <2>1, <2>2, <2>3, <2>4 DEF NeverStranded
  <1> QED
    BY <1>3, <1>9, <1>10

\* A worker completes the request it holds.
LEMMA FinishKeeps ==
    ASSUME QueuesInvariant, NEW t \in Threads, FinishRequest(t)
    PROVE  QueuesInvariant'
  <1> USE DEF QueuesInvariant
  <1> DEFINE r == request[t]
  <1>1. /\ r \in Requests
        /\ Held(r) /\ ~Queued(r) /\ r \notin processed /\ arrival[r] # "none"
    BY DEF FinishRequest, ThreadsTypeOK, ExactlyOnce, Held
  <1>2. /\ pc[t] = "processing" /\ pc'[t] = "next" /\ request'[t] = NULL
        /\ \A s \in Threads \ {t} : pc'[s] = pc[s] /\ request'[s] = request[s]
        /\ processed' = processed \cup {r}
        /\ UNCHANGED <<queue, stopVars, historyVars>>
    BY DEF FinishRequest, ThreadsTypeOK
  <1>3. ThreadsTypeOK'
    BY <1>1, <1>2 DEF ThreadsTypeOK, FinishRequest, stopVars, historyVars
  <1>4. /\ \A x \in Requests : Queued(x)' <=> Queued(x)
        /\ \A x \in Requests : Held(x)' <=> (Held(x) /\ x # r)
    <2>1. \A x \in Requests : Queued(x)' <=> Queued(x)
      BY <1>2 DEF Queued
    <2>2. \A s \in Threads : s # t /\ pc[s] = "processing" => request[s] # r
      BY <1>2 DEF ExactlyOnce
    <2>3. \A x \in Requests : Held(x)' <=> (Held(x) /\ x # r)
      BY <1>2, <2>2 DEF Held
    <2> QED
      BY <2>1, <2>3
  <1>5. ExactlyOnce'
    <2>1. \A a, b \in RequestType :
             \A i \in 1..Len(queue'[a]), j \in 1..Len(queue'[b]) :
                queue'[a][i] = queue'[b][j] => a = b /\ i = j
      BY <1>2 DEF ExactlyOnce
    <2>2. \A s, u \in Threads :
             pc'[s] = "processing" /\ pc'[u] = "processing" /\ request'[s] = request'[u]
                => s = u
      BY <1>2 DEF ExactlyOnce
    <2>3. \A x \in Requests : arrival'[x] # "none" <=> (Queued(x)' \/ Held(x)' \/ x \in processed')
      BY <1>1, <1>2, <1>4 DEF ExactlyOnce, historyVars
    <2>4. /\ \A x \in Requests : Queued(x)' => ~Held(x)' /\ x \notin processed'
          /\ \A x \in Requests : Held(x)' => x \notin processed'
      BY <1>1, <1>2, <1>4 DEF ExactlyOnce
    <2> QED
      BY <2>1, <2>2, <2>3, <2>4 DEF ExactlyOnce
  <1>6. NeverStranded'
    <2>1. \A s \in Threads : OnDuty(s) => OnDuty(s)'
      BY <1>2 DEF OnDuty
    <2> QED
      BY <1>2, <2>1 DEF NeverStranded, historyVars
  <1> QED
    BY <1>3, <1>5, <1>6

\* The steps of a worker that has no request in hand: it goes to sleep because
\* its queue is empty, or it wakes up.
LEMMA IdleKeeps ==
    ASSUME QueuesInvariant, NEW t \in Threads, Sleep(t) \/ WakeUp(t)
    PROVE  QueuesInvariant'
  <1> USE DEF QueuesInvariant
  <1>1. /\ pc[t] \in {"next", "sleeping"}
        /\ pc'[t] \in {"next", "sleeping", "stopped"}
        /\ \A s \in Threads \ {t} : pc'[s] = pc[s]
        /\ UNCHANGED <<queue, request, processed, stopVars, historyVars>>
    BY DEF Sleep, WakeUp, ThreadsTypeOK
  <1>2. ThreadsTypeOK'
    BY <1>1 DEF ThreadsTypeOK, Sleep, WakeUp, stopVars, historyVars
  <1>3. ExactlyOnce'
    <2>1. \A x \in Requests : (Queued(x)' <=> Queued(x)) /\ (Held(x)' <=> Held(x))
      BY <1>1 DEF Queued, Held
    <2>2. \A s \in Threads : pc'[s] = "processing" <=> pc[s] = "processing"
      BY <1>1
    <2> QED
      BY <1>1, <2>1, <2>2 DEF ExactlyOnce, historyVars
  <1>4. NeverStranded'
    <2> SUFFICES ASSUME NEW a \in RequestType, NEW i \in 1..Len(queue[a]),
                        arrival[queue[a][i]] = "on_duty"
                 PROVE  \E s \in Threads : TypeOf(s) = a /\ OnDuty(s)'
      BY <1>1 DEF NeverStranded, historyVars
    <2>1. PICK s \in Threads : TypeOf(s) = a /\ OnDuty(s)
      BY DEF NeverStranded
    <2>2. queue[a] # <<>> /\ queue[a][1] \in Requests
      BY DEF ThreadsTypeOK
    <2>3. CASE s = t
      <3>1. ~Sleep(t)
        <4>1. Sleep(t) => Answer(t) = NULL
          BY DEF Sleep, NothingToDo
        <4>2. Answer(t) # NULL
          BY <2>1, <2>2, <2>3, NullAssumption DEF Answer, ThreadsTypeOK
        <4> QED
          BY <4>1, <4>2
      <3> QED
        BY <2>1, <2>3, <3>1 DEF WakeUp, OnDuty
    <2>4. CASE s # t
      BY <1>1, <2>1, <2>4 DEF OnDuty
    <2> QED
      BY <2>3, <2>4
  <1> QED
    BY <1>2, <1>3, <1>4

\* Calls and workers leave graceful_stop alone, and a thread that has ended stays
\* that way.
LEMMA StoppedStays ==
    ASSUME ThreadsTypeOK,
           \/ \E type \in RequestType, r \in Requests : Enqueue(type, r)
           \/ \E r \in Requests : Reuse(r)
           \/ \E t \in Threads : Worker(t)
    PROVE  UNCHANGED stopVars /\ \A t \in Threads : pc[t] = "stopped" => pc'[t] = "stopped"
  BY DEF ThreadsTypeOK, Enqueue, Reuse, Worker, TakeRequest, FinishRequest, Sleep, WakeUp

\* graceful_stop sets the flag ...
LEMMA SetStopFlagKeeps ==
    ASSUME QueuesInvariant, SetStopFlag
    PROVE  QueuesInvariant'
  <1> USE DEF QueuesInvariant
  <1>1. UNCHANGED <<workerVars, historyVars>>
    BY DEF SetStopFlag
  <1>2. ThreadsTypeOK'
    BY <1>1, ThreadsAssumption DEF ThreadsTypeOK, SetStopFlag, workerVars, historyVars
  <1>3. ExactlyOnce' /\ NeverStranded'
    BY <1>1 DEF ExactlyOnce, Queued, Held, NeverStranded, OnDuty, workerVars, historyVars
  <1> QED
    BY <1>2, <1>3

\* ... then joins the threads one by one.
LEMMA JoinKeeps ==
    ASSUME QueuesInvariant, Join
    PROVE  QueuesInvariant'
  <1> USE DEF QueuesInvariant
  <1>1. UNCHANGED <<stop_flag, workerVars, historyVars>>
    BY DEF Join
  <1>2. /\ stopper' \in {"running", "joining", "returned", "terminated"}
        /\ joinable' \in SUBSET Threads
    BY DEF ThreadsTypeOK, Join
  <1>3. cursor' \in 0..ThreadsCount
    <2>1. cursor \in Threads
      BY DEF Join, ThreadsTypeOK
    <2> QED
      BY <2>1, ThreadsAssumption DEF Join, Threads
  <1>4. ThreadsTypeOK'
    BY <1>1, <1>2, <1>3 DEF ThreadsTypeOK, workerVars, historyVars
  <1>5. ExactlyOnce' /\ NeverStranded'
    BY <1>1 DEF ExactlyOnce, Queued, Held, NeverStranded, OnDuty, workerVars, historyVars
  <1> QED
    BY <1>4, <1>5

\* What a return of join means while the threads are joined in order.
LEMMA JoinInOrder ==
    ASSUME ThreadsTypeOK, Join, joinable = cursor..(ThreadsCount - 1),
           \A t \in Threads \ joinable : pc[t] = "stopped"
    PROVE  /\ \A t \in Threads \ joinable' : pc'[t] = "stopped"
           /\ stopper' = "joining"
                 => cursor' \in Threads /\ joinable' = cursor'..(ThreadsCount - 1)
           /\ stopper' = "returned" => joinable' = {}
           /\ stopper' \in {"joining", "returned"}
  <1>1. /\ joinable' = joinable \ {cursor}
        /\ cursor' = cursor + 1 /\ cursor \in 0..(ThreadsCount - 1)
        /\ pc' = pc /\ pc[cursor] = "stopped"
        /\ stopper' = IF cursor + 1 = ThreadsCount THEN "returned" ELSE "joining"
    BY ThreadsAssumption DEF Join, ThreadEnded, ThreadsTypeOK, workerVars, Threads
  <1>2. joinable' = (cursor + 1)..(ThreadsCount - 1)
    BY <1>1, ThreadsAssumption
  <1>3. \A t \in Threads \ joinable' : pc'[t] = "stopped"
    BY <1>1
  <1> QED
    BY <1>1, <1>2, <1>3, ThreadsAssumption DEF Threads

\* The name of a processed request becomes free again.
LEMMA ReuseKeeps ==
    ASSUME QueuesInvariant, NEW r \in Requests, Reuse(r)
    PROVE  QueuesInvariant'
  <1> USE DEF QueuesInvariant
  <1>1. /\ r \in processed /\ processed' = processed \ {r}
        /\ arrival' = [arrival EXCEPT ![r] = "none"]
        /\ accepted' = accepted \ {r}
        /\ UNCHANGED <<queue, pc, request, stopVars>>
    BY DEF Reuse
  <1>2. ThreadsTypeOK'
    BY <1>1 DEF ThreadsTypeOK, stopVars
  <1>3. ~Queued(r) /\ ~Held(r)
    BY <1>1 DEF ExactlyOnce
  <1>4. /\ \A x \in Requests : (Queued(x)' <=> Queued(x)) /\ (Held(x)' <=> Held(x))
        /\ \A x \in Requests \ {r} : arrival'[x] = arrival[x]
        /\ arrival'[r] = "none"
    BY <1>1 DEF Queued, Held, ThreadsTypeOK
  <1>5. ExactlyOnce'
    <2>1. \A x \in Requests : arrival'[x] # "none" <=> (Queued(x)' \/ Held(x)' \/ x \in processed')
      BY <1>1, <1>3, <1>4 DEF ExactlyOnce
    <2>2. /\ \A x \in Requests : Queued(x)' => ~Held(x)' /\ x \notin processed'
          /\ \A x \in Requests : Held(x)' => x \notin processed'
      BY <1>1, <1>4 DEF ExactlyOnce
    <2> QED
      BY <1>1, <2>1, <2>2 DEF ExactlyOnce
  <1>6. NeverStranded'
    <2>1. ASSUME NEW a \in RequestType, NEW i \in 1..Len(queue[a])
          PROVE  queue[a][i] \in Requests \ {r}
      BY <1>3 DEF Queued, ThreadsTypeOK
    <2> QED
      BY <1>1, <1>4, <2>1 DEF NeverStranded, OnDuty
  <1> QED
    BY <1>2, <1>5, <1>6

\* Every step of the threads keeps the invariant.
LEMMA NextThreads == ThreadsInvariant /\ [ThreadsNext]_threadVars => ThreadsInvariant'
  <1> SUFFICES ASSUME ThreadsInvariant, [ThreadsNext]_threadVars
               PROVE  ThreadsInvariant'
    OBVIOUS
  <1> USE DEF ThreadsInvariant
  <1>1. CASE UNCHANGED threadVars
    BY <1>1 DEF QueuesInvariant, ThreadsTypeOK, ExactlyOnce, Queued, Held,
                NeverStranded, OnDuty, JoinOrder, threadVars, workerVars,
                stopVars, historyVars
  <1>2. CASE \/ \E type \in RequestType, r \in Requests : Enqueue(type, r)
             \/ \E r \in Requests : Reuse(r)
             \/ \E t \in Threads : Worker(t)
    <2>1. QueuesInvariant'
      BY <1>2, EnqueueKeeps, ReuseKeeps, TakeKeeps, FinishKeeps, IdleKeeps DEF Worker
    <2>2. JoinOrder'
      BY <1>2, StoppedStays DEF QueuesInvariant, JoinOrder, stopVars
    <2> QED
      BY <2>1, <2>2
  <1>3. CASE GracefulStop
    <2>1. QueuesInvariant'
      BY <1>3, SetStopFlagKeeps DEF GracefulStop
    <2>2. JoinOrder'
      BY <1>3 DEF JoinOrder, GracefulStop, SetStopFlag, workerVars, Threads
    <2> QED
      BY <2>1, <2>2
  <1>4. CASE Join
    <2>1. joinable = cursor..(ThreadsCount - 1)
      BY <1>4 DEF Join, JoinOrder
    <2>2. JoinOrder'
      BY <1>4, <2>1, JoinInOrder DEF JoinOrder, QueuesInvariant
    <2> QED
      BY <1>4, <2>2, JoinKeeps
  <1> QED
    BY <1>1, <1>2, <1>3, <1>4 DEF ThreadsNext, Arrival

\* When no worker is left, nothing that found one on duty is queued or held.
LEMMA EndedDrains ==
    ASSUME QueuesInvariant, \A t \in Threads : pc[t] = "stopped"
    PROVE  \A r \in Requests : arrival[r] = "on_duty" => r \in processed
  <1> SUFFICES ASSUME NEW r \in Requests, arrival[r] = "on_duty" PROVE r \in processed
    OBVIOUS
  <1>1. ~Queued(r)
    BY DEF QueuesInvariant, NeverStranded, OnDuty, Queued
  <1>2. ~Held(r)
    BY DEF Held
  <1> QED
    BY <1>1, <1>2 DEF QueuesInvariant, ExactlyOnce

LEMMA ThreadsInvariantHolds == ThreadsSpec => []ThreadsInvariant
  BY InitThreads, NextThreads, PTL DEF ThreadsSpec

\* The state of the workers, the queues and graceful_stop is well formed
\* (WorkerThreads.cc:60-83): a worker that processes has a request in hand.
THEOREM ThreadsWellFormed == ThreadsSpec => []ThreadsTypeOK
  BY ThreadsInvariantHolds, PTL DEF ThreadsInvariant, QueuesInvariant

\* WorkerThreads.cc:60-75: a request is handed to exactly one worker and no
\* request is lost between enqueue and the end of its processing.
THEOREM RequestsHandledOnce == ThreadsSpec => []ExactlyOnce
  BY ThreadsInvariantHolds, PTL DEF ThreadsInvariant, QueuesInvariant

\* WorkerThreads.cc:61-83: while a request that found a worker on duty waits,
\* some worker of its queue is on duty.
THEOREM RequestsNeverStranded == ThreadsSpec => []NeverStranded
  BY ThreadsInvariantHolds, PTL DEF ThreadsInvariant, QueuesInvariant

\* WorkerThreads.cc:34-41: what graceful_stop guarantees when it returns: all
\* threads were joined, and their queues drained.
THEOREM ReturnDrains == ThreadsSpec => []DrainedOnReturn
  <1>1. ThreadsInvariant => DrainedOnReturn
    BY EndedDrains DEF ThreadsInvariant, JoinOrder, DrainedOnReturn
  <1> QED
    BY <1>1, ThreadsInvariantHolds, PTL
=============================================================================
