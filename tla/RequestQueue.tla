---------------------------- MODULE RequestQueue ----------------------------
(***************************************************************************)
(* commons/RequestQueue: a ring buffer of request pointers shared by the    *)
(* threads that serve RPCs and by the worker threads.  Every operation runs *)
(* inside request_queue_mutex; an operation that touches the ring is split  *)
(* in two steps (the array access, then the cursor update and the unlock),  *)
(* so that the mutex is what keeps two operations apart and not the grain   *)
(* of the model.                                                            *)
(***************************************************************************)
EXTENDS Integers, Sequences

CONSTANTS
    Callers,        \* the threads that share the queue
    Requests,       \* the request pointers
    NULL,           \* the null pointer; also "nobody" for the mutex
    Garbage,        \* the content of an array cell that was never written
    InitialSize,    \* the constructor's initial_size
    MaxCount        \* bound of the model: requests queued at the same time

ASSUME SizeAssumption == InitialSize \in Nat \ {0} /\ MaxCount \in Nat
ASSUME ValueAssumption == NULL \notin Requests \cup Callers
                          /\ Garbage \notin Requests

VARIABLES
    request_queue_mutex,  \* the thread inside the critical section, or NULL
    requests,             \* the array
    size, count, start, end,
    pc,                   \* where each caller is
    local,                \* enqueue's parameter, or dequeue's "answer"
    returned              \* what the last dequeue of each caller answered

ring == <<requests, size, count, start, end>>
vars == <<request_queue_mutex, requests, size, count, start, end, pc, local,
          returned>>
-----------------------------------------------------------------------------
(* Helpers.  A definition marked "slip" is a plausible mistake in the code of
   the definition that follows it; no behaviour of Spec uses it. *)

\* The cell of an array of n cells where index i falls.
Cell(i, n) == i % n

\* Slip: a while loop in the place of the do-while copies nothing, because the
\* array is enlarged exactly when "start" and "end" coincide.
CellsCopied_WhileLoop == CHOOSE k \in 0..size :
    /\ Cell(start + k, size) = end
    /\ \A j \in 0..(k - 1) : Cell(start + j, size) # end

\* The iterations of enlarge_request_queue's do-while: at least one, until the
\* cursor that left from "start" meets "end".
CellsCopied == CHOOSE k \in 1..size : Cell(start + k, size) = end

\* Slip: the copy begins at the first cell of the array and not at "start".
EnlargedRing_FromFirstCell ==
    [i \in 0..(2 * size - 1) |->
        IF i < CellsCopied THEN requests[i] ELSE Garbage]

\* The array after enlarge_request_queue: twice as large, the copied cells
\* moved to its beginning in queue order.
EnlargedRing ==
    [i \in 0..(2 * size - 1) |->
        IF i < CellsCopied THEN requests[Cell(start + i, size)] ELSE Garbage]
-----------------------------------------------------------------------------
(* Specification *)

Init ==
    /\ request_queue_mutex = NULL
    /\ size = InitialSize
    /\ requests = [i \in 0..(InitialSize - 1) |-> Garbage]
    /\ count = 0
    /\ start = 0
    /\ end = 0
    /\ pc = [c \in Callers |-> "idle"]
    /\ local = [c \in Callers |-> NULL]
    /\ returned = [c \in Callers |-> NULL]

Lock(c) ==
    /\ request_queue_mutex = NULL
    /\ request_queue_mutex' = c

Unlock(c) == request_queue_mutex' = NULL

\* requests[end] = request, in an array that has room.
StoreInRing(r) ==
    /\ count # size
    /\ requests' = [requests EXCEPT ![end] = r]
    /\ UNCHANGED <<size, start, end>>

\* The same after enlarge_request_queue, which leaves "count" alone.
StoreInEnlargedRing(r) ==
    /\ count = size
    /\ size' = 2 * size
    /\ start' = 0
    /\ end' = CellsCopied
    /\ requests' = [EnlargedRing EXCEPT ![CellsCopied] = r]

BeginEnqueue(c, r) ==
    /\ pc[c] = "idle"
    /\ count < MaxCount
    /\ Lock(c)
    /\ StoreInRing(r) \/ StoreInEnlargedRing(r)
    /\ pc' = [pc EXCEPT ![c] = "enqueuing"]
    /\ local' = [local EXCEPT ![c] = r]
    /\ UNCHANGED <<count, returned>>

EndEnqueue(c) ==
    /\ pc[c] = "enqueuing"
    /\ end' = Cell(end + 1, size)
    /\ count' = count + 1
    /\ Unlock(c)
    /\ pc' = [pc EXCEPT ![c] = "idle"]
    /\ UNCHANGED <<requests, size, start, local, returned>>

BeginDequeue(c) ==
    /\ pc[c] = "idle"
    /\ count > 0
    /\ Lock(c)
    /\ local' = [local EXCEPT ![c] = requests[start]]
    /\ pc' = [pc EXCEPT ![c] = "dequeuing"]
    /\ UNCHANGED <<ring, returned>>

EndDequeue(c) ==
    /\ pc[c] = "dequeuing"
    /\ start' = Cell(start + 1, size)
    /\ count' = count - 1
    /\ returned' = [returned EXCEPT ![c] = local[c]]
    /\ Unlock(c)
    /\ pc' = [pc EXCEPT ![c] = "idle"]
    /\ UNCHANGED <<requests, size, end, local>>

\* The whole of dequeue when it finds nothing: it locks, looks and unlocks.
DequeueEmpty(c) ==
    /\ pc[c] = "idle"
    /\ request_queue_mutex = NULL
    /\ count = 0
    /\ returned' = [returned EXCEPT ![c] = NULL]
    /\ UNCHANGED <<request_queue_mutex, ring, pc, local>>

Next ==
    \E c \in Callers :
        \/ \E r \in Requests : BeginEnqueue(c, r)
        \/ EndEnqueue(c)
        \/ BeginDequeue(c)
        \/ EndDequeue(c)
        \/ DequeueEmpty(c)

Spec == Init /\ [][Next]_vars
-----------------------------------------------------------------------------
(* Properties *)

\* The array always has "size" cells and both cursors point into it, also
\* while enlarge_request_queue replaces the array.
TypeOK ==
    /\ request_queue_mutex \in Callers \cup {NULL}
    /\ size \in Nat \ {0}
    /\ count \in 0..size
    /\ start \in 0..(size - 1)
    /\ end \in 0..(size - 1)
    /\ requests \in [0..(size - 1) -> Requests \cup {Garbage}]
    /\ pc \in [Callers -> {"idle", "enqueuing", "dequeuing"}]
    /\ local \in [Callers -> Requests \cup {NULL}]
    /\ returned \in [Callers -> Requests \cup {NULL}]

\* Whoever is between the two steps of an operation holds the mutex: no two
\* callers touch the ring at the same time.
MutexExclusion ==
    \A c \in Callers : pc[c] # "idle" => request_queue_mutex = c

\* start, count and end agree, and the occupied cells hold requests: a cell
\* that was never written is never handed to a worker, however often the ring
\* wrapped around or was enlarged.
RingConsistent ==
    /\ end = Cell(start + count, size)
    /\ \A i \in 0..(count - 1) : requests[Cell(start + i, size)] \in Requests

\* The two operations in progress: the cell past the last one already holds the
\* request being enqueued; the answer being dequeued is the oldest request.
OperationInProgress ==
    \A c \in Callers :
        /\ pc[c] = "enqueuing" => /\ count < size
                                  /\ local[c] \in Requests
                                  /\ requests[end] = local[c]
        /\ pc[c] = "dequeuing" => /\ count > 0
                                  /\ local[c] = requests[start]

\* The inductive invariant.
RingInvariant ==
    /\ TypeOK
    /\ MutexExclusion
    /\ RingConsistent
    /\ OperationInProgress

\* The requests in the order dequeue will hand them out.
Contents == [i \in 1..count |-> requests[Cell(start + i - 1, size)]]

Abstract == INSTANCE AbstractRequestQueue WITH queue <- Contents

\* The ring buffer is a FIFO queue: nothing is lost, duplicated or reordered
\* by the wrap-around of the cursors, by the copy enlarge_request_queue makes,
\* or by two threads that enqueue and dequeue at the same time.
ImplementsFIFO == Abstract!Spec
=============================================================================
