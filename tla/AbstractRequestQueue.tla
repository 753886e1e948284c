------------------------ MODULE AbstractRequestQueue ------------------------
(***************************************************************************)
(* What commons/RequestQueue promises to its callers: an unbounded first-in *)
(* first-out queue whose two operations are atomic.  Dequeuing an empty     *)
(* queue answers NULL and leaves it empty.                                  *)
(***************************************************************************)
EXTENDS Sequences

CONSTANTS
    Callers,     \* the threads that share the queue
    Requests,    \* what may be queued
    NULL         \* the answer of a dequeue that found nothing

VARIABLES
    queue,       \* the requests waiting, oldest first
    returned     \* what the last dequeue of each caller answered

vars == <<queue, returned>>

Init ==
    /\ queue = <<>>
    /\ returned = [c \in Callers |-> NULL]

Enqueue(r) ==
    /\ queue' = Append(queue, r)
    /\ UNCHANGED returned

Dequeue(c) ==
    /\ queue # <<>>
    /\ returned' = [returned EXCEPT ![c] = Head(queue)]
    /\ queue' = Tail(queue)

DequeueEmpty(c) ==
    /\ queue = <<>>
    /\ returned' = [returned EXCEPT ![c] = NULL]
    /\ UNCHANGED queue

Next ==
    \/ \E r \in Requests : Enqueue(r)
    \/ \E c \in Callers : Dequeue(c) \/ DequeueEmpty(c)

Spec == Init /\ [][Next]_vars
=============================================================================
