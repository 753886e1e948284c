------------------------- MODULE RequestQueueProofs -------------------------
(***************************************************************************)
(* The ring buffer of RequestQueue is consistent for every number of        *)
(* callers, every set of requests and every initial size.                   *)
(***************************************************************************)
EXTENDS RequestQueue, SequenceTheorems, TLAPS

\* The indices the code reduces modulo the size are less than two turns: the
\* remainder is the index itself or the index minus one turn.
LEMMA OneTurn ==
    ASSUME NEW n \in Nat \ {0}, NEW i \in 0..(2 * n - 1)
    PROVE  Cell(i, n) = IF i < n THEN i ELSE i - n
  BY DEF Cell

\* enlarge_request_queue runs when the ring is full, where its do-while goes
\* once around: it copies every cell.
LEMMA CopiesWholeRing ==
    ASSUME TypeOK, RingConsistent, count = size
    PROVE  CellsCopied = size
  <1>1. size \in Nat \ {0} /\ start \in 0..(size - 1)
    BY DEF TypeOK
  <1>2. end = start
    BY <1>1, OneTurn DEF RingConsistent
  <1>3. size \in 1..size /\ Cell(start + size, size) = end
    BY <1>1, <1>2, OneTurn
  <1>4. ASSUME NEW k \in 1..size, Cell(start + k, size) = end
        PROVE  k = size
    BY <1>1, <1>2, <1>4, OneTurn
  <1> QED
    BY <1>3, <1>4 DEF CellsCopied

\* The constructor builds a consistent, empty ring.
LEMMA InitRing == Init => RingInvariant
  <1> SUFFICES ASSUME Init PROVE RingInvariant
    OBVIOUS
  <1>1. TypeOK
    BY SizeAssumption, ValueAssumption DEF Init, TypeOK
  <1>2. MutexExclusion /\ OperationInProgress
    BY DEF Init, MutexExclusion, OperationInProgress
  <1>3. RingConsistent
    BY SizeAssumption, OneTurn DEF Init, RingConsistent
  <1> QED
    BY <1>1, <1>2, <1>3 DEF RingInvariant

\* enqueue writes its request past the last one, into the array as it is or
\* into the one enlarge_request_queue has just built.
LEMMA BeginEnqueueRing ==
    ASSUME RingInvariant, NEW c \in Callers, NEW r \in Requests,
           BeginEnqueue(c, r)
    PROVE  RingInvariant'
  <1> USE DEF RingInvariant
  <1>1. MutexExclusion' /\ (\A d \in Callers \ {c} : pc[d] = "idle")
    BY ValueAssumption DEF TypeOK, MutexExclusion, BeginEnqueue, Lock
  <1>2. /\ size \in Nat \ {0} /\ count \in 0..size
        /\ start \in 0..(size - 1) /\ end \in 0..(size - 1)
        /\ \A i \in 0..(count - 1) :
              /\ start + i \in 0..(2 * size - 1)
              /\ Cell(start + i, size) \in 0..(size - 1)
    BY OneTurn DEF TypeOK
  <1>3. CASE StoreInRing(r)
    <2>1. TypeOK'
      BY <1>3 DEF TypeOK, BeginEnqueue, Lock, StoreInRing
    <2>2. \A i \in 0..(count - 1) : Cell(start + i, size) # end
      BY <1>2, <1>3, OneTurn DEF RingConsistent, StoreInRing
    <2>3. RingConsistent'
      BY <1>2, <1>3, <2>2 DEF TypeOK, RingConsistent, BeginEnqueue, StoreInRing
    <2>4. OperationInProgress'
      BY <1>1, <1>3, <2>1 DEF TypeOK, OperationInProgress, BeginEnqueue, StoreInRing
    <2> QED
      BY <1>1, <2>1, <2>3, <2>4
  <1>4. CASE StoreInEnlargedRing(r)
    <2>1. CellsCopied = size /\ count = size
      BY <1>4, CopiesWholeRing DEF StoreInEnlargedRing
    <2>2. /\ size' = 2 * size /\ start' = 0 /\ end' = size /\ count' = size
          /\ requests' = [EnlargedRing EXCEPT ![size] = r]
      BY <1>4, <2>1 DEF BeginEnqueue, StoreInEnlargedRing
    <2>3. /\ EnlargedRing \in [0..(2 * size - 1) -> Requests \cup {Garbage}]
          /\ \A i \in 0..(size - 1) : EnlargedRing[i] \in Requests
      <3>1. \A i \in 0..(size - 1) : requests[Cell(start + i, size)] \in Requests
        BY <2>1 DEF RingConsistent
      <3>2. EnlargedRing = [i \in 0..(2 * size - 1) |->
                IF i < size THEN requests[Cell(start + i, size)] ELSE Garbage]
        BY <2>1 DEF EnlargedRing
      <3>3. \A i \in 0..(2 * size - 1) : i < size => i \in 0..(size - 1)
        BY <1>2
      <3>4. \A i \in 0..(size - 1) : i \in 0..(2 * size - 1) /\ i < size
        BY <1>2
      <3> HIDE <1>2
      <3> QED
        BY <3>1, <3>2, <3>3, <3>4
    <2>4. requests' \in [0..(2 * size - 1) -> Requests \cup {Garbage}]
      BY <1>2, <2>2, <2>3
    <2>5. TypeOK'
      BY <1>2, <2>2, <2>4 DEF TypeOK, BeginEnqueue, Lock
    <2>6. RingConsistent'
      <3>1. \A i \in 0..(size - 1) : Cell(i, 2 * size) = i /\ i # size
        BY <1>2, OneTurn
      <3>2. Cell(0 + size, 2 * size) = size
        BY <1>2, OneTurn
      <3>3. \A i \in 0..(size - 1) : requests'[i] \in Requests
        BY <1>2, <2>2, <2>3
      <3> QED
        BY <1>2, <2>2, <3>1, <3>2, <3>3 DEF RingConsistent
    <2>7. OperationInProgress'
      BY <1>1, <1>2, <2>2, <2>3, <2>5
      DEF TypeOK, OperationInProgress, BeginEnqueue
    <2> QED
      BY <1>1, <2>5, <2>6, <2>7
  <1> QED
    BY <1>3, <1>4 DEF BeginEnqueue

\* enqueue publishes the request it wrote.
LEMMA EndEnqueueRing ==
    ASSUME RingInvariant, NEW c \in Callers, EndEnqueue(c)
    PROVE  RingInvariant'
  <1> USE DEF RingInvariant
  <1>1. MutexExclusion' /\ (\A d \in Callers \ {c} : pc[d] = "idle")
    BY ValueAssumption DEF TypeOK, MutexExclusion, EndEnqueue, Unlock
  <1>2. /\ size \in Nat \ {0} /\ count \in 0..(size - 1)
        /\ start \in 0..(size - 1) /\ end \in 0..(size - 1)
        /\ requests[end] \in Requests
    BY DEF TypeOK, OperationInProgress, EndEnqueue
  <1>3. TypeOK'
    BY <1>2, OneTurn DEF TypeOK, EndEnqueue, Unlock
  <1>4. RingConsistent'
    <2>1. Cell(end + 1, size) = Cell(start + (count + 1), size)
      BY <1>2, OneTurn DEF RingConsistent
    <2>2. \A i \in 0..count : i = count \/ i \in 0..(count - 1)
      BY <1>2
    <2> QED
      BY <1>2, <2>1, <2>2 DEF RingConsistent, EndEnqueue
  <1>5. OperationInProgress'
    BY <1>1, <1>3 DEF TypeOK, OperationInProgress, EndEnqueue
  <1> QED
    BY <1>1, <1>3, <1>4, <1>5

\* dequeue reads the oldest request, which a full first cell guarantees.
LEMMA BeginDequeueRing ==
    ASSUME RingInvariant, NEW c \in Callers, BeginDequeue(c)
    PROVE  RingInvariant'
  <1> USE DEF RingInvariant
  <1>1. MutexExclusion' /\ (\A d \in Callers \ {c} : pc[d] = "idle")
    BY ValueAssumption DEF TypeOK, MutexExclusion, BeginDequeue, Lock
  <1>2. requests[start] \in Requests
    <2>1. 0 \in 0..(count - 1) /\ Cell(start + 0, size) = start
      BY OneTurn DEF TypeOK, BeginDequeue
    <2> QED
      BY <2>1 DEF RingConsistent
  <1>3. TypeOK' /\ RingConsistent'
    BY <1>2 DEF TypeOK, RingConsistent, BeginDequeue, Lock, ring
  <1>4. OperationInProgress'
    BY <1>1, <1>2, <1>3 DEF TypeOK, OperationInProgress, BeginDequeue, ring
  <1> QED
    BY <1>1, <1>3, <1>4

\* dequeue frees the cell it read.
LEMMA EndDequeueRing ==
    ASSUME RingInvariant, NEW c \in Callers, EndDequeue(c)
    PROVE  RingInvariant'
  <1> USE DEF RingInvariant
  <1>1. MutexExclusion' /\ (\A d \in Callers \ {c} : pc[d] = "idle")
    BY ValueAssumption DEF TypeOK, MutexExclusion, EndDequeue, Unlock
  <1>2. /\ size \in Nat \ {0} /\ count \in 1..size
        /\ start \in 0..(size - 1) /\ end \in 0..(size - 1)
    BY DEF TypeOK, OperationInProgress, EndDequeue
  <1>3. TypeOK'
    BY <1>2, OneTurn DEF TypeOK, EndDequeue, Unlock
  <1>4. RingConsistent'
    <2>1. \A i \in 0..(count - 1) :
             Cell(Cell(start + 1, size) + i, size) = Cell(start + (i + 1), size)
      BY <1>2, OneTurn
    <2>2. \A i \in 0..(count - 2) : i + 1 \in 0..(count - 1) /\ i \in 0..(count - 1)
      BY <1>2
    <2>3. end = Cell(Cell(start + 1, size) + (count - 1), size)
      BY <1>2, <2>1 DEF RingConsistent
    <2> QED
      BY <1>2, <2>1, <2>2, <2>3 DEF RingConsistent, EndDequeue
  <1>5. OperationInProgress'
    BY <1>1, <1>3 DEF TypeOK, OperationInProgress, EndDequeue
  <1> QED
    BY <1>1, <1>3, <1>4, <1>5

\* Every step of the queue keeps the ring consistent.
LEMMA NextRing == RingInvariant /\ [Next]_vars => RingInvariant'
  <1> SUFFICES ASSUME RingInvariant, [Next]_vars PROVE RingInvariant'
    OBVIOUS
  <1>1. ASSUME NEW c \in Callers, DequeueEmpty(c) PROVE RingInvariant'
    BY <1>1 DEF RingInvariant, TypeOK, MutexExclusion, RingConsistent,
                OperationInProgress, DequeueEmpty, ring
  <1>2. CASE UNCHANGED vars
    BY <1>2 DEF RingInvariant, TypeOK, MutexExclusion, RingConsistent,
                OperationInProgress, vars
  <1> QED
    BY <1>1, <1>2, BeginEnqueueRing, EndEnqueueRing, BeginDequeueRing,
       EndDequeueRing DEF Next

\* In every reachable state the cursors and the count of RequestQueue agree and
\* every occupied cell holds a request that was enqueued, also in the middle of
\* an operation and across enlarge_request_queue.
THEOREM RingAlwaysConsistent == Spec => []RingInvariant
  BY InitRing, NextRing, PTL DEF Spec
-----------------------------------------------------------------------------
(* Refinement of AbstractRequestQueue *)

\* The sequence the ring stands for.
LEMMA ContentsSeq ==
    ASSUME RingInvariant
    PROVE  /\ Contents \in Seq(Requests)
           /\ Len(Contents) = count
           /\ \A i \in 1..count : Contents[i] = requests[Cell(start + i - 1, size)]
  <1>1. count \in Nat /\ start \in Nat
    BY DEF RingInvariant, TypeOK
  <1>2. \A i \in 1..count : /\ i - 1 \in 0..(count - 1)
                            /\ start + i - 1 = start + (i - 1)
    BY <1>1
  <1>3. \A i \in 1..count : requests[Cell(start + i - 1, size)] \in Requests
    BY <1>2 DEF RingInvariant, RingConsistent
  <1> QED
    BY <1>1, <1>3 DEF Contents

\* Writing the cell past the last request, in place or in an enlarged array,
\* is invisible to the callers.
LEMMA BeginEnqueueStutters ==
    ASSUME RingInvariant, NEW c \in Callers, NEW r \in Requests,
           BeginEnqueue(c, r)
    PROVE  Contents' = Contents
  <1>1. /\ size \in Nat \ {0} /\ count \in 0..size /\ count' = count
        /\ start \in 0..(size - 1) /\ end \in 0..(size - 1)
        /\ requests \in [0..(size - 1) -> Requests \cup {Garbage}]
    BY DEF RingInvariant, TypeOK, BeginEnqueue
  <1>2. \A i \in 1..count : /\ i - 1 \in 0..(count - 1)
                            /\ start + i - 1 = start + (i - 1)
                            /\ start + (i - 1) \in 0..(2 * size - 1)
    BY <1>1
  <1>3. CASE StoreInRing(r)
    <2>1. \A i \in 1..count : /\ Cell(start + i - 1, size) # end
                              /\ Cell(start + i - 1, size) \in 0..(size - 1)
      BY <1>1, <1>2, <1>3, OneTurn DEF RingInvariant, RingConsistent, StoreInRing
    <2>2. \A i \in 1..count :
             requests'[Cell(start + i - 1, size)] = requests[Cell(start + i - 1, size)]
      BY <1>1, <1>3, <2>1 DEF StoreInRing
    <2> QED
      BY <1>1, <1>3, <2>2 DEF Contents, StoreInRing
  <1>4. CASE StoreInEnlargedRing(r)
    <2>1. CellsCopied = size /\ count = size
      BY <1>4, CopiesWholeRing DEF RingInvariant, StoreInEnlargedRing
    <2>2. /\ size' = 2 * size /\ start' = 0
          /\ requests' = [EnlargedRing EXCEPT ![size] = r]
      BY <1>4, <2>1 DEF StoreInEnlargedRing
    <2>3. \A i \in 1..count : Cell(0 + i - 1, 2 * size) = i - 1
      BY <1>1, OneTurn
    <2>4. EnlargedRing = [i \in 0..(2 * size - 1) |->
              IF i < size THEN requests[Cell(start + i, size)] ELSE Garbage]
      BY <2>1 DEF EnlargedRing
    <2>5. \A i \in 1..count :
             /\ i - 1 \in 0..(2 * size - 1) /\ i - 1 < size /\ i - 1 # size
      BY <1>1, <2>1
    <2>6. \A i \in 1..count : requests'[i - 1] = requests[Cell(start + (i - 1), size)]
      BY <2>2, <2>4, <2>5
    <2> QED
      BY <1>1, <1>2, <2>2, <2>3, <2>6 DEF Contents
  <1> QED
    BY <1>3, <1>4 DEF BeginEnqueue

\* The second half of enqueue appends the request to the queue.
LEMMA EndEnqueueAppends ==
    ASSUME RingInvariant, NEW c \in Callers, EndEnqueue(c)
    PROVE  local[c] \in Requests /\ Contents' = Append(Contents, local[c])
  <1>1. /\ size \in Nat \ {0} /\ count \in 0..(size - 1)
        /\ start \in 0..(size - 1)
        /\ requests[end] = local[c] /\ local[c] \in Requests
        /\ count' = count + 1
        /\ requests' = requests /\ size' = size /\ start' = start
    BY DEF RingInvariant, TypeOK, OperationInProgress, EndEnqueue
  <1>2. Cell(start + (count + 1) - 1, size) = end
    BY <1>1 DEF RingInvariant, RingConsistent
  <1>3. Contents' = [i \in 1..(count + 1) |-> requests[Cell(start + i - 1, size)]]
    BY <1>1 DEF Contents
  <1> QED
    BY <1>1, <1>2, <1>3, ContentsSeq

\* The second half of dequeue removes the oldest request and answers it.
LEMMA EndDequeueRemovesHead ==
    ASSUME RingInvariant, NEW c \in Callers, EndDequeue(c)
    PROVE  /\ Contents # <<>>
           /\ local[c] = Head(Contents)
           /\ Contents' = Tail(Contents)
  <1>1. /\ size \in Nat \ {0} /\ count \in 1..size
        /\ start \in 0..(size - 1)
        /\ requests[start] = local[c]
        /\ count' = count - 1
        /\ requests' = requests /\ size' = size
        /\ start' = Cell(start + 1, size)
    BY DEF RingInvariant, TypeOK, OperationInProgress, EndDequeue
  <1>2. Cell(start + 1 - 1, size) = start
    BY <1>1, OneTurn
  <1>3. \A i \in 1..(count - 1) :
           Cell(Cell(start + 1, size) + i - 1, size) = Cell(start + (i + 1) - 1, size)
    BY <1>1, OneTurn
  <1>4. Contents' = [i \in 1..(count - 1) |-> requests[Cell(start + (i + 1) - 1, size)]]
    BY <1>1, <1>3 DEF Contents
  <1>5. Contents # <<>>
    BY <1>1, ContentsSeq
  <1>6. Head(Contents) = local[c]
    <2>1. Contents[1] = requests[Cell(start + 1 - 1, size)]
      BY <1>1, ContentsSeq
    <2> QED
      BY <1>1, <1>2, <1>5, <2>1, ContentsSeq
  <1>7. Tail(Contents) = [i \in 1..(count - 1) |-> Contents[i + 1]]
    <2>1. /\ Tail(Contents) \in Seq(Requests)
          /\ Len(Tail(Contents)) = count - 1
          /\ \A i \in 1..(count - 1) : Tail(Contents)[i] = Contents[i + 1]
      BY <1>5, ContentsSeq, HeadTailProperties
    <2>2. Tail(Contents) \in [1..(count - 1) -> Requests]
      BY <2>1, LenProperties
    <2> QED
      BY <2>1, <2>2
  <1>8. \A i \in 1..(count - 1) :
           Contents[i + 1] = requests[Cell(start + (i + 1) - 1, size)]
    BY <1>1, ContentsSeq
  <1> QED
    BY <1>4, <1>5, <1>6, <1>7, <1>8

\* Each step of the ring is a step of the FIFO queue or changes nothing its
\* callers can see.
LEMMA StepSimulation ==
    RingInvariant /\ [Next]_vars => [Abstract!Next]_(Abstract!vars)
  <1> SUFFICES ASSUME RingInvariant, [Next]_vars
               PROVE  Abstract!Next \/ UNCHANGED <<Contents, returned>>
    BY DEF Abstract!vars
  <1>1. ASSUME NEW c \in Callers, NEW r \in Requests, BeginEnqueue(c, r)
        PROVE  UNCHANGED <<Contents, returned>>
    BY <1>1, BeginEnqueueStutters DEF BeginEnqueue
  <1>2. ASSUME NEW c \in Callers, EndEnqueue(c)
        PROVE  Abstract!Next
    BY <1>2, EndEnqueueAppends DEF EndEnqueue, Abstract!Next, Abstract!Enqueue
  <1>3. ASSUME NEW c \in Callers, BeginDequeue(c)
        PROVE  UNCHANGED <<Contents, returned>>
    BY <1>3 DEF BeginDequeue, Contents, ring
  <1>4. ASSUME NEW c \in Callers, EndDequeue(c)
        PROVE  Abstract!Next
    BY <1>4, EndDequeueRemovesHead DEF EndDequeue, Abstract!Next, Abstract!Dequeue
  <1>5. ASSUME NEW c \in Callers, DequeueEmpty(c)
        PROVE  Abstract!Next
    <2>1. Contents = <<>> /\ Contents' = Contents
      BY <1>5, ContentsSeq DEF DequeueEmpty, Contents, ring
    <2> QED
      BY <1>5, <2>1 DEF DequeueEmpty, Abstract!Next, Abstract!DequeueEmpty
  <1>6. CASE UNCHANGED vars
    BY <1>6 DEF vars, Contents
  <1> QED
    BY <1>1, <1>2, <1>3, <1>4, <1>5, <1>6 DEF Next

\* RequestQueue keeps the promise of AbstractRequestQueue for every number of
\* threads, every initial size and every number of enlargements: enqueue and
\* dequeue are atomic operations of a FIFO queue.
THEOREM RequestQueueIsFIFO == Spec => ImplementsFIFO
  <1>1. Init => Abstract!Init
    BY SizeAssumption DEF Init, Contents, Abstract!Init
  <1> QED
    BY <1>1, InitRing, NextRing, StepSimulation, PTL
    DEF Spec, ImplementsFIFO, Abstract!Spec
=============================================================================
