------------------------ MODULE HebbianNetworkProofs ------------------------
(***************************************************************************)
(* For every number of workers, handles and requests: the arities of a      *)
(* HebbianNetwork never exceed the numbers of neighbors, although they are  *)
(* updated without any lock; the counts of its nodes and edges are what     *)
(* the requests say; an edge is never counted before the nodes that it      *)
(* refers to.                                                               *)
(*                                                                          *)
(* The first part is about arities. The second part, about counts, goes     *)
(* along these lines:                                                       *)
(* 1. The number of pairs in a family of sets (Rows), and how it changes    *)
(*    with one set of the family.                                           *)
(* 2. Where each worker is in the loops over its list (LoopOK).             *)
(* 3. What was counted and what the workers still have to count is what     *)
(*    the requests say (Counts).                                            *)
(* 4. What the edges of a pair may come to is counted in its node already   *)
(*    (Weights).                                                            *)
(***************************************************************************)
EXTENDS HebbianNetwork, FiniteSetTheorems, SequenceTheorems, TLAPS

\* The first element and the rest of a list that is not empty.
LEMMA HeadTail ==
    ASSUME NEW S, NEW s \in Seq(S), s # <<>>
    PROVE  /\ Head(s) \in S /\ Tail(s) \in Seq(S)
           /\ Len(s) # 1 => Tail(s) # <<>>
  <1>1. Head(s) \in S /\ Tail(s) \in Seq(S) /\ Len(Tail(s)) = Len(s) - 1
    OBVIOUS
  <1>2. Len(s) # 1 => Len(Tail(s)) # 0
    BY <1>1
  <1>3. Tail(s) = <<>> => Len(Tail(s)) = 0
    BY <1>1, EmptySeq
  <1> QED
    BY <1>1, <1>2, <1>3

\* The two edges of a pair.
LEMMA BothWaysType ==
    ASSUME NEW a \in Handles, NEW b \in Handles
    PROVE  BothWays(a, b) \in Seq(Edges) /\ BothWays(a, b) # <<>>
  BY DEF BothWays, Edges

LEMMA InitType == Init => TypeOK
  <1> SUFFICES ASSUME Init PROVE TypeOK
    OBVIOUS
  <1>1. <<>> \in Seq(Handles) /\ <<>> \in Seq(Edges) /\ <<>> \in Seq(Lists)
    OBVIOUS
  <1>2. GraphType
    BY <1>1 DEF Init, GraphType
  <1>3. WorkerType
    BY <1>1 DEF Init, WorkerType
  <1>4. WorkerShape
    BY NullAssumption DEF Init, WorkerShape
  <1> QED
    BY <1>2, <1>3, <1>4 DEF TypeOK

\* A worker begins a request.
LEMMA StartType ==
    ASSUME TypeOK, NEW t \in Updaters, NEW list \in Lists, Start(t, list)
    PROVE  TypeOK'
  <1>1. list \in Seq(Handles) /\ Append(received, list) \in Seq(Lists)
    BY ListAssumption DEF TypeOK, GraphType
  <1>2. GraphType'
    BY <1>1 DEF TypeOK, GraphType, Start, graphVars, largestVars
  <1>3. WorkerType'
    BY <1>1 DEF TypeOK, WorkerType, Start, Goto
  <1>4. WorkerShape'
    BY <1>1 DEF TypeOK, WorkerType, WorkerShape, Start, Goto, largestVars
  <1> QED
    BY <1>2, <1>3, <1>4 DEF TypeOK

LEMMA AddNodeType ==
    ASSUME TypeOK, NEW t \in Updaters, AddNode(t)
    PROVE  TypeOK'
  <1>1. Head(nodes[t]) \in Handles /\ Tail(nodes[t]) \in Seq(Handles)
    BY HeadTail DEF TypeOK, WorkerType, AddNode
  <1>2. GraphType'
    BY <1>1 DEF TypeOK, GraphType, AddNode, largestVars, historyVars
  <1>3. WorkerType'
    BY <1>1 DEF TypeOK, WorkerType, AddNode
  <1>4. WorkerShape'
    BY DEF TypeOK, WorkerShape, AddNode, largestVars
  <1> QED
    BY <1>2, <1>3, <1>4 DEF TypeOK

LEMMA NextPairType ==
    ASSUME TypeOK, NEW t \in Updaters, NextPair(t)
    PROVE  TypeOK'
  <1>1. /\ outer[t] # <<>> /\ inner[t] # <<>> /\ request[t] # <<>>
        /\ outer[t] \in Seq(Handles) /\ inner[t] \in Seq(Handles)
    BY DEF TypeOK, WorkerType, WorkerShape, NextPair
  <1>2. /\ Head(outer[t]) \in Handles /\ Tail(outer[t]) \in Seq(Handles)
        /\ Head(inner[t]) \in Handles /\ Tail(inner[t]) \in Seq(Handles)
        /\ Len(inner[t]) # 1 => Tail(inner[t]) # <<>>
    BY <1>1, HeadTail
  <1>3. GraphType'
    BY DEF TypeOK, GraphType, NextPair, graphVars, largestVars, historyVars
  <1>4. WorkerType'
    <2>1. edges' \in [Updaters -> Seq(Edges)]
      BY <1>2, BothWaysType DEF TypeOK, WorkerType, NextPair
    <2>2. outer' \in [Updaters -> Seq(Handles)] /\ inner' \in [Updaters -> Seq(Handles)]
      BY <1>2 DEF TypeOK, WorkerType, NextPair
    <2> QED
      BY <2>1, <2>2 DEF TypeOK, WorkerType, NextPair
  <1>5. WorkerShape'
    <2>1. outer'[t] # <<>> => inner'[t] # <<>>
      BY <1>1, <1>2 DEF TypeOK, WorkerType, NextPair
    <2>2. \A u \in Updaters \ {t} : outer'[u] = outer[u] /\ inner'[u] = inner[u]
      BY DEF TypeOK, WorkerType, NextPair
    <2> QED
      BY <1>1, <2>1, <2>2 DEF TypeOK, WorkerShape, NextPair, largestVars
  <1> QED
    BY <1>3, <1>4, <1>5 DEF TypeOK

LEMMA FinishType ==
    ASSUME TypeOK, NEW t \in Updaters, Finish(t)
    PROVE  TypeOK'
  <1>1. GraphType' /\ WorkerType'
    BY DEF TypeOK, GraphType, WorkerType, Finish, Goto, graphVars, largestVars,
           loopVars, historyVars
  <1>2. WorkerShape'
    BY DEF TypeOK, WorkerType, WorkerShape, Finish, Goto, largestVars, loopVars
  <1> QED
    BY <1>1, <1>2 DEF TypeOK

LEMMA ThrowType ==
    ASSUME TypeOK, NEW t \in Updaters, Throw(t)
    PROVE  TypeOK'
  <1>1. GraphType' /\ WorkerType'
    BY DEF TypeOK, GraphType, WorkerType, Throw, Goto, graphVars, largestVars,
           loopVars, historyVars
  <1>2. WorkerShape'
    BY DEF TypeOK, WorkerType, WorkerShape, Throw, Goto, largestVars, loopVars
  <1> QED
    BY <1>1, <1>2 DEF TypeOK

LEMMA InsertEdgeType ==
    ASSUME TypeOK, NEW t \in Updaters, InsertEdge(t)
    PROVE  TypeOK'
  <1>1. Head(edges[t]) \in Edges /\ Tail(edges[t]) \in Seq(Edges)
    BY HeadTail DEF TypeOK, WorkerType, InsertEdge
  <1>2. GraphType'
    BY <1>1 DEF TypeOK, GraphType, InsertEdge, largestVars, historyVars
  <1>3. WorkerType'
    BY <1>1 DEF TypeOK, WorkerType, InsertEdge, Goto, loopVars
  <1>4. WorkerShape'
    BY <1>1, NullAssumption
    DEF TypeOK, WorkerType, WorkerShape, InsertEdge, Goto, largestVars, loopVars
  <1> QED
    BY <1>2, <1>3, <1>4 DEF TypeOK

\* Inside add_asymmetric_edge the worker's edge is an edge.
LEMMA EdgeInHand ==
    ASSUME TypeOK, NEW t \in Updaters, pc[t] \notin {"idle", "next", "terminated"}
    PROVE  edge[t] \in Edges /\ edge[t][1] \in Handles
  BY DEF TypeOK, WorkerType, WorkerShape, Edges

LEMMA CheckFirstTimeType ==
    ASSUME TypeOK, NEW t \in Updaters, CheckFirstTime(t)
    PROVE  TypeOK'
  <1>1. GraphType' /\ WorkerType'
    BY DEF TypeOK, GraphType, WorkerType, CheckFirstTime, Done, Goto, graphVars,
           largestVars, loopVars, historyVars
  <1>2. WorkerShape'
    BY DEF TypeOK, WorkerType, WorkerShape, CheckFirstTime, Done, Goto,
           largestVars, loopVars
  <1> QED
    BY <1>1, <1>2 DEF TypeOK

LEMMA ArityType ==
    ASSUME TypeOK, NEW t \in Updaters,
           LinkEdge(t) \/ ReadArity(t) \/ WriteArity(t)
    PROVE  TypeOK'
  <1>1. edge[t] \in Edges /\ edge[t][1] \in Handles
    BY EdgeInHand DEF LinkEdge, ReadArity, WriteArity
  <1>2. /\ linked' \in SUBSET Edges
        /\ register' \in [Updaters -> Nat]
        /\ arity' \in [Handles -> Nat]
    <2>1. /\ linked \in SUBSET Edges
          /\ register \in [Updaters -> Nat]
          /\ arity \in [Handles -> Nat]
      BY DEF TypeOK, GraphType, WorkerType
    <2>2. CASE LinkEdge(t)
      BY <1>1, <2>1, <2>2 DEF LinkEdge, Linked
    <2>3. CASE ReadArity(t)
      BY <1>1, <2>1, <2>3 DEF ReadArity, graphVars
    <2>4. CASE WriteArity(t)
      <3>1. arity' = [arity EXCEPT ![edge[t][1]] = register[t] + 1]
        BY <2>4 DEF WriteArity
      <3>2. linked' = linked /\ register' = register
        BY <2>4 DEF WriteArity
      <3>3. register[t] + 1 \in Nat
        BY <2>1
      <3> QED
        BY <2>1, <3>1, <3>2, <3>3
    <2> QED
      BY <2>2, <2>3, <2>4
  <1>3. UNCHANGED <<node_count, edge_count, largestVars, loopVars, edges, edge, historyVars>>
    BY DEF LinkEdge, ReadArity, WriteArity, graphVars
  <1>4. /\ pc[t] \in {"link", "read_arity", "write_arity"}
        /\ \E label \in {"read_arity", "write_arity", "compare"} :
              pc' = [pc EXCEPT ![t] = label]
    BY DEF LinkEdge, ReadArity, WriteArity, Goto
  <1>5. GraphType' /\ WorkerType'
    BY <1>2, <1>3, <1>4 DEF TypeOK, GraphType, WorkerType, largestVars, loopVars, historyVars
  <1>6. WorkerShape'
    BY <1>3, <1>4 DEF TypeOK, WorkerType, WorkerShape, largestVars, loopVars
  <1> QED
    BY <1>5, <1>6 DEF TypeOK

LEMMA LargestType ==
    ASSUME TypeOK, NEW t \in Updaters, CompareArity(t) \/ AssignLargest(t)
    PROVE  TypeOK'
  <1>1. edge[t] \in Edges /\ edge[t][1] \in Handles
    BY EdgeInHand DEF CompareArity, AssignLargest
  <1>2. CASE CompareArity(t)
    <2>1. GraphType' /\ WorkerType'
      BY <1>1, <1>2 DEF TypeOK, GraphType, WorkerType, CompareArity, Done, Goto,
                        graphVars, loopVars, historyVars
    <2>2. WorkerShape'
      BY <1>2, NullAssumption
      DEF TypeOK, WorkerType, WorkerShape, CompareArity, Done, Goto, loopVars
    <2> QED
      BY <2>1, <2>2 DEF TypeOK
  <1>3. CASE AssignLargest(t)
    <2>1. GraphType'
      <3>1. largest_arity' \in Nat
        BY <1>1, <1>3 DEF TypeOK, GraphType, WorkerType, AssignLargest
      <3> QED
        BY <1>3, <3>1 DEF TypeOK, GraphType, AssignLargest, Unlock, graphVars, historyVars
    <2>3. WorkerType'
      BY <1>3 DEF TypeOK, WorkerType, AssignLargest, Done, Goto, loopVars, historyVars
    <2>2. WorkerShape'
      BY <1>3, NullAssumption
      DEF TypeOK, WorkerType, WorkerShape, AssignLargest, Done, Unlock, Goto, loopVars
    <2> QED
      BY <2>1, <2>2, <2>3 DEF TypeOK
  <1> QED
    BY <1>2, <1>3

LEMMA NextType == TypeOK /\ [Next]_vars => TypeOK'
  <1> SUFFICES ASSUME TypeOK, [Next]_vars PROVE TypeOK'
    OBVIOUS
  <1>1. CASE UNCHANGED vars
    BY <1>1 DEF TypeOK, GraphType, WorkerType, WorkerShape, vars, graphVars,
                largestVars, workerVars, loopVars, historyVars
  <1>2. CASE Next
    BY <1>2, StartType, AddNodeType, NextPairType, FinishType, ThrowType, InsertEdgeType,
       CheckFirstTimeType, ArityType, LargestType DEF Next, Correlation, AddEdge
  <1> QED
    BY <1>1, <1>2

\* Every state of a network and its workers is well formed; in particular the
\* loops never read past the list and the mutex is always released.
THEOREM HebbianTypeOK == Spec => []TypeOK
  BY InitType, NextType, PTL DEF Spec
-----------------------------------------------------------------------------
(* The arities *)

\* The worker took its edge for a new one, and arity does not count it yet.
Claims(t) == pc[t] \in {"link", "read_arity", "write_arity"}

\* The worker took its edge for a new one.
Claimed(t) == Claims(t) \/ pc[t] \in {"compare", "assign"}

\* The neighbors of a that some worker counts, or is about to count, in arity.
Open(a) ==
    {b \in Handles : \E t \in Updaters :
        /\ edge[t] = <<a, b>>
        /\ Claims(t) \/ (pc[t] = "check" /\ edge_count[<<a, b>>] = 1)}

\* The neighbors of a whose worker is past its update of arity.
Settled(a) == Neighbors(a) \ Open(a)

\* An edge in the hands of a worker is in the trie; of two workers that have the
\* same edge in hand only one takes it for a new one.
OneClaim ==
    /\ \A t \in Updaters : edge[t] \in Edges => edge_count[edge[t]] >= 1
    /\ \A t, u \in Updaters :
          t # u /\ edge[t] = edge[u] /\ edge[t] \in Edges =>
              edge_count[edge[t]] >= 2 /\ ~(Claimed(t) /\ Claimed(u))

ArityBound ==
    /\ \A a \in Handles : arity[a] <= Cardinality(Settled(a))
    /\ \A t \in Updaters, a \in Handles :
          edge[t][1] = a =>
              /\ pc[t] = "write_arity" => register[t] <= Cardinality(Settled(a))
              /\ pc[t] = "assign" => register[t] <= Cardinality(Neighbors(a))
    /\ \E a \in Handles : largest_arity <= Cardinality(Neighbors(a))

\* The inductive invariant.
ArityInvariant == TypeOK /\ OneClaim /\ ArityBound

LEMMA HandlesFinite == IsFiniteSet(Handles)
  BY HandleAssumption, FS_Interval DEF Handles

\* Sets of handles are finite, and a larger one has at least as many elements.
LEMMA HandleSets ==
    ASSUME NEW T \in SUBSET Handles, NEW S \in SUBSET T
    PROVE  /\ IsFiniteSet(S) /\ IsFiniteSet(T)
           /\ Cardinality(S) \in Nat /\ Cardinality(T) \in Nat
           /\ Cardinality(S) <= Cardinality(T)
  <1>1. IsFiniteSet(T)
    BY HandlesFinite, FS_Subset
  <1>2. IsFiniteSet(S) /\ Cardinality(S) <= Cardinality(T)
    BY <1>1, FS_Subset
  <1> QED
    BY <1>1, <1>2, FS_CardinalityType

\* Settled neighbors are neighbors.
LEMMA SettledNeighbors ==
    ASSUME NEW a \in Handles
    PROVE  /\ Settled(a) \in SUBSET Neighbors(a) /\ Neighbors(a) \in SUBSET Handles
           /\ Cardinality(Settled(a)) \in Nat /\ Cardinality(Neighbors(a)) \in Nat
           /\ Cardinality(Settled(a)) <= Cardinality(Neighbors(a))
  BY HandleSets DEF Settled, Neighbors

\* The bounds survive a step that loses no neighbor and no settled one, if the
\* numbers they bound stay the same or are bounded anew.
LEMMA BoundGrows ==
    ASSUME \A a \in Handles : /\ Settled(a) \subseteq Settled(a)'
                              /\ Neighbors(a) \subseteq Neighbors(a)'
    PROVE  \A a \in Handles :
              /\ Cardinality(Settled(a)) \in Nat
              /\ Cardinality(Settled(a)') \in Nat
              /\ Cardinality(Neighbors(a)) \in Nat
              /\ Cardinality(Neighbors(a)') \in Nat
              /\ Cardinality(Settled(a)) <= Cardinality(Settled(a)')
              /\ Cardinality(Neighbors(a)) <= Cardinality(Neighbors(a)')
              /\ Cardinality(Settled(a)') <= Cardinality(Neighbors(a)')
  <1> SUFFICES ASSUME NEW a \in Handles
               PROVE  /\ Cardinality(Settled(a)) \in Nat
                      /\ Cardinality(Settled(a)') \in Nat
                      /\ Cardinality(Neighbors(a)) \in Nat
                      /\ Cardinality(Neighbors(a)') \in Nat
                      /\ Cardinality(Settled(a)) <= Cardinality(Settled(a)')
                      /\ Cardinality(Neighbors(a)) <= Cardinality(Neighbors(a)')
                      /\ Cardinality(Settled(a)') <= Cardinality(Neighbors(a)')
    OBVIOUS
  <1>1. /\ Neighbors(a)' \in SUBSET Handles
        /\ Settled(a)' \in SUBSET Neighbors(a)' /\ Settled(a)' \in SUBSET Handles
    BY DEF Settled, Neighbors
  <1>2. Settled(a) \in SUBSET Settled(a)' /\ Neighbors(a) \in SUBSET Neighbors(a)'
    OBVIOUS
  <1>3. /\ Cardinality(Settled(a)) \in Nat /\ Cardinality(Settled(a)') \in Nat
        /\ Cardinality(Settled(a)) <= Cardinality(Settled(a)')
    BY <1>1, <1>2, HandleSets
  <1>4. /\ Cardinality(Neighbors(a)) \in Nat /\ Cardinality(Neighbors(a)') \in Nat
        /\ Cardinality(Neighbors(a)) <= Cardinality(Neighbors(a)')
    BY <1>1, <1>2, HandleSets
  <1>5. Cardinality(Settled(a)') <= Cardinality(Neighbors(a)')
    BY <1>1, HandleSets
  <1> QED
    BY <1>3, <1>4, <1>5

LEMMA InitArity == Init => OneClaim /\ ArityBound
  <1> SUFFICES ASSUME Init PROVE OneClaim /\ ArityBound
    OBVIOUS
  <1>1. OneClaim
    BY NullAssumption DEF Init, OneClaim
  <1>2. 1 \in Handles
    BY HandleAssumption DEF Handles
  <1>3. ArityBound
    BY <1>2, SettledNeighbors DEF Init, ArityBound
  <1> QED
    BY <1>1, <1>3

\* One worker claims an edge, whatever the next step is: the edge is counted
\* before it is read, so that of two workers with the same edge in hand both
\* read at least 2, or the first one had read its 1 before.
LEMMA NextOneClaim ==
    ASSUME TypeOK, OneClaim, NEW t \in Updaters,
           Correlation(t) \/ \E list \in Lists : Start(t, list)
    PROVE  OneClaim'
  <1> USE DEF OneClaim
  <1>1. CASE InsertEdge(t)
    <2> DEFINE e == Head(edges[t])
    <2>1. e \in Edges
      BY <1>1, HeadTail DEF TypeOK, WorkerType, InsertEdge
    <2>2. /\ edge'[t] = e /\ pc'[t] = "check"
          /\ \A u \in Updaters \ {t} : edge'[u] = edge[u] /\ pc'[u] = pc[u]
      BY <1>1 DEF TypeOK, WorkerType, InsertEdge, Goto
    <2>3. /\ edge_count'[e] = edge_count[e] + 1 /\ edge_count[e] \in Nat
          /\ \A f \in Edges : /\ edge_count[f] \in Nat /\ edge_count'[f] \in Nat
                              /\ edge_count'[f] >= edge_count[f]
      BY <1>1, <2>1 DEF TypeOK, GraphType, InsertEdge
    <2> HIDE DEF e
    <2>4. ASSUME NEW u \in Updaters, edge'[u] \in Edges
          PROVE  edge_count'[edge'[u]] >= 1
      <3>1. CASE u = t
        BY <3>1, <2>1, <2>2, <2>3
      <3>2. CASE u # t
        BY <3>2, <2>2, <2>3, <2>4
      <3> QED
        BY <3>1, <3>2
    <2>5. \A u \in Updaters \ {t} : edge'[u] = e => edge_count'[e] >= 2
      BY <2>1, <2>2, <2>3
    <2>6. ASSUME NEW u \in Updaters, NEW v \in Updaters, u # v,
                 edge'[u] = edge'[v], edge'[u] \in Edges
          PROVE  edge_count'[edge'[u]] >= 2 /\ ~(Claimed(u)' /\ Claimed(v)')
      <3>1. CASE u = t \/ v = t
        <4>1. edge'[u] = e /\ edge_count'[e] >= 2
          BY <3>1, <2>2, <2>5, <2>6
        <4>2. ~Claimed(t)'
          BY <2>2 DEF Claimed, Claims
        <4> QED
          BY <3>1, <4>1, <4>2
      <3>2. CASE u # t /\ v # t
        BY <3>2, <2>2, <2>3, <2>6 DEF Claimed, Claims
      <3> QED
        BY <3>1, <3>2
    <2> QED
      BY <2>4, <2>6
  <1>2. CASE CheckFirstTime(t) /\ FirstTime(t)
    <2>1. edge' = edge /\ edge_count' = edge_count
      BY <1>2 DEF CheckFirstTime, graphVars
    <2>2. \A u \in Updaters \ {t} : pc'[u] = pc[u]
      BY <1>2 DEF CheckFirstTime, Goto, TypeOK, WorkerType
    <2>3. edge[t] \in Edges /\ edge_count[edge[t]] = 1
      BY <1>2, EdgeInHand DEF CheckFirstTime, FirstTime
    <2>4. \A u \in Updaters \ {t} : edge[u] # edge[t]
      BY <2>3
    <2> QED
      BY <2>1, <2>2, <2>4 DEF Claimed, Claims
  <1>3. ASSUME Done(t), edge_count' = edge_count
        PROVE  OneClaim'
    <2>1. /\ edge'[t] = NULL /\ NULL \notin Edges
          /\ \A u \in Updaters \ {t} : edge'[u] = edge[u] /\ pc'[u] = pc[u]
      BY <1>3, NullAssumption DEF Done, Goto, TypeOK, WorkerType
    <2> QED
      BY <1>3, <2>1 DEF Claimed, Claims
  <1>4. ASSUME edge' = edge, edge_count' = edge_count,
               \A u \in Updaters : Claimed(u)' => Claimed(u)
        PROVE  OneClaim'
    BY <1>4
  <1>5. CASE AddNode(t) \/ NextPair(t)
    BY <1>4, <1>5 DEF AddNode, NextPair, graphVars, Claimed, Claims
  <1>6. CASE Finish(t) \/ Throw(t) \/ \E list \in Lists : Start(t, list)
    <2>1. edge' = edge /\ edge_count' = edge_count
      BY <1>6 DEF Finish, Throw, Start, graphVars
    <2>2. \A u \in Updaters : pc'[u] = pc[u] \/ pc'[u] \in {"idle", "next", "terminated"}
      BY <1>6 DEF Finish, Throw, Start, Goto, TypeOK, WorkerType
    <2> QED
      BY <1>4, <2>1, <2>2 DEF Claimed, Claims
  <1>7. CASE LinkEdge(t) \/ ReadArity(t) \/ WriteArity(t) \/ (CompareArity(t) /\ UNCHANGED edge)
    <2>1. edge' = edge /\ edge_count' = edge_count
      BY <1>7 DEF LinkEdge, ReadArity, WriteArity, CompareArity, graphVars
    <2>2. Claimed(t) /\ \A u \in Updaters \ {t} : pc'[u] = pc[u]
      BY <1>7 DEF LinkEdge, ReadArity, WriteArity, CompareArity, Claimed, Claims, Done,
                  Goto, TypeOK, WorkerType
    <2> QED
      BY <1>4, <2>1, <2>2 DEF Claimed, Claims
  <1>8. CASE \/ CheckFirstTime(t) /\ ~FirstTime(t)
             \/ CompareArity(t) /\ ~UNCHANGED edge
             \/ AssignLargest(t)
    BY <1>3, <1>8 DEF CheckFirstTime, CompareArity, AssignLargest, graphVars
  <1> QED
    BY <1>1, <1>2, <1>5, <1>6, <1>7, <1>8 DEF Correlation, AddEdge

\* A neighbor that is settled stays so: an edge that is inserted again is not
\* taken for a new one, and one that is only being checked may become settled.
LEMMA SettledGrows ==
    ASSUME TypeOK, NEW t \in Updaters,
           Correlation(t) \/ \E list \in Lists : Start(t, list)
    PROVE  \A a \in Handles : /\ Settled(a) \subseteq Settled(a)'
                              /\ Neighbors(a) \subseteq Neighbors(a)'
  <1>1. CASE InsertEdge(t)
    <2> DEFINE e == Head(edges[t])
    <2>1. e \in Edges
      BY <1>1, HeadTail DEF TypeOK, WorkerType, InsertEdge
    <2>2. /\ edge'[t] = e /\ pc'[t] = "check"
          /\ \A u \in Updaters \ {t} : edge'[u] = edge[u] /\ pc'[u] = pc[u]
      BY <1>1 DEF TypeOK, WorkerType, InsertEdge, Goto
    <2>3. /\ edge_count'[e] = edge_count[e] + 1
          /\ \A f \in Edges : /\ edge_count[f] \in Nat /\ edge_count'[f] \in Nat
                              /\ edge_count'[f] >= edge_count[f]
      BY <1>1, <2>1 DEF TypeOK, GraphType, InsertEdge
    <2> HIDE DEF e
    <2> SUFFICES ASSUME NEW a \in Handles, NEW b \in Neighbors(a)
                 PROVE  /\ b \in Neighbors(a)'
                        /\ b \in Open(a)' => b \in Open(a)
      BY DEF Settled
    <2>4. b \in Handles /\ <<a, b>> \in Edges /\ edge_count[<<a, b>>] > 0
      BY DEF Neighbors, Edges
    <2>5. b \in Neighbors(a)'
      BY <2>3, <2>4 DEF Neighbors
    <2>6. ASSUME NEW u \in Updaters, edge'[u] = <<a, b>>,
                 Claims(u)' \/ (pc'[u] = "check" /\ edge_count'[<<a, b>>] = 1)
          PROVE  b \in Open(a)
      <3>1. u # t
        BY <2>2, <2>3, <2>4, <2>6 DEF Claims
      <3>2. edge[u] = <<a, b>> /\ pc'[u] = pc[u]
        BY <3>1, <2>2, <2>6
      <3>3. edge_count'[<<a, b>>] = 1 => edge_count[<<a, b>>] = 1
        BY <2>3, <2>4
      <3> QED
        BY <3>2, <3>3, <2>4, <2>6 DEF Open, Claims
    <2> QED
      BY <2>5, <2>6 DEF Open
  <1>2. ASSUME edge_count' = edge_count,
               \A u \in Updaters : edge'[u] \in Edges =>
                   /\ edge'[u] = edge[u]
                   /\ \/ pc'[u] = pc[u]
                      \/ Claims(u)' => Claims(u)
                      \/ pc[u] = "check" /\ edge_count[edge[u]] = 1
                   /\ pc'[u] = "check" => pc[u] = "check"
        PROVE  \A a \in Handles : /\ Settled(a) \subseteq Settled(a)'
                                  /\ Neighbors(a) \subseteq Neighbors(a)'
    <2> SUFFICES ASSUME NEW a \in Handles, NEW b \in Handles, NEW u \in Updaters,
                        edge'[u] = <<a, b>>,
                        Claims(u)' \/ (pc'[u] = "check" /\ edge_count'[<<a, b>>] = 1)
                 PROVE  b \in Open(a)
      BY <1>2 DEF Settled, Neighbors, Open
    <2>1. edge[u] = <<a, b>> /\ edge'[u] \in Edges
      BY <1>2 DEF Edges
    <2>2. Claims(u) \/ (pc[u] = "check" /\ edge_count[<<a, b>>] = 1)
      BY <1>2, <2>1 DEF Claims
    <2> QED
      BY <2>1, <2>2 DEF Open
  <1>3. CASE AddNode(t) \/ NextPair(t)
    BY <1>2, <1>3 DEF AddNode, NextPair, graphVars
  <1>4. CASE Finish(t) \/ Throw(t) \/ \E list \in Lists : Start(t, list)
    <2>1. edge' = edge /\ edge_count' = edge_count
      BY <1>4 DEF Finish, Throw, Start, graphVars
    <2>2. \A u \in Updaters : pc'[u] = pc[u] \/ pc'[u] \in {"idle", "next", "terminated"}
      BY <1>4 DEF Finish, Throw, Start, Goto, TypeOK, WorkerType
    <2> QED
      BY <1>2, <2>1, <2>2 DEF Claims
  <1>5. CASE \/ CheckFirstTime(t) /\ FirstTime(t)
             \/ LinkEdge(t) \/ ReadArity(t) \/ WriteArity(t)
             \/ CompareArity(t) /\ UNCHANGED edge
    <2>1. edge' = edge /\ edge_count' = edge_count
      BY <1>5 DEF CheckFirstTime, LinkEdge, ReadArity, WriteArity, CompareArity, graphVars
    <2>2. /\ \A u \in Updaters \ {t} : pc'[u] = pc[u]
          /\ pc'[t] # "check"
          /\ Claims(t)' => Claims(t) \/ (pc[t] = "check" /\ edge_count[edge[t]] = 1)
      BY <1>5 DEF CheckFirstTime, FirstTime, LinkEdge, ReadArity, WriteArity, CompareArity,
                  Done, Goto, Claims, TypeOK, WorkerType
    <2> QED
      BY <1>2, <2>1, <2>2
  <1>6. CASE \/ CheckFirstTime(t) /\ ~FirstTime(t)
             \/ CompareArity(t) /\ ~UNCHANGED edge
             \/ AssignLargest(t)
    <2>1. Done(t) /\ edge_count' = edge_count
      BY <1>6 DEF CheckFirstTime, CompareArity, AssignLargest, graphVars
    <2>2. /\ edge'[t] \notin Edges
          /\ \A u \in Updaters \ {t} : edge'[u] = edge[u] /\ pc'[u] = pc[u]
      BY <2>1, NullAssumption DEF Done, Goto, TypeOK, WorkerType
    <2> QED
      BY <1>2, <2>1, <2>2
  <1> QED
    BY <1>1, <1>3, <1>4, <1>5, <1>6 DEF Correlation, AddEdge

\* When a worker has written arity, its neighbor is settled.
LEMMA WriteSettles ==
    ASSUME TypeOK, OneClaim, NEW t \in Updaters, WriteArity(t),
           NEW a \in Handles, edge[t][1] = a
    PROVE  Cardinality(Settled(a)) + 1 <= Cardinality(Settled(a)')
  <1>1. PICK b \in Handles : edge[t] = <<a, b>>
    BY EdgeInHand DEF WriteArity, Edges
  <1>2. /\ edge' = edge /\ edge_count' = edge_count /\ pc[t] = "write_arity"
        /\ pc'[t] = "compare"
        /\ \A u \in Updaters \ {t} : pc'[u] = pc[u]
    BY DEF WriteArity, Goto, graphVars, TypeOK, WorkerType
  <1>3. b \in Open(a)
    BY <1>1, <1>2 DEF Open, Claims
  <1>4. <<a, b>> \in Edges /\ edge_count[<<a, b>>] \in Nat /\ edge_count[<<a, b>>] >= 1
    BY <1>1 DEF Edges, OneClaim, TypeOK, GraphType
  <1>5. b \in Neighbors(a)'
    BY <1>2, <1>4 DEF Neighbors
  <1>6. ASSUME NEW u \in Updaters, edge'[u] = <<a, b>>,
               Claims(u)' \/ (pc'[u] = "check" /\ edge_count'[<<a, b>>] = 1)
        PROVE  FALSE
    <2>1. u # t
      BY <1>2, <1>6 DEF Claims
    <2>2. Claims(u) \/ edge_count[<<a, b>>] = 1
      BY <1>2, <1>6, <2>1 DEF Claims
    <2>3. edge_count[<<a, b>>] >= 2 /\ ~(Claimed(t) /\ Claimed(u))
      BY <1>1, <1>2, <1>4, <1>6, <2>1 DEF OneClaim
    <2> QED
      BY <1>2, <1>4, <2>2, <2>3 DEF Claimed, Claims
  <1>7. b \notin Open(a)'
    BY <1>6 DEF Open
  <1>8. Settled(a) \subseteq Settled(a)'
    BY SettledGrows DEF Correlation, AddEdge
  <1>9. Settled(a) \cup {b} \subseteq Settled(a)' /\ b \notin Settled(a)
    BY <1>3, <1>5, <1>7, <1>8 DEF Settled
  <1>10. Settled(a) \in SUBSET Handles /\ Settled(a)' \in SUBSET Handles
    BY DEF Settled, Neighbors
  <1>11. IsFiniteSet(Settled(a)) /\ Cardinality(Settled(a)) \in Nat
    BY <1>10, HandleSets
  <1>12. Cardinality(Settled(a) \cup {b}) = Cardinality(Settled(a)) + 1
    BY <1>9, <1>11, FS_AddElement
  <1>13. Cardinality(Settled(a) \cup {b}) <= Cardinality(Settled(a)')
    BY <1>9, <1>10, HandleSets
  <1> QED
    BY <1>12, <1>13

\* Neighbors and settled neighbors only become more.
LEMMA NextBounds ==
    ASSUME TypeOK, NEW t \in Updaters,
           Correlation(t) \/ \E list \in Lists : Start(t, list)
    PROVE  \A a \in Handles :
              /\ Cardinality(Settled(a)) \in Nat
              /\ Cardinality(Settled(a)') \in Nat
              /\ Cardinality(Neighbors(a)) \in Nat
              /\ Cardinality(Neighbors(a)') \in Nat
              /\ Cardinality(Settled(a)) <= Cardinality(Settled(a)')
              /\ Cardinality(Neighbors(a)) <= Cardinality(Neighbors(a)')
              /\ Cardinality(Settled(a)') <= Cardinality(Neighbors(a)')
  BY SettledGrows, BoundGrows

\* What a worker reads or writes is bounded anew, all else keeps its value.
LEMMA BoundsKept ==
    ASSUME TypeOK, ArityBound, NEW t \in Updaters,
           Correlation(t) \/ \E list \in Lists : Start(t, list),
           \A u \in Updaters \ {t} : /\ pc'[u] = pc[u] /\ edge'[u] = edge[u]
                                    /\ register'[u] = register[u],
           \A a \in Handles : arity'[a] = arity[a] \/ arity'[a] <= Cardinality(Settled(a)'),
           \A a \in Handles : edge'[t][1] = a =>
               /\ pc'[t] = "write_arity" => register'[t] <= Cardinality(Settled(a)')
               /\ pc'[t] = "assign" => register'[t] <= Cardinality(Neighbors(a)'),
           \/ largest_arity' = largest_arity
           \/ \E a \in Handles : largest_arity' <= Cardinality(Neighbors(a)')
    PROVE  ArityBound'
  <1>1. /\ \A u \in Updaters : register[u] \in Nat
        /\ \A a \in Handles : arity[a] \in Nat
        /\ largest_arity \in Nat
    BY DEF TypeOK, GraphType, WorkerType
  <1>2. ASSUME NEW a \in Handles
        PROVE  arity'[a] <= Cardinality(Settled(a)')
    BY <1>1, NextBounds DEF ArityBound
  <1>3. ASSUME NEW u \in Updaters, NEW a \in Handles, edge'[u][1] = a
        PROVE  /\ pc'[u] = "write_arity" => register'[u] <= Cardinality(Settled(a)')
               /\ pc'[u] = "assign" => register'[u] <= Cardinality(Neighbors(a)')
    <2>1. CASE u = t
      BY <1>3, <2>1
    <2>2. CASE u # t
      <3>1. edge[u][1] = a /\ pc'[u] = pc[u] /\ register'[u] = register[u]
        BY <1>3, <2>2
      <3>2. /\ pc[u] = "write_arity" => register[u] <= Cardinality(Settled(a))
            /\ pc[u] = "assign" => register[u] <= Cardinality(Neighbors(a))
        BY <3>1 DEF ArityBound
      <3> QED
        BY <1>1, <3>1, <3>2, NextBounds
    <2> QED
      BY <2>1, <2>2
  <1>4. \E a \in Handles : largest_arity' <= Cardinality(Neighbors(a)')
    BY <1>1, NextBounds DEF ArityBound
  <1> QED
    BY <1>2, <1>3, <1>4 DEF ArityBound

LEMMA NextArityBound ==
    ASSUME TypeOK, OneClaim, ArityBound, NEW t \in Updaters,
           Correlation(t) \/ \E list \in Lists : Start(t, list)
    PROVE  ArityBound'
  <1>1. CASE \/ AddNode(t) \/ NextPair(t) \/ Finish(t) \/ Throw(t) \/ InsertEdge(t)
             \/ CheckFirstTime(t) \/ LinkEdge(t)
             \/ \E list \in Lists : Start(t, list)
    <2>1. arity' = arity /\ largest_arity' = largest_arity /\ register' = register
      BY <1>1 DEF AddNode, NextPair, Finish, Throw, InsertEdge, CheckFirstTime, LinkEdge, Start,
                  graphVars, largestVars
    <2>2. /\ pc'[t] \notin {"write_arity", "assign"}
          /\ \A u \in Updaters \ {t} : pc'[u] = pc[u] /\ edge'[u] = edge[u]
      BY <1>1 DEF AddNode, NextPair, Finish, Throw, InsertEdge, CheckFirstTime, LinkEdge, Start,
                  Done, Goto, TypeOK, WorkerType
    <2> QED
      BY <2>1, <2>2, BoundsKept
  <1>2. CASE ReadArity(t)
    <2>1. /\ arity' = arity /\ largest_arity' = largest_arity /\ edge' = edge
          /\ register'[t] = arity[edge[t][1]] /\ pc'[t] = "write_arity"
          /\ \A u \in Updaters \ {t} : pc'[u] = pc[u] /\ register'[u] = register[u]
      BY <1>2 DEF ReadArity, Goto, graphVars, largestVars, TypeOK, WorkerType
    <2>2. ASSUME NEW a \in Handles, edge[t][1] = a
          PROVE  register'[t] <= Cardinality(Settled(a)')
      <3>1. register'[t] <= Cardinality(Settled(a)) /\ register'[t] \in Nat
        BY <2>1, <2>2 DEF ArityBound, TypeOK, GraphType
      <3> QED
        BY <3>1, NextBounds
    <2> QED
      BY <2>1, <2>2, BoundsKept
  <1>3. CASE WriteArity(t)
    <2>1. /\ largest_arity' = largest_arity /\ edge' = edge /\ register' = register
          /\ arity' = [arity EXCEPT ![edge[t][1]] = register[t] + 1]
          /\ pc[t] = "write_arity" /\ pc'[t] = "compare"
          /\ \A u \in Updaters \ {t} : pc'[u] = pc[u]
      BY <1>3 DEF WriteArity, Goto, largestVars, TypeOK, WorkerType
    <2>2. ASSUME NEW a \in Handles, edge[t][1] = a
          PROVE  arity'[a] <= Cardinality(Settled(a)')
      <3>1. arity'[a] = register[t] + 1 /\ register[t] \in Nat
        BY <2>1, <2>2 DEF TypeOK, GraphType, WorkerType
      <3>2. register[t] <= Cardinality(Settled(a))
        BY <2>1, <2>2 DEF ArityBound
      <3>3. Cardinality(Settled(a)) + 1 <= Cardinality(Settled(a)')
        BY <1>3, <2>2, WriteSettles
      <3> QED
        BY <3>1, <3>2, <3>3, NextBounds
    <2>3. \A a \in Handles : arity'[a] = arity[a] \/ arity'[a] <= Cardinality(Settled(a)')
      BY <2>1, <2>2 DEF TypeOK, GraphType
    <2> QED
      BY <2>1, <2>3, BoundsKept
  <1>4. CASE CompareArity(t)
    <2>1. /\ arity' = arity /\ largest_arity' = largest_arity
          /\ register'[t] = arity[edge[t][1]]
          /\ pc'[t] = "assign" => edge' = edge
          /\ pc'[t] # "write_arity"
          /\ \A u \in Updaters \ {t} : /\ pc'[u] = pc[u] /\ edge'[u] = edge[u]
                                       /\ register'[u] = register[u]
      BY <1>4 DEF CompareArity, Done, Goto, graphVars, TypeOK, WorkerType
    <2>2. ASSUME NEW a \in Handles, edge[t][1] = a
          PROVE  register'[t] <= Cardinality(Neighbors(a)')
      <3>1. register'[t] <= Cardinality(Settled(a)) /\ register'[t] \in Nat
        BY <2>1, <2>2 DEF ArityBound, TypeOK, GraphType
      <3> QED
        BY <3>1, NextBounds
    <2> QED
      BY <2>1, <2>2, BoundsKept
  <1>5. CASE AssignLargest(t)
    <2>1. /\ arity' = arity /\ register' = register
          /\ pc[t] = "assign"
          /\ largest_arity' \in {register[t], arity[edge[t][1]]}
          /\ pc'[t] = "next"
          /\ \A u \in Updaters \ {t} : pc'[u] = pc[u] /\ edge'[u] = edge[u]
      BY <1>5 DEF AssignLargest, Done, Goto, graphVars, TypeOK, WorkerType
    <2>2. PICK a \in Handles : edge[t][1] = a
      BY <2>1, EdgeInHand
    <2>3. /\ register[t] <= Cardinality(Neighbors(a)) /\ register[t] \in Nat
          /\ arity[a] <= Cardinality(Settled(a)) /\ arity[a] \in Nat
      BY <2>1, <2>2 DEF ArityBound, TypeOK, GraphType, WorkerType
    <2>4. largest_arity' <= Cardinality(Neighbors(a)')
      BY <2>1, <2>2, <2>3, NextBounds
    <2> QED
      BY <2>1, <2>4, BoundsKept
  <1> QED
    BY <1>1, <1>2, <1>3, <1>4, <1>5 DEF Correlation, AddEdge

LEMMA NextArity == ArityInvariant /\ [Next]_vars => ArityInvariant'
  <1> SUFFICES ASSUME ArityInvariant, [Next]_vars PROVE ArityInvariant'
    OBVIOUS
  <1>1. TypeOK'
    BY NextType DEF ArityInvariant
  <1>2. CASE UNCHANGED vars
    <2>1. UNCHANGED <<edge_count, arity, largest_arity, pc, edge, register>>
      BY <1>2 DEF vars, graphVars, largestVars, workerVars
    <2>2. OneClaim'
      BY <2>1 DEF ArityInvariant, OneClaim, Claimed, Claims
    <2>3. \A a \in Handles : Neighbors(a)' = Neighbors(a) /\ Settled(a)' = Settled(a)
      BY <2>1 DEF Neighbors, Settled, Open, Claims
    <2>4. ArityBound'
      BY <2>1, <2>3 DEF ArityInvariant, ArityBound
    <2> QED
      BY <1>1, <2>2, <2>4 DEF ArityInvariant
  <1>3. CASE Next
    BY <1>1, <1>3, NextOneClaim, NextArityBound DEF Next, ArityInvariant
  <1> QED
    BY <1>2, <1>3

\* However the workers interleave, arity and largest_arity count no neighbor
\* twice (HebbianNetwork.cc:41-51).
THEOREM AritiesNeverOvercount == Spec => []ArityNeverOvercounts
  <1>1. Init => ArityInvariant
    BY InitType, InitArity DEF ArityInvariant
  <1>2. ArityInvariant => ArityNeverOvercounts
    BY SettledNeighbors DEF ArityInvariant, ArityBound, ArityNeverOvercounts, TypeOK, GraphType
  <1> QED
    BY <1>1, <1>2, NextArity, PTL DEF Spec
-----------------------------------------------------------------------------
(* Requests that are processed one at a time *)

Alone == \A t, u \in Updaters : t # u => pc[t] = "idle" \/ pc[u] = "idle"

\* An edge in the trie has its end points, unless its worker has still to set them.
LinksExact ==
    \A e \in Edges : edge_count[e] > 0 =>
        \/ e \in linked
        \/ \E t \in Updaters : /\ edge[t] = e
                               /\ pc[t] = "link" \/ (pc[t] = "check" /\ edge_count[e] = 1)

ArityExact ==
    /\ \A a \in Handles : arity[a] = Cardinality(Settled(a))
    /\ \A t \in Updaters : pc[t] = "write_arity" => register[t] = arity[edge[t][1]]

\* The worker has still to bring largest_arity up to the arity it wrote.
Raising(t) == pc[t] \in {"compare", "assign"}

LargestExact ==
    /\ \A a \in Handles :
          arity[a] <= largest_arity \/ \E t \in Updaters : Raising(t) /\ edge[t][1] = a
    /\ \/ \E a \in Handles : arity[a] = largest_arity
       \/ \E t \in Updaters : Raising(t) /\ arity[edge[t][1]] > largest_arity
    /\ \A t \in Updaters : pc[t] = "assign" =>
          register[t] = arity[edge[t][1]] /\ register[t] > largest_arity

Sequential == ~overlapped => Alone /\ LinksExact /\ ArityExact /\ LargestExact

\* Nobody but t processes a request.
Sole(t) == \A u \in Updaters \ {t} : pc[u] = "idle" /\ edge[u] = NULL

LEMMA SoleWorker ==
    ASSUME TypeOK, Alone, NEW t \in Updaters, pc[t] # "idle"
    PROVE  Sole(t)
  BY DEF Alone, Sole, TypeOK, WorkerShape

\* What a step of t leaves alone in the other workers.
LEMMA OthersKept ==
    ASSUME TypeOK, NEW t \in Updaters,
           Correlation(t) \/ \E list \in Lists : Start(t, list)
    PROVE  \A u \in Updaters \ {t} :
              pc'[u] = pc[u] /\ edge'[u] = edge[u] /\ register'[u] = register[u]
  <1>1. /\ \E label : pc' = [pc EXCEPT ![t] = label]
        /\ \E f : edge' = [edge EXCEPT ![t] = f]
        /\ \E n : register' = [register EXCEPT ![t] = n]
    <2>1. /\ pc = [pc EXCEPT ![t] = pc[t]] /\ edge = [edge EXCEPT ![t] = edge[t]]
          /\ register = [register EXCEPT ![t] = register[t]]
      BY DEF TypeOK, WorkerType
    <2>2. CASE AddNode(t) \/ NextPair(t)
      BY <2>1, <2>2 DEF AddNode, NextPair
    <2>3. CASE Finish(t) \/ Throw(t) \/ \E list \in Lists : Start(t, list)
      BY <2>1, <2>3 DEF Finish, Throw, Start, Goto
    <2>4. CASE InsertEdge(t) \/ CheckFirstTime(t)
      BY <2>1, <2>4 DEF InsertEdge, CheckFirstTime, Done, Goto
    <2>5. CASE LinkEdge(t) \/ ReadArity(t) \/ WriteArity(t)
      BY <2>1, <2>5 DEF LinkEdge, ReadArity, WriteArity, Goto
    <2>6. CASE CompareArity(t) \/ AssignLargest(t)
      BY <2>1, <2>6 DEF CompareArity, AssignLargest, Done, Goto
    <2> QED
      BY <2>2, <2>3, <2>4, <2>5, <2>6 DEF Correlation, AddEdge
  <1> QED
    BY <1>1 DEF TypeOK, WorkerType

LEMMA SoleStays ==
    ASSUME TypeOK, NEW t \in Updaters, Sole(t),
           Correlation(t) \/ \E list \in Lists : Start(t, list)
    PROVE  Sole(t)' /\ Alone'
  BY OthersKept DEF Sole, Alone

\* What is open when nobody but t has an edge in hand.
LEMMA SoleOpen ==
    ASSUME TypeOK, NEW t \in Updaters, Sole(t), NEW a \in Handles
    PROVE  Open(a) = {b \in Handles : /\ edge[t] = <<a, b>>
                                      /\ Claims(t) \/ (pc[t] = "check" /\ edge_count[<<a, b>>] = 1)}
  <1>1. ASSUME NEW b \in Handles, NEW u \in Updaters, edge[u] = <<a, b>>
        PROVE  u = t
    <2>1. <<a, b>> \in Edges
      BY DEF Edges
    <2> QED
      BY <1>1, <2>1, NullAssumption DEF Sole
  <1> QED
    BY <1>1 DEF Open

\* A step of the only worker settles no neighbor, except that of writing arity.
LEMMA SoleSettled ==
    ASSUME TypeOK, TypeOK', NEW t \in Updaters, Sole(t), Sole(t)',
           Correlation(t) \/ \E list \in Lists : Start(t, list), ~WriteArity(t),
           NEW a \in Handles
    PROVE  Settled(a)' = Settled(a)
  <1> DEFINE isOpen(b) == /\ edge[t] = <<a, b>>
                          /\ Claims(t) \/ (pc[t] = "check" /\ edge_count[<<a, b>>] = 1)
  <1>1. Open(a) = {b \in Handles : isOpen(b)}
    BY SoleOpen
  <1>2. Open(a)' = {b \in Handles : isOpen(b)'}
    <2>1. TypeOK /\ Sole(t) => Open(a) = {b \in Handles : isOpen(b)}
      BY SoleOpen
    <2>2. TypeOK' /\ Sole(t)' => Open(a)' = {b \in Handles : isOpen(b)'}
      <3>1. ASSUME NEW b \in Handles, NEW u \in Updaters, edge'[u] = <<a, b>>, Sole(t)'
            PROVE  u = t
        <4>1. <<a, b>> \in Edges
          BY DEF Edges
        <4> QED
          BY <3>1, <4>1, NullAssumption DEF Sole
      <3> QED
        BY <3>1 DEF Open
    <2> QED
      BY <2>2
  <1>3. \A b \in Handles : <<a, b>> \in Edges
    BY DEF Edges
  <1>4. CASE InsertEdge(t)
    <2> DEFINE e == Head(edges[t])
    <2>1. e \in Edges /\ edge'[t] = e /\ pc'[t] = "check" /\ pc[t] = "next"
      BY <1>4, HeadTail DEF TypeOK, WorkerType, InsertEdge, Goto
    <2>2. /\ edge_count'[e] = edge_count[e] + 1
          /\ \A f \in Edges : /\ edge_count[f] \in Nat
                              /\ f # e => edge_count'[f] = edge_count[f]
      BY <1>4, <2>1 DEF TypeOK, GraphType, InsertEdge
    <2> HIDE DEF e
    <2>3. Open(a) = {}
      BY <1>1, <2>1 DEF Claims
    <2>4. Open(a)' = {b \in Handles : <<a, b>> = e /\ edge_count'[e] = 1}
      BY <1>2, <2>1 DEF Claims
    <2> QED
      BY <1>3, <2>2, <2>3, <2>4 DEF Settled, Neighbors
  <1>5. ASSUME edge_count' = edge_count, \A b \in Handles : isOpen(b)' <=> isOpen(b)
        PROVE  Settled(a)' = Settled(a)
    BY <1>1, <1>2, <1>5 DEF Settled, Neighbors
  <1>6. CASE AddNode(t) \/ NextPair(t)
    BY <1>5, <1>6 DEF AddNode, NextPair, graphVars, Claims
  <1>7. CASE Finish(t) \/ Throw(t) \/ \E list \in Lists : Start(t, list)
    <2>1. edge' = edge /\ edge_count' = edge_count /\ pc[t] \in {"idle", "next"}
          /\ pc'[t] \in {"idle", "next", "terminated"}
      BY <1>7 DEF Finish, Throw, Start, graphVars, Goto, TypeOK, WorkerType
    <2> QED
      BY <1>5, <2>1 DEF Claims
  <1>8. CASE (CheckFirstTime(t) /\ FirstTime(t)) \/ LinkEdge(t) \/ ReadArity(t)
    <2>1. edge' = edge /\ edge_count' = edge_count
      BY <1>8 DEF CheckFirstTime, LinkEdge, ReadArity, graphVars
    <2>2. /\ Claims(t)'
          /\ Claims(t) \/ (pc[t] = "check" /\ edge_count[edge[t]] = 1)
      BY <1>8 DEF CheckFirstTime, FirstTime, LinkEdge, ReadArity, Goto, Claims, TypeOK, WorkerType
    <2> QED
      BY <1>5, <2>1, <2>2
  <1>9. CASE (CheckFirstTime(t) /\ ~FirstTime(t)) \/ CompareArity(t) \/ AssignLargest(t)
    <2>1. edge_count' = edge_count
      BY <1>9 DEF CheckFirstTime, CompareArity, AssignLargest, graphVars
    <2>2. /\ ~Claims(t)' /\ pc'[t] # "check"
          /\ ~Claims(t) /\ (pc[t] = "check" => edge_count[edge[t]] # 1)
      BY <1>9 DEF CheckFirstTime, FirstTime, CompareArity, AssignLargest, Done, Goto, Claims,
                  TypeOK, WorkerType
    <2> QED
      BY <1>5, <2>1, <2>2
  <1> QED
    BY <1>4, <1>6, <1>7, <1>8, <1>9 DEF Correlation, AddEdge

\* The worker that writes an arity settles one neighbor.
LEMMA SoleWriteSettles ==
    ASSUME TypeOK, TypeOK', OneClaim, NEW t \in Updaters, Sole(t), Sole(t)', WriteArity(t),
           NEW a \in Handles
    PROVE  Cardinality(Settled(a)') =
               IF edge[t][1] = a THEN Cardinality(Settled(a)) + 1 ELSE Cardinality(Settled(a))
  <1>1. /\ edge' = edge /\ edge_count' = edge_count /\ pc[t] = "write_arity"
        /\ pc'[t] = "compare"
    BY DEF WriteArity, Goto, graphVars, TypeOK, WorkerType
  <1>2. Open(a) = {b \in Handles : edge[t] = <<a, b>>}
    BY <1>1, SoleOpen DEF Claims
  <1>3. Open(a)' = {}
    <2>1. ASSUME NEW b \in Handles, NEW u \in Updaters, edge'[u] = <<a, b>>
          PROVE  u = t
      <3>1. <<a, b>> \in Edges
        BY DEF Edges
      <3> QED
        BY <2>1, <3>1, NullAssumption DEF Sole
    <2> QED
      BY <1>1, <2>1 DEF Open, Claims
  <1>4. PICK c, d \in Handles : edge[t] = <<c, d>>
    BY <1>1, EdgeInHand DEF Edges
  <1>5. Neighbors(a)' = Neighbors(a) /\ Settled(a)' = Neighbors(a)
    BY <1>1, <1>3 DEF Neighbors, Settled
  <1>6. CASE c = a
    <2>1. Open(a) = {d} /\ Settled(a) = Neighbors(a) \ {d}
      BY <1>2, <1>4, <1>6 DEF Settled
    <2>2. d \in Neighbors(a)
      <3>1. edge[t] = <<a, d>> /\ <<a, d>> \in Edges
        BY <1>4, <1>6 DEF Edges
      <3>2. edge_count[<<a, d>>] \in Nat /\ edge_count[<<a, d>>] >= 1
        BY <3>1 DEF OneClaim, TypeOK, GraphType
      <3> QED
        BY <3>2 DEF Neighbors
    <2>3. IsFiniteSet(Settled(a)) /\ d \notin Settled(a) /\ Settled(a) \cup {d} = Neighbors(a)
      BY <2>1, <2>2, HandleSets DEF Neighbors
    <2>4. Cardinality(Neighbors(a)) = Cardinality(Settled(a)) + 1
      BY <2>3, FS_AddElement
    <2> QED
      BY <1>4, <1>5, <1>6, <2>4
  <1>7. CASE c # a
    <2>1. Open(a) = {}
      BY <1>2, <1>4, <1>7
    <2> QED
      BY <1>4, <1>5, <1>7, <2>1 DEF Settled
  <1> QED
    BY <1>6, <1>7

LEMMA ArityExactStep ==
    ASSUME TypeOK, TypeOK', OneClaim, ArityExact, NEW t \in Updaters, Sole(t), Sole(t)',
           Correlation(t) \/ \E list \in Lists : Start(t, list)
    PROVE  ArityExact'
  <1>1. \A u \in Updaters \ {t} : pc'[u] # "write_arity"
    BY DEF Sole
  <1>2. CASE WriteArity(t)
    <2>1. /\ arity' = [arity EXCEPT ![edge[t][1]] = register[t] + 1]
          /\ register[t] = arity[edge[t][1]] /\ pc'[t] = "compare"
      BY <1>2 DEF WriteArity, Goto, ArityExact, TypeOK, WorkerType
    <2>2. \A a \in Handles : arity'[a] = IF edge[t][1] = a THEN arity[a] + 1 ELSE arity[a]
      BY <2>1 DEF TypeOK, GraphType
    <2> QED
      BY <1>1, <1>2, <2>1, <2>2, SoleWriteSettles DEF ArityExact
  <1>3. CASE ReadArity(t)
    <2>1. /\ arity' = arity /\ edge' = edge /\ register'[t] = arity[edge[t][1]]
      BY <1>3 DEF ReadArity, graphVars, TypeOK, WorkerType
    <2>2. ~WriteArity(t)
      BY <1>3 DEF ReadArity, WriteArity
    <2> QED
      BY <1>1, <2>1, <2>2, SoleSettled DEF ArityExact
  <1>4. CASE ~WriteArity(t) /\ ~ReadArity(t)
    <2>1. arity' = arity
      BY <1>4 DEF Correlation, AddEdge, Start, AddNode, NextPair, Finish, Throw, InsertEdge,
                  CheckFirstTime, LinkEdge, CompareArity, AssignLargest, graphVars
    <2>2. pc'[t] # "write_arity"
      BY <1>4 DEF Correlation, AddEdge, Start, AddNode, NextPair, Finish, Throw, InsertEdge,
                  CheckFirstTime, LinkEdge, CompareArity, AssignLargest, Done, Goto,
                  TypeOK, WorkerType
    <2> QED
      BY <1>1, <1>4, <2>1, <2>2, SoleSettled DEF ArityExact
  <1> QED
    BY <1>2, <1>3, <1>4

LEMMA LinksExactStep ==
    ASSUME TypeOK, LinksExact, NEW t \in Updaters, Sole(t),
           Correlation(t) \/ \E list \in Lists : Start(t, list)
    PROVE  LinksExact'
  <1> SUFFICES ASSUME NEW e \in Edges, edge_count'[e] > 0, e \notin linked'
               PROVE  /\ edge'[t] = e
                      /\ pc'[t] = "link" \/ (pc'[t] = "check" /\ edge_count'[e] = 1)
    BY DEF LinksExact
  <1>1. e \notin linked
    BY DEF Correlation, AddEdge, Start, AddNode, NextPair, Finish, Throw, InsertEdge, CheckFirstTime,
           LinkEdge, Linked, ReadArity, WriteArity, CompareArity, AssignLargest, graphVars
  <1>2. ASSUME edge_count[e] > 0
        PROVE  edge[t] = e /\ (pc[t] = "link" \/ (pc[t] = "check" /\ edge_count[e] = 1))
    BY <1>1, <1>2, NullAssumption DEF LinksExact, Sole
  <1>3. CASE InsertEdge(t)
    <2> DEFINE f == Head(edges[t])
    <2>1. f \in Edges /\ edge'[t] = f /\ pc'[t] = "check" /\ pc[t] = "next"
      BY <1>3, HeadTail DEF TypeOK, WorkerType, InsertEdge, Goto
    <2>2. /\ edge_count'[f] = edge_count[f] + 1
          /\ \A g \in Edges : /\ edge_count[g] \in Nat
                              /\ g # f => edge_count'[g] = edge_count[g]
      BY <1>3, <2>1 DEF TypeOK, GraphType, InsertEdge
    <2> HIDE DEF f
    <2>3. edge_count[e] = 0
      BY <1>2, <2>1, <2>2
    <2> QED
      BY <2>1, <2>2, <2>3
  <1>4. CASE ~InsertEdge(t)
    <2>1. edge_count' = edge_count
      BY <1>4 DEF Correlation, AddEdge, Start, AddNode, NextPair, Finish, Throw, CheckFirstTime,
             LinkEdge, ReadArity, WriteArity, CompareArity, AssignLargest, graphVars
    <2>2. edge[t] = e /\ (pc[t] = "link" \/ (pc[t] = "check" /\ edge_count[e] = 1))
      BY <1>2, <2>1
    <2>3. LinkEdge(t) => e \in linked'
      BY <2>2 DEF LinkEdge, Linked
    <2>4. CheckFirstTime(t) \/ AddNode(t) \/ NextPair(t)
      BY <1>4, <2>2, <2>3 DEF Correlation, AddEdge, Start, Finish, Throw,
             ReadArity, WriteArity, CompareArity, AssignLargest
    <2>5. CheckFirstTime(t)
      BY <2>2, <2>4 DEF AddNode, NextPair
    <2> QED
      BY <2>1, <2>2, <2>5 DEF CheckFirstTime, FirstTime, Goto, TypeOK, WorkerType
  <1> QED
    BY <1>3, <1>4

LEMMA LargestExactStep ==
    ASSUME TypeOK, TypeOK', ArityExact, LargestExact, NEW t \in Updaters, Sole(t), Sole(t)',
           Correlation(t) \/ \E list \in Lists : Start(t, list)
    PROVE  LargestExact'
  <1>1. /\ \A u \in Updaters \ {t} : ~Raising(u) /\ ~Raising(u)' /\ pc'[u] # "assign"
    BY DEF Sole, Raising
  <1>2. /\ \A a \in Handles : arity[a] \in Nat /\ arity'[a] \in Nat
        /\ largest_arity \in Nat /\ largest_arity' \in Nat
    BY DEF TypeOK, GraphType
  <1>3. /\ \A a \in Handles : arity[a] <= largest_arity \/ (Raising(t) /\ edge[t][1] = a)
        /\ \/ \E a \in Handles : arity[a] = largest_arity
           \/ Raising(t) /\ arity[edge[t][1]] > largest_arity
        /\ pc[t] = "assign" => register[t] = arity[edge[t][1]] /\ register[t] > largest_arity
    BY <1>1 DEF LargestExact
  <1>4. SUFFICES
        /\ \A a \in Handles : arity'[a] <= largest_arity' \/ (Raising(t)' /\ edge'[t][1] = a)
        /\ \/ \E a \in Handles : arity'[a] = largest_arity'
           \/ Raising(t)' /\ arity'[edge'[t][1]] > largest_arity'
        /\ pc'[t] = "assign" => register'[t] = arity'[edge'[t][1]] /\ register'[t] > largest_arity'
    BY <1>1 DEF LargestExact
  <1>5. CASE WriteArity(t)
    <2>1. /\ edge' = edge /\ largest_arity' = largest_arity /\ Raising(t)' /\ ~Raising(t)
          /\ pc'[t] = "compare" /\ register[t] = arity[edge[t][1]]
          /\ arity' = [arity EXCEPT ![edge[t][1]] = register[t] + 1]
      BY <1>5 DEF WriteArity, Goto, Raising, ArityExact, largestVars, TypeOK, WorkerType
    <2>2. edge[t][1] \in Handles
      BY <1>5, EdgeInHand DEF WriteArity
    <2>3. \A a \in Handles : arity'[a] = IF a = edge[t][1] THEN arity[a] + 1 ELSE arity[a]
      BY <2>1, <2>2 DEF TypeOK, GraphType
    <2> QED
      BY <1>2, <1>3, <2>1, <2>2, <2>3
  <1>6. CASE CompareArity(t)
    <2>1. edge[t][1] \in Handles /\ arity' = arity /\ largest_arity' = largest_arity
      BY <1>6, EdgeInHand DEF CompareArity, graphVars
    <2>2. CASE arity[edge[t][1]] > largest_arity
      <3>1. /\ edge' = edge /\ pc'[t] = "assign" /\ Raising(t)'
            /\ register'[t] = arity[edge[t][1]]
        BY <1>6, <2>2 DEF CompareArity, Goto, Raising, TypeOK, WorkerType
      <3> QED
        BY <1>2, <1>3, <2>1, <2>2, <3>1
    <2>3. CASE ~(arity[edge[t][1]] > largest_arity)
      <3>1. pc'[t] = "next"
        BY <1>6, <2>3 DEF CompareArity, Done, Goto, TypeOK, WorkerType
      <3> QED
        BY <1>2, <1>3, <2>1, <2>3, <3>1
    <2> QED
      BY <2>2, <2>3
  <1>7. CASE AssignLargest(t)
    <2>1. edge[t][1] \in Handles /\ arity' = arity /\ pc[t] = "assign" /\ pc'[t] = "next"
      BY <1>7, EdgeInHand DEF AssignLargest, Done, Goto, graphVars, TypeOK, WorkerType
    <2>2. largest_arity' = arity[edge[t][1]] /\ arity[edge[t][1]] > largest_arity
      BY <1>3, <1>7, <2>1 DEF AssignLargest
    <2> QED
      BY <1>2, <1>3, <2>1, <2>2
  <1>8. CASE ~WriteArity(t) /\ ~CompareArity(t) /\ ~AssignLargest(t)
    <2>1. /\ arity' = arity /\ largest_arity' = largest_arity
          /\ ~Raising(t) /\ ~Raising(t)' /\ pc'[t] # "assign"
      BY <1>8 DEF Correlation, AddEdge, Start, AddNode, NextPair, Finish, Throw, InsertEdge,
                  CheckFirstTime, LinkEdge, ReadArity, Done, Goto, Raising, graphVars,
                  largestVars, TypeOK, WorkerType
    <2> QED
      BY <1>3, <2>1
  <1> QED
    BY <1>5, <1>6, <1>7, <1>8

LEMMA InitSequential == Init => Sequential
  <1> SUFFICES ASSUME Init PROVE Alone /\ LinksExact /\ ArityExact /\ LargestExact
    BY DEF Sequential
  <1>1. 1 \in Handles
    BY HandleAssumption DEF Handles
  <1>2. \A a \in Handles : Settled(a) = {}
    BY DEF Init, Settled, Neighbors, Edges
  <1>3. Cardinality({}) = 0
    BY FS_EmptySet
  <1>4. Alone /\ LinksExact
    BY DEF Init, Alone, LinksExact
  <1>5. ArityExact
    BY <1>2, <1>3 DEF Init, ArityExact
  <1>6. LargestExact
    BY <1>1 DEF Init, LargestExact
  <1> QED
    BY <1>4, <1>5, <1>6

\* While requests are processed one at a time, the only worker updates arities
\* and end points as if nothing else ran.
LEMMA NextSequential == ArityInvariant /\ Sequential /\ [Next]_vars => Sequential'
  <1> SUFFICES ASSUME ArityInvariant, Sequential, [Next]_vars, ~overlapped'
               PROVE  (Alone /\ LinksExact /\ ArityExact /\ LargestExact)'
    BY DEF Sequential
  <1>1. TypeOK /\ TypeOK' /\ OneClaim
    BY NextType DEF ArityInvariant
  <1>2. CASE UNCHANGED vars
    BY <1>2 DEF Sequential, Alone, LinksExact, ArityExact, LargestExact, Raising, Settled,
                Open, Claims, Neighbors, vars, graphVars, largestVars, workerVars, historyVars
  <1>3. ASSUME NEW t \in Updaters, Correlation(t) \/ \E list \in Lists : Start(t, list)
        PROVE  (Alone /\ LinksExact /\ ArityExact /\ LargestExact)'
    <2>1. ~overlapped
      BY <1>3 DEF Correlation, AddEdge, Start, AddNode, NextPair, Finish, Throw, InsertEdge,
             CheckFirstTime, LinkEdge, ReadArity, WriteArity, CompareArity, AssignLargest,
             historyVars
    <2>2. Alone /\ LinksExact /\ ArityExact /\ LargestExact
      BY <2>1 DEF Sequential
    <2>3. Sole(t)
      <3>1. CASE Correlation(t)
        <4>1. pc[t] # "idle"
          BY <3>1 DEF Correlation, AddEdge, AddNode, NextPair, Finish, Throw, InsertEdge,
                 CheckFirstTime, LinkEdge, ReadArity, WriteArity, CompareArity, AssignLargest
        <4> QED
          BY <1>1, <2>2, <4>1, SoleWorker
      <3>2. CASE \E list \in Lists : Start(t, list)
        BY <1>1, <3>2 DEF Start, Sole, TypeOK, WorkerShape
      <3> QED
        BY <1>3, <3>1, <3>2
    <2>4. Sole(t)' /\ Alone'
      BY <1>1, <1>3, <2>3, SoleStays
    <2> QED
      BY <1>1, <1>3, <2>2, <2>3, <2>4, LinksExactStep, ArityExactStep, LargestExactStep
  <1> QED
    BY <1>2, <1>3 DEF Next

LEMMA SequentialExact == ArityInvariant /\ Sequential => ExactWhenSequential
  <1> SUFFICES ASSUME ArityInvariant, Sequential, Quiescent, ~overlapped
               PROVE  /\ \A e \in Edges : edge_count[e] > 0 => e \in linked
                      /\ \A h \in Handles : arity[h] = Cardinality(Neighbors(h))
                      /\ \A h \in Handles : arity[h] <= largest_arity
                      /\ \E h \in Handles : arity[h] = largest_arity
    BY DEF ExactWhenSequential
  <1>1. TypeOK /\ LinksExact /\ ArityExact /\ LargestExact
    BY DEF ArityInvariant, Sequential
  <1>2. \A t \in Updaters : pc[t] = "idle"
    BY DEF Quiescent
  <1>3. \A h \in Handles : Settled(h) = Neighbors(h)
    BY <1>2 DEF Settled, Open, Claims
  <1> QED
    BY <1>1, <1>2, <1>3 DEF LinksExact, ArityExact, LargestExact, Raising

\* Where requests are processed one at a time, every edge has its end points,
\* arity is the number of neighbors and largest_arity the largest of them, as
\* soon as no request is being processed (HebbianNetwork.cc:41-51).
THEOREM ExactOneAtATime == Spec => []ExactWhenSequential
  <1>1. Init => ArityInvariant /\ Sequential
    BY InitType, InitArity, InitSequential DEF ArityInvariant
  <1>2. ArityInvariant /\ Sequential /\ [Next]_vars => ArityInvariant' /\ Sequential'
    BY NextArity, NextSequential
  <1> QED
    BY <1>1, <1>2, SequentialExact, PTL DEF Spec

-----------------------------------------------------------------------------

(* Families of finite sets *)

\* The pairs of an index and a member of its set.
Rows(Q) == UNION {{i} \X Q[i] : i \in DOMAIN Q}
RowCount(Q) == Cardinality(Rows(Q))

FiniteFamily(Q) == IsFiniteSet(DOMAIN Q) /\ \A i \in DOMAIN Q : IsFiniteSet(Q[i])

LEMMA RowsFinite ==
    ASSUME NEW Q, FiniteFamily(Q)
    PROVE  IsFiniteSet(Rows(Q)) /\ RowCount(Q) \in Nat
<1> DEFINE I == DOMAIN Q
           f == [i \in I |-> {i} \X Q[i]]
           T == {f[i] : i \in I}
<1>1. f \in Surjection(I, T)  BY DEF Surjection
<1>2. IsFiniteSet(I)  BY DEF FiniteFamily
<1>3. IsFiniteSet(T)
  <2> HIDE DEF f, T, I
  <2> QED  BY <1>1, <1>2, FS_Surjection
<1>4. ASSUME NEW X \in T
      PROVE  IsFiniteSet(X)
  <2>1. PICK i \in I : X = {i} \X Q[i]  OBVIOUS
  <2>2. IsFiniteSet({i}) /\ IsFiniteSet(Q[i])  BY FS_Singleton DEF FiniteFamily
  <2> QED  BY <2>1, <2>2, FS_Product
<1>5. IsFiniteSet(UNION T)
  <2> HIDE DEF T
  <2> QED  BY <1>3, <1>4, FS_UNION
<1>6. Rows(Q) = UNION T  BY DEF Rows
<1> QED  BY <1>5, <1>6, FS_CardinalityType DEF RowCount

\* One set counts apart from the others.
LEMMA RowsWithout ==
    ASSUME NEW Q, FiniteFamily(Q), NEW t \in DOMAIN Q
    PROVE  LET rest == [i \in DOMAIN Q \ {t} |-> Q[i]]
           IN /\ FiniteFamily(rest) /\ RowCount(rest) \in Nat /\ Cardinality(Q[t]) \in Nat
              /\ RowCount(Q) = RowCount(rest) + Cardinality(Q[t])
<1> DEFINE rest == [i \in DOMAIN Q \ {t} |-> Q[i]]
           row == {t} \X Q[t]
<1>1. FiniteFamily(rest)
  <2>1. IsFiniteSet(DOMAIN Q \ {t})  BY FS_RemoveElement DEF FiniteFamily
  <2> QED  BY <2>1 DEF FiniteFamily
<1>2. Rows(Q) = Rows(rest) \cup row  BY DEF Rows
<1>3. Rows(rest) \cap row = {}  BY DEF Rows
<1>4. IsFiniteSet({t}) /\ Cardinality({t}) = 1 /\ IsFiniteSet(Q[t])
    BY FS_Singleton DEF FiniteFamily
<1>5. Cardinality(Q[t]) \in Nat  BY <1>4, FS_CardinalityType
<1>6. IsFiniteSet(row) /\ Cardinality(row) = Cardinality({t}) * Cardinality(Q[t])
    BY <1>4, FS_Product
<1>7. Cardinality(row) = Cardinality(Q[t])  BY <1>4, <1>5, <1>6
<1>8. IsFiniteSet(Rows(rest)) /\ RowCount(rest) \in Nat  BY <1>1, RowsFinite
<1>9. Cardinality(Rows(rest) \cup row)
        = Cardinality(Rows(rest)) + Cardinality(row) - Cardinality(Rows(rest) \cap row)
    BY <1>6, <1>8, FS_Union
<1>10. Cardinality(Rows(rest) \cap row) = 0  BY <1>3, FS_EmptySet
<1> QED  BY <1>1, <1>2, <1>5, <1>7, <1>8, <1>9, <1>10 DEF RowCount

\* Two families that differ in the set of t at most.
Differ(Q, R, t) ==
    /\ FiniteFamily(Q) /\ FiniteFamily(R)
    /\ DOMAIN Q = DOMAIN R /\ t \in DOMAIN Q
    /\ \A i \in DOMAIN Q : i # t => Q[i] = R[i]

LEMMA RowsChange ==
    ASSUME NEW Q, NEW R, NEW t, Differ(Q, R, t)
    PROVE  /\ RowCount(Q) \in Nat /\ RowCount(R) \in Nat
           /\ Cardinality(Q[t]) \in Nat /\ Cardinality(R[t]) \in Nat
           /\ RowCount(R) + Cardinality(Q[t]) = RowCount(Q) + Cardinality(R[t])
<1> DEFINE rest(P) == [i \in DOMAIN P \ {t} |-> P[i]]
<1>1. rest(Q) = rest(R)  BY DEF Differ
<1> HIDE DEF rest
<1>2. /\ RowCount(rest(Q)) \in Nat /\ Cardinality(Q[t]) \in Nat
      /\ RowCount(Q) = RowCount(rest(Q)) + Cardinality(Q[t])
    BY RowsWithout DEF Differ, rest
<1>3. /\ RowCount(rest(R)) \in Nat /\ Cardinality(R[t]) \in Nat
      /\ RowCount(R) = RowCount(rest(R)) + Cardinality(R[t])
    BY RowsWithout DEF Differ, rest
<1> QED  BY <1>1, <1>2, <1>3

LEMMA RowsExtend ==
    ASSUME NEW n \in Nat, NEW Q, NEW R, FiniteFamily(R),
           Q = [i \in 1..n |-> R[i]], DOMAIN R = 1..(n + 1)
    PROVE  /\ RowCount(Q) \in Nat /\ Cardinality(R[n + 1]) \in Nat
           /\ RowCount(R) = RowCount(Q) + Cardinality(R[n + 1])
<1>1. n + 1 \in DOMAIN R /\ DOMAIN R \ {n + 1} = 1..n  OBVIOUS
<1>2. Q = [i \in DOMAIN R \ {n + 1} |-> R[i]]  BY <1>1
<1> QED  BY <1>1, <1>2, RowsWithout

LEMMA RowsEmpty ==
    ASSUME NEW Q, \A i \in DOMAIN Q : Q[i] = {}
    PROVE  RowCount(Q) = 0
<1>1. Rows(Q) = {}  BY DEF Rows
<1> QED  BY <1>1, FS_EmptySet DEF RowCount
-----------------------------------------------------------------------------
(* What a worker still has to count *)

\* A rest of a list.
IsRest(s, list) ==
    /\ Len(s) <= Len(list)
    /\ \A i \in 1..Len(s) : s[i] = list[Len(list) - Len(s) + i]

\* The pair i, j is not before the pair i0, j0.
NotBefore(i, j, i0, j0) == i > i0 \/ (i = i0 /\ j >= j0)

\* The pair of places i, j of the list is ahead of the two loops.
Ahead(t, i, j) ==
    NotBefore(i, j, Len(request[t]) - Len(outer[t]) + 1, Len(request[t]) - Len(inner[t]) + 1)

\* The edges a worker has taken from the loops are two, or the second of them.
PairOK(s) ==
    s = <<>> \/ \E a, b \in Handles : a < b /\ s \in {BothWays(a, b), << <<b, a>> >>}

\* Where a worker is in its list.
LoopOK(t) ==
    /\ IsRest(nodes[t], request[t])
    /\ IsRest(outer[t], request[t])
    /\ IsRest(inner[t], request[t])
    /\ PairOK(edges[t])
    /\ nodes[t] # <<>> => edges[t] = <<>> /\ outer[t] = request[t] /\ inner[t] = request[t]
    /\ pc[t] = "idle" => nodes[t] = <<>> /\ edges[t] = <<>> /\ outer[t] = <<>>
    /\ pc[t] \notin {"idle", "next"} => nodes[t] = <<>>

\* The places of h that the worker has not counted.
NodesLeft(t, h) ==
    {i \in Places(request[t], h) : i > Len(request[t]) - Len(nodes[t])}

\* The worker has an edge in its hands and has not added it yet.
InHand(t, a, b) == \E i \in 1..Len(edges[t]) : edges[t][i] = <<a, b>>

\* The pairs of places of a and b that are ahead of the loops.
PairsAhead(t, a, b) ==
    {p \in Places(request[t], a) \X Places(request[t], b) :
        IF a < b THEN Ahead(t, p[1], p[2]) ELSE Ahead(t, p[2], p[1])}

\* The pairs of places that the worker has not counted for the edge from a to b;
\* the pair it has taken from the loops is called <<0, 0>>.
EdgesLeft(t, a, b) ==
    PairsAhead(t, a, b) \cup (IF InHand(t, a, b) THEN {<<0, 0>>} ELSE {})

\* Those of them whose node a the worker has counted.
EdgesDue(t, a, b) ==
    {p \in EdgesLeft(t, a, b) : p[1] <= Len(request[t]) - Len(nodes[t])}
-----------------------------------------------------------------------------
(* The inductive invariant *)

NodesInRequests(h) == [k \in DOMAIN received |-> Places(received[k], h)]
EdgesInRequests(a, b) ==
    [k \in DOMAIN received |-> Places(received[k], a) \X Places(received[k], b)]

\* What was counted and what is left is what the requests say.
Counts ==
    /\ \A h \in Handles :
          node_count[h] + RowCount([t \in Updaters |-> NodesLeft(t, h)])
            = RowCount(NodesInRequests(h))
    /\ \A a, b \in Handles : a # b =>
          edge_count[<<a, b>>] + RowCount([t \in Updaters |-> EdgesLeft(t, a, b)])
            = RowCount(EdgesInRequests(a, b))
    /\ \A a \in Handles : edge_count[<<a, a>>] = 0

\* No request repeats b more often than Repetitions says.
MostRepeated(b) ==
    /\ Repetitions(b) \in Nat
    /\ \A k \in DOMAIN received : Occurrences(received[k], b) <= Repetitions(b)
    /\ \/ Repetitions(b) = 0
       \/ \E k \in DOMAIN received : Occurrences(received[k], b) = Repetitions(b)

\* The list of a worker is one of the requests, and what the edges may come to was
\* counted in their node.
Weights ==
    /\ \A b \in Handles : MostRepeated(b)
    /\ \A t \in Updaters : request[t] = <<>> \/ \E k \in DOMAIN received : request[t] = received[k]
    /\ \A a, b \in Handles : a # b =>
          edge_count[<<a, b>>] + RowCount([t \in Updaters |-> EdgesDue(t, a, b)])
            <= node_count[a] * Repetitions(b)

CountInvariant == TypeOK /\ (\A t \in Updaters : LoopOK(t)) /\ Counts /\ Weights

-----------------------------------------------------------------------------
(* Lists and their rests *)

LEMMA PlacesFinite ==
    ASSUME NEW list \in Seq(Handles), NEW h
    PROVE  /\ Places(list, h) \subseteq 1..Len(list)
           /\ IsFiniteSet(Places(list, h)) /\ Occurrences(list, h) \in Nat
<1>1. Places(list, h) \subseteq 1..Len(list)  BY DEF Places
<1>2. IsFiniteSet(1..Len(list))  BY FS_Interval
<1>3. IsFiniteSet(Places(list, h))  BY <1>1, <1>2, FS_Subset
<1> QED  BY <1>1, <1>3, FS_CardinalityType DEF Occurrences

LEMMA PairsFinite ==
    ASSUME NEW list \in Seq(Handles), NEW a, NEW b
    PROVE  LET pairs == Places(list, a) \X Places(list, b)
           IN /\ IsFiniteSet(pairs)
              /\ Cardinality(pairs) = Occurrences(list, a) * Occurrences(list, b)
BY PlacesFinite, FS_Product DEF Occurrences

LEMMA RestFacts ==
    ASSUME NEW list \in Seq(Handles), NEW s \in Seq(Handles), IsRest(s, list), s # <<>>
    PROVE  LET i0 == Len(list) - Len(s) + 1
           IN /\ i0 \in 1..Len(list) /\ Head(s) = list[i0]
              /\ IsRest(Tail(s), list) /\ Len(Tail(s)) = Len(s) - 1
              /\ Tail(s) \in Seq(Handles)
<1>1. Len(s) \in Nat /\ Len(list) \in Nat /\ Len(s) # 0  BY EmptySeq
<1>2. /\ Head(s) = s[1] /\ Len(Tail(s)) = Len(s) - 1 /\ Tail(s) \in Seq(Handles)
      /\ \A i \in 1..Len(Tail(s)) : Tail(s)[i] = s[i + 1]
    BY HeadTailProperties
<1>3. 1 \in 1..Len(s) /\ Len(list) - Len(s) + 1 \in 1..Len(list)
    BY <1>1 DEF IsRest
<1>4. Head(s) = list[Len(list) - Len(s) + 1]  BY <1>2, <1>3 DEF IsRest
<1>5. ASSUME NEW i \in 1..Len(Tail(s))
      PROVE  Tail(s)[i] = list[Len(list) - Len(Tail(s)) + i]
  <2>1. i + 1 \in 1..Len(s)  BY <1>1, <1>2
  <2>2. s[i + 1] = list[Len(list) - Len(s) + (i + 1)]  BY <2>1 DEF IsRest
  <2>3. Len(list) - Len(s) + (i + 1) = Len(list) - Len(Tail(s)) + i  BY <1>1, <1>2
  <2> QED  BY <1>2, <2>2, <2>3
<1>6. Len(Tail(s)) <= Len(list)  BY <1>1, <1>2 DEF IsRest
<1> QED  BY <1>2, <1>3, <1>4, <1>5, <1>6 DEF IsRest

LEMMA TrivialRests ==
    ASSUME NEW list \in Seq(Handles)
    PROVE  IsRest(list, list) /\ IsRest(<<>>, list)
<1>1. Len(<<>>) = 0  OBVIOUS
<1>2. Len(list) \in Nat  OBVIOUS
<1>3. IsRest(list, list)  BY <1>2 DEF IsRest
<1>4. IsRest(<<>>, list)  BY <1>1, <1>2 DEF IsRest
<1> QED  BY <1>3, <1>4

\* The members of EdgesLeft, apart from the one in hand, are pairs of places.
LEMMA LeftFacts ==
    ASSUME TypeOK, NEW t \in Updaters, NEW a \in Handles, NEW b \in Handles
    PROVE  /\ <<0, 0>> \notin Places(request[t], a) \X Places(request[t], b)
           /\ IsFiniteSet(EdgesLeft(t, a, b)) /\ IsFiniteSet(EdgesDue(t, a, b))
           /\ \A h : IsFiniteSet(NodesLeft(t, h))
<1> DEFINE pairs == Places(request[t], a) \X Places(request[t], b)
<1>1. request[t] \in Seq(Handles)  BY DEF TypeOK, WorkerType
<1>2. <<0, 0>> \notin pairs  BY <1>1, PlacesFinite
<1>3. IsFiniteSet(pairs)  BY <1>1, PairsFinite
<1>4. IsFiniteSet(pairs \cup {<<0, 0>>})  BY <1>3, FS_AddElement
<1>5. EdgesLeft(t, a, b) \subseteq pairs \cup {<<0, 0>>}  BY DEF EdgesLeft, PairsAhead
<1>6. EdgesDue(t, a, b) \subseteq pairs \cup {<<0, 0>>}  BY <1>5 DEF EdgesDue
<1>7. IsFiniteSet(EdgesLeft(t, a, b)) /\ IsFiniteSet(EdgesDue(t, a, b))
    BY <1>4, <1>5, <1>6, FS_Subset
<1>8. ASSUME NEW h
      PROVE  IsFiniteSet(NodesLeft(t, h))
    BY <1>1, PlacesFinite, FS_Subset DEF NodesLeft
<1> QED  BY <1>2, <1>7, <1>8

\* The families that Counts and Weights add up are finite.
LEMMA LeftFamilies ==
    ASSUME TypeOK, NEW a \in Handles, NEW b \in Handles
    PROVE  /\ FiniteFamily([t \in Updaters |-> NodesLeft(t, a)])
           /\ FiniteFamily([t \in Updaters |-> EdgesLeft(t, a, b)])
           /\ FiniteFamily([t \in Updaters |-> EdgesDue(t, a, b)])
BY LeftFacts, UpdaterAssumption DEF FiniteFamily

LEMMA RequestFamilies ==
    ASSUME TypeOK, NEW a \in Handles, NEW b \in Handles
    PROVE  FiniteFamily(NodesInRequests(a)) /\ FiniteFamily(EdgesInRequests(a, b))
<1>1. DOMAIN received = 1..Len(received) /\ Len(received) \in Nat
    BY DEF TypeOK, GraphType
<1>2. IsFiniteSet(DOMAIN received)  BY <1>1, FS_Interval
<1>3. \A k \in DOMAIN received : received[k] \in Seq(Handles)
    BY <1>1, ElementOfSeq, ListAssumption DEF TypeOK, GraphType
<1>4. \A k \in DOMAIN received : IsFiniteSet(Places(received[k], a))
    BY <1>3, PlacesFinite
<1>5. \A k \in DOMAIN received : IsFiniteSet(Places(received[k], a) \X Places(received[k], b))
    BY <1>3, PairsFinite
<1> QED  BY <1>2, <1>4, <1>5 DEF FiniteFamily, NodesInRequests, EdgesInRequests

\* The families are finite, also after a step.
FamiliesFinite ==
    \A a, b \in Handles :
        /\ FiniteFamily([t \in Updaters |-> NodesLeft(t, a)])
        /\ FiniteFamily([t \in Updaters |-> EdgesLeft(t, a, b)])
        /\ FiniteFamily([t \in Updaters |-> EdgesDue(t, a, b)])
        /\ FiniteFamily(NodesInRequests(a)) /\ FiniteFamily(EdgesInRequests(a, b))

LEMMA Families == TypeOK => FamiliesFinite
BY LeftFamilies, RequestFamilies DEF FamiliesFinite

LEMMA FamiliesNext == TypeOK' => FamiliesFinite'
BY Families, PTL

-----------------------------------------------------------------------------
(* What a step leaves alone *)

SameLoop(u) ==
    UNCHANGED <<request[u], nodes[u], outer[u], inner[u], edges[u]>>

LEMMA SameLeft ==
    ASSUME NEW u \in Updaters, SameLoop(u)
    PROVE  /\ \A h : NodesLeft(u, h)' = NodesLeft(u, h)
           /\ \A a, b : EdgesLeft(u, a, b)' = EdgesLeft(u, a, b)
           /\ \A a, b : EdgesDue(u, a, b)' = EdgesDue(u, a, b)
           /\ LoopOK(u) /\ (pc'[u] = pc[u] \/ (nodes[u] = <<>> /\ pc'[u] # "idle")) => LoopOK(u)'
<1>1. \A h : NodesLeft(u, h)' = NodesLeft(u, h)
    BY DEF SameLoop, NodesLeft
<1>2. \A a, b : EdgesLeft(u, a, b)' = EdgesLeft(u, a, b)
    BY DEF SameLoop, EdgesLeft, PairsAhead, Ahead, InHand
<1>3. \A a, b : EdgesDue(u, a, b)' = EdgesDue(u, a, b)
    BY <1>2 DEF SameLoop, EdgesDue
<1>4. ASSUME LoopOK(u), pc'[u] = pc[u] \/ (nodes[u] = <<>> /\ pc'[u] # "idle")
      PROVE  LoopOK(u)'
    BY <1>4 DEF SameLoop, LoopOK
<1> QED  BY <1>1, <1>2, <1>3, <1>4

\* How the totals of the workers change with one of them.
LEMMA OneWorker ==
    ASSUME TypeOK, TypeOK', NEW t \in Updaters, \A u \in Updaters \ {t} : SameLoop(u),
           NEW a \in Handles, NEW b \in Handles
    PROVE  /\ Differ([u \in Updaters |-> NodesLeft(u, a)],
                     [u \in Updaters |-> NodesLeft(u, a)'], t)
           /\ Differ([u \in Updaters |-> EdgesLeft(u, a, b)],
                     [u \in Updaters |-> EdgesLeft(u, a, b)'], t)
           /\ Differ([u \in Updaters |-> EdgesDue(u, a, b)],
                     [u \in Updaters |-> EdgesDue(u, a, b)'], t)
<1>1. FamiliesFinite /\ FamiliesFinite'  BY Families, FamiliesNext
<1>2. /\ FiniteFamily([u \in Updaters |-> NodesLeft(u, a)])
      /\ FiniteFamily([u \in Updaters |-> NodesLeft(u, a)'])
      /\ FiniteFamily([u \in Updaters |-> EdgesLeft(u, a, b)])
      /\ FiniteFamily([u \in Updaters |-> EdgesLeft(u, a, b)'])
      /\ FiniteFamily([u \in Updaters |-> EdgesDue(u, a, b)])
      /\ FiniteFamily([u \in Updaters |-> EdgesDue(u, a, b)'])
    BY <1>1 DEF FamiliesFinite
<1>3. ASSUME NEW u \in Updaters, u # t
      PROVE  /\ NodesLeft(u, a)' = NodesLeft(u, a)
             /\ EdgesLeft(u, a, b)' = EdgesLeft(u, a, b)
             /\ EdgesDue(u, a, b)' = EdgesDue(u, a, b)
    BY <1>3, SameLeft
<1> QED  BY <1>2, <1>3 DEF Differ

LEMMA CountsKept ==
    ASSUME TypeOK, TypeOK', Counts, NEW t \in Updaters,
           \A u \in Updaters \ {t} : SameLoop(u), received' = received,
           \A h \in Handles :
              node_count'[h] + Cardinality(NodesLeft(t, h)')
                = node_count[h] + Cardinality(NodesLeft(t, h)),
           \A a, b \in Handles : a # b =>
              edge_count'[<<a, b>>] + Cardinality(EdgesLeft(t, a, b)')
                = edge_count[<<a, b>>] + Cardinality(EdgesLeft(t, a, b)),
           \A a \in Handles : edge_count'[<<a, a>>] = edge_count[<<a, a>>]
    PROVE  Counts'
<1>1. \A e \in Handles \X Handles : edge_count[e] \in Nat /\ edge_count'[e] \in Nat
    BY DEF TypeOK, GraphType, Edges
<1>2. \A h \in Handles : node_count[h] \in Nat /\ node_count'[h] \in Nat
    BY DEF TypeOK, GraphType
<1>3. ASSUME NEW h \in Handles
      PROVE  node_count'[h] + RowCount([u \in Updaters |-> NodesLeft(u, h)'])
               = RowCount(NodesInRequests(h))'
  <2> DEFINE Q == [u \in Updaters |-> NodesLeft(u, h)]
             R == [u \in Updaters |-> NodesLeft(u, h)']
  <2>1. Q[t] = NodesLeft(t, h) /\ R[t] = NodesLeft(t, h)'  OBVIOUS
  <2>2. node_count[h] + RowCount(Q) = RowCount(NodesInRequests(h))  BY DEF Counts
  <2>3. Differ(Q, R, t)  BY OneWorker
  <2>4. RowCount(NodesInRequests(h))' = RowCount(NodesInRequests(h))
      BY DEF NodesInRequests, RowCount, Rows
  <2> HIDE DEF Q, R
  <2>5. /\ RowCount(Q) \in Nat /\ RowCount(R) \in Nat
        /\ Cardinality(Q[t]) \in Nat /\ Cardinality(R[t]) \in Nat
        /\ RowCount(R) + Cardinality(Q[t]) = RowCount(Q) + Cardinality(R[t])
      BY <2>3, RowsChange
  <2>6. node_count'[h] + RowCount(R) = RowCount(NodesInRequests(h))'
      BY <1>2, <2>1, <2>2, <2>4, <2>5
  <2> QED  BY <2>6 DEF R
<1>4. ASSUME NEW a \in Handles, NEW b \in Handles, a # b
      PROVE  edge_count'[<<a, b>>] + RowCount([u \in Updaters |-> EdgesLeft(u, a, b)'])
               = RowCount(EdgesInRequests(a, b))'
  <2> DEFINE Q == [u \in Updaters |-> EdgesLeft(u, a, b)]
             R == [u \in Updaters |-> EdgesLeft(u, a, b)']
  <2>1. Q[t] = EdgesLeft(t, a, b) /\ R[t] = EdgesLeft(t, a, b)'  OBVIOUS
  <2>2. edge_count[<<a, b>>] + RowCount(Q) = RowCount(EdgesInRequests(a, b))
      BY <1>4 DEF Counts
  <2>3. Differ(Q, R, t)  BY OneWorker
  <2>4. RowCount(EdgesInRequests(a, b))' = RowCount(EdgesInRequests(a, b))
      BY DEF EdgesInRequests, RowCount, Rows
  <2>5. /\ edge_count[<<a, b>>] \in Nat /\ edge_count'[<<a, b>>] \in Nat
        /\ edge_count'[<<a, b>>] + Cardinality(EdgesLeft(t, a, b)')
             = edge_count[<<a, b>>] + Cardinality(EdgesLeft(t, a, b))
      BY <1>1, <1>4
  <2> HIDE DEF Q, R
  <2>6. /\ RowCount(Q) \in Nat /\ RowCount(R) \in Nat
        /\ Cardinality(Q[t]) \in Nat /\ Cardinality(R[t]) \in Nat
        /\ RowCount(R) + Cardinality(Q[t]) = RowCount(Q) + Cardinality(R[t])
      BY <2>3, RowsChange
  <2>7. edge_count'[<<a, b>>] + RowCount(R) = RowCount(EdgesInRequests(a, b))'
      BY <2>1, <2>2, <2>4, <2>5, <2>6
  <2> QED  BY <2>7 DEF R
<1> QED  BY <1>3, <1>4 DEF Counts

LEMMA WeightsKept ==
    ASSUME TypeOK, TypeOK', Weights, NEW t \in Updaters,
           \A u \in Updaters \ {t} : SameLoop(u), received' = received, request' = request,
           \A a, b \in Handles : a # b =>
              LET before == edge_count[<<a, b>>] + Cardinality(EdgesDue(t, a, b))
                  after == edge_count'[<<a, b>>] + Cardinality(EdgesDue(t, a, b)')
              IN \/ after <= before /\ node_count'[a] = node_count[a]
                 \/ after <= before + Repetitions(b) /\ node_count'[a] = node_count[a] + 1
    PROVE  Weights'
<1>1. \A e \in Handles \X Handles : edge_count[e] \in Nat /\ edge_count'[e] \in Nat
    BY DEF TypeOK, GraphType, Edges
<1>2. \A h \in Handles : node_count[h] \in Nat /\ node_count'[h] \in Nat
    BY DEF TypeOK, GraphType
<1>3. \A b \in Handles : /\ Repetitions(b)' = Repetitions(b) /\ Repetitions(b) \in Nat
                         /\ MostRepeated(b)'
  <2>1. \A b \in Handles : Repetitions(b)' = Repetitions(b)  BY DEF Repetitions
  <2>2. \A b \in Handles : MostRepeated(b)  BY DEF Weights
  <2> QED  BY <2>1, <2>2 DEF MostRepeated
<1>4. ASSUME NEW a \in Handles, NEW b \in Handles, a # b
      PROVE  edge_count'[<<a, b>>] + RowCount([u \in Updaters |-> EdgesDue(u, a, b)'])
               <= node_count'[a] * Repetitions(b)'
  <2> DEFINE Q == [u \in Updaters |-> EdgesDue(u, a, b)]
             R == [u \in Updaters |-> EdgesDue(u, a, b)']
  <2>1. Q[t] = EdgesDue(t, a, b) /\ R[t] = EdgesDue(t, a, b)'  OBVIOUS
  <2>2. edge_count[<<a, b>>] + RowCount(Q) <= node_count[a] * Repetitions(b)
      BY <1>4 DEF Weights
  <2>3. Differ(Q, R, t)  BY OneWorker
  <2>4. LET before == edge_count[<<a, b>>] + Cardinality(EdgesDue(t, a, b))
            after == edge_count'[<<a, b>>] + Cardinality(EdgesDue(t, a, b)')
        IN \/ after <= before /\ node_count'[a] = node_count[a]
           \/ after <= before + Repetitions(b) /\ node_count'[a] = node_count[a] + 1
      BY <1>4
  <2>5. \A m, r \in Nat : (m + 1) * r = m * r + r /\ m * r \in Nat  OBVIOUS
  <2>6. edge_count[<<a, b>>] \in Nat /\ edge_count'[<<a, b>>] \in Nat  BY <1>1
  <2> HIDE DEF Q, R
  <2>7. /\ RowCount(Q) \in Nat /\ RowCount(R) \in Nat
        /\ Cardinality(Q[t]) \in Nat /\ Cardinality(R[t]) \in Nat
        /\ RowCount(R) + Cardinality(Q[t]) = RowCount(Q) + Cardinality(R[t])
      BY <2>3, RowsChange
  <2>8. edge_count'[<<a, b>>] + RowCount(R) <= node_count'[a] * Repetitions(b)
      BY <1>2, <1>3, <2>1, <2>2, <2>4, <2>5, <2>6, <2>7
  <2> QED  BY <1>3, <2>8 DEF R
<1> QED  BY <1>3, <1>4 DEF Weights

-----------------------------------------------------------------------------
(* The steps *)

LEMMA OthersLoop ==
    ASSUME TypeOK, NEW t \in Updaters,
           Correlation(t) \/ \E list \in Lists : Start(t, list)
    PROVE  \A u \in Updaters \ {t} : SameLoop(u) /\ pc'[u] = pc[u]
<1> USE DEF TypeOK, WorkerType, SameLoop
<1>1. CASE AddNode(t) \/ NextPair(t) \/ Finish(t) \/ Throw(t)
    BY <1>1 DEF AddNode, NextPair, Finish, Throw, Goto, loopVars
<1>2. CASE InsertEdge(t) \/ CheckFirstTime(t) \/ LinkEdge(t) \/ ReadArity(t)
    BY <1>2 DEF InsertEdge, CheckFirstTime, LinkEdge, ReadArity, Done, Goto, loopVars
<1>3. CASE WriteArity(t) \/ CompareArity(t) \/ AssignLargest(t)
    BY <1>3 DEF WriteArity, CompareArity, AssignLargest, Done, Goto, loopVars
<1>4. CASE \E list \in Lists : Start(t, list)
    BY <1>4 DEF Start, Goto
<1> QED  BY <1>1, <1>2, <1>3, <1>4 DEF Correlation, AddEdge

\* The others keep their places whatever t does.
LEMMA LoopsKept ==
    ASSUME CountInvariant, NEW t \in Updaters,
           Correlation(t) \/ \E list \in Lists : Start(t, list), LoopOK(t)'
    PROVE  \A u \in Updaters : LoopOK(u)'
<1>1. ASSUME NEW u \in Updaters, u # t
      PROVE  LoopOK(u)'
  <2>1. SameLoop(u) /\ pc'[u] = pc[u]  BY <1>1, OthersLoop DEF CountInvariant
  <2>2. LoopOK(u)  BY DEF CountInvariant
  <2> QED  BY <2>1, <2>2, SameLeft
<1> QED  BY <1>1

\* Steps that neither add nor count.
LEMMA QuietStep ==
    ASSUME CountInvariant, TypeOK', NEW t \in Updaters,
           \/ Finish(t) \/ Throw(t) \/ CheckFirstTime(t) \/ LinkEdge(t) \/ ReadArity(t)
           \/ WriteArity(t) \/ CompareArity(t) \/ AssignLargest(t)
    PROVE  CountInvariant'
<1>1. /\ UNCHANGED <<node_count, edge_count, received, request, nodes, outer, inner, edges>>
      /\ \/ pc'[t] # "idle" /\ (pc[t] \notin {"idle", "next"} \/ nodes[t] = <<>>)
         \/ pc'[t] = "idle" /\ nodes[t] = <<>> /\ edges[t] = <<>> /\ outer[t] = <<>>
  <2> USE DEF CountInvariant, TypeOK, WorkerType
  <2>1. CASE Finish(t) \/ Throw(t)
    BY <2>1 DEF Finish, Throw, Goto, graphVars, loopVars, historyVars
  <2>2. CASE CheckFirstTime(t) \/ LinkEdge(t) \/ ReadArity(t)
    BY <2>2 DEF CheckFirstTime, LinkEdge, ReadArity, Done, Goto, graphVars, loopVars, historyVars
  <2>3. CASE WriteArity(t) \/ CompareArity(t) \/ AssignLargest(t)
    BY <2>3 DEF WriteArity, CompareArity, AssignLargest, Done, Goto, graphVars, loopVars,
       historyVars
  <2> QED  BY <2>1, <2>2, <2>3
<1>2. Correlation(t)  BY DEF Correlation, AddEdge
<1>3. SameLoop(t)  BY <1>1 DEF SameLoop
<1>4. LoopOK(t) /\ TypeOK /\ Counts /\ Weights  BY DEF CountInvariant
<1>5. LoopOK(t)'
  <2>1. CASE pc'[t] # "idle" /\ (pc[t] \notin {"idle", "next"} \/ nodes[t] = <<>>)
    <3>1. nodes[t] = <<>>  BY <1>4, <2>1 DEF LoopOK
    <3> QED  BY <1>3, <1>4, <2>1, <3>1, SameLeft
  <2>2. CASE pc'[t] = "idle" /\ nodes[t] = <<>> /\ edges[t] = <<>> /\ outer[t] = <<>>
    BY <1>1, <1>4, <2>2 DEF LoopOK
  <2> QED  BY <1>1, <2>1, <2>2
<1>6. /\ \A h : NodesLeft(t, h)' = NodesLeft(t, h)
      /\ \A a, b : EdgesLeft(t, a, b)' = EdgesLeft(t, a, b)
      /\ \A a, b : EdgesDue(t, a, b)' = EdgesDue(t, a, b)
    BY <1>3, SameLeft
<1>7. \A u \in Updaters \ {t} : SameLoop(u)  BY <1>2, <1>4, OthersLoop
<1>8. Counts'
    BY <1>1, <1>4, <1>6, <1>7, CountsKept
<1>9. Weights'
  <2>1. \A a, b \in Handles : a # b =>
           /\ edge_count[<<a, b>>] + Cardinality(EdgesDue(t, a, b)) \in Int
           /\ edge_count'[<<a, b>>] + Cardinality(EdgesDue(t, a, b)')
                = edge_count[<<a, b>>] + Cardinality(EdgesDue(t, a, b))
    <3>1. \A a, b \in Handles : Cardinality(EdgesDue(t, a, b)) \in Nat
        BY <1>4, LeftFacts, FS_CardinalityType
    <3>2. \A a, b \in Handles : edge_count[<<a, b>>] \in Nat
        BY <1>4 DEF TypeOK, GraphType, Edges
    <3> QED  BY <1>1, <1>6, <3>1, <3>2
  <2>2. \A a, b \in Handles : a # b =>
           edge_count'[<<a, b>>] + Cardinality(EdgesDue(t, a, b)')
             <= edge_count[<<a, b>>] + Cardinality(EdgesDue(t, a, b))
      BY <2>1
  <2> QED  BY <1>1, <1>4, <1>7, <2>2, WeightsKept
<1> QED  BY <1>2, <1>5, <1>8, <1>9, LoopsKept DEF CountInvariant

\* A finite set that gains or loses one member.
LEMMA OneMore ==
    ASSUME NEW S, NEW T, NEW x, IsFiniteSet(S), x \notin S, T = S \cup {x}
    PROVE  Cardinality(T) = Cardinality(S) + 1 /\ Cardinality(S) \in Nat
BY FS_AddElement, FS_CardinalityType

LEMMA AddNodeStep ==
    ASSUME CountInvariant, TypeOK', NEW t \in Updaters, AddNode(t)
    PROVE  CountInvariant'
<1> DEFINE list == request[t]
           n0 == Len(list) - Len(nodes[t]) + 1
           h0 == Head(nodes[t])
<1>1. TypeOK /\ LoopOK(t) /\ Counts /\ Weights  BY DEF CountInvariant
<1>2. list \in Seq(Handles) /\ nodes[t] \in Seq(Handles) /\ Len(list) \in Nat
    BY <1>1 DEF TypeOK, WorkerType
<1>3. /\ pc[t] = "next" /\ nodes[t] # <<>>
      /\ node_count' = [node_count EXCEPT ![h0] = @ + 1]
      /\ nodes'[t] = Tail(nodes[t])
      /\ UNCHANGED <<edge_count, received, request, outer, inner, edges, pc>>
    BY <1>1 DEF AddNode, historyVars, TypeOK, WorkerType
<1>4. /\ n0 \in 1..Len(list) /\ h0 = list[n0]
      /\ IsRest(Tail(nodes[t]), list) /\ Len(Tail(nodes[t])) = Len(nodes[t]) - 1
    BY <1>1, <1>2, <1>3, RestFacts DEF LoopOK
<1>5. /\ Len(nodes[t]) \in Nat /\ n0 \in Int /\ n0 - 1 = Len(list) - Len(nodes[t])
      /\ Len(list) - Len(nodes'[t]) = n0
  <2>1. Len(nodes[t]) \in Nat  BY <1>2
  <2>2. Len(nodes'[t]) = Len(nodes[t]) - 1  BY <1>3, <1>4
  <2> QED  BY <1>2, <2>1, <2>2
<1>6. h0 \in Handles  BY <1>2, <1>4, ElementOfSeq
<1>15. \A h : n0 \in Places(list, h) <=> h = h0
  <2>1. DOMAIN list = 1..Len(list)  BY <1>2
  <2> HIDE DEF n0, list, h0
  <2> QED  BY <1>4, <2>1 DEF Places
<1>7. Correlation(t)  BY DEF Correlation
<1>8. \A u \in Updaters \ {t} : SameLoop(u)  BY <1>1, <1>7, OthersLoop
<1>9. LoopOK(t)'
    BY <1>1, <1>3, <1>4 DEF LoopOK
<1>16. /\ \A h : NodesLeft(t, h)' = {i \in Places(list, h) : i > n0}
       /\ \A h : NodesLeft(t, h) = {i \in Places(list, h) : i > n0 - 1}
       /\ \A a, b : EdgesDue(t, a, b) = {p \in EdgesLeft(t, a, b) : p[1] <= n0 - 1}
       /\ \A a, b : EdgesDue(t, a, b)' = {p \in EdgesLeft(t, a, b)' : p[1] <= n0}
  <2>1. request'[t] = list  BY <1>3
  <2> HIDE DEF n0
  <2> QED  BY <1>5, <2>1 DEF NodesLeft, EdgesDue
<1> HIDE DEF n0, list, h0
<1>10. ASSUME NEW h
       PROVE  /\ h = h0 => NodesLeft(t, h) = NodesLeft(t, h)' \cup {n0}
              /\ h # h0 => NodesLeft(t, h)' = NodesLeft(t, h)
              /\ n0 \notin NodesLeft(t, h)'
  <2>3. Places(list, h) \subseteq 1..Len(list)  BY <1>2, PlacesFinite
  <2>4. \A i \in Places(list, h) : i > n0 - 1 <=> i > n0 \/ i = n0
      BY <1>4, <2>3
  <2>5. PICK after : after = NodesLeft(t, h)'  OBVIOUS
  <2>6. PICK before : before = NodesLeft(t, h)  OBVIOUS
  <2>7. after = {i \in Places(list, h) : i > n0}  BY <1>16, <2>5, Zenon
  <2>8. before = {i \in Places(list, h) : i > n0 - 1}  BY <1>16, <2>6, Zenon
  <2>9. /\ \A i : i \in after <=> i \in Places(list, h) /\ i > n0
        /\ \A i : i \in before <=> i \in Places(list, h) /\ (i > n0 \/ i = n0)
      BY <2>4, <2>7, <2>8
  <2>10. ~(n0 > n0)  BY <1>4
  <2>11. /\ h = h0 => before = after \cup {n0}
         /\ h # h0 => after = before
         /\ n0 \notin after
      BY <1>15, <2>9, <2>10
  <2> QED  BY <2>5, <2>6, <2>11
<1>11. \A h \in Handles : node_count[h] \in Nat
    BY <1>1 DEF TypeOK, GraphType
<1>12. \A a, b : EdgesLeft(t, a, b)' = EdgesLeft(t, a, b)
    BY <1>3 DEF EdgesLeft, PairsAhead, Ahead, InHand
<1>13. Counts'
  <2>1. ASSUME NEW h \in Handles
        PROVE  node_count'[h] + Cardinality(NodesLeft(t, h)')
                 = node_count[h] + Cardinality(NodesLeft(t, h))
    <3>1. IsFiniteSet(NodesLeft(t, h))  BY <1>1, LeftFacts
    <3>2. CASE h = h0
      <4>1. NodesLeft(t, h) = NodesLeft(t, h)' \cup {n0} /\ n0 \notin NodesLeft(t, h)'
          BY <1>10, <3>2
      <4>2. IsFiniteSet(NodesLeft(t, h)')  BY <3>1, <4>1, FS_Subset
      <4> HIDE DEF n0
      <4>3. /\ Cardinality(NodesLeft(t, h)) = Cardinality(NodesLeft(t, h)') + 1
            /\ Cardinality(NodesLeft(t, h)') \in Nat
          BY <4>1, <4>2, OneMore
      <4>4. node_count'[h] = node_count[h] + 1  BY <1>1, <1>3, <3>2 DEF TypeOK, GraphType
      <4> QED  BY <1>11, <4>3, <4>4
    <3>3. CASE h # h0
      <4>1. NodesLeft(t, h)' = NodesLeft(t, h)  BY <1>10, <3>3
      <4>2. node_count'[h] = node_count[h]  BY <1>1, <1>3, <3>3 DEF TypeOK, GraphType
      <4> QED  BY <4>1, <4>2
    <3> QED  BY <3>2, <3>3
  <2> QED  BY <1>1, <1>3, <1>8, <1>12, <2>1, CountsKept
<1>14. Weights'
  <2>1. ASSUME NEW a \in Handles, NEW b \in Handles, a # b
        PROVE  LET before == edge_count[<<a, b>>] + Cardinality(EdgesDue(t, a, b))
                   after == edge_count'[<<a, b>>] + Cardinality(EdgesDue(t, a, b)')
               IN \/ after <= before /\ node_count'[a] = node_count[a]
                  \/ after <= before + Repetitions(b) /\ node_count'[a] = node_count[a] + 1
    <3> DEFINE due == EdgesDue(t, a, b)
               next == EdgesDue(t, a, b)'
               more == {n0} \X Places(list, b)
    <3>1. due = {p \in EdgesLeft(t, a, b) : p[1] <= n0 - 1}
        BY <1>16
    <3>2. next = {p \in EdgesLeft(t, a, b) : p[1] <= n0}
        BY <1>12, <1>16
    <3>3. edges[t] = <<>>  BY <1>1, <1>3 DEF LoopOK
    <3>4. ~InHand(t, a, b)
      <4>1. Len(<<>>) = 0  OBVIOUS
      <4>2. Len(edges[t]) = 0  BY <3>3, <4>1, Zenon
      <4> QED  BY <4>2 DEF InHand
    <3>5. EdgesLeft(t, a, b) \subseteq Places(list, a) \X Places(list, b)
        BY <3>4 DEF EdgesLeft, PairsAhead, list
    <3>6. Places(list, a) \subseteq 1..Len(list)  BY <1>2, PlacesFinite
    <3>7. \A p \in EdgesLeft(t, a, b) : p[1] <= n0 <=> p[1] <= n0 - 1 \/ p[1] = n0
        BY <1>4, <3>5, <3>6
    <3>8. n0 \in Places(list, a) <=> a = h0  BY <1>15
    <3>9. edge_count[<<a, b>>] \in Nat /\ edge_count' = edge_count
        BY <1>1, <1>3 DEF TypeOK, GraphType, Edges
    <3>10. IsFiniteSet(due) /\ Cardinality(due) \in Nat
        BY <1>1, LeftFacts, FS_CardinalityType
    <3>11. CASE a = h0
      <4>1. next \subseteq due \cup more  BY <3>1, <3>2, <3>5, <3>7
      <4>2. /\ IsFiniteSet({n0}) /\ Cardinality({n0}) = 1
            /\ IsFiniteSet(Places(list, b)) /\ Occurrences(list, b) \in Nat
          BY <1>2, FS_Singleton, PlacesFinite
      <4>3. IsFiniteSet(more) /\ Cardinality(more) = 1 * Occurrences(list, b)
          BY <4>2, FS_Product DEF Occurrences
      <4>4. /\ IsFiniteSet(due \cup more)
            /\ Cardinality(due \cup more)
                 = Cardinality(due) + Cardinality(more) - Cardinality(due \cap more)
          BY <3>10, <4>3, FS_Union
      <4>5. Cardinality(due \cap more) \in Nat
          BY <3>10, FS_Intersection, FS_CardinalityType
      <4>6. /\ Cardinality(next) <= Cardinality(due \cup more)
            /\ Cardinality(next) \in Nat
          BY <4>1, <4>4, FS_Subset, FS_CardinalityType
      <4>7. Occurrences(list, b) <= Repetitions(b) /\ Repetitions(b) \in Nat
        <5>1. list # <<>>  BY <1>4, EmptySeq
        <5>2. PICK k \in DOMAIN received : list = received[k]
            BY <1>1, <5>1 DEF Weights, list
        <5> QED  BY <1>1, <5>2 DEF Weights, MostRepeated
      <4>8. node_count'[a] = node_count[a] + 1  BY <1>1, <1>3, <3>11 DEF TypeOK, GraphType
      <4> HIDE DEF due, next, more, list, n0, h0
      <4>9. Cardinality(next) <= Cardinality(due) + Repetitions(b)
          BY <3>10, <4>2, <4>3, <4>4, <4>5, <4>6, <4>7
      <4> QED  BY <3>9, <3>10, <4>6, <4>7, <4>8, <4>9 DEF due, next
    <3>12. CASE a # h0
      <4>1. next = due  BY <3>1, <3>2, <3>5, <3>7, <3>8, <3>12
      <4>2. node_count'[a] = node_count[a]  BY <1>1, <1>3, <3>12 DEF TypeOK, GraphType
      <4> HIDE DEF due, next
      <4>3. edge_count[<<a, b>>] + Cardinality(next)
              <= edge_count[<<a, b>>] + Cardinality(due)
          BY <3>9, <3>10, <4>1
      <4> QED  BY <3>9, <4>2, <4>3 DEF due, next
    <3> QED  BY <3>11, <3>12
  <2> QED  BY <1>1, <1>3, <1>8, <2>1, WeightsKept
<1> QED  BY <1>7, <1>9, <1>13, <1>14, LoopsKept DEF CountInvariant

\* When all nodes are counted, every edge that is left is due.
AllDue ==
    \A t \in Updaters, a, b \in Handles :
        nodes[t] = <<>> => EdgesDue(t, a, b) = EdgesLeft(t, a, b)

LEMMA NodesFirst == TypeOK => AllDue
<1> SUFFICES ASSUME TypeOK, NEW t \in Updaters, NEW a \in Handles, NEW b \in Handles,
                    nodes[t] = <<>>
             PROVE  EdgesDue(t, a, b) = EdgesLeft(t, a, b)
    BY DEF AllDue
<1>1. request[t] \in Seq(Handles) /\ Len(request[t]) \in Nat
    BY LenProperties DEF TypeOK, WorkerType
<1>2. Places(request[t], a) \subseteq 1..Len(request[t])  BY <1>1, PlacesFinite
<1>3. Len(<<>>) = 0  OBVIOUS
<1>4. Len(nodes[t]) = 0  BY <1>3, Zenon
<1>5. \A p \in PairsAhead(t, a, b) : p[1] <= Len(request[t]) - Len(nodes[t])
    BY <1>1, <1>2, <1>4 DEF PairsAhead
<1>6. <<0, 0>>[1] <= Len(request[t]) - Len(nodes[t])  BY <1>1, <1>4
<1> QED  BY <1>5, <1>6 DEF EdgesDue, EdgesLeft

LEMMA NodesFirstNext == TypeOK' => AllDue'
BY NodesFirst, PTL

\* The two edges of a pair differ, and neither is a loop.
LEMMA PairFacts ==
    ASSUME NEW s \in Seq(Edges), PairOK(s), s # <<>>
    PROVE  /\ PairOK(Tail(s))
           /\ \E a, b \in Handles : a # b /\ Head(s) = <<a, b>>
           /\ \A f : (\E i \in 1..Len(s) : s[i] = f)
                       <=> f = Head(s) \/ \E i \in 1..Len(Tail(s)) : Tail(s)[i] = f
           /\ ~\E i \in 1..Len(Tail(s)) : Tail(s)[i] = Head(s)
<1>1. PICK a \in Handles, b \in Handles : a < b /\ s \in {BothWays(a, b), << <<b, a>> >>}
    BY DEF PairOK
<1>2. a # b /\ <<a, b>> # <<b, a>>  BY <1>1 DEF Handles
<1>3. CASE s = BothWays(a, b)
  <2>1. /\ Head(s) = <<a, b>> /\ Tail(s) = << <<b, a>> >>
        /\ Len(s) = 2 /\ s[1] = <<a, b>> /\ s[2] = <<b, a>>
      BY <1>3 DEF BothWays
  <2>2. Len(Tail(s)) = 1 /\ Tail(s)[1] = <<b, a>>  BY <2>1
  <2>3. PairOK(Tail(s))  BY <1>1, <2>1 DEF PairOK
  <2>4. 1..2 = {1, 2} /\ 1..1 = {1}  OBVIOUS
  <2> QED  BY <1>2, <2>1, <2>2, <2>3, <2>4, Zenon
<1>4. CASE s = << <<b, a>> >>
  <2>1. /\ Head(s) = <<b, a>> /\ Tail(s) = <<>>
        /\ Len(s) = 1 /\ s[1] = <<b, a>>
      BY <1>4
  <2>2. Len(Tail(s)) = 0  BY <2>1
  <2>3. PairOK(Tail(s))  BY <2>1 DEF PairOK
  <2>4. 1..1 = {1} /\ 1..0 = {}  OBVIOUS
  <2> QED  BY <1>2, <2>1, <2>2, <2>3, <2>4, Zenon
<1> QED  BY <1>1, <1>3, <1>4

\* Once the nodes are counted, Weights follow the same steps as Counts.
LEMMA WeightsFollow ==
    ASSUME CountInvariant, TypeOK', NEW t \in Updaters, nodes[t] = <<>>, nodes'[t] = <<>>,
           \A u \in Updaters \ {t} : SameLoop(u),
           UNCHANGED <<received, request, node_count>>,
           \A a, b \in Handles : a # b =>
              edge_count'[<<a, b>>] + Cardinality(EdgesLeft(t, a, b)')
                = edge_count[<<a, b>>] + Cardinality(EdgesLeft(t, a, b))
    PROVE  Weights'
<1>1. TypeOK /\ Weights  BY DEF CountInvariant
<1>2. \A a, b \in Handles : /\ EdgesDue(t, a, b) = EdgesLeft(t, a, b)
                            /\ EdgesDue(t, a, b)' = EdgesLeft(t, a, b)'
    BY <1>1, NodesFirst, NodesFirstNext DEF AllDue
<1>3. \A a, b \in Handles : /\ Cardinality(EdgesLeft(t, a, b)) \in Nat
                            /\ edge_count[<<a, b>>] \in Nat
    BY <1>1, LeftFacts, FS_CardinalityType DEF TypeOK, GraphType, Edges
<1>4. \A a, b \in Handles : a # b =>
         edge_count'[<<a, b>>] + Cardinality(EdgesDue(t, a, b)')
           <= edge_count[<<a, b>>] + Cardinality(EdgesDue(t, a, b))
  <2> SUFFICES ASSUME NEW a \in Handles, NEW b \in Handles, a # b
               PROVE  edge_count'[<<a, b>>] + Cardinality(EdgesLeft(t, a, b)')
                        <= edge_count[<<a, b>>] + Cardinality(EdgesLeft(t, a, b))
      BY <1>2
  <2> QED  BY <1>3
<1> QED  BY <1>1, <1>4, WeightsKept

LEMMA InsertEdgeStep ==
    ASSUME CountInvariant, TypeOK', NEW t \in Updaters, InsertEdge(t)
    PROVE  CountInvariant'
<1> DEFINE e == Head(edges[t])
<1>1. TypeOK /\ LoopOK(t) /\ Counts  BY DEF CountInvariant
<1>2. /\ edges[t] # <<>> /\ edges'[t] = Tail(edges[t])
      /\ edge_count' = [edge_count EXCEPT ![e] = @ + 1]
      /\ pc[t] = "next" /\ pc'[t] = "check"
      /\ UNCHANGED <<node_count, received, request, nodes, outer, inner>>
    BY <1>1 DEF InsertEdge, Goto, loopVars, historyVars, TypeOK, WorkerType
<1>3. edges[t] \in Seq(Edges) /\ nodes[t] = <<>> /\ PairOK(edges[t])
    BY <1>1, <1>2 DEF TypeOK, WorkerType, LoopOK
<1>4. /\ PairOK(Tail(edges[t]))
      /\ \E a, b \in Handles : a # b /\ e = <<a, b>>
      /\ \A f : (\E i \in 1..Len(edges[t]) : edges[t][i] = f)
                  <=> f = e \/ \E i \in 1..Len(Tail(edges[t])) : Tail(edges[t])[i] = f
      /\ ~\E i \in 1..Len(Tail(edges[t])) : Tail(edges[t])[i] = e
    BY <1>2, <1>3, PairFacts
<1>5. Correlation(t)  BY DEF Correlation, AddEdge
<1>6. \A u \in Updaters \ {t} : SameLoop(u)  BY <1>1, <1>5, OthersLoop
<1>7. LoopOK(t)'
    BY <1>1, <1>2, <1>3, <1>4 DEF LoopOK
<1> HIDE DEF e
<1>8. ASSUME NEW a \in Handles, NEW b \in Handles, a # b
      PROVE  edge_count'[<<a, b>>] + Cardinality(EdgesLeft(t, a, b)')
               = edge_count[<<a, b>>] + Cardinality(EdgesLeft(t, a, b))
  <2>1. /\ PairsAhead(t, a, b)' = PairsAhead(t, a, b)
        /\ <<0, 0>> \notin PairsAhead(t, a, b)
      BY <1>1, <1>2, LeftFacts DEF PairsAhead, Ahead
  <2>2. IsFiniteSet(EdgesLeft(t, a, b))  BY <1>1, LeftFacts
  <2>3. edge_count[<<a, b>>] \in Nat /\ <<a, b>> \in Edges /\ edge_count \in [Edges -> Nat]
      BY <1>1 DEF TypeOK, GraphType, Edges
  <2>4. CASE e = <<a, b>>
    <3>1. InHand(t, a, b) /\ ~InHand(t, a, b)'
        BY <1>2, <1>4, <2>4 DEF InHand
    <3>2. EdgesLeft(t, a, b) = EdgesLeft(t, a, b)' \cup {<<0, 0>>}
        BY <2>1, <3>1 DEF EdgesLeft
    <3>3. <<0, 0>> \notin EdgesLeft(t, a, b)'  BY <2>1, <3>1 DEF EdgesLeft
    <3>4. IsFiniteSet(EdgesLeft(t, a, b)')  BY <2>2, <3>2, FS_Subset
    <3>5. /\ Cardinality(EdgesLeft(t, a, b)) = Cardinality(EdgesLeft(t, a, b)') + 1
          /\ Cardinality(EdgesLeft(t, a, b)') \in Nat
        BY <3>2, <3>3, <3>4, OneMore
    <3>6. edge_count'[<<a, b>>] = edge_count[<<a, b>>] + 1  BY <1>2, <2>3, <2>4
    <3> QED  BY <2>3, <3>5, <3>6
  <2>5. CASE e # <<a, b>>
    <3>1. InHand(t, a, b)' <=> InHand(t, a, b)
        BY <1>2, <1>4, <2>5 DEF InHand
    <3>2. EdgesLeft(t, a, b)' = EdgesLeft(t, a, b)  BY <2>1, <3>1 DEF EdgesLeft
    <3>3. edge_count'[<<a, b>>] = edge_count[<<a, b>>]  BY <1>2, <2>3, <2>5
    <3> QED  BY <3>2, <3>3
  <2> QED  BY <2>4, <2>5
<1>9. \A a \in Handles : edge_count'[<<a, a>>] = edge_count[<<a, a>>]
    BY <1>1, <1>2, <1>4 DEF TypeOK, GraphType
<1>10. \A h : NodesLeft(t, h)' = NodesLeft(t, h)  BY <1>2 DEF NodesLeft
<1>11. Counts'
  <2>1. \A h \in Handles : node_count'[h] + Cardinality(NodesLeft(t, h)')
                             = node_count[h] + Cardinality(NodesLeft(t, h))
      BY <1>2, <1>10
  <2> QED  BY <1>1, <1>2, <1>6, <1>8, <1>9, <2>1, CountsKept
<1>12. Weights'
    BY <1>2, <1>3, <1>6, <1>8, WeightsFollow
<1> QED  BY <1>5, <1>7, <1>11, <1>12, LoopsKept DEF CountInvariant

\* A turn of the inner loop, or of both, over a list of length L: the rests of the outer
\* and the inner loop had the lengths oo and oi, and have the lengths no and ni.
Turn(L, oo, oi, no, ni) ==
    IF oi = 1 THEN no = oo - 1 /\ ni = L ELSE no = oo /\ ni = oi - 1

\* Where the loops are before and after a turn.
LEMMA TurnOfTheLoops ==
    ASSUME TypeOK, NEW t \in Updaters, LoopOK(t), NextPair(t)
    PROVE  LET list == request[t]
           IN \E i0, j0 \in 1..Len(list) :
              /\ Head(outer[t]) = list[i0] /\ Head(inner[t]) = list[j0]
              /\ IsRest(outer'[t], list) /\ IsRest(inner'[t], list)
              /\ \A i, j \in 1..Len(list) :
                    Ahead(t, i, j)' <=> Ahead(t, i, j) /\ ~(i = i0 /\ j = j0)
              /\ Ahead(t, i0, j0)
<1> DEFINE list == request[t]
           L == Len(list)
           i0 == L - Len(outer[t]) + 1
           j0 == L - Len(inner[t]) + 1
<1>1. /\ list \in Seq(Handles) /\ outer[t] \in Seq(Handles) /\ inner[t] \in Seq(Handles)
      /\ outer[t] # <<>> /\ inner[t] # <<>> /\ request' = request
      /\ IsRest(outer[t], list) /\ IsRest(inner[t], list)
    BY DEF TypeOK, WorkerType, WorkerShape, NextPair, LoopOK
<1>2. /\ i0 \in 1..L /\ Head(outer[t]) = list[i0]
      /\ IsRest(Tail(outer[t]), list) /\ Len(Tail(outer[t])) = Len(outer[t]) - 1
    BY <1>1, RestFacts
<1>3. /\ j0 \in 1..L /\ Head(inner[t]) = list[j0]
      /\ IsRest(Tail(inner[t]), list) /\ Len(Tail(inner[t])) = Len(inner[t]) - 1
    BY <1>1, RestFacts
<1>4. L \in Nat /\ Len(outer[t]) \in Nat /\ Len(inner[t]) \in Nat  BY <1>1
<1>5. IF Len(inner[t]) = 1
      THEN outer'[t] = Tail(outer[t]) /\ inner'[t] = list
      ELSE outer'[t] = outer[t] /\ inner'[t] = Tail(inner[t])
    BY DEF NextPair, TypeOK, WorkerType
<1>6. IsRest(outer'[t], list) /\ IsRest(inner'[t], list)
    BY <1>1, <1>2, <1>3, <1>5, TrivialRests
<1>7. PICK oi, oo \in Nat : oi = Len(inner[t]) /\ oo = Len(outer[t])  BY <1>4
<1>8. PICK ni, no \in Int : /\ ni = Len(inner'[t]) /\ no = Len(outer'[t])
                            /\ Turn(L, oo, oi, no, ni)
  <2>1. CASE oi = 1
    <3>1. Len(outer'[t]) = oo - 1 /\ Len(inner'[t]) = L
        BY <1>2, <1>5, <1>7, <2>1
    <3>2. oo - 1 \in Int /\ L \in Int  BY <1>4, <1>7
    <3> QED  BY <2>1, <3>1, <3>2 DEF Turn
  <2>2. CASE oi # 1
    <3>1. Len(outer'[t]) = oo /\ Len(inner'[t]) = oi - 1
        BY <1>3, <1>5, <1>7, <2>2
    <3>2. oo \in Int /\ oi - 1 \in Int  BY <1>7
    <3> QED  BY <2>2, <3>1, <3>2 DEF Turn
  <2> QED  BY <2>1, <2>2
<1>9. /\ \A i, j : Ahead(t, i, j) = NotBefore(i, j, L - oo + 1, L - oi + 1)
      /\ \A i, j : Ahead(t, i, j)' = NotBefore(i, j, L - no + 1, L - ni + 1)
    BY <1>1, <1>7, <1>8 DEF Ahead
<1>10. i0 = L - oo + 1 /\ j0 = L - oi + 1  BY <1>7
<1> HIDE DEF i0, j0, L
<1>11. \A i, j \in 1..L : Ahead(t, i, j)' <=> Ahead(t, i, j) /\ ~(i = i0 /\ j = j0)
  <2> SUFFICES ASSUME NEW i \in 1..L, NEW j \in 1..L
               PROVE  Ahead(t, i, j)' <=> Ahead(t, i, j) /\ ~(i = i0 /\ j = j0)
      OBVIOUS
  <2>1. NotBefore(i, j, L - no + 1, L - ni + 1)
          <=> NotBefore(i, j, L - oo + 1, L - oi + 1) /\ ~(i = L - oo + 1 /\ j = L - oi + 1)
    <3>1. oo \in Nat /\ oi \in Nat /\ no \in Int /\ ni \in Int  BY <1>7, <1>8
    <3>2. CASE oi = 1
      <4>1. no = oo - 1 /\ ni = L  BY <1>8, <3>2 DEF Turn
      <4> QED  BY <1>4, <3>1, <3>2, <4>1 DEF NotBefore
    <3>3. CASE oi # 1
      <4>1. no = oo /\ ni = oi - 1  BY <1>8, <3>3 DEF Turn
      <4> QED  BY <1>4, <3>1, <3>3, <4>1 DEF NotBefore
    <3> QED  BY <3>2, <3>3
  <2> QED  BY <1>9, <1>10, <2>1
<1>12. Ahead(t, i0, j0)
  <2>1. i0 \in Int /\ j0 \in Int  BY <1>2, <1>3
  <2>2. i0 = L - oo + 1 /\ j0 >= L - oi + 1  BY <1>10, <2>1
  <2> QED  BY <1>9, <2>2 DEF NotBefore
<1> QED  BY <1>2, <1>3, <1>6, <1>11, <1>12 DEF L

\* A member that is exchanged for another one.
LEMMA Exchange ==
    ASSUME NEW S, IsFiniteSet(S), NEW x \in S, NEW z, z \notin S
    PROVE  Cardinality((S \ {x}) \cup {z}) = Cardinality(S)
<1>1. /\ IsFiniteSet(S \ {x}) /\ Cardinality(S \ {x}) = Cardinality(S) - 1
      /\ Cardinality(S) \in Nat
    BY FS_RemoveElement, FS_CardinalityType
<1>2. z \notin S \ {x}  OBVIOUS
<1>3. Cardinality((S \ {x}) \cup {z}) = Cardinality(S \ {x}) + 1  BY <1>1, <1>2, OneMore
<1> QED  BY <1>1, <1>3

LEMMA NextPairStep ==
    ASSUME CountInvariant, TypeOK', NEW t \in Updaters, NextPair(t)
    PROVE  CountInvariant'
<1> DEFINE list == request[t]
           x == Head(outer[t])
           y == Head(inner[t])
<1>1. TypeOK /\ LoopOK(t) /\ Counts  BY DEF CountInvariant
<1>2. /\ pc[t] = "next" /\ nodes[t] = <<>> /\ edges[t] = <<>>
      /\ edges'[t] = IF x < y THEN BothWays(x, y) ELSE <<>>
      /\ UNCHANGED <<node_count, edge_count, received, request, nodes, pc>>
    BY <1>1 DEF NextPair, NodesAdded, Precedes, graphVars, historyVars, TypeOK, WorkerType
<1>3. PICK i0 \in 1..Len(list), j0 \in 1..Len(list) :
         /\ x = list[i0] /\ y = list[j0]
         /\ IsRest(outer'[t], list) /\ IsRest(inner'[t], list)
         /\ \A i, j \in 1..Len(list) :
               Ahead(t, i, j)' <=> Ahead(t, i, j) /\ ~(i = i0 /\ j = j0)
         /\ Ahead(t, i0, j0)
    BY <1>1, TurnOfTheLoops
<1>4. list \in Seq(Handles) /\ DOMAIN list = 1..Len(list)  BY <1>1 DEF TypeOK, WorkerType
<1>5. x \in Handles /\ y \in Handles  BY <1>3, <1>4, ElementOfSeq
<1>6. Correlation(t)  BY DEF Correlation
<1>7. \A u \in Updaters \ {t} : SameLoop(u)  BY <1>1, <1>6, OthersLoop
<1> HIDE DEF x, y
<1>8. LoopOK(t)'
  <2>1. PairOK(edges[t])'  BY <1>2, <1>5 DEF PairOK
  <2>2. IsRest(nodes[t], request[t])'  BY <1>1, <1>2 DEF LoopOK
  <2> QED  BY <1>2, <1>3, <2>1, <2>2 DEF LoopOK
<1>9. \A a, b : InHand(t, a, b)' <=> x < y /\ <<a, b>> \in {<<x, y>>, <<y, x>>}
  <2>1. /\ Len(<<>>) = 0 /\ 1..0 = {} /\ 1..2 = {1, 2}
        /\ Len(BothWays(x, y)) = 2
        /\ BothWays(x, y)[1] = <<x, y>> /\ BothWays(x, y)[2] = <<y, x>>
      BY DEF BothWays
  <2>2. CASE x < y
    <3>1. edges'[t] = BothWays(x, y)  BY <1>2, <2>2
    <3> QED  BY <2>1, <2>2, <3>1, Zenon DEF InHand
  <2>3. CASE ~(x < y)
    <3>1. edges'[t] = <<>>  BY <1>2, <2>3
    <3> QED  BY <2>1, <2>3, <3>1, Zenon DEF InHand
  <2> QED  BY <2>2, <2>3
<1>10. \A a, b : ~InHand(t, a, b)
  <2>1. Len(<<>>) = 0 /\ 1..0 = {}  OBVIOUS
  <2> QED  BY <1>2, <2>1, Zenon DEF InHand
<1>11. ASSUME NEW a \in Handles, NEW b \in Handles, a # b
       PROVE  edge_count'[<<a, b>>] + Cardinality(EdgesLeft(t, a, b)')
                = edge_count[<<a, b>>] + Cardinality(EdgesLeft(t, a, b))
  <2>1. PICK p0 : p0 = IF a < b THEN <<i0, j0>> ELSE <<j0, i0>>  OBVIOUS
  <2>2. a < b \/ b < a  BY <1>11 DEF Handles
  <2>3. \A q \in Places(list, a) \X Places(list, b) :
           /\ q[1] \in 1..Len(list) /\ q[2] \in 1..Len(list) /\ q = <<q[1], q[2]>>
      BY <1>4 DEF Places
  <2>4. PairsAhead(t, a, b)' = PairsAhead(t, a, b) \ {p0}
    <3>1. PairsAhead(t, a, b)'
            = {q \in Places(list, a) \X Places(list, b) :
                 IF a < b THEN Ahead(t, q[1], q[2])' ELSE Ahead(t, q[2], q[1])'}
        BY <1>2 DEF PairsAhead
    <3>2. ASSUME NEW q \in Places(list, a) \X Places(list, b)
          PROVE  (IF a < b THEN Ahead(t, q[1], q[2])' ELSE Ahead(t, q[2], q[1])')
                   <=> /\ (IF a < b THEN Ahead(t, q[1], q[2]) ELSE Ahead(t, q[2], q[1]))
                       /\ q # p0
        BY <1>3, <2>1, <2>3
    <3> QED  BY <3>1, <3>2 DEF PairsAhead
  <2>5. InHand(t, a, b)' <=> p0 \in PairsAhead(t, a, b)
    <3>1. CASE a < b
      <4>1. InHand(t, a, b)' <=> a = x /\ b = y
          BY <1>5, <1>9, <3>1 DEF Handles
      <4>2. p0 = <<i0, j0>>  BY <2>1, <3>1
      <4>3. p0 \in Places(list, a) \X Places(list, b) <=> a = x /\ b = y
          BY <1>3, <1>4, <4>2 DEF Places
      <4>4. Ahead(t, p0[1], p0[2])  BY <1>3, <4>2
      <4> QED  BY <3>1, <4>1, <4>3, <4>4 DEF PairsAhead
    <3>2. CASE b < a
      <4>1. InHand(t, a, b)' <=> a = y /\ b = x
          BY <1>5, <1>9, <3>2 DEF Handles
      <4>2. ~(a < b)  BY <3>2 DEF Handles
      <4>3. p0 = <<j0, i0>>  BY <2>1, <4>2
      <4>4. p0 \in Places(list, a) \X Places(list, b) <=> a = y /\ b = x
          BY <1>3, <1>4, <4>3 DEF Places
      <4>5. Ahead(t, p0[2], p0[1])  BY <1>3, <4>3
      <4> QED  BY <4>1, <4>2, <4>4, <4>5 DEF PairsAhead
    <3> QED  BY <2>2, <3>1, <3>2
  <2>6. EdgesLeft(t, a, b) = PairsAhead(t, a, b)  BY <1>10 DEF EdgesLeft
  <2>7. /\ <<0, 0>> \notin PairsAhead(t, a, b)
        /\ IsFiniteSet(PairsAhead(t, a, b))
      BY <1>1, <2>6, LeftFacts DEF PairsAhead
  <2>8. Cardinality(EdgesLeft(t, a, b)') = Cardinality(EdgesLeft(t, a, b))
    <3>1. CASE p0 \in PairsAhead(t, a, b)
      <4>1. EdgesLeft(t, a, b)' = (PairsAhead(t, a, b) \ {p0}) \cup {<<0, 0>>}
          BY <2>4, <2>5, <3>1 DEF EdgesLeft
      <4> QED  BY <2>6, <2>7, <3>1, <4>1, Exchange
    <3>2. CASE p0 \notin PairsAhead(t, a, b)
      <4>1. EdgesLeft(t, a, b)' = PairsAhead(t, a, b)
          BY <2>4, <2>5, <3>2 DEF EdgesLeft
      <4> QED  BY <2>6, <4>1
    <3> QED  BY <3>1, <3>2
  <2> QED  BY <1>2, <2>8
<1>12. \A h : NodesLeft(t, h)' = NodesLeft(t, h)  BY <1>2 DEF NodesLeft
<1>13. Counts'
  <2>1. \A h \in Handles : node_count'[h] + Cardinality(NodesLeft(t, h)')
                             = node_count[h] + Cardinality(NodesLeft(t, h))
      BY <1>2, <1>12
  <2>2. \A a \in Handles : edge_count'[<<a, a>>] = edge_count[<<a, a>>]  BY <1>2
  <2> QED  BY <1>1, <1>2, <1>7, <1>11, <2>1, <2>2, CountsKept
<1>14. Weights'
    BY <1>2, <1>7, <1>11, WeightsFollow
<1> QED  BY <1>6, <1>8, <1>13, <1>14, LoopsKept DEF CountInvariant

\* Nothing is left to a worker that waits for a request.
LEMMA IdleLeft ==
    ASSUME TypeOK, NEW t \in Updaters, LoopOK(t), pc[t] = "idle"
    PROVE  /\ \A h : NodesLeft(t, h) = {}
           /\ \A a, b \in Handles : EdgesLeft(t, a, b) = {} /\ EdgesDue(t, a, b) = {}
<1>1. nodes[t] = <<>> /\ edges[t] = <<>> /\ outer[t] = <<>>  BY DEF LoopOK
<1>2. request[t] \in Seq(Handles) /\ Len(request[t]) \in Nat
    BY LenProperties DEF TypeOK, WorkerType
<1>3. Len(<<>>) = 0 /\ 1..0 = {}  OBVIOUS
<1>4. Len(nodes[t]) = 0 /\ Len(outer[t]) = 0 /\ Len(edges[t]) = 0  BY <1>1, <1>3, Zenon
<1>5. \A h : Places(request[t], h) \subseteq 1..Len(request[t])  BY <1>2, PlacesFinite
<1>6. ASSUME NEW h
      PROVE  NodesLeft(t, h) = {}
  <2>1. \A i \in Places(request[t], h) : ~(i > Len(request[t]) - Len(nodes[t]))
      BY <1>2, <1>4, <1>5
  <2> QED  BY <2>1 DEF NodesLeft
<1>7. ASSUME NEW a \in Handles, NEW b \in Handles
      PROVE  EdgesLeft(t, a, b) = {} /\ EdgesDue(t, a, b) = {}
  <2>1. ASSUME NEW i \in 1..Len(request[t]), NEW j
        PROVE  ~Ahead(t, i, j)
    <3>1. Len(request[t]) - Len(outer[t]) + 1 = Len(request[t]) + 1  BY <1>2, <1>4
    <3>2. ~(i > Len(request[t]) + 1) /\ i # Len(request[t]) + 1  BY <1>2
    <3> QED  BY <3>1, <3>2 DEF Ahead, NotBefore
  <2>2. PairsAhead(t, a, b) = {}  BY <1>5, <2>1 DEF PairsAhead
  <2>3. ~InHand(t, a, b)  BY <1>3, <1>4 DEF InHand
  <2> QED  BY <2>2, <2>3 DEF EdgesLeft, EdgesDue
<1> QED  BY <1>6, <1>7

\* What a worker that begins a request has before it.
LEMMA StartLeft ==
    ASSUME TypeOK, NEW t \in Updaters, LoopOK(t), NEW list \in Lists, Start(t, list)
    PROVE  /\ \A h : NodesLeft(t, h)' = Places(list, h)
           /\ \A a, b \in Handles :
                 /\ EdgesLeft(t, a, b)' = Places(list, a) \X Places(list, b)
                 /\ EdgesDue(t, a, b)' = {}
           /\ LoopOK(t)'
<1>1. /\ edges[t] = <<>>
      /\ request'[t] = list /\ nodes'[t] = list /\ outer'[t] = list /\ inner'[t] = list
      /\ edges'[t] = <<>> /\ pc'[t] = "next"
    BY DEF Start, LoopOK, Goto, TypeOK, WorkerType
<1>2. list \in Seq(Handles) /\ Len(list) \in Nat
    BY ListAssumption, LenProperties DEF TypeOK, WorkerType
<1>3. Len(<<>>) = 0 /\ 1..0 = {}  OBVIOUS
<1>4. Len(edges'[t]) = 0  BY <1>1, <1>3, Zenon
<1>5. \A a, b : ~InHand(t, a, b)'  BY <1>3, <1>4 DEF InHand
<1>6. \A h : Places(list, h) \subseteq 1..Len(list)  BY <1>2, PlacesFinite
<1>7. ASSUME NEW h
      PROVE  NodesLeft(t, h)' = Places(list, h)
  <2>1. \A i \in Places(list, h) : i > Len(list) - Len(list)
      BY <1>2, <1>6
  <2> QED  BY <1>1, <2>1 DEF NodesLeft
<1>8. ASSUME NEW a \in Handles, NEW b \in Handles
      PROVE  /\ EdgesLeft(t, a, b)' = Places(list, a) \X Places(list, b)
             /\ EdgesDue(t, a, b)' = {}
  <2>1. \A i, j \in 1..Len(list) : Ahead(t, i, j)'
      BY <1>1, <1>2 DEF Ahead, NotBefore
  <2>2. PairsAhead(t, a, b)' = Places(list, a) \X Places(list, b)
      BY <1>1, <1>6, <2>1 DEF PairsAhead
  <2>3. EdgesLeft(t, a, b)' = Places(list, a) \X Places(list, b)
      BY <1>5, <2>2 DEF EdgesLeft
  <2>4. \A p \in EdgesLeft(t, a, b)' : ~(p[1] <= Len(list) - Len(list))
      BY <1>2, <1>6, <2>3
  <2>5. EdgesDue(t, a, b)' = {}  BY <1>1, <2>4 DEF EdgesDue
  <2> QED  BY <2>3, <2>5
<1>9. LoopOK(t)'
    BY <1>1, <1>2, TrivialRests DEF LoopOK, PairOK
<1> QED  BY <1>7, <1>8, <1>9

\* The largest of finitely many numbers when one more is added.
LEMMA MoreRepetitions ==
    ASSUME TypeOK, TypeOK', NEW list \in Lists, received' = Append(received, list),
           NEW b \in Handles, MostRepeated(b)
    PROVE  MostRepeated(b)' /\ Repetitions(b) <= Repetitions(b)'
<1> DEFINE n == Len(received)
           o == Occurrences(list, b)
           r == Repetitions(b)
           T == {Occurrences(received'[k], b) : k \in DOMAIN received'} \cup {0}
           m == IF o > r THEN o ELSE r
<1>1. /\ received \in Seq(Lists) /\ n \in Nat /\ DOMAIN received = 1..n
      /\ DOMAIN received' = 1..(n + 1)
      /\ \A k \in 1..n : received'[k] = received[k]
      /\ received'[n + 1] = list
    BY DEF TypeOK, GraphType
<1>2. o \in Nat  BY ListAssumption, PlacesFinite
<1>3. /\ r \in Nat
      /\ \A k \in 1..n : Occurrences(received'[k], b) <= r
      /\ r = 0 \/ \E k \in 1..n : Occurrences(received'[k], b) = r
    BY <1>1 DEF MostRepeated
<1>4. \A k \in 1..(n + 1) : Occurrences(received'[k], b) \in Nat
  <2>1. \A k \in DOMAIN received' : received'[k] \in Lists
      BY <1>1, ElementOfSeq
  <2> QED  BY <1>1, <2>1, ListAssumption, PlacesFinite
<1>5. Repetitions(b)' = Max(T)  BY DEF Repetitions
<1> HIDE DEF n, o, r
<1>6. n + 1 \in 1..(n + 1) /\ \A k \in 1..n : k \in 1..(n + 1)  BY <1>1 DEF n
<1>7. o \in T /\ r \in T
  <2>1. o \in T  BY <1>1, <1>6 DEF o
  <2>2. r \in T  BY <1>1, <1>3, <1>6
  <2> QED  BY <2>1, <2>2
<1>8. \A y \in T : y \in Nat /\ m >= y
  <2>1. m \in Nat /\ m >= o /\ m >= r  BY <1>2, <1>3
  <2>2. \A k \in 1..(n + 1) : k \in 1..n \/ k = n + 1  BY <1>1 DEF n
  <2> HIDE DEF m
  <2>3. ASSUME NEW k \in 1..n
        PROVE  m >= Occurrences(received'[k], b)
    <3>1. Occurrences(received'[k], b) <= r /\ Occurrences(received'[k], b) \in Nat
        BY <1>3, <1>4, <1>6
    <3>2. \A x, y, z \in Nat : x <= y /\ z >= y => z >= x  OBVIOUS
    <3>3. r \in Nat  BY <1>3
    <3> QED  BY <2>1, <3>1, <3>2, <3>3
  <2>4. m >= Occurrences(received'[n + 1], b)  BY <1>1, <2>1 DEF o
  <2> QED  BY <1>1, <1>4, <2>1, <2>2, <2>3, <2>4
<1>9. m \in T  BY <1>7
<1> HIDE DEF m, T
<1>10. Max(T) \in T /\ \A y \in T : Max(T) >= y
    BY <1>8, <1>9 DEF Max
<1>11. PICK M : M = Max(T)  OBVIOUS
<1>12. M \in T /\ M \in Nat /\ \A y \in T : M >= y  BY <1>8, <1>10, <1>11
<1>13. r <= M  BY <1>3, <1>7, <1>12
<1>14. /\ \A k \in DOMAIN received' : Occurrences(received'[k], b) <= M
       /\ M = 0 \/ \E k \in DOMAIN received' : Occurrences(received'[k], b) = M
    BY <1>1, <1>4, <1>12 DEF T
<1>15. Repetitions(b)' = M  BY <1>5, <1>11
<1>16. MostRepeated(b)'
    BY <1>12, <1>14, <1>15 DEF MostRepeated
<1> QED  BY <1>13, <1>15, <1>16 DEF r

LEMMA StartStep ==
    ASSUME CountInvariant, TypeOK', NEW t \in Updaters, NEW list \in Lists, Start(t, list)
    PROVE  CountInvariant'
<1> DEFINE n == Len(received)
<1>1. TypeOK /\ LoopOK(t) /\ Counts /\ Weights  BY DEF CountInvariant
<1>2. /\ received' = Append(received, list) /\ UNCHANGED <<node_count, edge_count>>
      /\ request' = [request EXCEPT ![t] = list]
    BY DEF Start, graphVars
<1>3. /\ received \in Seq(Lists) /\ n \in Nat /\ DOMAIN received = 1..n
      /\ DOMAIN received' = 1..(n + 1)
      /\ \A k \in 1..n : received'[k] = received[k]
      /\ received'[n + 1] = list
    BY <1>1, <1>2 DEF TypeOK, GraphType
<1>4. \A u \in Updaters \ {t} : SameLoop(u)  BY <1>1, OthersLoop
<1>5. /\ \A h : NodesLeft(t, h) = {} /\ NodesLeft(t, h)' = Places(list, h)
      /\ \A a, b \in Handles :
            /\ EdgesLeft(t, a, b) = {} /\ EdgesDue(t, a, b) = {}
            /\ EdgesLeft(t, a, b)' = Places(list, a) \X Places(list, b)
            /\ EdgesDue(t, a, b)' = {}
      /\ LoopOK(t)'
  <2>1. /\ pc[t] = "idle"
        /\ \A h : NodesLeft(t, h) = {}
        /\ \A a, b \in Handles : EdgesLeft(t, a, b) = {} /\ EdgesDue(t, a, b) = {}
    BY <1>1, IdleLeft DEF Start
  <2>2. /\ LoopOK(t)'
        /\ \A h : NodesLeft(t, h)' = Places(list, h)
        /\ \A a, b \in Handles : /\ EdgesLeft(t, a, b)' = Places(list, a) \X Places(list, b)
                                 /\ EdgesDue(t, a, b)' = {}
    BY <1>1, StartLeft
  <2> QED  BY <2>1, <2>2
<1>6. FamiliesFinite'  BY FamiliesNext
<1>7. Cardinality({}) = 0  BY FS_EmptySet
<1> HIDE DEF n
<1>8. ASSUME NEW h \in Handles
      PROVE  node_count'[h] + RowCount([u \in Updaters |-> NodesLeft(u, h)'])
               = RowCount(NodesInRequests(h))'
  <2> DEFINE Q == [u \in Updaters |-> NodesLeft(u, h)]
             R == [u \in Updaters |-> NodesLeft(u, h)']
             P == NodesInRequests(h)
             N == NodesInRequests(h)'
  <2>1. Q[t] = {} /\ R[t] = Places(list, h)  BY <1>5
  <2>2. node_count[h] + RowCount(Q) = RowCount(P) /\ node_count'[h] = node_count[h]
      BY <1>1, <1>2 DEF Counts
  <2>3. Differ(Q, R, t)  BY <1>1, <1>4, OneWorker
  <2>4. /\ FiniteFamily(N) /\ P = [k \in 1..n |-> N[k]] /\ DOMAIN N = 1..(n + 1)
        /\ N[n + 1] = Places(list, h)
    <3>1. FiniteFamily(N)  BY <1>6 DEF FamiliesFinite
    <3>2. /\ P = [k \in 1..n |-> Places(received[k], h)]
          /\ N = [k \in 1..(n + 1) |-> Places(received'[k], h)]
        BY <1>3 DEF NodesInRequests
    <3>3. n + 1 \in 1..(n + 1) /\ \A k \in 1..n : k \in 1..(n + 1)  BY <1>3
    <3>4. \A k \in 1..n : N[k] = Places(received[k], h)  BY <1>3, <3>2, <3>3
    <3> QED  BY <1>3, <3>1, <3>2, <3>3, <3>4
  <2>5. node_count[h] \in Nat  BY <1>1 DEF TypeOK, GraphType
  <2> HIDE DEF Q, R, P, N
  <2>6. /\ RowCount(Q) \in Nat /\ RowCount(R) \in Nat
        /\ Cardinality(Q[t]) \in Nat /\ Cardinality(R[t]) \in Nat
        /\ RowCount(R) + Cardinality(Q[t]) = RowCount(Q) + Cardinality(R[t])
      BY <2>3, RowsChange
  <2>7. RowCount(P) \in Nat /\ RowCount(N) = RowCount(P) + Cardinality(N[n + 1])
      BY <1>3, <2>4, RowsExtend
  <2>8. node_count'[h] + RowCount(R) = RowCount(N)
      BY <1>7, <2>1, <2>2, <2>4, <2>5, <2>6, <2>7
  <2>9. RowCount(N) = RowCount(NodesInRequests(h))'  BY DEF N, RowCount, Rows
  <2> QED  BY <2>8, <2>9 DEF R
<1>9. ASSUME NEW a \in Handles, NEW b \in Handles, a # b
      PROVE  edge_count'[<<a, b>>] + RowCount([u \in Updaters |-> EdgesLeft(u, a, b)'])
               = RowCount(EdgesInRequests(a, b))'
  <2> DEFINE Q == [u \in Updaters |-> EdgesLeft(u, a, b)]
             R == [u \in Updaters |-> EdgesLeft(u, a, b)']
             P == EdgesInRequests(a, b)
             N == EdgesInRequests(a, b)'
             pairs == Places(list, a) \X Places(list, b)
  <2>1. Q[t] = {} /\ R[t] = pairs  BY <1>5
  <2>2. /\ edge_count[<<a, b>>] + RowCount(Q) = RowCount(P)
        /\ edge_count'[<<a, b>>] = edge_count[<<a, b>>]
      BY <1>1, <1>2, <1>9 DEF Counts
  <2>3. Differ(Q, R, t)  BY <1>1, <1>4, OneWorker
  <2>4. /\ FiniteFamily(N) /\ P = [k \in 1..n |-> N[k]] /\ DOMAIN N = 1..(n + 1)
        /\ N[n + 1] = pairs
    <3>1. FiniteFamily(N)  BY <1>6 DEF FamiliesFinite
    <3>2. /\ P = [k \in 1..n |-> Places(received[k], a) \X Places(received[k], b)]
          /\ N = [k \in 1..(n + 1) |-> Places(received'[k], a) \X Places(received'[k], b)]
        BY <1>3 DEF EdgesInRequests
    <3>3. n + 1 \in 1..(n + 1) /\ \A k \in 1..n : k \in 1..(n + 1)  BY <1>3
    <3>4. \A k \in 1..n : N[k] = Places(received[k], a) \X Places(received[k], b)
        BY <1>3, <3>2, <3>3
    <3> QED  BY <1>3, <3>1, <3>2, <3>3, <3>4
  <2>5. edge_count[<<a, b>>] \in Nat  BY <1>1 DEF TypeOK, GraphType, Edges
  <2> HIDE DEF Q, R, P, N, pairs
  <2>6. /\ RowCount(Q) \in Nat /\ RowCount(R) \in Nat
        /\ Cardinality(Q[t]) \in Nat /\ Cardinality(R[t]) \in Nat
        /\ RowCount(R) + Cardinality(Q[t]) = RowCount(Q) + Cardinality(R[t])
      BY <2>3, RowsChange
  <2>7. RowCount(P) \in Nat /\ RowCount(N) = RowCount(P) + Cardinality(N[n + 1])
      BY <1>3, <2>4, RowsExtend
  <2>8. edge_count'[<<a, b>>] + RowCount(R) = RowCount(N)
      BY <1>7, <2>1, <2>2, <2>4, <2>5, <2>6, <2>7
  <2>9. RowCount(N) = RowCount(EdgesInRequests(a, b))'  BY DEF N, RowCount, Rows
  <2> QED  BY <2>8, <2>9 DEF R
<1>10. Counts'
  <2>1. \A a \in Handles : edge_count'[<<a, a>>] = 0  BY <1>1, <1>2 DEF Counts
  <2> QED  BY <1>8, <1>9, <2>1 DEF Counts
<1>11. \A b \in Handles : MostRepeated(b)' /\ Repetitions(b) <= Repetitions(b)'
    BY <1>1, <1>2, MoreRepetitions DEF Weights
<1>12. ASSUME NEW u \in Updaters
       PROVE  request'[u] = <<>> \/ \E k \in DOMAIN received' : request'[u] = received'[k]
  <2>1. n + 1 \in 1..(n + 1) /\ \A k \in 1..n : k \in 1..(n + 1)  BY <1>3
  <2>2. CASE u = t
    <3>1. request'[u] = list  BY <1>1, <1>2, <2>2 DEF TypeOK, WorkerType
    <3> QED  BY <1>3, <2>1, <3>1
  <2>3. CASE u # t
    <3>1. request'[u] = request[u]  BY <1>1, <1>2, <2>3 DEF TypeOK, WorkerType
    <3>2. request[u] = <<>> \/ \E k \in 1..n : request[u] = received[k]
        BY <1>1, <1>3 DEF Weights
    <3> QED  BY <1>3, <2>1, <3>1, <3>2
  <2> QED  BY <2>2, <2>3
<1>13. ASSUME NEW a \in Handles, NEW b \in Handles, a # b
       PROVE  edge_count'[<<a, b>>] + RowCount([u \in Updaters |-> EdgesDue(u, a, b)'])
                <= node_count'[a] * Repetitions(b)'
  <2> DEFINE Q == [u \in Updaters |-> EdgesDue(u, a, b)]
             R == [u \in Updaters |-> EdgesDue(u, a, b)']
  <2>1. Q[t] = {} /\ R[t] = {}  BY <1>5
  <2>2. edge_count[<<a, b>>] + RowCount(Q) <= node_count[a] * Repetitions(b)
      BY <1>1, <1>13 DEF Weights
  <2>3. Differ(Q, R, t)  BY <1>1, <1>4, OneWorker
  <2>4. edge_count[<<a, b>>] \in Nat /\ node_count[a] \in Nat
      BY <1>1 DEF TypeOK, GraphType, Edges
  <2>5. Repetitions(b) \in Nat /\ Repetitions(b)' \in Nat /\ Repetitions(b) <= Repetitions(b)'
      BY <1>1, <1>11 DEF Weights, MostRepeated
  <2> HIDE DEF Q, R
  <2>6. /\ RowCount(Q) \in Nat /\ RowCount(R) \in Nat
        /\ RowCount(R) + Cardinality(Q[t]) = RowCount(Q) + Cardinality(R[t])
      BY <2>3, RowsChange
  <2>7. RowCount(R) = RowCount(Q)  BY <1>7, <2>1, <2>6
  <2>8. \A m, q, r \in Nat : q <= r => m * q <= m * r /\ m * q \in Nat /\ m * r \in Nat
    <3> SUFFICES ASSUME NEW m \in Nat, NEW q \in Nat, NEW r \in Nat, q <= r
                 PROVE  m * q <= m * r /\ m * q \in Nat /\ m * r \in Nat
        OBVIOUS
    <3>1. PICK d \in Nat : r = q + d
      <4>1. r - q \in Nat /\ r = q + (r - q)  OBVIOUS
      <4> QED  BY <4>1
    <3>2. m * r = m * q + m * d  BY <3>1
    <3>3. m * q \in Nat /\ m * d \in Nat  BY <3>1
    <3> QED  BY <3>2, <3>3
  <2>9. /\ node_count[a] * Repetitions(b) <= node_count[a] * Repetitions(b)'
        /\ node_count[a] * Repetitions(b) \in Nat /\ node_count[a] * Repetitions(b)' \in Nat
      BY <2>4, <2>5, <2>8
  <2>10. edge_count[<<a, b>>] + RowCount(R) <= node_count[a] * Repetitions(b)'
      BY <2>2, <2>4, <2>6, <2>7, <2>9
  <2> QED  BY <1>2, <2>10 DEF R
<1>14. Weights'  BY <1>11, <1>12, <1>13 DEF Weights
<1> QED  BY <1>5, <1>10, <1>14, LoopsKept DEF CountInvariant

-----------------------------------------------------------------------------
(* The invariant holds *)

LEMMA InitCounts == Init => CountInvariant
<1> SUFFICES ASSUME Init
             PROVE  CountInvariant
    OBVIOUS
<1>1. TypeOK  BY InitType
<1>2. \A t \in Updaters : /\ pc[t] = "idle" /\ request[t] = <<>> /\ nodes[t] = <<>>
                          /\ outer[t] = <<>> /\ inner[t] = <<>> /\ edges[t] = <<>>
    BY DEF Init
<1>3. \A t \in Updaters : LoopOK(t)
  <2>1. <<>> \in Seq(Handles)  OBVIOUS
  <2>2. IsRest(<<>>, <<>>)  BY <2>1, TrivialRests
  <2> QED  BY <1>2, <2>2 DEF LoopOK, PairOK
<1>4. DOMAIN received = {}  BY DEF Init
<1>5. ASSUME NEW a \in Handles, NEW b \in Handles
      PROVE  /\ RowCount([t \in Updaters |-> NodesLeft(t, a)]) = 0
             /\ RowCount([t \in Updaters |-> EdgesLeft(t, a, b)]) = 0
             /\ RowCount([t \in Updaters |-> EdgesDue(t, a, b)]) = 0
             /\ RowCount(NodesInRequests(a)) = 0 /\ RowCount(EdgesInRequests(a, b)) = 0
  <2>1. \A t \in Updaters : /\ NodesLeft(t, a) = {}
                            /\ EdgesLeft(t, a, b) = {} /\ EdgesDue(t, a, b) = {}
      BY <1>1, <1>2, <1>3, IdleLeft
  <2>2. DOMAIN NodesInRequests(a) = {} /\ DOMAIN EdgesInRequests(a, b) = {}
      BY <1>4 DEF NodesInRequests, EdgesInRequests
  <2> QED  BY <2>1, <2>2, RowsEmpty
<1>6. /\ \A h \in Handles : node_count[h] = 0
      /\ \A a, b \in Handles : edge_count[<<a, b>>] = 0
    BY DEF Init, Edges
<1>7. Counts
  <2>1. 0 + 0 = 0  OBVIOUS
  <2> QED  BY <1>5, <1>6, <2>1 DEF Counts
<1>8. ASSUME NEW b \in Handles
      PROVE  MostRepeated(b) /\ Repetitions(b) = 0
  <2>1. {Occurrences(received[k], b) : k \in DOMAIN received} \cup {0} = {0}  BY <1>4
  <2>2. Max({0}) = 0  BY DEF Max
  <2>3. Repetitions(b) = 0  BY <2>1, <2>2 DEF Repetitions
  <2> QED  BY <1>4, <2>3 DEF MostRepeated
<1>9. Weights
  <2>1. ASSUME NEW a \in Handles, NEW b \in Handles, a # b
        PROVE  edge_count[<<a, b>>] + RowCount([t \in Updaters |-> EdgesDue(t, a, b)])
                 <= node_count[a] * Repetitions(b)
    <3>1. 0 + 0 <= 0 * 0  OBVIOUS
    <3> QED  BY <1>5, <1>6, <1>8, <3>1
  <2> QED  BY <1>2, <1>8, <2>1 DEF Weights
<1> QED  BY <1>1, <1>3, <1>7, <1>9 DEF CountInvariant

LEMMA NextCounts == CountInvariant /\ [Next]_vars => CountInvariant'
<1> SUFFICES ASSUME CountInvariant, [Next]_vars
             PROVE  CountInvariant'
    OBVIOUS
<1>1. TypeOK'  BY NextType DEF CountInvariant
<1>2. CASE UNCHANGED vars
  <2>1. UNCHANGED <<node_count, edge_count, pc, request, nodes, outer, inner, edges, received>>
      BY <1>2 DEF vars, graphVars, workerVars, loopVars, historyVars
  <2>2. \A t \in Updaters : SameLoop(t) /\ pc'[t] = pc[t]  BY <2>1 DEF SameLoop
  <2>3. \A t \in Updaters : LoopOK(t)'  BY <2>2, SameLeft DEF CountInvariant
  <2>4. /\ \A h : [t \in Updaters |-> NodesLeft(t, h)'] = [t \in Updaters |-> NodesLeft(t, h)]
        /\ \A a, b : [t \in Updaters |-> EdgesLeft(t, a, b)']
                       = [t \in Updaters |-> EdgesLeft(t, a, b)]
        /\ \A a, b : [t \in Updaters |-> EdgesDue(t, a, b)']
                       = [t \in Updaters |-> EdgesDue(t, a, b)]
      BY <2>2, SameLeft
  <2>5. /\ \A h : RowCount(NodesInRequests(h))' = RowCount(NodesInRequests(h))
        /\ \A a, b : RowCount(EdgesInRequests(a, b))' = RowCount(EdgesInRequests(a, b))
        /\ \A h : Repetitions(h)' = Repetitions(h)
      BY <2>1 DEF NodesInRequests, EdgesInRequests, Repetitions, RowCount, Rows
  <2>6. Counts'  BY <2>1, <2>4, <2>5 DEF CountInvariant, Counts
  <2>7. Weights'  BY <2>1, <2>4, <2>5 DEF CountInvariant, Weights, MostRepeated
  <2> QED  BY <1>1, <2>3, <2>6, <2>7 DEF CountInvariant
<1>3. CASE Next
    BY <1>1, <1>3, AddNodeStep, NextPairStep, InsertEdgeStep, QuietStep, StartStep
    DEF Next, Correlation, AddEdge
<1> QED  BY <1>2, <1>3

\* EXACT_COUNT for any number of workers and any requests: no interleaving of add_node and
\* add_symmetric_edge loses or repeats a count (HebbianNetworkUpdater.cc:37-55,
\* HebbianNetwork.cc:32-58).
THEOREM CountsAreExact == Spec => []ExactCounts
<1>1. CountInvariant => ExactCounts
  <2> SUFFICES ASSUME CountInvariant, Quiescent
               PROVE  /\ \A h \in Handles : node_count[h] = ExpectedNodeCount(h)
                      /\ \A a, b \in Handles : edge_count[<<a, b>>] = ExpectedEdgeCount(a, b)
      BY DEF ExactCounts
  <2>1. TypeOK /\ Counts /\ \A t \in Updaters : LoopOK(t) /\ pc[t] = "idle"
      BY DEF CountInvariant, Quiescent
  <2>2. \A t \in Updaters : /\ \A h : NodesLeft(t, h) = {}
                            /\ \A a, b \in Handles : EdgesLeft(t, a, b) = {}
      BY <2>1, IdleLeft
  <2>3. ASSUME NEW h \in Handles
        PROVE  node_count[h] = ExpectedNodeCount(h)
    <3>1. RowCount([t \in Updaters |-> NodesLeft(t, h)]) = 0  BY <2>2, RowsEmpty
    <3>2. RowCount(NodesInRequests(h)) = ExpectedNodeCount(h)
      <4>1. Rows(NodesInRequests(h))
              = UNION {{k} \X Places(received[k], h) : k \in DOMAIN received}
          BY DEF Rows, NodesInRequests
      <4> QED  BY <4>1 DEF RowCount, ExpectedNodeCount
    <3>3. node_count[h] \in Nat  BY <2>1 DEF TypeOK, GraphType
    <3> QED  BY <2>1, <3>1, <3>2, <3>3 DEF Counts
  <2>4. ASSUME NEW a \in Handles, NEW b \in Handles
        PROVE  edge_count[<<a, b>>] = ExpectedEdgeCount(a, b)
    <3>1. CASE a = b
      BY <2>1, <3>1 DEF Counts, ExpectedEdgeCount
    <3>2. CASE a # b
      <4>1. RowCount([t \in Updaters |-> EdgesLeft(t, a, b)]) = 0  BY <2>2, RowsEmpty
      <4>2. RowCount(EdgesInRequests(a, b)) = ExpectedEdgeCount(a, b)
        <5>1. Rows(EdgesInRequests(a, b))
                = UNION {{k} \X (Places(received[k], a) \X Places(received[k], b)) :
                            k \in DOMAIN received}
            BY DEF Rows, EdgesInRequests
        <5> QED  BY <3>2, <5>1 DEF RowCount, ExpectedEdgeCount
      <4>3. edge_count[<<a, b>>] \in Nat  BY <2>1 DEF TypeOK, GraphType, Edges
      <4> QED  BY <2>1, <3>2, <4>1, <4>2, <4>3 DEF Counts
    <3> QED  BY <3>1, <3>2
  <2> QED  BY <2>3, <2>4
<1> QED  BY <1>1, InitCounts, NextCounts, PTL DEF Spec

\* HebbianNetwork.h:19-23 in every state: a node is counted before its edges are, so the
\* weight of an edge is at most the number of times that a request repeats its target.
THEOREM WeightsAreBounded == Spec => []WeightBounded
<1>1. CountInvariant => WeightBounded
  <2> SUFFICES ASSUME CountInvariant, NEW a \in Handles, NEW b \in Handles
               PROVE  edge_count[<<a, b>>] <= node_count[a] * Repetitions(b)
      BY DEF WeightBounded
  <2>1. TypeOK /\ Counts /\ Weights  BY DEF CountInvariant
  <2>2. /\ edge_count[<<a, b>>] \in Nat /\ node_count[a] \in Nat
        /\ Repetitions(b) \in Nat
      BY <2>1 DEF TypeOK, GraphType, Edges, Weights, MostRepeated
  <2>3. node_count[a] * Repetitions(b) \in Nat  BY <2>2
  <2>4. CASE a = b
    <3>1. edge_count[<<a, b>>] = 0  BY <2>1, <2>4 DEF Counts
    <3> QED  BY <2>3, <3>1
  <2>5. CASE a # b
    <3>1. edge_count[<<a, b>>] + RowCount([t \in Updaters |-> EdgesDue(t, a, b)])
            <= node_count[a] * Repetitions(b)
        BY <2>1, <2>5 DEF Weights
    <3>2. RowCount([t \in Updaters |-> EdgesDue(t, a, b)]) \in Nat
        BY <2>1, LeftFamilies, RowsFinite
    <3> QED  BY <2>2, <2>3, <3>1, <3>2
  <2> QED  BY <2>4, <2>5
<1> QED  BY <1>1, InitCounts, NextCounts, PTL DEF Spec
=============================================================================
