----------------------------- MODULE HandleTrie -----------------------------
(***************************************************************************)
(* The prefix tree that holds the nodes of a Hebbian network and the        *)
(* neighbors of each node (HandleTrie.cc), used by many threads at once.    *)
(* Every trie node has a mutex.  insert couples locks: it holds the node it *)
(* is at and that node's parent.  lookup and traverse hold one node at a    *)
(* time (traverse may hold the root besides).                               *)
(*                                                                          *)
(* A node is named by the letters that lead to it when it is created: an    *)
(* internal node by a prefix, for ever, and a leaf, which may move down     *)
(* when it is split off, by its whole key, which is its suffix.  Letters    *)
(* are the numbers that TLB gives to the digits of a handle.                *)
(*                                                                          *)
(* A step ends where the code unlocks or waits for a mutex: what is done    *)
(* while the mutexes of all nodes concerned are held is one step.           *)
(***************************************************************************)
EXTENDS Integers, Sequences, FiniteSets

CONSTANTS
    TRIE_ALPHABET_SIZE,
    key_size,
    CallKeys,     \* the keys that callers use
    Threads,      \* the threads that use the trie
    MaxCalls,     \* bound of the model: operations in total
    NULL,         \* no node, no value; also "nobody" for a mutex
    ERROR         \* what a caller gets instead of a value: an exception

ASSUME SizeAssumption == TRIE_ALPHABET_SIZE \in Nat \ {0} /\ key_size \in Nat \ {0}

Letters == 0..(TRIE_ALPHABET_SIZE - 1)
Keys == [1..key_size -> Letters]
Nodes == UNION {[1..n -> Letters] : n \in 0..key_size}
root == <<>>

ASSUME KeyAssumption == CallKeys \subseteq Keys
ASSUME NullAssumption == NULL \notin Nodes \cup Threads
ASSUME ErrorAssumption == ERROR \notin Keys \cup {NULL}
ASSUME BoundAssumption == MaxCalls \in Nat

VARIABLES
    children,          \* TrieNode::children
    suffix_start,      \* TrieNode::suffix_start, 0 in internal nodes
    value,             \* the count in TrieNode::value; 0 stands for NULL
    trie_node_mutex,   \* the thread that holds each node, or NULL
    pc,                \* where each thread is
    key,               \* the parameter of its last insert or lookup
    key_cursor,
    tree_cursor, parent,
    answer,            \* the leaf whose value insert or lookup returned, NULL or
                       \* ERROR
    keep_root_locked,
    node_stack,
    visited,           \* history: the leaves its traversal visited, in order
    owed,              \* history: the keys in the trie when it began; {} when
                       \* the visit function asked it to stop
    calls              \* history: the operations that were called

trieVars == <<children, suffix_start, value>>
cursorVars == <<key_cursor, tree_cursor, parent>>
visitVars == <<keep_root_locked, node_stack, visited, owed>>
vars == <<trieVars, trie_node_mutex, pc, key, cursorVars, answer, visitVars, calls>>
-----------------------------------------------------------------------------
(* Helpers *)

IsLeaf(n) == suffix_start[n] > 0

\* key[key_cursor] and key[key_cursor - 1]
Letter(t) == key[t][key_cursor[t] + 1]
LastLetter(t) == key[t][key_cursor[t]]

Child(t) == children[tree_cursor[t]][Letter(t)]

NoChildren == [c \in Letters |-> NULL]

\* The node at the thread's place in the trie: a new internal node's name.
Here(t) == SubSeq(key[t], 1, key_cursor[t])

\* The comparison of a key with the suffix of a leaf starts at key_cursor.
Matches(t, leaf) ==
    \A i \in (key_cursor[t] + 1)..key_size : key[t][i] = leaf[i]

Free(n) == trie_node_mutex[n] = NULL

\* The mutexes after a thread has unlocked the nodes of S.
Unlocked(S) == [n \in Nodes |-> IF n \in S THEN NULL ELSE trie_node_mutex[n]]

Goto(t, label) == pc' = [pc EXCEPT ![t] = label]

Returns(t, result) ==
    /\ answer' = [answer EXCEPT ![t] = result]
    /\ Goto(t, "idle")
-----------------------------------------------------------------------------
(* insert *)

Present == {k \in Keys : value[k] > 0}

\* A caller begins an operation with a key of the right length.
Call(t, label, k) ==
    /\ pc[t] = "idle"
    /\ calls < MaxCalls
    /\ calls' = calls + 1
    /\ Goto(t, label)
    /\ key' = [key EXCEPT ![t] = k]
    /\ key_cursor' = [key_cursor EXCEPT ![t] = 0]
    /\ tree_cursor' = [tree_cursor EXCEPT ![t] = root]
    /\ parent' = [parent EXCEPT ![t] = root]
    /\ UNCHANGED <<trieVars, trie_node_mutex, answer, visitVars>>

\* insert or lookup is called with a key that is not key_size letters long: it
\* throws before it locks anything.
Refuse(t) ==
    /\ pc[t] = "idle"
    /\ calls < MaxCalls
    /\ calls' = calls + 1
    /\ answer' = [answer EXCEPT ![t] = ERROR]
    /\ UNCHANGED <<trieVars, trie_node_mutex, pc, key, cursorVars, visitVars>>

LockRoot(t) ==
    /\ pc[t] = "insert"
    /\ Free(root)
    /\ trie_node_mutex' = [trie_node_mutex EXCEPT ![root] = t]
    /\ Goto(t, "at_node")
    /\ UNCHANGED <<trieVars, key, cursorVars, answer, visitVars, calls>>

\* An internal node without a child for the letter: the new leaf is its child.
AddLeaf(t) ==
    /\ pc[t] = "at_node"
    /\ Child(t) = NULL
    /\ ~IsLeaf(tree_cursor[t])
    /\ children' = [children EXCEPT ![tree_cursor[t]][Letter(t)] = key[t]]
    /\ suffix_start' = [suffix_start EXCEPT ![key[t]] = key_cursor[t] + 1]
    /\ value' = [value EXCEPT ![key[t]] = 1]
    /\ trie_node_mutex' = Unlocked({parent[t], tree_cursor[t]})
    /\ Returns(t, key[t])
    /\ UNCHANGED <<key, cursorVars, visitVars, calls>>

\* A leaf whose key goes on with the same letter: an internal node is put
\* between it and its parent.
PushLeafDown(t) ==
    /\ pc[t] = "at_node"
    /\ Child(t) = NULL
    /\ IsLeaf(tree_cursor[t])
    /\ Letter(t) = tree_cursor[t][key_cursor[t] + 1]
    /\ LET child == Here(t)
       IN /\ children' = [children EXCEPT
                ![child] = [NoChildren EXCEPT ![Letter(t)] = tree_cursor[t]],
                ![parent[t]][LastLetter(t)] = child]
          /\ trie_node_mutex' = [Unlocked({parent[t]}) EXCEPT ![child] = t]
          /\ parent' = [parent EXCEPT ![t] = child]
    /\ suffix_start' = [suffix_start EXCEPT ![tree_cursor[t]] = @ + 1]
    /\ key_cursor' = [key_cursor EXCEPT ![t] = @ + 1]
    /\ UNCHANGED <<value, pc, key, tree_cursor, answer, visitVars, calls>>

\* Slip: the leaf that moves down keeps its suffix_start.
LeafDepthAfterSplit_Kept(t) == suffix_start[tree_cursor[t]]

LeafDepthAfterSplit(t) == suffix_start[tree_cursor[t]] + 1

\* A leaf whose key goes on with another letter: an internal node with both
\* leaves takes its place.
SplitLeaf(t) ==
    /\ pc[t] = "at_node"
    /\ Child(t) = NULL
    /\ IsLeaf(tree_cursor[t])
    /\ Letter(t) # tree_cursor[t][key_cursor[t] + 1]
    /\ LET split == Here(t)
           c_tree_cursor == tree_cursor[t][suffix_start[tree_cursor[t]] + 1]
       IN children' = [children EXCEPT
            ![split] = [NoChildren EXCEPT ![Letter(t)] = key[t],
                                          ![c_tree_cursor] = tree_cursor[t]],
            ![parent[t]][LastLetter(t)] = split]
    /\ suffix_start' = [suffix_start EXCEPT
            ![key[t]] = key_cursor[t] + 1,
            ![tree_cursor[t]] = LeafDepthAfterSplit(t)]
    /\ value' = [value EXCEPT ![key[t]] = 1]
    /\ trie_node_mutex' = Unlocked({parent[t], tree_cursor[t]})
    /\ Returns(t, key[t])
    /\ UNCHANGED <<key, cursorVars, visitVars, calls>>

\* Slip: the node is unlocked before its child is locked.
Released_NotCoupled(t) == {parent[t], tree_cursor[t]}

\* The nodes insert unlocks before it waits for the child.
Released(t) == IF tree_cursor[t] = parent[t] THEN {} ELSE {parent[t]}

\* The child becomes the tree_cursor; its mutex is not held yet.
Descend(t) ==
    /\ pc[t] = "at_node"
    /\ Child(t) # NULL
    /\ trie_node_mutex' = Unlocked(Released(t))
    /\ parent' = [parent EXCEPT ![t] = tree_cursor[t]]
    /\ tree_cursor' = [tree_cursor EXCEPT ![t] = Child(t)]
    /\ Goto(t, "at_child")
    /\ UNCHANGED <<trieVars, key, key_cursor, answer, visitVars, calls>>

\* The child is locked and is not the key's leaf.
LockChild(t) ==
    /\ pc[t] = "at_child"
    /\ Free(tree_cursor[t])
    /\ ~(IsLeaf(tree_cursor[t]) /\ Matches(t, tree_cursor[t]))
    /\ trie_node_mutex' = [trie_node_mutex EXCEPT ![tree_cursor[t]] = t]
    /\ key_cursor' = [key_cursor EXCEPT ![t] = @ + 1]
    /\ Goto(t, "at_node")
    /\ UNCHANGED <<trieVars, key, tree_cursor, parent, answer, visitVars, calls>>

\* The child is locked and is the key's leaf: the values are merged.
Merge(t) ==
    /\ pc[t] = "at_child"
    /\ Free(tree_cursor[t])
    /\ IsLeaf(tree_cursor[t]) /\ Matches(t, tree_cursor[t])
    /\ value' = [value EXCEPT ![tree_cursor[t]] = @ + 1]
    /\ trie_node_mutex' = Unlocked({parent[t], tree_cursor[t]})
    /\ Returns(t, tree_cursor[t])
    /\ UNCHANGED <<children, suffix_start, key, cursorVars, visitVars, calls>>

Insert(t) ==
    \/ LockRoot(t)
    \/ AddLeaf(t)
    \/ PushLeafDown(t)
    \/ SplitLeaf(t)
    \/ Descend(t)
    \/ LockChild(t)
    \/ Merge(t)
-----------------------------------------------------------------------------
(* lookup: each step locks a node, reads it and unlocks it *)

LookupLeaf(t) ==
    /\ pc[t] = "lookup"
    /\ Free(tree_cursor[t])
    /\ IsLeaf(tree_cursor[t])
    /\ Returns(t, IF Matches(t, tree_cursor[t]) THEN tree_cursor[t] ELSE NULL)
    /\ UNCHANGED <<trieVars, trie_node_mutex, key, cursorVars, visitVars, calls>>

LookupChild(t) ==
    /\ pc[t] = "lookup"
    /\ Free(tree_cursor[t])
    /\ ~IsLeaf(tree_cursor[t])
    /\ Child(t) # NULL
    /\ tree_cursor' = [tree_cursor EXCEPT ![t] = Child(t)]
    /\ key_cursor' = [key_cursor EXCEPT ![t] = @ + 1]
    /\ UNCHANGED <<trieVars, trie_node_mutex, pc, key, parent, answer, visitVars, calls>>

LookupMissing(t) ==
    /\ pc[t] = "lookup"
    /\ Free(tree_cursor[t])
    /\ ~IsLeaf(tree_cursor[t])
    /\ Child(t) = NULL
    /\ Returns(t, NULL)
    /\ UNCHANGED <<trieVars, trie_node_mutex, key, cursorVars, visitVars, calls>>

Lookup(t) == LookupLeaf(t) \/ LookupChild(t) \/ LookupMissing(t)
-----------------------------------------------------------------------------
(* traverse *)

StartTraversal(t, keep) ==
    /\ pc[t] = "idle"
    /\ calls < MaxCalls
    /\ calls' = calls + 1
    /\ Goto(t, "traverse")
    /\ keep_root_locked' = [keep_root_locked EXCEPT ![t] = keep]
    /\ node_stack' = [node_stack EXCEPT ![t] = <<root>>]
    /\ visited' = [visited EXCEPT ![t] = <<>>]
    /\ owed' = [owed EXCEPT ![t] = Present]
    /\ UNCHANGED <<trieVars, trie_node_mutex, key, cursorVars, answer>>

\* Slip: the loop over the children ends before it reaches the first one.
Occupied_NotFirst(n) == {c \in Letters \ {0} : children[n][c] # NULL}

\* The letters for which a node has a child.
Occupied(n) == {c \in Letters : children[n][c] # NULL}

\* The i-th smallest number of a set.
Ith(S, i) == CHOOSE c \in S : Cardinality({d \in S : d <= c}) = i

\* The children of a node, pushed from the last to the first.
Pushed(n) == [i \in 1..Cardinality(Occupied(n)) |-> children[n][Ith(Occupied(n), i)]]

\* A leaf is locked, visited and unlocked: visit_function returns false.
VisitLeaf(t) ==
    /\ pc[t] = "traverse"
    /\ node_stack[t] # <<>>
    /\ LET cursor == Head(node_stack[t])
       IN /\ Free(cursor)
          /\ IsLeaf(cursor)
          /\ visited' = [visited EXCEPT ![t] = Append(@, cursor)]
    /\ node_stack' = [node_stack EXCEPT ![t] = Tail(@)]
    /\ UNCHANGED <<trieVars, trie_node_mutex, pc, key, cursorVars, answer,
                   keep_root_locked, owed, calls>>

\* An internal node is locked and its children are read; the root may stay locked.
PushChildren(t) ==
    /\ pc[t] = "traverse"
    /\ node_stack[t] # <<>>
    /\ LET cursor == Head(node_stack[t])
       IN /\ Free(cursor)
          /\ ~IsLeaf(cursor)
          /\ node_stack' = [node_stack EXCEPT ![t] = Pushed(cursor) \o Tail(@)]
          /\ trie_node_mutex' =
                IF keep_root_locked[t] /\ cursor = root
                THEN [trie_node_mutex EXCEPT ![root] = t]
                ELSE trie_node_mutex
    /\ UNCHANGED <<trieVars, pc, key, cursorVars, answer, keep_root_locked, visited,
                   owed, calls>>

\* Slip: the root stays locked when the traversal is over.
RootAfterTraversal_Kept(t) == trie_node_mutex

RootAfterTraversal(t) ==
    IF keep_root_locked[t] THEN Unlocked({root}) ELSE trie_node_mutex

\* visit_function returns true for a leaf.
StopTraversal(t) ==
    /\ pc[t] = "traverse"
    /\ node_stack[t] # <<>>
    /\ Free(Head(node_stack[t]))
    /\ IsLeaf(Head(node_stack[t]))
    /\ visited' = [visited EXCEPT ![t] = Append(@, Head(node_stack[t]))]
    /\ owed' = [owed EXCEPT ![t] = {}]
    /\ trie_node_mutex' = RootAfterTraversal(t)
    /\ Goto(t, "idle")
    /\ UNCHANGED <<trieVars, key, cursorVars, answer, keep_root_locked, node_stack, calls>>

EndTraversal(t) ==
    /\ pc[t] = "traverse"
    /\ node_stack[t] = <<>>
    /\ trie_node_mutex' = RootAfterTraversal(t)
    /\ Goto(t, "idle")
    /\ UNCHANGED <<trieVars, key, cursorVars, answer, visitVars, calls>>

Traverse(t) ==
    \/ VisitLeaf(t)
    \/ PushChildren(t)
    \/ StopTraversal(t)
    \/ EndTraversal(t)
-----------------------------------------------------------------------------
Init ==
    /\ children = [n \in Nodes |-> NoChildren]
    /\ suffix_start = [n \in Nodes |-> 0]
    /\ value = [n \in Nodes |-> 0]
    /\ trie_node_mutex = [n \in Nodes |-> NULL]
    /\ pc = [t \in Threads |-> "idle"]
    /\ key = [t \in Threads |-> NULL]
    /\ key_cursor = [t \in Threads |-> 0]
    /\ tree_cursor = [t \in Threads |-> root]
    /\ parent = [t \in Threads |-> root]
    /\ answer = [t \in Threads |-> NULL]
    /\ keep_root_locked = [t \in Threads |-> FALSE]
    /\ node_stack = [t \in Threads |-> <<>>]
    /\ visited = [t \in Threads |-> <<>>]
    /\ owed = [t \in Threads |-> {}]
    /\ calls = 0

Start(t) ==
    \/ \E k \in CallKeys : Call(t, "insert", k) \/ Call(t, "lookup", k)
    \/ Refuse(t)
    \/ \E keep \in BOOLEAN : StartTraversal(t, keep)

Step(t) == Insert(t) \/ Lookup(t) \/ Traverse(t)

Next == \E t \in Threads : Start(t) \/ Step(t)

Spec == Init /\ [][Next]_vars

\* The operating system schedules every thread that can go on.
FairSpec == Spec /\ \A t \in Threads : WF_vars(Step(t))
-----------------------------------------------------------------------------
(* Properties *)

\* The nodes a thread has locked when it is between two steps.
Held(t) ==
    CASE pc[t] = "at_node" -> {parent[t], tree_cursor[t]}
      [] pc[t] = "at_child" -> {parent[t]}
      [] pc[t] = "traverse" /\ keep_root_locked[t] /\ node_stack[t] # <<root>> -> {root}
      [] OTHER -> {}

\* Besides the types: every mutex is held exactly where the code holds it, so
\* that nothing stays locked when an operation has returned.
TypeOK ==
    /\ children \in [Nodes -> [Letters -> Nodes \cup {NULL}]]
    /\ suffix_start \in [Nodes -> 0..key_size]
    /\ value \in [Nodes -> Nat]
    /\ trie_node_mutex \in [Nodes -> Threads \cup {NULL}]
    /\ pc \in [Threads -> {"idle", "insert", "at_node", "at_child", "lookup", "traverse"}]
    /\ key \in [Threads -> Keys \cup {NULL}]
    /\ key_cursor \in [Threads -> 0..key_size]
    /\ tree_cursor \in [Threads -> Nodes]
    /\ parent \in [Threads -> Nodes]
    /\ answer \in [Threads -> Keys \cup {NULL, ERROR}]
    /\ keep_root_locked \in [Threads -> BOOLEAN]
    /\ calls \in 0..MaxCalls
    /\ \A n \in Nodes, t \in Threads : trie_node_mutex[n] = t <=> n \in Held(t)

Prefix(k, n) == SubSeq(k, 1, n)

\* However insertions split leaves under each other's feet, every key that was
\* inserted is where its letters lead to, at the depth its suffix_start says:
\* all pointers on the way are there (HandleTrie.cc:94-134).
PathsIntact ==
    \A k \in Present :
        /\ IsLeaf(k)
        /\ \A i \in 1..(suffix_start[k] - 1) : children[Prefix(k, i - 1)][k[i]] = Prefix(k, i)
        /\ children[Prefix(k, suffix_start[k] - 1)][k[suffix_start[k]]] = k

\* The order of the keys.
Precedes(k, m) ==
    \E i \in 1..key_size : k[i] < m[i] /\ \A j \in 1..(i - 1) : k[j] = m[j]

\* HandleTrie.h:79: a traversal visits the leaves in order, none of them twice,
\* and unless it is asked to stop it misses none that was there when it began,
\* although the leaves it has on its stack move down meanwhile.
TraversesInOrder ==
    \A t \in Threads :
        /\ \A i \in 1..(Len(visited[t]) - 1) : Precedes(visited[t][i], visited[t][i + 1])
        /\ pc[t] # "traverse" => owed[t] \subseteq {visited[t][i] : i \in 1..Len(visited[t])}

\* A lookup has found its answer when it has read the pointer to a leaf, even
\* before it locks that leaf: a leaf never becomes an internal node.
AtLeaf(t) == pc[t] = "lookup" /\ IsLeaf(tree_cursor[t])

Map == INSTANCE AbstractHandleTrie WITH
    map <- [k \in Keys |-> value[k]],
    calling <- [t \in Threads |->
        CASE pc[t] \in {"insert", "at_node", "at_child"} -> "insert"
          [] pc[t] = "lookup" /\ ~AtLeaf(t) -> "lookup"
          [] OTHER -> "none"],
    answer <- [t \in Threads |->
        IF AtLeaf(t)
        THEN IF tree_cursor[t] = key[t] THEN key[t] ELSE NULL
        ELSE answer[t]]

\* The trie is a map with atomic operations: a lookup that releases a node
\* before it locks the child it read there finds every key whose insertion has
\* returned, and no key that nobody has begun to insert; no insertion or merge
\* is lost; a key of the wrong length changes nothing (HandleTrie.cc:80-205).
ImplementsMap == Map!Spec

\* Every operation returns: lock coupling, lookups, and visits that keep the
\* root locked never wait for each other in a circle.
OperationsReturn == \A t \in Threads : pc[t] # "idle" ~> pc[t] = "idle"
=============================================================================
