------------------------- MODULE AbstractHandleTrie -------------------------
(***************************************************************************)
(* What HandleTrie promises its callers (HandleTrie.h:15-21, 59-76): a map  *)
(* from keys to values on which insert and lookup take effect at one moment *)
(* between their call and their return, or throw.  A value is the number    *)
(* of insertions that were merged into it.                                  *)
(***************************************************************************)
EXTENDS Naturals

CONSTANTS Keys, Threads, NULL, ERROR

VARIABLES
    map,       \* how often each key was inserted; 0 if it is not present
    calling,   \* the operation each thread has called: none, insert, lookup
    key,       \* and its argument
    answer     \* the entry the last operation of each thread answered, NULL if
               \* there is none, ERROR if it threw

vars == <<map, calling, key, answer>>

Init ==
    /\ map = [k \in Keys |-> 0]
    /\ calling = [t \in Threads |-> "none"]
    /\ key = [t \in Threads |-> NULL]
    /\ answer = [t \in Threads |-> NULL]

Call(t, operation, k) ==
    /\ calling[t] = "none"
    /\ calling' = [calling EXCEPT ![t] = operation]
    /\ key' = [key EXCEPT ![t] = k]
    /\ UNCHANGED <<map, answer>>

Refuse(t) ==
    /\ calling[t] = "none"
    /\ answer' = [answer EXCEPT ![t] = ERROR]
    /\ UNCHANGED <<map, calling, key>>

Insert(t) ==
    /\ calling[t] = "insert"
    /\ map' = [map EXCEPT ![key[t]] = @ + 1]
    /\ answer' = [answer EXCEPT ![t] = key[t]]
    /\ calling' = [calling EXCEPT ![t] = "none"]
    /\ UNCHANGED key

Lookup(t) ==
    /\ calling[t] = "lookup"
    /\ answer' = [answer EXCEPT ![t] = IF map[key[t]] > 0 THEN key[t] ELSE NULL]
    /\ calling' = [calling EXCEPT ![t] = "none"]
    /\ UNCHANGED <<map, key>>

Next ==
    \E t \in Threads :
        \/ \E k \in Keys : Call(t, "insert", k) \/ Call(t, "lookup", k)
        \/ Refuse(t)
        \/ Insert(t)
        \/ Lookup(t)

Spec == Init /\ [][Next]_vars
=============================================================================
