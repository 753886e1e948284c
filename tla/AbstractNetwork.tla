--------------------------- MODULE AbstractNetwork ---------------------------
(***************************************************************************)
(* What the brokers give to the nodes of a network, without queues, threads *)
(* and calls: a message is executed by the nodes it is addressed to, by     *)
(* none of them more often than there are ways to reach it, and never by    *)
(* the node it comes from.  Nothing is said about when.  MessageBroker.h    *)
(* promises that no node receives a message again, whatever the number of   *)
(* ways; the inbox threads do not keep that (NeverResent).                  *)
(***************************************************************************)
EXTENDS Naturals

CONSTANTS
    Nodes, Ids, NULL,
    Ways        \* how often a node may execute a message of another one

VARIABLES
    origin,      \* the node each message comes from, or NULL
    recipients,  \* the nodes each message is addressed to
    handled      \* how often each node executed each message

networkVars == <<origin, recipients, handled>>

Init ==
    /\ origin = [id \in Ids |-> NULL]
    /\ recipients = [id \in Ids |-> {}]
    /\ handled = [n \in Nodes |-> [id \in Ids |-> 0]]

Issue(n, id, addressees) ==
    /\ origin[id] = NULL
    /\ origin' = [origin EXCEPT ![id] = n]
    /\ recipients' = [recipients EXCEPT ![id] = addressees]
    /\ UNCHANGED handled

\* A broadcast is addressed to everybody else.
Broadcast(n, id) == Issue(n, id, Nodes \ {n})

Send(n, id, recipient) == n # recipient /\ Issue(n, id, {recipient})

\* An inbox thread of p takes a copy that did not come through p before; only the
\* ways bound how many copies come.
Execute(p, id) ==
    /\ p \in recipients[id]
    /\ handled[p][id] < Ways[origin[id]][p]
    /\ handled' = [handled EXCEPT ![p][id] = @ + 1]
    /\ UNCHANGED <<origin, recipients>>

Next ==
    \E n \in Nodes, id \in Ids :
        \/ Broadcast(n, id)
        \/ \E recipient \in Nodes : Send(n, id, recipient)
        \/ Execute(n, id)

Spec == Init /\ [][Next]_networkVars
=============================================================================
