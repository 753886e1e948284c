--------------------------- MODULE MCCacheNetwork ---------------------------
(***************************************************************************)
(* An instance of CacheNetwork for TLC: three clients, which join in a      *)
(* fixed order.  The server, where joins meet, has two inbox threads; a     *)
(* client, which has one peer and adds none, has one.                       *)
(***************************************************************************)
EXTENDS CacheNetwork

CONSTANTS ClientA, ClientB, ClientC, First, Second

MCNodes == {Server, ClientA, ClientB, ClientC}

MCIds == MCNodes \cup Calls

TwoAtTheServer ==
    [n \in Nodes |-> IF n = Server THEN {First, Second} ELSE {First}]

\* The third client knows none of the commands.
AllButTheThird == [n \in Nodes |-> IF n = ClientC THEN {} ELSE Calls]

\* The first two clients are interchangeable as long as they have not joined, and
\* so are the threads of a node as long as they are idle: the steps that take
\* the second one first are left out.  Bounds: the third client joins last and when
\* all is quiet, and a send to an unknown peer is one to the third client.
InOrder ==
    /\ \A id \in Calls : Cardinality(recipients'[id]) = 1
                            => recipients'[id] \subseteq audience'[id] \cup {ClientC}
    /\ origin'[ClientB] = NULL \/ origin'[ClientA] # NULL
    /\ origin'[ClientC] = NULL \/ origin'[ClientB] # NULL
    /\ origin'[ClientC] = origin[ClientC] \/ Quiet
    /\ thread[Server][First].pc = "idle" /\ thread[Server][Second].pc = "idle"
        => thread'[Server][Second].pc \in {"idle", "off"}
=============================================================================
