--------------------------- MODULE MCPeerNetwork ---------------------------
(***************************************************************************)
(* An instance of AtomSpaceNetwork for TLC: three nodes in a line, A, B, C, *)
(* each of which knows its neighbours.  The users of A and of C may add the *)
(* other end, and C adds every node that joins, so that the peers may form  *)
(* a circle.  Everybody votes for A.                                        *)
(***************************************************************************)
EXTENDS AtomSpaceNetwork

CONSTANTS A, B, C, Inbox

MCNodes == {A, B, C}

MCIds == MCNodes \cup Calls

OneThread == [n \in Nodes |-> {Inbox}]

Line == [n \in Nodes |-> IF n = B THEN {A, C} ELSE {B}]

Ends == {<<A, C>>, <<C, A>>}

VoteForA == [n \in Nodes |-> A]

KnownToAll == [n \in Nodes |-> Calls]
=============================================================================
