---------------------- MODULE MCAttentionBrokerServer ----------------------
(***************************************************************************)
(* An instance of AttentionBrokerServer for TLC with two calls: once each    *)
(* for two contexts, and again and again for one context and the shutdown.  *)
(***************************************************************************)
EXTENDS AttentionBrokerServer

CONSTANTS First, Second

MCRequests == {First, Second}

\* The calls are interchangeable until they arrive: the steps in which the second
\* one arrives first are left out.
InOrder == rpc[Second] = "none" /\ rpc'[Second] # "none" => rpc[First] # "none"

\* The type of a call says which worker serves it, its context which network it
\* uses: the first call is always a stimulus, and the second one, of another
\* context, a correlation.
TypesMatterOnce ==
    /\ type'[First] # "CORRELATION"
    /\ NULL \notin {context'[First], context'[Second]}
       /\ context'[First] # context'[Second] => type'[Second] = "CORRELATION"

\* Every call finds the network of the default context.
OneNetwork ==
    /\ ~service_first
    /\ {context[r] : r \in Requests} \subseteq {GLOBAL_CONTEXT, NULL}
    /\ \A c \in Contexts \ {GLOBAL_CONTEXT} : hebbian_network[c] = Absent

\* Otherwise each call comes once, no signal does, and the second worker for stimuli
\* does not move: nothing that select_hebbian_network uses depends on them.
EachCallOnce ==
    /\ TypesMatterOnce
    /\ \A r \in Requests : rpc[r] # "none" => rpc'[r] # "none"
    /\ phase' = "serving"
    /\ pc[2] = "next" /\ pc'[2] = "next"

Bounds == InOrder /\ (OneNetwork' \/ EachCallOnce)
=============================================================================
