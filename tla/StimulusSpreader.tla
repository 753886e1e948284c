-------------------------- MODULE StimulusSpreader --------------------------
(***************************************************************************)
(* TokenSpreader::spread_stimuli (StimulusSpreader.cc), run by the stimulus *)
(* workers on a network that the correlation workers of HebbianNetwork      *)
(* update at the same time.                                                 *)
(*                                                                          *)
(* A request collects a rent from every node, pays it and the tokens nobody *)
(* owns yet as wages to the handles of the request, and then lets every     *)
(* node spread a part of its importance among its neighbors.  Each of the   *)
(* three visits of the network holds the lock of the trie's root, which     *)
(* excludes other visits, add_node and lookup_node; between the visits, and *)
(* against add_asymmetric_edge, nothing is excluded.  (An add_node that has *)
(* left the root when a visit begins is taken to end before it, or after it *)
(* if the visit misses the node: its worker needs the root for whatever it  *)
(* does next, and a node is locked while it is visited.)                    *)
(*                                                                          *)
(* Importance is a double in the code and an integer number of units here;  *)
(* every result that is infinite or not a number is NaN.                    *)
(***************************************************************************)
EXTENDS HebbianNetwork

CONSTANTS
    Spreaders,      \* the workers that serve the stimulus queue
    Stimuli,        \* the requests: count of each handle, and the value of "SUM"
    Malformed,      \* what a client may send for handles that has a wrong length
    MaxStimuli,     \* bound of the model: stimuli processed in total
    TOKENS,         \* the units of one token; a network has one token
    RENT_PERCENT, LOWERBOUND_PERCENT, UPPERBOUND_PERCENT,  \* the three rates
    NaN,
    Tolerance       \* the units that rounding may lose; a thousandth of a token

ASSUME StimulusAssumption ==
    /\ TOKENS \in Nat /\ MaxStimuli \in Nat /\ Tolerance \in 0..TOKENS
    /\ RENT_PERCENT \in 0..100
    /\ LOWERBOUND_PERCENT \in 0..100
    /\ UPPERBOUND_PERCENT \in LOWERBOUND_PERCENT..100
    /\ NaN \notin Int
    /\ NULL \notin Spreaders /\ IsFiniteSet(Spreaders)
ASSUME MalformedAssumption == Malformed \cap Handles = {}
\* The counts of a request are unsigned; the client may leave "SUM" out, and nothing
\* checks its handles before they are used.
ASSUME StimuliAssumption == \A r \in Stimuli :
    /\ DOMAIN r.count \subseteq Handles \cup Malformed
    /\ r.count \in [DOMAIN r.count -> Nat]
    /\ r.SUM \in Nat \cup {NULL}

VARIABLES
    importance,             \* Node::importance
    stimuli_to_spread,      \* Node::stimuli_to_spread
    tokens_to_distribute,
    root_lock,              \* the spreader that visits the network, or NULL
    stage,                  \* where each spreader is in spread_stimuli
    stimulus,               \* the request it processes
    data_largest_arity,     \* its copy of largest_arity
    importance_changes,     \* its rents and wages; the domain is the trie's keys
    to_visit,               \* the nodes its current visit has not reached yet
    summed,                 \* sum_weights of the node it is delivering for
    started,                \* history: the stimuli that were started
    crashed,                \* the process has died in a spreader
    disturbances            \* history: what may upset the balance of tokens

tokenVars == <<importance, stimuli_to_spread, tokens_to_distribute>>
dataVars == <<stimulus, data_largest_arity, importance_changes>>
visitVars == <<root_lock, stage, to_visit, summed>>
spreadVars == <<tokenVars, dataVars, visitVars, started, crashed, disturbances>>
allVars == <<vars, spreadVars>>
-----------------------------------------------------------------------------
(* Arithmetic on importances *)

Plus(x, y) == IF NaN \in {x, y} THEN NaN ELSE x + y

Minus(x, y) == IF NaN \in {x, y} THEN NaN ELSE x - y

\* x * n / d
Scaled(x, n, d) == IF x = NaN \/ d = 0 THEN NaN ELSE (x * n) \div d

\* The sum of f[h] over the handles h of S.
Total(f, S) ==
    IF \E h \in S : f[h] = NaN THEN NaN ELSE MapThenSumSet(LAMBDA h : f[h], S)

Present == {h \in Handles : node_count[h] > 0}

\* Slip: a node without importance is given no entry.
Renters_OnlyRich == {h \in Present : importance[h] # 0}

\* The nodes collect_rent makes an entry for.
Renters == Present

\* A visit goes through the nodes in the order of their handles.
NextNode(s) == Min(to_visit[s])

Rent(h) == Scaled(importance[h], RENT_PERCENT, 100)

TotalRent(s) ==
    Total([h \in DOMAIN importance_changes[s] |-> importance_changes[s][h].rent],
          DOMAIN importance_changes[s])

\* Slip: an entry that is already there is replaced by the one of the wages.
Paid_NotMerged(s, h, wages) == [rent |-> 0, wages |-> wages]

\* importance_changes->insert(handle, new ImportanceChanges(0.0, wages))
Paid(s, h, wages) ==
    IF h \in DOMAIN importance_changes[s]
    THEN [importance_changes[s][h] EXCEPT !.wages = Plus(@, wages)]
    ELSE [rent |-> 0, wages |-> wages]

\* Slip: rents and wages change places.
Consolidated_Swapped(s, h) ==
    Minus(Plus(importance[h], importance_changes[s][h].rent),
          importance_changes[s][h].wages)

\* The importance of a node after its rent and its wages.
Consolidated(s, h) ==
    Plus(Minus(importance[h], importance_changes[s][h].rent),
         importance_changes[s][h].wages)

\* importance * (lowerbound + range * arity / largest_arity)
ToSpread(s, h) ==
    Scaled(Consolidated(s, h),
           LOWERBOUND_PERCENT * data_largest_arity[s]
               + (UPPERBOUND_PERCENT - LOWERBOUND_PERCENT) * arity[h],
           100 * data_largest_arity[s])

\* The weights of h's edges have count(h) for their common denominator, and
\* count(h) cannot change while the network is visited.
SumWeights(h) == Total([b \in Handles |-> edge_count[<<h, b>>]], Neighbors(h))

\* What neighbor b is given by the node h.
Share(s, h, b) == Scaled(stimuli_to_spread[h], edge_count[<<h, b>>], summed[s])

\* sum_weights and deliver_stimulus follow node1 and node2 of every edge.
EdgesLinked(h) == \A b \in Neighbors(h) : <<h, b>> \in linked

Move(s, next) == stage' = [stage EXCEPT ![s] = next]

Crash ==
    /\ crashed' = TRUE
    /\ UNCHANGED <<tokenVars, dataVars, visitVars, started, disturbances, vars>>
-----------------------------------------------------------------------------
(* spread_stimuli *)

Known(r) == DOMAIN r.count \subseteq Present

\* Nothing checks that "SUM" is what the counts add up to.
SumIsRight(r) == r.SUM > 0 /\ r.SUM = Total(r.count, DOMAIN r.count)

\* What a stimulus that starts now meets.  Correlations that overlapped one another
\* may have left edges without end points and an arity above largest_arity.
DisturbancesOf(s, r) ==
    (IF overlapped \/ \E t \in Updaters : pc[t] # "idle" THEN {"correlation"} ELSE {})
    \cup (IF \E u \in Spreaders \ {s} : stage[u] # "idle" THEN {"stimulus"} ELSE {})
    \cup (IF Known(r) THEN {} ELSE {"unknown handle"})
    \cup (IF DOMAIN r.count \subseteq Handles THEN {} ELSE {"malformed handle"})
    \cup (IF \E h \in Present : Neighbors(h) = {} THEN {"isolated node"} ELSE {})
    \cup (IF r.SUM = NULL THEN {"no sum"}
          ELSE IF SumIsRight(r) THEN {} ELSE {"wrong sum"})

StartStimulus(s, r) ==
    /\ stage[s] = "idle"
    /\ started < MaxStimuli
    /\ started' = started + 1
    /\ stimulus' = [stimulus EXCEPT ![s] = r]
    /\ data_largest_arity' = [data_largest_arity EXCEPT ![s] = largest_arity]
    /\ disturbances' = disturbances \cup DisturbancesOf(s, r)
    /\ Move(s, "rent")
    /\ UNCHANGED <<tokenVars, importance_changes, root_lock, to_visit, summed,
                   crashed, vars>>

\* visit_nodes(true, &collect_rent, &data): what it reads is written only by
\* visits, so the visit is one step.
CollectRent(s) ==
    /\ stage[s] = "rent"
    /\ root_lock = NULL
    /\ importance_changes' = [importance_changes EXCEPT
          ![s] = [h \in Renters |-> [rent |-> Rent(h), wages |-> 0]]]
    /\ Move(s, "wages")
    /\ UNCHANGED <<tokenVars, stimulus, data_largest_arity, root_lock, to_visit,
                   summed, started, crashed, disturbances, vars>>

\* Slip: the tokens stay where they are.
Alienated_Kept == tokens_to_distribute

\* What alienate_tokens leaves.
Alienated == 0

\* alienate_tokens and distribute_wages, which share nothing but the tokens
DistributeWages(s) ==
    /\ stage[s] = "wages"
    /\ stimulus[s].SUM # NULL /\ DOMAIN stimulus[s].count \subseteq Handles
    /\ LET total == Plus(tokens_to_distribute, TotalRent(s))
           paid == DOMAIN stimulus[s].count
       IN importance_changes' = [importance_changes EXCEPT
            ![s] = [h \in DOMAIN @ \cup paid |->
                IF h \in paid
                THEN Paid(s, h, Scaled(total, stimulus[s].count[h], stimulus[s].SUM))
                ELSE @[h]]]
    /\ tokens_to_distribute' = Alienated
    /\ Move(s, "consolidate")
    /\ UNCHANGED <<importance, stimuli_to_spread, stimulus, data_largest_arity,
                   root_lock, to_visit, summed, started, crashed, disturbances, vars>>

\* Without "SUM", or when HandleTrie::insert finds a handle of a wrong length, an
\* exception that nothing catches ends the process.
WagesThrow(s) ==
    /\ stage[s] = "wages"
    /\ stimulus[s].SUM = NULL \/ ~(DOMAIN stimulus[s].count \subseteq Handles)
    /\ Crash

\* A visit begins ...
LockRoot(s) ==
    /\ root_lock = NULL
    /\ \/ stage[s] = "consolidate" /\ Move(s, "consolidating")
       \/ stage[s] = "spread" /\ Move(s, "spreading")
    /\ root_lock' = s
    /\ to_visit' = [to_visit EXCEPT ![s] = Present]
    /\ UNCHANGED <<tokenVars, dataVars, summed, started, crashed, disturbances, vars>>

\* Slip: the root is left locked.
ReleaseRoot_Forgotten == UNCHANGED root_lock

ReleaseRoot == root_lock' = NULL

\* ... and ends; spread_stimuli returns after the last one.
UnlockRoot(s) ==
    /\ to_visit[s] = {}
    /\ \/ stage[s] = "consolidating" /\ Move(s, "spread")
       \/ stage[s] = "spreading" /\ Move(s, "idle")
    /\ ReleaseRoot
    /\ UNCHANGED <<tokenVars, dataVars, to_visit, summed, started, crashed,
                   disturbances, vars>>

\* consolidate_rent_and_wages
ConsolidateNode(s) ==
    /\ stage[s] = "consolidating"
    /\ to_visit[s] # {}
    /\ LET h == NextNode(s)
       IN /\ h \in DOMAIN importance_changes[s]
          /\ importance' = [importance EXCEPT
                ![h] = Minus(Consolidated(s, h), ToSpread(s, h))]
          /\ stimuli_to_spread' = [stimuli_to_spread EXCEPT ![h] = ToSpread(s, h)]
          /\ to_visit' = [to_visit EXCEPT ![s] = @ \ {h}]
          /\ disturbances' = IF Consolidated(s, h) # NaN /\ Consolidated(s, h) < 0
                             THEN disturbances \cup {"debt"} ELSE disturbances
    /\ UNCHANGED <<tokens_to_distribute, dataVars, root_lock, stage, summed,
                   started, crashed, vars>>

\* The node has no entry in importance_changes: changes is NULL.
NoChanges(s) ==
    /\ stage[s] = "consolidating"
    /\ to_visit[s] # {}
    /\ NextNode(s) \notin DOMAIN importance_changes[s]
    /\ Crash

\* consolidate_stimulus: the first traversal of the neighbors ...
TraverseSumWeights(s) ==
    /\ stage[s] = "spreading"
    /\ to_visit[s] # {}
    /\ EdgesLinked(NextNode(s))
    /\ summed' = [summed EXCEPT ![s] = SumWeights(NextNode(s))]
    /\ Move(s, "delivering")
    /\ UNCHANGED <<tokenVars, dataVars, root_lock, to_visit, started, crashed,
                   disturbances, vars>>

\* ... and the second one, for which an edge may have been added or counted
\* again.
TraverseDeliverStimulus(s) ==
    /\ stage[s] = "delivering"
    /\ EdgesLinked(NextNode(s))
    /\ LET h == NextNode(s)
       IN /\ importance' = [b \in Handles |->
                IF b \in Neighbors(h) THEN Plus(importance[b], Share(s, h, b))
                                      ELSE importance[b]]
          /\ stimuli_to_spread' = [stimuli_to_spread EXCEPT ![h] = 0]
          /\ to_visit' = [to_visit EXCEPT ![s] = @ \ {h}]
    /\ Move(s, "spreading")
    /\ UNCHANGED <<tokens_to_distribute, dataVars, root_lock, summed, started,
                   crashed, disturbances, vars>>

\* An edge that its updater has not linked yet: node1 and node2 are NULL.
EdgeNotLinked(s) ==
    /\ \/ stage[s] = "spreading" /\ to_visit[s] # {}
       \/ stage[s] = "delivering"
    /\ ~EdgesLinked(NextNode(s))
    /\ Crash

SpreadStimuli(s) ==
    \/ CollectRent(s)
    \/ DistributeWages(s)
    \/ WagesThrow(s)
    \/ LockRoot(s)
    \/ UnlockRoot(s)
    \/ ConsolidateNode(s)
    \/ NoChanges(s)
    \/ TraverseSumWeights(s)
    \/ TraverseDeliverStimulus(s)
    \/ EdgeNotLinked(s)
-----------------------------------------------------------------------------
(* The correlation workers: add_node and lookup_node need the root's lock. *)

StartCorrelation(t, list) ==
    /\ Start(t, list)
    /\ disturbances' = disturbances
          \cup (IF \A s \in Spreaders : stage[s] = "idle" THEN {} ELSE {"correlation"})
          \cup (IF malformed'[t] THEN {"malformed handle"} ELSE {})
    /\ UNCHANGED <<tokenVars, dataVars, visitVars, started, crashed>>

Correlate(t) ==
    /\ \/ (AddNode(t) \/ NextPair(t)) /\ root_lock = NULL
       \/ AddEdge(t)
       \/ Throw(t)
       \/ Finish(t)
    /\ UNCHANGED spreadVars
-----------------------------------------------------------------------------
SpreaderInit ==
    /\ Init
    /\ importance = [h \in Handles |-> 0]
    /\ stimuli_to_spread = [h \in Handles |-> 0]
    /\ tokens_to_distribute = TOKENS
    /\ root_lock = NULL
    /\ stage = [s \in Spreaders |-> "idle"]
    /\ stimulus = [s \in Spreaders |-> NULL]
    /\ data_largest_arity = [s \in Spreaders |-> 0]
    /\ importance_changes = [s \in Spreaders |-> <<>>]
    /\ to_visit = [s \in Spreaders |-> {}]
    /\ summed = [s \in Spreaders |-> 0]
    /\ started = 0
    /\ crashed = FALSE
    /\ disturbances = {}

SpreaderNext ==
    /\ ~crashed /\ Alive
    /\ \/ \E s \in Spreaders : SpreadStimuli(s) \/ \E r \in Stimuli : StartStimulus(s, r)
       \/ \E t \in Updaters : Correlate(t) \/ \E list \in Lists : StartCorrelation(t, list)

SpreaderSpec == SpreaderInit /\ [][SpreaderNext]_allVars
-----------------------------------------------------------------------------
(* Properties *)

Amounts == Int \cup {NaN}

\* Besides the types: the root is locked exactly during a visit, so that a
\* spreader that returned or is between two visits never blocks the others.
SpreaderTypeOK ==
    /\ importance \in [Handles -> Amounts]
    /\ stimuli_to_spread \in [Handles -> Amounts]
    /\ tokens_to_distribute \in 0..TOKENS
    /\ root_lock \in Spreaders \cup {NULL}
    /\ stage \in [Spreaders -> {"idle", "rent", "wages", "consolidate", "consolidating",
                                "spread", "spreading", "delivering"}]
    /\ stimulus \in [Spreaders -> Stimuli \cup {NULL}]
    /\ data_largest_arity \in [Spreaders -> Nat]
    /\ \A s \in Spreaders :
          /\ DOMAIN importance_changes[s] \subseteq Handles
          /\ to_visit[s] \subseteq Handles
          /\ summed[s] \in Nat
          /\ root_lock = s <=> stage[s] \in {"consolidating", "spreading", "delivering"}
    /\ started \in 0..MaxStimuli
    /\ crashed \in BOOLEAN

\* What consolidation will still add to the nodes and take from them.
Pending(s) ==
    LET left == CASE stage[s] = "consolidate" -> DOMAIN importance_changes[s]
                  [] stage[s] = "consolidating" -> to_visit[s] \cap DOMAIN importance_changes[s]
                  [] OTHER -> {}
    IN Total([h \in left |-> Minus(importance_changes[s][h].wages,
                                   importance_changes[s][h].rent)], left)

\* All tokens of the network, wherever they are.
Balance ==
    Plus(Plus(Total(importance, Handles), Total(stimuli_to_spread, Handles)),
         Plus(tokens_to_distribute,
              Total([s \in Spreaders |-> Pending(s)], Spreaders)))

\* StimulusSpreader.h:79-81: the total amount of tokens remains fixed, in every
\* state of a request, up to rounding: if requests are processed one at a time,
\* name handles of the network, and every node has a neighbor to spread to.
ConservedWhenAlone ==
    disturbances = {} => Balance \in (TOKENS - Tolerance)..TOKENS

\* Spreaders that run at the same time, whose rents and wages were computed
\* from importances that others have changed since, may lose tokens but create
\* none, as long as no node had to pay a rent that it no longer owned
\* (StimulusSpreader.cc:44-73, 137-149).
NeverCreated ==
    disturbances \subseteq {"stimulus", "unknown handle"} => Balance <= TOKENS

\* A rent is subtracted in a later visit than the one that computed it, and what
\* is spread is a share of what is left: while stimuli and correlations do not
\* overlap, no node ever owes tokens, whatever the requests are.
ImportanceNotNegative ==
    disturbances \cap {"stimulus", "correlation"} = {} =>
        /\ "debt" \notin disturbances
        /\ \A h \in Handles : importance[h] # NaN => importance[h] >= 0

\* Whatever the spreaders do at the same time, none dereferences NULL: only a
\* correlation that overlaps a stimulus, or overlapped another correlation before
\* it, or a request without "SUM" or with a handle of a wrong length can end the
\* process (StimulusSpreader.cc:59-62, 75-88, 108-116; HandleTrie.cc:82-84).
CrashNeedsCorrelation ==
    crashed \/ ~Alive =>
        disturbances \cap {"correlation", "no sum", "malformed handle"} # {}

\* StimulusSpreader.h:79-81 without the condition that requests are processed
\* one at a time: the handles are known and every node has neighbors.
TokensRemainFixed ==
    disturbances \subseteq {"stimulus"} => Balance \in (TOKENS - Tolerance)..TOKENS
=============================================================================
