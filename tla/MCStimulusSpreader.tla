------------------------- MODULE MCStimulusSpreader -------------------------
(***************************************************************************)
(* Instances of StimulusSpreader for TLC: a path of three atoms, or single  *)
(* atoms, and stimuli that name some of them, among them one that may be    *)
(* unknown and one that is no handle.                                       *)
(***************************************************************************)
EXTENDS StimulusSpreader, TLC

PathLists == {<<1, 2>>, <<2, 3>>}

\* Lists that share a pair, in one order or the other, or one handle only.  One
\* repeats a handle, which nothing between the RPC and the updater forbids, and one
\* is empty: its request begins with a handle of a wrong length.
MixedLists == {<<1, 2>>, <<2, 1, 1>>, <<3, 1>>, <<1, 2, 3>>, <<>>}

SomeLists == MixedLists \cup PathLists

StimulusRequests == {
    [count |-> (1 :> 1), SUM |-> 1],
    [count |-> (1 :> 1 @@ 3 :> 2), SUM |-> 3]}

SomeWithWrongSum == StimulusRequests \cup {
    [count |-> (2 :> 1), SUM |-> NULL],
    [count |-> (1 :> 2), SUM |-> 1]}

SomeUnchecked == SomeWithWrongSum \cup {
    [count |-> (1 :> 1 @@ h :> 1), SUM |-> 2] : h \in Malformed}

\* To keep the state space small: no request overlaps both a request and a
\* correlation, and one that breaks a rule of the protocol overlaps nothing; the
\* second updater works only to overlap the first one, before any request.
Odd(r) == r.SUM = NULL \/ ~SumIsRight(r) \/ ~(DOMAIN r.count \subseteq Handles)
Spared ==
    /\ Len(received') <= 2
    /\ Range(received') \subseteq PathLists
    /\ \A t \in Updaters : malformed'[t] =>
          disturbances' \cap {"stimulus", "correlation"} = {}
    /\ ~({"stimulus", "correlation"} \subseteq disturbances')
    /\ \A s \in Spreaders : stage'[s] # "idle" /\ Odd(stimulus'[s]) =>
          disturbances' \cap {"stimulus", "correlation"} = {}
    /\ overlapped' \/ Cardinality({t \in Updaters : request'[t] # <<>>}) <= 1
    /\ overlapped' => started' = 0 \/ Quiescent'

\* As long as no stimulus comes both updaters work, on more lists.
CorrelationsAlone == started' = 0 /\ Range(received') \subseteq MixedLists

MCSpreaderSpec ==
    SpreaderInit /\ [][SpreaderNext /\ (CorrelationsAlone \/ Spared)]_allVars

SpreaderSymmetry == Permutations(Spreaders) \cup Permutations(Updaters)
=============================================================================
