-------------------------------- MODULE Induction --------------------------------
(***************************************************************************)
(* The inductive sets of a graph of views (lib/DataFlow/Induction.cpp): the *)
(* unions, joins and negations that feed themselves.  `fed` is what each   *)
(* view feeds and `reach` what it feeds in any number of steps.            *)
(***************************************************************************)
EXTENDS Link

(* Every view that the rows of some views get to, past no view of `stop`.   *)
RECURSIVE Flow(_, _, _)
Flow(fed, stop, found) ==
    LET more == found \cup UNION {fed[v] : v \in found \ stop}
    IN IF more = found THEN found ELSE Flow(fed, stop, more)
Reach(fed) == [v \in DOMAIN fed |-> Flow(fed, {}, fed[v])]

Cyclic(g, reach) == {v \in Kinds(g, {"merge", "join", "negate"}) : v \in reach[v]}
InductiveSet(reach, cyclic, v) == {u \in cyclic : u \in reach[v] /\ v \in reach[u]}

InSuccs(fed, reach, v) == {u \in fed[v] : v \in reach[u]}
OutSuccs(fed, reach, v) == fed[v] \ InSuccs(fed, reach, v)
Preds(fed, v) == {u \in DOMAIN fed : v \in fed[u]}
OutPreds(fed, reach, v) == Preds(fed, v) \ reach[v]

-----------------------------------------------------------------------------
(* Where rows leave a set past views that are not of the set.               *)

(* An inductive successor from which another set, or an output, is reached  *)
(* too.                                                                    *)
EventuallyOut(g, fed, reach, v, succ) ==
    LET cyclic == Cyclic(g, reach)
    IN \E u \in Flow(fed, cyclic, {succ}) :
          \/ u \in cyclic \ InductiveSet(reach, cyclic, v)
          \/ g.v[u].kind = "insert" /\ Successors(g, u) = {}

LeavingSites(g, fed, reach, v, succ) ==
    LET inside == Flow([u \in DOMAIN fed |-> {w \in fed[u] : v \in reach[w]}], Cyclic(g, reach), {succ})
    IN {u \in inside \ Cyclic(g, reach) : \E w \in fed[u] : v \notin reach[w]}

InjectionSites(g, fed, reach) ==
    LET cyclic == Cyclic(g, reach)
    IN UNION {UNION {LeavingSites(g, fed, reach, v, u) :
                        u \in {s \in InSuccs(fed, reach, v) : EventuallyOut(g, fed, reach, v, s)}} : v \in cyclic}
       \cup {v \in cyclic : /\ g.v[v].kind # "merge"
                            /\ OutPreds(fed, reach, v) = {}
                            /\ OutSuccs(fed, reach, v) # {}}

(* A union takes over the uses of a view ("INDUCTIVE-LEAVE"). *)
AddUnion(g, v) ==
    LET u == Newest(g) + 1
        n == Len(g.v[v].cols)
        columns == FoldLeft(LAMBDA h, i : ReplaceCol(h, Col(g, v, i), <<u, i>>),
                            Add(g, NewView("merge", None, n)), [i \in 1 .. n |-> i])
        h == ReplaceDirect(columns, v, u)
    IN Evaluated([CopyDifferential(h, v, u) EXCEPT !.v[u].srcs = <<v>>])

RECURSIVE IdentifyInductions(_)
IdentifyInductions(g) ==
    LET fed == Fed(g)
        reach == Reach(fed)
        found == InjectionSites(g, fed, reach)
        sites == {v \in found : ~(IsTuple(g, v) /\ ForwardsAllInputsAsIs(g, v, GetIncomingView(g.v[v].ins)))}
    IN IF \E v \in found : g.v[v].kind \in {"merge", "select", "insert"} THEN Fault(g, "injection site")
       ELSE IF sites = {} THEN g
       ELSE IdentifyInductions(LinkViews(FoldLeft(AddUnion, g, Ascending(sites)), TRUE))

-----------------------------------------------------------------------------
(* What the control-flow builder is told of each inductive view.           *)

(* A join or negation that only the set feeds and that only feeds the set   *)
(* is no longer marked.                                                    *)
Marked(g, fed, reach) ==
    {v \in Cyclic(g, reach) : \/ g.v[v].kind = "merge"
                              \/ OutPreds(fed, reach, v) # {}
                              \/ OutSuccs(fed, reach, v) # {}}

CanReachSelf(fed, reach, marked, v) ==
    LET open == {u \in marked : OutPreds(fed, reach, u) # {} \/ OutSuccs(fed, reach, u) # {}}
    IN v \in Flow(fed, open, InSuccs(fed, reach, v))

(* A set that nothing else feeds comes first, and each set after those that *)
(* reach it.                                                               *)
RECURSIVE Relabel(_, _, _)
Relabel(label, reached, last) ==
    LET hit == UNION {reached[s] : s \in {x \in DOMAIN label : label[x] = last}}
    IN IF hit = {} THEN label
       ELSE Relabel([s \in DOMAIN label |-> IF s \in hit THEN last + 1 ELSE label[s]], reached, last + 1)
RECURSIVE RelabelOnce(_, _, _)
RelabelOnce(label, reached, last) ==
    LET hit == {s \in UNION {reached[t] : t \in {x \in DOMAIN label : label[x] = last}} : label[s] = 0}
    IN IF hit = {} THEN label
       ELSE RelabelOnce([s \in DOMAIN label |-> IF s \in hit THEN last + 1 ELSE label[s]], reached, last + 1)

LabelsOnce(sets, reached) ==
    LET first == [s \in sets |-> IF \E t \in sets : s \in reached[t] THEN 0 ELSE 1]
    IN RelabelOnce(first, reached, 1)
Labels(sets, reached) ==
    LET first == [s \in sets |-> IF \E t \in sets : s \in reached[t] THEN 0 ELSE 1]
    IN Relabel(first, reached, 1)

MergeDepths(g, fed, reach) ==
    LET marked == Marked(g, fed, reach)
        set(v) == InductiveSet(reach, marked, v)
        after(v) == (Flow(fed, marked, OutSuccs(fed, reach, v)) \cap marked) \ set(v)
        sets == {set(v) : v \in marked}
        reached == [s \in sets |-> {set(u) : u \in UNION {after(v) : v \in s}}]
        label == Labels(sets, reached)
    IN [v \in marked |-> label[set(v)]]

Inductions(g) ==
    LET fed == Fed(g)
        reach == Reach(fed)
        marked == Marked(g, fed, reach)
        depth == MergeDepths(g, fed, reach)
    IN [v \in marked |->
          [set |-> InductiveSet(reach, marked, v), depth |-> depth[v],
           outs |-> OutSuccs(fed, reach, v), ins |-> OutPreds(fed, reach, v),
           self |-> CanReachSelf(fed, reach, marked, v)]]

(* Every set must be entered and left, unless what it defines is divergent; *)
(* IsDivergent is not implemented and answers yes of every declaration.    *)
IsDivergent == TRUE
NonLinearizable(ind) ==
    /\ ~IsDivergent
    /\ \E v \in DOMAIN ind : \/ \A u \in ind[v].set : ind[u].ins = {}
                             \/ \A u \in ind[v].set : ind[u].outs = {}
=============================================================================
