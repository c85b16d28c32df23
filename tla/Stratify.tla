------------------------------- MODULE Stratify -------------------------------
(***************************************************************************)
(* QueryImpl::Stratify (lib/DataFlow/Stratify.cpp): the iterative Tarjan   *)
(* walk over the sources of every view, the strata in the order in which   *)
(* components pop, the owning stratum of every data model, and the         *)
(* rejection of negations and aggregations inside a component.             *)
(*                                                                         *)
(* Views are numbered from 1 in ForEachView order.  The edges of a view    *)
(* are followed in any order.                                              *)
(***************************************************************************)
EXTENDS Integers, Sequences, SequencesExt, FiniteSets, FiniteSetsExt

CONSTANTS
    NumViews,
    Graphs,      \* the column edges and seams: the sources of each view
    Roles,       \* which view negates which, and which views aggregate
    ModelOf      \* the data model of each view

View == 1..NumViews
Model == {ModelOf[v] : v \in View}

StratifyParameters ==
    /\ NumViews \in Nat
    /\ Graphs \subseteq [View -> SUBSET View]
    /\ \A r \in Roles : r.negates \in SUBSET (View \X View) /\ r.aggs \subseteq View

ASSUME StratifyAssumption == StratifyParameters

VARIABLES
    graph, role,            \* the program
    index, lowlink,         \* TarjanState, kUnvisited is 0
    onStack, stratum,       \* kNoStratum is 0
    sccStack, frames,       \* a frame: the view, and the edges not followed
    nextStratum,
    modelStratum, straddling, rejected,
    stage                   \* "walk" or "done"

vars == <<graph, role, index, lowlink, onStack, stratum, sccStack, frames,
          nextStratum, modelStratum, straddling, rejected, stage>>

(* The source edges: column edges, seams and negated views. *)
Sources(v) == graph[v] \cup {n[2] : n \in {m \in role.negates : m[1] = v}}

Init ==
    /\ graph \in Graphs /\ role \in Roles
    /\ index = [v \in View |-> 0] /\ lowlink = [v \in View |-> 0]
    /\ onStack = [v \in View |-> FALSE] /\ stratum = [v \in View |-> 0]
    /\ sccStack = <<>> /\ frames = <<>>
    /\ nextStratum = 1
    /\ modelStratum = [m \in Model |-> 0] /\ straddling = {} /\ rejected = {}
    /\ stage = "walk"

NextIndex == Max({index[v] : v \in View}) + 1

(* First arrival at a view: number it and push it on both stacks. *)
Visit(v, below) ==
    /\ index' = [index EXCEPT ![v] = NextIndex]
    /\ lowlink' = [lowlink EXCEPT ![v] = NextIndex]
    /\ onStack' = [onStack EXCEPT ![v] = TRUE]
    /\ sccStack' = Append(sccStack, v)
    /\ frames' = Append(below, [view |-> v, left |-> Sources(v)])

StartRoot ==
    /\ stage = "walk"
    /\ frames = <<>>
    /\ \E v \in View : index[v] = 0
    /\ Visit(Min({v \in View : index[v] = 0}), <<>>)
    /\ UNCHANGED <<graph, role, stratum, nextStratum, modelStratum, straddling,
                   rejected, stage>>

Lowered(v, to) == [lowlink EXCEPT ![v] = Min({@, to})]

(* An edge to a view that was visited matters while that view is on the    *)
(* stack; one to a finished component does not.                            *)
LinksBack(w) == onStack[w]

EdgesLeft(left, w) == left \ {w}

FollowEdge ==
    /\ stage = "walk"
    /\ frames # <<>>
    /\ LET v == Last(frames).view
       IN  \E w \in Last(frames).left :
             LET below == Append(Front(frames),
                                 [view |-> v, left |-> EdgesLeft(Last(frames).left, w)])
             IN  \/ index[w] = 0 /\ Visit(w, below)
                 \/ /\ index[w] # 0
                    /\ lowlink' = IF LinksBack(w) THEN Lowered(v, index[w])
                                  ELSE lowlink
                    /\ frames' = below
                    /\ UNCHANGED <<index, onStack, sccStack>>
    /\ UNCHANGED <<graph, role, stratum, nextStratum, modelStratum, straddling,
                   rejected, stage>>

(* A view with no edge left: hand the lowlink to the parent and, at the    *)
(* root of a component, pop the component as the next stratum.             *)
Component(v) == LET at == CHOOSE i \in DOMAIN sccStack : sccStack[i] = v
                IN  {sccStack[i] : i \in at..Len(sccStack)}

PassUpNothing(v, rest) == lowlink
PassUp(v, rest) ==
    IF rest = <<>> THEN lowlink ELSE Lowered(Last(rest).view, lowlink[v])

Retreat ==
    /\ stage = "walk"
    /\ frames # <<>>
    /\ Last(frames).left = {}
    /\ LET v == Last(frames).view
       IN  /\ frames' = Front(frames)
           /\ lowlink' = PassUp(v, Front(frames))
           /\ IF lowlink[v] = index[v]
              THEN LET scc == Component(v)
                   IN  /\ sccStack' = SubSeq(sccStack, 1,
                                             Len(sccStack) - Cardinality(scc))
                       /\ onStack' = [w \in View |-> onStack[w] /\ w \notin scc]
                       /\ stratum' = [w \in View |->
                             IF w \in scc THEN nextStratum ELSE stratum[w]]
                       /\ nextStratum' = nextStratum + 1
              ELSE UNCHANGED <<sccStack, onStack, stratum, nextStratum>>
    /\ UNCHANGED <<graph, role, index, modelStratum, straddling, rejected, stage>>

StrataOf(m) == {stratum[v] : v \in {w \in View : ModelOf[w] = m}}

(* The aggregates test their predecessors, the negates their negated view. *)
InSccNegates == {n[1] : n \in {m \in role.negates : stratum[m[1]] = stratum[m[2]]}}
InSccAggsSelf == {v \in role.aggs : v \in graph[v]}
InSccAggs == {v \in role.aggs : \E w \in graph[v] : stratum[v] = stratum[w]}

Finish ==
    /\ stage = "walk"
    /\ frames = <<>>
    /\ \A v \in View : index[v] # 0
    /\ modelStratum' = [m \in Model |-> Max(StrataOf(m))]
    /\ straddling' = {m \in Model : Cardinality(StrataOf(m)) > 1}
    /\ rejected' = InSccNegates \cup InSccAggs
    /\ stage' = "done"
    /\ UNCHANGED <<graph, role, index, lowlink, onStack, stratum, sccStack,
                   frames, nextStratum>>

Next == StartRoot \/ FollowEdge \/ Retreat \/ Finish

Spec == Init /\ [][Next]_vars

-----------------------------------------------------------------------------
(* The reference: the views that v reads from, in any number of edges, are *)
(* the least set that holds v and the sources of all that it holds.        *)
ClosedReads(S) == \A v \in S : Sources(v) \subseteq S
Reads(v) ==
    {w \in View : \A S \in SUBSET View : v \in S /\ ClosedReads(S) => w \in S}

(* A stratum is a strongly connected component: two views share one        *)
(* exactly when each reads from the other.                                 *)
StrataAreComponents ==
    stage = "done" =>
        \A v, w \in View :
            stratum[v] = stratum[w] <=> v \in Reads(w) /\ w \in Reads(v)

(* Sources first, throughout the walk: when a view has its stratum, so has *)
(* everything it reads from, and none of that is later.                    *)
SourcesFirst ==
    \A v \in View : stratum[v] # 0 =>
        \A w \in Sources(v) : stratum[w] \in 1..stratum[v]

(* Both of these.                                                          *)
StrataOrdered == StrataAreComponents /\ SourcesFirst

(* What is accepted is stratified: no view that negates or aggregates      *)
(* reads, through that input, from itself; and nothing else is rejected.   *)
RejectsUnstratified ==
    stage = "done" =>
        rejected = {v \in View :
                       \/ \E n \in role.negates : n[1] = v /\ v \in Reads(n[2])
                       \/ v \in role.aggs /\ \E w \in graph[v] : v \in Reads(w)}
=============================================================================
