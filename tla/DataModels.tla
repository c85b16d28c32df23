------------------------------- MODULE DataModels -------------------------------
(***************************************************************************)
(* Which views share a table (lib/DataFlow: EquivalenceSet.h,              *)
(* BuildEquivalenceSets of Build.cpp), and which views always have rows    *)
(* (IsConditional of View.cpp).                                            *)
(***************************************************************************)
EXTENDS Induction

CONSTANTS
    OneToOne        \* functors that give one row for every input

(* Every view starts in a set of its own; a set holds at most one inductive *)
(* view.                                                                   *)
NewSets(g, inductive) ==
    [root |-> [v \in Live(g) |-> v], ind |-> [v \in Live(g) |-> IF v \in inductive THEN v ELSE NoView]]

ForceUnion(s, a, b) ==
    LET ra == s.root[a]
        rb == s.root[b]
        ind == IF s.ind[ra] # NoView THEN s.ind[ra] ELSE s.ind[rb]
    IN Evaluated([root |-> [v \in DOMAIN s.root |-> IF s.root[v] = rb THEN ra ELSE s.root[v]],
                  ind |-> [s.ind EXCEPT ![ra] = ind]])
TryUnion(s, a, b) ==
    LET ia == s.ind[s.root[a]]
        ib == s.ind[s.root[b]]
    IN IF ia # NoView /\ ib # NoView /\ ia # ib THEN s ELSE ForceUnion(s, a, b)
TryUnionAll(s, v, others) == FoldLeft(LAMBDA t, u : TryUnion(t, v, u), s, Ascending(others))

(* The views of a relation share its table. *)
UnionRelation(g, s, d) ==
    LET views == g.inss[d] \o g.sels[d]
    IN IF d \in g.ios \/ views = <<>> THEN s
       ELSE FoldLeft(LAMBDA t, v : TryUnion(t, views[1], v), s, Tail(views))

UnionInsert(g, s, v) ==
    IF g.v[v].att # <<>> THEN s
    ELSE TryUnionAll(s, v, {u \in Predecessors(g, v) : IsTuple(g, u)})

UnionReordering(g, ind, s, v) ==
    IF IsTuple(g, v) THEN TryUnionAll(s, v, {u \in Predecessors(g, v) : Range(g.v[v].ins) = Range(Cols(g, u))}) ELSE s

(* A tuple that passes on all of the one view that it reads, and a negation *)
(* and such a tuple outside of its set.                                    *)
UnionForwarding(g, ind, s, v) ==
    LET passes(t, u) == g.v[t].ins = Cols(g, u)
        outs == IF v \in DOMAIN ind THEN ind[v].outs ELSE {}
    IN CASE IsTuple(g, v) -> TryUnionAll(s, v, {u \in Predecessors(g, v) : passes(v, u)})
         [] g.v[v].kind = "negate" -> TryUnionAll(s, v, {t \in outs : IsTuple(g, t) /\ passes(t, v)})
         [] OTHER -> s

PublicOrder(g) ==
    Ascending(Kinds(g, {"join"})) \o SelectSeq(EachView(g), LAMBDA v : g.v[v].kind # "join")

BuildEquivalenceSets(g, ind, order) ==
    LET relations == FoldLeft(LAMBDA s, d : UnionRelation(g, s, d), NewSets(g, DOMAIN ind), order)
        inserts == FoldLeft(LAMBDA s, v : UnionInsert(g, s, v), relations, Ascending(Kinds(g, {"insert"})))
        selects == FoldLeft(LAMBDA s, v : TryUnionAll(s, v, Predecessors(g, v)), inserts,
                            Ascending(Kinds(g, {"select"})))
    IN FoldLeft(LAMBDA s, v : UnionForwarding(g, ind, s, v), selects, PublicOrder(g)).root

-----------------------------------------------------------------------------
(* What has rows whatever the messages: constants, and what only forwards   *)
(* them.                                                                   *)
RECURSIVE Unconditional(_, _)
Unconditional(g, known) ==
    LET from(v) == LET w == GetIncomingView2(g.v[v].ins, g.v[v].att) IN w = NoView \/ w \in known
        always(v) ==
            LET view == g.v[v]
            IN CASE view.kind = "map" -> view.what.functor \in OneToOne /\ from(v)
                 [] view.kind = "merge" -> view.srcs # <<>> /\ Range(view.srcs) \subseteq known
                 [] view.kind = "select" -> view.decl \notin g.ios /\ Range(g.inss[view.decl]) \subseteq known
                 [] view.kind \in {"tuple", "insert"} -> from(v)
                 [] OTHER -> FALSE
        next == {v \in Live(g) : ~g.v[v].unsat /\ always(v)}
    IN IF next = known THEN known ELSE Unconditional(g, next)

(* TrackConstAfterInit stores what IsConditional answers. *)
ConstAfterInit(g) == Live(g) \ Unconditional(g, {})
=============================================================================
