---------------------------------- MODULE Link ----------------------------------
(***************************************************************************)
(* The last changes to the graph of views before it is given to the         *)
(* control-flow builder (lib/DataFlow: Constant.cpp, Link.cpp,             *)
(* Induction.cpp): tuples in front of what is to be stored, and unions      *)
(* where rows leave an inductive set.                                      *)
(***************************************************************************)
EXTENDS Optimize

(* A new tuple stands between a view and what it reads.                    *)
ReadThroughTuple(g, v) ==
    LET view == g.v[v]
        t == Newest(g) + 1
        from(k, s) == [i \in DOMAIN s |-> <<t, k + i>>]
        m == Len(view.ins)
        n == m + Len(view.conf)
    IN [Add(g, Forwarding(g, view.ins \o view.conf \o view.att)) EXCEPT
           !.v[v].ins = from(0, @), !.v[v].conf = from(m, @), !.v[v].att = from(n, @)]

ConvertConstantInputsToTuples(g) ==
    LET constant == {v \in Kinds(g, {"insert", "cmp", "negate", "map", "agg"}) :
                        GetIncomingView(g.v[v].ins \o g.v[v].conf \o g.v[v].att) = NoView}
    IN FoldLeft(ReadThroughTuple, g, Ascending(constant))
ProxyInsertsWithTuples(g) == FoldLeft(ReadThroughTuple, g, Ascending(Kinds(g, {"insert"})))

-----------------------------------------------------------------------------
(* LinkViews: what a negation, a join, a union or an insert reads becomes a *)
(* tuple, which can be stored.                                             *)

IsTuple(g, v) == g.v[v].kind = "tuple"
ProxyOf(g, w) == Add(g, Forwarding(g, Cols(g, w)))

ProxyNegatedViews(g, v) ==
    LET negated == g.v[v].neg
        h == IF IsTuple(g, negated) THEN g
             ELSE [ProxyOf(g, negated) EXCEPT !.v[v].neg = Newest(g) + 1]
        incoming == GetIncomingView(g.v[v].ins)
    IN IF incoming = NoView \/ IsTuple(g, incoming) THEN h ELSE ReadThroughTuple(h, v)

ProxyMergedView(g, v, i) ==
    LET w == g.v[v].srcs[i]
    IN IF IsTuple(g, w) THEN g ELSE [ProxyOf(g, w) EXCEPT !.v[v].srcs[i] = Newest(g) + 1]
ProxyMergedViews(g, v) ==
    FoldLeft(LAMBDA h, i : ProxyMergedView(h, v, i), g, [i \in DOMAIN g.v[v].srcs |-> i])

(* The views of a product are stored on their own, even if they are tuples. *)
ProxyJoinedView(g, v, i) ==
    LET w == g.v[v].srcs[i]
        t == Newest(g) + 1
        past(r) == IF r[1] = w THEN <<t, Index(g, r)>> ELSE r
        replaced(s) == [k \in DOMAIN s |-> past(s[k])]
    IN IF IsTuple(g, w) /\ g.v[v].npiv # 0 THEN g
       ELSE [ProxyOf(g, w) EXCEPT !.v[v].srcs[i] = t, !.v[v].outs = [k \in DOMAIN @ |-> replaced(@[k])]]
ProxyJoinedViews(g, v) ==
    FoldLeft(LAMBDA h, i : ProxyJoinedView(h, v, i), g, [i \in DOMAIN g.v[v].srcs |-> i])

ProxyInsert(g, v) ==
    LET incoming == GetIncomingView2(g.v[v].ins, g.v[v].att)
    IN IF incoming = NoView \/ IsTuple(g, incoming) THEN g ELSE ReadThroughTuple(g, v)

LinkViews(g, recursive) ==
    LET all(h, proxy(_, _), kind) == FoldLeft(proxy, h, Ascending(Kinds(h, {kind})))
        negated == all(g, ProxyNegatedViews, "negate")
        joined == IF recursive THEN negated ELSE all(negated, ProxyJoinedViews, "join")
    IN Evaluated(all(all(joined, ProxyMergedViews, "merge"), ProxyInsert, "insert"))

Predecessors(g, v) ==
    LET view == g.v[v]
    IN (CASE view.kind \in {"merge", "join"} -> Range(view.srcs)
          [] view.kind = "select" -> IF view.decl \in g.ios THEN {} ELSE Range(g.inss[view.decl])
          [] view.kind = "agg" -> {GetIncomingView(view.ins \o view.conf), GetIncomingView(view.att)}
          [] OTHER -> {GetIncomingView2(view.ins, view.att)}) \ {NoView}

(* What each view feeds; a negation is also fed by the view it negates.    *)
Fed(g) ==
    LET by == [v \in Live(g) |-> Predecessors(g, v) \cup ({g.v[v].neg} \ {NoView})]
    IN [u \in Live(g) |-> {v \in Live(g) : u \in by[v]}]
Successors(g, v) == {u \in Live(g) : v \in Predecessors(g, u)}

(* The depth of what is stored last is taken first. *)
FinalizeDepths(g) ==
    DepthsFrom(g, SelectSeq(Ascending(Kinds(g, {"insert"})), LAMBDA v : Successors(g, v) = {}))
=============================================================================
