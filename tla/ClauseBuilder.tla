----------------------------- MODULE ClauseBuilder -----------------------------
(***************************************************************************)
(* From clauses to views (lib/DataFlow/Build.cpp).                         *)
(*                                                                         *)
(* A clause is a head, its parameters and the groups of its body, which a   *)
(* barrier separates.  Variables are integers, the unnamed ones negative.  *)
(* A predicate is a declaration and its arguments.  The builder's state b  *)
(* holds the graph, the variable that each column of each view carries      *)
(* (`ids`), the views of the current group and of the groups still to come, *)
(* and the comparisons, functors and negations not applied yet; `c` is what *)
(* the clause's equalities and constants say of its variables.             *)
(***************************************************************************)
EXTENDS QueryGraph

True == "true"      \* the constant of the conditions' column
Missing == <<>>

Group0 == [preds |-> <<>>, negs |-> <<>>, eqs |-> <<>>, cmps |-> <<>>, consts |-> <<>>, aggs |-> <<>>,
           functors |-> <<>>]
All(clause, part) == FlattenSeq([k \in DOMAIN clause.groups |-> clause.groups[k][part]])

PredArgs(preds) == UNION {Range(preds[k].args) : k \in DOMAIN preds}
AggVars(aggs) ==
    UNION {UNION {Range(s) : s \in {aggs[k].pred.args, aggs[k].group, aggs[k].config, aggs[k].over, aggs[k].summary}}
           : k \in DOMAIN aggs}
Variables(clause) ==
    Range(clause.params) \cup PredArgs(clause.force)
    \cup PredArgs(All(clause, "preds") \o All(clause, "negs") \o All(clause, "functors"))
    \cup AggVars(All(clause, "aggs"))
    \cup UNION {{p[1], p[2]} : p \in Range(All(clause, "eqs"))}
    \cup UNION {{p[2], p[3]} : p \in Range(All(clause, "cmps"))}
    \cup {p[1] : p \in Range(All(clause, "consts"))}

(* The variables that equalities, or one literal, make the same: the union *)
(* of their disjoint sets, named after the first.                          *)
RECURSIVE Unify(_, _)
Unify(pairs, rep) ==
    LET next == [v \in DOMAIN rep |-> Min({rep[v]} \cup {rep[p[2]] : p \in {q \in pairs : q[1] = v}}
                                                   \cup {rep[p[1]] : p \in {q \in pairs : q[2] = v}})]
    IN IF next = rep THEN rep ELSE Unify(pairs, next)

Context(clause) ==
    LET consts == All(clause, "consts")
        equal == {pair \in Variables(clause) \X Variables(clause) :
                    \E k, m \in DOMAIN consts : /\ <<consts[k][1], consts[m][1]>> = pair
                                                /\ consts[k][2] = consts[m][2]}
        rep == Unify(equal \cup Range(All(clause, "eqs")), [v \in Variables(clause) |-> v])
        of(v) == SelectSeq(consts, LAMBDA p : rep[p[1]] = rep[v])
    IN [rep |-> rep,
        constant |-> [v \in DOMAIN rep |-> IF of(v) = <<>> THEN Missing ELSE Lit(of(v)[Len(of(v))][2])],
        consts |-> consts]

-----------------------------------------------------------------------------
(* The builder's steps. *)

New(b, view, ids) == [b EXCEPT !.g = Add(@, view), !.ids = Append(@, ids)]
Top(b) == Len(b.ids)
ViewCols(b, v) == Cols(b.g, v)

FindColVarInView(b, c, v, var) ==
    LET S == {i \in DOMAIN b.ids[v] : b.ids[v][i] = c.rep[var]}
    IN IF S = {} THEN c.constant[var] ELSE <<v, Min(S)>>
FindCols(b, c, v, vars) == [k \in DOMAIN vars |-> FindColVarInView(b, c, v, vars[k])]
Reps(c, vars) == [k \in DOMAIN vars |-> c.rep[vars[k]]]

Others(b, v, not) == SelectSeq(ViewCols(b, v), LAMBDA r : r \notin not)
IdsOf(b, refs) == [i \in DOMAIN refs |-> b.ids[refs[i][1]][refs[i][2]]]

(* A comparison of two columns, or of a constant and a column, of a view:   *)
(* the columns compared come first, equal ones as one column.              *)
CompareWith(b, op, left, right, ids, att) ==
    New(b, [NewView("cmp", op, Len(ids) + Len(att)) EXCEPT !.ins = <<left, right>>, !.att = att],
        ids \o IdsOf(b, att))
Compare(b, v, op, left, right, ids) == CompareWith(b, op, left, right, ids, Others(b, v, {left, right}))

(* Two columns of one variable must be equal, and only one is kept. *)
OnTop(b) == [b |-> b, v |-> Top(b)]
FirstPair(ids) ==
    LET i == Min({k \in DOMAIN ids : \E j \in k + 1 .. Len(ids) : ids[j] = ids[k]})
    IN <<i, Min({k \in i + 1 .. Len(ids) : ids[k] = ids[i]})>>
RECURSIVE Promote(_)
ComparePair(r, p) == Compare(r.b, r.v, "=", <<r.v, p[1]>>, <<r.v, p[2]>>, <<r.b.ids[r.v][p[1]]>>)
Promote(r) ==
    IF IsInjective(r.b.ids[r.v]) THEN r
    ELSE Promote(OnTop(ComparePair(r, FirstPair(r.b.ids[r.v]))))

Selecting(b, d) == [b EXCEPT !.g.sels[d] = Append(@, Top(b))]
BuildPredicate(b, c, pred) ==
    Promote(OnTop(Selecting(New(b, [NewView("select", None, Len(pred.args)) EXCEPT !.decl = pred.decl],
                                Reps(c, pred.args)), pred.decl)))

(* The inequalities whose two sides a view has, or are constants. *)
Inequality(r, c, cmp, sides) ==
    IF Missing \in Range(sides) THEN r
    ELSE OnTop([Compare(r.b, r.v, cmp[1], sides[1], sides[2], Reps(c, Tail(cmp))) EXCEPT
                   !.cmps = SelectSeq(@, LAMBDA p : p # cmp)])
GuardWithInequality(r0, c) ==
    FoldLeft(LAMBDA r, cmp : Inequality(r, c, cmp, FindCols(r.b, c, r.v, Tail(cmp))), r0, r0.b.cmps)

(* The columns of variables with a constant are compared with it; so is a   *)
(* second constant of one variable with the first.                         *)
FilterConstant(r, c, var, const, col) ==
    IF col = const THEN r ELSE OnTop(Compare(r.b, r.v, "=", const, col, <<c.rep[var]>>))
GuardViewWithFilter(b, c, v) ==
    GuardWithInequality(
        FoldLeft(LAMBDA r, assign : FilterConstant(r, c, assign[1], Lit(assign[2]),
                                                   FindColVarInView(r.b, c, r.v, assign[1])),
                 [b |-> b, v |-> v], c.consts), c)

(* A view of the clause's distinct constants, for a body that reads nothing. *)
Filtered(p, c) == GuardViewWithFilter(p.b, c, p.v)
ConstantsTuple(b, c, at) ==
    New(b, [NewView("tuple", None, Len(at)) EXCEPT !.ins = [i \in DOMAIN at |-> Lit(c.consts[at[i]][2])]],
        [i \in DOMAIN at |-> c.rep[c.consts[at[i]][1]]])
AllConstantsView(b, c) ==
    LET first == {i \in DOMAIN c.consts : \A j \in 1 .. i - 1 : c.consts[j][2] # c.consts[i][2]}
    IN Promote(Filtered(Promote(OnTop(ConstantsTuple(b, c, Ascending(first)))), c))

Replacing(r, views) == [r.b EXCEPT !.views = Append(views, r.v)]
ProductOf(b, all) ==
    New(b, [NewView("join", None, Len(all)) EXCEPT
               !.srcs = b.views, !.outs = [i \in DOMAIN all |-> <<all[i]>>]], IdsOf(b, all))
CreateProduct(b, c) ==
    Replacing(Filtered(OnTop(ProductOf(b, FlattenSeq([k \in DOMAIN b.views |-> ViewCols(b, b.views[k])]))), c), <<>>)

(* The views that share a column with the first view that shares one, the   *)
(* fewest such views: they are joined on all that they share.              *)
Sharing(b, views, id) == SelectSeq(views, LAMBDA v : id \in Range(b.ids[v]))
Rotations(views) == [k \in DOMAIN views |-> SubSeq(views, k, Len(views)) \o SubSeq(views, 1, k - 1)]
CanStart(b, views) == \E id \in Range(b.ids[views[1]]) : Len(Sharing(b, views, id)) > 1

FewestSharing(b, views) ==
    LET ids == b.ids[views[1]]
        size(i) == Len(Sharing(b, views, ids[i]))
        shared == {i \in DOMAIN ids : size(i) > 1}
    IN Sharing(b, views, ids[Min({i \in shared : \A j \in shared : size(i) <= size(j)})])

JoinOf(b, joined, pivots, rest) ==
    LET col(v, id) == CHOOSE r \in Range(ViewCols(b, v)) : IdsOf(b, <<r>>)[1] = id
    IN New(b, [NewView("join", None, Len(pivots) + Len(rest)) EXCEPT
                  !.srcs = joined, !.npiv = Len(pivots),
                  !.outs = [i \in DOMAIN pivots |-> [k \in DOMAIN joined |-> col(joined[k], pivots[i])]]
                           \o [i \in DOMAIN rest |-> <<rest[i]>>]],
           pivots \o IdsOf(b, rest))
JoinOn(b, joined, pivots) ==
    JoinOf(b, joined, pivots, SelectSeq(FlattenSeq([k \in DOMAIN joined |-> ViewCols(b, joined[k])]),
                                        LAMBDA r : IdsOf(b, <<r>>)[1] \notin Range(pivots)))
JoinViews(b, c, views, joined) ==
    Replacing(Filtered(Promote(OnTop(JoinOn(b, joined,
                  SelectSeq(b.ids[views[1]], LAMBDA id : Sharing(b, joined, id) = joined)))), c),
              SelectSeq(views, LAMBDA v : v \notin Range(joined)))

FindJoinCandidates(b, c) ==
    LET good == SelectSeq(Rotations(b.views), LAMBDA views : CanStart(b, views))
    IN IF Len(b.views) = 1 \/ good = <<>> THEN b
       ELSE JoinViews(b, c, good[1], FewestSharing(b, good[1]))

-----------------------------------------------------------------------------
(* Functors: the first declaration whose bound parameters the view has.     *)

MapOver(b, c, pred, v, bound, given, kept) ==
    LET args(at) == [k \in DOMAIN at |-> pred.args[at[k]]]
    IN New(b, [NewView("map", [functor |-> pred.decl, bound |-> bound, positive |-> pred.positive],
                       Len(pred.args) + Len(given) + Len(kept)) EXCEPT
                  !.ins = FindCols(b, c, v, args(Ascending(bound))),
                  !.att = FindCols(b, c, v, args(given)) \o kept],
           Reps(c, pred.args \o args(given)) \o IdsOf(b, kept))
Checked(r, compares) == IF compares THEN Promote(r) ELSE r
ApplyFunctor(b, c, pred, v, bound, has) ==
    LET ids == Range(Reps(c, pred.args))
        kept == SelectSeq(ViewCols(b, v), LAMBDA r : \A id \in {IdsOf(b, <<r>>)[1]} :
                                                        id \notin ids /\ c.constant[id] = Missing)
    IN Checked(OnTop(MapOver(b, c, pred, v, bound, Ascending(has \ bound), kept)), has # bound)
ReadyFunctor(b, c, pred, v, has) ==
    LET ready == SelectSeq(pred.bindings, LAMBDA bound : bound \subseteq has)
    IN IF ready = <<>> THEN [b |-> b, v |-> NoView] ELSE ApplyFunctor(b, c, pred, v, ready[1], has)
TryApplyFunctor(b, c, pred, v) ==
    ReadyFunctor(b, c, pred, v, {i \in DOMAIN pred.args : FindColVarInView(b, c, v, pred.args[i]) # Missing})

(* One pass over the functors for a view: while negations wait, at most one *)
(* is applied, so that the negations come as early as they can.            *)
InPlace(r, i) == [r.b EXCEPT !.views[i] = r.v]
Applied(st, r, c, i, pred) ==
    IF r.v = NoView THEN [st EXCEPT !.left = Append(@, pred)]
    ELSE [st EXCEPT !.b = InPlace(Filtered(r, c), i), !.applied = TRUE]
Unapplied(st) == [st.b EXCEPT !.functors = st.left]
FunctorPass(b0, c, i, only_filters) ==
    LET try(st, pred) ==
            IF (st.applied /\ b0.negs # <<>>) \/ (only_filters /\ ~pred.filter)
            THEN [st EXCEPT !.left = Append(@, pred)]
            ELSE Applied(st, TryApplyFunctor(st.b, c, pred, st.b.views[i]), c, i, pred)
    IN Unapplied(FoldLeft(try, [b |-> b0, left |-> <<>>, applied |-> FALSE], b0.functors))

RECURSIVE WhileFunctors(_, _, _, _)
WhileFunctors(b, c, i, only) ==
    LET h == FunctorPass(b, c, i, only) IN IF h.functors = b.functors THEN b ELSE WhileFunctors(h, c, i, only)
TryApplyFunctors(b, c, only) ==
    FoldLeft(LAMBDA x, i : WhileFunctors(x, c, i, only), b, [i \in DOMAIN b.views |-> i])

(* Negations: every named argument must be a column of the view, or a       *)
(* constant; the columns of unnamed arguments are projected away.          *)
NegatedSubset(sel, at) ==
    [b |-> New(sel.b, [NewView("tuple", None, Len(at)) EXCEPT !.ins = [k \in DOMAIN at |-> <<sel.v, at[k]>>]],
               [k \in DOMAIN at |-> sel.b.ids[sel.v][at[k]]]),
     v |-> Top(sel.b) + 1]

(* What is negated: the needed columns of the relation, as a view. *)
NegatedView(f, c, args) ==
    New(f.b, [NewView("tuple", None, Len(args)) EXCEPT !.negated = TRUE, !.ins = FindCols(f.b, c, f.v, args)],
        Reps(c, args))

NegateWith(h, c, pred, args, ins, att) ==
    [b |-> New(h, [NewView("negate", IF pred.never THEN "never" ELSE None, Len(ins) + Len(att)) EXCEPT
                      !.ins = ins, !.att = att, !.neg = Top(h)],
               Reps(c, args) \o IdsOf(h, att)),
     v |-> Top(h) + 1]
NegateColumns(h, c, pred, v, args, ins) == NegateWith(h, c, pred, args, ins, Others(h, v, Range(ins)))
NegateOver(h, c, pred, v, args) == NegateColumns(h, c, pred, v, args, FindCols(h, c, v, args))

NegateSelected(b, c, pred, v, sel, at) ==
    LET args == [k \in DOMAIN at |-> pred.args[at[k]]]
        all == Len(at) = Len(pred.args)
    IN IF ~all /\ Len(sel.b.ids[sel.v]) < Len(pred.args)
       THEN [b |-> [b EXCEPT !.g = Fault(@, "column out of bounds")], v |-> NoView]
       ELSE NegateOver(NegatedView(Filtered(IF all THEN sel ELSE NegatedSubset(sel, at), c), c, args), c, pred, v, args)

TryApplyNegation(b, c, pred, v) ==
    LET needed == {i \in DOMAIN pred.args : FindColVarInView(b, c, v, pred.args[i]) # Missing}
    IN IF \E i \in DOMAIN pred.args \ needed : pred.args[i] > 0 THEN [b |-> b, v |-> NoView]
       ELSE NegateSelected(b, c, pred, v, BuildPredicate(b, c, pred), Ascending(needed))

Negated(st, r, i, pred) ==
    IF r.v = NoView THEN [b |-> r.b, left |-> Append(st.left, pred)] ELSE [st EXCEPT !.b = InPlace(r, i)]
Unnegated(st) == [st.b EXCEPT !.negs = st.left]
NegationPass(b0, c, i) ==
    Unnegated(FoldLeft(LAMBDA st, pred : Negated(st, TryApplyNegation(st.b, c, pred, st.b.views[i]), i, pred),
                       [b |-> b0, left |-> <<>>], b0.negs))
TryApplyNegations(b, c) == FoldLeft(LAMBDA x, i : NegationPass(x, c, i), b, [i \in DOMAIN b.views |-> i])

GroupOver(base, c, agg) ==
    LET cols(vars) == FindCols(base.b, c, base.v, vars)
        vars == agg.group \o agg.config \o agg.summary
    IN OnTop(New(base.b, [NewView("agg", agg.functor, Len(vars)) EXCEPT
                             !.ins = cols(agg.group), !.conf = cols(agg.config), !.att = cols(agg.over)],
                 Reps(c, vars)))
AggregateOver(base, c, agg) ==
    LET found(var) == FindColVarInView(base.b, c, base.v, var) # Missing
    IN IF (\A var \in Range(agg.group \o agg.config \o agg.over) : found(var))
          /\ (\A var \in Range(agg.summary) : ~found(var))
       THEN Promote(GroupOver(base, c, agg))
       ELSE [b |-> [base.b EXCEPT !.g = Fault(@, "aggregate")], v |-> NoView]
ApplyAggregate(b, c, agg) == AggregateOver(BuildPredicate(b, c, agg.pred), c, agg)

-----------------------------------------------------------------------------
(* Conditions: relations without parameters, tested over a column of TRUE. *)

ExtendWithTrueColumn(b, v) ==
    New(b, [NewView("tuple", None, Len(b.ids[v]) + 1) EXCEPT !.ins = Append(ViewCols(b, v), Lit(True))],
        Append(b.ids[v], 0))
SelectUnit(b, d) ==
    LET h == New(b, [NewView("select", None, 1) EXCEPT !.decl = d], <<0>>)
    IN [h EXCEPT !.g.sels[d] = Append(@, Top(h))]
DropToken(b, n) ==
    LET v == Top(b)
    IN New(b, [NewView("tuple", None, n) EXCEPT !.ins = [i \in 1 .. n |-> <<v, i + 1>>]], Tail(b.ids[v]))

ApplyPositiveConditionTest(b, v, d) ==
    LET n == Len(b.ids[v])
        sel == SelectUnit(b, d)
        ext == ExtendWithTrueColumn(sel, v)
        e == Top(ext)
        join == New(ext, [NewView("join", None, n + 1) EXCEPT
                             !.srcs = <<e, Top(sel)>>, !.npiv = 1,
                             !.outs = << <<<<e, n + 1>>, <<Top(sel), 1>>>> >> \o [i \in 1 .. n |-> << <<e, i>> >>]],
                    <<0>> \o b.ids[v])
    IN DropToken(join, n)

ApplyNegativeConditionTest(b, v, d, never) ==
    LET n == Len(b.ids[v])
        sel == SelectUnit(b, d)
        negated == New(sel, [NewView("tuple", None, 1) EXCEPT !.negated = TRUE, !.ins = << <<Top(sel), 1>> >>], <<0>>)
        ext == ExtendWithTrueColumn(negated, v)
        e == Top(ext)
        negate == New(ext, [NewView("negate", IF never THEN "never" ELSE None, n + 1) EXCEPT
                               !.ins = << <<e, n + 1>> >>, !.att = [i \in 1 .. n |-> <<e, i>>],
                               !.neg = Top(negated)], <<0>> \o b.ids[v])
    IN DropToken(negate, n)

(* Each condition once, group by group, what must hold before what must not. *)
Conditions(preds) == SelectSeq(preds, LAMBDA p : p.args = <<>>)
ApplyConditionTests(b0, clause, v0) ==
    LET positive(st, p) ==
            IF p.decl \in st.yes THEN st
            ELSE LET b == ApplyPositiveConditionTest(st.b, st.v, p.decl)
                 IN [st EXCEPT !.b = b, !.v = Top(b), !.yes = @ \cup {p.decl}]
        negative(st, p) ==
            IF p.decl \in st.no THEN st
            ELSE LET b == ApplyNegativeConditionTest(st.b, st.v, p.decl, p.never)
                 IN [st EXCEPT !.b = b, !.v = Top(b), !.no = @ \cup {p.decl}]
        group(st, grp) == FoldLeft(negative, FoldLeft(positive, st, Conditions(grp.preds)), Conditions(grp.negs))
    IN FoldLeft(group, [b |-> b0, v |-> v0, yes |-> {}, no |-> {}], clause.groups)

-----------------------------------------------------------------------------
(* A clause. *)

(* The views of a group: one per predicate, then one per aggregate.         *)
AddView(st, r) == [b |-> r.b, views |-> Append(st.views, r.v)]
PredicateViews(b0, c, preds) ==
    FoldLeft(LAMBDA st, p : AddView(st, BuildPredicate(st.b, c, p)), [b |-> b0, views |-> <<>>], preds)
GroupViews(b0, c, grp, forced) ==
    FoldLeft(LAMBDA st, a : AddView(st, ApplyAggregate(st.b, c, a)),
             PredicateViews(b0, c, forced \o SelectSeq(grp.preds, LAMBDA p : p.args # <<>>)), grp.aggs)

AddGroup(r) == [r.b EXCEPT !.groups = Append(@, r.views)]
BuildGroups(b0, c, clause) ==
    FoldLeft(LAMBDA b, k : AddGroup(GroupViews(b, c, clause.groups[k], IF k = 1 THEN clause.force ELSE <<>>)),
             b0, [k \in DOMAIN clause.groups |-> k])

(* Each view is filtered by the constants and the inequalities it can be. *)
Placed(r, k, i) == [r.b EXCEPT !.groups[k][i] = r.v]
FilterGroup(b0, c, k) ==
    FoldLeft(LAMBDA b, i : Placed(Promote(GuardViewWithFilter(b, c, b.groups[k][i])), k, i), b0,
             [i \in DOMAIN b0.groups[k] |-> i])
FilterGroups(b0, c) == FoldLeft(LAMBDA b, k : FilterGroup(b, c, k), b0, [k \in DOMAIN b0.groups |-> k])

(* Filters, joins, functors and negations as long as one applies, then the  *)
(* views move on to the next group, and those left at last are multiplied. *)
(* At a group without views the work stops, with the last group's views.   *)
RECURSIVE CombineViews(_, _, _, _)
AfterNegations(b, h, c, product, k) ==
    IF h.negs # b.negs \/ h.g.fault # None THEN CombineViews(h, c, product, k)
    ELSE IF k < Len(b.groups) THEN CombineViews([b EXCEPT !.views = b.groups[k + 1] \o @], c, product, k + 1)
    ELSE IF Len(b.views) = 1 THEN b
    ELSE IF product THEN CombineViews(CreateProduct(b, c), c, product, k)
    ELSE [b EXCEPT !.g = Fault(@, "needs a product")]
AfterFunctors(b, h, c, product, k) ==
    IF h.functors # b.functors THEN CombineViews(h, c, product, k)
    ELSE AfterNegations(b, TryApplyNegations(b, c), c, product, k)
AfterJoins(b, h, c, product, k) ==
    IF h.views # b.views THEN CombineViews(h, c, product, k)
    ELSE AfterFunctors(b, TryApplyFunctors(b, c, FALSE), c, product, k)
AfterFilters(b, h, c, product, k) ==
    IF h.functors # b.functors THEN CombineViews(h, c, product, k)
    ELSE AfterJoins(b, FindJoinCandidates(b, c), c, product, k)
CombineViews(b, c, product, k) ==
    IF b.g.fault # None THEN b
    ELSE IF b.views = <<>> THEN [b EXCEPT !.views = IF k = Len(b.groups) THEN <<>> ELSE b.groups[Len(b.groups)]]
    ELSE AfterFilters(b, TryApplyFunctors(b, c, TRUE), c, product, k)

HeadOf(b, c, params, v, cols) ==
    IF params = <<>> THEN [b |-> b, v |-> v]
    ELSE IF Missing \in Range(cols) THEN [b |-> [b EXCEPT !.g = Fault(@, "not range restricted")], v |-> v]
    ELSE OnTop(New(b, [NewView("tuple", None, Len(cols)) EXCEPT !.ins = cols], Reps(c, params)))
ConvertToClauseHead(b, c, params, v) == HeadOf(b, c, params, v, FindCols(b, c, v, params))

AddHead(b, d, ins, att) ==
    LET h == New(b, [NewView("insert", None, 0) EXCEPT !.decl = d, !.ins = ins, !.att = att], <<>>)
    IN [h EXCEPT !.g.inss[d] = Append(@, Top(h))]
InsertHead(b, clause, v) ==
    LET witness == New(b, [NewView("tuple", None, 2) EXCEPT !.ins = <<Lit(True), <<v, 1>>>>], <<0, b.ids[v][1]>>)
        w == Top(witness)
    IN IF clause.params # <<>> THEN AddHead(b, clause.head, ViewCols(b, v), <<>>)
       ELSE AddHead(witness, clause.head, << <<w, 1>> >>, << <<w, 2>> >>)

Uses(clause, var) ==
    LET uses(s) == Cardinality({k \in DOMAIN s : s[k] = var})
        in_preds(preds) == FoldLeft(LAMBDA n, p : n + uses(p.args), 0, preds)
        in_pairs(pairs, from) == FoldLeft(LAMBDA n, p : n + uses(SubSeq(p, from, from + 1)), 0, pairs)
    IN uses(clause.params)
       + in_preds(clause.force \o All(clause, "preds") \o All(clause, "negs") \o All(clause, "functors"))
       + in_pairs(All(clause, "eqs"), 1) + in_pairs(All(clause, "cmps"), 2)
       + Len(SelectSeq(All(clause, "consts"), LAMBDA p : p[1] = var))
       + (IF var \in AggVars(All(clause, "aggs")) THEN 2 ELSE 0)

(* What is refused before any view is made, and after all were combined.    *)
Refused(clause, c) ==
    IF \E cmp \in Range(All(clause, "cmps")) : c.rep[cmp[2]] = c.rep[cmp[3]] THEN "contradictory comparison"
    ELSE IF \E v \in Variables(clause) : v > 0 /\ Uses(clause, v) = 1 THEN "variable used once"
    ELSE None
Unfinished(b) ==
    IF b.functors # <<>> THEN "functor not applied"
    ELSE IF b.negs # <<>> THEN "negation not applied"
    ELSE IF b.cmps # <<>> THEN "comparison not applied"
    ELSE None

NotBuilt(b, what) == [g |-> Fault(b.g, what), ids |-> b.ids]

(* The stages of a clause, each with what the one before made. *)
WithHead(head, clause) ==
    LET insert(r) == InsertHead(r.b, clause, r.v)
        done(b) == [g |-> b.g, ids |-> b.ids]
    IN IF head.b.g.fault # None THEN NotBuilt(head.b, head.b.g.fault)
       ELSE done(insert(ApplyConditionTests(head.b, clause, head.v)))

WithBody(b, c, clause) ==
    IF b.g.fault # None THEN NotBuilt(b, b.g.fault)
    ELSE IF Unfinished(b) # None THEN NotBuilt(b, Unfinished(b))
    ELSE IF b.views = <<>> THEN NotBuilt(b, "no view in the last group")
    ELSE WithHead(ConvertToClauseHead(b, c, clause.params, b.views[1]), clause)

Combined(b, c, clause) ==
    WithBody(CombineViews([b EXCEPT !.views = @ \o b.groups[1]], c, clause.product, 1), c, clause)
InEachGroup(r) == [r.b EXCEPT !.groups = [k \in DOMAIN @ |-> <<r.v>>]]

WithGroups(built, c, clause) ==
    IF built.g.fault # None THEN NotBuilt(built, built.g.fault)
    ELSE IF FlattenSeq(built.groups) = <<>> /\ c.consts = <<>> THEN NotBuilt(built, "no views")
    ELSE Combined(FilterGroups(IF FlattenSeq(built.groups) # <<>> THEN built
                               ELSE InEachGroup(AllConstantsView(built, c)), c), c, clause)

BuildClause(g, ids, c, clause) ==
    LET b0 == [g |-> g, ids |-> ids, views |-> <<>>, groups |-> <<>>, cmps |-> All(clause, "cmps"),
               functors |-> All(clause, "functors"),
               negs |-> SelectSeq(All(clause, "negs"), LAMBDA p : p.args # <<>>)]
    IN IF Refused(clause, c) # None THEN NotBuilt(b0, Refused(clause, c))
       ELSE WithGroups(BuildGroups(b0, c, clause), c, clause)
=============================================================================
