----------------------------- MODULE Canonicalize -----------------------------
(***************************************************************************)
(* The canonicalization of each kind of view (lib/DataFlow: Tuple.cpp,     *)
(* Compare.cpp, Map.cpp, Join.cpp, Negate.cpp, Merge.cpp, Select.cpp,      *)
(* KVIndex.cpp, Aggregate.cpp, Insert.cpp).  Each operator gives the graph *)
(* after the call and what the call returned: whether a change may concern *)
(* other views.  `opt` says whether unused columns are removed and whether *)
(* inputs are replaced with constants.                                     *)
(***************************************************************************)
EXTENDS QueryGraph

Done(g, ret) == [g |-> g, ret |-> ret]
(* A view that can have no row is left as it is. *)
EvenIfUnsat(g, v, rewritten) == rewritten
UnlessUnsat(g, v, rewritten) ==
    IF g.v[v].unsat THEN Done([g EXCEPT !.v[v].canon = TRUE], FALSE) ELSE rewritten
Where(s, good) == {i \in DOMAIN s : s[i] \in good}
FirstOf(S) == IF S = {} THEN 0 ELSE Min(S)

Returns(st) == "non_local" \in st.has

(* A view is rebuilt with some of its columns: their users are told. *)
Rebuilt(g, v, kept, ins, att) ==
    LET h == Update(g, UNION {ColUsers(g, <<v, k>>) : k \in Range(kept)})
    IN [h EXCEPT !.v[v].cols = kept, !.v[v].ins = ins, !.v[v].att = att, !.v[v].canon = TRUE,
                 !.v[v].hash = {}, !.v[v].colhash = NoColumnHash(Len(@))]
(* A rebuild that would change nothing. *)
AsBefore(g, v) == [g EXCEPT !.v[v].canon = TRUE, !.v[v].hash = {}]

Picked(s, S) == [i \in 1 .. Cardinality(S) |-> s[Ascending(S)[i]]]

(* Inputs resolved to constants, save the one that is kept as an edge.     *)
Resolved(g, ins, kept) ==
    [i \in DOMAIN ins |-> IF i = kept THEN ins[i] ELSE TryResolveToConstant(g, ins[i])]

(* The index of the input to keep so that the view still reads what it is  *)
(* derived from, although no kept input that varies does: the rows of a    *)
(* view with only constants must still come and go with those it reads.    *)
EdgeToKeep(g, incoming, ins, used, preferred, mine) ==
    LET from == {i \in DOMAIN ins : ~IsConstant(ins[i]) /\ ins[i][1] = incoming}
    IN IF incoming = NoView \/ ~mine \/ \E i \in from \cap used : ~IsConstantRef(g, ins[i]) THEN 0
       ELSE IF from \cap preferred # {} THEN Min(from \cap preferred) ELSE FirstOf(from)

(* A comparison, a map or a negation whose first columns are its own: they  *)
(* stay, the attached ones go when unused, and a tuple guards the shape    *)
(* for the users when a column is a constant or a duplicate.               *)
Guards(st, v) ==
    /\ st.has \cap {"guardable", "duplicated"} # {}
    /\ ~IsUsedDirectly(st.g, v)
    /\ ~(OnlyUser(st.g, v) # NoView /\ "directly_used" \in st.has)
FilterInputs(g, v, incoming, first, changes) ==
    LET view == g.v[v]
        n == Len(view.ins)
        all == view.ins \o view.att
        live == {j \in DOMAIN view.att : ColIsUsed(g, Col(g, v, first + j))}
        keep == EdgeToKeep(g, incoming, all, (1 .. n) \cup {j + n : j \in live}, DOMAIN all, IsUsed(g, v))
        kept == live \cup ({keep - n} \cap DOMAIN view.att)
        new == Resolved(g, all, keep)
        cols == SubSeq(view.cols, 1, first) \o Picked(SubSeq(view.cols, first + 1, Len(view.cols)), kept)
    IN IF kept = DOMAIN view.att /\ new = all THEN Done(AsBefore(g, v), changes)
       ELSE Done(Rebuilt(g, v, cols, SubSeq(new, 1, n), Picked(SubSeq(new, n + 1, Len(new)), kept)),
                 changes \/ kept # DOMAIN view.att)
FilterRebuild(st, v, incoming, first) ==
    FilterInputs(IF Guards(st, v) THEN GuardWithOptimizedTuple(st.g, v, first, st.map) ELSE st.g,
                 v, incoming, first, Returns(st) \/ Guards(st, v))

(* What a view reads, past trivial tuples and unions. *)
PulledBy(pull, start, v) ==
    LET same == pull.c1 = start.g.v[v].ins /\ pull.c2 = start.g.v[v].att
    IN [view |-> pull.view, ins |-> pull.c1, att |-> pull.c2,
        st |-> [start EXCEPT !.g = IF same THEN @ ELSE [@ EXCEPT !.v[v].ins = pull.c1, !.v[v].att = pull.c2,
                                                                 !.v[v].canon = FALSE]]]
Pulled(g0, v) ==
    LET view == g0.v[v]
    IN PulledBy(PullDataFromBeyondTrivialTuples(Scan(g0, v).g, v, GetIncomingView2(view.ins, view.att),
                                                view.ins, view.att),
                Scan(g0, v), v)
Unsatisfied(g, incoming) == incoming # NoView /\ g.v[incoming].unsat
Muted(st) == [st EXCEPT !.has = @ \ {"duplicated"}]

-----------------------------------------------------------------------------
(* TUPLE *)

TupleRebuild(st, v, incoming) ==
    LET g == st.g  view == g.v[v]
        used == {i \in DOMAIN view.cols : ColIsUsed(g, Col(g, v, i))}
        keep == EdgeToKeep(g, incoming, view.ins, used, used, IsUsed(g, v))
        kept == used \cup ({keep} \ {0})
        ins == Resolved(g, view.ins, keep)
        h == Rebuilt(g, v, Picked(view.cols, kept), Picked(ins, kept), <<>>)
    IN IF kept = DOMAIN view.cols /\ ins = view.ins
       THEN Done(AsBefore(g, v), Returns(st))
       ELSE IF kept = {} THEN Done(PrepareToDelete(h, v), IsUsed(h, v))
       ELSE Done(h, Returns(st) \/ kept # DOMAIN view.cols)

Unsatisfiable(g, v) == Done(MarkAsUnsatisfiable(g, v), TRUE)
TupleScanned(st, v, incoming) ==
    IF st.g.v[v].canon THEN Done(st.g, Returns(st)) ELSE TupleRebuild(st, v, incoming)
TuplePulled(p, v) ==
    IF Unsatisfied(p.st.g, p.view) THEN Unsatisfiable(p.st.g, v)
    ELSE TupleScanned(ScanColumns(p.st, v, p.ins, p.st.g.v[v].cols, TRUE), v, p.view)
CanonicalizeTuple(g0, v, opt) == UnlessUnsat(g0, v, TuplePulled(Pulled(g0, v), v))

(* Whether a tuple forwards all the columns of a view in their order. *)
ForwardsAllInputsAsIs(g, v, incoming) ==
    incoming # NoView /\ g.v[v].ins = Cols(g, incoming)

-----------------------------------------------------------------------------
(* COMPARE *)

FirstAttached(view) == IF view.kind = "cmp" /\ view.what = "=" THEN 1 ELSE 2

(* A comparison that always holds becomes a tuple. *)
TrivialCompare(g, v, ins) ==
    LET t == Newest(g) + 1
        h == Add(g, [NewView("tuple", None, Len(g.v[v].cols)) EXCEPT !.ins = ins])
    IN Done(ReplaceAllUsesWith(h, v, t), TRUE)

(* Sinking through a merge: one comparison per merged view. *)
SunkCompare(g, v, merge, merged) ==
    LET view == g.v[v]
        via(s) == [i \in DOMAIN s |-> IF s[i][1] = merge THEN Col(g, merged, Index(g, s[i])) ELSE s[i]]
    IN [NewView("cmp", view.what, Len(view.cols)) EXCEPT !.ins = via(view.ins), !.att = via(view.att)]

TrySinkThroughMerge(g, v, merge) ==
    LET srcs == g.v[merge].srcs
        n == Newest(g)
        sunk == [i \in DOMAIN srcs |-> SunkCompare(g, v, merge, srcs[i])]
        lifted == [NewView("merge", None, Len(g.v[v].cols)) EXCEPT !.srcs = [i \in DOMAIN srcs |-> n + i]]
        h == [g EXCEPT !.v = @ \o sunk \o <<lifted>>]
    IN Done(ReplaceAllUsesWith(h, v, Newest(h)), TRUE)

(* Sinking through a negation: a comparison of what the negation reads, a  *)
(* negation of the same view over it, and a tuple with the columns of v.   *)
(* The negation has a column for each column of the negated view and one   *)
(* for each further column that the tuple demands.                         *)
SunkParts(g, v, n) ==
    LET cmp == g.v[v]  neg == g.v[n]
        first == FirstAttached(cmp)
        k == Len(g.v[neg.neg].cols)
        negate_in(r) == IF r[1] = n THEN (neg.ins \o neg.att)[Index(g, r)] ELSE r
        cmp_ins == cmp.ins \o cmp.att
        out_of(i) == IF i <= 2 THEN Min({i, first}) ELSE i - 2 + first
        (* The column of the comparison that forwards a column of the negation: the last use counts. *)
        to_cmp_out(c) == LET S == {i \in DOMAIN cmp_ins : cmp_ins[i] = Col(g, n, c)}
                         IN IF S = {} THEN 0 ELSE out_of(Max(S))
        const(i) == IsConstantOrConstantRef(g, Col(g, v, i))
        found(i) == {c \in 1 .. k : to_cmp_out(c) = i}
        demanded == Ascending({i \in DOMAIN cmp.cols : ~const(i) /\ found(i) = {}})
        at(i) == IF found(i) # {} THEN Min(found(i))
                 ELSE k + CHOOSE j \in DOMAIN demanded : demanded[j] = i
        (* Each column of the negation: a compared column, or one to attach. *)
        source(j) == LET out == IF j <= k THEN to_cmp_out(j) ELSE demanded[j - k]
                     IN IF out \in 1 .. first THEN <<out, out>>
                        ELSE <<0, IF j <= k THEN negate_in(Col(g, n, j))
                                  ELSE negate_in(cmp.att[demanded[j - k] - first])>>
        total == k + Len(demanded)
        attached == SelectSeq([j \in 1 .. total |-> j], LAMBDA j : source(j)[1] = 0)
    IN [cmp_ins |-> [i \in 1 .. 2 |-> negate_in(cmp.ins[i])],
        cmp_att |-> [i \in DOMAIN attached |-> source(attached[i])[2]],
        cmp_cols |-> first + Len(attached),
        neg_ins |-> [j \in 1 .. total |->
                       IF source(j)[1] # 0 THEN source(j)[1]
                       ELSE first + CHOOSE a \in DOMAIN attached : attached[a] = j],
        tuple |-> [i \in DOMAIN cmp.cols |->
                     IF const(i) THEN AsConstant(g, Col(g, v, i)) ELSE <<NoView, at(i)>>],
        num_neg |-> k,
        plain |-> {i \in DOMAIN cmp.cols : ~const(i)}]

SinkNegate(g, v, n, p) ==
    LET c == Newest(g) + 1
        outs == [j \in DOMAIN p.neg_ins |-> <<c, p.neg_ins[j]>>]
        cmp == [NewView("cmp", g.v[v].what, p.cmp_cols) EXCEPT !.ins = p.cmp_ins, !.att = p.cmp_att]
        neg == [NewView("negate", None, Len(outs)) EXCEPT
                  !.ins = SubSeq(outs, 1, p.num_neg), !.att = SubSeq(outs, p.num_neg + 1, Len(outs)),
                  !.neg = g.v[n].neg]
        tup == [NewView("tuple", None, Len(p.tuple)) EXCEPT
                  !.ins = [i \in DOMAIN p.tuple |->
                             IF i \in p.plain THEN <<c + 1, p.tuple[i][2]>> ELSE p.tuple[i]]]
        h == [g EXCEPT !.v = @ \o <<cmp, neg, tup>>, !.v[g.v[n].neg].negated = TRUE]
    IN Done(ReplaceAllUsesWith(h, v, c + 2), TRUE)
TrySinkThroughNegate(g, v, n) == SinkNegate(g, v, n, SunkParts(g, v, n))

TrySink(g, v) ==
    LET pred == GetIncomingView2(g.v[v].ins, g.v[v].att)
    IN IF pred = NoView \/ g.v[pred].negated THEN Done(g, FALSE)
       ELSE CASE g.v[pred].kind = "merge" -> TrySinkThroughMerge(g, v, pred)
              [] g.v[pred].kind = "negate" -> TrySinkThroughNegate(g, v, pred)
              [] OTHER -> Done(g, FALSE)

(* Whether the constants that a comparison's two sides are decide it. *)
Sides(g, ins) == {AsConstant(g, ins[1]), AsConstant(g, ins[2])}
Distinct(c) == Cardinality(c) = 2 /\ \A r \in c : IsUniqueConstant(r)
CompareHolds(g, what, ins) ==
    IF what = "=" THEN ins[1] = ins[2] ELSE what = "!=" /\ Distinct(Sides(g, ins))
CompareFails(g, what, ins) ==
    IF what = "=" THEN Distinct(Sides(g, ins))
    ELSE ins[1] = ins[2] \/ \E r \in Sides(g, ins) : IsConstant(r) /\ Sides(g, ins) = {r}

(* The attached columns of a filter come after its own, the first ones. *)
ScanAttached(st, v, att, first) ==
    LET cols == st.g.v[v].cols IN ScanColumns(st, v, att, SubSeq(cols, first + 1, Len(cols)), TRUE)

CompareScanned(st, v, incoming, first) ==
    IF st.g.v[v].canon THEN [TrySink(st.g, v) EXCEPT !.ret = @ \/ Returns(st)]
    ELSE FilterRebuild(st, v, incoming, first)

CompareOwn(st, p, v) ==
    LET view == st.g.v[v]
        ins == IF view.what = "=" THEN <<p.ins[1]>> ELSE p.ins
    IN IF CompareHolds(p.st.g, view.what, p.ins) THEN TrivialCompare(st.g, v, ins \o p.att)
       ELSE IF CompareFails(p.st.g, view.what, p.ins)
       THEN Done([MarkAsUnsatisfiable(st.g, v) EXCEPT !.v[v].canon = TRUE], TRUE)
       ELSE CompareScanned(ScanAttached(st, v, p.att, FirstAttached(view)), v, p.view, FirstAttached(view))

ComparePulled(p, v) ==
    LET cols == p.st.g.v[v].cols
        own == IF p.st.g.v[v].what = "=" THEN <<cols[1], cols[1]>> ELSE SubSeq(cols, 1, 2)
    IN IF Unsatisfied(p.st.g, p.view) THEN Unsatisfiable(p.st.g, v)
       ELSE CompareOwn(ScanColumns(p.st, v, p.ins, own, FALSE), p, v)
CanonicalizeCompare(g0, v, opt) == UnlessUnsat(g0, v, ComparePulled(Pulled(g0, v), v))

-----------------------------------------------------------------------------
(* MAP: `what` is the functor, the positions of its bound parameters and   *)
(* whether the application is positive.                                    *)

FilterScanned(st, v, incoming, first) ==
    IF st.g.v[v].canon THEN Done(st.g, Returns(st)) ELSE FilterRebuild(st, v, incoming, first)

MapPulled(p, v) ==
    LET view == p.st.g.v[v]
        arity == Len(view.cols) - Len(view.att)
        bound == Ascending(view.what.bound)
        own == ScanColumns(p.st, v, p.ins, [j \in DOMAIN bound |-> view.cols[bound[j]]], FALSE)
    IN IF Unsatisfied(p.st.g, p.view) THEN Unsatisfiable(p.st.g, v)
       ELSE FilterScanned(ScanAttached(Muted(own), v, p.att, arity), v, p.view, arity)
CanonicalizeMap(g0, v, opt) == UnlessUnsat(g0, v, MapPulled(Pulled(g0, v), v))

-----------------------------------------------------------------------------
(* NEGATE *)

(* The negation of what can have no row always holds. *)
VacuousNegate(g, v) ==
    LET t == Newest(g) + 1
        h == Add(g, [NewView("tuple", None, Len(g.v[v].cols)) EXCEPT !.ins = g.v[v].ins \o g.v[v].att])
    IN ReplaceAllUsesWith(h, v, t)

NegatePulled(p, v) ==
    LET view == p.st.g.v[v]
        first == Len(view.ins)
        own == ScanColumns(p.st, v, p.ins, SubSeq(view.cols, 1, first), FALSE)
    IN IF Unsatisfied(p.st.g, p.view) THEN Unsatisfiable(p.st.g, v)
       ELSE IF p.st.g.v[view.neg].unsat THEN Done(VacuousNegate(p.st.g, v), TRUE)
       ELSE FilterScanned(ScanAttached(Muted(own), v, p.att, first), v, p.view, first)
CanonicalizeNegate(g0, v, opt) == UnlessUnsat(g0, v, NegatePulled(Pulled(g0, v), v))

-----------------------------------------------------------------------------
(* JOIN *)

JoinInputs(view) == FlattenSeq([i \in DOMAIN view.outs |-> [k \in DOMAIN view.outs[i] |-> <<i, view.outs[i][k]>>]])

(* What the columns of a join learn from their inputs; an input of two     *)
(* columns makes the users of the later one read the earlier one.          *)
LearnFrom(g, out, in, st, again, i) ==
    [g |-> CopyConstantFrom(g, out, in), repeated |-> st.repeated \/ again,
     map |-> IF again THEN st.map ELSE st.map @@ (in :> i)]
LearnInput(st, v, out, in, i) ==
    LET again == in \in DOMAIN st.map
    IN LearnFrom(IF again THEN ReplaceCol(st.g, out, Col(st.g, v, st.map[in])) ELSE st.g, out, in, st, again, i)
LearnFromInputs(g0, v) ==
    FoldLeft(LAMBDA st, p : LearnInput(st, v, Col(st.g, v, p[1]), p[2], p[1]),
             [g |-> g0, map |-> <<>>, repeated |-> FALSE], JoinInputs(g0.v[v]))

(* Of the columns with the same first input only one is kept, with the     *)
(* inputs it has; a tuple forwards it for each of them.                    *)
KeptOuts(view, map) ==
    {i \in DOMAIN view.outs : \A j \in 1 .. i - 1 : map[view.outs[j][1]] # map[view.outs[i][1]]}
DropOuts(g, v, map, kept) ==
    LET view == g.v[v]
        same(i) == CHOOSE j \in kept : map[view.outs[j][1]] = map[view.outs[i][1]]
    IN [g EXCEPT !.v[Newest(g)].ins = [i \in DOMAIN view.cols |-> Col(g, v, same(i))],
                 !.v[v].cols = Picked(@, kept), !.v[v].outs = Picked(@, kept),
                 !.v[v].konst = [k \in DOMAIN @ |-> None], !.v[v].colhash = NoColumnHash(Len(@)),
                 !.v[v].npiv = Cardinality({i \in kept : Len(view.outs[i]) > 1})]
DropRepeatedOuts(g, v, map) ==
    DropOuts(SubstituteAllUsesWith(Add(g, NewView("tuple", None, Len(g.v[v].cols))), v, Newest(g) + 1), v, map,
             KeptOuts(g.v[v], map))

ConvertTrivialJoinToTuple(g, v) ==
    Forwards(ReplaceAllUsesWith(Add(g, Twin(g, v)), v, Newest(g) + 1),
             [i \in DOMAIN g.v[v].outs |-> g.v[v].outs[i][1]])

(* A tuple between the join and each view with a column it does not need. *)
NeededOuts(g, v) == {i \in DOMAIN g.v[v].cols : i <= g.v[v].npiv \/ IsUsedIgnoreMerges(g, Col(g, v, i))}
NeededInputs(g, v) == UNION {Range(g.v[v].outs[i]) : i \in NeededOuts(g, v)}

Narrowed(g, v, needed, s) ==
    LET keep == {i \in DOMAIN g.v[s].cols : Col(g, s, i) \in needed}
        ins == Picked(Cols(g, s), keep)
        t == Newest(g) + 1
        tup == [NewView("tuple", None, Len(ins)) EXCEPT
                   !.ins = ins, !.konst = [i \in DOMAIN ins |-> Konst(g, ins[i])],
                   !.prod = g.v[s].prod, !.recv = g.v[s].recv]
        moved(r) == IF r \in Range(ins) THEN <<t, CHOOSE i \in DOMAIN ins : ins[i] = r>> ELSE r
    IN IF keep = DOMAIN g.v[s].cols THEN g
       ELSE [Add(g, tup) EXCEPT
               !.v[v].srcs = Subst(@, s, t),
               !.v[v].outs = [i \in DOMAIN @ |-> [k \in DOMAIN @[i] |-> moved(@[i][k])]]]

HasUnneededColumns(g, v) ==
    LET view == g.v[v]
        used == NeededOuts(g, v)
    IN used # DOMAIN view.cols
       \/ Len(JoinInputs(view)) < FoldLeft(LAMBDA n, s : n + Len(g.v[s].cols), 0, view.srcs)

Woken(g, v, kept) == Update(g, UNION {ColUsers(g, Col(g, v, i)) : i \in kept})
KeepOuts(g, v, kept) ==
    [g EXCEPT !.v[v].cols = Picked(@, kept), !.v[v].outs = Picked(@, kept), !.v[v].canon = FALSE,
               !.v[v].colhash = NoColumnHash(Len(@))]
NarrowedAll(g, v, needed) == FoldLeft(LAMBDA x, s : Narrowed(x, v, needed, s), g, g.v[v].srcs)
ProxyUnusedInputColumns(g, v) ==
    KeepOuts(Woken(NarrowedAll(g, v, NeededInputs(g, v)), v, NeededOuts(g, v)), v, NeededOuts(g, v))

(* A joined view that died left a null pointer: the code reads through it. *)
ReadsNull(g, v) == \E s \in Range(g.v[v].srcs) : g.v[s].dead

RECURSIVE CanonicalizeJoin(_, _, _)
JoinLearned(l, v, opt) ==
    LET g == l.g
    IN IF l.repeated
       THEN IF KeptOuts(g.v[v], l.map) = DOMAIN g.v[v].outs
            THEN Done(Fault(g, "endless recursion"), TRUE)
            ELSE [CanonicalizeJoin(DropRepeatedOuts(g, v, l.map), v, opt) EXCEPT !.ret = TRUE]
       ELSE IF opt.unused /\ ~IsUsedDirectly(g, v) /\ ReadsNull(g, v)
       THEN Done(Fault(g, "null joined view"), TRUE)
       ELSE IF opt.unused /\ ~IsUsedDirectly(g, v) /\ HasUnneededColumns(g, v)
       THEN Done(ProxyUnusedInputColumns(g, v), TRUE)
       ELSE IF Len(g.v[v].srcs) = 1 THEN Done(ConvertTrivialJoinToTuple(g, v), TRUE)
       ELSE Done([g EXCEPT !.v[v].canon = TRUE], FALSE)
CanonicalizeJoin(g0, v, opt) ==
    LET view == g0.v[v]
    IN IF view.outs = <<>> THEN Done(PrepareToDelete(g0, v), FALSE)
       ELSE IF view.unsat THEN Done([g0 EXCEPT !.v[v].canon = TRUE], FALSE)
       ELSE IF \E s \in Range(view.srcs) : ~g0.v[s].dead /\ g0.v[s].unsat
       THEN Done(MarkAsUnsatisfiable(g0, v), TRUE)
       ELSE JoinLearned(LearnFromInputs([g0 EXCEPT !.v[v].canon = FALSE], v), v, opt)

-----------------------------------------------------------------------------
(* MERGE *)

(* The distinct sources of a merge, past tuples that forward all of a view  *)
(* to this merge alone and through merges that only it reads.              *)
RECURSIVE UniqueSources(_, _, _, _)
UniqueSources(g, v, work, st) ==
    IF work = <<>> THEN st
    ELSE LET w == Head(work)  rest == Tail(work)
             view == g.v[w]
             source == GetIncomingView(view.ins)
             mine == OnlyUser(g, w) # NoView
             seen == [st EXCEPT !.seen = @ \cup {w}]
             dropped == [seen EXCEPT !.changed = TRUE]
         IN IF w = v \/ view.unsat \/ w \in st.seen
            THEN UniqueSources(g, v, rest, [st EXCEPT !.changed = TRUE])
            ELSE IF view.kind = "tuple" /\ mine
            THEN IF source # NoView /\ g.v[source].unsat THEN UniqueSources(g, v, rest, dropped)
                 ELSE IF ForwardsAllInputsAsIs(g, w, source)
                 THEN UniqueSources(g, v, <<source>> \o rest, dropped)
                 ELSE UniqueSources(g, v, rest, [seen EXCEPT !.out = Append(@, w)])
            ELSE IF view.kind = "merge" /\ mine THEN UniqueSources(g, v, view.srcs \o rest, dropped)
            ELSE UniqueSources(g, v, rest, [seen EXCEPT !.out = Append(@, w)])

OnlySource(g0, v) ==
    LET w == g0.v[v].srcs[1]
        from == GetIncomingView(g0.v[w].ins)
        skips == g0.v[w].kind = "tuple" /\ ForwardsAllInputsAsIs(g0, w, from)
        g == [g0 EXCEPT !.v[v].srcs = <<>>, !.v[w].canon = @ /\ ~skips]
        replacement == IF skips THEN from ELSE w
    IN IF replacement = v THEN [MarkAsUnsatisfiable(g, v) EXCEPT !.v[v].canon = TRUE]
       ELSE ReplaceAllUsesWith(g, v, replacement)

OneUniqueSource(g, v, w) ==
    LET t == Newest(g) + 1
    IN ReplaceAllUsesWith(Add(g, [NewView("tuple", None, Len(g.v[v].cols)) EXCEPT !.ins = Cols(g, w)]), v, t)

(* A merge loses its unused columns behind a tuple over each of its sources. *)
Guard(g, ins) ==
    [NewView("tuple", None, Len(ins)) EXCEPT !.ins = ins, !.konst = [i \in DOMAIN ins |-> Konst(g, ins[i])]]
ReadFrom(g, v, n, used) ==
    [g EXCEPT !.v[v].srcs = [i \in DOMAIN @ |-> n + i], !.v[v].cols = Picked(@, used),
              !.v[v].colhash = NoColumnHash(Len(@))]
DropMergedColumns(g, v, used) ==
    LET srcs == g.v[v].srcs
        guards == [i \in DOMAIN srcs |-> Guard(g, Picked(Cols(g, srcs[i]), used))]
    IN ReadFrom(Woken([g EXCEPT !.v = @ \o guards], v, used), v, Newest(g), used)

MergeSources(g, v, opt, u) ==
    LET used == {i \in DOMAIN g.v[v].cols : IsUsedIgnoreMerges(g, Col(g, v, i))}
        h == AsBefore(IF u.changed THEN [g EXCEPT !.v[v].srcs = u.out] ELSE g, v)
    IN IF u.out = <<>> THEN Done([MarkAsUnsatisfiable(g, v) EXCEPT !.v[v].srcs = <<>>], TRUE)
       ELSE IF Len(u.out) = 1 THEN Done(OneUniqueSource(g, v, u.out[1]), TRUE)
       ELSE IF opt.unused /\ ~IsUsedDirectly(g, v) /\ used # DOMAIN g.v[v].cols
       THEN Done(DropMergedColumns(h, v, used), TRUE)
       ELSE Done(h, u.changed)
MergeSatisfiable(g, v, opt) ==
    IF Len(g.v[v].srcs) = 1 THEN Done(OnlySource(g, v), TRUE)
    ELSE MergeSources(g, v, opt, UniqueSources(g, v, g.v[v].srcs, [seen |-> {}, out |-> <<>>, changed |-> FALSE]))
CanonicalizeMerge(g0, v, opt) ==
    UnlessUnsat(g0, v, MergeSatisfiable([g0 EXCEPT !.v[v].canon = TRUE], v, opt))

-----------------------------------------------------------------------------
(* SELECT and INSERT *)

CanonicalizeSelect(g, v, opt) ==
    LET d == g.v[v].decl
        unused == ColumnUsers(g, v) = {} /\ DirectUsers(g, v) = {}
    IN IF unused /\ ~(d \in g.ios /\ Len(g.sels[d]) = 1) THEN Done(PrepareToDelete(g, v), TRUE)
       ELSE Done(g, FALSE)

(* The witnesses of the conditions of an insert: distinct ones that vary,   *)
(* and one at least while the insert reads nothing else of the view.       *)
Witnesses(g, incoming, ins, att) ==
    LET vary == {i \in DOMAIN att : /\ att[i] \notin Range(ins) /\ att[i] \notin Range(SubSeq(att, 1, i - 1))
                                    /\ ~IsConstantOrConstantRef(g, att[i])}
        kept == Picked(att, vary)
        from == SelectSeq(att, LAMBDA r : ~IsConstant(r) /\ r[1] = incoming)
    IN IF incoming # NoView /\ ~RetainsEdgeTo(incoming, ins, kept) /\ from # <<>>
       THEN Append(kept, from[1]) ELSE kept

InsertPulled(p, v) ==
    LET att == Witnesses(p.st.g, p.view, p.ins, p.att)
    IN IF ~p.st.g.v[v].unsat /\ Unsatisfied(p.st.g, p.view)
       THEN Done(PrepareToDelete(MarkAsUnsatisfiable(p.st.g, v), v), TRUE)
       ELSE Done([p.st.g EXCEPT !.v[v].att = att, !.v[v].canon = TRUE,
                                !.v[v].hash = IF att # p.att THEN {} ELSE @],
                 ~p.st.g.v[v].canon \/ att # p.att)
CanonicalizeInsert(g0, v, opt) == InsertPulled(Pulled(g0, v), v)

-----------------------------------------------------------------------------
(* KVINDEX and AGGREGATE: keys that are constant or repeated. *)

Redundant(ins, i) == IsConstant(ins[i]) \/ ins[i] \in Range(SubSeq(ins, 1, i - 1))
RedundantKeys(ins) == {i \in DOMAIN ins : Redundant(ins, i)}
FirstWith(ins, i) == Min({j \in DOMAIN ins : ins[j] = ins[i]})

(* Users of a redundant key read its constant or the first such key. *)
RedirectKeys(g, v, ins) ==
    FoldLeft(LAMBDA x, i : IF ~Redundant(ins, i) THEN x
                           ELSE ReplaceCol(x, Col(x, v, i), IF IsConstant(ins[i]) THEN ins[i]
                                                            ELSE Col(x, v, FirstWith(ins, i))),
             g, [i \in DOMAIN ins |-> i])

KVWithoutValues(g, v) ==
    LET t == Newest(g) + 1
        view == g.v[v]
        h == Add(g, [NewView("tuple", None, Len(view.cols)) EXCEPT !.ins = view.ins \o view.att])
    IN ReplaceAllUsesWith(h, v, t)

Guarded(g, v) == IF IsUsedDirectly(g, v) THEN GuardWithTuple(g, v) ELSE g
WithoutKeys(g, v, view, gone) ==
    Rebuilt(g, v, Picked(view.cols, DOMAIN view.cols \ gone), Picked(view.ins, DOMAIN view.ins \ gone), view.att)
KVScanned(st, v, view) ==
    LET values == \E i \in Len(view.ins) + 1 .. Len(view.cols) : ColIsUsed(st.g, Col(st.g, v, i))
        gone == RedundantKeys(view.ins)
    IN IF ~values THEN Done(KVWithoutValues(st.g, v), TRUE)
       ELSE IF gone = {} THEN Done(st.g, Returns(st))
       ELSE Done(WithoutKeys(RedirectKeys(Guarded(st.g, v), v, view.ins), v, view, gone), TRUE)
ScanKeys(g, v, view, opt) ==
    CanonicalizePairs(Scan(g, v), v, view.ins, SubSeq(view.cols, 1, Len(view.ins)), opt)
CanonicalizeKVIndex(g0, v, opt) ==
    LET view == g0.v[v]
    IN IF view.unsat THEN Done([g0 EXCEPT !.v[v].canon = TRUE], FALSE)
       ELSE IF Unsatisfied(g0, GetIncomingView2(view.ins, view.att)) THEN Done(MarkAsUnsatisfiable(g0, v), TRUE)
       ELSE KVScanned(ScanKeys(g0, v, view, opt), v, view)

(* Of an aggregate only the constant keys go: a repeated key is redirected  *)
(* to the first one and stays.  `ins` are the columns it groups by, `att`  *)
(* the ones it aggregates.                                                 *)
AggregateScanned(st, v, view) ==
    IF RedundantKeys(view.ins) = {} THEN Done(st.g, Returns(st))
    ELSE Done(WithoutKeys(RedirectKeys(Guarded(st.g, v), v, view.ins), v, view,
                          {i \in DOMAIN view.ins : IsConstant(view.ins[i])}),
              Returns(st) \/ IsUsedDirectly(st.g, v))
CanonicalizeAggregate(g0, v, opt) ==
    LET view == g0.v[v]
    IN IF view.canon THEN Done(g0, FALSE)
       ELSE IF view.unsat THEN Done([g0 EXCEPT !.v[v].canon = TRUE], FALSE)
       ELSE IF \E cols \in {view.ins, view.conf} : Unsatisfied(g0, GetIncomingView2(cols, view.att))
       THEN Done([MarkAsUnsatisfiable(g0, v) EXCEPT !.v[v].canon = TRUE], TRUE)
       ELSE AggregateScanned(ScanKeys(g0, v, view, opt), v, view)

-----------------------------------------------------------------------------
Canonicalize(g, v, opt) ==
    LET kind == g.v[v].kind
    IN CASE kind = "tuple" -> CanonicalizeTuple(g, v, opt)
         [] kind = "cmp" -> CanonicalizeCompare(g, v, opt)
         [] kind = "map" -> CanonicalizeMap(g, v, opt)
         [] kind = "negate" -> CanonicalizeNegate(g, v, opt)
         [] kind = "join" -> CanonicalizeJoin(g, v, opt)
         [] kind = "merge" -> CanonicalizeMerge(g, v, opt)
         [] kind = "select" -> CanonicalizeSelect(g, v, opt)
         [] kind = "insert" -> CanonicalizeInsert(g, v, opt)
         [] kind = "kv" -> CanonicalizeKVIndex(g, v, opt)
         [] kind = "agg" -> CanonicalizeAggregate(g, v, opt)
=============================================================================
