-------------------------------- MODULE Optimize --------------------------------
(***************************************************************************)
(* The passes over the graph of views (lib/DataFlow: Optimize.cpp,         *)
(* DeadFlowElimination.cpp, Differential.cpp, Connect.cpp and the Equals   *)
(* of each kind of view).                                                  *)
(*                                                                         *)
(* The order of views with equal depth, and which of two equal views is    *)
(* the one at the lower address, are not determined by the code: `last`    *)
(* chooses one of the two orders of creation for a whole compilation.      *)
(***************************************************************************)
EXTENDS Canonicalize

KindOrder == <<"select", "tuple", "kv", "join", "map", "agg", "merge", "negate", "cmp", "insert">>

(* ForEachView: the live views, kind by kind. *)
EachView(g) ==
    FlattenSeq([k \in DOMAIN KindOrder |-> Ascending(Kinds(g, {KindOrder[k]}))])

-----------------------------------------------------------------------------
(* Depth: the longest chain of inputs; on a cycle, what was assumed first. *)

DepthSources(g, v) ==
    LET view == g.v[v]
        cols == view.conf \o view.ins \o view.att \o FlattenSeq([i \in DOMAIN view.outs |-> view.outs[i]])
        vars == SelectSeq(cols, LAMBDA r : ~IsConstant(r))
    IN (IF view.kind = "negate" THEN <<view.neg>> ELSE <<>>)
       \o [i \in DOMAIN vars |-> vars[i][1]]
       \o (IF view.kind = "merge" THEN view.srcs ELSE <<>>)
       \o (IF view.kind = "select" /\ view.decl \notin g.ios THEN g.inss[view.decl] ELSE <<>>)

DepthStart(view) == IF view.kind = "select" THEN 0 ELSE 1

(* What a view guesses of its own depth from the views visited before it.  *)
EstimateSources(g, v) ==
    LET view == g.v[v]
    IN CASE view.kind \in {"join", "merge", "agg"} -> Range(DepthSources(g, v))
         [] view.kind = "select" -> {}
         [] OTHER -> {r[1] : r \in Range(view.att)} \ {NoView}

RECURSIVE DepthOf(_, _, _)
DepthOf(g, memo, v) ==
    IF memo[v] # 0 THEN memo
    ELSE LET view == g.v[v]
             start == DepthStart(view)
             guess == Max({IF view.kind \in {"join", "merge", "agg"} THEN 1 ELSE 0}
                          \cup {memo[u] : u \in EstimateSources(g, v)}) + 1
             srcs == DepthSources(g, v)
             visited == FoldLeft(LAMBDA m, u : DepthOf(g, m, u), [memo EXCEPT ![v] = guess], srcs)
         IN [visited EXCEPT ![v] = 1 + Max({start} \cup {visited[u] : u \in Range(srcs)})]

DepthsFrom(g, first) == FoldLeft(LAMBDA m, v : DepthOf(g, m, v), [v \in DOMAIN g.v |-> 0], first \o EachView(g))
Depths(g) == DepthsFrom(g, <<>>)

(* ForEachViewInDepthOrder and its reverse. *)
InOrder(S, backwards) == IF backwards THEN Reverse(Ascending(S)) ELSE Ascending(S)
ByDepth(views, depth, ascending, last) ==
    LET depths == InOrder({depth[v] : v \in views}, ~ascending)
    IN FlattenSeq([k \in DOMAIN depths |-> InOrder({v \in views : depth[v] = depths[k]}, last)])
InDepthOrder(g, ascending, last) == ByDepth(Live(g), Depths(g), ascending, last)

-----------------------------------------------------------------------------
(* Removing what nothing uses. *)

RECURSIVE RemoveUnusedViews(_)
RemoveUnusedViews(g) ==
    LET unused == {v \in Live(g) : ~IsUsed(g, v)}
    IN IF unused = {} THEN g ELSE RemoveUnusedViews(PrepareAllToDelete(g, unused))

-----------------------------------------------------------------------------
(* Equality of views: their shapes match and their inputs are equal, views  *)
(* already compared counting as equal.                                     *)

(* RelabelGroupIDs: the joins, aggregates and indices that a view reaches   *)
(* before any other of these.  Two views that reach the same one are read  *)
(* by it as different sets of rows.                                        *)
Groups == {"join", "agg", "kv"}
RECURSIVE GroupsFrom(_, _)
GroupsFrom(g, ids) ==
    LET next == [v \in DOMAIN ids |->
                   IF g.v[v].dead THEN {}
                   ELSE ids[v] \cup UNION {IF g.v[u].kind \in Groups THEN {u} ELSE ids[u] : u \in Users(g, v)}]
    IN IF next = ids THEN ids ELSE GroupsFrom(g, next)
RelabelGroupIDs(g) ==
    GroupsFrom(g, [v \in DOMAIN g.v |-> IF ~g.v[v].dead /\ g.v[v].kind \in Groups THEN {v} ELSE {}])

InsertSetsNeverOverlap(ids, a, b) == FALSE
InsertSetsOverlap(ids, a, b) == ids[a] \cap ids[b] # {}

Shape(view) ==
    LET n == Len(view.cols)
    IN CASE view.kind = "tuple" -> <<view.recv, view.prod, n>>
         [] view.kind = "cmp" -> <<view.what, view.recv, view.prod, n>>
         [] view.kind = "map" -> <<view.what, n, Len(view.att)>>
         [] view.kind = "negate" -> <<view.prod, view.what, n>>
         [] view.kind = "join" -> <<n, view.npiv, Len(view.outs), Len(view.srcs)>>
         [] view.kind = "merge" -> <<n, Len(view.srcs)>>
         [] view.kind = "select" -> <<view.recv, view.prod, n, view.decl>>
         [] view.kind = "insert" -> <<view.prod, view.decl, Len(view.ins), Len(view.att)>>
         [] view.kind = "kv" -> <<n, view.what>>
         [] view.kind = "agg" -> <<view.what, n, view.recv, view.prod>>

(* ColumnsEq: the same column, or the same column of equal views. *)
ColumnsMatch(g, s1, s2) ==
    /\ Len(s1) = Len(s2)
    /\ \A i \in DOMAIN s1 :
          \/ s1[i] = s2[i]
          \/ /\ ~IsConstant(s1[i]) /\ ~IsConstant(s2[i])
             /\ s1[i][1] # s2[i][1]
             /\ Index(g, s1[i]) = Index(g, s2[i])
PairsOf(s1, s2) == {{s1[i][1], s2[i][1]} : i \in {j \in DOMAIN s1 : s1[j] # s2[j]}}

ColumnLists(view) == <<view.ins, view.att, view.conf>> \o view.outs
SameShape(g, a, b) ==
    LET va == g.v[a]  vb == g.v[b]
    IN /\ va.kind = vb.kind
       /\ Shape(va) = Shape(vb)
       /\ \A i \in DOMAIN ColumnLists(va) : ColumnsMatch(g, ColumnLists(va)[i], ColumnLists(vb)[i])

Compared(g, a, b) ==
    LET va == g.v[a]  vb == g.v[b]
        children == UNION {PairsOf(ColumnLists(va)[i], ColumnLists(vb)[i]) : i \in DOMAIN ColumnLists(va)}
                    \cup {{va.srcs[i], vb.srcs[i]} : i \in DOMAIN va.srcs}
                    \cup (IF va.kind = "negate" THEN {{va.neg, vb.neg}} ELSE {})
    IN {p \in children : Cardinality(p) = 2}

RECURSIVE EqualFrom(_, _, _, _)
EqualFrom(g, ids, todo, eq) ==
    IF todo = {} THEN TRUE
    ELSE LET p == CHOOSE q \in todo : TRUE
             a == Min(p)  b == Max(p)
         IN /\ SameShape(g, a, b)
            /\ g.v[a].kind \in {"negate", "insert"} \/ ~InsertSetsOverlap(ids, a, b)
            /\ EqualFrom(g, ids, (todo \cup Compared(g, a, b)) \ (eq \cup {p}), eq \cup {p})
Equals(g, ids, a, b) == EqualFrom(g, ids, {{a, b}}, {})

-----------------------------------------------------------------------------
(* CSE *)

(* Views of one color may be equal; colors are refined from shapes and     *)
(* inputs without regard to which rows a join reads.                       *)
ColorGroups(g, views) ==
    LET none == [v \in DOMAIN g.v |-> {}]
        add(groups, v) ==
            LET same == {i \in DOMAIN groups : Equals(g, none, groups[i][1], v)}
            IN IF same = {} THEN Append(groups, <<v>>) ELSE [groups EXCEPT ![Min(same)] = Append(@, v)]
    IN FoldLeft(add, <<>>, views)

(* The pairs of equal views of a group, the last found first. *)
EqualPairs(g, group, last) ==
    LET ids == RelabelGroupIDs(g)
        views == InOrder(Range(group), ~last)
        after(i) == [k \in 1 .. i - 1 |-> <<views[i], views[k]>>]
    IN SelectSeq(FlattenSeq([i \in DOMAIN views |-> after(i)]), LAMBDA p : Equals(g, ids, p[1], p[2]))

(* The deepest pairs are replaced first.  The code puts those whose users   *)
(* differ in a hash before all others; that is left out.                    *)
DeepestFirst(g, pairs) ==
    LET depth == Depths(g)
        least(p) == Min({depth[p[1]], depth[p[2]]})
        depths == InOrder({least(p) : p \in Range(pairs)}, TRUE)
    IN FlattenSeq([k \in DOMAIN depths |-> SelectSeq(pairs, LAMBDA p : least(p) = depths[k])])

(* top_map: the view that each was first found equal to. *)
RECURSIVE Resolve(_, _)
Resolve(pairs, a) ==
    LET after == SelectSeq(pairs, LAMBDA p : p[1] = a)
    IN IF after = <<>> THEN a ELSE Resolve(pairs, after[Len(after)][2])

ReplaceEqual(g, v1, v2) ==
    IF /\ v1 # v2 /\ IsUsed(g, v1) /\ IsUsed(g, v2)
       /\ Equals(g, RelabelGroupIDs(g), v1, v2)
       /\ v1 \notin Users(g, v2) /\ v2 \notin Users(g, v1)
    THEN ReplaceAllUsesWith(g, v1, v2) ELSE g

CSE(g, views, last) ==
    LET merge(x, group) ==
            LET pairs == IF Len(group) = 1 THEN <<>> ELSE EqualPairs(x, group, last)
            IN FoldLeft(LAMBDA y, p : ReplaceEqual(y, p[1], Resolve(pairs, p[2])), x, DeepestFirst(x, pairs))
    IN FoldLeft(merge, ForgetHashes(g), ColorGroups(g, views))

FillViews(g, kind, last) ==
    ByDepth({v \in Kinds(g, {kind}) : IsUsed(g, v)}, Depths(g), TRUE, last)

DefaultOpt == [unused |-> FALSE, constants |-> FALSE]
Aggressive == [unused |-> TRUE, constants |-> TRUE]

-----------------------------------------------------------------------------
(* Which views may see rows disappear. *)

RECURSIVE SpreadPastNegations(_, _)
SpreadPastNegations(g, st) ==
    LET prod == st.prod \cup st.recv
        next == [prod |-> prod, recv |-> st.recv \cup UNION {Users(g, v) : v \in prod}]
    IN IF next = st THEN st ELSE SpreadPastNegations(g, next)
RECURSIVE SpreadDeletions(_, _)
SpreadDeletions(g, st) ==
    LET prod == st.prod \cup st.recv
                \cup {v \in Kinds(g, {"negate"}) : g.v[v].what # "never"}
        told == UNION {Users(g, v) : v \in prod}
        seams == {s \in Kinds(g, {"select"}) :
                    \E i \in Kinds(g, {"insert"}) \cap prod : g.v[i].decl = g.v[s].decl}
        next == [prod |-> prod, recv |-> st.recv \cup told \cup seams]
    IN IF next = st THEN st ELSE SpreadDeletions(g, next)

NeverOverDeletions(g, st) ==
    \E v \in Kinds(g, {"negate"}) : g.v[v].what = "never" /\ g.v[v].neg \in st.prod
SendsDeletions(g, st, diffs) ==
    \E v \in Kinds(g, {"insert"}) \cap st.prod : g.v[v].decl \in g.ios \ diffs

TrackDifferentialUpdates(g, diffs, report) ==
    LET inputs == {v \in Kinds(g, {"select"}) : g.v[v].decl \in diffs}
        st == SpreadDeletions(g, [prod |-> inputs \cup Kinds(g, {"agg", "kv"}), recv |-> inputs])
        h == [g EXCEPT !.v = [v \in DOMAIN @ |->
                 IF @[v].dead THEN @[v] ELSE [@[v] EXCEPT !.prod = v \in st.prod, !.recv = v \in st.recv]]]
    IN IF NeverOverDeletions(g, st) THEN Fault(h, "@never over deletions")
       ELSE IF report /\ SendsDeletions(g, st, diffs) THEN Fault(h, "message sends deletions")
       ELSE h

-----------------------------------------------------------------------------
(* Dead-flow elimination: what no input can reach is removed. *)

RECURSIVE Taint(_, _)
Taint(g, tainted) ==
    LET from(u) == u = NoView \/ u \in tainted
        reached(v) ==
            LET view == g.v[v]
                incoming == GetIncomingView2(view.ins, view.att)
            IN CASE view.kind = "select" -> \E i \in Range(g.inss[view.decl]) : i \in tainted
                 [] view.kind \in {"tuple", "insert"} -> from(GetIncomingView(view.ins))
                 [] view.kind \in {"cmp", "map", "kv", "negate"} -> from(incoming)
                 [] view.kind = "agg" -> IF GetIncomingView(view.att) # NoView
                                         THEN from(GetIncomingView(view.att))
                                         ELSE from(GetIncomingView2(view.ins, view.conf))
                 [] view.kind = "merge" -> \E u \in Range(view.srcs) : ~g.v[u].dead /\ u \in tainted
                 [] view.kind = "join" -> \A u \in Range(view.srcs) : ~g.v[u].dead /\ u \in tainted
        next == tainted \cup {v \in Live(g) : ~g.v[v].unsat /\ reached(v)}
    IN IF next = tainted THEN tainted ELSE Taint(g, next)

DerivedFromInput(g) ==
    Taint(g, {v \in Kinds(g, {"select"}) : g.v[v].decl \in g.ios /\ ~g.v[v].unsat})

(* The negation of what no row can reach always holds: a tuple replaces it. *)
ForwardNegations(g, tainted) ==
    LET negs == Ascending({v \in Kinds(g, {"negate"}) : ~g.v[v].unsat /\ g.v[v].neg \notin tainted})
        replace(st, v) ==
            LET h == VacuousNegate(st.g, v)
            IN [g |-> h, tainted |-> st.tainted
                                     \cup (IF v \in st.tainted THEN {Newest(st.g) + 1} ELSE {})]
    IN FoldLeft(replace, [g |-> g, tainted |-> tainted], negs)

(* A tuple that only feeds a union back into itself.  The code compares the *)
(* position of each column with itself, so the order is not looked at.     *)
IsTrivialCycle(g, v) ==
    LET incoming == GetIncomingView(g.v[v].ins)
    IN /\ g.v[v].kind = "tuple" /\ incoming # NoView
       /\ OnlyUser(g, v) = incoming
       /\ Len(g.v[incoming].cols) = Len(g.v[v].cols)
       /\ g.v[incoming].kind = "merge"

SweepDead(st, views) ==
    FoldLeft(LAMBDA g, v : IF v \notin st.tainted \/ (~g.v[v].dead /\ IsTrivialCycle(g, v))
                           THEN PrepareToDelete(g, v) ELSE g,
             st.g, views)
KeepTainted(g, tainted) ==
    [g EXCEPT !.v = [v \in DOMAIN @ |->
        IF @[v].kind = "merge"
        THEN [@[v] EXCEPT !.srcs = SelectSeq(@, LAMBDA u : ~g.v[u].dead /\ u \in tainted)]
        ELSE @[v]]]
SweepViews(g0, st) ==
    KeepTainted(SweepDead(st, EachView(g0) \o [i \in 1 .. Newest(st.g) - Newest(g0) |-> Newest(g0) + i]), st.tainted)

EliminateDeadFlows(g0) ==
    IF \E v \in Kinds(g0, {"join"}) : ~g0.v[v].unsat /\ ReadsNull(g0, v)
    THEN Fault(g0, "null joined view")
    ELSE RemoveUnusedViews(SweepViews(g0, ForwardNegations(g0, DerivedFromInput(g0))))

(* What RemoveUnusedViews returned: whether anything was removed. *)
Removed(g, h) == Live(h) # Live(g)

-----------------------------------------------------------------------------
(* Connecting inserts to selects. *)

KnownConstant(g, r) == IF IsConstantOrConstantRef(g, r) THEN AsConstant(g, r)[2] ELSE None
Forwarding(g, ins) ==
    [NewView("tuple", None, Len(ins)) EXCEPT !.ins = ins, !.konst = [i \in DOMAIN ins |-> KnownConstant(g, ins[i])]]

(* The inserts of a relation become tuples that a union merges. *)
CreateProxyOfInserts(g, d) ==
    LET inserts == g.inss[d]
        n == Newest(g)
        proxy(v) == [Forwarding(g, g.v[v].ins) EXCEPT !.prod = g.v[v].prod, !.recv = g.v[v].recv]
        merge == [NewView("merge", None, Len(g.v[inserts[1]].ins)) EXCEPT
                     !.srcs = [i \in DOMAIN inserts |-> n + i]]
        h == [g EXCEPT !.v = @ \o [i \in DOMAIN inserts |-> proxy(inserts[i])] \o <<merge>>]
    IN PrepareAllToDelete(h, Range(inserts))

(* An index from the other parameters to the mutable one, and a tuple that  *)
(* puts its columns back in order.                                         *)
CreateProxyForMutableParams(g, mutable) ==
    LET v == Newest(g)
        n == Len(g.v[v].cols)
        keys == Picked(Cols(g, v), (1 .. n) \ {mutable})
        index == [NewView("kv", <<"merge", mutable>>, n) EXCEPT !.ins = keys, !.att = <<Col(g, v, mutable)>>]
        at(i) == IF i = mutable THEN n ELSE IF i < mutable THEN i ELSE i - 1
        back == [NewView("tuple", None, n) EXCEPT !.ins = [i \in 1 .. n |-> <<v + 1, at(i)>>]]
    IN IF mutable = 0 THEN g ELSE Add(Add(g, index), back)

ProxySelect(g, v, proxy) ==
    LET t == Newest(g) + 1
        h == Add(g, Forwarding(g, Cols(g, proxy)))
    IN ReplaceAllUsesWith(CopyDifferential(h, v, t), v, t)
ProxySelects(g, selects, proxy) == FoldLeft(LAMBDA x, v : ProxySelect(x, v, proxy), g, selects)

AddInsert(g, d, ins) ==
    LET h == Add(g, [NewView("insert", None, 0) EXCEPT !.decl = d, !.ins = ins])
    IN [h EXCEPT !.inss[d] = Append(@, Newest(h))]
AddSelect(g, d, n) ==
    LET h == Add(g, [NewView("select", None, n) EXCEPT !.decl = d])
    IN [h EXCEPT !.sels[d] = Append(@, Newest(h))]

(* A message sent or received in several places is sent or received once.   *)
ConnectMessage(g, d) ==
    LET sent == CreateProxyOfInserts(g, d)
        old == g.sels[d]
        once == AddSelect([g EXCEPT !.sels[d] = <<>>], d, Len(g.v[old[1]].cols))
    IN IF g.inss[d] # <<>> /\ old # <<>> THEN Fault(g, "sends and receives")
       ELSE IF Len(g.inss[d]) > 1 THEN AddInsert(sent, d, Cols(sent, Newest(sent)))
       ELSE IF Len(old) > 1 THEN ProxySelects(once, old, Newest(once))
       ELSE g

ConnectRelation(g, d, decl) ==
    LET proxied == CreateProxyForMutableParams(CreateProxyOfInserts(g, d), decl.mutable)
        proxy == Newest(proxied)
        selects == g.sels[d]
        read == ProxySelects([proxied EXCEPT !.sels[d] = <<>>], selects, proxy)
    IN IF decl.arity = 0 THEN g
       ELSE IF g.inss[d] = <<>> /\ selects = <<>> THEN g
       ELSE IF g.inss[d] = <<>> THEN Fault(g, "missing definition")
       ELSE IF selects = <<>> /\ decl.kind # "query" THEN proxied
       ELSE IF decl.kind = "query" THEN AddInsert(read, d, Cols(read, proxy))
       ELSE read

ConnectInsertsToSelects(g, decls, order, diffs) ==
    LET connect(x, d) == IF x.fault # None THEN x
                         ELSE IF d \in x.ios THEN ConnectMessage(x, d) ELSE ConnectRelation(x, d, decls[d])
        ordered == SelectSeq(order, LAMBDA d : d \in g.ios) \o SelectSeq(order, LAMBDA d : d \notin g.ios)
        h == FoldLeft(connect, g, ordered)
    IN IF h.fault # None THEN h ELSE TrackDifferentialUpdates(RemoveUnusedViews(h), diffs, TRUE)
=============================================================================
