------------------------------ MODULE QueryMeaning ------------------------------
(***************************************************************************)
(* The rows of the views of a graph, and the rows that the clauses of a     *)
(* program define.  What is recursive is a least fixed point, in which     *)
(* negations, aggregates and indices read the rows of the round before;     *)
(* the rounds of a stratified program end.                                 *)
(***************************************************************************)
EXTENDS DataModels, ClauseBuilder

CONSTANTS
    Values,         \* the values of the columns, as strings
    Order,          \* the values in their order
    FunctorRows     \* of each functor: the rows of its parameters

Rank(x) == CHOOSE i \in DOMAIN Order : Order[i] = x
Compares(op, x, y) ==
    CASE op = "=" -> x = y
      [] op = "!=" -> x # y
      [] op = "<" -> Rank(x) < Rank(y)
      [] op = ">" -> Rank(x) > Rank(y)
MaxValue(S) == CHOOSE x \in S : \A y \in S : Rank(y) <= Rank(x)

-----------------------------------------------------------------------------
(* Of a graph. *)

Value(g, r, t) == IF IsConstant(r) THEN r[2] ELSE t[Index(g, r)]
ValuesOf(g, refs, t) == [i \in DOMAIN refs |-> Value(g, refs[i], t)]
Incoming(g, rows, cols) == LET w == GetIncomingView(cols) IN IF w = NoView THEN {<<>>} ELSE rows[w]

JoinRows(g, rows, view) ==
    LET pairs == FoldLeft(LAMBDA S, w : {Append(p, t) : p \in S, t \in rows[w]}, {<<>>}, view.srcs)
        at(r, p) == IF IsConstant(r) THEN r[2] ELSE Value(g, r, p[FirstOf(Where(view.srcs, {r[1]}))])
        agree(p) == \A i \in DOMAIN view.outs : \A k \in DOMAIN view.outs[i] :
                        at(view.outs[i][k], p) = at(view.outs[i][1], p)
    IN {[i \in DOMAIN view.outs |-> at(view.outs[i][1], p)] : p \in {q \in pairs : agree(q)}}

MapRows(g, rows, view) ==
    LET at == Ascending(view.what.bound)
        given(t) == ValuesOf(g, view.ins, t)
        results(t) == {f \in FunctorRows[view.what.functor] : [k \in DOMAIN at |-> f[at[k]]] = given(t)}
        from == Incoming(g, rows, view.ins \o view.att)
    IN IF view.what.positive
       THEN UNION {{f \o ValuesOf(g, view.att, t) : f \in results(t)} : t \in from}
       ELSE {given(t) \o ValuesOf(g, view.att, t) : t \in {u \in from : results(u) = {}}}

(* Of each group, the greatest of the values that `over` reads. *)
GreatestRows(g, rows, keys, over) ==
    LET from == Incoming(g, rows, keys \o over)
        key(t) == ValuesOf(g, keys, t)
    IN {k \o <<MaxValue({Value(g, over[1], t) : t \in {u \in from : key(u) = k}})>> : k \in {key(t) : t \in from}}

RowsOf(g, db, frozen, rows, v) ==
    LET view == g.v[v]
        from == Incoming(g, rows, view.ins \o view.att)
        all(t) == ValuesOf(g, view.ins \o view.att, t)
    IN CASE view.kind = "tuple" -> {all(t) : t \in from}
         [] view.kind = "insert" -> {ValuesOf(g, view.ins, t) : t \in from}
         [] view.kind = "cmp" ->
              LET first == IF view.what = "=" THEN 2 ELSE 1
              IN {SubSeq(all(t), first, Len(view.ins) + Len(view.att)) :
                    t \in {u \in from : Compares(view.what, all(u)[1], all(u)[2])}}
         [] view.kind = "negate" ->
              {all(t) : t \in {u \in from : SubSeq(all(u), 1, Len(view.ins)) \notin frozen[view.neg]}}
         [] view.kind = "map" -> MapRows(g, rows, view)
         [] view.kind = "join" -> JoinRows(g, rows, view)
         [] view.kind = "merge" -> UNION {rows[w] : w \in Range(view.srcs)}
         [] view.kind = "select" ->
              IF view.decl \in g.ios THEN db[view.decl] ELSE UNION {rows[w] : w \in Range(g.inss[view.decl])}
         [] view.kind = "kv" -> GreatestRows(g, frozen, view.ins, view.att)
         [] view.kind = "agg" -> GreatestRows(g, frozen, view.ins \o view.conf, view.att)

RECURSIVE LeastRows(_, _, _, _, _)
LeastRows(g, db, frozen, order, rows) ==
    LET next == FoldLeft(LAMBDA r, v : [r EXCEPT ![v] = RowsOf(g, db, frozen, r, v)], rows, order)
    IN IF next = rows THEN rows ELSE LeastRows(g, db, frozen, order, next)

RECURSIVE StableRows(_, _, _, _)
StableRows(g, db, order, frozen) ==
    LET rows == LeastRows(g, db, frozen, order, [v \in DOMAIN g.v |-> {}])
    IN IF rows = frozen THEN rows ELSE StableRows(g, db, order, rows)

Meaning(g, db) == StableRows(g, db, InDepthOrder(g, TRUE, FALSE), [v \in DOMAIN g.v |-> {}])
OutputRows(g, rows, d) == UNION {rows[v] : v \in Range(g.inss[d])}

-----------------------------------------------------------------------------
(* Of clauses. *)

Matches(env, args, row) == \A i \in DOMAIN args : args[i] > 0 => row[i] = env[args[i]]

Holds(clause, env, rels, frozen) ==
    /\ \A p \in Range(clause.force \o All(clause, "preds")) : \E row \in rels[p.decl] : Matches(env, p.args, row)
    /\ \A p \in Range(All(clause, "negs")) : ~\E row \in frozen[p.decl] : Matches(env, p.args, row)
    /\ \A p \in Range(All(clause, "functors")) :
          p.positive = \E row \in FunctorRows[p.decl] : Matches(env, p.args, row)
    /\ \A p \in Range(All(clause, "eqs")) : env[p[1]] = env[p[2]]
    /\ \A p \in Range(All(clause, "cmps")) : Compares(p[1], env[p[2]], env[p[3]])
    /\ \A p \in Range(All(clause, "consts")) : env[p[1]] = p[2]
    /\ \A a \in Range(All(clause, "aggs")) :
          LET fixed == [i \in DOMAIN a.pred.args |->
                          IF a.pred.args[i] \in Range(a.group \o a.config) THEN a.pred.args[i] ELSE -1]
              at == CHOOSE i \in DOMAIN a.pred.args : a.pred.args[i] = a.over[1]
              rows == {row \in frozen[a.pred.decl] : Matches(env, fixed, row)}
          IN rows # {} /\ env[a.summary[1]] = MaxValue({row[at] : row \in rows})

(* The variables that the clause shares; what an aggregate ranges over is  *)
(* its own.                                                                *)
FreeVars(clause) ==
    LET inner(a) == PredArgs(<<a.pred>>) \ Range(a.group \o a.config \o a.summary)
    IN {v \in Variables(clause) : v > 0} \ UNION {inner(a) : a \in Range(All(clause, "aggs"))}
Heads(clause, rels, frozen) ==
    {[i \in DOMAIN clause.params |-> env[clause.params[i]]] :
        env \in {e \in [FreeVars(clause) -> Values] : Holds(clause, e, rels, frozen)}}

(* The value of a key with a mutable parameter is the greatest put there.  *)
Settled(decl, rows) ==
    LET key(row) == [i \in DOMAIN row |-> IF i = decl.mutable THEN None ELSE row[i]]
    IN IF decl.mutable = 0 THEN rows
       ELSE {row \in rows : \A other \in rows : key(other) = key(row) => Rank(other[decl.mutable]) <= Rank(row[decl.mutable])}

Derive(program, db, rels, frozen) ==
    [d \in DOMAIN program.decls |->
        IF d \in DOMAIN db THEN db[d]
        ELSE LET own == {k \in DOMAIN program.clauses : program.clauses[k].head = d}
             IN Settled(program.decls[d], UNION {Heads(program.clauses[k], rels, frozen) : k \in own})]

RECURSIVE LeastModel(_, _, _, _)
LeastModel(program, db, frozen, rels) ==
    LET next == Derive(program, db, rels, frozen)
    IN IF next = rels THEN rels ELSE LeastModel(program, db, frozen, next)
RECURSIVE StableModel(_, _, _)
StableModel(program, db, frozen) ==
    LET rels == LeastModel(program, db, frozen, [d \in DOMAIN program.decls |-> {}])
    IN IF rels = frozen THEN rels ELSE StableModel(program, db, rels)
Model(program, db) == StableModel(program, db, [d \in DOMAIN program.decls |-> {}])
=============================================================================
