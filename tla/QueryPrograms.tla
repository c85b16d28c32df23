------------------------------ MODULE QueryPrograms ------------------------------
(***************************************************************************)
(* Programs to compile, each for the rewriting that it exercises.          *)
(***************************************************************************)
EXTENDS DataFlow, TLC

Decl(arity, kind) == [arity |-> arity, kind |-> kind, mutable |-> 0, bound |-> {}]
M(n) == Decl(n, "message")
L(n) == Decl(n, "local")
Q(n) == Decl(n, "query")
E0 == Decl(0, "export")

On(d, args) == [decl |-> d, args |-> args]
Not(d, args) == [decl |-> d, args |-> args, never |-> FALSE]
Never(d, args) == [decl |-> d, args |-> args, never |-> TRUE]
Body(preds) == [Group0 EXCEPT !.preds = preds]
Apply(f, args) == [decl |-> f, args |-> args, bindings |-> <<{1}, {2}>>, filter |-> FALSE, positive |-> TRUE]
Greatest(pred, group, over, summary) ==
    [pred |-> pred, functor |-> "max", group |-> group, config |-> <<>>, over |-> <<over>>, summary |-> <<summary>>]
ClauseOf(d, params, groups) ==
    [head |-> d, params |-> params, groups |-> groups, product |-> FALSE, force |-> <<>>]
Rule(d, params, preds) == ClauseOf(d, params, <<Body(preds)>>)

A == 1
B == 2
C == 3
D == 4
X == -1
Y == -2

One == {<<"a">>}
Two == {<<"a">>, <<"b">>}
Edges1 == {<<"a", "b">>}
Edges2 == {<<"a", "b">>, <<"b", "c">>, <<"b", "b">>}
Edges3 == Edges2 \cup {<<"c", "a">>, <<"a", "a">>}

Program(decls, order, clauses, dbs) ==
    [decls |-> decls, order |-> order, clauses |-> clauses, diffs |-> {}, dbs |-> dbs, refused |-> None]

Tc == Program(
    "edge" :> M(2) @@ "tc" :> L(2) @@ "q" :> Q(2), <<"edge", "tc", "q">>,
    <<Rule("tc", <<A, B>>, <<On("edge", <<A, B>>)>>),
      Rule("tc", <<A, C>>, <<On("tc", <<A, B>>), On("edge", <<B, C>>)>>),
      Rule("q", <<A, B>>, <<On("tc", <<A, B>>)>>)>>,
    <<"edge" :> Edges1, "edge" :> Edges2, "edge" :> Edges3>>)

\* Constants, in heads and bodies, inequalities and a repeated argument.
Constants == Program(
    "r" :> M(2) @@ "p" :> L(2) @@ "s" :> L(3) @@ "q" :> Q(2) @@ "t" :> Q(1), <<"r", "p", "s", "q", "t">>,
    <<ClauseOf("p", <<A, B>>, <<[Body(<<On("r", <<A, C>>)>>) EXCEPT !.consts = <<<<B, "a">>, <<C, "b">>>>]>>),
      ClauseOf("p", <<A, A>>, <<[Body(<<On("r", <<A, A>>)>>) EXCEPT !.cmps = <<<<"!=", A, B>>>>, !.consts = <<<<B, "a">>>>]>>),
      Rule("s", <<A, B, A>>, <<On("p", <<A, B>>)>>),
      ClauseOf("q", <<A, B>>, <<[Body(<<On("s", <<A, B, C>>)>>) EXCEPT !.eqs = <<<<A, C>>>>]>>),
      ClauseOf("t", <<A>>, <<[Body(<<On("s", <<A, B, X>>), On("r", <<C, B>>)>>) EXCEPT !.cmps = <<<<"<", A, C>>>>]>>)>>,
    <<"r" :> Edges1, "r" :> Edges2, "r" :> Edges3>>)

Negation == Program(
    "r" :> M(2) @@ "s" :> M(1) @@ "p" :> L(2) @@ "q" :> Q(1) @@ "t" :> Q(2), <<"r", "s", "p", "q", "t">>,
    <<ClauseOf("p", <<A, B>>, <<[Body(<<On("r", <<A, B>>)>>) EXCEPT !.negs = <<Not("s", <<A>>)>>]>>),
      ClauseOf("q", <<A>>, <<[Body(<<On("s", <<A>>)>>) EXCEPT !.negs = <<Not("p", <<A, X>>)>>]>>),
      ClauseOf("t", <<A, C>>, <<[Body(<<On("p", <<A, C>>)>>) EXCEPT !.cmps = <<<<">", C, A>>>>]>>)>>,
    <<"r" :> Edges1 @@ "s" :> {}, "r" :> Edges2 @@ "s" :> One, "r" :> Edges3 @@ "s" :> Two>>)

Conditions0 == Program(
    "r" :> M(1) @@ "s" :> M(1) @@ "some" :> E0 @@ "q" :> Q(1) @@ "t" :> Q(1), <<"r", "s", "some", "q", "t">>,
    <<Rule("some", <<>>, <<On("r", <<X>>)>>),
      Rule("q", <<A>>, <<On("s", <<A>>), On("some", <<>>)>>),
      ClauseOf("t", <<A>>, <<[Body(<<On("s", <<A>>)>>) EXCEPT !.negs = <<Not("some", <<>>)>>]>>)>>,
    <<"r" :> {} @@ "s" :> One, "r" :> One @@ "s" :> One, "r" :> Two @@ "s" :> Two>>)


\* A comparison above a union and above a negation; a union of one column used.
Sinking == Program(
    "r" :> M(2) @@ "s" :> M(2) @@ "n" :> M(1) @@ "u" :> L(2) @@ "v" :> L(2) @@ "q" :> Q(1) @@ "t" :> Q(2) @@ "w" :> Q(1),
    <<"r", "s", "n", "u", "v", "q", "t", "w">>,
    <<Rule("u", <<A, B>>, <<On("r", <<A, B>>)>>), Rule("u", <<A, B>>, <<On("s", <<B, A>>)>>),
      ClauseOf("v", <<A, B>>, <<[Body(<<On("r", <<A, B>>)>>) EXCEPT !.negs = <<Not("n", <<A>>)>>]>>),
      ClauseOf("q", <<A>>, <<[Body(<<On("u", <<A, B>>)>>) EXCEPT !.eqs = <<<<A, B>>>>]>>),
      ClauseOf("t", <<A, B>>, <<[Body(<<On("v", <<A, B>>)>>) EXCEPT !.cmps = <<<<"<", A, B>>>>]>>),
      Rule("w", <<A>>, <<On("u", <<A, X>>)>>)>>,
    <<"r" :> Edges1 @@ "s" :> {} @@ "n" :> {}, "r" :> Edges2 @@ "s" :> Edges1 @@ "n" :> One,
      "r" :> Edges3 @@ "s" :> Edges3 @@ "n" :> Two>>)

\* Clauses with equal parts, a join on two columns, a self join, a cross product.
Shared == Program(
    "r" :> M(2) @@ "s" :> M(2) @@ "p" :> L(2) @@ "q" :> Q(2) @@ "t" :> Q(2) @@ "x" :> Q(2),
    <<"r", "s", "p", "q", "t", "x">>,
    <<Rule("p", <<A, B>>, <<On("r", <<A, B>>), On("s", <<A, B>>)>>),
      Rule("q", <<A, C>>, <<On("p", <<A, B>>), On("p", <<B, C>>)>>),
      Rule("t", <<A, B>>, <<On("r", <<A, B>>), On("s", <<A, B>>)>>),
      Rule("t", <<B, A>>, <<On("r", <<A, B>>), On("s", <<A, B>>), On("r", <<B, C>>), On("s", <<C, X>>)>>),
      [Rule("x", <<A, D>>, <<On("r", <<A, A>>), On("s", <<D, Y>>)>>) EXCEPT !.product = TRUE]>>,
    <<"r" :> Edges1 @@ "s" :> {}, "r" :> Edges2 @@ "s" :> Edges1, "r" :> Edges3 @@ "s" :> Edges2>>)

\* Functors, one that filters, and what must never hold.
Functors == Program(
    "r" :> M(2) @@ "q" :> Q(2) @@ "t" :> Q(2) @@ "u" :> Q(1), <<"r", "q", "t", "u">>,
    <<ClauseOf("q", <<A, C>>, <<[Body(<<On("r", <<A, B>>)>>) EXCEPT !.functors = <<Apply("succ", <<B, C>>)>>]>>),
      ClauseOf("t", <<A, B>>, <<[Body(<<On("r", <<A, B>>)>>) EXCEPT !.functors = <<Apply("succ", <<A, B>>)>>]>>),
      ClauseOf("u", <<A>>, <<[Body(<<On("r", <<A, B>>)>>) EXCEPT
                                !.consts = <<<<B, "b">>>>,
                                !.functors = <<[Apply("even", <<A>>) EXCEPT !.positive = FALSE, !.bindings = <<{1}>>,
                                                                          !.filter = TRUE]>>]>>)>>,
    <<"r" :> Edges1, "r" :> Edges2, "r" :> Edges3>>)

\* An aggregate and a mutable parameter.
Grouped == Program(
    "r" :> M(2) @@ "best" :> [L(2) EXCEPT !.mutable = 2] @@ "q" :> Q(2) @@ "t" :> Q(2) @@ "k" :> Q(1),
    <<"r", "best", "q", "t", "k">>,
    <<Rule("best", <<A, B>>, <<On("r", <<A, B>>)>>), Rule("best", <<A, B>>, <<On("r", <<B, A>>)>>),
      Rule("q", <<A, B>>, <<On("best", <<A, B>>)>>),
      Rule("k", <<A>>, <<On("best", <<A, X>>)>>),
      ClauseOf("t", <<A, C>>, <<[Group0 EXCEPT !.aggs = <<Greatest(On("r", <<A, B>>), <<A>>, B, C)>>]>>)>>,
    <<"r" :> {}, "r" :> Edges2, "r" :> Edges3>>)

\* What no row can be, what always is, and relations that nothing fills.
Never0 == Program(
    "r" :> M(2) @@ "no" :> L(1) @@ "loop" :> L(1) @@ "fact" :> L(1) @@ "q" :> Q(1) @@ "t" :> Q(2) @@ "u" :> Q(1) @@ "w" :> Q(1),
    <<"r", "no", "loop", "fact", "q", "t", "u", "w">>,
    <<ClauseOf("no", <<A>>, <<[Body(<<On("r", <<A, B>>)>>) EXCEPT !.consts = <<<<B, "u1">>, <<B, "u2">>>>]>>),
      Rule("loop", <<A>>, <<On("loop", <<A>>), On("r", <<A, X>>)>>),
      ClauseOf("fact", <<A>>, <<[Group0 EXCEPT !.consts = <<<<A, "a">>>>]>>),
      ClauseOf("fact", <<A>>, <<[Group0 EXCEPT !.consts = <<<<A, "c">>>>]>>),
      Rule("q", <<A>>, <<On("no", <<A>>)>>), Rule("q", <<A>>, <<On("r", <<A, X>>)>>),
      ClauseOf("t", <<A, B>>, <<[Body(<<On("r", <<A, B>>)>>) EXCEPT !.negs = <<Not("no", <<A>>), Not("loop", <<B>>)>>]>>),
      Rule("u", <<A>>, <<On("loop", <<A>>)>>),
      Rule("w", <<A>>, <<On("fact", <<A>>), On("r", <<X, A>>)>>)>>,
    <<"r" :> Edges1, "r" :> Edges2, "r" :> Edges3>>)

\* An induction that another one feeds, and one that both feed.
Layers == Program(
    "edge" :> M(2) @@ "tc" :> L(2) @@ "up" :> L(2) @@ "all" :> L(2) @@ "q" :> Q(2), <<"edge", "tc", "up", "all", "q">>,
    <<Rule("tc", <<A, B>>, <<On("edge", <<A, B>>)>>),
      Rule("tc", <<A, C>>, <<On("tc", <<A, B>>), On("edge", <<B, C>>)>>),
      Rule("up", <<B, A>>, <<On("tc", <<A, B>>)>>),
      Rule("up", <<A, C>>, <<On("up", <<A, B>>), On("edge", <<C, B>>)>>),
      Rule("all", <<A, B>>, <<On("up", <<A, B>>)>>), Rule("all", <<A, B>>, <<On("tc", <<B, A>>)>>),
      Rule("all", <<A, C>>, <<On("all", <<A, B>>), On("edge", <<B, C>>)>>),
      Rule("q", <<A, B>>, <<On("all", <<A, B>>)>>)>>,
    <<"edge" :> Edges1, "edge" :> Edges2, "edge" :> Edges3>>)

\* A message received by several clauses and one sent by several, groups of a
\* body, a query that sends what it asks for, rows that can be retracted.
Messaging == [Program(
    "r" :> M(2) @@ "s" :> M(1) @@ "ask" :> M(1) @@ "out" :> M(1) @@ "q" :> Q(2) @@ "k" :> [Q(2) EXCEPT !.bound = {1}]
    @@ "w" :> Q(1),
    <<"r", "s", "ask", "out", "q", "k", "w">>,
    <<Rule("out", <<A>>, <<On("s", <<A>>)>>), Rule("out", <<A>>, <<On("s", <<A>>), On("ask", <<A>>)>>),
      ClauseOf("q", <<A, C>>, <<Body(<<On("r", <<A, B>>)>>), Body(<<On("r", <<B, C>>)>>)>>),
      [Rule("k", <<A, B>>, <<On("r", <<A, B>>)>>) EXCEPT !.force = <<On("ask", <<A>>)>>],
      ClauseOf("w", <<A>>, <<[Body(<<On("r", <<A, X>>)>>) EXCEPT !.negs = <<Never("s", <<A>>)>>]>>)>>,
    <<"r" :> Edges1 @@ "s" :> {} @@ "ask" :> One, "r" :> Edges2 @@ "s" :> One @@ "ask" :> One,
      "r" :> {} @@ "s" :> Two @@ "ask" :> Two, "r" :> Edges3 @@ "s" :> Two @@ "ask" :> Two>>)
    EXCEPT !.diffs = {"r"}]

\* A union that a tuple with its columns swapped feeds back into itself.
Symmetric == Program(
    "edge" :> M(2) @@ "link" :> M(2) @@ "sym" :> L(2) @@ "q" :> Q(2), <<"edge", "link", "sym", "q">>,
    <<Rule("sym", <<A, B>>, <<On("edge", <<A, B>>)>>), Rule("sym", <<A, B>>, <<On("link", <<A, B>>)>>),
      Rule("sym", <<A, B>>, <<On("sym", <<B, A>>)>>),
      Rule("q", <<A, B>>, <<On("sym", <<A, B>>)>>)>>,
    <<"edge" :> {} @@ "link" :> Edges1, "edge" :> Edges2 @@ "link" :> Edges1>>)

\* A relation read by keys only once what else reads it is found to be dead.
Late == Program(
    "r" :> M(2) @@ "best" :> [L(2) EXCEPT !.mutable = 2] @@ "loop" :> L(1) @@ "k" :> Q(1) @@ "t" :> Q(2),
    <<"r", "best", "loop", "k", "t">>,
    <<Rule("best", <<A, B>>, <<On("r", <<A, B>>)>>),
      Rule("loop", <<A>>, <<On("loop", <<A>>), On("r", <<A, X>>)>>),
      Rule("k", <<A>>, <<On("best", <<A, X>>)>>),
      Rule("t", <<A, B>>, <<On("best", <<A, B>>), On("loop", <<A>>)>>)>>,
    <<"r" :> {}, "r" :> Edges1, "r" :> Edges2>>)

\* What the builder refuses.
Refusal(what, clause, decls) ==
    [Program("r" :> M(2) @@ "s" :> M(1) @@ "q" :> Q(1) @@ decls, <<"r", "s", "q">> \o SetToSeq(DOMAIN decls),
             <<Rule("q", <<A>>, <<On("r", <<A, X>>), On("s", <<A>>)>>), clause>>, << >>)
     EXCEPT !.refused = what]
NoDecls == [x \in {} |-> M(1)]
Once == Refusal("variable used once", Rule("q", <<A>>, <<On("r", <<A, B>>)>>), NoDecls)
Contradictory == Refusal("contradictory comparison",
    ClauseOf("q", <<A>>, <<[Body(<<On("r", <<A, B>>)>>) EXCEPT !.eqs = <<<<A, B>>>>, !.cmps = <<<<"<", A, B>>>>]>>), NoDecls)
Unjoined == Refusal("needs a product", Rule("q", <<A>>, <<On("s", <<A>>), On("r", <<X, Y>>)>>), NoDecls)
Unbound == Refusal("negation not applied",
    ClauseOf("q", <<A>>, <<[Body(<<On("s", <<A>>)>>) EXCEPT !.negs = <<Not("r", <<A, B>>), Not("r", <<B, A>>)>>]>>), NoDecls)
Idle == Refusal("unused message", Rule("q", <<A>>, <<On("s", <<A>>)>>), "idle" :> M(1))
Retracted == [Refusal("@never over deletions",
    ClauseOf("q", <<A>>, <<[Body(<<On("s", <<A>>)>>) EXCEPT !.negs = <<Never("r", <<A, X>>)>>]>>), NoDecls)
    EXCEPT !.diffs = {"r"}]
Lost == [Refusal("message sends deletions", Rule("out", <<A>>, <<On("r", <<A, A>>)>>), "out" :> M(1))
    EXCEPT !.diffs = {"r"}]
Undefined == Refusal("missing definition", Rule("q", <<A>>, <<On("s", <<A>>), On("none", <<A>>)>>), "none" :> L(1))

CyclePrograms == "symmetric" :> Symmetric
Programs1 == "tc" :> Tc @@ "constants" :> Constants @@ "negation" :> Negation @@ "conditions" :> Conditions0
             @@ "sinking" :> Sinking @@ "shared" :> Shared @@ "functors" :> Functors @@ "grouped" :> Grouped
             @@ "never" :> Never0 @@ "layers" :> Layers @@ "messaging" :> Messaging @@ "late" :> Late
             @@ "once" :> Once @@ "contradictory" :> Contradictory @@ "unjoined" :> Unjoined @@ "unbound" :> Unbound
             @@ "idle" :> Idle @@ "retracted" :> Retracted @@ "lost" :> Lost @@ "undefined" :> Undefined
=============================================================================
