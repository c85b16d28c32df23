------------------------------ MODULE Programs ------------------------------
(* Ground programs: the smallest shapes of the lowering that can disagree  *)
(* with the least model. *)
EXTENDS Integers, Sequences, FiniteSets

Rule(rule, kind, head, body, neg, at) ==
    [rule |-> rule, kind |-> kind, head |-> head, body |-> body, neg |-> neg,
     at |-> at]

-----------------------------------------------------------------------------
(* Linear reachability from a fixed node, over three nodes and four edges: *)
(* a cycle, and a shortcut whose end has consequences of its own:          *)
(*    tc(Z) : edge("a", Z).                                                *)
(*    tc(Z) : tc(Y), edge(Y, Z).                                           *)
(* The join keeps its own table j, in the SCC of tc.  (The closure tc(X,Z) *)
(* is one such copy per X, and no rule joins two of them.)                 *)
Node == {"a", "b", "c"}
Edge == {<<"a", "b">>, <<"b", "c">>, <<"c", "a">>, <<"a", "c">>}

TcRow ==
    {<<"edge", e[1], e[2]>> : e \in Edge}
    \cup {<<"tc", z>> : z \in Node}
    \cup {<<"j", e[1], e[2]>> : e \in Edge}
TcReceived == {"edge"}
TcStratum == [edge |-> 0, tc |-> 1, j |-> 1]
TcScc == [edge |-> 0, tc |-> 1, j |-> 1]
TcInst ==
    {Rule("base", "chain", <<"tc", e[2]>>, <<<<"edge", e[1], e[2]>>>>, {}, 1) :
         e \in {f \in Edge : f[1] = "a"}}
    \cup {Rule("step", "join", <<"j", e[1], e[2]>>,
               <<<<"tc", e[1]>>, <<"edge", e[1], e[2]>>>>, {}, 1) :
               e \in Edge}
    \cup {Rule("proj", "chain", <<"tc", e[2]>>, <<<<"j", e[1], e[2]>>>>,
               {}, 1) : e \in Edge}

-----------------------------------------------------------------------------
(* Nonlinear transitive closure: both sides of the join are in the SCC, so *)
(* an instance can have both its rows claimed in one round.                *)
(*    p(X, Z) : link(X, Z).                                                *)
(*    p(X, Z) : p(X, Y), p(Y, Z).                                          *)
NlEdge == {<<"a", "b">>, <<"b", "a">>, <<"b", "c">>}
NlTriple == {"a", "b"} \X {"a", "b"} \X Node

NlRow ==
    {<<"link", e[1], e[2]>> : e \in NlEdge}
    \cup {<<"p", x, z>> : x \in {"a", "b"}, z \in Node}
    \cup {<<"jp", t[1], t[2], t[3]>> : t \in NlTriple}
NlReceived == {"link"}
NlInst ==
    {Rule("nlbase", "chain", <<"p", e[1], e[2]>>, <<<<"link", e[1], e[2]>>>>,
          {}, 1) : e \in NlEdge}
    \cup {Rule("nlstep", "join", <<"jp", t[1], t[2], t[3]>>,
               <<<<"p", t[1], t[2]>>, <<"p", t[2], t[3]>>>>, {}, 1) :
               t \in NlTriple}
    \cup {Rule("nlproj", "chain", <<"p", t[1], t[3]>>,
               <<<<"jp", t[1], t[2], t[3]>>>>, {}, 1) : t \in NlTriple}

-----------------------------------------------------------------------------
(* Acyclic tables, with support that flips within a batch:                 *)
(*    m(K) : e1(K).   m(K) : e2(K).        two base rules                  *)
(*    n(K) : m(K), !q(K).                  a negation                      *)
(*    jn(K) : m(K), q(K).                  a join of two changing sides    *)
(*    pr(K, L, N) : jn(K), n(L), m(N).     a product of three              *)
(*    out(K) : pr(K, L, N).                a projection that merges        *)
AcFact == {<<"e1", "a">>, <<"e2", "a">>, <<"e1", "b">>, <<"q", "a">>}
AcKey == {"a", "b"}
AcTriple == {"a"} \X AcKey \X AcKey

AcRow ==
    AcFact \cup {<<t, k>> : t \in {"m", "n"}, k \in AcKey}
           \cup {<<t, "a">> : t \in {"jn", "out"}}
           \cup {<<"pr", t[1], t[2], t[3]>> : t \in AcTriple}
AcReceived == {"e1", "e2", "q"}
AcInst ==
    {Rule(e[1], "chain", <<"m", e[2]>>, <<e>>, {}, 1) :
         e \in {f \in AcFact : f[1] # "q"}}
    \cup {Rule("neg", "chain", <<"n", k>>, <<<<"m", k>>>>,
               {<<"q", k>>} \cap AcFact, 2) : k \in AcKey}
    \cup {Rule("jn", "join", <<"jn", "a">>, <<<<"m", "a">>, <<"q", "a">>>>,
               {}, 2)}
    \cup {Rule("pr", "product", <<"pr", t[1], t[2], t[3]>>,
               <<<<"jn", t[1]>>, <<"n", t[2]>>, <<"m", t[3]>>>>, {}, 3) :
              t \in AcTriple}
    \cup {Rule("out", "chain", <<"out", t[1]>>,
               <<<<"pr", t[1], t[2], t[3]>>>>, {}, 4) : t \in AcTriple}

-----------------------------------------------------------------------------
(* A negation inside a recursive SCC:                                      *)
(*    seen(X) : src(X).                                                    *)
(*    seen(Y) : seen(X), hop(X, Y), !wall(Y).                              *)
(* and a reader of the SCC's frontiers, far(Y) : seen(Y).                  *)
NgEdge == {<<"a", "b">>, <<"b", "a">>}

NgRow ==
    {<<"src", "a">>, <<"wall", "b">>}
    \cup {<<"hop", e[1], e[2]>> : e \in NgEdge}
    \cup {<<t, x>> : t \in {"seen", "far"}, x \in {"a", "b"}}
    \cup {<<t, e[1], e[2]>> : t \in {"jh", "nh"}, e \in NgEdge}
NgReceived == {"src", "wall", "hop"}
NgWall(y) == {<<"wall", "b">>} \cap {<<"wall", y>>}
NgInst ==
    {Rule("ngbase", "chain", <<"seen", "a">>, <<<<"src", "a">>>>, {}, 1)}
    \cup {Rule("ngstep", "join", <<"jh", e[1], e[2]>>,
               <<<<"seen", e[1]>>, <<"hop", e[1], e[2]>>>>, {}, 1) :
              e \in NgEdge}
    \cup {Rule("ngneg", "chain", <<"nh", e[1], e[2]>>,
               <<<<"jh", e[1], e[2]>>>>, NgWall(e[2]), 1) : e \in NgEdge}
    \cup {Rule("ngproj", "chain", <<"seen", e[2]>>,
               <<<<"nh", e[1], e[2]>>>>, {}, 1) : e \in NgEdge}
    \cup {Rule("far", "chain", <<"far", x>>, <<<<"seen", x>>>>, {}, 2) :
              x \in {"a", "b"}}

-----------------------------------------------------------------------------
(* Recursion over a base rule that projects a column away, so that a row   *)
(* of the SCC can exchange one nonrecursive support for another:           *)
(*    reach(X) : start(X, _).                                              *)
(*    reach(Y) : reach(X), edge(X, Y).                                     *)
FlRow == {<<"start", "a", 1>>, <<"start", "a", 2>>, <<"edge", "a", "b">>,
          <<"reach", "a">>, <<"reach", "b">>, <<"j", "a", "b">>}
FlReceived == {"start", "edge"}
FlStratum == [start |-> 0, edge |-> 0, reach |-> 1, j |-> 1]
FlScc == [start |-> 0, edge |-> 0, reach |-> 1, j |-> 1]
FlInst ==
    {Rule("base", "chain", <<"reach", "a">>, <<<<"start", "a", k>>>>, {}, 1) :
         k \in {1, 2}}
    \cup {Rule("step", "join", <<"j", "a", "b">>,
               <<<<"reach", "a">>, <<"edge", "a", "b">>>>, {}, 1),
          Rule("proj", "chain", <<"reach", "b">>, <<<<"j", "a", "b">>>>,
               {}, 1)}

-----------------------------------------------------------------------------
(* The acyclic, the nonlinear and the negated program side by side. *)
NettingRow == AcRow \cup NlRow \cup NgRow
NettingReceived == AcReceived \cup NlReceived \cup NgReceived
NettingStratum ==
    [e1 |-> 0, e2 |-> 0, q |-> 0, m |-> 1, n |-> 2, jn |-> 2, pr |-> 3,
     out |-> 4, link |-> 0, p |-> 1, jp |-> 1, src |-> 0, wall |-> 0,
     hop |-> 0, seen |-> 1, jh |-> 1, nh |-> 1, far |-> 2]
NettingScc ==
    [e1 |-> 0, e2 |-> 0, q |-> 0, m |-> 0, n |-> 0, jn |-> 0, pr |-> 0,
     out |-> 0, link |-> 0, p |-> 2, jp |-> 2, src |-> 0, wall |-> 0,
     hop |-> 0, seen |-> 1, jh |-> 1, nh |-> 1, far |-> 0]
NettingInst == AcInst \cup NlInst \cup NgInst

(* The acyclic and the nonlinear program, and the one with a flip. *)
MixedRow == FlRow \cup AcRow \cup NlRow
MixedReceived == FlReceived \cup AcReceived \cup NlReceived
MixedStratum ==
    [start |-> 0, edge |-> 0, reach |-> 1, j |-> 1,
     e1 |-> 0, e2 |-> 0, q |-> 0, m |-> 1, n |-> 2, jn |-> 2, pr |-> 3,
     out |-> 4, link |-> 0, p |-> 1, jp |-> 1]
MixedScc ==
    [start |-> 0, edge |-> 0, reach |-> 1, j |-> 1,
     e1 |-> 0, e2 |-> 0, q |-> 0, m |-> 0, n |-> 0, jn |-> 0, pr |-> 0,
     out |-> 0, link |-> 0, p |-> 2, jp |-> 2]
MixedInst == FlInst \cup AcInst \cup NlInst

(* The facts of one program. *)
FactSets == {{x \in NlRow : x[1] \in NlReceived},
             {x \in NgRow : x[1] \in NgReceived},
             {x \in FlRow : x[1] \in FlReceived}, AcFact}
=============================================================================
