----------------------------- MODULE Statements -----------------------------
(***************************************************************************)
(* The statement parsers of lib/Parse, token by token: each reads one      *)
(* statement with a numbered state machine, and its states keep their      *)
(* numbers here.  They are run against the grammar of docs/Grammar.md,     *)
(* written as productions and recognised top down.                         *)
(*                                                                         *)
(* A token is a class of tokens.  Identifiers are classed by what is       *)
(* declared under them: "atom" a local or export, "qry" a query, "msg" a   *)
(* message, "fun" a functor, "agg" an aggregating functor, "merge" a       *)
(* functor fit to merge values; "ftype" and "etype" name types.  "code$"  *)
(* is a code or string literal with exactly one $, "stage" a valid place   *)
(* for inline code, "=" any comparison.                                    *)
(***************************************************************************)
EXTENDS Naturals, Sequences, SequencesExt, FiniteSets

CONSTANTS
    Kinds,          \* the kinds of statement that are read
    MaxArity,       \* kMaxArity
    MaxNesting      \* how deep aggregated bodies nest

LimitsAssumption == MaxArity \in Nat \ {0} /\ MaxNesting \in Nat

Type == {"int", "bool", "ftype", "etype"}
Atom == {"atom", "qry", "msg", "fun", "agg"}
Functor == {"fun", "agg"}
Literal == {"lit", "true", "false"}
Code == {"code", "code$", "cxx", "py"}

(***************************************************************************)
(* The declarations' machines: moves <<state, tokens, next state>>.  A     *)
(* token without a move is an error.  Body is a clause body, which is      *)
(* collected and then parsed by ParseClause.                               *)
(***************************************************************************)
Body == 100

LocalParamMoves ==
    {<<0, {"atom"}, 1>>, <<1, {"("}, 2>>,
     <<2, Type, 3>>, <<2, {"var"}, 4>>, <<2, {"mutable"}, 5>>, <<3, {"var"}, 4>>,
     <<4, {","}, 2>>, <<4, {")"}, 8>>, <<5, {"("}, 6>>}
LocalMergeMoves == {<<6, {"merge"}, 7>>, <<7, {")"}, 3>>}
LocalPragmaMoves == {<<8, {"@inline", "@highlight"}, 8>>, <<8, {"."}, 9>>, <<8, {":"}, Body>>}

QueryMoves ==
    {<<0, {"atom"}, 1>>, <<1, {"("}, 2>>, <<2, {"bound", "free"}, 3>>, <<3, Type, 4>>,
     <<4, {"var"}, 5>>, <<5, {","}, 2>>, <<5, {")"}, 6>>,
     <<6, {"@first"}, 6>>, <<6, {"."}, 7>>, <<6, {":"}, Body>>}

MessageMoves ==
    {<<0, {"atom"}, 1>>, <<1, {"("}, 2>>, <<2, Type, 3>>, <<3, {"var"}, 4>>,
     <<4, {","}, 2>>, <<4, {")"}, 5>>,
     <<5, {"@differential", "@product"}, 5>>, <<5, {"."}, 6>>, <<5, {":"}, Body>>}

FunctorHeadMoves ==
    {<<0, {"atom"}, 1>>, <<1, {"("}, 2>>, <<2, {"bound", "free", "aggregate", "summary"}, 3>>,
     <<3, Type, 4>>, <<4, {"var"}, 5>>, <<5, {","}, 2>>, <<5, {")"}, 6>>}

Algebra == {"@invertible", "@recompute", "@commutative", "@associative", "@idempotent"}

(* State 66 is state 6 right after @inline, where a parenthesis may open.  *)
FunctorPragmaMoves ==
    LET from == {6, 66}
    IN {<<q, {"@range"}, 7>> : q \in from} \cup {<<q, {"@impure"}, 6>> : q \in from}
       \cup {<<q, {"@inline"}, 66>> : q \in from} \cup {<<q, Algebra, 6>> : q \in from}
       \cup {<<q, {"."}, 10>> : q \in from}

FunctorDetailMoves ==
    {<<7, {"("}, 8>>, <<8, {".", "*", "?", "+"}, 9>>, <<9, {")"}, 6>>,
     <<66, {"("}, 12>>, <<12, Code \cup {"str"}, 13>>, <<13, {")"}, 6>>}

(* State 22 is state 2 after a representation for one language only. *)
ForeignNameMoves ==
    {<<0, {"atom", "var", "ftype"}, 1>>, <<1, {"cxx", "py"}, 22>>,
     <<1, {"code", "code$", "str"}, 2>>, <<1, {"."}, 4>>}
ForeignDetailMoves ==
    {<<22, {"code$"}, 3>>}
    \cup {<<q, {"@transparent", "@nullable"}, 3>> : q \in {2, 22, 3}}
    \cup {<<q, {"."}, 4>> : q \in {2, 22, 3}}

ConstantNameMoves == {<<0, Type, 1>>, <<1, {"atom", "var", "const"}, 2>>}
ConstantValueMoves ==
    {<<2, Code \cup {"str"} \cup Literal, 3>>, <<3, {"@unique"}, 3>>, <<3, {"."}, 4>>}

EnumMoves ==
    {<<0, {"atom", "var", "etype"}, 1>>, <<1, {"."}, 3>>, <<1, {"int"}, 2>>, <<2, {"."}, 3>>}

ImportMoves == {<<0, {"str"}, 1>>, <<1, {"."}, 2>>}

(* Whatever follows the name passes for the period; what follows that is   *)
(* never read.                                                             *)
DatabaseMoves ==
    {<<0, {"atom", "var", "const", "ftype", "etype", "str", "code"}, 1>>,
     <<1, {"atom", "str", "code", "."}, 2>>, <<2, {"atom", "str", "code", "."}, 2>>}

(* Nothing is read after the code, a period or not. *)
InlineMoves ==
    {<<0, {"("}, 1>>, <<1, {"stage"}, 2>>, <<2, {")"}, 3>>, <<3, Code \cup {"str"}, 4>>,
     <<4, {"atom", "str", "code", "."}, 4>>}

Moves == [local |-> LocalParamMoves \cup LocalMergeMoves \cup LocalPragmaMoves, query |-> QueryMoves, message |-> MessageMoves,
          functor |-> FunctorHeadMoves \cup FunctorPragmaMoves \cup FunctorDetailMoves,
          foreign |-> ForeignNameMoves \cup ForeignDetailMoves,
          constant |-> ConstantNameMoves \cup ConstantValueMoves,
          enum |-> EnumMoves, import |-> ImportMoves, database |-> DatabaseMoves,
          inline |-> InlineMoves]

(* The state in which a parameter has just been read. *)
AfterParam == [local |-> 4, query |-> 5, message |-> 4, functor |-> 5]

(* The states in which a machine that runs out of tokens is content. *)
Content == [local |-> {9}, query |-> {7}, message |-> {6}, functor |-> {10},
            foreign |-> {4}, constant |-> {4}, enum |-> {3}, import |-> {2},
            database |-> {2}, inline |-> {4}]

(* What the parsers remember of the tokens: pragmas, bindings, ranges and  *)
(* types.  A pragma seen twice before ParseClause sees it is "again".      *)
Remembered == Algebra \cup Type \cup
    {"@inline", "@highlight", "@product", "@first", "@differential", "@range", "@impure",
     "@transparent", "@nullable", "@unique", "bound", "free", "aggregate", "summary",
     "mutable", "*", "?", "+"}

Note(kind, st, t) ==
    st.seen \cup ({t} \cap Remembered)
            \cup {x \in {"merged"} : kind = "local" /\ st.q = 7}
            \cup {x \in {"one"} : kind = "functor" /\ st.q = 8 /\ t = "."}
            \cup {x \in {"again"} : t = "@highlight" /\ t \in st.seen}

RefusesLocalExport(st, t) ==
    /\ st.q = 8
    /\ \/ t = "@inline" /\ t \in st.seen
       \/ t = "." /\ "@highlight" \in st.seen
       \/ t = ":" /\ "again" \in st.seen

RefusesQueryAnyFirst(st, t) == st.q = 6 /\ t = "@first" /\ "free" \notin st.seen

RefusesQuery(st, t) ==
    st.q = 6 /\ t = "@first" /\ (t \in st.seen \/ "free" \notin st.seen)

RefusesMessage(st, t) ==
    /\ st.q = 5
    /\ \/ t \in {"@differential", "@product"} /\ t \in st.seen
       \/ t = "." /\ "@product" \in st.seen

RefusesFunctorPragma(st, t) ==
    /\ st.q \in {6, 66}
    /\ \/ t \in Algebra \cup {"@range", "@impure", "@inline"} /\ t \in st.seen
       \/ t = "@invertible" /\ "@recompute" \in st.seen
       \/ t = "@recompute" /\ "@invertible" \in st.seen

(* The checks on a functor once its period is read. *)
RefusesFunctor(st, t) ==
    LET is_aggregate == st.seen \cap {"aggregate", "summary"} # {}
    IN /\ st.q \in {6, 66} /\ t = "."
       /\ \/ "@impure" \in st.seen
          \/ is_aggregate /\ "@range" \in st.seen
          \/ ~is_aggregate /\ "free" \notin st.seen /\ st.seen \cap {"*", "+", "one"} # {}
          \/ ~({"aggregate", "summary"} \subseteq st.seen) /\ is_aggregate
          \/ {"summary", "free"} \subseteq st.seen
          \/ ~is_aggregate /\ "bound" \notin st.seen

RefusesForeignType(st, t) == t \in {"@transparent", "@nullable"} /\ t \in st.seen

RefusesForeignConstant(st, t) ==
    \/ /\ st.q = 2
       /\ \/ t = "str" /\ "ftype" \notin st.seen
          \/ t = "lit" /\ "bool" \in st.seen
          \/ t \in {"true", "false"} /\ "bool" \notin st.seen
          \/ t \in Code /\ "etype" \in st.seen
    \/ st.q = 3 /\ t = "@unique" /\ t \in st.seen

Refuses(kind, st, t) ==
    \/ kind = "local" /\ RefusesLocalExport(st, t)
    \/ kind = "query" /\ RefusesQuery(st, t)
    \/ kind = "message" /\ RefusesMessage(st, t)
    \/ kind = "functor" /\ (RefusesFunctorPragma(st, t) \/ RefusesFunctor(st, t))
    \/ kind = "foreign" /\ RefusesForeignType(st, t)
    \/ kind = "constant" /\ RefusesForeignConstant(st, t)
    \/ kind \in DOMAIN AfterParam /\ st.q = AfterParam[kind] /\ st.n = MaxArity

(***************************************************************************)
(* ParseClause and ParseAggregatedPredicate, whose states are numbered     *)
(* from 20.  States 50 and 51 stand for the tokens read ahead after        *)
(* @first and @barrier.                                                    *)
(***************************************************************************)
Args == Literal \cup {"var", "anon"}

ClauseHeadMoves ==
    {<<0, Atom, 1>>, <<1, {"("}, 2>>, <<1, {":"}, 5>>,
     <<2, Literal \cup {"var"}, 3>>, <<3, {","}, 2>>, <<3, {")"}, 4>>,
     <<4, {":"}, 5>>, <<4, {"."}, 9>>, <<4, {"@highlight", "@product"}, 4>>}

ConjunctMoves ==
    {<<5, {"var"} \cup Literal, 6>>, <<5, {"!", "@never"}, 11>>, <<5, Atom, 12>>,
     <<5, {"@first"}, 50>>, <<50, Atom, 12>>, <<5, {"@barrier"}, 51>>, <<51, {","}, 5>>}

ComparisonMoves ==
    {<<6, {"="}, 7>>, <<7, Literal \cup {"var"}, 8>>, <<8, {"over"}, 20>>}
    \cup {<<q, {",", ":"}, 5>> : q \in {6, 8, 12}} \cup {<<q, {".", "}"}, 9>> : q \in {6, 8, 12}}

PredicateMoves ==
    {<<11, Atom, 12>>, <<11, {"var", "true", "false"}, 8>>,
     <<12, {"("}, 13>>, <<13, Args, 14>>, <<14, {","}, 13>>, <<14, {")"}, 8>>}

AggregatedBodyMoves ==
    {<<20, {"("}, 21>>, <<21, Type, 22>>, <<21, {"var"}, 23>>,
     <<22, {"var"}, 23>>, <<23, {","}, 21>>, <<23, {")"}, 24>>, <<24, {"{"}, 5>>}

AggregatedPredicateMoves ==
    {<<20, Atom, 26>>, <<26, {"("}, 27>>, <<27, Args, 28>>, <<28, {","}, 27>>, <<28, {")"}, 8>>}

ClauseMoves == ClauseHeadMoves \cup ConjunctMoves \cup ComparisonMoves \cup PredicateMoves
               \cup AggregatedBodyMoves \cup AggregatedPredicateMoves

EndsConjunct == {",", ".", ":", "}"}

(* TryMatchClauseWithDecl and the pragmas of the head. *)
RefusesHead(st, t) ==
    \/ st.q = 3 /\ t = ")" /\ (st.n > MaxArity \/ st.name \in Functor)
    \/ st.q = 4 /\ t \in st.seen

(* @first is for one message of each body of a query. *)
RefusesForce(st, t) == st.q = 5 /\ t = "@first" /\ (~st.query \/ st.forced)

(* A literal by itself. *)
RefusesLiteral(st, t) == st.q = 6 /\ t \in EndsConjunct /\ st.lhs = "lit"

(* Only an aggregating functor is applied over something, and it must be. *)
RefusesOver(st, t) ==
    /\ st.q = 8
    /\ IF t = "over" THEN st.name # "agg" \/ st.neg # "no" ELSE st.name = "agg"

(* What begins with a brace ends with one. *)
RefusesBrace(st, t) == (t = "." /\ st.up # <<>>) \/ (t = "}" /\ st.up = <<>>)

(* What @never and @first want to see. *)
RefusesNegation(st, t) ==
    \/ st.q = 11 /\ st.neg = "@never" /\ t \notin Atom
    \/ st.q = 12 /\ t # "(" /\ (st.force \/ st.neg = "@never")

(* A predicate: TryMatchPredicateWithDecl and link_pred. *)
RefusesPredicate(st, t) ==
    /\ st.q = 14 /\ t = ")"
    /\ \/ st.n > MaxArity
       \/ st.force /\ st.name # "msg"
       \/ st.neg = "!" /\ st.name \in Functor

RefusesAggregated(st, t) == st.q = 28 /\ t = ")" /\ (st.n > MaxArity \/ st.name \in Functor)

RefusesClause(st, t) ==
    \/ RefusesHead(st, t) \/ RefusesForce(st, t) \/ RefusesLiteral(st, t) \/ RefusesOver(st, t)
    \/ RefusesBrace(st, t) \/ RefusesNegation(st, t) \/ RefusesPredicate(st, t)
    \/ RefusesAggregated(st, t)

(***************************************************************************)
(* One token.                                                              *)
(***************************************************************************)
Start(k) == [clause |-> k = "clause", q |-> 0, n |-> 0, seen |-> {}, name |-> "none",
             neg |-> "no", force |-> FALSE, forced |-> FALSE, lhs |-> "no",
             query |-> FALSE, up |-> <<>>]

Targets(moves, q, t) == {m[3] : m \in {x \in moves : x[1] = q /\ t \in x[2]}}

Declared(kind, st, t, to) ==
    IF to = Body THEN [Start("clause") EXCEPT !.q = 5, !.query = kind = "query"]
    ELSE [st EXCEPT !.q = to, !.seen = Note(kind, st, t),
                    !.n = IF kind \in DOMAIN AfterParam /\ st.q = AfterParam[kind]
                          THEN @ + 1 ELSE @]

(* A conjunct ends: the predicate's tokens are forgotten; a colon starts   *)
(* another clause with the same head.                                      *)
Fresh(st, to) == [st EXCEPT !.q = to, !.name = "none", !.neg = "no", !.force = FALSE,
                            !.lhs = "no", !.n = 0]

Nested(st) ==
    [Fresh(st, 5) EXCEPT !.query = FALSE, !.forced = FALSE,
                         !.up = Append(@, [query |-> st.query, forced |-> st.forced])]
Unnested(st) ==
    [Fresh(st, 8) EXCEPT !.query = Last(st.up).query, !.forced = Last(st.up).forced, !.up = Front(@)]

InClause(st, t, to) ==
    CASE t = "{" -> Nested(st)
      [] t = "}" -> Unnested(st)
      [] to \in {5, 9} -> [Fresh(st, to) EXCEPT !.forced = @ /\ t # ":", !.query = @ /\ st.q # 1]
      [] st.q = 28 /\ t = ")" -> Fresh(st, to)
      [] OTHER ->
           [st EXCEPT !.q = to,
                      !.name = IF t \in Atom THEN t ELSE @,
                      !.query = IF st.q = 0 THEN t = "qry" ELSE @,
                      !.neg = IF t \in {"!", "@never"} THEN t ELSE @,
                      !.force = @ \/ t = "@first",
                      !.forced = @ \/ t = "@first",
                      !.lhs = IF st.q = 5 /\ to = 6 THEN t ELSE @,
                      !.n = IF t = "(" THEN 0
                            ELSE IF st.q \in {2, 13, 27} /\ @ <= MaxArity THEN @ + 1 ELSE @,
                      !.seen = @ \cup ({t} \cap {"@highlight", "@product"})]

Crashes(kind, st, t) == kind = "local" /\ st.q = 7 /\ ~st.clause /\ t = ")" /\ "merged" \in st.seen

Step(kind, st, t) ==
    IF st.clause
    THEN {InClause(st, t, to) : to \in {x \in Targets(ClauseMoves, st.q, t) : ~RefusesClause(st, t)}}
    ELSE {Declared(kind, st, t, to) : to \in {x \in Targets(Moves[kind], st.q, t) :
                                                   ~Refuses(kind, st, t)}}

(***************************************************************************)
(* The grammar of docs/Grammar.md as right-recursive productions.  A       *)
(* configuration is what remains to be derived.                            *)
(***************************************************************************)
AnyOf(S) == {<<x>> : x \in S}
ListOf(self, item) == {<<item>>, <<item, ",", self>>}
Conjuncts(list, tail) ==
    {<<"comparison", tail>>, <<"predicate", tail>>, <<"@barrier", ",", list>>,
     <<"agg", "(", "args", ")", "over", "aggregation", tail>>}

Documented ==
    [local |-> {<<"atom", "(", "local_params", ")", "local_pragmas", "finish">>},
     local_params |-> ListOf("local_params", "local_param"),
     local_param |-> {<<"type", "var">>, <<"var">>, <<"mutable", "(", "merge", ")", "var">>},
     local_pragmas |-> {<<>>, <<"@inline", "local_pragmas">>, <<"@highlight", "local_pragmas">>},
     message |-> {<<"atom", "(", "message_params", ")", "message_pragmas", "finish">>},
     message_params |-> {<<"type", "var">>, <<"type", "var", ",", "message_params">>},
     message_pragmas |-> {<<>>, <<"@differential", "message_pragmas">>,
                          <<"@product", "message_pragmas">>},
     query |-> {<<"atom", "(", "query_params", ")", "maybe_first", "finish_query">>},
     query_params |-> ListOf("query_params", "query_param"),
     query_param |-> {<<"bound", "type", "var">>, <<"free", "type", "var">>},
     maybe_first |-> {<<>>, <<"@first">>},
     finish |-> {<<".">>, <<":", "bodies", ".">>},
     finish_query |-> {<<".">>, <<":", "query_bodies", ".">>},
     functor |-> {<<"atom", "(", "functor_params", ")", "constraints", ".">>},
     functor_params |-> ListOf("functor_params", "functor_param"),
     functor_param |-> {<<b, "type", "var">> : b \in {"bound", "free", "aggregate", "summary"}},
     constraints |-> {<<>>, <<"@range", "(", "range", ")", "constraints">>,
                      <<"@impure", "constraints">>, <<"@inline", "constraints">>,
                      <<"@inline", "(", "code_data", ")", "constraints">>},
     range |-> AnyOf({".", "+", "*", "?"}),
     foreign |-> {<<"foreign_name", ".">>, <<"foreign_name", "code_data", "foreign_pragmas", ".">>,
                  <<"foreign_name", "tagged", "code$", "foreign_pragmas", ".">>},
     foreign_name |-> AnyOf({"atom", "var", "ftype"}),
     foreign_pragmas |-> {<<>>, <<"@transparent", "foreign_pragmas">>,
                          <<"@nullable", "foreign_pragmas">>},
     constant |-> {<<"int", "constant_name", "int_value", "unique", ".">>,
                   <<"bool", "constant_name", "bool_value", "unique", ".">>,
                   <<"ftype", "constant_name", "foreign_value", "unique", ".">>,
                   <<"etype", "constant_name", "lit", "unique", ".">>},
     constant_name |-> AnyOf({"atom", "var", "const"}),
     int_value |-> AnyOf(Code \cup {"lit"}),
     bool_value |-> AnyOf(Code \cup {"true", "false"}),
     foreign_value |-> AnyOf(Code \cup {"str"}),
     unique |-> {<<>>, <<"@unique">>},
     enum |-> {<<"enum_name", ".">>, <<"enum_name", "int", ".">>},
     enum_name |-> AnyOf({"atom", "var", "etype"}),
     import |-> {<<"str", ".">>},
     database |-> {<<"database_name", ".">>},
     database_name |-> AnyOf({"atom", "var", "const", "ftype", "etype", "str", "code", "cxx"}),
     inline |-> {<<"(", "stage", ")", "code_data", ".">>},
     type |-> AnyOf(Type), code_data |-> AnyOf(Code \cup {"str"}), tagged |-> AnyOf({"cxx", "py"}),
     clause |-> {<<"name", "(", "head_args", ")", "head_pragmas", ".">>,
                 <<"plain", "(", "head_args", ")", "head_pragmas", ":", "bodies", ".">>,
                 <<"qry", "(", "head_args", ")", "head_pragmas", ":", "query_bodies", ".">>,
                 <<"any_name", ":", "bodies", ".">>},
     name |-> AnyOf({"atom", "msg", "qry"}), plain |-> AnyOf({"atom", "msg"}),
     any_name |-> AnyOf(Atom),
     head_args |-> ListOf("head_args", "head_arg"), head_arg |-> AnyOf(Literal \cup {"var"}),
     head_pragmas |-> {<<>>, <<"@highlight", "head_pragmas">>, <<"@product", "head_pragmas">>},
     bodies |-> {<<"conjuncts">>, <<"conjuncts", ":", "bodies">>},
     query_bodies |-> {<<"query_conjuncts">>, <<"query_conjuncts", ":", "query_bodies">>},
     conjuncts |-> Conjuncts("conjuncts", "tail"), tail |-> {<<>>, <<",", "conjuncts">>},
     query_conjuncts |-> Conjuncts("query_conjuncts", "query_tail")
                         \cup {<<"@first", "msg", "(", "args", ")", "tail">>},
     query_tail |-> {<<>>, <<",", "query_conjuncts">>},
     comparison |-> {<<"arg", "=", "arg">>},
     predicate |-> {<<"bool_or_atom">>, <<"!", "bool_or_atom">>, <<"called", "(", "args", ")">>,
                    <<"!", "name", "(", "args", ")">>, <<"@never", "called", "(", "args", ")">>},
     bool_or_atom |-> AnyOf(Atom \cup {"var", "anon", "true", "false"}),
     called |-> AnyOf(Atom \ {"agg"}),
     aggregation |-> {<<"name", "(", "args", ")">>, <<"(", "anon_params", ")", "{", "inner", "}">>},
     inner |-> {<<"conjuncts">>},
     anon_params |-> ListOf("anon_params", "anon_param"),
     anon_param |-> {<<"type", "var">>, <<"var">>},
     args |-> ListOf("args", "arg"), arg |-> AnyOf(Literal \cup {"var", "anon"})]

(***************************************************************************)
(* Where the parsers and the document part ways.  Extra: the algebra       *)
(* pragmas of functors; a #database or #inline that does not end in a      *)
(* period; a number as the value of a foreign constant; chained bodies     *)
(* between braces.  Missing: anonymous variables outside argument lists,   *)
(* and a database named by code tagged with a language.                    *)
(***************************************************************************)
Extra == [constraints |-> {<<p, "constraints">> : p \in Algebra},
          database |-> {<<"database_name", "any", "anything">>},
          inline |-> {<<"(", "stage", ")", "code_data", "anything">>},
          any |-> AnyOf({"atom", "str", "code", "."}),
          anything |-> {<<>>, <<"any", "anything">>},
          foreign_value |-> {<<"lit">>},
          inner |-> {<<"bodies">>},
          side |-> AnyOf(Literal \cup {"var"}),
          comparison |-> {<<"side", "=", "side">>}]

Missing == [database_name |-> {<<"cxx">>}, bool_or_atom |-> {<<"anon">>},
            comparison |-> {<<"arg", "=", "arg">>}]

Or(f, x) == IF x \in DOMAIN f THEN f[x] ELSE {}

Grammar == [x \in DOMAIN Documented \cup DOMAIN Extra |->
               (Or(Documented, x) \cup Or(Extra, x)) \ Or(Missing, x)]

(* The configurations of c that start with a terminal, or are empty. *)
RECURSIVE Leftmost(_)
Leftmost(c) ==
    IF c = <<>> \/ Head(c) \notin DOMAIN Grammar THEN {c}
    ELSE UNION {Leftmost(rhs \o Tail(c)) : rhs \in Grammar[Head(c)]}

Derive(configs, t) ==
    UNION {Leftmost(Tail(c)) : c \in {x \in configs : x # <<>> /\ Head(x) = t}}

(***************************************************************************)
(* What the document's prose adds: pragmas and mutable parameters that may *)
(* appear once, what they need, and the limit on the arity.                *)
(***************************************************************************)
Aggregates(once) == once \cap {"aggregate", "summary"} # {}

Prose(g) ==
    /\ g.twice = {} /\ ~g.wide
    /\ "@first" \in g.once => "free" \in g.once
    /\ "@impure" \notin g.once
    /\ Aggregates(g.once) => "@range" \notin g.once

(* A declaration that ends without a clause. *)
ProseAtEnd(k, g) ==
    k \in {"local", "message"} /\ ~g.body => g.once \cap {"@highlight", "@product"} = {}

(* What the parsers ask of a functor and the document does not: aggregate  *)
(* and summary parameters come together and without free ones, other       *)
(* functors have a bound parameter, a range needs a free one, and of two   *)
(* algebra pragmas one excludes the other.                                 *)
Shape(g) ==
    /\ ~({"@invertible", "@recompute"} \subseteq g.once)
ShapeAtEnd(k, g) ==
    k = "functor" =>
       IF Aggregates(g.once) THEN /\ {"aggregate", "summary"} \subseteq g.once
                                  /\ "free" \notin g.once
       ELSE /\ "bound" \in g.once
            /\ "free" \in g.once \/ g.once \cap {"*", "+", "one"} = {}

Once == Algebra \cup {"@inline", "@highlight", "@product", "@first", "@differential", "@range",
                      "@impure", "@transparent", "@nullable", "@unique", "mutable"}

GrammarStart(k) == [configs |-> Leftmost(<<k>>), once |-> {}, twice |-> {}, open |-> 0,
                    width |-> 0, wide |-> FALSE, body |-> FALSE, anon |-> FALSE]

GrammarStep(g, t) ==
    LET open == CASE t = "(" -> g.open + 1 [] t = ")" /\ g.open > 0 -> g.open - 1 [] OTHER -> g.open
        width == CASE t = "(" /\ g.open = 0 -> 1
                   [] t = "," /\ g.open = 1 /\ g.width <= MaxArity -> g.width + 1
                   [] open = 0 -> 0
                   [] OTHER -> g.width
    IN [configs |-> Derive(g.configs, t), open |-> open, width |-> width,
        body |-> g.body \/ (t = ":" /\ g.open = 0),
        anon |-> t = "over" \/ (g.anon /\ open > 0),
        wide |-> g.wide \/ (width > MaxArity /\ ~g.anon),
        once |-> IF g.body THEN g.once
                 ELSE g.once \cup ({t} \cap Remembered)
                             \cup {x \in {"one"} : t = "." /\ g.open = 1},
        twice |-> IF g.body THEN g.twice ELSE g.twice \cup ({t} \cap g.once \cap Once)]

Sentence(k, g) == <<>> \in g.configs /\ Prose(g) /\ ProseAtEnd(k, g) /\ Shape(g) /\ ShapeAtEnd(k, g)

(* No continuation of what was read is a sentence. *)
Hopeless(k, g) ==
    \/ g.configs = {} \/ ~Prose(g) \/ ~Shape(g)
    \/ g.configs = {<<>>} /\ ~Sentence(k, g)

(***************************************************************************)
(* ReadStatement collects the tokens up to a period outside brackets, or   *)
(* to the end of the file, and the statement's parser reads them.          *)
(***************************************************************************)
VARIABLES kind, st, gram, brackets, verdict
vars == <<kind, st, gram, brackets, verdict>>

Tokens ==
    [local |-> {"atom", "(", ")", ",", "int", "var", "mutable", "merge", "@inline", "@highlight",
                "@product", ".", ":", "@first", "msg"},
     query |-> {"atom", "(", ")", ",", "bound", "free", "int", "var", "@first", "@highlight", ".",
                ":", "msg", "!"},
     message |-> {"atom", "(", ")", ",", "int", "bool", "var", "@differential", "@product", ".", ":"},
     functor |-> {"atom", "(", ")", ",", "bound", "free", "aggregate", "summary", "int", "var",
                  "@range", "@inline", "@impure", "@invertible", "@recompute", "@commutative",
                  ".", "*", "?", "+", "code", "str"},
     foreign |-> {"atom", "ftype", "var", "cxx", "py", "code", "code$", "str", "@transparent",
                  "@nullable", ".", "lit"},
     constant |-> Type \cup {"atom", "var", "const", "str", "@unique", "."} \cup Literal \cup Code,
     enum |-> {"atom", "var", "etype", "ftype", "int", "bool", "."},
     import |-> {"str", "atom", "."},
     database |-> {"atom", "var", "const", "ftype", "str", "code", "cxx", "."},
     inline |-> {"(", "stage", ")", "code", "cxx", "str", "atom", "."},
     clause |-> Atom \cup Literal
                \cup {"(", ")", ",", "var", "anon", "int", "=", "!", "@never", "over", "@first",
                      "@barrier", "@highlight", "@product", ":", ".", "{", "}"}]

Init ==
    /\ kind \in Kinds
    /\ st = Start(kind) /\ gram = GrammarStart(kind) /\ brackets = <<>>
    /\ verdict = "reading"

(* The statement's text ends with token t. *)
Ends(t) == t = "." /\ brackets = <<>>

Bracketed(t) ==
    CASE t \in {"(", "{"} -> Append(brackets, t)
      [] t \in {")", "}"} /\ brackets # <<>> -> Front(brackets)
      [] OTHER -> brackets

Matched(t) == t \in {")", "}"} =>
    brackets # <<>> /\ Last(brackets) = (IF t = ")" THEN "(" ELSE "{")

Accepting(k, s) == IF s.clause THEN s.q = 9 ELSE s.q \in Content[k]

Read(t) ==
    /\ verdict = "reading"
    /\ t = "{" => Len(st.up) < MaxNesting
    /\ gram' = GrammarStep(gram, t)
    /\ brackets' = Bracketed(t)
    /\ \/ /\ Crashes(kind, st, t) /\ verdict' = "crash" /\ st' = st
       \/ /\ ~Crashes(kind, st, t) /\ (Step(kind, st, t) = {} \/ ~Matched(t))
          /\ verdict' = "error" /\ st' = st
       \/ /\ ~Crashes(kind, st, t) /\ Matched(t)
          /\ st' \in Step(kind, st, t)
          /\ verdict' = IF ~Ends(t) THEN "reading"
                        ELSE IF Accepting(kind, st') THEN "ok" ELSE "error"
    /\ UNCHANGED kind

(* The file ends before the statement does; a clause needs its period. *)
EndOfFile ==
    /\ verdict = "reading"
    /\ verdict' = IF kind # "clause" /\ Accepting(kind, st) THEN "ok" ELSE "unfinished"
    /\ UNCHANGED <<kind, st, gram, brackets>>

Next == (\E t \in Tokens[kind] : Read(t)) \/ EndOfFile

Spec == Init /\ [][Next]_vars

(***************************************************************************)
(* The hand-written machines of lib/Parse accept exactly the sentences of  *)
(* docs/Grammar.md, with the differences listed above and no others: an    *)
(* accepted statement is derivable, and a statement is refused, or the     *)
(* parser stops, only where no sentence continues what was read.           *)
(***************************************************************************)
GrammarExact ==
    /\ verdict = "ok" => Sentence(kind, gram)
    /\ verdict \in {"error", "crash"} => Hopeless(kind, gram)
    /\ verdict = "unfinished" => ~Sentence(kind, gram)
=============================================================================
