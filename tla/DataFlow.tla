-------------------------------- MODULE DataFlow --------------------------------
(***************************************************************************)
(* The compilation of a program's clauses into a graph of views:           *)
(* Query::Build (lib/DataFlow/Build.cpp) and QueryImpl::Optimize and        *)
(* Canonicalize (Optimize.cpp).  A step builds a clause, canonicalizes a    *)
(* view or runs one whole pass.                                            *)
(***************************************************************************)
EXTENDS QueryMeaning

CONSTANTS
    Programs        \* name -> [decls, order, clauses, diffs, dbs]

VARIABLES
    program,        \* the name of the program compiled
    optimize,       \* whether Optimize runs
    last,           \* which order the code's unordered choices take
    g,              \* the graph
    ids,            \* the variable of each column, while clauses are built
    stage,          \* the pass that runs next
    fuel,           \* the rounds of CSE, or of dead-flow elimination, left
    round,          \* of a canonicalization: see Start
    result          \* what the control-flow builder is given with the graph

vars == <<program, optimize, last, g, ids, stage, fuel, round, result>>
options == <<program, optimize, last>>

P == Programs[program]
Messages(p) == {d \in DOMAIN p.decls : p.decls[d].kind = "message"}
NoResult == [inductions |-> <<>>, models |-> <<>>, depths |-> <<>>, const |-> {}]
NoRound == [opt |-> DefaultOpt, todo |-> <<>>, again |-> FALSE, left |-> 0, hash |-> <<>>, history |-> <<>>]
Histories == 8      \* kNumHistories

Init ==
    /\ program \in DOMAIN Programs
    /\ optimize \in BOOLEAN
    /\ last \in BOOLEAN
    /\ g = EmptyGraph(DOMAIN Programs[program].decls, Messages(Programs[program]))
    /\ ids = <<>>
    /\ stage = <<"build", 1>>
    /\ fuel = 0
    /\ round = NoRound
    /\ result = NoResult

Failed == g.fault # None
In(s) == stage[1] = s /\ ~Failed
Goto(s) == stage' = s

-----------------------------------------------------------------------------
(* Building. *)

NeverUsed(d) ==
    \A k \in DOMAIN P.clauses :
       P.clauses[k].head # d /\ \A part \in {"preds", "negs"} :
           \A p \in Range(All(P.clauses[k], part) \o P.clauses[k].force) : p.decl # d

(* A clause with a forcing message must be the only one of a query that no  *)
(* other clause reads, and send what the query's bound parameters hold.    *)
Forces(clause, rep) ==
    clause.force # <<>>
       => /\ \A k \in DOMAIN P.clauses : P.clauses[k].head = clause.head => P.clauses[k] = clause
          /\ \A k \in DOMAIN P.clauses : \A part \in {"preds", "negs"} :
                \A p \in Range(All(P.clauses[k], part)) : p.decl # clause.head
          /\ \A v \in Range(clause.force[1].args) :
                \E i \in P.decls[clause.head].bound : rep[v] = rep[clause.params[i]]

BuildNext ==
    /\ In("build") /\ stage[2] <= Len(P.clauses)
    /\ \E clause \in {P.clauses[stage[2]]} : \E c \in {Context(clause)} : \E r \in {BuildClause(g, ids, c, clause)} :
          /\ g' = IF Forces(clause, c.rep) THEN r.g ELSE Fault(g, "forcing message")
          /\ ids' = r.ids
    /\ Goto(<<"build", stage[2] + 1>>)
    /\ UNCHANGED <<options, result, fuel, round>>

Built ==
    /\ In("build") /\ stage[2] = Len(P.clauses) + 1
    /\ g' = IF \E d \in Messages(P) : NeverUsed(d) THEN Fault(g, "unused message")
            ELSE TrackDifferentialUpdates(RemoveUnusedViews(g), P.diffs, FALSE)
    /\ ids' = <<>>
    /\ Goto(<<"simplify">>)
    /\ UNCHANGED <<options, result, fuel, round>>

(* Simplify: equal selects become one, then every join is canonicalized     *)
(* twice.                                                                  *)
Joins(h) == FillViews(h, "join", last)
Simplify ==
    /\ In("simplify")
    /\ \E h \in {CSE(g, FillViews(g, "select", last), last)} :
          g' = h /\ round' = [NoRound EXCEPT !.todo = Joins(h), !.left = 1]
    /\ Goto(<<"canonicalizing", 0>>)
    /\ UNCHANGED <<options, result, ids, fuel>>
SimplifyAgain ==
    /\ stage = <<"canonicalizing", 0>> /\ ~Failed /\ round.todo = <<>>
    /\ IF round.left > 0
       THEN round' = [round EXCEPT !.todo = Joins(g), !.left = 0] /\ UNCHANGED <<g, stage>>
       ELSE round' = NoRound /\ g' = RemoveUnusedViews(g) /\ Goto(<<"connect">>)
    /\ UNCHANGED <<options, result, ids, fuel>>

Connect ==
    /\ In("connect")
    /\ g' = ConnectInsertsToSelects(g, P.decls, P.order, P.diffs)
    /\ Goto(IF optimize THEN <<"cse", 1>> ELSE <<"convert">>)
    /\ fuel' = Cardinality(Live(g'))
    /\ UNCHANGED <<options, result, ids, round>>

-----------------------------------------------------------------------------
(* CSE: again and again while views are found equal. *)

AfterCSE(n) == CASE n = 1 -> <<"canonicalize", 1>> [] n = 2 -> <<"depth">> [] OTHER -> <<"convert">>

EliminateEqual ==
    /\ In("cse")
    /\ \E h \in {IF fuel > 0 THEN CSE(g, EachView(g), last) ELSE g} :
          IF Removed(g, h)
          THEN g' = TrackDifferentialUpdates(RemoveUnusedViews(h), P.diffs, TRUE) /\ fuel' = fuel - 1 /\ UNCHANGED stage
          ELSE g' = h /\ fuel' = 0 /\ Goto(AfterCSE(stage[2]))
    /\ UNCHANGED <<options, result, ids, round>>

-----------------------------------------------------------------------------
(* Canonicalization: every view in order of depth, while a view's change    *)
(* may concern others.                                                     *)

Uncanonical(h) == [h EXCEPT !.v = [v \in DOMAIN @ |-> IF @[v].dead THEN @[v] ELSE [@[v] EXCEPT !.canon = FALSE]]]
Order1(h, opt) == InDepthOrder(h, opt = DefaultOpt, last)

Start(opt) ==
    LET n == Cardinality(Live(g))
    IN \E h \in {Uncanonical(g)} :
       /\ g' = h
       /\ round' = [opt |-> opt, todo |-> Order1(h, opt), again |-> FALSE, left |-> Max({n * n, 2 * n}) - 1,
                    hash |-> <<>>, history |-> [i \in 1 .. Histories |-> <<>>]]

CanonicalizeAll ==
    /\ In("canonicalize")
    /\ Start(DefaultOpt)
    /\ Goto(<<"canonicalizing", 1>>)
    /\ UNCHANGED <<options, result, ids, fuel>>

CanonicalizeNext ==
    /\ In("canonicalizing") /\ round.todo # <<>>
    /\ \E v \in {Head(round.todo)} :
       \E r \in {IF g.v[v].dead THEN Done(g, FALSE) ELSE Canonicalize(g, v, round.opt)} :
       \E reporter \in {r.ret /\ ~r.g.v[v].dead /\ stage[2] > 0 /\ r.g.fault = None} :
          /\ g' = IF reporter THEN Hashed(r.g, v) ELSE r.g
          /\ round' = [round EXCEPT !.todo = Tail(@), !.again = @ \/ r.ret,
                                     !.hash = IF reporter THEN Append(@, g'.v[v].hash) ELSE @]
    /\ UNCHANGED <<options, result, ids, stage, fuel>>

(* The hashes kept of the last passes, at first those of no pass, all equal  *)
(* the last one.  It is empty when only views that died reported a change. *)
RepeatsOnce == round.history[Histories] = round.hash
Repeats == \A i \in 1 .. Histories : round.history[i] = round.hash

CanonicalizeAgain ==
    /\ In("canonicalizing") /\ stage[2] > 0 /\ round.todo = <<>>
    /\ IF round.again /\ round.left > 0 /\ ~Repeats
          THEN /\ round' = [round EXCEPT !.todo = Order1(g, round.opt), !.again = FALSE, !.left = @ - 1,
                                         !.hash = <<>>, !.history = Append(Tail(@), round.hash)]
               /\ UNCHANGED <<g, stage, fuel>>
          ELSE /\ g' = RemoveUnusedViews(g)
               /\ round' = NoRound
               /\ fuel' = IF stage[2] = 1 THEN Cardinality(Live(g')) ELSE fuel
               /\ Goto(IF stage[2] = 1 THEN <<"cse", 2>> ELSE <<"deadflows">>)
    /\ UNCHANGED <<options, result, ids>>

-----------------------------------------------------------------------------
(* Aggressive canonicalization and dead-flow elimination, as long as flows  *)
(* die and at most as often as the depth of the deepest insert.            *)

DepthBoundOne ==
    /\ In("depth")
    /\ fuel' = 1
    /\ Goto(<<"aggressive">>)
    /\ UNCHANGED <<options, result, g, ids, round>>

DepthBound ==
    /\ In("depth")
    /\ fuel' = Max({1} \cup {Depths(g)[v] : v \in Kinds(g, {"insert"})})
    /\ Goto(<<"aggressive">>)
    /\ UNCHANGED <<options, result, g, ids, round>>

CanonicalizeAggressively ==
    /\ In("aggressive")
    /\ Start(Aggressive)
    /\ fuel' = fuel - 1
    /\ Goto(<<"canonicalizing", 2>>)
    /\ UNCHANGED <<options, result, ids>>

EliminateDead ==
    /\ In("deadflows")
    /\ g' = EliminateDeadFlows(g)
    /\ IF Removed(g, g') /\ fuel > 0 THEN Goto(<<"aggressive">>) /\ UNCHANGED fuel
       ELSE Goto(<<"cse", 3>>) /\ fuel' = Cardinality(Live(g'))
    /\ UNCHANGED <<options, result, ids, round>>

-----------------------------------------------------------------------------
(* The graph is given its last form. *)

ConvertConstants ==
    /\ In("convert")
    /\ g' = RemoveUnusedViews(ConvertConstantInputsToTuples(g))
    /\ Goto(<<"link">>)
    /\ UNCHANGED <<options, ids, fuel, round, result>>

LinkAll ==
    /\ In("link")
    /\ g' = RemoveUnusedViews(LinkViews(ProxyInsertsWithTuples(g), FALSE))
    /\ Goto(<<"induction">>)
    /\ UNCHANGED <<options, ids, fuel, round, result>>

Identify ==
    /\ In("induction")
    /\ \E h \in {IdentifyInductions(g)} : \E ind \in {Inductions(h)} :
          /\ g' = IF h.fault # None THEN h
                  ELSE IF NonLinearizable(ind) THEN Fault(h, "non-linearizable induction")
                  ELSE TrackDifferentialUpdates(h, P.diffs, TRUE)
          /\ result' = [NoResult EXCEPT !.inductions = ind, !.depths = FinalizeDepths(h)]
    /\ Goto(<<"models">>)
    /\ UNCHANGED <<options, ids, fuel, round>>

ChooseModels ==
    /\ In("models")
    /\ result' = [result EXCEPT !.const = ConstAfterInit(g),
                                !.models = BuildEquivalenceSets(g, result.inductions, P.order)]
    /\ Goto(<<"final">>)
    /\ UNCHANGED <<options, g, ids, fuel, round>>

Next ==
    \/ BuildNext \/ Built \/ Simplify \/ SimplifyAgain \/ Connect \/ EliminateEqual
    \/ CanonicalizeAll \/ CanonicalizeNext \/ CanonicalizeAgain
    \/ DepthBound \/ CanonicalizeAggressively \/ EliminateDead
    \/ ConvertConstants \/ LinkAll \/ Identify \/ ChooseModels

Spec == Init /\ [][Next]_vars

-----------------------------------------------------------------------------
Reference == [p \in DOMAIN Programs |-> [k \in DOMAIN Programs[p].dbs |-> Model(Programs[p], Programs[p].dbs[k])]]

Boundary == stage[1] \in {"cse", "deadflows", "convert", "link", "induction", "models"}
Wanted(k, d) ==
    IF P.decls[d].arity = 0 THEN {<<True>> : row \in Reference[program][k][d]} ELSE Reference[program][k][d]

(* The graph computes what the clauses define: for any messages, each       *)
(* relation that is still written holds, after every pass, the rows of the *)
(* program's model.  Only a program that has an error is refused.          *)
OutputsPreserved ==
    /\ g.fault \in {None, P.refused}
    /\ stage = <<"final">> => g.fault = P.refused
    /\ Boundary =>
          \A k \in DOMAIN P.dbs :
             LET rows == Meaning(g, P.dbs[k])
             IN \A d \in {x \in DOMAIN P.decls : g.inss[x] # <<>>} : OutputRows(g, rows, d) = Wanted(k, d)

(* What canonicalization believes of a column, or of a view without rows,   *)
(* is true of every row.                                                   *)
KnowledgeTrue ==
    Boundary /\ ~Failed =>
        \A k \in DOMAIN P.dbs :
           LET rows == Meaning(g, P.dbs[k])
           IN \A v \in Live(g) :
                /\ g.v[v].unsat => rows[v] = {}
                /\ \A i \in DOMAIN g.v[v].cols : IsConstantRef(g, Col(g, v, i)) =>
                      \A row \in rows[v] : row[i] = Konst(g, Col(g, v, i))

Compiled == stage = <<"final">> /\ ~Failed

(* A view that is not marked as losing rows never loses one when messages   *)
(* that cannot be retracted arrive.                                        *)
Grows(k, j) == \A m \in DOMAIN P.dbs[k] \ P.diffs : P.dbs[k][m] \subseteq P.dbs[j][m]
DifferentialSound ==
    stage = <<"models">> /\ ~Failed =>
        \A k, j \in DOMAIN P.dbs : Grows(k, j) =>
            LET before == Meaning(g, P.dbs[k])
                after == Meaning(g, P.dbs[j])
            IN \A v \in Live(g) : ~g.v[v].prod => before[v] \subseteq after[v]

(* Views that share a table hold the same rows, but for the inserts, and    *)
(* the tuples that feed nothing else.                                      *)
TablesShared ==
    Compiled =>
        LET read == {v \in Live(g) : \E u \in Live(g) : g.v[u].kind # "insert" /\ (v \in Predecessors(g, u) \/ g.v[u].neg = v)}
            same == {p \in read \X Live(g) : p[1] # p[2] /\ result.models[p[1]] = result.models[p[2]]}
        IN \A k \in DOMAIN P.dbs :
              LET rows == Meaning(g, P.dbs[k]) IN \A p \in same : rows[p[2]] \subseteq rows[p[1]]

(* No rows flow from a set of inductive views to one that is evaluated      *)
(* before it or with it, but by way of the set itself.                     *)
InductionsLayered ==
    Compiled =>
        LET fed == Fed(g)
            ind == result.inductions
        IN \A v \in DOMAIN ind : \A u \in Flow(fed, {}, ind[v].outs) \cap DOMAIN ind :
              u \notin ind[v].set /\ ind[v].depth < ind[u].depth

Bare(h) == [v \in Live(h) |-> [h.v[v] EXCEPT !.canon = FALSE, !.hash = {}, !.colhash = <<>>]]
OneMorePass ==
    FoldLeft(LAMBDA h, v : IF h.v[v].dead THEN h ELSE Canonicalize(h, v, round.opt).g, g, Order1(g, round.opt))
Stops ==
    /\ stage[1] = "canonicalizing" /\ stage[2] > 0 /\ round.todo = <<>>
    /\ ~round.again \/ round.left = 0 \/ Repeats

(* The caps on the rounds of CSE and of dead-flow elimination never cut off *)
(* one that would still change the graph.  Canonicalization never runs out  *)
(* of passes, and never ends because it repeats itself: in the last pass no *)
(* view that lives reports a change, and if none does at all then another   *)
(* pass would change nothing.                                              *)
PassesConverge ==
    ~Failed =>
        /\ stage[1] = "cse" => fuel > 0
        /\ Stops => round.hash = <<>>
        /\ Stops /\ ~round.again => Bare(RemoveUnusedViews(OneMorePass)) = Bare(RemoveUnusedViews(g))
        /\ stage[1] = "deadflows" /\ fuel = 0 => ~Removed(g, EliminateDeadFlows(g))
=============================================================================
