---------------------------- MODULE ParseModules ----------------------------
(***************************************************************************)
(* The parser above the token level (lib/Parse): modules and their         *)
(* imports, the table of visible declarations, redeclarations, the         *)
(* matching of clause heads and predicates with declarations, the          *)
(* direction of messages, and the inference of types.                      *)
(*                                                                         *)
(* A statement is what is left of it once its tokens are read              *)
(* (DeclParser): an import, a declaration with or without an embedded      *)
(* clause, or a clause.  A name stands for a name and its arity.           *)
(***************************************************************************)
EXTENDS Naturals, Sequences, SequencesExt, FiniteSets

CONSTANTS
    Root,        \* the module the compiler is started on
    Arity,       \* the arity of each name
    Programs     \* each program maps a module to its statements

None == "none"   \* an invalid TypeLoc
Name == DOMAIN Arity

VARIABLES
    src,         \* the program
    stack,       \* one frame per ParserImpl that is parsing a module
    order,       \* all_modules: the modules in the order they were opened
    ctx,         \* SharedParserContext and the parsed modules' contents
    phase,       \* "parse", "types", or how ParseDisplay of the root ended
    work         \* AssignTypes: the clause, the item, changed and missing

vars == <<src, stack, order, ctx, phase, work>>

(***************************************************************************)
(* The shared context.  A declaration belongs to a DeclarationContext      *)
(* ("own"), shared by its redeclarations; sends are the clauses that       *)
(* define it, uses the clauses that read it.                               *)
(***************************************************************************)
NoUses == [pos |-> {}, neg |-> {}, force |-> {}]

EmptyContext ==
    [visible |-> [n \in Name |-> 0], decls |-> <<>>, redecls |-> <<>>,
     unique |-> <<>>, sends |-> <<>>, uses |-> <<>>, clauses |-> <<>>,
     log |-> <<>>]

Logged(c, tag) == [c EXCEPT !.log = Append(@, tag)]
LogIf(c, cond, tag) == IF cond THEN Logged(c, tag) ELSE c

Decl(mod, kind, name, params, attrs, own) ==
    [mod |-> mod, kind |-> kind, name |-> name, params |-> params,
     attrs |-> attrs, own |-> own]

(* The constructor that makes a declaration with a context of its own. *)
NewContext(c, mod, kind, name, params, attrs) ==
    LET own == Len(c.redecls) + 1
        d == Len(c.decls) + 1
    IN [c EXCEPT !.decls = Append(@, Decl(mod, kind, name, params, attrs, own)),
                 !.redecls = Append(@, <<d>>), !.unique = Append(@, <<>>),
                 !.sends = Append(@, {}), !.uses = Append(@, NoUses),
                 !.visible[name] = IF @ = 0 THEN d ELSE @]

(* The constructor that shares the context of the first declaration. *)
Redeclare(c, mod, first, params, attrs) ==
    LET f == c.decls[first]
    IN [c EXCEPT !.decls = Append(@, Decl(mod, f.kind, f.name, params, attrs, f.own)),
                 !.redecls[f.own] = Append(@, Len(c.decls) + 1)]

AddDeclForgetful(c, mod, kind, name, params, attrs) ==
    NewContext([c EXCEPT !.visible[name] = 0], mod, kind, name, params, attrs)

(* A first declaration, a redeclaration, or an error: the kind differs. *)
AddDecl(c, mod, kind, name, params, attrs) ==
    LET first == c.visible[name]
    IN IF first = 0 THEN NewContext(c, mod, kind, name, params, attrs)
       ELSE IF c.decls[first].kind # kind THEN Logged(c, "kind")
       ELSE Redeclare(c, mod, first, params, attrs)

(* Unlinks d, and erases whatever declaration its name leads to. *)
RemoveDecl(c, d) ==
    [c EXCEPT !.redecls[c.decls[d].own] = SelectSeq(@, LAMBDA e : e # d),
              !.visible[c.decls[d].name] = 0]

Bindings(d) == [i \in DOMAIN d.params |-> d.params[i].bind]
Types(d) == [i \in DOMAIN d.params |-> d.params[i].ty]
Merges(d) == [i \in DOMAIN d.params |-> d.params[i].merge]
(* The names of parameters that code outside of the program sees.          *)
Exposed(d) ==
    [i \in DOMAIN d.params |-> IF d.kind \in {"functor", "query", "message"} THEN d.params[i].as ELSE None]
(* A functor without one of these attributes has zero or more results.     *)
FunctorRange(d) == d.attrs \cap {"one_to_one", "zero_or_one", "one_or_more"}
(* The first use of a functor to merge values has fixed its range.         *)
MergeRange(prev, new) ==
    IF FunctorRange(prev) # FunctorRange(new) /\ {"one_to_one", "merge"} \subseteq prev.attrs
    THEN [new EXCEPT !.attrs = (@ \ FunctorRange(new)) \cup {"one_to_one", "merge"}]
    ELSE new

(***************************************************************************)
(* FinalizeDeclAndCheckConsistency.  The declaration was linked into its   *)
(* context when it was made, so the last redeclaration is normally d.      *)
(***************************************************************************)
FinalizeDecl(c, d) ==
    LET own  == c.decls[d].own
        perBinding == c.decls[d].kind \in {"functor", "query"}
        known == \E i \in DOMAIN c.unique[own] :
                     Bindings(c.decls[c.unique[own][i]]) = Bindings(c.decls[d])
        c1   == IF perBinding \/ c.unique[own] = <<>>
                THEN [c EXCEPT !.unique[own] = Append(@, d)] ELSE c
        prev == c.decls[Last(c.redecls[own])]
        new  == MergeRange(prev, c.decls[d])
        soft == \E a \in {"first", "differential"} :
                    (a \in prev.attrs) # (a \in new.attrs)
        c2   == LogIf([c1 EXCEPT !.decls[d] = new], soft, "attributes")
        hard == \/ FunctorRange(prev) # FunctorRange(new) /\ Bindings(prev) = Bindings(new)
                \/ ~perBinding /\ Bindings(prev) # Bindings(new)
                \/ Exposed(prev) # Exposed(new)
                \/ Merges(prev) # Merges(new)
                \/ Types(prev) # Types(new)
                \/ ("inline" \in prev.attrs) # ("inline" \in new.attrs)
    IN IF perBinding /\ known THEN c
       ELSE IF Len(c.redecls[own]) <= 1 THEN c1
       ELSE IF hard THEN RemoveDecl(Logged(c2, "redeclaration"), d)
       ELSE c2

Untyped(n) == [i \in 1..n |-> [as |-> None, ty |-> None, bind |-> None, merge |-> None, given |-> FALSE]]

(***************************************************************************)
(* TryMatchClauseWithDecl: [c, d], with d = 0 when the clause is refused.  *)
(* A zero-argument head is an export made on the spot; a head nobody       *)
(* declared is an error, and a local is invented for it.                   *)
(***************************************************************************)
MatchHead(c, mod, name) ==
    LET kind == IF Arity[name] = 0 THEN "export" ELSE "local"
        c1 == IF c.visible[name] # 0 THEN c
              ELSE NewContext(LogIf(c, Arity[name] # 0, "undeclared"),
                              mod, kind, name, Untyped(Arity[name]), {})
        d == c1.visible[name]
        decl == c1.decls[d]
        \* the redeclaration the test looks for is one of decl's module
        foreign == /\ decl.kind = "export" /\ decl.mod # mod
                   /\ ~\E i \in DOMAIN c1.redecls[decl.own] :
                         c1.decls[c1.redecls[decl.own][i]].mod = decl.mod
    IN IF decl.kind = "functor" THEN [c |-> Logged(c1, "functor head"), d |-> 0]
       ELSE IF foreign THEN [c |-> Logged(c1, "foreign head"), d |-> 0]
       ELSE [c |-> c1, d |-> d]

(* TryMatchPredicateWithDecl, which refuses a message that is sent. *)
MatchPredicate(c, mod, name) ==
    LET kind == IF Arity[name] = 0 THEN "export" ELSE "local"
        c1 == IF c.visible[name] # 0 THEN c
              ELSE NewContext(LogIf(c, Arity[name] # 0, "undeclared"),
                              mod, kind, name, Untyped(Arity[name]), {})
        decl == c1.decls[c1.visible[name]]
    IN LogIf(c1, decl.kind = "message" /\ c1.sends[decl.own] # {}, "direction")

(***************************************************************************)
(* FindUnrelatedConditions: the head's variables are one set, predicates   *)
(* and comparisons merge the sets of their variables, and a set that       *)
(* never meets the head's must be factored out of the clause.              *)
(***************************************************************************)
VarsOf(a) == CASE a.a = "pred" -> ToSet(a.args)
               [] a.a = "assign" -> {a.var}
               [] a.a = "cmp" -> {a.l, a.r}

RECURSIVE Absorb(_, _)
Absorb(set, atoms) ==
    LET met == {A \in atoms : A \cap set # {}}
    IN IF met = {} THEN set ELSE Absorb(set \cup UNION met, atoms \ met)

UnrelatedConditions(head, body) ==
    LET atoms == {VarsOf(body[j]) : j \in DOMAIN body}
        mine  == Absorb(ToSet(head), atoms)
        rest  == {Absorb(A, atoms) : A \in {B \in atoms : B \cap mine = {} /\ B # {}}}
    IN rest # {} /\ ~(Cardinality(rest) = 1 /\ head = <<>>)

(***************************************************************************)
(* The parsed clause.  An occurrence of a variable has its own type; the   *)
(* items are the checks AssignTypes makes for the clause, in its order.    *)
(***************************************************************************)
Args(a) == CASE a.a = "pred" -> a.args
             [] a.a = "assign" -> <<a.var>>
             [] a.a = "cmp" -> <<a.l, a.r>>

Occurrences(head, body) == head \o FlattenSeq([j \in DOMAIN body |-> Args(body[j])])

Items(head, body, declOf) ==
    LET off(j) == Len(Occurrences(head, SubSeq(body, 1, j - 1)))
        item(w, o, d, k, x) == [w |-> w, o |-> o, d |-> d, k |-> k, x |-> x]
        of(j) == LET a == body[j]
                 IN CASE a.a = "pred" ->
                           [k \in DOMAIN a.args |-> item("pred", off(j) + k, declOf[j], k, None)]
                      [] a.a = "assign" -> <<item("assign", off(j) + 1, 0, 0, a.ty)>>
                      [] a.a = "cmp" -> <<item("cmp", off(j) + 1, 0, off(j) + 2, None)>>
        class(a) == IF a.a = "pred" THEN a.sign ELSE a.a
        pass(s) == FlattenSeq([j \in DOMAIN body |-> IF class(body[j]) = s THEN of(j) ELSE <<>>])
        classes == <<"force", "assign", "cmp", "pos", "neg">>
    IN [i \in DOMAIN head |-> item("head", i, 0, i, None)]
       \o FlattenSeq([n \in DOMAIN classes |-> pass(classes[n])])

(* One predicate of the body: matched, then linked as a use (link_pred). *)
LinkPredicate(acc, a) ==
    LET c1 == MatchPredicate(acc.c, acc.mod, a.name)
        d == c1.visible[a.name]
        own == c1.decls[d].own
    IN IF a.a # "pred" THEN [acc EXCEPT !.declOf = Append(@, 0)]
       ELSE [acc EXCEPT !.c = LogIf([c1 EXCEPT !.uses[own][a.sign] = @ \cup {acc.id}],
                                    a.sign = "force" /\ c1.decls[d].kind # "message",
                                    "forcing"),
                        !.declOf = Append(@, d)]

(* A message that is received may not be sent; forcing uses do not count. *)
SendsWhatItReceives(c, own) == c.uses[own].pos \cup c.uses[own].neg # {}

(***************************************************************************)
(* ParseClause.  The clause is made first, and stays in its module         *)
(* whatever happens next: cl.stop says whether an unexpected token ends    *)
(* the parse in the head, before a declaration is sought, or in the body,  *)
(* before the clause is linked to its declaration.                         *)
(***************************************************************************)
ParseClause(c, mod, cl, declared) ==
    LET id == Len(c.clauses) + 1
        record(d, body, items) ==
            [mod |-> mod, decl |-> d, head |-> cl.head, body |-> body,
             occ |-> Occurrences(cl.head, body), items |-> items,
             ty |-> [o \in 1..Len(Occurrences(cl.head, body)) |-> None]]
        m == IF declared # 0 THEN [c |-> c, d |-> declared]
             ELSE MatchHead(c, mod, cl.name)
        b == FoldLeft(LinkPredicate, [c |-> m.c, mod |-> mod, id |-> id, declOf |-> <<>>],
                      cl.body)
        own == b.c.decls[m.d].own
        full == record(m.d, cl.body, Items(cl.head, cl.body, b.declOf))
        add(c0, r) == [c0 EXCEPT !.clauses = Append(@, r)]
        \* link the clause, then check directions and conditions
        linked == [b.c EXCEPT !.sends[own] = @ \cup {id}]
        wrongWay == b.c.decls[m.d].kind = "message" /\ SendsWhatItReceives(b.c, own)
    IN IF cl.stop = "head"
       THEN add(Logged(c, "syntax"), record(declared, <<>>, Items(cl.head, <<>>, <<>>)))
       ELSE IF m.d = 0
       THEN LET at == m.c.visible[cl.name]     \* clause->declaration is already set
            IN add(m.c, record(at, <<>>, Items(cl.head, <<>>, <<>>)))
       ELSE IF cl.stop = "body" THEN add(Logged(b.c, "syntax"), full)
       ELSE add(LogIf(LogIf(linked, wrongWay, "direction"),
                      UnrelatedConditions(cl.head, cl.body), "condition"), full)

(***************************************************************************)
(* A declaration statement: AddDecl, the checks that remove a functor      *)
(* again, the consistency check, and the embedded clause.                  *)
(***************************************************************************)
ParseDecl(c, mod, st) ==
    LET c1 == AddDecl(c, mod, st.kind, st.name, st.params, st.attrs)
        d  == Len(c1.decls)
        c2 == IF st.bad THEN RemoveDecl(Logged(c1, "functor"), d) ELSE c1
        c3 == IF c2.redecls[c2.decls[d].own] = <<>> THEN c2 ELSE FinalizeDecl(c2, d)
    IN IF d = Len(c.decls) THEN c1
       ELSE IF st.clause.stop = "absent" THEN c3
       ELSE ParseClause(c3, mod, st.clause, d)

(***************************************************************************)
(* ParseDisplay and ParseAllTokens: one frame per module being parsed.     *)
(***************************************************************************)
Frame(m, errors) == [mod |-> m, ip |-> 1, nonImport |-> FALSE, errors |-> errors]
Top == Last(stack)
Statement == src[Top.mod][Top.ip]
Advanced(f) == [f EXCEPT !.ip = @ + 1]

Init ==
    /\ src \in Programs
    /\ stack = <<Frame(Root, 0)>>
    /\ order = <<Root>>
    /\ ctx = EmptyContext
    /\ phase = "parse"
    /\ work = [cl |-> 1, at |-> 1, changed |-> FALSE, missing |-> {}]

AtStatement ==
    /\ phase = "parse"
    /\ stack # <<>>
    /\ Top.ip <= Len(src[Top.mod])

(* The module's file was parsed before, or is being parsed. *)
IsOpen(m) == m \in ToSet(order)

(* An import is parsed on the spot, before the importing module goes on;   *)
(* a module that is known, even if it is still being parsed, is not read   *)
(* again.  Imports come before everything else.                            *)
Import ==
    /\ AtStatement
    /\ Statement.s = "import"
    /\ LET next == [stack EXCEPT ![Len(stack)] = Advanced(@)]
       IN IF Top.nonImport
          THEN /\ ctx' = Logged(ctx, "late import")
               /\ stack' = next
               /\ UNCHANGED order
          ELSE IF IsOpen(Statement.mod)
          THEN stack' = next /\ UNCHANGED <<order, ctx>>
          ELSE /\ stack' = Append(next, Frame(Statement.mod, Len(ctx.log)))
               /\ order' = Append(order, Statement.mod)
               /\ UNCHANGED ctx
    /\ UNCHANGED <<src, phase, work>>

Declare ==
    /\ AtStatement
    /\ Statement.s = "decl"
    /\ ctx' = ParseDecl(ctx, Top.mod, Statement)
    /\ stack' = [stack EXCEPT ![Len(stack)] = [Advanced(@) EXCEPT !.nonImport = TRUE]]
    /\ UNCHANGED <<src, order, phase, work>>

Clause ==
    /\ AtStatement
    /\ Statement.s = "clause"
    /\ ctx' = ParseClause(ctx, Top.mod, Statement, 0)
    /\ stack' = [stack EXCEPT ![Len(stack)] = [Advanced(@) EXCEPT !.nonImport = TRUE]]
    /\ UNCHANGED <<src, order, phase, work>>

HideNothing(c) == c

(* Locals stop being visible at the end of the module that made them. *)
HideLocals(c) ==
    [c EXCEPT !.visible = [n \in Name |->
        IF @[n] # 0 /\ c.decls[@[n]].kind = "local" THEN 0 ELSE @[n]]]

(* AllDeclarationsAreDefined: every local and export has a clause. *)
AllDeclarationsAreDefined(c) ==
    \A d \in DOMAIN c.decls :
        c.decls[d].kind \in {"local", "export"} => c.sends[c.decls[d].own] # {}

EndModule ==
    /\ phase = "parse"
    /\ stack # <<>>
    /\ Top.ip > Len(src[Top.mod])
    /\ stack' = Front(stack)
    /\ IF Top.mod = Root
       THEN /\ ctx' = HideLocals(ctx)
            /\ phase' = IF AllDeclarationsAreDefined(ctx) THEN "types" ELSE "rejected"
       ELSE /\ ctx' = LogIf(HideLocals(ctx), Len(ctx.log) # Top.errors, "import")
            /\ UNCHANGED phase
    /\ UNCHANGED <<src, order, work>>

(***************************************************************************)
(* AssignTypes: passes over the clauses of every module until a pass       *)
(* changes nothing.                                                        *)
(***************************************************************************)
ClauseOrder ==
    FlattenSeq([m \in DOMAIN order |->
        SelectSeq([i \in DOMAIN ctx.clauses |-> i],
                  LAMBDA i : ctx.clauses[i].mod = order[m])])

Here == ClauseOrder[work.cl]
Cl == ctx.clauses[Here]

EqAlways(a, b) == TRUE

(* A variable's type against a parameter's, and against a variable's.      *)
var_param_eq_p(a, b) == a = b
var_var_eq_p(a, b) == a = b

(* check_apply_var_types: a type spreads to every occurrence; the result:  *)
(* the occurrences' types, whether one changed, whether two disagree.      *)
Spread(cl, o) ==
    LET mine(p) == cl.occ[p] = cl.occ[o]
    IN [ty |-> [p \in DOMAIN cl.ty |->
                    IF mine(p) /\ cl.ty[p] = None THEN cl.ty[o] ELSE cl.ty[p]],
        changed |-> \E p \in DOMAIN cl.ty : mine(p) /\ cl.ty[p] = None,
        clash |-> \E p \in DOMAIN cl.ty :
                     mine(p) /\ cl.ty[p] # None /\ ~var_var_eq_p(cl.ty[p], cl.ty[o])]

ParamType(d, k) == ctx.decls[d].params[k].ty

Step1 == IF work.at < Len(Cl.items) THEN [work EXCEPT !.at = @ + 1]
         ELSE [work EXCEPT !.cl = @ + 1, !.at = 1]

AtItem(w) ==
    /\ phase = "types"
    /\ work.cl <= Len(ClauseOrder)
    /\ Cl.items # <<>> /\ Cl.items[work.at].w = w

Fail(tag) == /\ ctx' = Logged(ctx, tag)
             /\ phase' = "rejected"
             /\ UNCHANGED work

MarkNever(w, changed) == w
MarkAlways(w, changed) == [w EXCEPT !.changed = TRUE]

Mark(w, changed) == [w EXCEPT !.changed = @ \/ changed]
Miss(w, occs) == [w EXCEPT !.missing = @ \cup occs]

(* A clause with nothing to check. *)
SkipClause ==
    /\ phase = "types"
    /\ work.cl <= Len(ClauseOrder)
    /\ Cl.items = <<>>
    /\ work' = [work EXCEPT !.cl = @ + 1]
    /\ UNCHANGED <<src, stack, order, ctx, phase>>

(* A head variable against its parameter: the variable's own type, the     *)
(* declaration's, or that of the first typed occurrence further on.        *)
HeadItem ==
    /\ AtItem("head")
    /\ LET it == Cl.items[work.at]
           d == Cl.decl
           later == {p \in it.o + 1..Len(Cl.occ) : Cl.occ[p] = Cl.occ[it.o] /\ Cl.ty[p] # None}
           known == IF Cl.ty[it.o] # None THEN Cl.ty[it.o]
                    ELSE IF ParamType(d, it.k) # None THEN ParamType(d, it.k)
                    ELSE IF later # {}
                    THEN Cl.ty[CHOOSE p \in later : \A q \in later : p <= q]
                    ELSE None
           cl1 == [Cl EXCEPT !.ty[it.o] = known]
           s == Spread(cl1, it.o)
       IN IF d = 0                   \* clause->declaration is a null pointer
          THEN phase' = "crashed" /\ UNCHANGED <<ctx, work>>
          ELSE IF known = None
          THEN work' = Miss(Step1, {<<Here, it.o>>}) /\ UNCHANGED <<ctx, phase>>
          ELSE IF s.clash \/ (ParamType(d, it.k) # None /\ ~var_param_eq_p(known, ParamType(d, it.k)))
          THEN Fail("mismatch")
          ELSE /\ ctx' = [ctx EXCEPT !.decls[d].params[it.k].ty = known,
                                     !.clauses[Here].ty = s.ty]
               /\ work' = Mark(Step1, \/ ParamType(d, it.k) = None
                                      \/ Cl.ty[it.o] = None \/ s.changed)
               /\ UNCHANGED phase
    /\ UNCHANGED <<src, stack, order>>

(* pred_valid for one argument; a clash found while spreading is logged,   *)
(* and the pass goes on.                                                   *)
PredItem ==
    /\ AtItem("pred")
    /\ LET it == Cl.items[work.at]
           arg == Cl.ty[it.o]
           par == ParamType(it.d, it.k)
           cl1 == [Cl EXCEPT !.ty[it.o] = par]
           s == Spread(cl1, it.o)
       IN IF arg # None /\ par # None
          THEN IF ~var_param_eq_p(arg, par) THEN Fail("mismatch")
               ELSE work' = Step1 /\ UNCHANGED <<ctx, phase>>
          ELSE IF arg # None
          THEN /\ ctx' = [ctx EXCEPT !.decls[it.d].params[it.k].ty = arg]
               /\ work' = Mark(Step1, TRUE) /\ UNCHANGED phase
          ELSE IF par # None
          THEN /\ ctx' = LogIf([ctx EXCEPT !.clauses[Here].ty = s.ty], s.clash, "mismatch")
               /\ work' = Mark(Step1, TRUE) /\ UNCHANGED phase
          ELSE work' = Miss(Step1, {<<Here, it.o>>}) /\ UNCHANGED <<ctx, phase>>
    /\ UNCHANGED <<src, stack, order>>

(* An assignment.  A typed constant gives its type to this occurrence      *)
(* only, and the pass does not count as having changed anything.           *)
AssignItem ==
    /\ AtItem("assign")
    /\ LET it == Cl.items[work.at]
           lhs == Cl.ty[it.o]
       IN IF lhs # None
          THEN IF it.x \notin {None, lhs} THEN Fail("mismatch")
               ELSE work' = Step1 /\ UNCHANGED <<ctx, phase>>
          ELSE IF it.x # None
          THEN /\ ctx' = [ctx EXCEPT !.clauses[Here].ty[it.o] = it.x]
               /\ work' = Step1 /\ UNCHANGED phase
          ELSE work' = Miss(Step1, {<<Here, it.o>>}) /\ UNCHANGED <<ctx, phase>>
    /\ UNCHANGED <<src, stack, order>>

CompareItem ==
    /\ AtItem("cmp")
    /\ LET it == Cl.items[work.at]
           l == Cl.ty[it.o]
           r == Cl.ty[it.k]
           to == IF l # None THEN it.k ELSE it.o
           cl1 == [Cl EXCEPT !.ty[to] = IF l # None THEN l ELSE r]
           s == Spread(cl1, to)
       IN IF l # None /\ r # None
          THEN IF ~var_var_eq_p(l, r) THEN Fail("mismatch")
               ELSE work' = Step1 /\ UNCHANGED <<ctx, phase>>
          ELSE IF l # None \/ r # None
          THEN /\ ctx' = LogIf([ctx EXCEPT !.clauses[Here].ty = s.ty], s.clash, "mismatch")
               /\ work' = Mark(Step1, TRUE) /\ UNCHANGED phase
          ELSE /\ work' = Miss(Step1, {<<Here, it.o>>, <<Here, it.k>>})
               /\ UNCHANGED <<ctx, phase>>
    /\ UNCHANGED <<src, stack, order>>

(* type_redecls: in the order of the modules' lists, each declaration      *)
(* gives its types to the parameters of all its redeclarations that were   *)
(* written without one; so the last written type prevails, and the type    *)
(* inferred for the first declaration if none is written.                  *)
TypeRedecls(c) ==
    LET listed(own) == FlattenSeq([m \in DOMAIN order |->
                           SelectSeq([d \in DOMAIN c.decls |-> d],
                               LAMBDA d : c.decls[d].mod = order[m] /\ c.decls[d].own = own)])
        written(own, k) == SelectSeq(listed(own), LAMBDA d : c.decls[d].params[k].given)
        final(own, k) == LET w == written(own, k)
                             from == IF w = <<>> THEN Head(listed(own)) ELSE Last(w)
                         IN c.decls[from].params[k].ty
        retyped(d) == [d EXCEPT !.params = [k \in DOMAIN @ |->
                          IF @[k].given THEN @[k] ELSE [@[k] EXCEPT !.ty = final(d.own, k)]]]
    IN [c EXCEPT !.decls = [e \in DOMAIN @ |->
            IF @[e].kind \in {"local", "export"} /\ e \in ToSet(c.redecls[@[e].own])
            THEN retyped(@[e]) ELSE @[e]]]

(* The end of a pass: another one, or the verdict on the program. *)
EndPass ==
    /\ phase = "types"
    /\ work.cl > Len(ClauseOrder)
    /\ IF work.changed
       THEN /\ work' = [cl |-> 1, at |-> 1, changed |-> FALSE, missing |-> {}]
            /\ UNCHANGED <<ctx, phase>>
       ELSE /\ UNCHANGED work
            /\ IF work.missing # {}
               THEN ctx' = Logged(ctx, "untyped") /\ phase' = "rejected"
               ELSE /\ ctx' = TypeRedecls(ctx)
                    /\ phase' = IF ctx.log = <<>> THEN "accepted" ELSE "rejected"
    /\ UNCHANGED <<src, stack, order>>

Finished == phase \in {"accepted", "rejected", "crashed"} /\ UNCHANGED vars

Next == \/ Import \/ Declare \/ Clause \/ EndModule
        \/ SkipClause \/ HeadItem \/ PredItem \/ AssignItem \/ CompareItem \/ EndPass
        \/ Finished

(* The compiler is one thread that does not stop before it is done: weak   *)
(* fairness of Next, with its enabling condition written out.              *)
Running == phase \in {"parse", "types"}
Progress == []<>(~Running) \/ []<><<Next>>_vars

Spec == Init /\ [][Next]_vars /\ Progress

-----------------------------------------------------------------------------

(***************************************************************************)
(* What a declaration means to the later phases: the clauses and the       *)
(* predicates that refer to it.                                            *)
(***************************************************************************)
Accepted == phase = "accepted"
Refs == {<<i, ctx.clauses[i].decl>> : i \in DOMAIN ctx.clauses}
        \cup UNION {{<<i, it.d>> : it \in {x \in ToSet(ctx.clauses[i].items) : x.w = "pred"}} :
                       i \in DOMAIN ctx.clauses}

(* The table of visible declarations (AddDecl, HideLocals): in a program   *)
(* the parser accepts, declarations of one name share one context, except  *)
(* locals of different modules, and nobody refers to a local of another    *)
(* module, however the modules import each other.                          *)
NamesResolve ==
    Accepted =>
        /\ \A d, e \in DOMAIN ctx.decls :
              LET a == ctx.decls[d]  b == ctx.decls[e]
              IN /\ a.name = b.name
                 /\ a.mod = b.mod \/ (a.kind # "local" /\ b.kind # "local")
                 => a.own = b.own
        /\ \A r \in Refs : LET d == ctx.decls[r[2]]
                           IN d.kind = "local" => d.mod = ctx.clauses[r[1]].mod

SameAsWritten(a, b) ==
    \A k \in DOMAIN a.params : /\ a.params[k].given = b.params[k].given
                               /\ a.params[k].given => a.params[k].ty = b.params[k].ty

(* Every reference is to the first declaration of its context, and the     *)
(* redeclarations are written with the same types.                         *)
PlainRedeclarations ==
    /\ \A r \in Refs : r[2] = Head(ctx.redecls[ctx.decls[r[2]].own])
    /\ \A own \in DOMAIN ctx.redecls : \A i, j \in DOMAIN ctx.redecls[own] :
          SameAsWritten(ctx.decls[ctx.redecls[own][i]], ctx.decls[ctx.redecls[own][j]])

(* AssignTypes is sound: when a program is accepted, the occurrences of a  *)
(* variable have one type, which is that of every parameter it stands for  *)
(* and of every variable it is compared with, in whatever order the passes *)
(* reached them.                                                           *)
TypesAgree ==
    Accepted /\ PlainRedeclarations =>
        \A i \in DOMAIN ctx.clauses :
            LET cl == ctx.clauses[i]
            IN /\ \A o, p \in DOMAIN cl.occ :
                     cl.ty[o] # None /\ (cl.occ[o] = cl.occ[p] => cl.ty[o] = cl.ty[p])
               /\ \A it \in ToSet(cl.items) :
                     CASE it.w = "head" -> cl.ty[it.o] = ParamType(cl.decl, it.k)
                       [] it.w = "pred" -> cl.ty[it.o] = ParamType(it.d, it.k)
                       [] it.w = "cmp" -> cl.ty[it.o] = cl.ty[it.k]
                       [] it.w = "assign" -> it.x \in {None, cl.ty[it.o]}

(* Unification as a graph: the variables of the clauses and the            *)
(* parameters they meet.                                                   *)
Nodes == UNION {{<<"var", i, v>> : v \in ToSet(ctx.clauses[i].occ)} : i \in DOMAIN ctx.clauses}
Links ==
    UNION {LET cl == ctx.clauses[i]
           IN {LET from == <<"var", i, cl.occ[it.o]>>
               IN <<from, CASE it.w = "head" -> <<"param", cl.decl, it.k>>
                            [] it.w = "pred" -> <<"param", it.d, it.k>>
                            [] it.w = "cmp" -> <<"var", i, cl.occ[it.k]>>
                            [] OTHER -> from>> : it \in ToSet(cl.items)} :
           i \in DOMAIN ctx.clauses}

RECURSIVE Unified(_)
Unified(set) ==
    LET more == set \cup {l[1] : l \in {x \in Links : x[2] \in set}}
                    \cup {l[2] : l \in {x \in Links : x[1] \in set}}
    IN IF more = set THEN set ELSE Unified(more)

Annotated(n) == n[1] = "param" /\ ctx.decls[n[2]].params[n[3]].given
AssignsTyped == \E i \in DOMAIN ctx.clauses : \E it \in ToSet(ctx.clauses[i].items) :
                    it.w = "assign" /\ it.x # None

(* AssignTypes is complete: a variable is reported as impossible to type   *)
(* only if no chain of heads, predicates and comparisons, over all the     *)
(* clauses and modules, links it to an annotated parameter.  (Constants    *)
(* with a type of their own are left out: they are spread by luck only.)   *)
TypingComplete ==
    phase = "rejected" /\ Last(<<"">> \o ctx.log) = "untyped" /\ ~AssignsTyped =>
        \E n \in Nodes : ~\E m \in Unified({n}) : Annotated(m)

(* Parsing and typing end, with cyclic imports and recursive clauses too.  *)
Terminates == <>(~Running)
=============================================================================
