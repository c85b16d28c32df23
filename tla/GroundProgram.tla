---------------------------- MODULE GroundProgram ----------------------------
(***************************************************************************)
(* A compiled Datalog program, grounded: the rows every table can hold and *)
(* every rule instance over them, with the strata and the recursive SCCs   *)
(* that the control-flow builder lowers by.  A row is a tuple whose first  *)
(* element names its table.  An instance is a record                       *)
(*                                                                         *)
(*   rule   the DR branch, join or product it is an instance of            *)
(*   kind   "chain" (a projection, with at most one negated row),          *)
(*          "join" or "product"                                            *)
(*   head   the row it derives                                             *)
(*   body   the rows it reads, in the order of JoinedViews()               *)
(*   neg    the negated rows                                               *)
(*   at     the stratum whose series its seed loops are emitted into       *)
(*                                                                         *)
(* Two instances with one head are two derivations.                        *)
(***************************************************************************)
EXTENDS Integers, Sequences, FiniteSets

CONSTANTS
    Row,      \* every ground row
    Received, \* the tables filled by messages
    Stratum,  \* the stratum each table is drained at
    Scc,      \* the recursive SCC group of each table, 0 for none
    Inst      \* the rule instances

TableOf(x) == x[1]

Facts == {x \in Row : TableOf(x) \in Received}

BodyRows(i) == {i.body[p] : p \in DOMAIN i.body}

(* Whether two rows belong to tables of one recursive SCC. *)
SameScc(x, y) ==
    /\ Scc[TableOf(x)] # 0
    /\ Scc[TableOf(x)] = Scc[TableOf(y)]

(* RuleClass: the fixed counter class of a rule. *)
ReadsOwnScc(i) == \E y \in BodyRows(i) \cup i.neg : SameScc(i.head, y)
RuleClass(i) == IF ReadsOwnScc(i) THEN "kRecursive" ELSE "kNonRecursive"

(* The rules that have no seed loop: they fire only in the rounds of their *)
(* SCC.                                                                    *)
AllSidesSameScc(i) == \A y \in BodyRows(i) : SameScc(i.head, y)
RoundsOnly(i) == i.kind \in {"chain", "join"} /\ AllSidesSameScc(i)

(* What the strata lift guarantees the lowering: an emission sits above    *)
(* the drains of all it reads and not above the drain of its head, except  *)
(* for reads within one SCC; negation stays between SCCs; the head of a    *)
(* product is in no SCC; no rule derives into a receive.                   *)
ASSUME ProgramWellFormed ==
    \A i \in Inst :
        /\ i.head \in Row \ Facts
        /\ i.at <= Stratum[TableOf(i.head)]
        /\ \A y \in BodyRows(i) :
               /\ y \in Row
               /\ SameScc(i.head, y) \/ Stratum[TableOf(y)] < i.at
        /\ \A y \in i.neg : y \in Row /\ Stratum[TableOf(y)] < i.at
        /\ i.kind = "chain" => Len(i.body) = 1 /\ Cardinality(i.neg) <= 1
        /\ i.kind # "chain" => Len(i.body) >= 2 /\ i.neg = {}
        /\ i.kind = "product" => Scc[TableOf(i.head)] = 0

(* The flow is finite, its strata and SCCs are numbered, the tables of an   *)
(* SCC are drained together, and a branch, join or product is one emission. *)
ASSUME ProgramFinite ==
    /\ IsFiniteSet(Row) /\ Row # {} /\ IsFiniteSet(Inst)
    /\ \A x \in Row : Stratum[TableOf(x)] \in Nat /\ Scc[TableOf(x)] \in Nat
    /\ \A x, y \in Row : SameScc(x, y) => Stratum[TableOf(x)] = Stratum[TableOf(y)]

ASSUME InstancesTyped ==
    /\ \A i \in Inst : /\ i.kind \in {"chain", "join", "product"}
                       /\ i.body \in Seq(Row) /\ i.neg \subseteq Row
                       /\ i.at \in Nat
    /\ \A i, j \in Inst : i.rule = j.rule => i.kind = j.kind /\ i.at = j.at

Strata == {Stratum[TableOf(x)] : x \in Row}
LastStratum == CHOOSE s \in Strata : \A t \in Strata : t <= s

-----------------------------------------------------------------------------
(* The reference semantics: the stratified least model of a set of facts,  *)
(* and the number of derivations a row has in it.                          *)

Holds(i, S) == BodyRows(i) \subseteq S /\ i.neg \cap S = {}

OneStep(S, s) ==
    S \cup {i.head : i \in {j \in Inst : /\ Stratum[TableOf(j.head)] = s
                                         /\ Holds(j, S)}}

Closure(S, s) ==
    LET grow[R \in SUBSET Row] ==
            LET more == OneStep(R, s) IN IF more = R THEN R ELSE grow[more]
    IN  grow[S]

LeastModel(facts) ==
    LET upTo[s \in -1..LastStratum] ==
            IF s = -1 THEN facts ELSE Closure(upTo[s - 1], s)
    IN  upTo[LastStratum]

Derivations(x, k, S) ==
    Cardinality({i \in Inst : i.head = x /\ RuleClass(i) = k /\ Holds(i, S)})
=============================================================================
