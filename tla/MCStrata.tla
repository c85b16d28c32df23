-------------------------------- MODULE MCStrata --------------------------------
(***************************************************************************)
(* The orders of evaluation, one of which is found in each behaviour: the  *)
(* strata of the views, on all digraphs on four views without loops on one *)
(* view, alone and with two negates and an aggregate, two views in each of *)
(* two models; and the operations of programs of four tables.              *)
(***************************************************************************)
EXTENDS Stratify, DRFlow

-----------------------------------------------------------------------------
(* Four tables: a union of any others; a join of two, a negation, and a    *)
(* product or an aggregate of others, or receives in their place.  Every   *)
(* table or only those that must be are phase owned, a cycle has one       *)
(* anchor or all of it, and when all are phase owned the union and the     *)
(* join may be owned by a stratum later than their views'.                 *)
FourTables == 1..4
Others(t) == (1..4) \ {t}
Filled(kind, reads, negated) == [kind |-> kind, reads |-> reads, negated |-> negated]
Receive == Filled("receive", {}, {})

Shapes ==
    {<<u, j, n, p>> :
        u \in {Filled("merge", S, {}) : S \in SUBSET Others(1)},
        j \in {Receive} \cup {Filled("join", S, {}) : S \in kSubset(2, Others(2))},
        n \in {Receive, Filled("never", {1, 4}, {4})}
              \cup UNION {{Filled("negate", S, {w}) : w \in S} :
                              S \in kSubset(2, Others(3))},
        p \in {Receive} \cup {Filled("product", S, {}) : S \in kSubset(2, Others(4))}
                        \cup {Filled("aggregate", {w}, {}) : w \in Others(4)}}

(* The tables each table reads from, in up to four steps. *)
Further(near) == [t \in 1..4 |-> near[t] \cup UNION {near[w] : w \in near[t]}]
ReadFrom(reads) == Further(Further(reads))

(* A numbering of the components with sources first. *)
Numbered(within) ==
    LET key == [t \in 1..4 |->
                    5 * Cardinality(within[t] \cup {t})
                    + Min({t} \cup {w \in within[t] : t \in within[w]})]
    IN  [t \in 1..4 |-> Cardinality({key[w] : w \in {v \in 1..4 : key[v] < key[t]}})]

Instances(shape) ==
    LET kinds  == [t \in 1..4 |-> shape[t].kind]
        read   == [t \in 1..4 |-> shape[t].reads]
        reach  == ReadFrom(read)
        number == Numbered(reach)
        cycle  == {t \in 1..4 : t \in reach[t]}
        legal  == /\ \A t \in cycle : kinds[t] \notin {"product", "aggregate"}
                  /\ \A t \in 1..4 : \A w \in shape[t].negated : t \notin reach[w]
        least  == {t \in 1..4 : \E w \in reach[t] \cup {t} :
                                    kinds[w] \in {"negate", "aggregate"}}
        anchored(owned) == IF cycle \subseteq owned
                           THEN {cycle} \cup {{t} : t \in cycle} ELSE {{}}
    IN  IF ~ legal THEN {}
        ELSE UNION {
          {[kind |-> kinds, reads |-> read, within |-> reach,
            negated |-> [t \in 1..4 |-> shape[t].negated],
            phase |-> owned, view |-> number,
            owner |-> [t \in 1..4 |-> IF t \in late THEN 4 + t ELSE number[t]],
            anchors |-> marked] :
               marked \in anchored(owned),
               late \in {{}} \cup (IF owned = 1..4 THEN {{1, 2}} ELSE {})} :
          owned \in {1..4, least}}

FlowPrograms == UNION {Instances(shape) : shape \in Shapes}

(* An order of the tables in memory that disagrees with the order in which *)
(* operations are made.                                                    *)
OneOrder == {<<4, 2, 1, 3>>}

-----------------------------------------------------------------------------
LooplessGraphs == {g \in [1..4 -> SUBSET (1..4)] : \A v \in 1..4 : v \notin g[v]}
SomeRoles == {[negates |-> {}, aggs |-> {}],
              [negates |-> {<<3, 1>>, <<1, 4>>}, aggs |-> {2}]}
TwoModels == <<"m", "n", "m", "n">>

VARIABLE part

(* One part runs, and the other stays as it is: the views before the walk, *)
(* the units of a program that only receives.                              *)
Quiet ==
    CHOOSE p \in FlowPrograms : p.phase = {} /\ \A t \in 1..4 : p.reads[t] = {}

ViewsRest ==
    /\ graph = [v \in View |-> {}] /\ role = [negates |-> {}, aggs |-> {}]
    /\ Init
UnitsRest == prog = Quiet /\ FlowInit

InitParts ==
    \/ part = "views" /\ UnitsRest /\ Init
    \/ part = "units" /\ FlowInit /\ ViewsRest

NextParts ==
    \/ part = "views" /\ Next /\ UNCHANGED <<part, allVars>>
    \/ part = "units" /\ FlowNext /\ UNCHANGED <<part, vars>>

(* The compiler runs on until it has an order: weak fairness of NextParts,  *)
(* with what enables it written out.                                       *)
Unordered == IF part = "views" THEN stage # "done" ELSE Running
SpecParts == InitParts /\ [][NextParts]_<<part, vars, allVars>>
             /\ ([]<>(~Unordered) \/ []<><<NextParts>>_<<part, vars, allVars>>)

(* The walk over the views ends, and so does the lift, which goes on for as *)
(* long as a pass changes anything.                                        *)
Terminates == <>(~Unordered)
=============================================================================
