------------------------------- MODULE DRStrata -------------------------------
(***************************************************************************)
(* DeriveDRStrata (lib/DR/DR.cpp): the stratum every unit of the delta-    *)
(* relational flow runs at and the stratum every table is drained at, by a *)
(* monotone lift repeated until a pass changes nothing; and the map of the *)
(* tables to recursive SCCs that it reads (ComputeRecursiveSCCs).          *)
(*                                                                         *)
(* The program is given by its tables.  A table is filled by messages      *)
(* ("receive"), by one chain per table it reads ("merge"), by a pivot      *)
(* join, by a chain through a negation and the crossovers of what it       *)
(* negates ("negate", without them "never"), by the arms of a product, or  *)
(* by an aggregate.                                                        *)
(* A unit is a branch, a join, a crossover, a product or a group update.   *)
(* Units of one family are lifted in any order.                            *)
(***************************************************************************)
EXTENDS Integers, FiniteSets, FiniteSetsExt

CONSTANTS
    Table,
    Programs     \* records: kind, reads, within, negated, phase, view, owner, anchors

Kind == {"receive", "merge", "join", "negate", "never", "product", "aggregate"}

-----------------------------------------------------------------------------
(* What a program may be when this pass runs. *)

(* within is what each table reads from, in any number of steps. *)
Within(p) ==
    /\ p.within \in [Table -> SUBSET Table]
    /\ \A t \in Table :
          /\ p.reads[t] \subseteq p.within[t]
          /\ \A w \in p.within[t] : p.within[w] \subseteq p.within[t]
          /\ \A S \in SUBSET Table :
                p.reads[t] \subseteq S /\ (\A w \in S : p.reads[w] \subseteq S)
                    => p.within[t] \subseteq S

(* Stratify gave every component a stratum of its own, sources first, and  *)
(* rejected negation and aggregation inside one; products inside one are   *)
(* rejected by the builder.  A table belongs to the last stratum of its    *)
(* views, so its owner can be later than the view that fills it.  Tables   *)
(* that read from phase-owned ones are phase owned, as are those that      *)
(* negate or aggregate.  Every cycle has an anchor.                        *)
LegalProgram(p) ==
    LET cyclic(t, w) == t \in p.within[w] /\ w \in p.within[t]
    IN  /\ p.kind \in [Table -> Kind] /\ p.phase \subseteq Table
        /\ p.reads \in [Table -> SUBSET Table] /\ p.negated \in [Table -> SUBSET Table]
        /\ p.view \in [Table -> Nat] /\ p.owner \in [Table -> Nat]
        /\ Within(p)
        /\ p.anchors \subseteq {t \in p.phase : cyclic(t, t)}
        /\ \A t \in Table :
              /\ p.kind[t] = "receive" => p.reads[t] = {}
              /\ IF p.kind[t] \in {"negate", "never"}
                 THEN \E v, w \in Table : p.reads[t] = {v, w} /\ p.negated[t] = {w}
                 ELSE p.negated[t] = {}
              /\ \A w \in Table : p.view[w] = p.view[t] <=> w = t \/ cyclic(t, w)
              /\ \A w \in p.reads[t] : p.view[w] <= p.view[t]
              /\ \A w \in p.negated[t] : ~ cyclic(t, w)
              /\ p.kind[t] \in {"product", "aggregate"} => ~ cyclic(t, t)
              /\ p.view[t] <= p.owner[t]
              /\ t \notin p.phase => p.reads[t] \cap p.phase = {}
              /\ p.kind[t] \in {"negate", "aggregate"} => t \in p.phase
              /\ t \in p.phase /\ cyclic(t, t) => \E a \in p.anchors : cyclic(a, t)

DRStrataParameters ==
    /\ IsFiniteSet(Table)
    /\ \A p \in Programs : LegalProgram(p)

ASSUME DRStrataAssumption == DRStrataParameters

VARIABLES
    prog,          \* the program
    scc,           \* the recursive SCC of a table, by one of its anchors
    unitStratum,   \* branch, join, crossover, product and group update strata
    drain,         \* drain_stratum of the phase-owned tables
    round,         \* DRRound::drain_stratum of each SCC
    left,          \* the units this pass has yet to lift
    changed,
    flowStage      \* "lift", "stamp", "done", and the stages of DRFlow

liftVars == <<prog, scc, unitStratum, drain, round, left, changed, flowStage>>

-----------------------------------------------------------------------------
(* ComputeRecursiveSCCs: the anchors of one group, and the tables both     *)
(* reached from one of them and reaching one.                              *)
Cyclic(p, t, w) == t \in p.within[w] /\ w \in p.within[t]
AnchorsOf(p, a) == {b \in p.anchors : Cyclic(p, a, b)}

OnCycleThroughAnchored(p, group, t) == t \in group
OnCycleThrough(p, group, t) ==
    /\ \E a \in group : a \in p.within[t]
    /\ \E a \in group : t \in p.within[a]

NoScc == {}
SccMap(p) ==
    [t \in Table |->
        IF \E a \in p.anchors : OnCycleThrough(p, AnchorsOf(p, a), t)
        THEN AnchorsOf(p, CHOOSE a \in p.anchors :
                              OnCycleThrough(p, AnchorsOf(p, a), t))
        ELSE NoScc]

(* The units BuildDRInventory makes. *)
Unit(family, head, from) == [family |-> family, head |-> head, from |-> from]

FilledBy(p, kinds) == {t \in p.phase : p.kind[t] \in kinds}

(* One branch for each way from a table to the next table or join.  One    *)
(* that ends at a join folds nothing, all others fold into their target;   *)
(* products and aggregates are not reached by branches.                    *)
Branches(p) ==
    (UNION {{Unit("branch", t, {w}) : w \in p.reads[t] \ p.negated[t]} :
                t \in FilledBy(p, {"merge", "negate", "never"})})
    \cup (UNION {{Unit("toJoin", t, {w}) : w \in p.reads[t]} :
                     t \in FilledBy(p, {"join"})})

Joins(p) == {Unit("join", t, p.reads[t]) : t \in FilledBy(p, {"join"})}

(* A negation with the @never hint has no crossover. *)
Crossovers(p) == {Unit("crossover", t, p.reads[t]) : t \in FilledBy(p, {"negate"})}

Products(p) == {Unit("product", t, p.reads[t]) : t \in FilledBy(p, {"product"})}

GroupUpdates(p) ==
    {Unit("groupUpdate", t, p.reads[t]) : t \in FilledBy(p, {"aggregate"})}

Units(p) == Branches(p) \cup Joins(p) \cup Crossovers(p) \cup Products(p)
            \cup GroupUpdates(p)

(* The initial strata: a branch that folds starts at the owner stratum of  *)
(* its target, all other units at the stratum of their view.               *)
StartOf(p, u) == IF u.family = "branch" THEN p.owner[u.head] ELSE p.view[u.head]

LiftInit ==
    /\ prog \in Programs
    /\ scc = SccMap(prog)
    /\ unitStratum = [u \in Units(prog) |-> StartOf(prog, u)]
    /\ drain = [t \in prog.phase |-> prog.owner[t]]
    /\ round = [g \in {scc[t] : t \in Table} \ {NoScc} |-> 0]
    /\ left = Units(prog)
    /\ changed = FALSE
    /\ flowStage = "lift"

-----------------------------------------------------------------------------
SameScc(t, w) == scc[t] # NoScc /\ scc[t] = scc[w]

(* ready_after: the first stratum at which a table's frontiers are final;  *)
(* ready_across exempts the reads of an SCC from itself.                   *)
ReadyAfterDrain(t) == IF t \in prog.phase THEN drain[t] ELSE 0
ReadyAfter(t) == IF t \in prog.phase THEN drain[t] + 1 ELSE 0

ReadyAcrossNoExemption(head, t) == ReadyAfter(t)
ReadyAcross(head, t) == IF SameScc(head, t) THEN 0 ELSE ReadyAfter(t)

(* A chain through a negation reads the negated table too. *)
ReadsOf(u) == u.from \cup (IF u.family = "branch" THEN prog.negated[u.head] ELSE {})

Strict(u) == u.family \in {"product", "groupUpdate"}

Ready(u) ==
    Max({0} \cup {IF Strict(u) THEN ReadyAfter(t) ELSE ReadyAcross(u.head, t) :
                      t \in ReadsOf(u)})

(* Where a unit's stratum is kept: a branch that ends at a join lifts the  *)
(* join, whose own lift comes later in the pass.                           *)
SlotOf(u) == IF u.family = "toJoin"
             THEN CHOOSE j \in DOMAIN unitStratum : j.family = "join" /\ j.head = u.head
             ELSE u

FamilyOrder == [branch |-> 1, toJoin |-> 1, join |-> 2, crossover |-> 3,
                product |-> 4, groupUpdate |-> 5]

LiftDrain(u, value) ==
    IF u.family = "toJoin" THEN drain
    ELSE [drain EXCEPT ![u.head] = Max({@, value})]

(* One unit's turn in the pass. *)
LiftUnit ==
    /\ flowStage = "lift"
    /\ \E u \in left :
          /\ \A w \in left : FamilyOrder[u.family] <= FamilyOrder[w.family]
          /\ LET slot  == SlotOf(u)
                 value == Max({unitStratum[slot], StartOf(prog, u), Ready(u)})
             IN  /\ unitStratum' = [unitStratum EXCEPT ![slot] = value]
                 /\ drain' = LiftDrain(u, value)
          /\ left' = left \ {u}
    /\ changed' = (changed \/ unitStratum' # unitStratum \/ drain' # drain)
    /\ UNCHANGED <<prog, scc, round, flowStage>>

(* The end of a pass: an SCC drains at the last of its members' strata.    *)
(* Another pass follows if this one lifted anything.                       *)
GroupDrain(g) == Max({drain[t] : t \in {w \in prog.phase : scc[w] = g}})

PinnedNone == drain
Pinned == [t \in prog.phase |-> IF scc[t] = NoScc THEN drain[t] ELSE GroupDrain(scc[t])]

AnotherPassAlways == TRUE
AnotherPassUnpinned == changed
AnotherPass == changed \/ Pinned # drain

EndPass ==
    /\ flowStage = "lift"
    /\ left = {}
    /\ drain' = Pinned
    /\ \/ AnotherPass /\ left' = DOMAIN unitStratum /\ UNCHANGED flowStage
       \/ ~ AnotherPass /\ flowStage' = "stamp" /\ UNCHANGED left
    /\ changed' = FALSE
    /\ UNCHANGED <<prog, scc, unitStratum, round>>

(* A branch that ends at a join takes the join's stratum, a round the      *)
(* drain stratum of its SCC.                                               *)
Stamp ==
    /\ flowStage = "stamp"
    /\ unitStratum' = [u \in DOMAIN unitStratum |-> unitStratum[SlotOf(u)]]
    /\ round' = [g \in DOMAIN round |-> GroupDrain(g)]
    /\ flowStage' = "done"
    /\ UNCHANGED <<prog, scc, drain, left, changed>>

LiftNext == LiftUnit \/ EndPass \/ Stamp

LiftSpec == LiftInit /\ [][LiftNext]_liftVars

-----------------------------------------------------------------------------
(* The reference: one sweep over the components in the order of Stratify's *)
(* strata.  A component drains at the latest of the owners of its tables,  *)
(* of the starts of its units, and of the strata after the drains of what  *)
(* it reads from other components.                                         *)
Here(s) == {t \in prog.phase : prog.view[t] = s}
Below(s) == {w \in prog.phase : prog.view[w] < s /\ \E t \in Here(s) : w \in prog.reads[t]}

Level[s \in 0..Max({prog.view[t] : t \in Table})] ==
    Max({0} \cup {prog.owner[t] : t \in Here(s)}
            \cup {Level[prog.view[w]] + 1 : w \in Below(s)})

(* Whatever the order of the units, and in the middle of a pass, no drain  *)
(* and no unit is lifted past the reference, so the lift ends with the     *)
(* least strata and not with some that satisfy the reads.                  *)
NeverOvershoots ==
    /\ \A t \in prog.phase : drain[t] <= Level[prog.view[t]]
    /\ \A u \in DOMAIN unitStratum : unitStratum[u] <= Level[prog.view[u.head]]

(* What the lowering relies on (the assumption ProgramWellFormed of        *)
(* GroundProgram): a unit runs after the drains of everything it reads     *)
(* from outside its SCC and not after the drain of its head; the tables of *)
(* an SCC share a drain stratum, which is that of their rounds.            *)
WellFormed ==
    /\ \A u \in DOMAIN unitStratum :
          /\ unitStratum[u] <= drain[u.head]
          /\ \A t \in ReadsOf(u) \cap prog.phase :
                \/ drain[t] < unitStratum[u]
                \/ SameScc(u.head, t) /\ drain[t] = drain[u.head]
    /\ \A t \in prog.phase : scc[t] # NoScc => round[scc[t]] = drain[t]

EstablishesWellFormed == flowStage \notin {"lift", "stamp"} => WellFormed

(* The lift puts every unit after what it reads, and no later than that.   *)
StrataExact == NeverOvershoots /\ EstablishesWellFormed
=============================================================================
