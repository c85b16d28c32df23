------------------------------ MODULE Aggregate ------------------------------
(***************************************************************************)
(* Aggregating functors: the StateCell store that keeps a working and a    *)
(* sealed value per group (include/drlojekyll/Runtime/StateCell.h), the    *)
(* GROUP_UPDATE that folds the input's frontiers into it and emits at most *)
(* one net pair per group, and the differential table of aggregate rows.   *)
(*                                                                         *)
(* Three functors stand for the two algebras: "sum" is @invertible, with a *)
(* running total; "max" and "max_above" are @recompute, with the group's   *)
(* values and their multiplicities, and "max_above" has a configuration    *)
(* column, a threshold of the group.                                       *)
(***************************************************************************)
EXTENDS DiffRow, FiniteSets, FiniteSetsExt

CONSTANTS
    InRow,      \* rows the input table can hold
    GroupOf,    \* the group and configuration columns of each row
    ValueOf,    \* the aggregated column of each row
    Functor,    \* the functor over each group: "sum", "max" or "max_above"
    Threshold,  \* the configuration column of each group
    Int32Min    \* the driver's answer for a group with no maximum

ASSUME AggregateParameters ==
    /\ IsFiniteSet(InRow)
    /\ \A x \in InRow : GroupOf[x] \in DOMAIN Threshold /\ ValueOf[x] \in Int
    /\ \A x \in InRow : Functor[GroupOf[x]] \in {"sum", "max", "max_above"}
    /\ Int32Min \in Int /\ \A x \in InRow : Int32Min < ValueOf[x]

VARIABLES
    present,         \* the input rows as of batch start
    neg, pos,        \* the input frontiers, what is left of them
    final,           \* the input rows as of batch end (history)
    store,           \* working, working_count, sealed, sealed_occupied by group
    touched,
    head,            \* counters and flags of the aggregate rows
    delQ, addQ,
    netRem, netAdd,
    phase

aggVars == <<present, neg, pos, final, store, touched, head, delQ, addQ, netRem,
             netAdd, phase>>

Group == {GroupOf[x] : x \in InRow}
Value == {ValueOf[x] : x \in InRow}

Sums == LET b == Max({0} \cup Value \cup {-v : v \in Value})
        IN  (-(Cardinality(InRow) * b))..(Cardinality(InRow) * b)
Out == Sums \cup Value \cup {Int32Min}

-----------------------------------------------------------------------------
(* The algebras. *)

Identity(g) == IF Functor[g] = "sum" THEN 0 ELSE [v \in Value |-> 0]

FoldValue(g, w, sign, v) ==
    IF Functor[g] = "sum" THEN w + sign * v ELSE [w EXCEPT ![v] = @ + sign]

Passes(g, v) == Functor[g] = "max_above" => v >= Threshold[g]

(* Emit: the driver's reduction of the live values, for @recompute. *)
EmitAll(g, w) ==
    IF Functor[g] = "sum" THEN w ELSE Max(DOMAIN w)
Emit(g, w) ==
    IF Functor[g] = "sum" THEN w
    ELSE LET live == {v \in DOMAIN w : w[v] > 0 /\ Passes(g, v)}
         IN  IF live = {} THEN Int32Min ELSE Max(live)

WorkingOccupiedByValue(g, c) == c.working # Identity(g)
WorkingOccupied(g, c) == c.count > 0
SealedOccupied(c) == c.occ

(* FindOrAddGroup: a fresh group is empty, its sealed value a placeholder. *)
FreshGroup(g) ==
    [working |-> Identity(g), count |-> 0, occ |-> FALSE,
     sealed |-> IF Functor[g] = "max_above" THEN 0 ELSE Emit(g, Identity(g))]

FoldGroup(g, c, sign, v) ==
    [c EXCEPT !.working = FoldValue(g, @, sign, v), !.count = @ + sign]

SealValueOnly(g, c) == [c EXCEPT !.sealed = Emit(g, c.working),
                                 !.occ = @ \/ WorkingOccupied(g, c)]
SealGroup(g, c) ==
    [c EXCEPT !.sealed = Emit(g, c.working), !.occ = WorkingOccupied(g, c)]

-----------------------------------------------------------------------------
AggInit ==
    /\ present = {} /\ neg = {} /\ pos = {} /\ final = {}
    /\ store = <<>>
    /\ touched = {}
    /\ head = [x \in Group \X Out |-> NewCell]
    /\ delQ = {} /\ addQ = {} /\ netRem = {} /\ netAdd = {}
    /\ phase = "idle"

(* The frontiers of the input table reach this stratum: rows that left and *)
(* rows that came.                                                         *)
Submit(gone, new) ==
    /\ phase = "idle"
    /\ neg' = gone
    /\ pos' = new
    /\ final' = (present \ gone) \cup new
    /\ phase' = "neg"
    /\ UNCHANGED <<present, store, touched, head, delQ, addQ, netRem, netAdd>>

(* One row of a frontier: find or add its group, touch it, fold. *)
FoldRow(x, sign) ==
    LET g == GroupOf[x]
        c == IF g \in DOMAIN store THEN store[g] ELSE FreshGroup(g)
    IN  /\ store' = [h \in DOMAIN store \cup {g} |->
                        IF h = g THEN FoldGroup(g, c, sign, ValueOf[x])
                        ELSE store[h]]
        /\ touched' = touched \cup {g}

FoldNeg(x) ==
    /\ phase = "neg"
    /\ x \in neg
    /\ FoldRow(x, -1)
    /\ neg' = neg \ {x}
    /\ UNCHANGED <<present, pos, final, head, delQ, addQ, netRem, netAdd, phase>>

EndNeg ==
    /\ phase = "neg"
    /\ neg = {}
    /\ phase' = "pos"
    /\ UNCHANGED <<present, neg, pos, final, store, touched, head, delQ, addQ,
                   netRem, netAdd>>

FoldPos(x) ==
    /\ phase = "pos"
    /\ x \in pos
    /\ FoldRow(x, 1)
    /\ pos' = pos \ {x}
    /\ UNCHANGED <<present, neg, final, head, delQ, addQ, netRem, netAdd, phase>>

(* emit_touched: birth gives +new, death -old, a change both, and nothing  *)
(* otherwise.  The queues take every row folded, crossing or not.          *)
Changed(g, c) == Emit(g, c.working) # c.sealed

EmitsOld(g, c) == /\ SealedOccupied(c)
                  /\ WorkingOccupied(g, c) => Changed(g, c)
EmitsNew(g, c) == /\ WorkingOccupied(g, c)
                  /\ SealedOccupied(c) => Changed(g, c)

Minus == {<<g, store[g].sealed>> : g \in {h \in touched : EmitsOld(h, store[h])}}
Plus  == {<<g, Emit(g, store[g].working)>> :
              g \in {h \in touched : EmitsNew(h, store[h])}}

EmitTouched ==
    /\ phase = "pos"
    /\ pos = {}
    /\ head' = [x \in DOMAIN head |->
          LET m == IF x \in Minus THEN FoldAt(head[x], "kNonRecursive", -1)
                   ELSE head[x]
          IN  IF x \in Plus THEN FoldAt(m, "kNonRecursive", 1) ELSE m]
    /\ delQ' = Minus
    /\ addQ' = Plus
    /\ phase' = "drain"
    /\ UNCHANGED <<present, neg, pos, final, store, touched, netRem, netAdd>>

(* The drains and filters of the aggregate's own table. *)
Drain ==
    /\ phase = "drain"
    /\ LET dels == {x \in delQ : CanClaimDel(head[x])}
           mid  == [x \in DOMAIN head |->
                       IF x \in dels THEN ClaimDel(head[x]) ELSE head[x]]
           adds == {x \in addQ : CanClaimAdd(mid[x])}
           end  == [x \in DOMAIN head |->
                       IF x \in adds THEN ClaimAdd(mid[x]) ELSE mid[x]]
       IN  /\ head' = end
           /\ netRem' = {x \in dels : NetDeleted(end[x])}
           /\ netAdd' = {x \in adds : NetAdded(end[x])}
    /\ phase' = "commit"
    /\ UNCHANGED <<present, neg, pos, final, store, touched, delQ, addQ>>

(* The sweep of the aggregate's table and, at its tail, STATE_SEAL. *)
CommitSweep ==
    /\ phase = "commit"
    /\ head' = [x \in DOMAIN head |->
          IF "kTouched" \in head[x].f THEN CommitRow(head[x]) ELSE head[x]]
    /\ store' = [g \in DOMAIN store |->
          IF g \in touched THEN SealGroup(g, store[g]) ELSE store[g]]
    /\ touched' = {}
    /\ present' = final
    /\ delQ' = {} /\ addQ' = {} /\ netRem' = {} /\ netAdd' = {}
    /\ phase' = "idle"
    /\ UNCHANGED <<neg, pos, final>>

AggNext ==
    \/ /\ phase = "idle"
       /\ \E gone \in SUBSET present : \E new \in SUBSET (InRow \ present) :
              Submit(gone, new)
    \/ \E x \in InRow : FoldNeg(x) \/ FoldPos(x)
    \/ EndNeg \/ EmitTouched \/ Drain \/ CommitSweep

AggSpec == AggInit /\ [][AggNext]_aggVars

-----------------------------------------------------------------------------
(* The definitional reduction of the oracle (ReduceAggregate): one row per *)
(* group that has a member, and for max_above one that passes.             *)
Members(S, g) == {x \in S : GroupOf[x] = g /\ Passes(g, ValueOf[x])}
SumOf(S) == MapThenSumSet(LAMBDA x : ValueOf[x], S)
ReduceGroup(S, g) ==
    IF Functor[g] = "sum" THEN SumOf(Members(S, g))
    ELSE Max({ValueOf[x] : x \in Members(S, g)})
Reduced(S) == {<<g, ReduceGroup(S, g)>> : g \in {h \in Group :
                                                    Members(S, h) # {}}}

Visible == {x \in DOMAIN head : InI(head[x])}

(* The table holds the definitional reduction of its input, each row       *)
(* derived once.                                                           *)
TableReduced ==
    /\ Visible = Reduced(present)
    /\ \A x \in DOMAIN head : head[x].nr = IF x \in Visible THEN 1 ELSE 0

(* The store is what DebugValidate asserts: no group is touched, and the   *)
(* occupancy sealed for the next batch is that of the members, which the   *)
(* count equals.                                                           *)
StoreCoherent ==
    /\ touched = {}
    /\ \A g \in DOMAIN store :
          /\ store[g].count = Cardinality({x \in present : GroupOf[x] = g})
          /\ store[g].occ <=> store[g].count > 0

(* Between batches the aggregate's table is the reduction of its input,    *)
(* and its store is coherent: a group is born with its first member and    *)
(* dies with its last, a zero-sum group is not an empty one, and a         *)
(* retracted maximum gives way to the next.                                *)
AggregateExact == phase = "idle" => TableReduced /\ StoreCoherent
=============================================================================
