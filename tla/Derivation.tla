----------------------------- MODULE Derivation -----------------------------
(***************************************************************************)
(* Derivation counting over a ground program: sets of firings folded into  *)
(* the counters of their heads, as the generated database and the oracle   *)
(* both do.                                                                *)
(***************************************************************************)
EXTENDS GroundProgram, DiffRow

(* Folds.  fires is a set of pairs <<instance, position>>, each one fold   *)
(* of sign d into the head of the instance.                                *)

CountInto(fires, x, k) ==
    Cardinality({e \in fires : e[1].head = x /\ RuleClass(e[1]) = k})

Heads(fires) == {e[1].head : e \in fires}

FoldAll(cells, fires, d) ==
    [x \in Row |->
        IF x \notin Heads(fires) THEN cells[x]
        ELSE FoldAt(FoldAt(cells[x], "kNonRecursive",
                           d * CountInto(fires, x, "kNonRecursive")),
                    "kRecursive", d * CountInto(fires, x, "kRecursive"))]

(* The rows a loop of folds from cells to after parks.  A loop has one     *)
(* sign, its counters move one way, so one of its folds into a row crosses *)
(* iff the loop as a whole does.                                           *)
ParkedUp(cells, after, fires) ==
    {x \in Heads(fires) : CrossedUp(cells[x], after[x])}
ParkedDown(cells, after, fires) ==
    {x \in Heads(fires) : CrossedDown(cells[x], after[x])}

-----------------------------------------------------------------------------
(* Every counter is the number of derivations that a from-scratch          *)
(* evaluation of the facts f would count, by class, the explicit support   *)
(* included.                                                               *)
ExactCounts(cells, f) ==
    LET M == LeastModel(f) IN
    \A x \in Row :
        /\ cells[x].nr = Derivations(x, "kNonRecursive", M)
                           + (IF x \in f THEN 1 ELSE 0)
        /\ cells[x].r = Derivations(x, "kRecursive", M)
=============================================================================
