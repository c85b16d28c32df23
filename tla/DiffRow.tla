------------------------------- MODULE DiffRow -------------------------------
(***************************************************************************)
(* One row of a differential relation, as hyde::rt::DiffTable stores it    *)
(* (include/drlojekyll/Runtime/Table.h): the two signed derivation         *)
(* counters C_nr and C_r, and the flag byte as a set of flags.  Everything *)
(* here is a pure operator on one such cell; DiffTable.tla and Epoch.tla   *)
(* build their actions from them.                                          *)
(***************************************************************************)
EXTENDS Integers

(* The counter a fold moves: derivations from outside the SCC of the row's *)
(* table (plus explicit message support), or over a back-edge of that SCC. *)
DerivClass == {"kNonRecursive", "kRecursive"}

RowFlags == {"kInI", "kDel", "kAdd", "kDelNow", "kAddNow", "kExplicit",
             "kTouched"}

(* The flags whose meaning lasts one batch. *)
ScratchFlags == {"kDel", "kAdd", "kDelNow", "kAddNow", "kTouched"}

Cell == [nr : Int, r : Int, f : SUBSET RowFlags]

(* A fresh log entry: GrowTo appends zero counters and zero flags.  A row  *)
(* that was never stored satisfies no predicate, and neither does this.    *)
NewCell == [nr |-> 0, r |-> 0, f |-> {}]

Total(c) == c.nr + c.r

-----------------------------------------------------------------------------
(* Named membership predicates.  Each reads the flags or the counters of   *)
(* one row.                                                                *)

InI(c)           == "kInI" \in c.f
SurvivesSoFar(c) == "kInI" \in c.f /\ "kDel" \notin c.f
InNew(c)         == SurvivesSoFar(c) \/ "kAdd" \in c.f
AliveAtClaim(c)  == "kInI" \in c.f /\ ("kDel" \notin c.f \/ "kDelNow" \in c.f)
InNewWithFrontier(c) == InNew(c)
InNewSansFrontier(c) ==
    SurvivesSoFar(c) \/ ("kAdd" \in c.f /\ "kAddNow" \notin c.f)
Present(c)       == Total(c) > 0
RecursivelySupported(c) == c.r > 0
NetDeleted(c)    == "kDel" \in c.f /\ "kAdd" \notin c.f
NetAddedNoInI(c) == "kAdd" \in c.f /\ "kDel" \notin c.f
NetAdded(c)      == "kAdd" \in c.f /\ "kDel" \notin c.f /\ "kInI" \notin c.f

-----------------------------------------------------------------------------
(* Counter folds. *)

Touch(c) == [c EXCEPT !.f = @ \cup {"kTouched"}]

(* The counter read-modify-write of one fold, d = 1 or d = -1. *)
FoldAtUntouched(c, k, d) ==
    IF k = "kNonRecursive" THEN [c EXCEPT !.nr = @ + d]
                           ELSE [c EXCEPT !.r = @ + d]
FoldAt(c, k, d) ==
    IF k = "kNonRecursive"
    THEN [Touch(c) EXCEPT !.nr = @ + d]
    ELSE [Touch(c) EXCEPT !.r = @ + d]

(* Whether a fold from cell c to cell e is a zero crossing.  A minus fold  *)
(* fires on every decrement of a batch-start row whose C_nr ends up        *)
(* non-positive, whichever counter moved.                                  *)
CrossedUp(c, e)   == Total(c) <= 0 /\ Total(e) > 0
CrossedDown(c, e) == "kInI" \in c.f /\ e.nr <= 0

(* AddExplicit and SubExplicit move the message-support bit at most once,  *)
(* and C_nr with it.                                                       *)
AddExplicit(c) ==
    IF "kExplicit" \in c.f
    THEN c
    ELSE FoldAt([c EXCEPT !.f = @ \cup {"kExplicit"}], "kNonRecursive", 1)
SubExplicit(c) ==
    IF "kExplicit" \in c.f
    THEN FoldAt([c EXCEPT !.f = @ \ {"kExplicit"}], "kNonRecursive", -1)
    ELSE c

-----------------------------------------------------------------------------
(* Claims.  A queue entry records a crossing at fold time; the claim tests *)
(* the crossing condition again, and drops an entry that a later fold of   *)
(* the same batch has cancelled.                                           *)

CanClaimDelNoDedup(c) == c.nr <= 0
CanClaimDelNoGate(c) == "kDel" \notin c.f
CanClaimDel(c) == "kDel" \notin c.f /\ c.nr <= 0
CanClaimAddNoGate(c) == "kAdd" \notin c.f
CanClaimAdd(c) == "kAdd" \notin c.f /\ Total(c) > 0

ClaimDel(c) == [Touch(c) EXCEPT !.f = @ \cup {"kDel", "kDelNow"}]
ClaimAdd(c) == [Touch(c) EXCEPT !.f = @ \cup {"kAdd", "kAddNow"}]

RetireDel(c) == [c EXCEPT !.f = @ \ {"kDelNow"}]
RetireAdd(c) == [c EXCEPT !.f = @ \ {"kAddNow"}]

-----------------------------------------------------------------------------
(* The end of a batch, for one touched row: presence is counted, kInI is   *)
(* sealed to it, and the scratch flags go.                                 *)
CommitRowByNr(c) ==
    [c EXCEPT !.f = (@ \ (ScratchFlags \cup {"kInI"}))
                    \cup (IF c.nr > 0 THEN {"kInI"} ELSE {})]
CommitRow(c) ==
    [c EXCEPT !.f = (@ \ (ScratchFlags \cup {"kInI"}))
                    \cup (IF Total(c) > 0 THEN {"kInI"} ELSE {})]

(* What DebugValidateCounts asserts of every row after Commit. *)
Sealed(c) ==
    /\ c.nr >= 0 /\ c.r >= 0
    /\ c.f \cap ScratchFlags = {}
    /\ "kInI" \in c.f <=> Total(c) > 0
    /\ "kExplicit" \in c.f => c.nr >= 1
=============================================================================
