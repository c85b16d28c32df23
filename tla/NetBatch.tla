------------------------------- MODULE NetBatch -------------------------------
(***************************************************************************)
(* NetBatch (include/drlojekyll/Runtime/Vec.h): a message's explicit adds  *)
(* and removes of one batch are folded, one row at a time, into the        *)
(* distinct rows and the vectors each was seen in, and both vectors are    *)
(* then rewritten from those.                                              *)
(***************************************************************************)
EXTENDS Integers, Sequences, SequencesExt, FiniteSets

CONSTANTS
    BatchRow,
    MaxOps      \* bound on the length of each of the two vectors

VARIABLES
    adds, removes,     \* the two vectors
    distinct, flags,   \* the rows seen, and for each the bits set
    scan,              \* the position the scan is at
    stage,             \* "adds" and "removes": the scans; "done"
    gaveAdds, gaveRemoves   \* the arguments of the call (history)

netVars == <<adds, removes, distinct, flags, scan, stage, gaveAdds, gaveRemoves>>

Vectors == UNION {[1..n -> BatchRow] : n \in 0..MaxOps}

(* Bit 0: in `adds`; bit 1: in `removes`. *)
InAdds == 0
InRemoves == 1

NetInit ==
    /\ adds \in Vectors /\ removes \in Vectors
    /\ distinct = <<>> /\ flags = <<>>
    /\ scan = 1
    /\ stage = "adds"
    /\ gaveAdds = adds /\ gaveRemoves = removes

(* The fold of one row: set the bit where the row was seen, or append. *)
SetBitOverwrite(seen, bit) == {bit}
SetBit(seen, bit) == seen \cup {bit}

Fold(row, bit) ==
    \/ \E i \in DOMAIN distinct :
          /\ distinct[i] = row
          /\ flags' = [flags EXCEPT ![i] = SetBit(@, bit)]
          /\ UNCHANGED distinct
    \/ /\ row \notin ToSet(distinct)
       /\ distinct' = Append(distinct, row)
       /\ flags' = Append(flags, {bit})

FoldAdds ==
    /\ stage = "adds"
    /\ IF scan <= Len(adds)
       THEN Fold(adds[scan], InAdds) /\ scan' = scan + 1 /\ UNCHANGED stage
       ELSE stage' = "removes" /\ scan' = 1 /\ UNCHANGED <<distinct, flags>>
    /\ UNCHANGED <<adds, removes, gaveAdds, gaveRemoves>>

FoldRemoves ==
    /\ stage = "removes"
    /\ scan <= Len(removes)
    /\ Fold(removes[scan], InRemoves)
    /\ scan' = scan + 1
    /\ UNCHANGED <<adds, removes, stage, gaveAdds, gaveRemoves>>

(* The rows whose bits are exactly `bits`, in order of first appearance. *)
SelectByFlags(bits) ==
    LET kept[n \in 0..Len(distinct)] ==
            IF n = 0 THEN <<>>
            ELSE IF flags[n] = bits THEN Append(kept[n - 1], distinct[n])
            ELSE kept[n - 1]
    IN  kept[Len(distinct)]

Rewrite ==
    /\ stage = "removes"
    /\ scan > Len(removes)
    /\ adds' = SelectByFlags({InAdds})
    /\ removes' = SelectByFlags({InRemoves})
    /\ stage' = "done"
    /\ UNCHANGED <<distinct, flags, scan, gaveAdds, gaveRemoves>>

NetNext == FoldAdds \/ FoldRemoves \/ Rewrite

NetSpec == NetInit /\ [][NetNext]_netVars

-----------------------------------------------------------------------------
(* Set semantics with annihilation, as the comment on the rewrite defines  *)
(* the contract: a row that was asserted and retracted in the batch, in    *)
(* any multiplicities, is in neither vector; every other row is in its     *)
(* vector once.  In particular the ingest fold that follows never sees a   *)
(* row twice or a row in both.                                             *)
SetSemantics ==
    stage = "done" =>
        /\ ToSet(adds) = ToSet(gaveAdds) \ ToSet(gaveRemoves)
        /\ ToSet(removes) = ToSet(gaveRemoves) \ ToSet(gaveAdds)
        /\ Len(adds) = Cardinality(ToSet(adds))
        /\ Len(removes) = Cardinality(ToSet(removes))
=============================================================================
