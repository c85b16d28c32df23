----------------------------- MODULE MCContainers -----------------------------
(***************************************************************************)
(* The containers of the runtime that hold no differential state of their  *)
(* own, one of which runs in each behaviour: the row log with its hash set *)
(* and index, the store of an aggregate's groups, and the vectors of a     *)
(* batch.  The others stay as they start.                                  *)
(***************************************************************************)
EXTENDS RowStore, NetBatch, Aggregate

-----------------------------------------------------------------------------
(* Five rows of three keys, with hashes that collide and that wrap around  *)
(* the end of a slot array.  The store starts empty, or as it is after     *)
(* thirteen other rows, each with a key of its own, came and died: the     *)
(* next ones pass the load limit of the log and then of the index.         *)
Rows == {<<14, 1>>, <<14, 2>>, <<15, 1>>, <<15, 2>>, <<16, 1>>}
Fillers == [i \in 1..13 |-> <<i, 0>>]
RowsAndFillers == Rows \cup ToSet(Fillers)
Keys == 1..17

KeyHashes == [k \in Keys |-> CASE k \in {14, 17} -> 15 [] k = 15 -> 31
                               [] k = 16 -> 0 [] OTHER -> 13 + k \div 3]
RowKey == [x \in RowsAndFillers |-> x[1]]
RowHash == [x \in RowsAndFillers |-> KeyHashes[x[1]]]

PreloadedIndex ==
    FoldLeftDomain(LAMBDA ix, id : IndexAdd(ix, Fillers[id][1], id),
                   [slots |-> <<>>, next |-> <<>>, numKeys |-> 0], Fillers)
Preloaded ==
    /\ rows = Fillers
    /\ alive = [i \in 1..13 |-> FALSE]
    /\ slots = LinkAll(InitialCapacity, Hashes(Fillers))
    /\ islots = PreloadedIndex.slots
    /\ next = PreloadedIndex.next
    /\ numKeys = PreloadedIndex.numKeys

NextRows ==
    \/ \E x \in Rows, live \in BOOLEAN : FoldStored(x, live) \/ FoldNew(x, live)
    \/ CompactDead

-----------------------------------------------------------------------------
(* A group with values that cancel and one value twice, summed, and one    *)
(* whose maximum is taken, both of them gated in another run.  Every row   *)
(* is <<group, value, other column>>.                                      *)
GroupRows == {<<"g", 1, 1>>, <<"g", 1, 2>>, <<"g", -1, 1>>,
              <<"h", 0, 1>>, <<"h", 2, 1>>, <<"h", 2, 2>>}
RowGroup == [x \in GroupRows |-> x[1]]
RowValue == [x \in GroupRows |-> x[2]]
SumAndMax == [g |-> "sum", h |-> "max"]
Gated == [g |-> "max_above", h |-> "max_above"]
GroupThreshold == [g |-> 1, h |-> 1]
LeastInt == -9

-----------------------------------------------------------------------------
VARIABLE part

groupVars == <<present, neg, pos, final, store, touched, head, delQ, addQ, netRem, netAdd, phase>>
batchVars == <<adds, removes, distinct, flags, scan, stage, gaveAdds, gaveRemoves>>

InitParts ==
    /\ part \in {"rows", "groups", "batch"}
    /\ Init \/ (part = "rows" /\ Preloaded)
    /\ AggInit
    /\ NetInit /\ (part # "batch" => adds = <<>> /\ removes = <<>>)

NextParts ==
    \/ part = "rows" /\ NextRows /\ UNCHANGED <<part, groupVars, batchVars>>
    \/ part = "groups" /\ AggNext /\ UNCHANGED <<part, vars, batchVars>>
    \/ part = "batch" /\ NetNext /\ UNCHANGED <<part, vars, groupVars>>

SpecParts == InitParts /\ [][NextParts]_<<part, vars, groupVars, batchVars>>

(* The groups alone. *)
SpecGroups == part = "groups" /\ SpecParts
=============================================================================
