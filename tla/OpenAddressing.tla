---------------------------- MODULE OpenAddressing ----------------------------
(***************************************************************************)
(* The linear probing that RowStore, Index (include/drlojekyll/Runtime/    *)
(* Table.h) and StateCellStore share.  A slot array is a function from     *)
(* 0..capacity-1; the probe loops have no exit but the slot they look for, *)
(* so a loop is described by the slots that stop it, and it runs for ever  *)
(* when there are none.                                                    *)
(***************************************************************************)
EXTENDS Integers, Sequences, SequencesExt, FiniteSetsExt

CONSTANT InitialCapacity    \* the first slot array; 64 in the source

(* What keeps a slot of an index free, whose load is tested before a key   *)
(* comes.                                                                  *)
ASSUME CapacityAssumption == InitialCapacity \in Nat /\ InitialCapacity > 8

NoRow == 0      \* row ids are positions of the log, from 1

Capacity(slots) == Cardinality(DOMAIN slots)

(* The slots a probe from hash passes: from its own on, around the end.    *)
Passed(cap, hash, d) ==
    LET i == (hash % cap) + d
    IN  IF i < cap THEN i ELSE i - cap

(* The slot where it ends: of those that stop the loop, the first.         *)
Probe(cap, hash, stops) ==
    Passed(cap, hash,
           CHOOSE d \in 0..(cap - 1) :
               /\ Passed(cap, hash, d) \in stops
               /\ \A e \in 0..(d - 1) : Passed(cap, hash, e) \notin stops)

(* The growth test, at which the slot array doubles. *)
AtLoadOverfull(n, cap) == cap = 0 \/ n > cap
AtLoad(n, cap) == n + n \div 8 >= cap

Doubled(cap) == IF cap = 0 THEN InitialCapacity ELSE 2 * cap

EmptySlots(cap, empty) == [i \in 0..(cap - 1) |-> empty]

(* Ids linked into a slot array in ascending order, each into the first    *)
(* empty slot of its probe sequence.                                       *)
LinkId(slots, id, hash) ==
    [slots EXCEPT ![Probe(Capacity(slots), hash,
                          {i \in DOMAIN slots : slots[i] = NoRow})] = id]

LinkAll(cap, hashes) ==
    LET linked[id \in 0..Len(hashes)] ==
            IF id = 0 THEN EmptySlots(cap, NoRow)
            ELSE LinkId(linked[id - 1], id, hashes[id])
    IN  linked[Len(hashes)]
=============================================================================
