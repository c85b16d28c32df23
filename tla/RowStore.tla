------------------------------- MODULE RowStore -------------------------------
(***************************************************************************)
(* The storage of a differential table: the append-only row log with its   *)
(* hash set of ids (RowStore), the side arrays that move with the rows, an *)
(* index that chains the rows of a key (Index), and the compaction at the  *)
(* epoch boundary that renumbers every id and has generated code rebuild   *)
(* the index.  Of a row's counters only liveness is kept.  Row ids are the *)
(* source's plus one.                                                      *)
(***************************************************************************)
EXTENDS OpenAddressing, Functions

CONSTANTS
    Row, Key,
    KeyOf,           \* the index's key projection
    HashOf,          \* Row::Hash
    KeyHash,         \* Key::Hash
    CompactFloor     \* dead rows that justify a compaction; 4096 in the source

ASSUME RowStoreParameters ==
    /\ \A x \in Row : KeyOf[x] \in Key /\ HashOf[x] \in Nat
    /\ \A k \in Key : KeyHash[k] \in Nat
    /\ CompactFloor \in Nat

VARIABLES
    rows,       \* the log
    alive,      \* the side array: Total > 0, by row id
    slots,      \* the hash set of row ids
    islots,     \* the slots of the index: used, key and head of the chain
    next,       \* the chains of the index, by row id
    numKeys

vars == <<rows, alive, slots, islots, next, numKeys>>

FreeSlot == [used |-> FALSE, key |-> NoRow, head |-> NoRow]

Init ==
    /\ rows = <<>> /\ alive = <<>>
    /\ slots = EmptySlots(0, NoRow)
    /\ islots = EmptySlots(0, FreeSlot)
    /\ next = <<>>
    /\ numKeys = 0

-----------------------------------------------------------------------------
(* RowStore. *)

FindStops(x) ==
    {i \in DOMAIN slots : slots[i] = NoRow \/ rows[slots[i]] = x}

Find(x) ==
    IF Capacity(slots) = 0 THEN NoRow
    ELSE slots[Probe(Capacity(slots), HashOf[x], FindStops(x))]

Hashes(log) == [i \in DOMAIN log |-> HashOf[log[i]]]

InsertSlot(id, hash) ==
    IF AtLoad(Len(rows'), Capacity(slots))
    THEN slots' = LinkAll(Doubled(Capacity(slots)), Hashes(rows'))
    ELSE slots' = LinkId(slots, id, hash)

-----------------------------------------------------------------------------
(* Index. *)

(* Rehash moves the used slots, in slot order. *)
MoveSlot(cap, new, slot) ==
    [new EXCEPT ![Probe(cap, KeyHash[slot.key], {j \in DOMAIN new : ~new[j].used})] = slot]

IndexRehashed(old) ==
    LET cap == Doubled(Capacity(old))
        moved[n \in 0..Capacity(old)] ==
            IF n = 0 THEN EmptySlots(cap, FreeSlot)
            ELSE IF old[n - 1].used THEN MoveSlot(cap, moved[n - 1], old[n - 1])
            ELSE moved[n - 1]
    IN  moved[Capacity(old)]

KeyStops(islot, k) ==
    {i \in DOMAIN islot : ~islot[i].used \/ islot[i].key = k}

(* The state of an index, and Add(key, id): chain id before the others. *)
IndexState == [slots |-> islots, next |-> next, numKeys |-> numKeys]

IndexAdd(ix, key, id) ==
    LET old  == IF AtLoad(ix.numKeys, Capacity(ix.slots))
                THEN IndexRehashed(ix.slots) ELSE ix.slots
        at   == Probe(Capacity(old), KeyHash[key], KeyStops(old, key))
        head == IF old[at].used THEN old[at].head ELSE NoRow
    IN  [slots   |-> [old EXCEPT ![at] = [used |-> TRUE, key |-> key,
                                          head |-> id]],
         next    |-> [i \in 1..id |->
                         IF i = id THEN head
                         ELSE IF i <= Len(ix.next) THEN ix.next[i] ELSE NoRow],
         numKeys |-> IF old[at].used THEN ix.numKeys ELSE ix.numKeys + 1]

IndexClearKeepsUsed(ix) ==
    [slots |-> [i \in DOMAIN ix.slots |-> [ix.slots[i] EXCEPT !.head = NoRow]],
     next |-> <<>>, numKeys |-> 0]
IndexClear(ix) ==
    [slots |-> EmptySlots(Capacity(ix.slots), FreeSlot), next |-> <<>>,
     numKeys |-> 0]

SetIndex(ix) == islots' = ix.slots /\ next' = ix.next /\ numKeys' = ix.numKeys

First(k) ==
    IF Capacity(islots) = 0 THEN NoRow
    ELSE LET s == islots[Probe(Capacity(islots), KeyHash[k],
                               KeyStops(islots, k))]
         IN  IF s.used THEN s.head ELSE NoRow

(* The rows a walk of a chain visits. *)
Chain(id) ==
    LET walk[i \in 0..Len(next)] == IF i = NoRow THEN {}
                                    ELSE {i} \cup walk[next[i]]
    IN  walk[id]

-----------------------------------------------------------------------------
(* A counter fold on a stored row: its liveness may change. *)
FoldStored(x, live) ==
    /\ Find(x) # NoRow
    /\ alive' = [alive EXCEPT ![Find(x)] = live]
    /\ UNCHANGED <<rows, slots, islots, next, numKeys>>

(* A counter fold on a new row, of either sign: FindOrAdd, GrowTo, and the *)
(* index adds generated for every fresh log entry.                         *)
FoldNew(x, live) ==
    /\ Find(x) = NoRow
    /\ rows' = Append(rows, x)
    /\ alive' = Append(alive, live)
    /\ InsertSlot(Len(rows'), HashOf[x])
    /\ SetIndex(IndexAdd(IndexState, KeyOf[x], Len(rows')))

Dead == {i \in DOMAIN rows : ~alive[i]}

(* A set of ids in their order. *)
Ascending(S) ==
    [k \in 1..Cardinality(S) |->
        CHOOSE x \in S : Cardinality({y \in S : y <= x}) = k]

NeedsCompaction ==
    LET n == Len(rows)
        dead == Cardinality(Dead)
    IN  /\ dead # 0
        /\ \/ dead >= n - dead /\ dead >= CompactFloor
           \/ n >= (Capacity(slots) * 7) \div 8 /\ dead >= n \div 2

(* CompactDead and the rebuild walk of the commit sweep. *)
MovedUnlocked(kept) == [i \in 1..Len(kept) |-> alive[i]]
Moved(kept) == [i \in 1..Len(kept) |-> alive[kept[i]]]

Relinked(log) == LinkAll(Capacity(slots), Hashes(log))

Rebuilt(log) ==
    LET built[id \in 0..Len(log)] ==
            IF id = 0 THEN IndexClear(IndexState)
            ELSE IndexAdd(built[id - 1], KeyOf[log[id]], id)
    IN  built[Len(log)]

CompactDead ==
    /\ NeedsCompaction
    /\ LET kept == Ascending(DOMAIN rows \ Dead)
       IN  /\ rows' = [i \in 1..Len(kept) |-> rows[kept[i]]]
           /\ alive' = Moved(kept)
    /\ slots' = Relinked(rows')
    /\ SetIndex(Rebuilt(rows'))

Next ==
    \/ \E x \in Row, live \in BOOLEAN : FoldStored(x, live) \/ FoldNew(x, live)
    \/ CompactDead

Spec == Init /\ [][Next]_vars

-----------------------------------------------------------------------------
(* Every lookup of a row, stored or not, ends, and finds the one log entry *)
(* of that row or nothing: across growth at the load limit, collisions     *)
(* that wrap around the array, and renumbering.                            *)
FindExact ==
    \A x \in Row :
        /\ Capacity(slots) > 0 => FindStops(x) # {}
        /\ {i \in DOMAIN rows : rows[i] = x} = {Find(x)} \ {NoRow}

(* Every lookup of a key ends, and its chain visits exactly the rows of    *)
(* that key, dead ones included: readers filter liveness, so an entry that *)
(* is missing, stale or under another key is a lost or a spurious tuple.   *)
IndexExact ==
    /\ \A i \in DOMAIN next : next[i] < i
    /\ \A k \in Key :
        /\ Capacity(islots) > 0 => KeyStops(islots, k) # {}
        /\ Chain(First(k)) = {i \in DOMAIN rows : KeyOf[rows[i]] = k}

(* Every lookup, of a row and of a key, is exact.                          *)
LookupsExact == FindExact /\ IndexExact

(* A full scan enumerates the live rows in the order of their arrival, and *)
(* no step disturbs that for any row but the one it folds: compaction,     *)
(* which moves rows and side arrays in place, is invisible.                *)
LiveScan == LET ids == Ascending(DOMAIN rows \ Dead)
            IN  [i \in 1..Len(ids) |-> rows[ids[i]]]
ScanStable == [][\E x \in Row : LET others(s) == SelectSeq(s, LAMBDA y : y # x)
                                IN  others(LiveScan') = others(LiveScan)]_vars
=============================================================================
