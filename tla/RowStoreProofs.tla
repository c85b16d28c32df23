----------------------------- MODULE RowStoreProofs -----------------------------
(***************************************************************************)
(* Every lookup of the row log's hash set and of an index is exact, for    *)
(* any rows, keys and hashes: every id is in one slot and every used slot  *)
(* holds a key of its own, a probe for it passes taken slots only, some    *)
(* slot is free, and a chain runs through the rows of its key from the     *)
(* latest on.                                                              *)
(***************************************************************************)
EXTENDS RowStore, FiniteSetTheorems, TLAPS

(* What a slot holds is in place when a probe for it passes taken slots.   *)
InPlace(cap, hash, s, taken) ==
    \E d \in 0..(cap - 1) : /\ Passed(cap, hash, d) = s
                            /\ \A e \in 0..(d - 1) : Passed(cap, hash, e) \in taken

Taken(sl) == {s \in DOMAIN sl : sl[s] # NoRow}

(* A slot array with the ids up to n, once each and in place.              *)
HoldsIds(sl, cap, n, hashes) ==
    /\ sl \in [0..(cap - 1) -> 0..n]
    /\ \A i \in 1..n : \E s \in 0..(cap - 1) : sl[s] = i
    /\ \A s, t \in Taken(sl) : sl[s] = sl[t] => s = t
    /\ \A s \in Taken(sl) : InPlace(cap, hashes[sl[s]], s, Taken(sl))
    /\ Cardinality(Taken(sl)) = n

RowsOk ==
    /\ rows \in Seq(Row) /\ alive \in [1..Len(rows) -> BOOLEAN]
    /\ \A i, j \in 1..Len(rows) : rows[i] = rows[j] => i = j
    /\ \E cap \in Nat :
          /\ HoldsIds(slots, cap, Len(rows), Hashes(rows))
          /\ cap = 0 \/ (cap > 8 /\ Len(rows) + Len(rows) \div 8 < cap)

ISlot == [used : BOOLEAN, key : Key \cup {NoRow}, head : Nat]
Used(sl) == {s \in DOMAIN sl : sl[s].used}

(* A slot array of an index: a used slot for a key, in place.              *)
HoldsKeys(sl, cap) ==
    /\ sl \in [0..(cap - 1) -> ISlot]
    /\ \A s \in Used(sl) : sl[s].key \in Key
    /\ \A s, t \in Used(sl) : sl[s].key = sl[t].key => s = t
    /\ \A s \in Used(sl) : InPlace(cap, KeyHash[sl[s].key], s, Used(sl))

(* The latest of the first n rows of the log that has the key, if any.     *)
OfKey(log, n, k) == {j \in 1..n : KeyOf[log[j]] = k}
Latest(i, log, n, k) ==
    \/ i = NoRow /\ OfKey(log, n, k) = {}
    \/ i \in OfKey(log, n, k) /\ \A j \in OfKey(log, n, k) : j <= i

(* The chains go from the latest row of a key to the one before.           *)
Chained(ix, log, n) ==
    /\ ix.next \in [1..n -> Nat]
    /\ \A i \in 1..n : Latest(ix.next[i], log, i - 1, KeyOf[log[i]])
    /\ \A s \in Used(ix.slots) :
          ix.slots[s].head # NoRow /\ Latest(ix.slots[s].head, log, n, ix.slots[s].key)
    /\ \A i \in 1..n : \E s \in Used(ix.slots) : ix.slots[s].key = KeyOf[log[i]]

IndexOk(ix, log, n) ==
    /\ \E cap \in Nat :
          /\ HoldsKeys(ix.slots, cap)
          /\ ix.numKeys = Cardinality(Used(ix.slots))
          /\ cap = 0 \/ (cap > 8 /\ ix.numKeys < cap)
    /\ Chained(ix, log, n)

Inv == RowsOk /\ IndexOk(IndexState, rows, Len(rows))

-----------------------------------------------------------------------------
(* A set of numbers that has 0, and with a number the next one, has all.   *)
LEMMA Induct ==
    ASSUME NEW N \in Nat, NEW G, 0 \in G, \A n \in 0..(N - 1) : n \in G => n + 1 \in G
    PROVE  \A n \in 0..N : n \in G
<1> DEFINE Bad == {n \in 0..N : n \notin G}
<1>1. ASSUME Bad # {} PROVE FALSE
  <2>1. Bad \subseteq Nat
    OBVIOUS
  <2> HIDE DEF Bad
  <2>2. PICK m \in Bad : \A j \in Bad : ~(<<j, m>> \in OpToRel(<, Nat))
    BY <1>1, <2>1, NatLessThanWellFounded, WFMin
  <2>3. \A j \in Bad : ~(j < m)
    BY <2>1, <2>2 DEF OpToRel
  <2>4. m \in 0..N /\ m \notin G /\ m # 0
    BY DEF Bad
  <2>5. m - 1 \in 0..(N - 1) /\ m - 1 < m /\ m - 1 + 1 = m
    BY <2>4
  <2>6. m - 1 \notin Bad
    BY <2>3, <2>5
  <2>7. m - 1 \in G
    BY <2>5, <2>6 DEF Bad
  <2> QED
    BY <2>4, <2>5, <2>7
<1> QED
  BY <1>1

(* A nonempty set of numbers has a least one.                              *)
LEMMA LeastOf ==
    ASSUME NEW B \in SUBSET Nat, B # {}
    PROVE  \E m \in B : \A j \in B : m <= j
<1>1. PICK m \in B : \A j \in B : ~(<<j, m>> \in OpToRel(<, Nat))
  BY NatLessThanWellFounded, WFMin
<1>2. \A j \in B : ~(j < m)
  BY <1>1 DEF OpToRel
<1> QED
  BY <1>2

(* An array of cap slots has cap slots.                                    *)
LEMMA SlotCount ==
    ASSUME NEW cap \in Nat
    PROVE  IsFiniteSet(0..(cap - 1)) /\ Cardinality(0..(cap - 1)) = cap
BY FS_Interval

(* They are its capacity.                                                  *)
LEMMA CapacityIs ==
    ASSUME NEW cap \in Nat, NEW sl, DOMAIN sl = 0..(cap - 1)
    PROVE  Capacity(sl) = cap
BY SlotCount DEF Capacity

(* The probe passes every slot, each once.                                 *)
LEMMA PassedFacts ==
    ASSUME NEW cap \in Nat \ {0}, NEW hash \in Nat
    PROVE  /\ \A d \in 0..(cap - 1) : Passed(cap, hash, d) \in 0..(cap - 1)
           /\ \A d, e \in 0..(cap - 1) : Passed(cap, hash, d) = Passed(cap, hash, e) => d = e
           /\ \A s \in 0..(cap - 1) : \E d \in 0..(cap - 1) : Passed(cap, hash, d) = s
<1> DEFINE h == hash % cap
<1>1. h \in 0..(cap - 1)
  OBVIOUS
<1>2. \A d \in 0..cap : Passed(cap, hash, d) = IF h + d < cap THEN h + d ELSE h + d - cap
  BY DEF Passed
<1> HIDE DEF h
<1>3. \A d \in 0..(cap - 1) : Passed(cap, hash, d) \in 0..(cap - 1)
  BY <1>1, <1>2
<1>4. ASSUME NEW d \in 0..(cap - 1), NEW e \in 0..(cap - 1),
             Passed(cap, hash, d) = Passed(cap, hash, e)
      PROVE  d = e
  BY <1>1, <1>2, <1>4
<1>5. ASSUME NEW s \in 0..(cap - 1)
      PROVE  \E d \in 0..(cap - 1) : Passed(cap, hash, d) = s
  <2>1. CASE h <= s
    <3>1. s - h \in 0..(cap - 1) /\ h + (s - h) = s /\ s < cap
      BY <1>1, <2>1
    <3> QED
      BY <1>2, <3>1
  <2>2. CASE s < h
    <3> DEFINE d == s + cap - h
    <3>1. d \in 0..(cap - 1) /\ d \in 0..cap /\ h + d = s + cap
      BY <1>1, <2>2
    <3> HIDE DEF d
    <3>2. Passed(cap, hash, d) = IF h + d < cap THEN h + d ELSE h + d - cap
      BY <1>2, <3>1
    <3>3. Passed(cap, hash, d) = s
      BY <1>1, <3>1, <3>2
    <3> QED
      BY <3>1, <3>3
  <2> QED
    BY <1>1, <2>1, <2>2
<1> QED
  BY <1>3, <1>4, <1>5

(* A probe ends, if some slot stops it, in one that does and past slots    *)
(* that do not.                                                            *)
LEMMA ProbeEnds ==
    ASSUME NEW cap \in Nat \ {0}, NEW hash \in Nat,
           NEW stops \in SUBSET (0..(cap - 1)), stops # {}
    PROVE  \E d \in 0..(cap - 1) :
              /\ Probe(cap, hash, stops) = Passed(cap, hash, d)
              /\ Passed(cap, hash, d) \in stops
              /\ \A e \in 0..(d - 1) : Passed(cap, hash, e) \notin stops
<1> DEFINE Stops(d) == /\ Passed(cap, hash, d) \in stops
                       /\ \A e \in 0..(d - 1) : Passed(cap, hash, e) \notin stops
           B == {d \in 0..(cap - 1) : Passed(cap, hash, d) \in stops}
<1>1. B \in SUBSET Nat /\ B # {}
  <2>1. PICK s \in stops : TRUE
    OBVIOUS
  <2>2. \E d \in 0..(cap - 1) : Passed(cap, hash, d) = s
    BY PassedFacts
  <2> QED
    BY <2>2
<1>2. PICK m \in B : \A j \in B : m <= j
  <2> HIDE DEF B
  <2> QED
    BY <1>1, LeastOf
<1>3. m \in 0..(cap - 1) /\ Passed(cap, hash, m) \in stops
  OBVIOUS
<1>4. \A e \in 0..(m - 1) : Passed(cap, hash, e) \notin stops
  <2> TAKE e \in 0..(m - 1)
  <2>1. e \in 0..(cap - 1) /\ ~(m <= e)
    BY <1>3
  <2> QED
    BY <1>2, <2>1
<1>5. \E d \in 0..(cap - 1) : Stops(d)
  BY <1>3, <1>4
<1>6. Probe(cap, hash, stops) = Passed(cap, hash, CHOOSE d \in 0..(cap - 1) : Stops(d))
  BY DEF Probe
<1> HIDE DEF Stops
<1>7. PICK d \in 0..(cap - 1) : Stops(d) /\ Probe(cap, hash, stops) = Passed(cap, hash, d)
  BY <1>5, <1>6
<1> QED
  BY <1>7 DEF Stops

(* It ends at what is in place, if no other slot that is taken stops it.   *)
LEMMA ProbeFinds ==
    ASSUME NEW cap \in Nat \ {0}, NEW hash \in Nat,
           NEW stops \in SUBSET (0..(cap - 1)), NEW s \in stops,
           NEW taken, InPlace(cap, hash, s, taken), \A t \in taken : t # s => t \notin stops
    PROVE  Probe(cap, hash, stops) = s
<1>1. PICK d \in 0..(cap - 1) : /\ Passed(cap, hash, d) = s
                                /\ \A e \in 0..(d - 1) : Passed(cap, hash, e) \in taken
  BY DEF InPlace
<1>2. \A e \in 0..(d - 1) : Passed(cap, hash, e) \notin stops
  <2> TAKE e \in 0..(d - 1)
  <2>1. e \in 0..(cap - 1) /\ e # d
    BY <1>1
  <2>2. Passed(cap, hash, e) # s
    BY <1>1, <2>1, PassedFacts
  <2> QED
    BY <1>1, <2>2
<1>3. PICK c \in 0..(cap - 1) : /\ Probe(cap, hash, stops) = Passed(cap, hash, c)
                                /\ Passed(cap, hash, c) \in stops
                                /\ \A e \in 0..(c - 1) : Passed(cap, hash, e) \notin stops
  BY ProbeEnds
<1>4. ~(c < d) /\ ~(d < c)
  <2>1. c < d => c \in 0..(d - 1)
    BY <1>1, <1>3
  <2>2. d < c => d \in 0..(c - 1)
    BY <1>1, <1>3
  <2> QED
    BY <1>1, <1>2, <1>3, <2>1, <2>2
<1>5. c = d
  BY <1>1, <1>3, <1>4
<1> QED
  BY <1>1, <1>3, <1>5

(* A probe for a free slot ends in one, where what comes is in place.      *)
LEMMA ProbeFree ==
    ASSUME NEW cap \in Nat, NEW hash \in Nat, NEW taken \in SUBSET (0..(cap - 1)),
           Cardinality(taken) < cap
    PROVE  LET free == (0..(cap - 1)) \ taken
               p    == Probe(cap, hash, free)
           IN  /\ free # {} /\ p \in free
               /\ InPlace(cap, hash, p, taken)
               /\ IsFiniteSet(taken) /\ Cardinality(taken) \in Nat
               /\ Cardinality(taken \cup {p}) = Cardinality(taken) + 1
<1> DEFINE free == (0..(cap - 1)) \ taken
           p    == Probe(cap, hash, free)
<1>1. IsFiniteSet(0..(cap - 1)) /\ Cardinality(0..(cap - 1)) = cap
  BY SlotCount
<1>2. IsFiniteSet(taken) /\ Cardinality(taken) \in Nat
  BY <1>1, FS_Subset, FS_CardinalityType
<1>3. free # {} /\ free \in SUBSET (0..(cap - 1)) /\ cap \in Nat \ {0}
  <2>1. taken # 0..(cap - 1)
    BY <1>1
  <2>2. free # {}
    BY <2>1
  <2>3. cap # 0
    BY <1>2
  <2> QED
    BY <2>2, <2>3
<1> HIDE DEF free
<1>4. PICK d \in 0..(cap - 1) : /\ p = Passed(cap, hash, d) /\ Passed(cap, hash, d) \in free
                                /\ \A e \in 0..(d - 1) : Passed(cap, hash, e) \notin free
  BY <1>3, ProbeEnds
<1>5. \A e \in 0..(d - 1) : Passed(cap, hash, e) \in taken
  <2> TAKE e \in 0..(d - 1)
  <2>1. e \in 0..(cap - 1)
    BY <1>4
  <2>2. Passed(cap, hash, e) \in 0..(cap - 1)
    BY <1>3, <2>1, PassedFacts
  <2> QED
    BY <1>4, <2>2 DEF free
<1>6. InPlace(cap, hash, p, taken)
  BY <1>4, <1>5 DEF InPlace
<1>7. p \notin taken /\ p \in free
  BY <1>4 DEF free
<1>8. Cardinality(taken \cup {p}) = Cardinality(taken) + 1
  BY <1>2, <1>7, FS_AddElement
<1> QED
  BY <1>2, <1>3, <1>6, <1>7, <1>8 DEF free

(* What is in place stays there while slots are taken.                     *)
LEMMA StaysInPlace ==
    ASSUME NEW cap, NEW hash, NEW s, NEW taken, NEW more,
           taken \subseteq more, InPlace(cap, hash, s, taken)
    PROVE  InPlace(cap, hash, s, more)
BY DEF InPlace

-----------------------------------------------------------------------------
(* The hash set. *)

(* An id linked into a slot array with a slot free.                        *)
LEMMA LinkKeeps ==
    ASSUME NEW cap \in Nat, NEW n \in Nat, n < cap, NEW hashes,
           \A i \in 1..(n + 1) : hashes[i] \in Nat,
           NEW sl, HoldsIds(sl, cap, n, hashes)
    PROVE  HoldsIds(LinkId(sl, n + 1, hashes[n + 1]), cap, n + 1, hashes)
<1> DEFINE free == {i \in DOMAIN sl : sl[i] = NoRow}
           p    == Probe(Capacity(sl), hashes[n + 1], free)
           new  == [sl EXCEPT ![p] = n + 1]
<1>1. /\ sl \in [0..(cap - 1) -> 0..n]
      /\ \A i \in 1..n : \E s \in 0..(cap - 1) : sl[s] = i
      /\ \A s, t \in Taken(sl) : sl[s] = sl[t] => s = t
      /\ \A s \in Taken(sl) : InPlace(cap, hashes[sl[s]], s, Taken(sl))
      /\ Cardinality(Taken(sl)) = n
  BY DEF HoldsIds
<1>2. Capacity(sl) = cap
  BY <1>1, CapacityIs
<1>3. free = (0..(cap - 1)) \ Taken(sl) /\ Taken(sl) \in SUBSET (0..(cap - 1))
  BY <1>1 DEF Taken
<1>4. hashes[n + 1] \in Nat
  OBVIOUS
<1> DEFINE f == (0..(cap - 1)) \ Taken(sl)
           q == Probe(cap, hashes[n + 1], f)
<1>5. /\ q \in f /\ InPlace(cap, hashes[n + 1], q, Taken(sl))
      /\ Cardinality(Taken(sl) \cup {q}) = n + 1
  BY <1>1, <1>3, <1>4, ProbeFree
<1>6. p = q /\ LinkId(sl, n + 1, hashes[n + 1]) = new
  BY <1>2, <1>3 DEF LinkId
<1> HIDE DEF p, q
<1>7. /\ DOMAIN new = 0..(cap - 1) /\ p \in 0..(cap - 1) /\ sl[p] = 0
      /\ new[p] = n + 1 /\ \A s \in 0..(cap - 1) : s # p => new[s] = sl[s]
      /\ \A s \in 0..(cap - 1) : sl[s] \in 0..n
  BY <1>1, <1>5, <1>6 DEF Taken, NoRow
<1> HIDE DEF new
<1>8. Taken(new) = Taken(sl) \cup {p}
  BY <1>1, <1>7 DEF Taken, NoRow
<1>9. new \in [0..(cap - 1) -> 0..(n + 1)]
  <2>1. \A s \in 0..(cap - 1) : new[s] \in 0..(n + 1)
    BY <1>7
  <2>2. new = [s \in 0..(cap - 1) |-> new[s]]
    BY <1>1 DEF new
  <2> QED
    BY <2>1, <2>2
<1>10. ASSUME NEW i \in 1..(n + 1)
       PROVE  \E s \in 0..(cap - 1) : new[s] = i
  <2>1. CASE i = n + 1
    BY <1>7, <2>1
  <2>2. CASE i # n + 1
    <3>1. i \in 1..n /\ i # 0
      BY <2>2
    <3>2. PICK s \in 0..(cap - 1) : sl[s] = i
      BY <1>1, <3>1
    <3> QED
      BY <1>7, <3>1, <3>2
  <2> QED
    BY <2>1, <2>2
<1>11. ASSUME NEW s \in Taken(new), NEW t \in Taken(new), new[s] = new[t]
       PROVE  s = t
  <2>1. \A x \in Taken(sl) : x \in 0..(cap - 1) /\ x # p /\ new[x] = sl[x] /\ sl[x] # n + 1
    BY <1>1, <1>7 DEF Taken, NoRow
  <2> QED
    BY <1>1, <1>7, <1>8, <1>11, <2>1
<1>12. ASSUME NEW s \in Taken(new)
       PROVE  InPlace(cap, hashes[new[s]], s, Taken(new))
  <2>1. CASE s = p
    BY <1>5, <1>6, <1>7, <1>8, <2>1, StaysInPlace
  <2>2. CASE s # p
    <3>1. s \in Taken(sl) /\ new[s] = sl[s]
      BY <1>3, <1>7, <1>8, <2>2
    <3>2. InPlace(cap, hashes[sl[s]], s, Taken(sl))
      BY <1>1, <3>1
    <3> QED
      BY <1>8, <3>1, <3>2, StaysInPlace
  <2> QED
    BY <2>1, <2>2
<1>13. Cardinality(Taken(new)) = n + 1
  BY <1>5, <1>6, <1>8
<1>14. HoldsIds(new, cap, n + 1, hashes)
  BY <1>9, <1>10, <1>11, <1>12, <1>13 DEF HoldsIds
<1> QED
  BY <1>6, <1>14

(* The definition of LinkAll has a solution.                               *)
Linked(f, cap, m, hashes) ==
    f = [n \in 0..m |-> IF n = 0 THEN EmptySlots(cap, NoRow)
                        ELSE LinkId(f[n - 1], n, hashes[n])]

LEMMA LinkedExists ==
    ASSUME NEW cap, NEW N \in Nat, NEW hashes
    PROVE  \E f : Linked(f, cap, N, hashes)
<1> DEFINE Solves(f, m) == Linked(f, cap, m, hashes)
           G == {m \in Nat : \E f : Solves(f, m)}
<1>1. 0 \in G
  <2> DEFINE g == [n \in 0..0 |-> EmptySlots(cap, NoRow)]
  <2>1. Solves(g, 0)
    BY DEF Linked
  <2> QED
    BY <2>1
<1>2. ASSUME NEW m \in 0..(N - 1), m \in G
      PROVE  m + 1 \in G
  <2>1. PICK f : Solves(f, m)
    BY <1>2
  <2> DEFINE g == [n \in 0..(m + 1) |-> IF n = m + 1 THEN LinkId(f[m], m + 1, hashes[m + 1])
                                        ELSE f[n]]
  <2>2. \A n \in 0..m : n \in 0..(m + 1) /\ n # m + 1
    OBVIOUS
  <2>3. \A n \in 0..m : g[n] = f[n]
    BY <2>2
  <2>4. \A n \in 0..m : f[n] = IF n = 0 THEN EmptySlots(cap, NoRow)
                               ELSE LinkId(f[n - 1], n, hashes[n])
    BY <2>1 DEF Linked
  <2>5. g[m + 1] = LinkId(f[m], m + 1, hashes[m + 1])
    OBVIOUS
  <2>6. DOMAIN g = 0..(m + 1) /\ g = [n \in 0..(m + 1) |-> g[n]]
    OBVIOUS
  <2> HIDE DEF g
  <2>7. ASSUME NEW n \in 0..(m + 1)
        PROVE  g[n] = IF n = 0 THEN EmptySlots(cap, NoRow)
                      ELSE LinkId(g[n - 1], n, hashes[n])
    <3>1. CASE n = m + 1
      <4>1. n # 0 /\ n - 1 = m /\ m \in 0..m
        BY <3>1
      <4> QED
        BY <2>3, <2>5, <3>1, <4>1
    <3>2. CASE n # m + 1
      <4>1. n \in 0..m /\ (n # 0 => n - 1 \in 0..m)
        BY <3>2
      <4> QED
        BY <2>3, <2>4, <4>1
    <3> QED
      BY <3>1, <3>2
  <2>8. Solves(g, m + 1)
    BY <2>6, <2>7 DEF Linked
  <2> QED
    BY <2>8
<1>3. N \in G
  <2> HIDE DEF G
  <2> QED
    BY <1>1, <1>2, Induct
<1> QED
  BY <1>3

(* All ids linked into an empty array that has room.                       *)
LEMMA LinkAllHolds ==
    ASSUME NEW cap \in Nat, NEW hashes \in Seq(Nat), Len(hashes) = 0 \/ Len(hashes) < cap
    PROVE  HoldsIds(LinkAll(cap, hashes), cap, Len(hashes), hashes)
<1> DEFINE N == Len(hashes)
           f == CHOOSE g : Linked(g, cap, N, hashes)
<1>1. N \in Nat /\ \A i \in 1..N : hashes[i] \in Nat
  OBVIOUS
<1>2. Linked(f, cap, N, hashes)
  BY <1>1, LinkedExists
<1>3. LinkAll(cap, hashes) = f[N]
  BY DEF LinkAll, Linked
<1> HIDE DEF f, N
<1>4. f[0] = EmptySlots(cap, NoRow) /\ \A n \in 1..N : f[n] = LinkId(f[n - 1], n, hashes[n])
  <2>1. \A n \in 0..N : f[n] = IF n = 0 THEN EmptySlots(cap, NoRow)
                               ELSE LinkId(f[n - 1], n, hashes[n])
    BY <1>2 DEF Linked
  <2> QED
    BY <1>1, <2>1
<1> DEFINE G == {n \in Nat : HoldsIds(f[n], cap, n, hashes)}
<1>5. 0 \in G
  <2> DEFINE E == EmptySlots(cap, NoRow)
  <2>1. E \in [0..(cap - 1) -> 0..0] /\ Taken(E) = {} /\ 1..0 = {}
    BY DEF EmptySlots, Taken, NoRow
  <2>2. Cardinality(Taken(E)) = 0
    BY <2>1, FS_EmptySet
  <2> HIDE DEF E
  <2>3. HoldsIds(E, cap, 0, hashes)
    BY <2>1, <2>2 DEF HoldsIds
  <2> QED
    BY <1>4, <2>3 DEF E
<1>6. ASSUME NEW n \in 0..(N - 1), n \in G
      PROVE  n + 1 \in G
  <2>1. n \in Nat /\ n < cap /\ n + 1 \in 1..N /\ n + 1 - 1 = n
    BY <1>1 DEF N
  <2>2. \A i \in 1..(n + 1) : hashes[i] \in Nat
    BY <1>1, <2>1
  <2>3. HoldsIds(LinkId(f[n], n + 1, hashes[n + 1]), cap, n + 1, hashes)
    BY <1>6, <2>1, <2>2, LinkKeeps
  <2> QED
    BY <1>4, <2>1, <2>3
<1>7. N \in G
  <2> HIDE DEF G
  <2>1. \A n \in 0..N : n \in G
    BY <1>1, <1>5, <1>6, Induct
  <2> QED
    BY <1>1, <2>1
<1> QED
  BY <1>3, <1>7 DEF N

(* Only the hashes of the ids count.                                       *)
LEMMA SameHashes ==
    ASSUME NEW cap, NEW n \in Nat, NEW h1, NEW h2, \A i \in 1..n : h1[i] = h2[i],
           NEW sl, HoldsIds(sl, cap, n, h1)
    PROVE  HoldsIds(sl, cap, n, h2)
<1>1. \A s \in Taken(sl) : sl[s] \in 1..n
  BY DEF HoldsIds, Taken, NoRow
<1> QED
  BY <1>1 DEF HoldsIds

-----------------------------------------------------------------------------
(* The slots of an index. *)

(* A key that is in no slot, moved into the first free one for it.         *)
LEMMA MoveKeeps ==
    ASSUME NEW cap \in Nat, NEW sl, HoldsKeys(sl, cap), Cardinality(Used(sl)) < cap,
           NEW slot \in ISlot, slot.used, slot.key \in Key,
           \A s \in Used(sl) : sl[s].key # slot.key,
           NEW new, new = MoveSlot(cap, sl, slot)
    PROVE  /\ HoldsKeys(new, cap)
           /\ \E p \in (0..(cap - 1)) \ Used(sl) :
                 Used(new) = Used(sl) \cup {p} /\ new[p] = slot
           /\ \A s \in Used(sl) : new[s] = sl[s]
           /\ Cardinality(Used(new)) = Cardinality(Used(sl)) + 1
<1> DEFINE free == (0..(cap - 1)) \ Used(sl)
           p    == Probe(cap, KeyHash[slot.key], free)
<1>1. /\ sl \in [0..(cap - 1) -> ISlot] /\ DOMAIN sl = 0..(cap - 1)
      /\ \A s \in Used(sl) : sl[s].key \in Key
      /\ \A s, t \in Used(sl) : sl[s].key = sl[t].key => s = t
      /\ \A s \in Used(sl) : InPlace(cap, KeyHash[sl[s].key], s, Used(sl))
  BY DEF HoldsKeys
<1>2. KeyHash[slot.key] \in Nat /\ Used(sl) \in SUBSET (0..(cap - 1))
  BY <1>1, RowStoreParameters DEF Used
<1>3. /\ p \in (0..(cap - 1)) \ Used(sl)
      /\ InPlace(cap, KeyHash[slot.key], p, Used(sl))
      /\ Cardinality(Used(sl) \cup {p}) = Cardinality(Used(sl)) + 1
  BY <1>2, ProbeFree
<1>4. new = [sl EXCEPT ![p] = slot]
  <2>1. {j \in DOMAIN sl : ~sl[j].used} = free
    BY <1>1 DEF Used
  <2> QED
    BY <2>1 DEF MoveSlot
<1> HIDE DEF p
<1>5. /\ new \in [0..(cap - 1) -> ISlot] /\ DOMAIN new = 0..(cap - 1)
      /\ new[p] = slot /\ \A s \in 0..(cap - 1) : s # p => new[s] = sl[s]
  BY <1>1, <1>3, <1>4
<1>6. Used(new) = Used(sl) \cup {p}
  <2>1. \A s \in 0..(cap - 1) : new[s].used <=> sl[s].used \/ s = p
    BY <1>5
  <2>2. Used(new) = {s \in 0..(cap - 1) : new[s].used}
    BY <1>5 DEF Used
  <2>3. Used(sl) = {s \in 0..(cap - 1) : sl[s].used}
    BY <1>1 DEF Used
  <2> QED
    BY <1>3, <2>1, <2>2, <2>3
<1>7. \A s \in Used(sl) : s # p /\ new[s] = sl[s]
  BY <1>2, <1>3, <1>5
<1>8. ASSUME NEW s \in Used(new), NEW t \in Used(new), new[s].key = new[t].key
      PROVE  s = t
  <2>1. \A u \in Used(sl) : new[u].key # new[p].key
    BY <1>5, <1>7
  <2>2. CASE s # p /\ t # p
    <3>1. s \in Used(sl) /\ t \in Used(sl) /\ new[s] = sl[s] /\ new[t] = sl[t]
      BY <1>6, <1>7, <2>2
    <3> QED
      BY <1>1, <1>8, <3>1
  <2> QED
    BY <1>6, <1>8, <2>1, <2>2
<1>9. ASSUME NEW s \in Used(new)
      PROVE  new[s].key \in Key /\ InPlace(cap, KeyHash[new[s].key], s, Used(new))
  <2>1. CASE s = p
    BY <1>3, <1>5, <1>6, <2>1, StaysInPlace
  <2>2. CASE s # p
    <3>1. s \in Used(sl) /\ new[s] = sl[s]
      BY <1>6, <1>7, <2>2
    <3>2. InPlace(cap, KeyHash[sl[s].key], s, Used(sl)) /\ sl[s].key \in Key
      BY <1>1, <3>1
    <3> QED
      BY <1>6, <3>1, <3>2, StaysInPlace
  <2> QED
    BY <2>1, <2>2
<1>10. HoldsKeys(new, cap)
  BY <1>5, <1>8, <1>9 DEF HoldsKeys
<1> QED
  BY <1>3, <1>5, <1>6, <1>7, <1>10

(* The definition of IndexRehashed has a solution.                         *)
RehashedTo(f, old, m) ==
    f = [n \in 0..m |->
            IF n = 0 THEN EmptySlots(Doubled(Capacity(old)), FreeSlot)
            ELSE IF old[n - 1].used
                 THEN MoveSlot(Doubled(Capacity(old)), f[n - 1], old[n - 1])
            ELSE f[n - 1]]

LEMMA RehashedExists ==
    ASSUME NEW old, NEW N \in Nat
    PROVE  \E f : RehashedTo(f, old, N)
<1> DEFINE E == EmptySlots(Doubled(Capacity(old)), FreeSlot)
           Step(x, n) == IF old[n - 1].used THEN MoveSlot(Doubled(Capacity(old)), x, old[n - 1])
                         ELSE x
           Solves(f, m) == RehashedTo(f, old, m)
           G == {m \in Nat : \E f : Solves(f, m)}
<1>1. 0 \in G
  <2> DEFINE g == [n \in 0..0 |-> E]
  <2>1. Solves(g, 0)
    BY DEF RehashedTo
  <2> QED
    BY <2>1
<1>2. ASSUME NEW m \in 0..(N - 1), m \in G
      PROVE  m + 1 \in G
  <2>1. PICK f : Solves(f, m)
    BY <1>2
  <2> DEFINE g == [n \in 0..(m + 1) |-> IF n = m + 1 THEN Step(f[m], m + 1) ELSE f[n]]
  <2>2. \A n \in 0..m : n \in 0..(m + 1) /\ n # m + 1
    OBVIOUS
  <2>3. \A n \in 0..m : g[n] = f[n]
    BY <2>2
  <2>4. \A n \in 0..m : f[n] = IF n = 0 THEN E ELSE Step(f[n - 1], n)
    BY <2>1 DEF RehashedTo
  <2>5. g[m + 1] = Step(f[m], m + 1)
    OBVIOUS
  <2>6. DOMAIN g = 0..(m + 1) /\ g = [n \in 0..(m + 1) |-> g[n]]
    OBVIOUS
  <2> HIDE DEF g, E, Step
  <2>7. ASSUME NEW n \in 0..(m + 1)
        PROVE  g[n] = IF n = 0 THEN E ELSE Step(g[n - 1], n)
    <3>1. CASE n = m + 1
      <4>1. n # 0 /\ n - 1 = m /\ m \in 0..m
        BY <3>1
      <4> QED
        BY <2>3, <2>5, <3>1, <4>1
    <3>2. CASE n # m + 1
      <4>1. n \in 0..m /\ (n # 0 => n - 1 \in 0..m)
        BY <3>2
      <4> QED
        BY <2>3, <2>4, <4>1
    <3> QED
      BY <3>1, <3>2
  <2>8. g = [n \in 0..(m + 1) |-> IF n = 0 THEN E ELSE Step(g[n - 1], n)]
    BY <2>6, <2>7
  <2>9. Solves(g, m + 1)
    BY <2>8 DEF E, Step, RehashedTo
  <2> QED
    BY <2>9
<1>3. N \in G
  <2> HIDE DEF G
  <2>1. \A n \in 0..N : n \in G
    BY <1>1, <1>2, Induct
  <2> QED
    BY <2>1
<1> QED
  BY <1>3

(* Rehashing keeps what the slots hold, and has a slot to spare.           *)
LEMMA RehashKeeps ==
    ASSUME NEW c \in Nat, NEW old, HoldsKeys(old, c), c = 0 \/ c > 8
    PROVE  LET new == IndexRehashed(old)
           IN  /\ HoldsKeys(new, Doubled(c))
               /\ Doubled(c) \in Nat /\ Doubled(c) > 8 /\ Doubled(c) > c + 1
               /\ \A s \in Used(old) : \E t \in Used(new) : new[t] = old[s]
               /\ \A t \in Used(new) : \E s \in Used(old) : new[t] = old[s]
               /\ Cardinality(Used(new)) = Cardinality(Used(old))
<1> DEFINE cap == Doubled(c)
           f == CHOOSE g : RehashedTo(g, old, Capacity(old))
<1>1. /\ old \in [0..(c - 1) -> ISlot] /\ DOMAIN old = 0..(c - 1)
      /\ \A s \in Used(old) : old[s].key \in Key
      /\ \A s, t \in Used(old) : old[s].key = old[t].key => s = t
  BY DEF HoldsKeys
<1>2. Capacity(old) = c
  BY <1>1, CapacityIs
<1>3. cap \in Nat /\ cap > 8 /\ cap > c + 1
  BY CapacityAssumption DEF Doubled
<1>4. RehashedTo(f, old, Capacity(old))
  BY <1>2, RehashedExists
<1>5. IndexRehashed(old) = f[c]
  BY <1>2 DEF IndexRehashed, RehashedTo
<1> HIDE DEF f, cap
<1>6. \A n \in 0..c : f[n] = IF n = 0 THEN EmptySlots(cap, FreeSlot)
                             ELSE IF old[n - 1].used THEN MoveSlot(cap, f[n - 1], old[n - 1])
                             ELSE f[n - 1]
  BY <1>2, <1>4 DEF RehashedTo, cap
<1> DEFINE Below(n) == {s \in Used(old) : s < n}
           Saved(x, n) == /\ HoldsKeys(x, cap)
                          /\ \A s \in Below(n) : \E t \in Used(x) : x[t] = old[s]
                          /\ \A t \in Used(x) : \E s \in Below(n) : x[t] = old[s]
                          /\ Cardinality(Used(x)) = Cardinality(Below(n))
           G == {n \in Nat : Saved(f[n], n)}
<1>7. IsFiniteSet(Used(old)) /\ Cardinality(Used(old)) \in Nat /\ Cardinality(Used(old)) <= c
  <2>1. Used(old) \subseteq 0..(c - 1)
    BY <1>1 DEF Used
  <2> QED
    BY <2>1, SlotCount, FS_Subset, FS_CardinalityType
<1>8. \A n : /\ IsFiniteSet(Below(n)) /\ Cardinality(Below(n)) \in Nat
             /\ Cardinality(Below(n)) <= Cardinality(Used(old))
  <2> TAKE n
  <2>1. Below(n) \subseteq Used(old)
    OBVIOUS
  <2> HIDE DEF Below
  <2> QED
    BY <1>7, <2>1, FS_Subset, FS_CardinalityType
<1>9. 0 \in G
  <2> DEFINE E == EmptySlots(cap, FreeSlot)
  <2>1. E \in [0..(cap - 1) -> ISlot] /\ Used(E) = {}
    BY DEF EmptySlots, FreeSlot, ISlot, Used, NoRow
  <2>2. Below(0) = {}
    BY <1>1 DEF Used
  <2> HIDE DEF E, Below
  <2>3. Cardinality(Used(E)) = Cardinality(Below(0))
    BY <2>1, <2>2
  <2>4. HoldsKeys(E, cap)
    BY <2>1 DEF HoldsKeys
  <2>5. f[0] = E
    BY <1>6 DEF E
  <2>6. Saved(E, 0)
    BY <2>1, <2>2, <2>3, <2>4
  <2> QED
    BY <2>5, <2>6
<1>10. ASSUME NEW n \in 0..(c - 1), n \in G
       PROVE  n + 1 \in G
  <2> DEFINE x == f[n]
  <2>1. n \in Nat /\ n + 1 \in 0..c /\ n + 1 # 0 /\ n + 1 - 1 = n /\ Saved(x, n)
    BY <1>10
  <2>2. f[n + 1] = IF old[n].used THEN MoveSlot(cap, x, old[n]) ELSE x
    BY <1>6, <2>1
  <2> HIDE DEF x
  <2>3. CASE ~ old[n].used
    <3>1. Below(n + 1) = Below(n)
      BY <1>1, <2>1, <2>3 DEF Used
    <3>2. Saved(x, n + 1)
      BY <2>1, <3>1
    <3> QED
      BY <2>1, <2>2, <2>3, <3>2
  <2>4. CASE old[n].used
    <3> DEFINE slot == old[n]
               new  == MoveSlot(cap, x, slot)
    <3>1. n \in Used(old) /\ n \notin Below(n) /\ Below(n + 1) = Below(n) \cup {n}
      BY <1>1, <2>1, <2>4 DEF Used
    <3>2. slot \in ISlot /\ slot.used /\ slot.key \in Key
      BY <1>1, <2>4, <3>1
    <3>3. \A t \in Used(x) : x[t].key # slot.key
      <4> TAKE t \in Used(x)
      <4>1. PICK s \in Below(n) : x[t] = old[s]
        BY <2>1
      <4>2. s \in Used(old) /\ s # n
        BY <3>1, <4>1
      <4> QED
        BY <1>1, <3>1, <4>1, <4>2
    <3>4. Cardinality(Used(x)) < cap
      <4>1. Cardinality(Used(x)) = Cardinality(Below(n))
        BY <2>1
      <4> HIDE DEF Below
      <4> QED
        BY <1>3, <1>7, <1>8, <4>1
    <3>5. HoldsKeys(x, cap) /\ cap \in Nat
      BY <1>3, <2>1
    <3> HIDE DEF slot
    <3>6. f[n + 1] = new
      BY <2>2, <2>4 DEF slot
    <3> HIDE DEF new
    <3>7. /\ HoldsKeys(new, cap)
          /\ \E p \in (0..(cap - 1)) \ Used(x) :
                Used(new) = Used(x) \cup {p} /\ new[p] = slot
          /\ \A s \in Used(x) : new[s] = x[s]
          /\ Cardinality(Used(new)) = Cardinality(Used(x)) + 1
      <4>1. new = MoveSlot(cap, x, slot)
        BY DEF new
      <4> QED
        BY <3>2, <3>3, <3>4, <3>5, <4>1, MoveKeeps
    <3> PICK p \in (0..(cap - 1)) \ Used(x) : Used(new) = Used(x) \cup {p} /\ new[p] = slot
      BY <3>7
    <3>8. Cardinality(Below(n + 1)) = Cardinality(Below(n)) + 1
      <4>1. IsFiniteSet(Below(n))
        BY <1>8
      <4> HIDE DEF Below
      <4> QED
        BY <3>1, <4>1, FS_AddElement
    <3>9. \A s \in Below(n + 1) : \E t \in Used(new) : new[t] = old[s]
      <4> TAKE s \in Below(n + 1)
      <4>1. CASE s = n
        BY <3>7, <4>1 DEF slot
      <4>2. CASE s # n
        <5>1. s \in Below(n)
          BY <3>1, <4>2
        <5>2. PICK t \in Used(x) : x[t] = old[s]
          BY <2>1, <5>1
        <5> QED
          BY <3>7, <5>2
      <4> QED
        BY <4>1, <4>2
    <3>10. \A t \in Used(new) : \E s \in Below(n + 1) : new[t] = old[s]
      <4> TAKE t \in Used(new)
      <4>1. CASE t = p
        BY <3>1, <3>7, <4>1 DEF slot
      <4>2. CASE t # p
        <5>1. t \in Used(x) /\ new[t] = x[t]
          BY <3>7, <4>2
        <5>2. PICK s \in Below(n) : x[t] = old[s]
          BY <2>1, <5>1
        <5> QED
          BY <3>1, <5>1, <5>2
      <4> QED
        BY <4>1, <4>2
    <3>11. Cardinality(Used(new)) = Cardinality(Below(n + 1))
      BY <2>1, <3>7, <3>8
    <3> HIDE DEF Below
    <3>12. Saved(new, n + 1)
      BY <3>7, <3>9, <3>10, <3>11
    <3> HIDE DEF Saved
    <3>13. Saved(f[n + 1], n + 1)
      BY <3>6, <3>12
    <3> QED
      BY <2>1, <3>13
  <2> QED
    BY <2>3, <2>4
<1>11. c \in G
  <2> HIDE DEF G
  <2>1. \A n \in 0..c : n \in G
    BY <1>9, <1>10, Induct
  <2> QED
    BY <2>1
<1>12. Below(c) = Used(old)
  BY <1>1 DEF Used
<1>13. Saved(f[c], c)
  BY <1>11
<1> HIDE DEF Below
<1> QED
  BY <1>3, <1>5, <1>12, <1>13 DEF cap

Put(sl, at, slot) == [sl EXCEPT ![at] = slot]

(* Adding a key: the probe ends at the slot of the key, or at a free one   *)
(* when the key has none.                                                  *)
LEMMA PutKeeps ==
    ASSUME NEW cap \in Nat, NEW old, HoldsKeys(old, cap), Cardinality(Used(old)) < cap,
           NEW key \in Key, NEW slot \in ISlot, slot.used, slot.key = key,
           NEW at, at = Probe(cap, KeyHash[key], KeyStops(old, key)),
           NEW new, new = Put(old, at, slot)
    PROVE  /\ at \in 0..(cap - 1) /\ HoldsKeys(new, cap)
           /\ Used(new) = Used(old) \cup {at} /\ new[at] = slot
           /\ \A s \in Used(old) : s # at => new[s] = old[s]
           /\ old[at].used => at \in Used(old) /\ old[at].key = key
           /\ ~old[at].used => \A s \in Used(old) : old[s].key # key
           /\ Cardinality(Used(new)) = IF old[at].used THEN Cardinality(Used(old))
                                       ELSE Cardinality(Used(old)) + 1
<1>1. /\ old \in [0..(cap - 1) -> ISlot] /\ DOMAIN old = 0..(cap - 1)
      /\ \A s \in Used(old) : old[s].key \in Key
      /\ \A s, t \in Used(old) : old[s].key = old[t].key => s = t
      /\ \A s \in Used(old) : InPlace(cap, KeyHash[old[s].key], s, Used(old))
  BY DEF HoldsKeys
<1>2. CASE \E s \in Used(old) : old[s].key = key
  <2>1. PICK s \in Used(old) : old[s].key = key
    BY <1>2
  <2>2. /\ cap \in Nat \ {0} /\ KeyHash[key] \in Nat /\ s \in 0..(cap - 1)
        /\ KeyStops(old, key) \in SUBSET (0..(cap - 1)) /\ s \in KeyStops(old, key)
    BY <1>1, <2>1, RowStoreParameters DEF Used, KeyStops
  <2>3. \A t \in Used(old) : t # s => t \notin KeyStops(old, key)
    BY <1>1, <2>1 DEF Used, KeyStops
  <2>4. InPlace(cap, KeyHash[key], s, Used(old))
    BY <1>1, <2>1
  <2>5. at = s
    BY <2>2, <2>3, <2>4, ProbeFinds
  <2>6. /\ new \in [0..(cap - 1) -> ISlot] /\ DOMAIN new = 0..(cap - 1)
        /\ new[s] = slot /\ \A t \in 0..(cap - 1) : t # s => new[t] = old[t]
    BY <1>1, <2>2, <2>5 DEF Put
  <2>7. Used(new) = Used(old) /\ \A t \in Used(old) : new[t].key = old[t].key
    BY <1>1, <2>1, <2>6 DEF Used
  <2>8. HoldsKeys(new, cap)
    BY <1>1, <2>6, <2>7 DEF HoldsKeys
  <2>9. at \in Used(old) /\ old[at].used
    BY <2>1, <2>5 DEF Used
  <2>10. \A t \in Used(old) : t # at => new[t] = old[t]
    BY <1>1, <2>5, <2>6 DEF Used
  <2>11. at \in 0..(cap - 1) /\ new[at] = slot /\ Used(new) = Used(old) \cup {at}
    BY <2>2, <2>5, <2>6, <2>7, <2>9
  <2>12. Cardinality(Used(new)) = Cardinality(Used(old)) /\ old[at].key = key
    BY <2>1, <2>5, <2>7
  <2> QED
    BY <2>8, <2>9, <2>10, <2>11, <2>12
<1>3. CASE \A s \in Used(old) : old[s].key # key
  <2>1. KeyStops(old, key) = {j \in DOMAIN old : ~old[j].used}
    BY <1>3 DEF KeyStops, Used
  <2>2. new = MoveSlot(cap, old, slot)
    BY <2>1 DEF MoveSlot, Put
  <2>3. slot.key \in Key /\ \A s \in Used(old) : old[s].key # slot.key
    BY <1>3
  <2>4. /\ HoldsKeys(new, cap)
        /\ \E p \in (0..(cap - 1)) \ Used(old) :
              Used(new) = Used(old) \cup {p} /\ new[p] = slot
        /\ \A s \in Used(old) : new[s] = old[s]
        /\ Cardinality(Used(new)) = Cardinality(Used(old)) + 1
    BY <2>2, <2>3, MoveKeeps
  <2>5. PICK p \in (0..(cap - 1)) \ Used(old) :
           Used(new) = Used(old) \cup {p} /\ new[p] = slot
    BY <2>4
  <2>6. at = p
    <3>1. /\ cap \in Nat \ {0} /\ KeyHash[key] \in Nat
          /\ KeyStops(old, key) = (0..(cap - 1)) \ Used(old)
      BY <1>1, <2>1, RowStoreParameters DEF Used
    <3>2. at \in (0..(cap - 1)) \ Used(old)
      BY <3>1, <1>1, ProbeFree DEF Used
    <3>3. new[at] = slot
      BY <1>1, <3>2 DEF Put
    <3>4. at \in Used(new)
      <4>1. DOMAIN new = 0..(cap - 1)
        BY <2>4 DEF HoldsKeys
      <4> QED
        BY <3>2, <3>3, <4>1 DEF Used
    <3> QED
      BY <2>5, <3>2, <3>4
  <2>7. ~old[at].used
    BY <1>1, <2>5, <2>6 DEF Used
  <2> QED
    BY <1>3, <2>4, <2>5, <2>6, <2>7
<1> QED
  BY <1>2, <1>3

(* The rows of a key, by the row that comes.                               *)
LEMMA OfKeyGrows ==
    ASSUME NEW n \in Nat, NEW log, NEW k
    PROVE  OfKey(log, n + 1, k) = OfKey(log, n, k)
                                  \cup (IF KeyOf[log[n + 1]] = k THEN {n + 1} ELSE {})
<1>1. 1..(n + 1) = (1..n) \cup {n + 1}
  OBVIOUS
<1> QED
  BY <1>1 DEF OfKey

(* The load limit leaves room for one more key.                            *)
LEMMA BelowLoad ==
    ASSUME NEW n \in Nat, NEW cap \in Nat, cap > 8, ~AtLoad(n, cap)
    PROVE  n + 1 < cap
<1>1. n + n \div 8 < cap
  BY DEF AtLoad
<1>2. n >= 8 => n \div 8 >= 1
  OBVIOUS
<1> QED
  BY <1>1, <1>2

(* What an index holds before the key of a row is put into it.             *)
Holds(sl, cap, log, n) ==
    /\ HoldsKeys(sl, cap) /\ cap > 8
    /\ \A s \in Used(sl) : sl[s].head # NoRow /\ Latest(sl[s].head, log, n, sl[s].key)
    /\ \A i \in 1..n : \E s \in Used(sl) : sl[s].key = KeyOf[log[i]]

LEMMA MadeRoom ==
    ASSUME NEW log, NEW n \in Nat, NEW ix, IndexOk(ix, log, n),
           NEW old, old = IF AtLoad(ix.numKeys, Capacity(ix.slots))
                          THEN IndexRehashed(ix.slots) ELSE ix.slots
    PROVE  \E cap \in Nat : /\ Holds(old, cap, log, n) /\ ix.numKeys \in Nat
                            /\ ix.numKeys = Cardinality(Used(old)) /\ ix.numKeys + 1 < cap
<1>1. PICK c \in Nat : /\ HoldsKeys(ix.slots, c)
                       /\ ix.numKeys = Cardinality(Used(ix.slots))
                       /\ c = 0 \/ (c > 8 /\ ix.numKeys < c)
  BY DEF IndexOk
<1>2. /\ \A s \in Used(ix.slots) :
             ix.slots[s].head # NoRow /\ Latest(ix.slots[s].head, log, n, ix.slots[s].key)
      /\ \A i \in 1..n : \E s \in Used(ix.slots) : ix.slots[s].key = KeyOf[log[i]]
  BY DEF IndexOk, Chained
<1> DEFINE sl == ix.slots
<1> HIDE DEF sl
<1>3. DOMAIN sl = 0..(c - 1) /\ Used(sl) \subseteq 0..(c - 1)
  BY <1>1 DEF HoldsKeys, Used, sl
<1>4. ix.numKeys \in Nat /\ ix.numKeys <= c
  <2>1. Cardinality(Used(sl)) \in Nat /\ Cardinality(Used(sl)) <= c
    BY <1>3, SlotCount, FS_Subset, FS_CardinalityType
  <2> QED
    BY <1>1, <2>1 DEF sl
<1>5. Capacity(sl) = c
  BY <1>3, CapacityIs
<1>6. CASE AtLoad(ix.numKeys, c)
  <2>1. old = IndexRehashed(sl)
    BY <1>5, <1>6 DEF sl
  <2>2. HoldsKeys(sl, c) /\ (c = 0 \/ c > 8)
    BY <1>1 DEF sl
  <2>3. /\ HoldsKeys(old, Doubled(c))
        /\ Doubled(c) \in Nat /\ Doubled(c) > 8 /\ Doubled(c) > c + 1
        /\ \A s \in Used(sl) : \E t \in Used(old) : old[t] = sl[s]
        /\ \A t \in Used(old) : \E s \in Used(sl) : old[t] = sl[s]
        /\ Cardinality(Used(old)) = Cardinality(Used(sl))
    BY <2>1, <2>2, RehashKeeps
  <2>4. \A t \in Used(old) : old[t].head # NoRow /\ Latest(old[t].head, log, n, old[t].key)
    <3> TAKE t \in Used(old)
    <3>1. PICK s \in Used(sl) : old[t] = sl[s]
      BY <2>3
    <3> QED
      BY <1>2, <3>1 DEF sl
  <2>5. \A i \in 1..n : \E t \in Used(old) : old[t].key = KeyOf[log[i]]
    <3> TAKE i \in 1..n
    <3>1. PICK s \in Used(sl) : sl[s].key = KeyOf[log[i]]
      BY <1>2 DEF sl
    <3>2. PICK t \in Used(old) : old[t] = sl[s]
      BY <2>3
    <3> QED
      BY <3>1, <3>2
  <2>6. Holds(old, Doubled(c), log, n)
    BY <2>3, <2>4, <2>5 DEF Holds
  <2>7. ix.numKeys = Cardinality(Used(old)) /\ ix.numKeys + 1 < Doubled(c)
    BY <1>1, <1>4, <2>3 DEF sl
  <2> QED
    BY <1>4, <2>3, <2>6, <2>7
<1>7. CASE ~AtLoad(ix.numKeys, c)
  <2>1. old = sl
    BY <1>5, <1>7 DEF sl
  <2>2. c > 8
    BY <1>1, <1>4, <1>7 DEF AtLoad
  <2>3. ix.numKeys + 1 < c
    BY <1>4, <1>7, <2>2, BelowLoad
  <2>4. Holds(old, c, log, n)
    BY <1>1, <1>2, <2>1, <2>2 DEF Holds, sl
  <2> QED
    BY <1>1, <1>4, <2>1, <2>3, <2>4 DEF sl
<1> QED
  BY <1>6, <1>7

(* Adding the next row of the log keeps an index exact.                    *)
LEMMA IndexAddKeeps ==
    ASSUME NEW log, NEW n \in Nat, KeyOf[log[n + 1]] \in Key,
           NEW ix, IndexOk(ix, log, n)
    PROVE  IndexOk(IndexAdd(ix, KeyOf[log[n + 1]], n + 1), log, n + 1)
<1> DEFINE key  == KeyOf[log[n + 1]]
           id   == n + 1
           old  == IF AtLoad(ix.numKeys, Capacity(ix.slots))
                   THEN IndexRehashed(ix.slots) ELSE ix.slots
           at   == Probe(Capacity(old), KeyHash[key], KeyStops(old, key))
           head == IF old[at].used THEN old[at].head ELSE NoRow
           slot == [used |-> TRUE, key |-> key, head |-> id]
           new  == Put(old, at, slot)
           nxt  == [i \in 1..id |->
                      IF i = id THEN head
                      ELSE IF i <= Len(ix.next) THEN ix.next[i] ELSE NoRow]
           num  == IF old[at].used THEN ix.numKeys ELSE ix.numKeys + 1
           ix1  == IndexAdd(ix, key, id)
<1>1. ix1.slots = new /\ ix1.next = nxt /\ ix1.numKeys = num
  BY DEF IndexAdd, Put
<1>2. PICK cap \in Nat : /\ Holds(old, cap, log, n) /\ ix.numKeys \in Nat
                         /\ ix.numKeys = Cardinality(Used(old)) /\ ix.numKeys + 1 < cap
  <2> HIDE DEF old
  <2>1. old = IF AtLoad(ix.numKeys, Capacity(ix.slots))
              THEN IndexRehashed(ix.slots) ELSE ix.slots
    BY DEF old
  <2> QED
    BY <2>1, MadeRoom
<1> HIDE DEF old, ix1
<1>3. /\ HoldsKeys(old, cap) /\ cap > 8
      /\ \A s \in Used(old) : old[s].head # NoRow /\ Latest(old[s].head, log, n, old[s].key)
      /\ \A i \in 1..n : \E s \in Used(old) : old[s].key = KeyOf[log[i]]
      /\ old \in [0..(cap - 1) -> ISlot]
      /\ \A s, t \in Used(old) : old[s].key = old[t].key => s = t
  BY <1>2 DEF Holds, HoldsKeys
<1>4. Capacity(old) = cap
  <2>1. DOMAIN old = 0..(cap - 1)
    BY <1>3
  <2> QED
    BY <2>1, CapacityIs
<1>5. slot \in ISlot /\ slot.used /\ slot.key = key /\ slot.head = id
  BY DEF ISlot
<1>6. at = Probe(cap, KeyHash[key], KeyStops(old, key))
  BY <1>4
<1> HIDE DEF at, slot, new, key
<1>7. /\ at \in 0..(cap - 1) /\ HoldsKeys(new, cap)
      /\ Used(new) = Used(old) \cup {at} /\ new[at] = slot
      /\ \A s \in Used(old) : s # at => new[s] = old[s]
      /\ old[at].used => at \in Used(old) /\ old[at].key = key
      /\ ~old[at].used => \A s \in Used(old) : old[s].key # key
      /\ Cardinality(Used(new)) = IF old[at].used THEN Cardinality(Used(old))
                                  ELSE Cardinality(Used(old)) + 1
  <2>1. new = Put(old, at, slot) /\ key \in Key /\ Cardinality(Used(old)) < cap
    BY <1>2 DEF new, key
  <2> QED
    BY <1>3, <1>5, <1>6, <2>1, PutKeeps
<1>8. num = Cardinality(Used(new)) /\ num < cap
  BY <1>2, <1>7
<1>9. Latest(head, log, n, key) /\ head \in Nat
  <2>1. CASE old[at].used
    BY <1>3, <1>7, <2>1 DEF ISlot
  <2>2. CASE ~old[at].used
    <3>1. OfKey(log, n, key) = {}
      BY <1>3, <1>7, <2>2 DEF OfKey
    <3> QED
      BY <2>2, <3>1 DEF Latest, NoRow
  <2> QED
    BY <2>1, <2>2
<1> HIDE DEF head, num
<1>10. /\ nxt \in [1..id -> Nat]
       /\ \A i \in 1..id : Latest(nxt[i], log, i - 1, KeyOf[log[i]])
  <2>1. /\ ix.next \in [1..n -> Nat]
        /\ \A i \in 1..n : Latest(ix.next[i], log, i - 1, KeyOf[log[i]])
    BY DEF IndexOk, Chained
  <2>2. Len(ix.next) = n
    BY <2>1
  <2>3. \A i \in 1..id : i # id => i \in 1..n /\ i <= n
    OBVIOUS
  <2>4. \A i \in 1..id : nxt[i] = IF i = id THEN head ELSE ix.next[i]
    BY <2>2, <2>3
  <2>5. \A i \in 1..id : nxt[i] \in Nat
    BY <1>9, <2>1, <2>3, <2>4
  <2>6. nxt = [i \in 1..id |-> nxt[i]]
    OBVIOUS
  <2> HIDE DEF nxt
  <2>7. \A i \in 1..id : Latest(nxt[i], log, i - 1, KeyOf[log[i]])
    <3> TAKE i \in 1..id
    <3>1. CASE i = id
      BY <1>9, <2>4, <3>1 DEF key
    <3>2. CASE i # id
      BY <2>1, <2>3, <2>4, <3>2
    <3> QED
      BY <3>1, <3>2
  <2> QED
    BY <2>5, <2>6, <2>7
<1> HIDE DEF nxt
<1>11. OfKey(log, id, key) = OfKey(log, n, key) \cup {id}
       /\ \A k : k # key => OfKey(log, id, k) = OfKey(log, n, k)
  <2>1. \A k : OfKey(log, n + 1, k) = OfKey(log, n, k)
                                      \cup (IF key = k THEN {n + 1} ELSE {})
    BY OfKeyGrows DEF key
  <2>2. \A k : key = k => (IF key = k THEN {n + 1} ELSE {}) = {n + 1}
    OBVIOUS
  <2>3. \A k : k # key => (IF key = k THEN {n + 1} ELSE {}) = {}
    OBVIOUS
  <2>4. \A k : k # key => OfKey(log, n + 1, k) = OfKey(log, n, k)
    BY <2>1, <2>3
  <2> QED
    BY <2>1, <2>2, <2>4
<1>12. ASSUME NEW s \in Used(new)
       PROVE  new[s].head # NoRow /\ Latest(new[s].head, log, id, new[s].key)
  <2>1. CASE s = at
    <3>1. \A j \in OfKey(log, id, key) : j <= id
      BY DEF OfKey
    <3> QED
      BY <1>5, <1>7, <1>11, <2>1, <3>1 DEF Latest, NoRow
  <2>2. CASE s # at
    <3>1. s \in Used(old) /\ new[s] = old[s]
      BY <1>7, <2>2
    <3>2. new[s].key # key
      <4>1. at \in Used(new) /\ new[at].key = key
        BY <1>5, <1>7
      <4>2. \A t, u \in Used(new) : new[t].key = new[u].key => t = u
        BY <1>7 DEF HoldsKeys
      <4> QED
        BY <2>2, <4>1, <4>2
    <3>3. OfKey(log, id, new[s].key) = OfKey(log, n, new[s].key)
      BY <1>11, <3>2
    <3> QED
      BY <1>3, <3>1, <3>3 DEF Latest
  <2> QED
    BY <2>1, <2>2
<1>13. ASSUME NEW i \in 1..id
       PROVE  \E s \in Used(new) : new[s].key = KeyOf[log[i]]
  <2>1. CASE i = id
    BY <1>5, <1>7, <2>1 DEF key
  <2>2. CASE i # id
    <3>1. i \in 1..n
      BY <2>2
    <3>2. PICK s \in Used(old) : old[s].key = KeyOf[log[i]]
      BY <1>3, <3>1
    <3>3. s = at => new[s].key = old[s].key
      BY <1>5, <1>7, <3>2 DEF Used
    <3> QED
      BY <1>7, <3>2, <3>3
  <2> QED
    BY <2>1, <2>2
<1>14. Chained(ix1, log, id)
  BY <1>1, <1>10, <1>12, <1>13 DEF Chained
<1>15. IndexOk(ix1, log, id)
  BY <1>1, <1>3, <1>7, <1>8, <1>14 DEF IndexOk
<1> QED
  BY <1>15 DEF ix1, key

(* Only the keys of its rows and the fields of an index count.             *)
LEMMA SameIndex ==
    ASSUME NEW n \in Nat, NEW log, NEW log1, \A i \in 1..n : log1[i] = log[i],
           NEW ix, NEW ix1, IndexOk(ix, log, n),
           ix1.slots = ix.slots, ix1.next = ix.next, ix1.numKeys = ix.numKeys
    PROVE  IndexOk(ix1, log1, n)
<1>1. \A m \in 0..n : \A k : OfKey(log1, m, k) = OfKey(log, m, k)
  BY DEF OfKey
<1>2. \A m \in 0..n : \A j, k : Latest(j, log, m, k) => Latest(j, log1, m, k)
  BY <1>1 DEF Latest
<1>3. Chained(ix1, log1, n)
  <2>1. \A i \in 1..n : Latest(ix1.next[i], log1, i - 1, KeyOf[log1[i]])
    <3> TAKE i \in 1..n
    <3>1. Latest(ix.next[i], log, i - 1, KeyOf[log[i]]) /\ i - 1 \in 0..n
      BY DEF IndexOk, Chained
    <3> QED
      BY <1>2, <3>1
  <2>2. \A s \in Used(ix1.slots) :
           ix1.slots[s].head # NoRow /\ Latest(ix1.slots[s].head, log1, n, ix1.slots[s].key)
    BY <1>2 DEF IndexOk, Chained
  <2> QED
    BY <2>1, <2>2 DEF IndexOk, Chained
<1> QED
  BY <1>3 DEF IndexOk

(* An index without rows.                                                  *)
LEMMA ClearedOk ==
    ASSUME NEW c \in Nat, c = 0 \/ c > 8, NEW log, NEW ix,
           ix.slots = EmptySlots(c, FreeSlot), ix.next = <<>>, ix.numKeys = 0
    PROVE  IndexOk(ix, log, 0)
<1>1. ix.slots \in [0..(c - 1) -> ISlot] /\ Used(ix.slots) = {}
  BY DEF EmptySlots, FreeSlot, ISlot, Used, NoRow
<1>2. HoldsKeys(ix.slots, c) /\ ix.numKeys = Cardinality(Used(ix.slots))
  BY <1>1, FS_EmptySet DEF HoldsKeys
<1>3. Chained(ix, log, 0)
  <2>1. 1..0 = {} /\ ix.next \in [1..0 -> Nat]
    OBVIOUS
  <2> QED
    BY <1>1, <2>1 DEF Chained
<1> QED
  BY <1>2, <1>3 DEF IndexOk

(* The definition of Rebuilt has a solution.                               *)
BuiltFrom(f, ix, log, m) ==
    f = [n \in 0..m |-> IF n = 0 THEN ix ELSE IndexAdd(f[n - 1], KeyOf[log[n]], n)]

LEMMA BuiltExists ==
    ASSUME NEW ix, NEW log, NEW N \in Nat
    PROVE  \E f : BuiltFrom(f, ix, log, N)
<1> DEFINE Solves(f, m) == BuiltFrom(f, ix, log, m)
           G == {m \in Nat : \E f : Solves(f, m)}
<1>1. 0 \in G
  <2> DEFINE g == [n \in 0..0 |-> ix]
  <2>1. Solves(g, 0)
    BY DEF BuiltFrom
  <2> QED
    BY <2>1
<1>2. ASSUME NEW m \in 0..(N - 1), m \in G
      PROVE  m + 1 \in G
  <2>1. PICK f : Solves(f, m)
    BY <1>2
  <2> DEFINE g == [n \in 0..(m + 1) |-> IF n = m + 1 THEN IndexAdd(f[m], KeyOf[log[m + 1]], m + 1)
                                        ELSE f[n]]
  <2>2. \A n \in 0..m : n \in 0..(m + 1) /\ n # m + 1
    OBVIOUS
  <2>3. \A n \in 0..m : g[n] = f[n]
    BY <2>2
  <2>4. \A n \in 0..m : f[n] = IF n = 0 THEN ix ELSE IndexAdd(f[n - 1], KeyOf[log[n]], n)
    BY <2>1 DEF BuiltFrom
  <2>5. g[m + 1] = IndexAdd(f[m], KeyOf[log[m + 1]], m + 1)
    OBVIOUS
  <2>6. DOMAIN g = 0..(m + 1) /\ g = [n \in 0..(m + 1) |-> g[n]]
    OBVIOUS
  <2> HIDE DEF g
  <2>7. ASSUME NEW n \in 0..(m + 1)
        PROVE  g[n] = IF n = 0 THEN ix ELSE IndexAdd(g[n - 1], KeyOf[log[n]], n)
    <3>1. CASE n = m + 1
      <4>1. n # 0 /\ n - 1 = m /\ m \in 0..m
        BY <3>1
      <4> QED
        BY <2>3, <2>5, <3>1, <4>1
    <3>2. CASE n # m + 1
      <4>1. n \in 0..m /\ (n # 0 => n - 1 \in 0..m)
        BY <3>2
      <4> QED
        BY <2>3, <2>4, <4>1
    <3> QED
      BY <3>1, <3>2
  <2>8. Solves(g, m + 1)
    BY <2>6, <2>7 DEF BuiltFrom
  <2> QED
    BY <2>8
<1>3. N \in G
  <2> HIDE DEF G
  <2>1. \A n \in 0..N : n \in G
    BY <1>1, <1>2, Induct
  <2> QED
    BY <2>1
<1> QED
  BY <1>3

(* The rebuild walk: cleared, an index takes every row of a log.           *)
LEMMA RebuiltOk ==
    ASSUME NEW log, Len(log) \in Nat, \A i \in 1..Len(log) : KeyOf[log[i]] \in Key,
           NEW c \in Nat, c = 0 \/ c > 8, Capacity(islots) = c
    PROVE  IndexOk(Rebuilt(log), log, Len(log))
<1> DEFINE N == Len(log)
           E == IndexClear(IndexState)
           f == CHOOSE g : BuiltFrom(g, E, log, N)
<1>1. BuiltFrom(f, E, log, N)
  <2> HIDE DEF E
  <2> QED
    BY BuiltExists
<1>2. Rebuilt(log) = f[N]
  BY DEF Rebuilt, BuiltFrom
<1>3. E.slots = EmptySlots(c, FreeSlot) /\ E.next = <<>> /\ E.numKeys = 0
  BY DEF IndexClear, IndexState
<1> HIDE DEF E, f
<1>4. \A n \in 0..N : f[n] = IF n = 0 THEN E ELSE IndexAdd(f[n - 1], KeyOf[log[n]], n)
  BY <1>1 DEF BuiltFrom
<1> HIDE DEF N
<1> DEFINE G == {n \in Nat : IndexOk(f[n], log, n)}
<1>5. 0 \in G
  <2>1. IndexOk(E, log, 0)
    BY <1>3, ClearedOk
  <2> QED
    BY <1>4, <2>1 DEF N
<1>6. ASSUME NEW n \in 0..(N - 1), n \in G
      PROVE  n + 1 \in G
  <2>1. n \in Nat /\ n + 1 \in 1..N /\ n + 1 - 1 = n /\ n + 1 # 0 /\ IndexOk(f[n], log, n)
    BY <1>6 DEF N
  <2>2. f[n + 1] = IndexAdd(f[n], KeyOf[log[n + 1]], n + 1)
    BY <1>4, <2>1
  <2>3. IndexOk(IndexAdd(f[n], KeyOf[log[n + 1]], n + 1), log, n + 1)
    BY <2>1, IndexAddKeeps DEF N
  <2> QED
    BY <2>1, <2>2, <2>3
<1>7. N \in G
  <2> HIDE DEF G
  <2>1. N \in Nat /\ \A n \in 0..N : n \in G
    BY <1>5, <1>6, Induct DEF N
  <2> QED
    BY <2>1
<1> QED
  BY <1>2, <1>7 DEF N

-----------------------------------------------------------------------------
(* Lookups. *)

(* The rank of a number in a finite set is the place of that number alone. *)
LEMMA AscendingFacts ==
    ASSUME NEW S \in SUBSET Nat, IsFiniteSet(S)
    PROVE  LET a == Ascending(S)
           IN  /\ Cardinality(S) \in Nat /\ a \in [1..Cardinality(S) -> S]
               /\ \A k, j \in 1..Cardinality(S) : a[k] = a[j] => k = j
<1> DEFINE N == Cardinality(S)
           Upto(x) == {y \in S : y <= x}
           rank == [x \in S |-> Cardinality(Upto(x))]
<1>1. N \in Nat
  BY FS_CardinalityType
<1>2. \A x \in S : IsFiniteSet(Upto(x)) /\ Cardinality(Upto(x)) \in 1..N
  <2> TAKE x \in S
  <2>1. Upto(x) \in SUBSET S /\ x \in Upto(x)
    OBVIOUS
  <2> HIDE DEF Upto
  <2>2. /\ IsFiniteSet(Upto(x)) /\ Cardinality(Upto(x)) \in Nat
        /\ Cardinality(Upto(x)) <= N
    BY <2>1, FS_Subset, FS_CardinalityType
  <2>3. Cardinality(Upto(x)) # 0
    BY <2>1, <2>2, FS_EmptySet
  <2> QED
    BY <1>1, <2>2, <2>3
<1>3. \A x, y \in S : x < y => Cardinality(Upto(x)) # Cardinality(Upto(y))
  <2> SUFFICES ASSUME NEW x \in S, NEW y \in S, x < y
               PROVE  Cardinality(Upto(x)) # Cardinality(Upto(y))
    OBVIOUS
  <2>1. Upto(x) \in SUBSET Upto(y) /\ Upto(x) # Upto(y)
    <3>1. y \in Upto(y) /\ y \notin Upto(x)
      OBVIOUS
    <3>2. \A z \in S : z <= x => z <= y
      OBVIOUS
    <3> QED
      BY <3>1, <3>2
  <2>2. IsFiniteSet(Upto(y))
    BY <1>2
  <2> HIDE DEF Upto
  <2> QED
    BY <2>1, <2>2, FS_Subset
<1>4. \A x, y \in S : rank[x] = rank[y] => x = y
  <2> HIDE DEF Upto
  <2>1. \A x \in S : rank[x] = Cardinality(Upto(x))
    OBVIOUS
  <2>2. \A x, y \in S : x < y \/ y < x \/ x = y
    OBVIOUS
  <2> HIDE DEF rank
  <2> QED
    BY <1>3, <2>1, <2>2
<1>5. rank \in [S -> 1..N]
  <2> HIDE DEF Upto, N
  <2> QED
    BY <1>2
<1> HIDE DEF N
<1>6. \A k \in 1..N : \E x \in S : rank[x] = k
  <2>1. rank \in Injection(S, 1..N)
    <3> HIDE DEF rank
    <3> QED
      BY <1>4, <1>5 DEF Injection, IsInjective
  <2>2. IsFiniteSet(1..N) /\ Cardinality(1..N) = N
    BY <1>1, FS_Interval
  <2> HIDE DEF rank
  <2>3. rank \in Surjection(S, 1..N)
    BY <2>1, <2>2, FS_Injection DEF N
  <2> QED
    BY <2>3 DEF Surjection
<1> DEFINE a == Ascending(S)
<1>7. /\ DOMAIN a = 1..N /\ a = [k \in 1..N |-> a[k]]
      /\ \A k \in 1..N : a[k] = CHOOSE x \in S : Cardinality(Upto(x)) = k
  BY DEF Ascending, N
<1>8. \A k \in 1..N : a[k] \in S /\ Cardinality(Upto(a[k])) = k
  <2> TAKE k \in 1..N
  <2> HIDE DEF Upto
  <2>1. \E x \in S : Cardinality(Upto(x)) = k
    BY <1>6
  <2> HIDE DEF a
  <2> QED
    BY <1>7, <2>1
<1> HIDE DEF a, Upto
<1>9. a \in [1..N -> S]
  BY <1>7, <1>8
<1>10. \A k, j \in 1..N : a[k] = a[j] => k = j
  BY <1>8
<1> QED
  BY <1>1, <1>9, <1>10 DEF a, N

(* A chain from the latest of the first n rows of a key has them all.      *)
LEMMA ChainIs ==
    ASSUME Len(rows) \in Nat, Chained(IndexState, rows, Len(rows)),
           NEW n \in 0..Len(rows), NEW k, NEW h, Latest(h, rows, n, k)
    PROVE  Chain(h) = OfKey(rows, n, k)
<1> DEFINE N == Len(rows)
           Walks(w) == w = [i \in 0..N |-> IF i = NoRow THEN {} ELSE {i} \cup w[next[i]]]
           Of(i) == IF i = NoRow THEN {} ELSE OfKey(rows, i, KeyOf[rows[i]])
           v == [i \in 0..N |-> Of(i)]
           w == CHOOSE g : Walks(g)
<1>1. /\ next \in [1..N -> Nat]
      /\ \A i \in 1..N : Latest(next[i], rows, i - 1, KeyOf[rows[i]])
  BY DEF Chained, IndexState
<1>2. Len(next) = N
  BY <1>1
<1>3. \A i \in 1..N : next[i] \in 0..(i - 1) /\ next[i] < i
  BY <1>1 DEF Latest, OfKey, NoRow
<1>4. \A m \in 0..N : \A q, j : Latest(j, rows, m, q) => Of(j) = OfKey(rows, m, q) /\ j \in 0..N
  <2> TAKE m \in 0..N
  <2> TAKE q, j
  <2>1. CASE j = NoRow /\ OfKey(rows, m, q) = {}
    BY <2>1 DEF NoRow
  <2>2. CASE j \in OfKey(rows, m, q) /\ \A u \in OfKey(rows, m, q) : u <= j
    <3>1. j \in 1..m /\ j # NoRow /\ KeyOf[rows[j]] = q
      BY <2>2 DEF OfKey, NoRow
    <3>2. OfKey(rows, j, q) = OfKey(rows, m, q)
      BY <2>2, <3>1 DEF OfKey
    <3> QED
      BY <3>1, <3>2
  <2> HIDE DEF Of
  <2> QED
    BY <2>1, <2>2 DEF Latest
<1>5. \A i \in 1..N : Of(i) = {i} \cup Of(next[i])
  <2> TAKE i \in 1..N
  <2>1. i - 1 \in 0..N /\ i - 1 \in Nat /\ i - 1 + 1 = i /\ i # NoRow
    BY DEF NoRow
  <2>2. Of(next[i]) = OfKey(rows, i - 1, KeyOf[rows[i]])
    BY <1>1, <1>4, <2>1
  <2>3. OfKey(rows, i, KeyOf[rows[i]]) = OfKey(rows, i - 1, KeyOf[rows[i]]) \cup {i}
    BY <2>1, OfKeyGrows
  <2> QED
    BY <2>1, <2>2, <2>3
<1>6. Walks(v)
  <2>1. \A i \in 0..N : v[i] = Of(i)
    OBVIOUS
  <2>2. v = [i \in 0..N |-> v[i]] /\ Of(NoRow) = {}
    OBVIOUS
  <2> HIDE DEF v, Of
  <2>3. ASSUME NEW i \in 0..N
        PROVE  v[i] = IF i = NoRow THEN {} ELSE {i} \cup v[next[i]]
    <3>1. CASE i = NoRow
      BY <2>1, <2>2, <3>1
    <3>2. CASE i # NoRow
      <4>1. i \in 1..N /\ next[i] \in 0..N
        BY <1>3, <3>2 DEF NoRow
      <4> QED
        BY <1>5, <2>1, <3>2, <4>1
    <3> QED
      BY <3>1, <3>2
  <2> QED
    BY <2>2, <2>3
<1>7. Walks(w)
  <2> HIDE DEF v
  <2> DEFINE P(g) == Walks(g)
  <2>1. P(v)
    BY <1>6
  <2> HIDE DEF P
  <2>2. P(CHOOSE g : P(g))
    BY <2>1
  <2> QED
    BY <2>2 DEF P
<1>8. Chain(h) = w[h]
  BY <1>2 DEF Chain
<1> HIDE DEF w, v
<1>9. \A i \in 0..N : w[i] = IF i = NoRow THEN {} ELSE {i} \cup w[next[i]]
  BY <1>7
<1> DEFINE Bad == {i \in 0..N : w[i] # Of(i)}
<1>10. Bad = {}
  <2> SUFFICES ASSUME Bad # {} PROVE FALSE
    OBVIOUS
  <2>1. Bad \in SUBSET Nat
    OBVIOUS
  <2> HIDE DEF Bad
  <2>2. PICK i \in Bad : \A j \in Bad : i <= j
    BY <2>1, LeastOf
  <2>3. i \in 0..N /\ w[i] # Of(i)
    BY DEF Bad
  <2>4. i # NoRow
    BY <1>9, <2>3
  <2>5. i \in 1..N /\ next[i] \in 0..N /\ next[i] < i
    BY <1>3, <2>3, <2>4 DEF NoRow
  <2>6. next[i] \notin Bad
    BY <2>2, <2>5
  <2>7. w[next[i]] = Of(next[i])
    BY <2>5, <2>6 DEF Bad
  <2> HIDE DEF Of
  <2> QED
    BY <1>5, <1>9, <2>3, <2>4, <2>5, <2>7
<1> HIDE DEF Of
<1> QED
  BY <1>4, <1>8, <1>10

(* Every lookup of a row finds its id or a free slot.                      *)
LEMMA RowLookups ==
    ASSUME RowsOk
    PROVE  FindExact
<1> DEFINE n == Len(rows)
<1>1. /\ rows \in Seq(Row) /\ n \in Nat /\ DOMAIN rows = 1..n
      /\ \A i, j \in 1..n : rows[i] = rows[j] => i = j
  BY DEF RowsOk
<1>2. PICK cap \in Nat : /\ HoldsIds(slots, cap, n, Hashes(rows))
                         /\ cap = 0 \/ (cap > 8 /\ n + n \div 8 < cap)
  BY DEF RowsOk
<1> HIDE DEF n
<1>3. /\ slots \in [0..(cap - 1) -> 0..n] /\ DOMAIN slots = 0..(cap - 1)
      /\ \A i \in 1..n : \E s \in 0..(cap - 1) : slots[s] = i
      /\ \A s, t \in Taken(slots) : slots[s] = slots[t] => s = t
      /\ \A s \in Taken(slots) : InPlace(cap, Hashes(rows)[slots[s]], s, Taken(slots))
      /\ Cardinality(Taken(slots)) = n
  BY <1>2 DEF HoldsIds
<1>4. Capacity(slots) = cap
  BY <1>3, CapacityIs
<1> SUFFICES ASSUME NEW x \in Row
             PROVE  /\ cap > 0 => FindStops(x) # {}
                    /\ {i \in DOMAIN rows : rows[i] = x} = {Find(x)} \ {NoRow}
  BY <1>4 DEF FindExact
<1>5. CASE cap = 0
  <2>1. n = 0
    <3>1. Taken(slots) = {}
      BY <1>3, <1>5 DEF Taken
    <3> QED
      BY <1>3, <3>1, FS_EmptySet
  <2>2. Find(x) = NoRow
    BY <1>4, <1>5 DEF Find
  <2> QED
    BY <1>1, <1>5, <2>1, <2>2
<1>6. CASE cap # 0
  <2> DEFINE stops == FindStops(x)
             p == Probe(cap, HashOf[x], stops)
  <2>1. /\ cap \in Nat \ {0} /\ HashOf[x] \in Nat /\ Find(x) = slots[p]
        /\ stops \in SUBSET (0..(cap - 1))
    BY <1>3, <1>4, <1>6, RowStoreParameters DEF Find, FindStops
  <2>2. n < cap
    BY <1>1, <1>2, <1>6
  <2>3. \A s \in 0..(cap - 1) : s \in stops <=> slots[s] = NoRow \/ rows[slots[s]] = x
    BY <1>3 DEF FindStops
  <2>4. \A s \in 0..(cap - 1) : s \in Taken(slots) <=> slots[s] # NoRow
    BY <1>3 DEF Taken
  <2>5. stops # {}
    <3>1. Taken(slots) # 0..(cap - 1)
      BY <1>3, <2>2, SlotCount
    <3>2. PICK s \in 0..(cap - 1) : s \notin Taken(slots)
      BY <1>3, <3>1 DEF Taken
    <3> QED
      BY <2>3, <2>4, <3>2
  <2> HIDE DEF stops, p
  <2>6. ASSUME NEW i \in 1..n, rows[i] = x
        PROVE  Find(x) = i
    <3>1. PICK s \in 0..(cap - 1) : slots[s] = i
      BY <1>3
    <3>2. s \in Taken(slots) /\ s \in stops
      BY <2>3, <2>4, <2>6, <3>1 DEF NoRow
    <3>3. \A t \in Taken(slots) : t # s => t \notin stops
      <4> SUFFICES ASSUME NEW t \in Taken(slots), t \in stops PROVE t = s
        OBVIOUS
      <4>1. t \in 0..(cap - 1) /\ slots[t] # NoRow /\ rows[slots[t]] = x
        BY <2>1, <2>3, <2>4
      <4>2. slots[t] \in 1..n
        BY <1>1, <1>3, <4>1 DEF NoRow
      <4>3. slots[t] = slots[s]
        BY <1>1, <2>6, <3>1, <4>1, <4>2
      <4> QED
        BY <1>3, <3>2, <4>3
    <3>4. InPlace(cap, HashOf[x], s, Taken(slots))
      <4>1. Hashes(rows)[slots[s]] = HashOf[x]
        BY <1>1, <2>6, <3>1 DEF Hashes
      <4> QED
        BY <1>3, <3>2, <4>1
    <3>5. p = s
      BY <2>1, <3>2, <3>3, <3>4, ProbeFinds DEF p
    <3> QED
      BY <2>1, <3>1, <3>5
  <2>7. p \in stops
    BY <2>1, <2>5, ProbeEnds DEF p
  <2>8. Find(x) = NoRow \/ (Find(x) \in 1..n /\ rows[Find(x)] = x)
    <3>1. p \in 0..(cap - 1) /\ slots[p] \in 0..n
      BY <1>3, <2>1, <2>7
    <3>2. slots[p] = NoRow \/ rows[slots[p]] = x
      BY <2>3, <2>7, <3>1
    <3> QED
      BY <1>1, <2>1, <3>1, <3>2 DEF NoRow
  <2>9. FindStops(x) # {}
    BY <2>5 DEF stops
  <2>10. {i \in DOMAIN rows : rows[i] = x} = {Find(x)} \ {NoRow}
    <3>1. NoRow \notin 1..n
      BY DEF NoRow
    <3> QED
      BY <1>1, <2>6, <2>8, <3>1
  <2> QED
    BY <2>9, <2>10
<1> QED
  BY <1>5, <1>6

(* Every lookup of a key finds its slot or a free one.                     *)
LEMMA KeyLookups ==
    ASSUME Len(rows) \in Nat, DOMAIN rows = 1..Len(rows),
           IndexOk(IndexState, rows, Len(rows))
    PROVE  IndexExact
<1> DEFINE n == Len(rows)
<1>1. Chained(IndexState, rows, n) /\ IndexState.slots = islots
  BY DEF IndexOk, IndexState
<1>2. PICK cap \in Nat : /\ HoldsKeys(islots, cap)
                         /\ numKeys = Cardinality(Used(islots))
                         /\ cap = 0 \/ (cap > 8 /\ numKeys < cap)
  BY DEF IndexOk, IndexState
<1>3. /\ next \in [1..n -> Nat]
      /\ \A i \in 1..n : Latest(next[i], rows, i - 1, KeyOf[rows[i]])
      /\ \A s \in Used(islots) :
            islots[s].head # NoRow /\ Latest(islots[s].head, rows, n, islots[s].key)
      /\ \A i \in 1..n : \E s \in Used(islots) : islots[s].key = KeyOf[rows[i]]
  BY DEF IndexOk, Chained, IndexState
<1>4. /\ DOMAIN islots = 0..(cap - 1) /\ Used(islots) \subseteq 0..(cap - 1)
      /\ islots \in [0..(cap - 1) -> ISlot]
  BY <1>2 DEF HoldsKeys, Used
<1>5. Capacity(islots) = cap
  BY <1>4, CapacityIs
<1> HIDE DEF n
<1>6. \A i \in DOMAIN next : next[i] < i
  BY <1>3 DEF Latest, OfKey, NoRow, n
<1>7. ASSUME NEW k \in Key
      PROVE  /\ cap > 0 => KeyStops(islots, k) # {}
             /\ Latest(First(k), rows, n, k)
  <2>1. CASE cap = 0
    <3>1. Used(islots) = {} /\ First(k) = NoRow
      BY <1>4, <1>5, <2>1 DEF First
    <3>2. OfKey(rows, n, k) = {}
      BY <1>3, <3>1 DEF OfKey
    <3> QED
      BY <2>1, <3>1, <3>2 DEF Latest
  <2>2. CASE cap # 0
    <3> DEFINE at   == Probe(cap, KeyHash[k], KeyStops(islots, k))
               slot == [used |-> TRUE, key |-> k, head |-> NoRow]
               new  == Put(islots, at, slot)
    <3>1. Cardinality(Used(islots)) < cap
      BY <1>2, <2>2
    <3>2. slot \in ISlot /\ slot.used /\ slot.key = k
      BY DEF ISlot, NoRow
    <3> HIDE DEF at, slot, new
    <3>3. /\ at \in 0..(cap - 1)
          /\ islots[at].used => at \in Used(islots) /\ islots[at].key = k
          /\ ~islots[at].used => \A s \in Used(islots) : islots[s].key # k
      <4>1. at = Probe(cap, KeyHash[k], KeyStops(islots, k)) /\ new = Put(islots, at, slot)
        BY DEF at, new
      <4> QED
        BY <1>2, <3>1, <3>2, <4>1, PutKeeps
    <3>4. KeyStops(islots, k) # {}
      BY <1>4, <3>3 DEF KeyStops
    <3>5. First(k) = IF islots[at].used THEN islots[at].head ELSE NoRow
      BY <1>5, <2>2 DEF First, at
    <3>6. CASE islots[at].used
      BY <1>3, <3>3, <3>4, <3>5, <3>6
    <3>7. CASE ~islots[at].used
      <4>1. OfKey(rows, n, k) = {}
        BY <1>3, <3>3, <3>7 DEF OfKey
      <4> QED
        BY <3>4, <3>5, <3>7, <4>1 DEF Latest
    <3> QED
      BY <3>6, <3>7
  <2> QED
    BY <2>1, <2>2
<1>8. ASSUME NEW k \in Key
      PROVE  Chain(First(k)) = {i \in DOMAIN rows : KeyOf[rows[i]] = k}
  <2>1. Chain(First(k)) = OfKey(rows, n, k)
    <3> DEFINE h == First(k)
    <3>1. Latest(h, rows, n, k) /\ n \in 0..Len(rows)
      BY <1>7 DEF n
    <3> HIDE DEF h
    <3>2. Chain(h) = OfKey(rows, n, k)
      BY <1>1, <3>1, ChainIs DEF n
    <3> QED
      BY <3>2 DEF h
  <2> QED
    BY <2>1 DEF OfKey, n
<1> QED
  BY <1>5, <1>6, <1>7, <1>8 DEF IndexExact

-----------------------------------------------------------------------------
(* The steps. *)

(* Twice the slots of a full array hold one id more.                       *)
LEMMA DoubledRoom ==
    ASSUME NEW n \in Nat, NEW cap \in Nat,
           (cap = 0 /\ n = 0) \/ (cap > 8 /\ n + n \div 8 < cap)
    PROVE  /\ Doubled(cap) \in Nat /\ Doubled(cap) > 8 /\ n + 1 < Doubled(cap)
           /\ (n + 1) + (n + 1) \div 8 < Doubled(cap)
<1>1. (n + 1) \div 8 <= n \div 8 + 1
  OBVIOUS
<1>2. CASE cap = 0 /\ n = 0
  <2>1. Doubled(cap) = InitialCapacity /\ (n + 1) \div 8 = 0
    BY <1>2 DEF Doubled
  <2> QED
    BY <1>2, <2>1, CapacityAssumption
<1>3. CASE cap > 8 /\ n + n \div 8 < cap
  <2>1. Doubled(cap) = 2 * cap
    BY <1>3 DEF Doubled
  <2> QED
    BY <1>1, <1>3, <2>1
<1> QED
  BY <1>2, <1>3

(* The hash set of a log with one more row.                                *)
LEMMA InsertKeeps ==
    ASSUME NEW n \in Nat, NEW log, Len(log) = n + 1, DOMAIN log = 1..(n + 1),
           \A i \in 1..(n + 1) : log[i] \in Row,
           NEW old, \A i \in 1..n : old[i] = HashOf[log[i]],
           NEW sl, NEW c \in Nat, HoldsIds(sl, c, n, old),
           c = 0 \/ (c > 8 /\ n + n \div 8 < c),
           NEW new, new = IF AtLoad(n + 1, Capacity(sl))
                          THEN LinkAll(Doubled(Capacity(sl)), Hashes(log))
                          ELSE LinkId(sl, n + 1, HashOf[log[n + 1]])
    PROVE  \E cap \in Nat : /\ HoldsIds(new, cap, n + 1, Hashes(log))
                            /\ cap > 8 /\ (n + 1) + (n + 1) \div 8 < cap
<1> DEFINE hs == Hashes(log)
<1>1. /\ hs \in Seq(Nat) /\ Len(hs) = n + 1
      /\ \A i \in 1..(n + 1) : hs[i] = HashOf[log[i]] /\ hs[i] \in Nat
  <2>1. hs = [i \in 1..(n + 1) |-> HashOf[log[i]]]
    BY DEF Hashes
  <2>2. \A i \in 1..(n + 1) : HashOf[log[i]] \in Nat
    BY RowStoreParameters
  <2> QED
    BY <2>1, <2>2
<1> HIDE DEF hs
<1>2. DOMAIN sl = 0..(c - 1) /\ Capacity(sl) = c
  BY CapacityIs DEF HoldsIds
<1>3. c = 0 => n = 0
  <2>1. c = 0 => Taken(sl) = {}
    BY <1>2 DEF Taken
  <2> QED
    BY <2>1, FS_EmptySet DEF HoldsIds
<1>4. CASE AtLoad(n + 1, c)
  <2> DEFINE d == Doubled(c)
  <2>1. d \in Nat /\ d > 8 /\ n + 1 < d /\ (n + 1) + (n + 1) \div 8 < d
    BY <1>3, DoubledRoom
  <2> HIDE DEF d
  <2>2. HoldsIds(LinkAll(d, hs), d, n + 1, hs)
    BY <1>1, <2>1, LinkAllHolds
  <2> QED
    BY <1>2, <1>4, <2>1, <2>2 DEF d, hs
<1>5. CASE ~AtLoad(n + 1, c)
  <2>1. n < c /\ c > 8 /\ (n + 1) + (n + 1) \div 8 < c
    BY <1>3, <1>5 DEF AtLoad
  <2>2. HoldsIds(sl, c, n, hs)
    BY <1>1, SameHashes
  <2>3. HoldsIds(LinkId(sl, n + 1, hs[n + 1]), c, n + 1, hs)
    BY <1>1, <2>1, <2>2, LinkKeeps
  <2> QED
    BY <1>1, <1>2, <1>5, <2>1, <2>3 DEF hs
<1> QED
  BY <1>4, <1>5

(* A stored row: only its liveness may change.                             *)
LEMMA StoredKeeps ==
    ASSUME Inv, NEW x \in Row, NEW live \in BOOLEAN, FoldStored(x, live)
    PROVE  Inv'
<1>1. UNCHANGED <<rows, slots, islots, next, numKeys>> /\ IndexState' = IndexState
  BY DEF FoldStored, IndexState
<1>2. alive' \in [1..Len(rows) -> BOOLEAN]
  BY DEF FoldStored, Inv, RowsOk
<1>3. RowsOk'
  BY <1>1, <1>2 DEF Inv, RowsOk
<1> QED
  BY <1>1, <1>3 DEF Inv

(* A new row: stored, it is looked up by its id and chained by its key.    *)
LEMMA NewKeeps ==
    ASSUME Inv, NEW x \in Row, NEW live \in BOOLEAN, FoldNew(x, live)
    PROVE  Inv'
<1> DEFINE n == Len(rows)
<1>1. /\ rows \in Seq(Row) /\ alive \in [1..n -> BOOLEAN] /\ n \in Nat
      /\ \A i, j \in 1..n : rows[i] = rows[j] => i = j
  BY DEF Inv, RowsOk
<1>2. /\ rows' \in Seq(Row) /\ Len(rows') = n + 1 /\ DOMAIN rows' = 1..(n + 1)
      /\ rows'[n + 1] = x /\ \A i \in 1..n : rows'[i] = rows[i]
  BY <1>1 DEF FoldNew
<1>3. alive' \in [1..(n + 1) -> BOOLEAN]
  <2>1. alive \in Seq(BOOLEAN) /\ Len(alive) = n
    BY <1>1
  <2>2. alive' \in Seq(BOOLEAN) /\ Len(alive') = n + 1
    BY <2>1 DEF FoldNew
  <2> QED
    BY <2>2
<1>4. \A i, j \in 1..(n + 1) : rows'[i] = rows'[j] => i = j
  <2>1. \A i \in 1..n : rows[i] # x
    <3>1. FindExact /\ Find(x) = NoRow
      BY RowLookups DEF Inv, FoldNew
    <3>2. {i \in DOMAIN rows : rows[i] = x} = {}
      BY <3>1 DEF FindExact
    <3> QED
      BY <1>1, <3>2
  <2>2. \A i \in 1..(n + 1) : i \in 1..n \/ i = n + 1
    BY <1>1
  <2> QED
    BY <1>1, <1>2, <2>1, <2>2
<1>5. \E cap \in Nat :
         /\ HoldsIds(slots', cap, n + 1, Hashes(rows'))
         /\ cap > 8 /\ (n + 1) + (n + 1) \div 8 < cap
  <2> SUFFICES ASSUME NEW log, log = rows', NEW old, old = Hashes(rows), NEW new, new = slots'
               PROVE  \E cap \in Nat : /\ HoldsIds(new, cap, n + 1, Hashes(log))
                                       /\ cap > 8 /\ (n + 1) + (n + 1) \div 8 < cap
    OBVIOUS
  <2>1. PICK c \in Nat : /\ HoldsIds(slots, c, n, old)
                         /\ c = 0 \/ (c > 8 /\ n + n \div 8 < c)
    BY DEF Inv, RowsOk
  <2>2. \A i \in 1..n : old[i] = HashOf[log[i]]
    BY <1>1, <1>2 DEF Hashes
  <2>3. /\ Len(log) = n + 1 /\ DOMAIN log = 1..(n + 1) /\ log[n + 1] = x
        /\ \A i \in 1..(n + 1) : log[i] \in Row
    BY <1>1, <1>2
  <2>4. new = IF AtLoad(n + 1, Capacity(slots))
              THEN LinkAll(Doubled(Capacity(slots)), Hashes(log))
              ELSE LinkId(slots, n + 1, HashOf[log[n + 1]])
    BY <1>2, <2>3 DEF FoldNew, InsertSlot
  <2> HIDE DEF n
  <2> QED
    BY <1>1, <2>1, <2>2, <2>3, <2>4, InsertKeeps
<1>6. IndexOk(IndexState', rows', n + 1)
  <2> SUFFICES ASSUME NEW log, log = rows', NEW ix, ix = IndexState, NEW ix1, ix1 = IndexState'
               PROVE  IndexOk(ix1, log, n + 1)
    OBVIOUS
  <2>1. IndexOk(ix, rows, n)
    BY DEF Inv
  <2>2. IndexOk(ix, log, n)
    BY <1>1, <1>2, <2>1, SameIndex
  <2>3. KeyOf[log[n + 1]] \in Key /\ log[n + 1] = x
    BY <1>2, RowStoreParameters
  <2> DEFINE add == IndexAdd(ix, KeyOf[log[n + 1]], n + 1)
  <2>4. IndexOk(add, log, n + 1)
    BY <1>1, <2>2, <2>3, IndexAddKeeps
  <2>5. SetIndex(add)
    BY <1>2, <2>3 DEF FoldNew
  <2> HIDE DEF add
  <2>6. ix1.slots = add.slots /\ ix1.next = add.next /\ ix1.numKeys = add.numKeys
    BY <2>5 DEF SetIndex, IndexState
  <2>7. n + 1 \in Nat
    BY <1>1
  <2> QED
    BY <2>4, <2>6, <2>7, SameIndex
<1>7. RowsOk'
  BY <1>2, <1>3, <1>4, <1>5 DEF RowsOk
<1> QED
  BY <1>2, <1>6, <1>7 DEF Inv

(* A compaction: the rows it keeps, renumbered, are looked up by their new *)
(* ids.                                                                    *)
LEMMA CompactKeeps ==
    ASSUME Inv, CompactDead
    PROVE  Inv'
<1> DEFINE n == Len(rows)
           S == DOMAIN rows \ Dead
           kept == Ascending(S)
           m == Cardinality(S)
<1>1. /\ rows \in Seq(Row) /\ alive \in [1..n -> BOOLEAN] /\ n \in Nat /\ DOMAIN rows = 1..n
      /\ \A i, j \in 1..n : rows[i] = rows[j] => i = j
  BY DEF Inv, RowsOk
<1>2. S \in SUBSET Nat /\ S \subseteq 1..n /\ IsFiniteSet(S) /\ m <= n
  <2>1. S \subseteq 1..n
    BY <1>1
  <2> HIDE DEF S, n
  <2>2. IsFiniteSet(1..n) /\ Cardinality(1..n) = n /\ 1..n \in SUBSET Nat
    <3>1. n \in Nat /\ 1 \in Int /\ n \in Int
      BY <1>1
    <3>2. IsFiniteSet(1..n) /\ Cardinality(1..n) = IF 1 > n THEN 0 ELSE n - 1 + 1
      BY <3>1, FS_Interval
    <3> QED
      BY <3>1, <3>2
  <2>3. IsFiniteSet(S) /\ Cardinality(S) <= Cardinality(1..n)
    BY <2>1, <2>2, FS_Subset
  <2> QED
    BY <2>1, <2>2, <2>3
<1>3. /\ m \in Nat /\ kept \in [1..m -> S]
      /\ \A k, j \in 1..m : kept[k] = kept[j] => k = j
  <2> HIDE DEF S
  <2> QED
    BY <1>2, AscendingFacts
<1>4. /\ rows' = [i \in 1..Len(kept) |-> rows[kept[i]]] /\ alive' = Moved(kept)
      /\ slots' = Relinked(rows') /\ SetIndex(Rebuilt(rows'))
  BY DEF CompactDead
<1> HIDE DEF kept, m, n
<1>5. Len(kept) = m
  BY <1>3
<1>6. \A k \in 1..m : kept[k] \in 1..n /\ rows[kept[k]] \in Row /\ alive[kept[k]] \in BOOLEAN
  BY <1>1, <1>2, <1>3
<1> HIDE DEF S
<1>7. /\ rows' \in Seq(Row) /\ Len(rows') = m /\ DOMAIN rows' = 1..m
      /\ \A i \in 1..m : rows'[i] = rows[kept[i]] /\ rows'[i] \in Row
  BY <1>3, <1>4, <1>5, <1>6
<1>8. alive' \in [1..m -> BOOLEAN]
  BY <1>3, <1>4, <1>5, <1>6 DEF Moved
<1>9. \A i, j \in 1..m : rows'[i] = rows'[j] => i = j
  BY <1>1, <1>3, <1>6, <1>7
<1>10. \E cap \in Nat : /\ HoldsIds(slots', cap, m, Hashes(rows'))
                        /\ cap = 0 \/ (cap > 8 /\ m + m \div 8 < cap)
  <2> SUFFICES ASSUME NEW log, log = rows', NEW new, new = slots'
               PROVE  \E cap \in Nat : /\ HoldsIds(new, cap, m, Hashes(log))
                                       /\ cap = 0 \/ (cap > 8 /\ m + m \div 8 < cap)
    OBVIOUS
  <2>1. PICK c \in Nat : /\ HoldsIds(slots, c, n, Hashes(rows))
                         /\ c = 0 \/ (c > 8 /\ n + n \div 8 < c)
    BY DEF Inv, RowsOk, n
  <2>2. DOMAIN slots = 0..(c - 1) /\ Capacity(slots) = c
    BY <2>1, CapacityIs DEF HoldsIds
  <2>3. c = 0 => n = 0
    <3>1. c = 0 => Taken(slots) = {}
      BY <2>2 DEF Taken
    <3> QED
      BY <2>1, <3>1, FS_EmptySet DEF HoldsIds
  <2>4. m \div 8 <= n \div 8
    BY <1>1, <1>2, <1>3
  <2>5. m = 0 \/ m < c
    BY <1>1, <1>2, <1>3, <2>1, <2>3
  <2>6. c = 0 \/ (c > 8 /\ m + m \div 8 < c)
    BY <1>1, <1>2, <1>3, <2>1, <2>4
  <2> DEFINE hs == Hashes(log)
  <2>7. hs \in Seq(Nat) /\ Len(hs) = m
    <3>1. hs = [i \in 1..m |-> HashOf[log[i]]]
      BY <1>7 DEF Hashes
    <3>2. \A i \in 1..m : HashOf[log[i]] \in Nat
      BY <1>7, RowStoreParameters
    <3> QED
      BY <1>3, <3>1, <3>2
  <2>8. new = LinkAll(c, hs)
    BY <1>4, <2>2 DEF Relinked
  <2> HIDE DEF hs
  <2>9. HoldsIds(LinkAll(c, hs), c, m, hs)
    BY <2>5, <2>7, LinkAllHolds
  <2> QED
    BY <2>6, <2>8, <2>9 DEF hs
<1>11. IndexOk(IndexState', rows', m)
  <2> SUFFICES ASSUME NEW log, log = rows', NEW ix, ix = IndexState'
               PROVE  IndexOk(ix, log, m)
    OBVIOUS
  <2>1. PICK c \in Nat : HoldsKeys(islots, c) /\ (c = 0 \/ c > 8)
    BY DEF Inv, IndexOk, IndexState
  <2>2. Capacity(islots) = c
    <3>1. DOMAIN islots = 0..(c - 1)
      BY <2>1 DEF HoldsKeys
    <3> QED
      BY <3>1, CapacityIs
  <2>3. Len(log) = m /\ m \in Nat /\ \A i \in 1..m : KeyOf[log[i]] \in Key
    BY <1>3, <1>7, RowStoreParameters
  <2> DEFINE built == Rebuilt(log)
  <2>4. IndexOk(built, log, m)
    BY <2>1, <2>2, <2>3, RebuiltOk
  <2>5. SetIndex(built)
    BY <1>4
  <2> HIDE DEF built
  <2>6. ix.slots = built.slots /\ ix.next = built.next /\ ix.numKeys = built.numKeys
    BY <2>5 DEF SetIndex, IndexState
  <2> QED
    BY <2>3, <2>4, <2>6, SameIndex
<1>12. RowsOk'
  BY <1>7, <1>8, <1>9, <1>10 DEF RowsOk
<1> QED
  BY <1>7, <1>11, <1>12 DEF Inv

LEMMA Initially ==
    ASSUME Init
    PROVE  Inv
<1>1. rows \in Seq(Row) /\ Len(rows) = 0 /\ DOMAIN rows = 1..0 /\ 1..0 = {}
  BY DEF Init
<1>2. alive \in [1..0 -> BOOLEAN]
  BY DEF Init
<1>3. HoldsIds(slots, 0, 0, Hashes(rows))
  <2>1. slots \in [0..(0 - 1) -> 0..0] /\ Taken(slots) = {}
    BY DEF Init, EmptySlots, Taken
  <2> QED
    BY <2>1, FS_EmptySet DEF HoldsIds
<1>4. IndexOk(IndexState, rows, 0)
  <2>1. /\ IndexState.slots = EmptySlots(0, FreeSlot) /\ IndexState.next = <<>>
        /\ IndexState.numKeys = 0
    BY DEF Init, IndexState
  <2> QED
    BY <2>1, ClearedOk
<1>5. RowsOk
  BY <1>1, <1>2, <1>3 DEF RowsOk
<1> QED
  BY <1>1, <1>4, <1>5 DEF Inv

(* Every lookup of a row and of a key ends and is exact, in every state.   *)
THEOREM Lookups == Spec => []LookupsExact
<1>1. Init => Inv
  BY Initially
<1>2. Inv /\ [Next]_vars => Inv'
  <2> SUFFICES ASSUME Inv, [Next]_vars
               PROVE  Inv'
    OBVIOUS
  <2>1. CASE UNCHANGED vars
    <3>1. UNCHANGED <<rows, alive, slots, islots, next, numKeys>> /\ IndexState' = IndexState
      BY <2>1 DEF vars, IndexState
    <3> QED
      BY <3>1 DEF Inv, RowsOk
  <2>2. CASE \E x \in Row, live \in BOOLEAN : FoldStored(x, live) \/ FoldNew(x, live)
    BY <2>2, StoredKeeps, NewKeeps
  <2>3. CASE CompactDead
    BY <2>3, CompactKeeps
  <2> QED
    BY <2>1, <2>2, <2>3 DEF Next
<1>3. Inv => LookupsExact
  <2> SUFFICES ASSUME Inv
               PROVE  FindExact /\ IndexExact
    BY DEF LookupsExact
  <2>1. FindExact
    BY RowLookups DEF Inv
  <2>2. Len(rows) \in Nat /\ DOMAIN rows = 1..Len(rows)
    BY DEF Inv, RowsOk
  <2>3. IndexExact
    BY <2>2, KeyLookups DEF Inv
  <2> QED
    BY <2>1, <2>3
<1> QED
  BY <1>1, <1>2, <1>3, PTL DEF Spec
=============================================================================
