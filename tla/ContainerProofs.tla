---------------------------- MODULE ContainerProofs ----------------------------
(***************************************************************************)
(* The netting of a batch: set semantics for any rows and vectors of any   *)
(* length.  Aggregates: between batches the table holds the reduction of   *)
(* its input, for any finite input, groups, values and functors, as long   *)
(* as no batch leaves a group whose members are all below its threshold.   *)
(***************************************************************************)
EXTENDS NetBatch, Aggregate, FiniteSetTheorems, TLAPS

-----------------------------------------------------------------------------
(* A set of numbers that has 0, and with a number the next one, has all.   *)
LEMMA Induct ==
    ASSUME NEW N \in Nat, NEW G, 0 \in G, \A n \in 0..(N - 1) : n \in G => n + 1 \in G
    PROVE  \A n \in 0..N : n \in G
<1> DEFINE Bad == {n \in 0..N : n \notin G}
<1>1. ASSUME Bad # {} PROVE FALSE
  <2>1. Bad \subseteq Nat
    OBVIOUS
  <2> HIDE DEF Bad
  <2>2. PICK m \in Bad : \A j \in Bad : ~(<<j, m>> \in OpToRel(<, Nat))
    BY <1>1, <2>1, NatLessThanWellFounded, WFMin
  <2>3. \A j \in Bad : ~(j < m)
    BY <2>1, <2>2 DEF OpToRel
  <2>4. m \in 0..N /\ m \notin G /\ m # 0
    BY DEF Bad
  <2>5. m - 1 \in 0..(N - 1) /\ m - 1 < m /\ m - 1 + 1 = m
    BY <2>4
  <2>6. m - 1 \notin Bad
    BY <2>3, <2>5
  <2>7. m - 1 \in G
    BY <2>5, <2>6 DEF Bad
  <2> QED
    BY <2>4, <2>5, <2>7
<1> QED
  BY <1>1

(* The netting of a batch.                                                 *)

(* Distinct rows d with the bits f of two vectors whose rows are A and R.  *)
Seen(d, f, A, R) ==
    /\ d \in Seq(BatchRow) /\ f \in [1..Len(d) -> SUBSET {InAdds, InRemoves}]
    /\ \A i, j \in 1..Len(d) : d[i] = d[j] => i = j
    /\ \A i \in 1..Len(d) : /\ d[i] \in A \cup R
                            /\ InAdds \in f[i] <=> d[i] \in A
                            /\ InRemoves \in f[i] <=> d[i] \in R
    /\ \A x \in A \cup R : \E i \in 1..Len(d) : d[i] = x

(* The part of a vector that the scan has passed.                          *)
Scanned(vector) == {vector[i] : i \in 1..(scan - 1)}

Scanning ==
    \/ /\ stage = "adds"
       /\ scan \in 1..(Len(adds) + 1)
       /\ Seen(distinct, flags, Scanned(adds), {})
    \/ /\ stage = "removes"
       /\ scan \in 1..(Len(removes) + 1)
       /\ Seen(distinct, flags, ToSet(adds), Scanned(removes))

NetInv ==
    /\ gaveAdds \in Seq(BatchRow) /\ gaveRemoves \in Seq(BatchRow)
    /\ stage # "done" => Scanning /\ adds = gaveAdds /\ removes = gaveRemoves
    /\ SetSemantics

-----------------------------------------------------------------------------
(* A fold of a row adds it to the rows of its vector.                      *)
LEMMA FoldSeen ==
    ASSUME NEW A, NEW R, NEW row \in BatchRow, NEW bit \in {InAdds, InRemoves},
           Seen(distinct, flags, A, R), Fold(row, bit)
    PROVE  Seen(distinct', flags', IF bit = InAdds THEN A \cup {row} ELSE A,
                                   IF bit = InAdds THEN R ELSE R \cup {row})
<1> DEFINE B == IF bit = InAdds THEN A \cup {row} ELSE A
           S == IF bit = InAdds THEN R ELSE R \cup {row}
<1>1. /\ InAdds # InRemoves
      /\ \A x : x \in B <=> x \in A \/ (bit = InAdds /\ x = row)
      /\ \A x : x \in S <=> x \in R \/ (bit = InRemoves /\ x = row)
  BY DEF InAdds, InRemoves
<1> HIDE DEF B, S
<1>2. /\ distinct \in Seq(BatchRow) /\ flags \in [1..Len(distinct) -> SUBSET {InAdds, InRemoves}]
      /\ \A i, j \in 1..Len(distinct) : distinct[i] = distinct[j] => i = j
      /\ \A i \in 1..Len(distinct) : /\ distinct[i] \in A \cup R
                                     /\ InAdds \in flags[i] <=> distinct[i] \in A
                                     /\ InRemoves \in flags[i] <=> distinct[i] \in R
      /\ \A x \in A \cup R : \E i \in 1..Len(distinct) : distinct[i] = x
  BY DEF Seen
<1>3. DOMAIN distinct = 1..Len(distinct) /\ Len(distinct) \in Nat
  BY <1>2
<1>4. ASSUME NEW i \in DOMAIN distinct, distinct[i] = row, UNCHANGED distinct,
             flags' = [flags EXCEPT ![i] = SetBit(@, bit)]
      PROVE  Seen(distinct', flags', B, S)
  <2>1. flags[i] \in SUBSET {InAdds, InRemoves} /\ i \in 1..Len(distinct)
    BY <1>2, <1>3
  <2>2. flags' \in [1..Len(distinct) -> SUBSET {InAdds, InRemoves}]
    BY <1>2, <1>4, <2>1 DEF SetBit
  <2>3. \A j \in 1..Len(distinct) :
            flags'[j] = IF j = i THEN flags[i] \cup {bit} ELSE flags[j]
    BY <1>2, <1>4 DEF SetBit
  <2>4. \A j \in 1..Len(distinct) : distinct[j] = row <=> j = i
    BY <1>2, <1>4, <2>1
  <2>5. \A j \in 1..Len(distinct) : /\ distinct[j] \in B \cup S
                                    /\ InAdds \in flags'[j] <=> distinct[j] \in B
                                    /\ InRemoves \in flags'[j] <=> distinct[j] \in S
    BY <1>1, <1>2, <2>3, <2>4
  <2>6. \A x \in B \cup S : \E j \in 1..Len(distinct) : distinct[j] = x
    BY <1>1, <1>2, <1>4, <2>1
  <2> QED
    BY <1>2, <1>4, <2>2, <2>5, <2>6 DEF Seen
<1>5. ASSUME row \notin ToSet(distinct), distinct' = Append(distinct, row),
             flags' = Append(flags, {bit})
      PROVE  Seen(distinct', flags', B, S)
  <2> DEFINE n == Len(distinct)
  <2>1. n \in Nat /\ \A j \in 1..n : distinct[j] # row
    BY <1>3, <1>5 DEF ToSet
  <2>2. /\ distinct' \in Seq(BatchRow) /\ Len(distinct') = n + 1
        /\ distinct'[n + 1] = row /\ \A j \in 1..n : distinct'[j] = distinct[j]
    BY <1>2, <1>5
  <2>3. flags \in Seq(SUBSET {InAdds, InRemoves}) /\ Len(flags) = n
    BY <1>2, <2>1
  <2>4. {bit} \in SUBSET {InAdds, InRemoves}
    OBVIOUS
  <2>5. /\ flags' \in [1..(n + 1) -> SUBSET {InAdds, InRemoves}]
        /\ flags'[n + 1] = {bit} /\ \A j \in 1..n : flags'[j] = flags[j]
    <3> DEFINE T == SUBSET {InAdds, InRemoves}
               e == {bit}
    <3>1. flags \in Seq(T) /\ e \in T /\ flags' = Append(flags, e)
      BY <1>5, <2>3, <2>4
    <3> HIDE DEF T, e, n
    <3>2. /\ flags' \in Seq(T) /\ Len(flags') = n + 1
          /\ flags'[n + 1] = e /\ \A j \in 1..n : flags'[j] = flags[j]
      BY <2>1, <2>3, <3>1
    <3>3. flags' \in [1..(n + 1) -> T]
      BY <3>2
    <3> QED
      BY <3>2, <3>3 DEF T, e
  <2>6. row \notin A \cup R
    BY <1>2, <2>1
  <2> HIDE DEF n
  <2>7. \A j \in 1..(n + 1) : j = n + 1 \/ j \in 1..n
    BY <2>1
  <2>8. \A i, j \in 1..(n + 1) : distinct'[i] = distinct'[j] => i = j
    BY <1>2, <2>1, <2>2, <2>7 DEF n
  <2>9. \A j \in 1..n : /\ distinct'[j] \in B \cup S
                        /\ InAdds \in flags'[j] <=> distinct'[j] \in B
                        /\ InRemoves \in flags'[j] <=> distinct'[j] \in S
    BY <1>1, <1>2, <2>1, <2>2, <2>5 DEF n
  <2>10. /\ distinct'[n + 1] \in B \cup S
         /\ InAdds \in flags'[n + 1] <=> distinct'[n + 1] \in B
         /\ InRemoves \in flags'[n + 1] <=> distinct'[n + 1] \in S
    BY <1>1, <2>2, <2>5, <2>6
  <2>11. \A j \in 1..(n + 1) : /\ distinct'[j] \in B \cup S
                               /\ InAdds \in flags'[j] <=> distinct'[j] \in B
                               /\ InRemoves \in flags'[j] <=> distinct'[j] \in S
    BY <2>7, <2>9, <2>10
  <2>12. ASSUME NEW x \in B \cup S
         PROVE  \E j \in 1..(n + 1) : distinct'[j] = x
    <3>1. CASE x = row
      <4>1. n + 1 \in 1..(n + 1)
        BY <2>1
      <4> QED
        BY <2>2, <3>1, <4>1
    <3>2. CASE x # row
      <4>1. PICK j \in 1..n : distinct[j] = x
        BY <1>1, <1>2, <3>2 DEF n
      <4>2. j \in 1..(n + 1)
        BY <2>1
      <4> QED
        BY <2>2, <4>1, <4>2
    <3> QED
      BY <3>1, <3>2
  <2> QED
    BY <2>2, <2>5, <2>8, <2>11, <2>12 DEF Seen
<1>6. Seen(distinct', flags', B, S)
  BY <1>4, <1>5 DEF Fold
<1> QED
  BY <1>6 DEF B, S

(* The scan passes one more row of a vector.                               *)
LEMMA ScanOne ==
    ASSUME NEW vector \in Seq(BatchRow), scan \in 1..Len(vector), scan' = scan + 1
    PROVE  /\ vector[scan] \in BatchRow
           /\ scan' \in 1..(Len(vector) + 1)
           /\ {vector[i] : i \in 1..(scan' - 1)} = Scanned(vector) \cup {vector[scan]}
<1>1. scan \in Nat /\ scan' - 1 = scan /\ Len(vector) \in Nat
  OBVIOUS
<1>2. \A i : i \in 1..(scan' - 1) <=> i \in 1..(scan - 1) \/ i = scan
  BY <1>1
<1> QED
  BY <1>1, <1>2 DEF Scanned

(* A vector that was scanned to its end.                                   *)
LEMMA ScannedAll ==
    ASSUME NEW vector \in Seq(BatchRow), scan = Len(vector) + 1
    PROVE  Scanned(vector) = ToSet(vector)
<1>1. scan - 1 = Len(vector) /\ DOMAIN vector = 1..Len(vector)
  OBVIOUS
<1> QED
  BY <1>1 DEF Scanned, ToSet

(* A sequence that repeats nothing is as long as it has elements.          *)
LEMMA NoRepeats ==
    ASSUME NEW s \in Seq(BatchRow), \A i, j \in 1..Len(s) : s[i] = s[j] => i = j
    PROVE  Len(s) = Cardinality(ToSet(s))
<1>1. Len(s) \in Nat /\ DOMAIN s = 1..Len(s) /\ s \in [1..Len(s) -> BatchRow]
  OBVIOUS
<1>2. IsFiniteSet(1..Len(s)) /\ Cardinality(1..Len(s)) = Len(s)
  BY <1>1, FS_Interval
<1>3. s \in [1..Len(s) -> ToSet(s)] /\ \A x \in ToSet(s) : \E i \in 1..Len(s) : s[i] = x
  BY <1>1 DEF ToSet
<1>4. s \in Surjection(1..Len(s), ToSet(s)) /\ s \in Injection(1..Len(s), ToSet(s))
  BY <1>3 DEF Surjection, Injection, IsInjective
<1> QED
  BY <1>2, <1>4, FS_Surjection

(* The definition of the selection has a solution.                         *)
Kept(f, m, bits) ==
    f = [n \in 0..m |->
            IF n = 0 THEN <<>>
            ELSE IF flags[n] = bits THEN Append(f[n - 1], distinct[n])
            ELSE f[n - 1]]

LEMMA KeptExists ==
    ASSUME NEW N \in Nat, NEW bits
    PROVE  \E f : Kept(f, N, bits)
<1> DEFINE G == {m \in Nat : \E f : Kept(f, m, bits)}
<1>1. 0 \in G
  <2> DEFINE g == [n \in 0..0 |-> <<>>]
  <2>1. Kept(g, 0, bits)
    BY DEF Kept
  <2> QED
    BY <2>1
<1>2. ASSUME NEW m \in 0..(N - 1), m \in G
      PROVE  m + 1 \in G
  <2>1. PICK f : Kept(f, m, bits)
    BY <1>2
  <2> DEFINE g == [n \in 0..(m + 1) |->
                      IF n = m + 1 THEN (IF flags[m + 1] = bits
                                         THEN Append(f[m], distinct[m + 1]) ELSE f[m])
                      ELSE f[n]]
  <2>2. \A n \in 0..m : n \in 0..(m + 1) /\ n # m + 1
    OBVIOUS
  <2>3. \A n \in 0..m : g[n] = f[n]
    BY <2>2
  <2>4. \A n \in 0..m : f[n] = IF n = 0 THEN <<>>
                               ELSE IF flags[n] = bits THEN Append(f[n - 1], distinct[n])
                               ELSE f[n - 1]
    BY <2>1 DEF Kept
  <2>5. g[m + 1] = IF flags[m + 1] = bits THEN Append(f[m], distinct[m + 1]) ELSE f[m]
    OBVIOUS
  <2>6. DOMAIN g = 0..(m + 1) /\ g = [n \in 0..(m + 1) |-> g[n]]
    OBVIOUS
  <2> HIDE DEF g
  <2>7. ASSUME NEW n \in 0..(m + 1)
        PROVE  g[n] = IF n = 0 THEN <<>>
                      ELSE IF flags[n] = bits THEN Append(g[n - 1], distinct[n])
                      ELSE g[n - 1]
    <3>1. CASE n = m + 1
      <4>1. n # 0 /\ n - 1 = m /\ m \in 0..m
        BY <3>1
      <4> QED
        BY <2>3, <2>5, <3>1, <4>1
    <3>2. CASE n # m + 1
      <4>1. n \in 0..m /\ (n # 0 => n - 1 \in 0..m)
        BY <3>2
      <4> QED
        BY <2>3, <2>4, <4>1
    <3> QED
      BY <3>1, <3>2
  <2>8. Kept(g, m + 1, bits)
    BY <2>6, <2>7 DEF Kept
  <2> QED
    BY <2>8
<1>3. N \in G
  <2> HIDE DEF G
  <2> QED
    BY <1>1, <1>2, Induct
<1> QED
  BY <1>3

(* A selection has, once each, the rows with exactly its bits.             *)
LEMMA Selected ==
    ASSUME NEW A, NEW R, Seen(distinct, flags, A, R), NEW bits
    PROVE  LET s == SelectByFlags(bits)
           IN  /\ Len(s) = Cardinality(ToSet(s))
               /\ ToSet(s) = {distinct[i] : i \in {k \in 1..Len(distinct) : flags[k] = bits}}
<1> DEFINE N == Len(distinct)
           f == CHOOSE g : Kept(g, N, bits)
           Have(n) == {distinct[i] : i \in {k \in 1..n : flags[k] = bits}}
<1>1. /\ distinct \in Seq(BatchRow) /\ N \in Nat /\ \A i \in 1..N : distinct[i] \in BatchRow
      /\ \A i, j \in 1..N : distinct[i] = distinct[j] => i = j
  BY DEF Seen
<1>2. Kept(f, N, bits)
  BY <1>1, KeptExists
<1>3. SelectByFlags(bits) = f[N]
  BY DEF SelectByFlags, Kept
<1> HIDE DEF f, N
<1>4. f[0] = <<>> /\ \A n \in 1..N : f[n] = IF flags[n] = bits
                                           THEN Append(f[n - 1], distinct[n]) ELSE f[n - 1]
  <2>1. \A n \in 0..N : f[n] = IF n = 0 THEN <<>>
                               ELSE IF flags[n] = bits THEN Append(f[n - 1], distinct[n])
                               ELSE f[n - 1]
    BY <1>2 DEF Kept
  <2> QED
    BY <1>1, <2>1
<1> DEFINE Good(n) == /\ f[n] \in Seq(BatchRow)
                      /\ \A i, j \in 1..Len(f[n]) : f[n][i] = f[n][j] => i = j
                      /\ ToSet(f[n]) = Have(n)
           G == {n \in Nat : Good(n)}
<1>5. 0 \in G
  <2>1. Have(0) = {}
    OBVIOUS
  <2>2. ToSet(<<>>) = {} /\ <<>> \in Seq(BatchRow) /\ Len(<<>>) = 0 /\ 1..0 = {}
    BY DEF ToSet
  <2> HIDE DEF Have
  <2> QED
    BY <1>4, <2>1, <2>2
<1>6. ASSUME NEW n \in 0..(N - 1), n \in G
      PROVE  n + 1 \in G
  <2>1. n \in Nat /\ n + 1 \in 1..N /\ n + 1 - 1 = n
    BY <1>1
  <2>2. f[n + 1] = IF flags[n + 1] = bits THEN Append(f[n], distinct[n + 1]) ELSE f[n]
    BY <1>4, <2>1
  <2>3. \A k : k \in 1..(n + 1) <=> k \in 1..n \/ k = n + 1
    BY <2>1
  <2>4. CASE flags[n + 1] # bits
    <3>1. Have(n + 1) = Have(n)
      BY <2>3, <2>4
    <3> QED
      BY <1>6, <2>1, <2>2, <2>4, <3>1
  <2>5. CASE flags[n + 1] = bits
    <3> DEFINE x == distinct[n + 1]
               s == f[n]
               t == f[n + 1]
               m == Len(s)
    <3>1. Have(n + 1) = Have(n) \cup {x}
      BY <2>3, <2>5
    <3>2. x \notin Have(n) /\ x \in BatchRow
      <4>1. \A k \in 1..n : k \in 1..N /\ k # n + 1
        BY <1>1, <2>1
      <4> QED
        BY <1>1, <2>1, <4>1
    <3>3. /\ s \in Seq(BatchRow) /\ m \in Nat /\ ToSet(s) = Have(n)
          /\ \A i, j \in 1..m : s[i] = s[j] => i = j
      BY <1>6
    <3>4. t = Append(s, x)
      BY <2>2, <2>5
    <3> HIDE DEF x, s, t, m, Have
    <3>5. /\ t \in Seq(BatchRow) /\ Len(t) = m + 1
          /\ t[m + 1] = x /\ \A i \in 1..m : t[i] = s[i]
      BY <3>2, <3>3, <3>4 DEF m
    <3>6. \A i : i \in 1..(m + 1) <=> i \in 1..m \/ i = m + 1
      BY <3>3
    <3>7. \A i \in 1..m : s[i] \in ToSet(s)
      BY <3>3 DEF ToSet, m
    <3>8. \A i, j \in 1..Len(t) : t[i] = t[j] => i = j
      BY <3>2, <3>3, <3>5, <3>6, <3>7
    <3>9. ToSet(t) = ToSet(s) \cup {x}
      <4>1. DOMAIN t = 1..(m + 1) /\ DOMAIN s = 1..m
        BY <3>3, <3>5 DEF m
      <4> QED
        BY <3>5, <3>6, <4>1 DEF ToSet
    <3>10. ToSet(t) = Have(n + 1)
      BY <3>1, <3>3, <3>9
    <3>11. Good(n + 1)
      BY <3>5, <3>8, <3>10 DEF t
    <3> QED
      BY <2>1, <3>11
  <2> QED
    BY <2>4, <2>5
<1>7. N \in G
  <2> HIDE DEF G
  <2>1. \A n \in 0..N : n \in G
    BY <1>1, <1>5, <1>6, Induct
  <2> QED
    BY <1>1, <2>1
<1>8. f[N] \in Seq(BatchRow) /\ Len(f[N]) = Cardinality(ToSet(f[N]))
  BY <1>7, NoRepeats
<1> QED
  BY <1>3, <1>7, <1>8 DEF N

-----------------------------------------------------------------------------
LEMMA NetInitially == NetInit => NetInv
<1> SUFFICES ASSUME NetInit PROVE NetInv
  OBVIOUS
<1>1. /\ adds \in Seq(BatchRow) /\ removes \in Seq(BatchRow)
      /\ distinct = <<>> /\ flags = <<>> /\ scan = 1 /\ stage = "adds"
      /\ gaveAdds = adds /\ gaveRemoves = removes
  BY DEF NetInit, Vectors
<1>2. 1..(scan - 1) = {} /\ Len(<<>>) = 0 /\ 1..0 = {} /\ <<>> \in Seq(BatchRow)
  BY <1>1
<1>3. Scanned(adds) = {}
  BY <1>2 DEF Scanned
<1>4. flags \in [1..Len(distinct) -> SUBSET {InAdds, InRemoves}]
  BY <1>1, <1>2
<1>5. Seen(distinct, flags, Scanned(adds), {})
  BY <1>1, <1>2, <1>3, <1>4 DEF Seen
<1>6. scan \in 1..(Len(adds) + 1)
  BY <1>1
<1> QED
  BY <1>1, <1>5, <1>6 DEF NetInv, Scanning, SetSemantics

LEMMA FoldAddsKeeps == NetInv /\ FoldAdds => NetInv'
<1> SUFFICES ASSUME NetInv, FoldAdds PROVE NetInv'
  OBVIOUS
<1>1. /\ stage = "adds" /\ adds = gaveAdds /\ removes = gaveRemoves
      /\ adds \in Seq(BatchRow) /\ removes \in Seq(BatchRow)
      /\ UNCHANGED <<adds, removes, gaveAdds, gaveRemoves>>
      /\ scan \in 1..(Len(adds) + 1) /\ Seen(distinct, flags, Scanned(adds), {})
  BY DEF NetInv, Scanning, FoldAdds
<1>2. CASE scan <= Len(adds)
  <2>1. /\ Fold(adds[scan], InAdds) /\ scan' = scan + 1 /\ stage' = "adds"
        /\ scan \in 1..Len(adds)
    BY <1>1, <1>2 DEF FoldAdds
  <2>2. /\ adds[scan] \in BatchRow /\ scan' \in 1..(Len(adds) + 1)
        /\ {adds[i] : i \in 1..(scan' - 1)} = Scanned(adds) \cup {adds[scan]}
    BY <1>1, <2>1, ScanOne
  <2>3. Seen(distinct', flags', Scanned(adds) \cup {adds[scan]}, {})
    BY <1>1, <2>1, <2>2, FoldSeen
  <2>4. Scanned(adds)' = Scanned(adds) \cup {adds[scan]}
    BY <1>1, <2>2 DEF Scanned
  <2>5. Scanning'
    BY <1>1, <2>1, <2>2, <2>3, <2>4 DEF Scanning
  <2> QED
    BY <1>1, <2>1, <2>5 DEF NetInv, SetSemantics
<1>3. CASE ~(scan <= Len(adds))
  <2>1. /\ stage' = "removes" /\ scan' = 1 /\ UNCHANGED <<distinct, flags>>
        /\ scan = Len(adds) + 1
    BY <1>1, <1>3 DEF FoldAdds
  <2>2. Seen(distinct, flags, ToSet(adds), {})
    BY <1>1, <2>1, ScannedAll
  <2>3. Scanned(removes)' = {}
    BY <2>1 DEF Scanned
  <2>4. ToSet(adds)' = ToSet(adds)
    BY <1>1 DEF ToSet
  <2>5. Seen(distinct, flags, ToSet(adds), Scanned(removes))'
    BY <2>1, <2>2, <2>3, <2>4 DEF Seen
  <2>6. scan' \in 1..(Len(removes') + 1)
    BY <1>1, <2>1
  <2>7. Scanning'
    BY <2>1, <2>5, <2>6 DEF Scanning
  <2> QED
    BY <1>1, <2>1, <2>7 DEF NetInv, SetSemantics
<1> QED
  BY <1>2, <1>3

LEMMA FoldRemovesKeeps == NetInv /\ FoldRemoves => NetInv'
<1> SUFFICES ASSUME NetInv, FoldRemoves PROVE NetInv'
  OBVIOUS
<1>1. /\ stage = "removes" /\ adds = gaveAdds /\ removes = gaveRemoves
      /\ adds \in Seq(BatchRow) /\ removes \in Seq(BatchRow)
      /\ UNCHANGED <<adds, removes, stage, gaveAdds, gaveRemoves>>
      /\ scan \in 1..(Len(removes) + 1)
      /\ Seen(distinct, flags, ToSet(adds), Scanned(removes))
  BY DEF NetInv, Scanning, FoldRemoves
<1>2. /\ Fold(removes[scan], InRemoves) /\ scan' = scan + 1 /\ scan \in 1..Len(removes)
  BY <1>1 DEF FoldRemoves
<1>3. /\ removes[scan] \in BatchRow /\ scan' \in 1..(Len(removes) + 1)
      /\ {removes[i] : i \in 1..(scan' - 1)} = Scanned(removes) \cup {removes[scan]}
  BY <1>1, <1>2, ScanOne
<1>4. Seen(distinct', flags', ToSet(adds), Scanned(removes) \cup {removes[scan]})
  <2>1. InRemoves \in {InAdds, InRemoves} /\ InRemoves # InAdds
    BY DEF InAdds, InRemoves
  <2> QED
    BY <1>1, <1>2, <1>3, <2>1, FoldSeen
<1>5. Scanned(removes)' = Scanned(removes) \cup {removes[scan]}
  BY <1>1, <1>3 DEF Scanned
<1>6. ToSet(adds)' = ToSet(adds)
  BY <1>1 DEF ToSet
<1>7. Scanning'
  BY <1>1, <1>3, <1>4, <1>5, <1>6 DEF Scanning
<1> QED
  BY <1>1, <1>7 DEF NetInv, SetSemantics

LEMMA RewriteKeeps == NetInv /\ Rewrite => NetInv'
<1> SUFFICES ASSUME NetInv, Rewrite PROVE NetInv'
  OBVIOUS
<1>1. /\ adds = gaveAdds /\ removes = gaveRemoves /\ removes \in Seq(BatchRow)
      /\ scan \in 1..(Len(removes) + 1) /\ ~(scan <= Len(removes))
      /\ Seen(distinct, flags, ToSet(adds), Scanned(removes))
      /\ adds' = SelectByFlags({InAdds}) /\ removes' = SelectByFlags({InRemoves})
      /\ UNCHANGED <<gaveAdds, gaveRemoves>> /\ stage' = "done"
  BY DEF NetInv, Scanning, Rewrite
<1>2. Seen(distinct, flags, ToSet(adds), ToSet(removes))
  BY <1>1, ScannedAll
<1> DEFINE With(bits) == {distinct[i] : i \in {k \in 1..Len(distinct) : flags[k] = bits}}
<1>3. /\ Len(adds') = Cardinality(ToSet(adds')) /\ ToSet(adds') = With({InAdds})
      /\ Len(removes') = Cardinality(ToSet(removes')) /\ ToSet(removes') = With({InRemoves})
  BY <1>1, <1>2, Selected
<1>4. /\ \A i \in 1..Len(distinct) :
             /\ flags[i] \in SUBSET {InAdds, InRemoves}
             /\ distinct[i] \in ToSet(adds) \cup ToSet(removes)
             /\ InAdds \in flags[i] <=> distinct[i] \in ToSet(adds)
             /\ InRemoves \in flags[i] <=> distinct[i] \in ToSet(removes)
      /\ \A x \in ToSet(adds) \cup ToSet(removes) : \E i \in 1..Len(distinct) : distinct[i] = x
  BY <1>2 DEF Seen
<1>5. InAdds # InRemoves
  BY DEF InAdds, InRemoves
<1>6. \A i \in 1..Len(distinct) :
          /\ flags[i] = {InAdds} <=>
                distinct[i] \in ToSet(adds) /\ distinct[i] \notin ToSet(removes)
          /\ flags[i] = {InRemoves} <=>
                distinct[i] \in ToSet(removes) /\ distinct[i] \notin ToSet(adds)
  BY <1>4, <1>5
<1>7. With({InAdds}) = ToSet(adds) \ ToSet(removes)
  BY <1>4, <1>6
<1>8. With({InRemoves}) = ToSet(removes) \ ToSet(adds)
  BY <1>4, <1>6
<1> HIDE DEF With
<1>9. SetSemantics'
  <2>1. ToSet(gaveAdds') = ToSet(adds) /\ ToSet(gaveRemoves') = ToSet(removes)
    BY <1>1
  <2> QED
    BY <1>3, <1>7, <1>8, <2>1 DEF SetSemantics, ToSet
<1> QED
  BY <1>1, <1>9 DEF NetInv

(* A netted batch has, once each, the rows that were only added and those  *)
(* that were only removed.                                                 *)
THEOREM Netted == NetSpec => []SetSemantics
<1>1. NetInit => NetInv
  BY NetInitially
<1>2. NetInv /\ [NetNext]_netVars => NetInv'
  <2> SUFFICES ASSUME NetInv, [NetNext]_netVars PROVE NetInv'
    OBVIOUS
  <2>1. CASE UNCHANGED netVars
    <3>1. UNCHANGED <<adds, removes, distinct, flags, scan, stage, gaveAdds, gaveRemoves>>
      BY <2>1 DEF netVars
    <3>2. /\ Scanned(adds)' = Scanned(adds) /\ Scanned(removes)' = Scanned(removes)
          /\ ToSet(adds)' = ToSet(adds) /\ ToSet(removes)' = ToSet(removes)
      BY <3>1 DEF Scanned
    <3>3. Scanning => Scanning'
      BY <3>1, <3>2 DEF Scanning
    <3>4. SetSemantics => SetSemantics'
      BY <3>1, <3>2 DEF SetSemantics
    <3> QED
      BY <3>1, <3>3, <3>4 DEF NetInv
  <2> QED
    BY <2>1, FoldAddsKeeps, FoldRemovesKeeps, RewriteKeeps DEF NetNext
<1>3. NetInv => SetSemantics
  BY DEF NetInv
<1> QED
  BY <1>1, <1>2, <1>3, PTL DEF NetSpec

-----------------------------------------------------------------------------
(* A finite set of numbers that is not empty has a largest.                *)
LEMMA MaxFacts ==
    ASSUME NEW S \in SUBSET Int, IsFiniteSet(S), S # {}
    PROVE  Max(S) \in S /\ \A y \in S : y <= Max(S)
<1> DEFINE Has(T) == \E x \in T : \A y \in T : x >= y
           G == {n \in Nat : \A T \in SUBSET S : Cardinality(T) = n /\ T # {} => Has(T)}
<1>1. \A T \in SUBSET S : IsFiniteSet(T) /\ Cardinality(T) \in Nat
  BY FS_Subset, FS_CardinalityType
<1>2. 0 \in G
  BY <1>1, FS_EmptySet
<1>3. ASSUME NEW n \in 0..(Cardinality(S) - 1), n \in G
      PROVE  n + 1 \in G
  <2>1. SUFFICES ASSUME NEW T \in SUBSET S, Cardinality(T) = n + 1, T # {}
                 PROVE  Has(T)
    OBVIOUS
  <2>2. PICK z \in T : TRUE
    BY <2>1
  <2>3. Cardinality(T \ {z}) = n /\ T \ {z} \in SUBSET S
    <3>1. IsFiniteSet(T) /\ Cardinality(T) = n + 1 /\ n \in Int
      BY <1>1, <2>1
    <3>2. Cardinality(T \ {z}) = Cardinality(T) - 1
      BY <2>2, <3>1, FS_RemoveElement
    <3> QED
      BY <3>1, <3>2
  <2>4. CASE T \ {z} = {}
    <3>1. \A y \in T : y = z
      BY <2>4
    <3> QED
      BY <2>2, <3>1
  <2>5. CASE T \ {z} # {}
    <3>1. Has(T \ {z})
      BY <1>3, <2>3, <2>5
    <3>2. PICK x \in T \ {z} : \A y \in T \ {z} : x >= y
      BY <3>1
    <3>3. x \in Int /\ z \in Int /\ \A y \in T : y \in Int
      BY <2>1, <2>2
    <3>4. CASE x >= z
      <4>1. \A y \in T : x >= y
        BY <3>2, <3>4
      <4> QED
        BY <4>1
    <3>5. CASE z > x
      <4>1. \A y \in T : z >= y
        BY <3>2, <3>3, <3>5
      <4> QED
        BY <2>2, <4>1
    <3> QED
      BY <3>3, <3>4, <3>5
  <2> QED
    BY <2>4, <2>5
<1>4. Cardinality(S) \in G
  <2> HIDE DEF G
  <2> QED
    BY <1>1, <1>2, <1>3, Induct
<1>5. Has(S)
  BY <1>4
<1> HIDE DEF Has
<1>6. Max(S) \in S /\ \A y \in S : Max(S) >= y
  BY <1>5 DEF Max, Has
<1> QED
  BY <1>6

-----------------------------------------------------------------------------
(* Sums over sets of rows.  The sum takes the elements in an order of its  *)
(* own; Fold is what its definition says of all the sets within U.         *)
Taken(S) == CHOOSE x \in S : TRUE
Rest(S) == S \ {Taken(S)}
Added(f, S) == IF S = {} THEN 0 ELSE ValueOf[Taken(S)] + f[Rest(S)]
SumsAll(f, U) == f = [S \in SUBSET U |-> Added(f, S)]

Valued(U) == IsFiniteSet(U) /\ \A x \in U : ValueOf[x] \in Int

LEMMA RestFacts ==
    ASSUME NEW S, IsFiniteSet(S), S # {}
    PROVE  /\ Taken(S) \in S /\ Rest(S) \subseteq S /\ IsFiniteSet(Rest(S))
           /\ Cardinality(S) \in Nat \ {0} /\ Cardinality(Rest(S)) = Cardinality(S) - 1
<1>1. Taken(S) \in S
  BY DEF Taken
<1>2. Cardinality(S) \in Nat /\ Cardinality(S) # 0
  BY FS_CardinalityType, FS_EmptySet
<1> QED
  BY <1>1, <1>2, FS_RemoveElement DEF Rest

LEMMA SumsExist ==
    ASSUME NEW U, IsFiniteSet(U)
    PROVE  \E f : SumsAll(f, U)
<1> DEFINE N == Cardinality(U)
           Upto(f, n) == \A S \in SUBSET U : Cardinality(S) <= n => f[S] = Added(f, S)
           G == {n \in Nat : \E f : Upto(f, n)}
<1>1. /\ N \in Nat
      /\ \A S \in SUBSET U : /\ IsFiniteSet(S) /\ Cardinality(S) \in Nat /\ Cardinality(S) <= N
                             /\ S # {} => /\ Rest(S) \in SUBSET U
                                           /\ Cardinality(Rest(S)) = Cardinality(S) - 1
                             /\ Cardinality(S) = 0 <=> S = {}
  BY FS_Subset, FS_CardinalityType, FS_EmptySet, RestFacts
<1> HIDE DEF N
<1>2. 0 \in G
  <2> DEFINE g == [S \in SUBSET U |-> 0]
  <2>1. ASSUME NEW S \in SUBSET U, Cardinality(S) <= 0
        PROVE  g[S] = Added(g, S)
    <3>1. S = {}
      BY <1>1, <2>1
    <3> QED
      BY <3>1 DEF Added
  <2>2. Upto(g, 0)
    BY <2>1
  <2> HIDE DEF g, Upto
  <2> QED
    BY <2>2
<1>3. ASSUME NEW n \in 0..(N - 1), n \in G
      PROVE  n + 1 \in G
  <2>1. PICK f : Upto(f, n)
    BY <1>3
  <2> DEFINE g == [S \in SUBSET U |-> IF Cardinality(S) <= n THEN f[S] ELSE Added(f, S)]
  <2>2. \A S \in SUBSET U : g[S] = IF Cardinality(S) <= n THEN f[S] ELSE Added(f, S)
    OBVIOUS
  <2> HIDE DEF g
  <2>3. ASSUME NEW S \in SUBSET U, Cardinality(S) <= n + 1
        PROVE  g[S] = Added(g, S)
    <3>1. g[S] = Added(f, S)
      BY <2>1, <2>2
    <3>2. S # {} => g[Rest(S)] = f[Rest(S)]
      BY <1>1, <2>2, <2>3
    <3> QED
      BY <3>1, <3>2 DEF Added
  <2>4. Upto(g, n + 1)
    BY <2>3
  <2> HIDE DEF Upto
  <2> QED
    BY <2>4
<1>4. N \in G
  <2> HIDE DEF G
  <2> QED
    BY <1>1, <1>2, <1>3, Induct
<1>5. PICK f : Upto(f, N)
  BY <1>4
<1> DEFINE h == [S \in SUBSET U |-> f[S]]
<1>6. \A S \in SUBSET U : h[S] = f[S]
  OBVIOUS
<1>7. DOMAIN h = SUBSET U /\ h = [S \in SUBSET U |-> h[S]]
  OBVIOUS
<1> HIDE DEF h
<1>8. ASSUME NEW S \in SUBSET U
      PROVE  h[S] = Added(h, S)
  <2>1. h[S] = Added(f, S)
    BY <1>1, <1>5, <1>6
  <2>2. S # {} => h[Rest(S)] = f[Rest(S)]
    BY <1>1, <1>6
  <2> QED
    BY <2>1, <2>2 DEF Added
<1>9. SumsAll(h, U)
  BY <1>7, <1>8 DEF SumsAll
<1> QED
  BY <1>9

(* What holds of the empty set, and of a set when it holds of the rest of  *)
(* it, holds of every finite set.                                          *)
LEMMA SetInduct ==
    ASSUME NEW U, IsFiniteSet(U), NEW H, {} \in H,
           \A S \in SUBSET U : S # {} /\ Rest(S) \in H => S \in H
    PROVE  \A S \in SUBSET U : S \in H
<1> DEFINE G == {n \in Nat : \A S \in SUBSET U : Cardinality(S) = n => S \in H}
<1>1. \A S \in SUBSET U : /\ IsFiniteSet(S) /\ Cardinality(S) \in Nat
                          /\ Cardinality(S) <= Cardinality(U)
                          /\ Cardinality(S) = 0 <=> S = {}
                          /\ S # {} => /\ Rest(S) \in SUBSET U
                                        /\ Cardinality(Rest(S)) = Cardinality(S) - 1
  BY FS_Subset, FS_CardinalityType, FS_EmptySet, RestFacts
<1>2. 0 \in G
  BY <1>1
<1>3. ASSUME NEW n \in 0..(Cardinality(U) - 1), n \in G
      PROVE  n + 1 \in G
  <2>1. ASSUME NEW S \in SUBSET U, Cardinality(S) = n + 1
        PROVE  S \in H
    <3>1. S # {} /\ Cardinality(Rest(S)) = n
      BY <1>1, <2>1
    <3> QED
      BY <1>1, <1>3, <3>1
  <2> QED
    BY <2>1
<1>4. \A n \in 0..Cardinality(U) : n \in G
  <2> HIDE DEF G
  <2>1. Cardinality(U) \in Nat
    BY <1>1
  <2> QED
    BY <1>2, <1>3, <2>1, Induct
<1> QED
  BY <1>1, <1>4

LEMMA SumIs ==
    ASSUME NEW U
    PROVE  SumOf(U) = (CHOOSE f : SumsAll(f, U))[U]
  BY DEF SumOf, SumsAll, Added, Rest, Taken, MapThenSumSet, MapThenFoldSet

(* The sums within a set are those within a larger one.                    *)
LEMMA SameSums ==
    ASSUME NEW U, IsFiniteSet(U), NEW S \in SUBSET U, NEW f, NEW h,
           SumsAll(f, U), SumsAll(h, S)
    PROVE  \A T \in SUBSET S : h[T] = f[T]
<1> DEFINE H == {T \in SUBSET S : h[T] = f[T]}
<1>1. \A T \in SUBSET S : T \in SUBSET U /\ h[T] = Added(h, T) /\ f[T] = Added(f, T)
  BY DEF SumsAll
<1>2. {} \in H
  BY <1>1 DEF Added
<1>3. ASSUME NEW T \in SUBSET S, T # {} /\ Rest(T) \in H
      PROVE  T \in H
  BY <1>1, <1>3 DEF Added
<1>4. IsFiniteSet(S)
  BY FS_Subset
<1> HIDE DEF H
<1>5. \A T \in SUBSET S : T \in H
  BY <1>2, <1>3, <1>4, SetInduct
<1> QED
  BY <1>5 DEF H

(* A sum is that of the rest and one more value.                           *)
LEMMA SumRest ==
    ASSUME NEW S, IsFiniteSet(S)
    PROVE  SumOf(S) = IF S = {} THEN 0 ELSE ValueOf[Taken(S)] + SumOf(Rest(S))
<1> DEFINE f == CHOOSE g : SumsAll(g, S)
<1>1. SumsAll(f, S) /\ SumOf(S) = f[S]
  BY SumsExist, SumIs
<1> HIDE DEF f
<1>2. f[S] = Added(f, S)
  BY <1>1 DEF SumsAll
<1>3. ASSUME S # {}
      PROVE  SumOf(Rest(S)) = f[Rest(S)]
  <2> DEFINE R == Rest(S)
             h == CHOOSE g : SumsAll(g, R)
  <2>1. R \in SUBSET S /\ IsFiniteSet(R)
    BY <1>3, RestFacts
  <2> HIDE DEF R
  <2>2. SumsAll(h, R) /\ SumOf(R) = h[R]
    BY <2>1, SumsExist, SumIs
  <2> HIDE DEF h
  <2>3. h[R] = f[R]
    BY <1>1, <2>1, <2>2, SameSums
  <2> QED
    BY <2>2, <2>3 DEF R
<1> QED
  BY <1>1, <1>2, <1>3 DEF Added

LEMMA SumInt ==
    ASSUME NEW U, Valued(U)
    PROVE  \A S \in SUBSET U : SumOf(S) \in Int
<1> DEFINE H == {S \in SUBSET U : SumOf(S) \in Int}
<1>1. IsFiniteSet(U) /\ \A S \in SUBSET U : IsFiniteSet(S)
  BY FS_Subset DEF Valued
<1>2. {} \in H
  BY FS_EmptySet, SumRest
<1>3. ASSUME NEW S \in SUBSET U, S # {} /\ Rest(S) \in H
      PROVE  S \in H
  <2>1. ValueOf[Taken(S)] \in Int
    BY <1>1, <1>3, RestFacts DEF Valued
  <2> QED
    BY <1>1, <1>3, <2>1, SumRest
<1> HIDE DEF H
<1>4. \A S \in SUBSET U : S \in H
  BY <1>1, <1>2, <1>3, SetInduct
<1> QED
  BY <1>4 DEF H

(* Whatever its order, one element more adds its value to a sum.           *)
LEMMA SumAdd ==
    ASSUME NEW U, Valued(U), NEW S \in SUBSET U, NEW z \in U \ S
    PROVE  SumOf(S \cup {z}) = SumOf(S) + ValueOf[z]
<1> DEFINE N == Cardinality(U)
           Adds(T) == \A x \in U \ T : SumOf(T \cup {x}) = SumOf(T) + ValueOf[x]
           G == {n \in Nat : \A T \in SUBSET U : Cardinality(T) = n => Adds(T)}
<1>1. /\ N \in Nat
      /\ \A T \in SUBSET U : /\ IsFiniteSet(T) /\ Cardinality(T) \in Nat /\ Cardinality(T) <= N
                             /\ SumOf(T) \in Int
                             /\ T # {} => SumOf(T) = ValueOf[Taken(T)] + SumOf(Rest(T))
      /\ \A x \in U : ValueOf[x] \in Int
  <2>1. IsFiniteSet(U) /\ \A x \in U : ValueOf[x] \in Int
    BY DEF Valued
  <2>2. \A T \in SUBSET U : IsFiniteSet(T) /\ Cardinality(T) \in Nat /\ Cardinality(T) <= N
    BY <2>1, FS_Subset, FS_CardinalityType
  <2>3. \A T \in SUBSET U : SumOf(T) \in Int
    BY SumInt
  <2>4. \A T \in SUBSET U : T # {} => SumOf(T) = ValueOf[Taken(T)] + SumOf(Rest(T))
    BY <2>2, SumRest
  <2> QED
    BY <2>1, <2>2, <2>3, <2>4, FS_CardinalityType
<1>2. \A T \in SUBSET U, x \in U : Taken(T \cup {x}) \in T \cup {x}
  BY DEF Taken
<1>3. 0 \in G
  <2>1. ASSUME NEW T \in SUBSET U, Cardinality(T) = 0, NEW x \in U \ T
        PROVE  SumOf(T \cup {x}) = SumOf(T) + ValueOf[x]
    <3>1. T = {} /\ SumOf(T) = 0
      BY <1>1, <2>1, FS_EmptySet, SumRest
    <3>2. T \cup {x} \in SUBSET U /\ Taken(T \cup {x}) = x
      BY <1>2, <3>1
    <3>3. Rest(T \cup {x}) = T
      BY <3>1, <3>2 DEF Rest
    <3>4. SumOf(T \cup {x}) = ValueOf[x] + SumOf(T)
      BY <1>1, <3>2, <3>3
    <3> QED
      BY <1>1, <3>4
  <2> QED
    BY <2>1
<1>4. ASSUME NEW n \in 0..(N - 1), n \in G
      PROVE  n + 1 \in G
  <2>1. ASSUME NEW T \in SUBSET U, Cardinality(T) = n + 1, NEW x \in U \ T
        PROVE  SumOf(T \cup {x}) = SumOf(T) + ValueOf[x]
    <3> DEFINE W == T \cup {x}
               c == Taken(W)
    <3>1. W \in SUBSET U /\ W # {} /\ c \in W
      BY <1>2
    <3>2. SumOf(W) = ValueOf[c] + SumOf(W \ {c})
      BY <1>1, <3>1 DEF Rest
    <3> HIDE DEF c
    <3>3. CASE c = x
      <4>1. W \ {c} = T
        BY <3>3
      <4>2. SumOf(T) \in Int /\ ValueOf[x] \in Int
        BY <1>1
      <4> HIDE DEF W
      <4>3. SumOf(W) = ValueOf[x] + SumOf(T)
        BY <3>2, <3>3, <4>1
      <4>4. SumOf(W) = SumOf(T) + ValueOf[x]
        BY <4>2, <4>3
      <4> QED
        BY <4>4 DEF W
    <3>4. CASE c # x
      <4> DEFINE B == T \ {c}
      <4>1. c \in T
        BY <3>1, <3>4
      <4>2. B \in SUBSET U /\ x \in U \ B /\ c \in U \ B
        BY <4>1
      <4>3. B \cup {c} = T /\ W \ {c} = B \cup {x}
        BY <3>4, <4>1
      <4>4. Cardinality(B) = n
        BY <1>1, <2>1, <4>1, FS_RemoveElement
      <4> HIDE DEF B, W
      <4>5. SumOf(B \cup {c}) = SumOf(B) + ValueOf[c] /\ SumOf(B \cup {x}) = SumOf(B) + ValueOf[x]
        BY <1>4, <4>2, <4>4
      <4>6. SumOf(B) \in Int /\ ValueOf[c] \in Int /\ ValueOf[x] \in Int
        BY <1>1, <4>2
      <4>7. SumOf(W) = ValueOf[c] + SumOf(B \cup {x}) /\ SumOf(T) = SumOf(B \cup {c})
        BY <3>2, <4>3
      <4>8. SumOf(W) = SumOf(T) + ValueOf[x]
        <5> DEFINE p == SumOf(B \cup {x})
                   q == SumOf(B \cup {c})
        <5>1. p = SumOf(B) + ValueOf[x] /\ q = SumOf(B) + ValueOf[c]
          BY <4>5
        <5>2. SumOf(W) = ValueOf[c] + p /\ SumOf(T) = q
          BY <4>7
        <5> HIDE DEF p, q
        <5> QED
          BY <4>6, <5>1, <5>2
      <4> QED
        BY <4>8 DEF W
    <3> QED
      BY <3>3, <3>4
  <2> QED
    BY <2>1
<1>5. Cardinality(S) \in 0..N
  BY <1>1
<1>6. Cardinality(S) \in G
  <2> HIDE DEF G, N
  <2> QED
    BY <1>1, <1>3, <1>4, <1>5, Induct
<1> QED
  BY <1>6

LEMMA SumRemove ==
    ASSUME NEW U, Valued(U), NEW S \in SUBSET U, NEW z \in S
    PROVE  SumOf(S \ {z}) = SumOf(S) - ValueOf[z]
<1>1. S \ {z} \in SUBSET U /\ z \in U \ (S \ {z}) /\ (S \ {z}) \cup {z} = S
  OBVIOUS
<1>2. SumOf(S) = SumOf(S \ {z}) + ValueOf[z]
  BY <1>1, SumAdd
<1>3. SumOf(S \ {z}) \in Int /\ ValueOf[z] \in Int
  BY <1>1, SumInt DEF Valued
<1> QED
  BY <1>2, <1>3

(* Sums lie within as many times the largest magnitude as there are rows.  *)
LEMMA SumBound ==
    ASSUME NEW U, IsFiniteSet(U), NEW b \in Nat,
           \A x \in U : ValueOf[x] \in Int /\ -b <= ValueOf[x] /\ ValueOf[x] <= b
    PROVE  \A S \in SUBSET U : SumOf(S) \in (-(Cardinality(U) * b))..(Cardinality(U) * b)
<1> DEFINE H == {S \in SUBSET U : /\ -(Cardinality(S) * b) <= SumOf(S)
                                  /\ SumOf(S) <= Cardinality(S) * b}
<1>1. /\ Valued(U)
      /\ \A S \in SUBSET U : /\ IsFiniteSet(S) /\ Cardinality(S) \in Nat
                             /\ Cardinality(S) <= Cardinality(U) /\ SumOf(S) \in Int
  BY FS_Subset, FS_CardinalityType, SumInt DEF Valued
<1>2. {} \in H
  <2>1. SumOf({}) = 0 /\ Cardinality({}) = 0
    BY <1>1, SumRest, FS_EmptySet
  <2> QED
    BY <2>1
<1>3. ASSUME NEW S \in SUBSET U, S # {} /\ Rest(S) \in H
      PROVE  S \in H
  <2> DEFINE m == Cardinality(Rest(S))
             v == ValueOf[Taken(S)]
             t == SumOf(Rest(S))
  <2>1. /\ Taken(S) \in S /\ Rest(S) \in SUBSET U
        /\ m \in Nat /\ Cardinality(S) = m + 1
    BY <1>1, <1>3, RestFacts
  <2>2. v \in Int /\ -b <= v /\ v <= b /\ t \in Int /\ -(m * b) <= t /\ t <= m * b
    BY <1>1, <1>3, <2>1
  <2>3. SumOf(S) = v + t
    BY <1>1, <1>3, SumRest
  <2> HIDE DEF m, v, t
  <2>4. (m + 1) * b = m * b + b /\ m * b \in Nat
    BY <2>1
  <2>5. -((m + 1) * b) <= v + t /\ v + t <= (m + 1) * b
    BY <2>2, <2>4
  <2> QED
    BY <2>1, <2>3, <2>5
<1>4. \A S \in SUBSET U : S \in H
  <2> HIDE DEF H
  <2> QED
    BY <1>2, <1>3, SetInduct
<1>5. ASSUME NEW S \in SUBSET U
      PROVE  SumOf(S) \in (-(Cardinality(U) * b))..(Cardinality(U) * b)
  <2> DEFINE k == Cardinality(S)
             n == Cardinality(U)
             t == SumOf(S)
  <2>1. k \in Nat /\ n \in Nat /\ k <= n /\ t \in Int
    BY <1>1
  <2>2. -(k * b) <= t /\ t <= k * b
    BY <1>4
  <2> HIDE DEF k, n, t
  <2>3. k * b <= n * b /\ k * b \in Nat /\ n * b \in Nat
    <3>1. n * b = k * b + (n - k) * b /\ (n - k) * b \in Nat
      BY <2>1
    <3> QED
      BY <2>1, <3>1
  <2>4. t \in (-(n * b))..(n * b)
    BY <2>1, <2>2, <2>3
  <2> QED
    BY <2>4 DEF t, n
<1> QED
  BY <1>5

-----------------------------------------------------------------------------
(* What a store has made of a set of rows: the rows of a group, and the    *)
(* running total, or the multiplicity of each value, over them.            *)
InGroup(S, g) == {x \in S : GroupOf[x] = g}
WithValue(S, v) == {x \in S : ValueOf[x] = v}
Worked(S, g) == IF Functor[g] = "sum" THEN SumOf(InGroup(S, g))
                ELSE [v \in Value |-> Cardinality(WithValue(InGroup(S, g), v))]

(* Every group of some rows has a member that its threshold lets through. *)
GatesOpen(S) == \A x \in S : Members(S, GroupOf[x]) # {}

LEMMA RowFacts ==
    /\ IsFiniteSet(InRow) /\ Valued(InRow)
    /\ \A x \in InRow : GroupOf[x] \in Group /\ ValueOf[x] \in Value /\ ValueOf[x] \in Int
    /\ \A S \in SUBSET InRow : IsFiniteSet(S) /\ Cardinality(S) \in Nat
  BY AggregateParameters, FS_Subset, FS_CardinalityType DEF Valued, Group, Value

LEMMA GroupFacts ==
    ASSUME NEW S \in SUBSET InRow, NEW g
    PROVE  /\ InGroup(S, g) \in SUBSET InRow
           /\ IsFiniteSet(InGroup(S, g)) /\ Cardinality(InGroup(S, g)) \in Nat
           /\ Cardinality(InGroup(S, g)) > 0 <=> InGroup(S, g) # {}
           /\ Members(S, g) = {x \in InGroup(S, g) : Passes(g, ValueOf[x])}
           /\ Functor[g] = "sum" => Members(S, g) = InGroup(S, g)
           /\ GatesOpen(S) => (InGroup(S, g) # {} <=> Members(S, g) # {})
<1>1. InGroup(S, g) \in SUBSET InRow
  BY DEF InGroup
<1>2. /\ Members(S, g) = {x \in InGroup(S, g) : Passes(g, ValueOf[x])}
      /\ Functor[g] = "sum" => Members(S, g) = InGroup(S, g)
  BY DEF Passes, Members, InGroup
<1>4. GatesOpen(S) => (InGroup(S, g) # {} <=> Members(S, g) # {})
  BY <1>2 DEF GatesOpen, InGroup
<1>3. IsFiniteSet(InGroup(S, g)) /\ Cardinality(InGroup(S, g)) \in Nat
  BY <1>1, RowFacts
<1> QED
  BY <1>1, <1>2, <1>3, <1>4, FS_EmptySet

(* One row more or less in a group, and none in the others.                *)
LEMMA GroupAdd ==
    ASSUME NEW S \in SUBSET InRow, NEW x \in InRow \ S
    PROVE  /\ InGroup(S \cup {x}, GroupOf[x]) = InGroup(S, GroupOf[x]) \cup {x}
           /\ \A h : h # GroupOf[x] => InGroup(S \cup {x}, h) = InGroup(S, h)
  BY DEF InGroup

LEMMA GroupRemove ==
    ASSUME NEW S \in SUBSET InRow, NEW x \in S
    PROVE  /\ InGroup(S \ {x}, GroupOf[x]) = InGroup(S, GroupOf[x]) \ {x}
           /\ \A h : h # GroupOf[x] => InGroup(S \ {x}, h) = InGroup(S, h)
  BY DEF InGroup

LEMMA WorkedEmpty ==
    ASSUME NEW S, NEW g, InGroup(S, g) = {}
    PROVE  Worked(S, g) = Identity(g)
<1>1. SumOf({}) = 0
  BY FS_EmptySet, SumRest
<1>2. \A v : WithValue({}, v) = {}
  BY DEF WithValue
<1>3. \A v : Cardinality(WithValue({}, v)) = 0
  BY <1>2, FS_EmptySet
<1> QED
  BY <1>1, <1>3 DEF Worked, Identity

LEMMA WorkedSame ==
    ASSUME NEW S, NEW T, NEW g, InGroup(S, g) = InGroup(T, g)
    PROVE  Worked(S, g) = Worked(T, g)
  BY DEF Worked

(* A fold of a row that came. *)
LEMMA WorkedAdd ==
    ASSUME NEW S \in SUBSET InRow, NEW x \in InRow \ S, NEW g, g = GroupOf[x]
    PROVE  /\ Worked(S \cup {x}, g) = FoldValue(g, Worked(S, g), 1, ValueOf[x])
           /\ Cardinality(InGroup(S \cup {x}, g)) = Cardinality(InGroup(S, g)) + 1
<1> DEFINE A == InGroup(S, g)
           B == InGroup(S \cup {x}, g)
           n == ValueOf[x]
<1>1. A \in SUBSET InRow /\ x \in InRow \ A /\ B = A \cup {x} /\ IsFiniteSet(A)
  <2>1. B = A \cup {x}
    BY GroupAdd
  <2>2. A \in SUBSET InRow /\ IsFiniteSet(A)
    BY GroupFacts
  <2>3. x \notin A
    BY DEF InGroup
  <2> QED
    BY <2>1, <2>2, <2>3
<1>2. n \in Value /\ n \in Int
  BY RowFacts
<1> HIDE DEF A, B, n
<1>3. Cardinality(B) = Cardinality(A) + 1
  BY <1>1, FS_AddElement
<1>4. SumOf(B) = SumOf(A) + n /\ 1 * n = n
  BY <1>1, <1>2, RowFacts, SumAdd DEF n
<1>5. ASSUME NEW v \in Value
      PROVE  Cardinality(WithValue(B, v)) = IF v = n THEN Cardinality(WithValue(A, v)) + 1
                                            ELSE Cardinality(WithValue(A, v))
  <2>1. WithValue(A, v) \in SUBSET A /\ x \notin WithValue(A, v)
    BY <1>1 DEF WithValue
  <2>2. IsFiniteSet(WithValue(A, v))
    BY <1>1, <2>1, FS_Subset
  <2>3. WithValue(B, v) = IF v = n THEN WithValue(A, v) \cup {x} ELSE WithValue(A, v)
    BY <1>1 DEF WithValue, n
  <2> QED
    BY <2>1, <2>2, <2>3, FS_AddElement
<1> DEFINE w == [v \in Value |-> Cardinality(WithValue(A, v))]
<1>6. [v \in Value |-> Cardinality(WithValue(B, v))] = [w EXCEPT ![n] = @ + 1]
  BY <1>2, <1>5
<1> QED
  BY <1>3, <1>4, <1>6 DEF Worked, FoldValue, A, B, n

(* A fold of a row that left. *)
LEMMA WorkedRemove ==
    ASSUME NEW S \in SUBSET InRow, NEW x \in S, NEW g, g = GroupOf[x]
    PROVE  /\ Worked(S \ {x}, g) = FoldValue(g, Worked(S, g), -1, ValueOf[x])
           /\ Cardinality(InGroup(S \ {x}, g)) = Cardinality(InGroup(S, g)) - 1
<1> DEFINE A == InGroup(S, g)
           B == InGroup(S \ {x}, g)
           n == ValueOf[x]
<1>1. A \in SUBSET InRow /\ x \in A /\ B = A \ {x} /\ IsFiniteSet(A)
  <2>1. B = A \ {x}
    BY GroupRemove
  <2>2. A \in SUBSET InRow /\ IsFiniteSet(A)
    BY GroupFacts
  <2>3. x \in A
    BY DEF InGroup
  <2> QED
    BY <2>1, <2>2, <2>3
<1>2. n \in Value /\ n \in Int
  BY RowFacts
<1> HIDE DEF A, B, n
<1>3. Cardinality(B) = Cardinality(A) - 1
  BY <1>1, FS_RemoveElement
<1>4. SumOf(B) = SumOf(A) - n /\ SumOf(A) \in Int /\ SumOf(A) + (-1) * n = SumOf(A) - n
  <2>1. SumOf(B) = SumOf(A) - n /\ SumOf(A) \in Int
    BY <1>1, RowFacts, SumRemove, SumInt DEF n
  <2> DEFINE t == SumOf(A)
  <2>2. t \in Int
    BY <2>1
  <2> HIDE DEF t
  <2>3. t + (-1) * n = t - n
    BY <1>2, <2>2
  <2> QED
    BY <2>1, <2>3 DEF t
<1>5. ASSUME NEW v \in Value
      PROVE  Cardinality(WithValue(B, v)) = IF v = n THEN Cardinality(WithValue(A, v)) + (-1)
                                            ELSE Cardinality(WithValue(A, v))
  <2>1. WithValue(A, v) \in SUBSET A
    BY <1>1 DEF WithValue
  <2>2. IsFiniteSet(WithValue(A, v)) /\ Cardinality(WithValue(A, v)) \in Nat
    BY <1>1, <2>1, FS_Subset, FS_CardinalityType
  <2>3. WithValue(B, v) = IF v = n THEN WithValue(A, v) \ {x} ELSE WithValue(A, v)
    BY <1>1 DEF WithValue, n
  <2>4. v = n => x \in WithValue(A, v)
    BY <1>1 DEF WithValue, n
  <2> QED
    BY <2>2, <2>3, <2>4, FS_RemoveElement
<1> DEFINE w == [v \in Value |-> Cardinality(WithValue(A, v))]
<1>6. [v \in Value |-> Cardinality(WithValue(B, v))] = [w EXCEPT ![n] = @ + (-1)]
  BY <1>2, <1>5
<1> QED
  BY <1>3, <1>4, <1>6 DEF Worked, FoldValue, A, B, n

(* What is emitted for a group with members is their reduction.            *)
LEMMA EmitWorked ==
    ASSUME NEW S \in SUBSET InRow, NEW g \in Group, Members(S, g) # {}
    PROVE  Emit(g, Worked(S, g)) = ReduceGroup(S, g)
<1> DEFINE A == InGroup(S, g)
           w == [v \in Value |-> Cardinality(WithValue(A, v))]
<1> DEFINE M == Members(S, g)
<1>1. /\ A \in SUBSET InRow /\ IsFiniteSet(A) /\ M = {x \in A : Passes(g, ValueOf[x])}
      /\ Functor[g] = "sum" => M = A
  BY GroupFacts
<1>2. CASE Functor[g] = "sum"
  BY <1>1, <1>2 DEF Worked, Emit, ReduceGroup
<1>3. CASE Functor[g] # "sum"
  <2> DEFINE live == {v \in DOMAIN w : w[v] > 0 /\ Passes(g, v)}
  <2>1. \A v \in Value : w[v] > 0 <=> WithValue(A, v) # {}
    <3> TAKE v \in Value
    <3>1. WithValue(A, v) \in SUBSET A
      BY DEF WithValue
    <3>2. IsFiniteSet(WithValue(A, v)) /\ Cardinality(WithValue(A, v)) \in Nat
      BY <1>1, <3>1, FS_Subset, FS_CardinalityType
    <3> QED
      BY <3>2, FS_EmptySet
  <2>2. \A x \in A : ValueOf[x] \in Value
    BY RowFacts DEF InGroup
  <2>3. live = {ValueOf[x] : x \in M}
    <3>1. ASSUME NEW v \in live PROVE v \in {ValueOf[x] : x \in M}
      <4>1. v \in Value /\ w[v] > 0 /\ Passes(g, v)
        OBVIOUS
      <4>2. PICK x \in A : ValueOf[x] = v
        BY <2>1, <4>1 DEF WithValue
      <4>3. x \in M
        BY <1>1, <4>1, <4>2
      <4> QED
        BY <4>2, <4>3
    <3>2. ASSUME NEW x \in M PROVE ValueOf[x] \in live
      <4>1. x \in A /\ Passes(g, ValueOf[x])
        BY <1>1
      <4>2. WithValue(A, ValueOf[x]) # {}
        BY <4>1 DEF WithValue
      <4> QED
        BY <2>1, <2>2, <4>1, <4>2
    <3> HIDE DEF live
    <3> QED
      BY <3>1, <3>2
  <2>4. live # {}
    BY <2>3
  <2>5. Worked(S, g) = w
    BY <1>3 DEF Worked
  <2>6. Emit(g, w) = Max(live)
    BY <1>3, <2>4 DEF Emit
  <2>7. ReduceGroup(S, g) = Max({ValueOf[x] : x \in M})
    BY <1>1, <1>3 DEF ReduceGroup
  <2> QED
    BY <2>3, <2>5, <2>6, <2>7
<1> QED
  BY <1>2, <1>3

(* The reductions of a set of rows, and where they lie.                    *)
LEMMA ImageFinite ==
    ASSUME NEW S, IsFiniteSet(S), NEW f
    PROVE  IsFiniteSet({f[x] : x \in S})
<1> DEFINE T == {f[x] : x \in S}
           g == [x \in S |-> f[x]]
<1>1. g \in Surjection(S, T)
  BY DEF Surjection
<1> HIDE DEF T, g
<1>2. IsFiniteSet(T)
  BY <1>1, FS_Surjection
<1> QED
  BY <1>2 DEF T

LEMMA MagnitudeFacts ==
    LET b == Max({0} \cup Value \cup {-v : v \in Value})
    IN  b \in Nat /\ \A v \in Value : -b <= v /\ v <= b
<1> DEFINE minus == [v \in Value |-> -v]
           M == {minus[v] : v \in Value}
           B == {0} \cup Value \cup M
<1>1. Value \subseteq Int /\ IsFiniteSet(Value)
  BY RowFacts, ImageFinite DEF Value
<1>2. M = {-v : v \in Value}
  OBVIOUS
<1>3. M \subseteq Int
  BY <1>1, <1>2
<1>4. IsFiniteSet(M)
  <2> HIDE DEF minus
  <2> QED
    BY <1>1, ImageFinite
<1>5. \A v \in Value : -v \in M
  BY <1>2
<1> HIDE DEF M
<1>6. IsFiniteSet({0} \cup Value)
  BY <1>1, FS_Singleton, FS_Union
<1>7. IsFiniteSet(B)
  BY <1>4, <1>6, FS_Union
<1>8. B \in SUBSET Int /\ B # {} /\ 0 \in B
  BY <1>1, <1>3
<1>9. Max(B) \in B /\ \A y \in B : y <= Max(B)
  BY <1>7, <1>8, MaxFacts
<1> DEFINE b == Max(B)
<1>10. b \in Int /\ 0 <= b
  BY <1>8, <1>9
<1>11. \A v \in Value : v <= b /\ -v <= b
  BY <1>5, <1>9
<1>12. B = {0} \cup Value \cup {-v : v \in Value}
  BY <1>2
<1> HIDE DEF b, B
<1>13. b \in Nat /\ \A v \in Value : -b <= v /\ v <= b
  BY <1>1, <1>10, <1>11
<1> QED
  BY <1>12, <1>13 DEF b

LEMMA ReduceOut ==
    ASSUME NEW S \in SUBSET InRow, NEW g \in Group, Members(S, g) # {}
    PROVE  ReduceGroup(S, g) \in Out
<1> DEFINE A == Members(S, g)
<1>1. A \in SUBSET InRow /\ IsFiniteSet(A) /\ A # {}
  BY GroupFacts, FS_Subset
<1> HIDE DEF A
<1>2. CASE Functor[g] = "sum"
  <2> DEFINE b == Max({0} \cup Value \cup {-v : v \in Value})
  <2>1. b \in Nat /\ \A v \in Value : -b <= v /\ v <= b
    BY MagnitudeFacts
  <2>2. Sums = (-(Cardinality(InRow) * b))..(Cardinality(InRow) * b)
    BY DEF Sums
  <2> HIDE DEF b
  <2>3. \A x \in InRow : ValueOf[x] \in Int /\ -b <= ValueOf[x] /\ ValueOf[x] <= b
    BY <2>1, RowFacts
  <2>4. SumOf(A) \in Sums
    BY <1>1, <2>1, <2>2, <2>3, RowFacts, SumBound
  <2> QED
    BY <1>1, <1>2, <2>4 DEF ReduceGroup, Out, A
<1>3. CASE Functor[g] # "sum"
  <2> DEFINE V == {ValueOf[x] : x \in A}
  <2>1. V \in SUBSET Int /\ V # {} /\ V \subseteq Value
    BY <1>1, RowFacts
  <2>2. IsFiniteSet(V)
    BY <1>1, ImageFinite
  <2> HIDE DEF V
  <2>3. Max(V) \in Value
    BY <2>1, <2>2, MaxFacts
  <2>4. ReduceGroup(S, g) = Max(V)
    BY <1>1, <1>3 DEF ReduceGroup, V, A
  <2> QED
    BY <2>3, <2>4 DEF Out
<1> QED
  BY <1>2, <1>3

LEMMA ReducedIs ==
    ASSUME NEW S \in SUBSET InRow, GatesOpen(S)
    PROVE  /\ Reduced(S) = {<<g, ReduceGroup(S, g)>> : g \in {h \in Group : InGroup(S, h) # {}}}
           /\ Reduced(S) \subseteq Group \X Out
<1>1. \A h : Members(S, h) # {} <=> InGroup(S, h) # {}
  BY GroupFacts
<1>2. Reduced(S) = {<<g, ReduceGroup(S, g)>> : g \in {h \in Group : InGroup(S, h) # {}}}
  BY <1>1 DEF Reduced
<1>3. \A g \in Group : InGroup(S, g) # {} => ReduceGroup(S, g) \in Out
  BY <1>1, ReduceOut
<1> QED
  BY <1>2, <1>3

LEMMA ReduceSame ==
    ASSUME NEW S, NEW T, NEW g, InGroup(S, g) = InGroup(T, g)
    PROVE  ReduceGroup(S, g) = ReduceGroup(T, g)
<1>1. \A U : Members(U, g) = {x \in InGroup(U, g) : Passes(g, ValueOf[x])}
  BY DEF Members, InGroup
<1>2. Members(S, g) = Members(T, g)
  BY <1>1
<1> QED
  BY <1>2 DEF ReduceGroup

-----------------------------------------------------------------------------
(* The input rows that the store holds: those as of the end of the batch   *)
(* but for what the folds have yet to add and to take away.                *)
Current == (final \ pos) \cup neg

SetsOk ==
    /\ present \in SUBSET InRow /\ final \in SUBSET InRow
    /\ neg \subseteq present \ final /\ pos \subseteq final \ present
    /\ phase # "neg" => neg = {}
    /\ phase \in {"idle", "drain", "commit"} => pos = {}
    /\ phase = "idle" => final = present

(* A group's working value and count are over the current rows, its sealed *)
(* value and occupancy over those of the last batch.                       *)
GroupCell(c, g, rows) ==
    /\ c = [working |-> Worked(rows, g), count |-> Cardinality(InGroup(rows, g)),
            occ |-> InGroup(present, g) # {}, sealed |-> c.sealed]
    /\ InGroup(present, g) # {} => c.sealed = ReduceGroup(present, g)

StoreIs(st, fresh, rows) ==
    /\ DOMAIN st \subseteq Group /\ fresh \subseteq DOMAIN st
    /\ st = [g \in DOMAIN st |-> st[g]]
    /\ \A g \in DOMAIN st : GroupCell(st[g], g, rows)
    /\ \A g \in Group \ DOMAIN st : InGroup(present, g) = {} /\ InGroup(rows, g) = {}
    /\ \A g \in Group \ fresh : InGroup(rows, g) = InGroup(present, g)

(* The aggregate rows, those that go and those that come in this batch.    *)
LiveCell == [nr |-> 1, r |-> 0, f |-> {"kInI"}]
Dropped == FoldAt(LiveCell, "kNonRecursive", -1)
Born == FoldAt(NewCell, "kNonRecursive", 1)

Gone == Reduced(present) \ Reduced(final)
Come == Reduced(final) \ Reduced(present)

HeadIs(dropped, born) ==
    head = [x \in Group \X Out |->
               IF x \in Gone THEN dropped
               ELSE IF x \in Come THEN born
               ELSE IF x \in Reduced(present) THEN LiveCell ELSE NewCell]

HeadOk ==
    /\ phase \in {"idle", "neg", "pos"} =>
          head = [x \in Group \X Out |-> IF x \in Reduced(present) THEN LiveCell ELSE NewCell]
    /\ phase = "drain" => HeadIs(Dropped, Born) /\ delQ = Gone /\ addQ = Come
    /\ phase = "commit" => HeadIs(ClaimDel(Dropped), ClaimAdd(Born))

AggInv ==
    /\ phase \in {"idle", "neg", "pos", "drain", "commit"}
    /\ SetsOk /\ HeadOk /\ StoreIs(store, touched, Current)
    /\ phase = "idle" => touched = {}
    /\ GatesOpen(present)

-----------------------------------------------------------------------------
(* A fold brings the store from one set of rows to the next.               *)
LEMMA FoldCellKeeps ==
    ASSUME present \in SUBSET InRow, NEW rows \in SUBSET InRow, NEW x \in InRow,
           NEW sign, NEW more,
           \/ sign = 1 /\ x \notin rows /\ more = rows \cup {x}
           \/ sign = -1 /\ x \in rows /\ more = rows \ {x},
           StoreIs(store, touched, rows), FoldRow(x, sign)
    PROVE  StoreIs(store', touched', more)
<1> DEFINE g == GroupOf[x]
           c == IF g \in DOMAIN store THEN store[g] ELSE FreshGroup(g)
           d == FoldGroup(g, c, sign, ValueOf[x])
<1>1. g \in Group
  BY RowFacts
<1>2. /\ Worked(more, g) = FoldValue(g, Worked(rows, g), sign, ValueOf[x])
      /\ Cardinality(InGroup(more, g)) = Cardinality(InGroup(rows, g)) + sign
      /\ \A h : h # g => InGroup(more, h) = InGroup(rows, h)
  <2>1. CASE sign = 1 /\ x \notin rows /\ more = rows \cup {x}
    <3>1. x \in InRow \ rows
      BY <2>1
    <3>2. /\ Worked(rows \cup {x}, g) = FoldValue(g, Worked(rows, g), 1, ValueOf[x])
          /\ Cardinality(InGroup(rows \cup {x}, g)) = Cardinality(InGroup(rows, g)) + 1
      BY <3>1, WorkedAdd
    <3>3. \A h : h # g => InGroup(rows \cup {x}, h) = InGroup(rows, h)
      BY <3>1, GroupAdd
    <3> QED
      BY <2>1, <3>2, <3>3
  <2>2. CASE sign = -1 /\ x \in rows /\ more = rows \ {x}
    <3>1. Cardinality(InGroup(rows, g)) \in Nat
      BY GroupFacts
    <3>2. Cardinality(InGroup(rows, g)) - 1 = Cardinality(InGroup(rows, g)) + (-1)
      BY <3>1
    <3> QED
      BY <2>2, <3>2, WorkedRemove, GroupRemove
  <2> QED
    BY <2>1, <2>2
<1>3. GroupCell(c, g, rows)
  <2>1. CASE g \in DOMAIN store
    BY <2>1 DEF StoreIs
  <2>2. CASE g \notin DOMAIN store
    <3>1. InGroup(present, g) = {} /\ InGroup(rows, g) = {}
      BY <1>1, <2>2 DEF StoreIs
    <3>2. Worked(rows, g) = Identity(g) /\ Cardinality(InGroup(rows, g)) = 0
      BY <3>1, WorkedEmpty, FS_EmptySet
    <3>3. /\ c.working = Identity(g) /\ c.count = 0 /\ c.occ = FALSE
          /\ c = [working |-> c.working, count |-> c.count, occ |-> c.occ, sealed |-> c.sealed]
      BY <2>2 DEF FreshGroup
    <3> HIDE DEF c
    <3> QED
      BY <3>1, <3>2, <3>3 DEF GroupCell
  <2> QED
    BY <2>1, <2>2
<1>4. /\ store' = [h \in DOMAIN store \cup {g} |-> IF h = g THEN d ELSE store[h]]
      /\ touched' = touched \cup {g}
  BY DEF FoldRow
<1> HIDE DEF c
<1>5. GroupCell(d, g, more)
  <2> DEFINE o == InGroup(present, g) # {}
  <2>1. c = [working |-> Worked(rows, g), count |-> Cardinality(InGroup(rows, g)),
             occ |-> o, sealed |-> c.sealed]
    BY <1>3 DEF GroupCell
  <2> DEFINE w == Worked(rows, g)
             n == Cardinality(InGroup(rows, g))
             s == c.sealed
  <2> HIDE DEF w, n, s, o, d
  <2>2. c = [working |-> w, count |-> n, occ |-> o, sealed |-> s]
    BY <2>1 DEF w, n, s
  <2>3. d = [c EXCEPT !.working = FoldValue(g, @, sign, ValueOf[x]), !.count = @ + sign]
    BY DEF d, FoldGroup
  <2>4. d = [working |-> FoldValue(g, w, sign, ValueOf[x]), count |-> n + sign,
             occ |-> o, sealed |-> s]
    BY <2>2, <2>3
  <2>5. d.sealed = s
    BY <2>4
  <2>6. d = [working |-> Worked(more, g), count |-> Cardinality(InGroup(more, g)),
             occ |-> o, sealed |-> d.sealed]
    BY <1>2, <2>4, <2>5 DEF w, n
  <2>7. InGroup(present, g) # {} => d.sealed = ReduceGroup(present, g)
    BY <1>3, <2>5 DEF GroupCell, s
  <2> QED
    BY <2>6, <2>7 DEF GroupCell, o
<1> HIDE DEF d
<1>6. \A h \in DOMAIN store : h # g => GroupCell(store[h], h, more)
  <2> TAKE h \in DOMAIN store
  <2> HAVE h # g
  <2>1. InGroup(more, h) = InGroup(rows, h) /\ GroupCell(store[h], h, rows)
    BY <1>2 DEF StoreIs
  <2>2. Worked(more, h) = Worked(rows, h)
    BY <2>1, WorkedSame
  <2> QED
    BY <2>1, <2>2 DEF GroupCell
<1> HIDE DEF g
<1>7. /\ DOMAIN store' = DOMAIN store \cup {g}
      /\ \A h \in DOMAIN store' : store'[h] = IF h = g THEN d ELSE store[h]
      /\ store' = [h \in DOMAIN store' |-> store'[h]]
  BY <1>4
<1>8. \A h \in DOMAIN store' : GroupCell(store'[h], h, more)
  BY <1>5, <1>6, <1>7
<1>9. /\ DOMAIN store' \subseteq Group /\ touched' \subseteq DOMAIN store'
      /\ \A h \in Group \ DOMAIN store' : InGroup(present, h) = {} /\ InGroup(more, h) = {}
      /\ \A h \in Group \ touched' : InGroup(more, h) = InGroup(present, h)
  BY <1>1, <1>2, <1>4, <1>7 DEF StoreIs
<1> QED
  BY <1>7, <1>8, <1>9 DEF StoreIs

(* What a touch, a fold, a claim and a commit make of a cell.              *)
LEMMA TouchCell ==
    ASSUME NEW a, NEW b, NEW F
    PROVE  Touch([nr |-> a, r |-> b, f |-> F])
               = [nr |-> a, r |-> b, f |-> F \cup {"kTouched"}]
BY DEF Touch

LEMMA FoldCell ==
    ASSUME NEW a, NEW b, NEW F, NEW d
    PROVE  FoldAt([nr |-> a, r |-> b, f |-> F], "kNonRecursive", d)
               = [nr |-> a + d, r |-> b, f |-> F \cup {"kTouched"}]
<1> DEFINE G == F \cup {"kTouched"}
<1> HIDE DEF G
<1>1. Touch([nr |-> a, r |-> b, f |-> F]) = [nr |-> a, r |-> b, f |-> G]
  BY TouchCell DEF G
<1>2. FoldAt([nr |-> a, r |-> b, f |-> F], "kNonRecursive", d)
          = [[nr |-> a, r |-> b, f |-> G] EXCEPT !.nr = @ + d]
  BY <1>1 DEF FoldAt
<1> QED
  BY <1>2 DEF G

LEMMA ClaimDelCell ==
    ASSUME NEW a, NEW b, NEW F
    PROVE  ClaimDel([nr |-> a, r |-> b, f |-> F])
               = [nr |-> a, r |-> b, f |-> F \cup {"kTouched"} \cup {"kDel", "kDelNow"}]
<1> DEFINE G == F \cup {"kTouched"}
<1> HIDE DEF G
<1>1. Touch([nr |-> a, r |-> b, f |-> F]) = [nr |-> a, r |-> b, f |-> G]
  BY TouchCell DEF G
<1>2. ClaimDel([nr |-> a, r |-> b, f |-> F])
          = [[nr |-> a, r |-> b, f |-> G] EXCEPT !.f = @ \cup {"kDel", "kDelNow"}]
  BY <1>1 DEF ClaimDel
<1> QED
  BY <1>2 DEF G

LEMMA ClaimAddCell ==
    ASSUME NEW a, NEW b, NEW F
    PROVE  ClaimAdd([nr |-> a, r |-> b, f |-> F])
               = [nr |-> a, r |-> b, f |-> F \cup {"kTouched"} \cup {"kAdd", "kAddNow"}]
<1> DEFINE G == F \cup {"kTouched"}
<1> HIDE DEF G
<1>1. Touch([nr |-> a, r |-> b, f |-> F]) = [nr |-> a, r |-> b, f |-> G]
  BY TouchCell DEF G
<1>2. ClaimAdd([nr |-> a, r |-> b, f |-> F])
          = [[nr |-> a, r |-> b, f |-> G] EXCEPT !.f = @ \cup {"kAdd", "kAddNow"}]
  BY <1>1 DEF ClaimAdd
<1> QED
  BY <1>2 DEF G

LEMMA CommitCell ==
    ASSUME NEW a \in Int, NEW b \in Int, NEW F
    PROVE  CommitRow([nr |-> a, r |-> b, f |-> F])
               = [nr |-> a, r |-> b, f |-> (F \ (ScratchFlags \cup {"kInI"}))
                                     \cup (IF a + b > 0 THEN {"kInI"} ELSE {})]
<1> DEFINE c == [nr |-> a, r |-> b, f |-> F]
           sealed == IF a + b > 0 THEN {"kInI"} ELSE {}
           left == F \ (ScratchFlags \cup {"kInI"})
           H == left \cup sealed
<1>1. Total(c) = a + b /\ c.f = F
  BY DEF Total
<1>2. CommitRow(c) = [c EXCEPT !.f = (@ \ (ScratchFlags \cup {"kInI"}))
                                  \cup (IF Total(c) > 0 THEN {"kInI"} ELSE {})]
  BY DEF CommitRow
<1>3. (IF Total(c) > 0 THEN {"kInI"} ELSE {}) = sealed
  BY <1>1
<1> HIDE DEF sealed
<1>4. [c EXCEPT !.f = (@ \ (ScratchFlags \cup {"kInI"})) \cup sealed]
          = [nr |-> a, r |-> b, f |-> H]
  OBVIOUS
<1> HIDE DEF H, c
<1>5. CommitRow(c) = [nr |-> a, r |-> b, f |-> H]
  BY <1>2, <1>3, <1>4
<1> QED
  BY <1>5 DEF H, c, sealed

(* The cells of the aggregate rows through a batch.                        *)
LEMMA CellFacts ==
    /\ LiveCell # NewCell
    /\ InI(LiveCell) /\ LiveCell.nr = 1 /\ ~InI(NewCell) /\ NewCell.nr = 0
    /\ CanClaimDel(Dropped) /\ CanClaimAdd(Born)
    /\ "kTouched" \in ClaimDel(Dropped).f /\ "kTouched" \in ClaimAdd(Born).f
    /\ "kTouched" \notin LiveCell.f /\ "kTouched" \notin NewCell.f
    /\ CommitRow(ClaimDel(Dropped)) = NewCell
    /\ CommitRow(ClaimAdd(Born)) = LiveCell
<1> DEFINE I == {"kInI"}
           O == {}
           IT == I \cup {"kTouched"}
           OT == O \cup {"kTouched"}
           D == IT \cup {"kTouched"} \cup {"kDel", "kDelNow"}
           A == OT \cup {"kTouched"} \cup {"kAdd", "kAddNow"}
           lost == 1 + (-1)
           won == 0 + 1
<1>0. /\ 0 \in Int /\ 1 \in Int /\ lost = 0 /\ won = 1
      /\ LiveCell = [nr |-> 1, r |-> 0, f |-> I] /\ NewCell = [nr |-> 0, r |-> 0, f |-> O]
  BY DEF LiveCell, NewCell
<1>1. Dropped = [nr |-> 0, r |-> 0, f |-> IT]
  <2> HIDE DEF I
  <2>1. FoldAt([nr |-> 1, r |-> 0, f |-> I], "kNonRecursive", -1)
            = [nr |-> lost, r |-> 0, f |-> IT]
    BY FoldCell
  <2> HIDE DEF lost, IT
  <2> QED
    BY <1>0, <2>1 DEF Dropped
<1>2. Born = [nr |-> 1, r |-> 0, f |-> OT]
  <2> HIDE DEF O
  <2>1. FoldAt([nr |-> 0, r |-> 0, f |-> O], "kNonRecursive", 1)
            = [nr |-> won, r |-> 0, f |-> OT]
    BY FoldCell
  <2> HIDE DEF won, OT
  <2> QED
    BY <1>0, <2>1 DEF Born
<1>3. ClaimDel(Dropped) = [nr |-> 0, r |-> 0, f |-> D]
  <2> HIDE DEF IT
  <2>1. ClaimDel([nr |-> 0, r |-> 0, f |-> IT]) = [nr |-> 0, r |-> 0, f |-> D]
    BY ClaimDelCell
  <2> QED
    BY <1>1, <2>1
<1>4. ClaimAdd(Born) = [nr |-> 1, r |-> 0, f |-> A]
  <2> HIDE DEF OT
  <2>1. ClaimAdd([nr |-> 1, r |-> 0, f |-> OT]) = [nr |-> 1, r |-> 0, f |-> A]
    BY ClaimAddCell
  <2> QED
    BY <1>2, <2>1
<1>5. "kTouched" \in D /\ "kTouched" \in A
  OBVIOUS
<1>6. (D \ (ScratchFlags \cup {"kInI"})) \cup {} = {}
  BY DEF ScratchFlags
<1>7. (A \ (ScratchFlags \cup {"kInI"})) \cup {"kInI"} = {"kInI"}
  BY DEF ScratchFlags
<1> HIDE DEF D, A
<1>8. CommitRow(ClaimDel(Dropped)) = NewCell
  <2>1. CommitRow([nr |-> 0, r |-> 0, f |-> D])
            = [nr |-> 0, r |-> 0, f |-> (D \ (ScratchFlags \cup {"kInI"}))
                      \cup (IF 0 + 0 > 0 THEN {"kInI"} ELSE {})]
    BY <1>0, CommitCell, Zenon
  <2>2. (IF 0 + 0 > 0 THEN {"kInI"} ELSE {}) = {}
    OBVIOUS
  <2> QED
    BY <1>3, <1>6, <2>1, <2>2, Zenon DEF NewCell
<1>9. CommitRow(ClaimAdd(Born)) = LiveCell
  <2>1. CommitRow([nr |-> 1, r |-> 0, f |-> A])
            = [nr |-> 1, r |-> 0, f |-> (A \ (ScratchFlags \cup {"kInI"}))
                      \cup (IF 1 + 0 > 0 THEN {"kInI"} ELSE {})]
    BY <1>0, CommitCell, Zenon
  <2>2. (IF 1 + 0 > 0 THEN {"kInI"} ELSE {}) = {"kInI"}
    OBVIOUS
  <2> QED
    BY <1>4, <1>7, <2>1, <2>2, Zenon DEF LiveCell
<1>10. CanClaimDel(Dropped) /\ CanClaimAdd(Born)
  BY <1>1, <1>2 DEF CanClaimDel, CanClaimAdd, Total
<1>11. "kTouched" \in ClaimDel(Dropped).f /\ "kTouched" \in ClaimAdd(Born).f
  BY <1>3, <1>4, <1>5
<1>12. /\ LiveCell # NewCell
       /\ InI(LiveCell) /\ LiveCell.nr = 1 /\ ~InI(NewCell) /\ NewCell.nr = 0
       /\ "kTouched" \notin LiveCell.f /\ "kTouched" \notin NewCell.f
  BY DEF LiveCell, NewCell, InI
<1> QED
  BY <1>8, <1>9, <1>10, <1>11, <1>12

(* A batch emits the old rows of the groups it changes and their new ones. *)
LEMMA EmitFacts ==
    ASSUME present \in SUBSET InRow, final \in SUBSET InRow,
           GatesOpen(present), GatesOpen(final),
           StoreIs(store, touched, final)
    PROVE  Minus = Gone /\ Plus = Come
<1> DEFINE Had(g) == InGroup(present, g) # {}
           Has(g) == InGroup(final, g) # {}
           old(g) == ReduceGroup(present, g)
           new(g) == ReduceGroup(final, g)
<1>1. /\ Reduced(present) = {<<g, old(g)>> : g \in {h \in Group : Had(h)}}
      /\ Reduced(final) = {<<g, new(g)>> : g \in {h \in Group : Has(h)}}
  BY ReducedIs
<1>2. touched \subseteq Group
  BY DEF StoreIs
<1>3. \A g \in touched : /\ store[g].occ = Had(g)
                         /\ store[g].working = Worked(final, g)
                         /\ store[g].count = Cardinality(InGroup(final, g))
                         /\ Had(g) => store[g].sealed = old(g)
  BY DEF StoreIs, GroupCell
<1>4. ASSUME NEW g \in touched
      PROVE  /\ SealedOccupied(store[g]) <=> Had(g)
             /\ WorkingOccupied(g, store[g]) <=> Has(g)
             /\ Had(g) => store[g].sealed = old(g)
             /\ Has(g) => Emit(g, store[g].working) = new(g)
  <2>1. g \in Group /\ (Cardinality(InGroup(final, g)) > 0 <=> Has(g))
    BY <1>2, GroupFacts
  <2>2. Has(g) => Emit(g, Worked(final, g)) = new(g)
    BY <2>1, EmitWorked, GroupFacts
  <2> QED
    BY <1>3, <2>1, <2>2 DEF SealedOccupied, WorkingOccupied
<1>5. \A g \in Group \ touched : (Had(g) <=> Has(g)) /\ old(g) = new(g)
  BY ReduceSame DEF StoreIs
<1> HIDE DEF Had, Has, old, new
<1>6. \A g \in touched : /\ EmitsOld(g, store[g]) <=> Had(g) /\ (Has(g) => new(g) # old(g))
                         /\ EmitsNew(g, store[g]) <=> Has(g) /\ (Had(g) => new(g) # old(g))
  BY <1>4 DEF EmitsOld, EmitsNew, Changed
<1>7. Minus = {<<g, old(g)>> : g \in {h \in touched : Had(h) /\ (Has(h) => new(h) # old(h))}}
  BY <1>4, <1>6 DEF Minus
<1>8. Plus = {<<g, new(g)>> : g \in {h \in touched : Has(h) /\ (Had(h) => new(h) # old(h))}}
  BY <1>4, <1>6 DEF Plus
<1>9. Gone = {<<g, old(g)>> : g \in {h \in Group : Had(h) /\ (Has(h) => new(h) # old(h))}}
  BY <1>1 DEF Gone
<1>10. Come = {<<g, new(g)>> : g \in {h \in Group : Has(h) /\ (Had(h) => new(h) # old(h))}}
  BY <1>1 DEF Come
<1>11. \A h \in Group : /\ Had(h) /\ (Has(h) => new(h) # old(h)) => h \in touched
                        /\ Has(h) /\ (Had(h) => new(h) # old(h)) => h \in touched
  BY <1>5
<1>12. Minus = Gone
  BY <1>2, <1>7, <1>9, <1>11
<1>13. Plus = Come
  BY <1>2, <1>8, <1>10, <1>11
<1> QED
  BY <1>12, <1>13

-----------------------------------------------------------------------------
LEMMA AggInitially == ASSUME AggInit PROVE AggInv
<1>1. SetsOk
  BY DEF AggInit, SetsOk
<1>2. \A g : InGroup({}, g) = {} /\ Members({}, g) = {}
  BY DEF InGroup, Members
<1>3. Reduced(present) = {}
  BY <1>2 DEF AggInit, Reduced
<1>4. HeadOk
  BY <1>3 DEF AggInit, HeadOk
<1>5. Current = {} /\ present = {}
  BY DEF AggInit, Current
<1>6. DOMAIN store = {} /\ touched = {} /\ store = [g \in DOMAIN store |-> store[g]]
  BY DEF AggInit
<1>7. StoreIs(store, touched, Current)
  BY <1>2, <1>5, <1>6 DEF StoreIs
<1> QED
  BY <1>1, <1>4, <1>5, <1>7 DEF AggInv, AggInit, GatesOpen

(* The parts of the invariant that a step leaves as they are.              *)
LEMMA StoreStays ==
    ASSUME UNCHANGED present, NEW rows, StoreIs(store', touched', rows), Current' = rows
    PROVE  StoreIs(store, touched, Current)'
<1>1. StoreIs(store', touched', Current')
  OBVIOUS
<1> QED
  BY <1>1 DEF StoreIs, GroupCell

LEMMA SubmitKeeps ==
    ASSUME AggInv, NEW gone \in SUBSET present, NEW new \in SUBSET (InRow \ present),
           Submit(gone, new)
    PROVE  AggInv'
<1>1. /\ present \in SUBSET InRow /\ final = present /\ neg = {} /\ pos = {} /\ phase = "idle"
      /\ StoreIs(store, touched, Current)
      /\ head = [x \in Group \X Out |-> IF x \in Reduced(present) THEN LiveCell ELSE NewCell]
  BY DEF AggInv, SetsOk, HeadOk, Submit
<1>2. /\ neg' = gone /\ pos' = new /\ final' = (present \ gone) \cup new /\ phase' = "neg"
      /\ UNCHANGED <<present, store, touched, head>>
  BY DEF Submit
<1>3. SetsOk'
  BY <1>1, <1>2 DEF SetsOk
<1>4. HeadOk'
  BY <1>1, <1>2 DEF HeadOk
<1>5. Current' = Current
  BY <1>1, <1>2 DEF Current
<1>6. StoreIs(store, touched, Current)'
  BY <1>1, <1>2, <1>5, StoreStays
<1> QED
  BY <1>2, <1>3, <1>4, <1>6 DEF AggInv

LEMMA FoldNegKeeps ==
    ASSUME AggInv, NEW x \in InRow, FoldNeg(x)
    PROVE  AggInv'
<1>1. /\ SetsOk /\ HeadOk /\ StoreIs(store, touched, Current)
      /\ phase = "neg" /\ x \in neg /\ FoldRow(x, -1) /\ neg' = neg \ {x}
      /\ UNCHANGED <<present, pos, final, head, delQ, addQ, phase>>
  BY DEF AggInv, FoldNeg
<1>2. /\ present \in SUBSET InRow /\ Current \in SUBSET InRow /\ x \in Current
      /\ Current' = Current \ {x}
  BY <1>1 DEF SetsOk, Current
<1>3. StoreIs(store', touched', Current \ {x})
  BY <1>1, <1>2, FoldCellKeeps
<1>4. StoreIs(store, touched, Current)'
  BY <1>1, <1>2, <1>3, StoreStays
<1>5. SetsOk'
  BY <1>1 DEF SetsOk
<1>6. HeadOk'
  BY <1>1 DEF HeadOk
<1> QED
  BY <1>1, <1>4, <1>5, <1>6 DEF AggInv

LEMMA FoldPosKeeps ==
    ASSUME AggInv, NEW x \in InRow, FoldPos(x)
    PROVE  AggInv'
<1>1. /\ SetsOk /\ HeadOk /\ StoreIs(store, touched, Current)
      /\ phase = "pos" /\ x \in pos /\ FoldRow(x, 1) /\ pos' = pos \ {x}
      /\ UNCHANGED <<present, neg, final, head, delQ, addQ, phase>>
  BY DEF AggInv, FoldPos
<1>2. /\ present \in SUBSET InRow /\ Current \in SUBSET InRow /\ x \notin Current
      /\ Current' = Current \cup {x}
  BY <1>1 DEF SetsOk, Current
<1>3. StoreIs(store', touched', Current \cup {x})
  BY <1>1, <1>2, FoldCellKeeps
<1>4. StoreIs(store, touched, Current)'
  BY <1>1, <1>2, <1>3, StoreStays
<1>5. SetsOk'
  BY <1>1 DEF SetsOk
<1>6. HeadOk'
  BY <1>1 DEF HeadOk
<1> QED
  BY <1>1, <1>4, <1>5, <1>6 DEF AggInv

LEMMA EndNegKeeps ==
    ASSUME AggInv, EndNeg
    PROVE  AggInv'
<1>1. /\ SetsOk /\ HeadOk /\ StoreIs(store, touched, Current)
      /\ phase = "neg" /\ neg = {} /\ phase' = "pos"
      /\ UNCHANGED <<present, neg, pos, final, store, touched, head, delQ, addQ>>
  BY DEF AggInv, EndNeg
<1>2. Current' = Current
  BY <1>1 DEF Current
<1>3. StoreIs(store, touched, Current)'
  BY <1>1, <1>2, StoreStays
<1>4. SetsOk'
  BY <1>1 DEF SetsOk
<1>5. HeadOk'
  BY <1>1 DEF HeadOk
<1> QED
  BY <1>1, <1>3, <1>4, <1>5 DEF AggInv

LEMMA EmitTouchedKeeps ==
    ASSUME AggInv, GatesOpen(final), EmitTouched
    PROVE  AggInv'
<1> DEFINE Row == Group \X Out
           R == Reduced(present)
<1>1. /\ SetsOk /\ HeadOk /\ StoreIs(store, touched, Current)
      /\ phase = "pos" /\ pos = {} /\ phase' = "drain" /\ delQ' = Minus /\ addQ' = Plus
      /\ UNCHANGED <<present, neg, pos, final, store, touched>>
  BY DEF AggInv, EmitTouched
<1>2. /\ neg = {} /\ Current = final /\ Current' = Current
      /\ present \in SUBSET InRow /\ final \in SUBSET InRow
  BY <1>1 DEF SetsOk, Current
<1>3. Minus = Gone /\ Plus = Come /\ Gone' = Gone /\ Come' = Come
  <2>1. GatesOpen(present)
    BY DEF AggInv
  <2>2. StoreIs(store, touched, final)
    BY <1>1, <1>2
  <2>3. Minus = Gone /\ Plus = Come
    BY <1>2, <2>1, <2>2, EmitFacts
  <2> QED
    BY <1>1, <2>3 DEF Gone, Come
<1>4. /\ Gone \subseteq R /\ R' = R /\ \A x \in Come : x \notin R /\ x \notin Gone
  BY <1>1 DEF Gone, Come
<1> HIDE DEF Row, R
<1>5. head = [x \in Row |-> IF x \in R THEN LiveCell ELSE NewCell]
  BY <1>1 DEF HeadOk, Row, R
<1>6. head' = [x \in DOMAIN head |->
          LET m == IF x \in Gone THEN FoldAt(head[x], "kNonRecursive", -1) ELSE head[x]
          IN  IF x \in Come THEN FoldAt(m, "kNonRecursive", 1) ELSE m]
  BY <1>3 DEF EmitTouched
<1>7. head' = [x \in Row |-> IF x \in Gone THEN Dropped
                             ELSE IF x \in Come THEN Born
                             ELSE IF x \in R THEN LiveCell ELSE NewCell]
  <2>1. \A x \in Row : /\ x \in Gone => head[x] = LiveCell
                       /\ x \in Come => head[x] = NewCell
    BY <1>4, <1>5
  <2> QED
    BY <1>4, <1>5, <1>6, <2>1 DEF Dropped, Born
<1>8. HeadOk'
  BY <1>1, <1>3, <1>4, <1>7 DEF HeadOk, HeadIs, Row, R
<1>9. SetsOk'
  BY <1>1, <1>2 DEF SetsOk
<1>10. StoreIs(store, touched, Current)'
  BY <1>1, <1>2, StoreStays
<1> QED
  BY <1>1, <1>8, <1>9, <1>10 DEF AggInv

LEMMA DrainKeeps ==
    ASSUME AggInv, GatesOpen(final), Drain
    PROVE  AggInv'
<1> DEFINE Row == Group \X Out
           R == Reduced(present)
           dels == {x \in delQ : CanClaimDel(head[x])}
           mid == [x \in DOMAIN head |-> IF x \in dels THEN ClaimDel(head[x]) ELSE head[x]]
           comes == {x \in addQ : CanClaimAdd(mid[x])}
<1>1. /\ SetsOk /\ HeadOk /\ StoreIs(store, touched, Current)
      /\ phase = "drain" /\ phase' = "commit" /\ delQ = Gone /\ addQ = Come
      /\ HeadIs(Dropped, Born)
      /\ UNCHANGED <<present, neg, pos, final, store, touched>>
  BY DEF AggInv, Drain, HeadOk
<1>2. /\ neg = {} /\ Current = final /\ Current' = Current
      /\ present \in SUBSET InRow /\ final \in SUBSET InRow
      /\ Gone' = Gone /\ Come' = Come /\ R' = R
  BY <1>1 DEF SetsOk, Current, Gone, Come
<1>3. R \subseteq Row /\ Reduced(final) \subseteq Row
  <2>1. GatesOpen(present)
    BY DEF AggInv
  <2> QED
    BY <1>2, <2>1, ReducedIs
<1> HIDE DEF Row
<1>4. /\ Gone \subseteq Row /\ Come \subseteq Row /\ Gone \subseteq R
      /\ \A x \in Come : x \notin R /\ x \notin Gone
  BY <1>3 DEF Gone, Come
<1> HIDE DEF R
<1>5. head = [x \in Row |-> IF x \in Gone THEN Dropped ELSE IF x \in Come THEN Born
                            ELSE IF x \in R THEN LiveCell ELSE NewCell]
  BY <1>1 DEF HeadIs, Row, R
<1>6. head' = [x \in DOMAIN head |-> IF x \in comes THEN ClaimAdd(mid[x]) ELSE mid[x]]
  BY DEF Drain
<1>7. dels = Gone
  BY <1>1, <1>4, <1>5, CellFacts
<1> HIDE DEF dels
<1>8. mid = [x \in Row |-> IF x \in Gone THEN ClaimDel(Dropped) ELSE IF x \in Come THEN Born
                           ELSE IF x \in R THEN LiveCell ELSE NewCell]
  BY <1>4, <1>5, <1>7
<1> HIDE DEF mid
<1>9. comes = Come
  BY <1>1, <1>4, <1>8, CellFacts
<1> HIDE DEF comes
<1>10. head' = [x \in Row |-> IF x \in Gone THEN ClaimDel(Dropped)
                              ELSE IF x \in Come THEN ClaimAdd(Born)
                              ELSE IF x \in R THEN LiveCell ELSE NewCell]
  BY <1>4, <1>5, <1>6, <1>8, <1>9
<1>11. HeadOk'
  BY <1>1, <1>2, <1>10 DEF HeadOk, HeadIs, Row, R
<1>12. SetsOk'
  BY <1>1 DEF SetsOk
<1>13. StoreIs(store, touched, Current)'
  BY <1>1, <1>2, StoreStays
<1> QED
  BY <1>1, <1>11, <1>12, <1>13 DEF AggInv

(* Sealing a group leaves it sealed at what it now holds.                  *)
LEMMA SealIs ==
    ASSUME final \in SUBSET InRow, GatesOpen(final), NEW g \in Group, NEW c, GroupCell(c, g, final)
    PROVE  LET d == SealGroup(g, c)
           IN  /\ d = [working |-> Worked(final, g), count |-> Cardinality(InGroup(final, g)),
                       occ |-> InGroup(final, g) # {}, sealed |-> d.sealed]
               /\ InGroup(final, g) # {} => d.sealed = ReduceGroup(final, g)
<1> DEFINE w == Worked(final, g)
           n == Cardinality(InGroup(final, g))
           o == InGroup(present, g) # {}
           p == n > 0
           s == c.sealed
           e == Emit(g, w)
           d == SealGroup(g, c)
<1>1. c = [working |-> w, count |-> n, occ |-> o, sealed |-> s]
  BY DEF GroupCell
<1>2. (n > 0) <=> InGroup(final, g) # {}
  BY GroupFacts
<1>3. InGroup(final, g) # {} => e = ReduceGroup(final, g)
  BY EmitWorked, GroupFacts
<1>4. d = [c EXCEPT !.sealed = Emit(g, c.working), !.occ = c.count > 0]
  BY DEF SealGroup, WorkingOccupied
<1> HIDE DEF w, n, o, s, d
<1>5. c.working = w /\ c.count = n
  BY <1>1
<1>6. d = [c EXCEPT !.sealed = e, !.occ = p]
  BY <1>4, <1>5
<1> HIDE DEF p, e
<1>7. d = [working |-> w, count |-> n, occ |-> p, sealed |-> e]
  BY <1>1, <1>6
<1>8. d.sealed = e
  BY <1>7
<1>9. p = (InGroup(final, g) # {})
  <2>1. n \in Nat
    BY GroupFacts DEF n
  <2>2. CASE n > 0
    BY <1>2, <2>2 DEF p, n
  <2>3. CASE ~(n > 0)
    BY <1>2, <2>3 DEF p, n
  <2> QED
    BY <2>2, <2>3
<1>10. d = [working |-> Worked(final, g), count |-> Cardinality(InGroup(final, g)),
            occ |-> InGroup(final, g) # {}, sealed |-> d.sealed]
  BY <1>7, <1>8, <1>9 DEF w, n
<1> QED
  BY <1>3, <1>8, <1>10 DEF d

LEMMA CommitSweepKeeps ==
    ASSUME AggInv, GatesOpen(final), CommitSweep
    PROVE  AggInv'
<1> DEFINE Row == Group \X Out
           R == Reduced(present)
           Next == Reduced(final)
<1>1. /\ SetsOk /\ HeadOk /\ StoreIs(store, touched, Current)
      /\ phase = "commit" /\ phase' = "idle"
      /\ HeadIs(ClaimDel(Dropped), ClaimAdd(Born))
      /\ touched' = {} /\ present' = final
      /\ UNCHANGED <<neg, pos, final>>
  BY DEF AggInv, CommitSweep, HeadOk
<1>2. /\ neg = {} /\ pos = {} /\ Current = final /\ Current' = final /\ final' = final
      /\ present \in SUBSET InRow /\ final \in SUBSET InRow
  BY <1>1 DEF SetsOk, Current
<1>3. Gone = R \ Next /\ Come = Next \ R
  BY DEF Gone, Come
<1>4. head = [x \in Row |-> IF x \in Gone THEN ClaimDel(Dropped)
                            ELSE IF x \in Come THEN ClaimAdd(Born)
                            ELSE IF x \in R THEN LiveCell ELSE NewCell]
  BY <1>1 DEF HeadIs
<1>5. head' = [x \in DOMAIN head |->
          IF "kTouched" \in head[x].f THEN CommitRow(head[x]) ELSE head[x]]
  BY DEF CommitSweep
<1>6. Reduced(present') = Next
  BY <1>1
<1> HIDE DEF Row, R, Next
<1>7. head' = [x \in Row |-> IF x \in Next THEN LiveCell ELSE NewCell]
  <2>1. ASSUME NEW x \in Row
        PROVE  (IF "kTouched" \in head[x].f THEN CommitRow(head[x]) ELSE head[x])
                   = IF x \in Next THEN LiveCell ELSE NewCell
    BY <1>3, <1>4, CellFacts
  <2>2. DOMAIN head = Row
    BY <1>4
  <2> QED
    BY <1>5, <2>1, <2>2
<1>8. HeadOk'
  <2>1. head' = [x \in Row' |-> IF x \in Reduced(present)' THEN LiveCell ELSE NewCell]
    BY <1>1, <1>6, <1>7 DEF Row
  <2> QED
    BY <1>1, <2>1 DEF HeadOk, Row
<1>9. SetsOk'
  BY <1>1, <1>2 DEF SetsOk
<1>10. StoreIs(store, touched, Current)'
  <2>1. /\ store' = [g \in DOMAIN store |->
              IF g \in touched THEN SealGroup(g, store[g]) ELSE store[g]]
        /\ DOMAIN store' = DOMAIN store
        /\ store' = [g \in DOMAIN store' |-> store'[g]]
    BY DEF CommitSweep
  <2>2. DOMAIN store \subseteq Group /\ \A g \in Group \ DOMAIN store : InGroup(final, g) = {}
    BY <1>1, <1>2 DEF StoreIs
  <2>3. ASSUME NEW g \in DOMAIN store'
        PROVE  GroupCell(store[g], g, final)'
    <3>1. g \in DOMAIN store /\ g \in Group /\ GroupCell(store[g], g, final)
      BY <1>1, <1>2, <2>1, <2>2 DEF StoreIs
    <3>2. CASE g \in touched
      <4>1. store'[g] = SealGroup(g, store[g])
        BY <2>1, <3>1, <3>2
      <4>2. /\ store'[g] = [working |-> Worked(final, g),
                           count |-> Cardinality(InGroup(final, g)),
                           occ |-> InGroup(final, g) # {}, sealed |-> store'[g].sealed]
            /\ InGroup(final, g) # {} => store'[g].sealed = ReduceGroup(final, g)
        BY <1>2, <3>1, <4>1, SealIs
      <4> QED
        BY <1>1, <1>2, <4>2 DEF GroupCell
    <3>3. CASE g \notin touched
      <4>1. store'[g] = store[g]
        BY <2>1, <3>1, <3>3
      <4>2. InGroup(final, g) = InGroup(present, g)
        BY <1>1, <1>2, <3>1, <3>3 DEF StoreIs
      <4>3. ReduceGroup(final, g) = ReduceGroup(present, g)
        BY <4>2, ReduceSame
      <4>4. GroupCell(store[g], g, final)
        BY <3>1
      <4> QED
        BY <1>1, <1>2, <4>1, <4>2, <4>3, <4>4 DEF GroupCell
    <3> QED
      BY <3>2, <3>3
  <2> QED
    BY <1>1, <1>2, <2>1, <2>2, <2>3 DEF StoreIs
<1> QED
  BY <1>1, <1>8, <1>9, <1>10 DEF AggInv

LEMMA AggNextKeeps ==
    ASSUME AggInv, GatesOpen(final), [AggNext]_aggVars
    PROVE  AggInv'
<1>1. CASE UNCHANGED aggVars
  <2>1. UNCHANGED <<present, neg, pos, final, store, touched, head, delQ, addQ, phase>>
    BY <1>1 DEF aggVars
  <2>2. SetsOk /\ HeadOk /\ StoreIs(store, touched, Current) /\ Current' = Current
    BY <2>1 DEF AggInv, Current
  <2>3. SetsOk'
    BY <2>1, <2>2 DEF SetsOk
  <2>4. HeadOk'
    BY <2>1, <2>2 DEF HeadOk, HeadIs, Gone, Come
  <2>5. StoreIs(store, touched, Current)'
    BY <2>1, <2>2, StoreStays
  <2> QED
    BY <2>1, <2>3, <2>4, <2>5 DEF AggInv
<1>2. CASE \E gone \in SUBSET present : \E new \in SUBSET (InRow \ present) :
              Submit(gone, new)
  BY <1>2, SubmitKeeps
<1>3. CASE \E x \in InRow : FoldNeg(x) \/ FoldPos(x)
  BY <1>3, FoldNegKeeps, FoldPosKeeps
<1>4. CASE EndNeg
  BY <1>4, EndNegKeeps
<1>5. CASE EmitTouched
  BY <1>5, EmitTouchedKeeps
<1>6. CASE Drain
  BY <1>6, DrainKeeps
<1>7. CASE CommitSweep
  BY <1>7, CommitSweepKeeps
<1> QED
  BY <1>1, <1>2, <1>3, <1>4, <1>5, <1>6, <1>7 DEF AggNext

LEMMA InvExact ==
    ASSUME AggInv
    PROVE  AggregateExact
<1> SUFFICES ASSUME phase = "idle" PROVE TableReduced /\ StoreCoherent
  BY DEF AggregateExact
<1>1. /\ present \in SUBSET InRow /\ touched = {} /\ Current = present
      /\ StoreIs(store, touched, present)
      /\ head = [x \in Group \X Out |-> IF x \in Reduced(present) THEN LiveCell ELSE NewCell]
  BY DEF AggInv, SetsOk, HeadOk, Current
<1>2. Reduced(present) \subseteq Group \X Out
  <2>1. GatesOpen(present)
    BY DEF AggInv
  <2> QED
    BY <1>1, <2>1, ReducedIs
<1>3. TableReduced
  <2>1. \A x \in DOMAIN head : /\ InI(head[x]) <=> x \in Reduced(present)
                               /\ head[x].nr = IF x \in Reduced(present) THEN 1 ELSE 0
    BY <1>1, CellFacts
  <2>2. Visible = Reduced(present)
    BY <1>1, <1>2, <2>1 DEF Visible
  <2> QED
    BY <2>1, <2>2 DEF TableReduced
<1>4. StoreCoherent
  <2>1. ASSUME NEW g \in DOMAIN store
        PROVE  /\ store[g].count = Cardinality(InGroup(present, g))
               /\ store[g].occ <=> store[g].count > 0
    <3>1. /\ store[g].count = Cardinality(InGroup(present, g))
          /\ store[g].occ = (InGroup(present, g) # {})
      BY <1>1 DEF StoreIs, GroupCell
    <3> QED
      BY <1>1, <3>1, GroupFacts
  <2> QED
    BY <1>1, <2>1 DEF StoreCoherent, InGroup
<1> QED
  BY <1>3, <1>4

(* Between batches the aggregate's table holds one row per group with a    *)
(* member, the sum or the maximum of the group's values, derived once, and *)
(* the store is what DebugValidate asserts (StateCell.h, EmitGroupUpdate), *)
(* as long as no batch leaves a group whose members are all below its      *)
(* threshold.                                                              *)
THEOREM ExactIfGatesOpen == AggSpec /\ []GatesOpen(final) => []AggregateExact
<1>1. AggInit => AggInv
  BY AggInitially
<1>2. AggInv /\ GatesOpen(final) /\ [AggNext]_aggVars => AggInv'
  BY AggNextKeeps
<1>3. AggInv => AggregateExact
  BY InvExact
<1> QED
  BY <1>1, <1>2, <1>3, PTL DEF AggSpec

(* In particular for every sum and every maximum without a threshold.      *)
THEOREM UngatedExact ==
    (\A x \in InRow : Functor[GroupOf[x]] # "max_above") => (AggSpec => []AggregateExact)
<1> SUFFICES ASSUME \A x \in InRow : Functor[GroupOf[x]] # "max_above"
             PROVE  AggSpec => []AggregateExact
  OBVIOUS
<1>1. AggInv => GatesOpen(final)
  <2> SUFFICES ASSUME AggInv, NEW x \in final PROVE Members(final, GroupOf[x]) # {}
    BY DEF GatesOpen
  <2>1. x \in InRow /\ Passes(GroupOf[x], ValueOf[x])
    BY DEF AggInv, SetsOk, Passes
  <2> QED
    BY <2>1 DEF Members
<1>2. AggInit => AggInv
  BY AggInitially
<1>3. AggInv /\ [AggNext]_aggVars => AggInv'
  BY <1>1, AggNextKeeps
<1>4. AggInv => AggregateExact
  BY InvExact
<1> QED
  BY <1>2, <1>3, <1>4, PTL DEF AggSpec
=============================================================================
