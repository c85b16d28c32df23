----------------------------- MODULE OracleProofs -----------------------------
(***************************************************************************)
(* The oracle never fails, whatever the program and the batches: each of   *)
(* its loops fires every instance whose count it moves, once, the debts    *)
(* of OVERDELETE are repaid before InsertPhase claims, and the rows and    *)
(* counters at commit are those of a from-scratch evaluation.              *)
(***************************************************************************)
EXTENDS OracleInvariant

(* The atoms of an instance: finitely many, each a row; an atom of the     *)
(* stratum of the head is positive and in its SCC, any other is below.     *)
LEMMA AtomShape ==
    ASSUME NEW i \in Inst
    PROVE  /\ Atoms(i) \subseteq Nat \ {0} /\ IsFiniteSet(Atoms(i))
           /\ \A a \in Atoms(i) :
                 /\ AtomRow(i, a) \in Row
                 /\ IsNegated(i, a) => AtomRow(i, a) \in i.neg /\ ~SameStratum(i, a)
                 /\ ~IsNegated(i, a) => AtomRow(i, a) \in BodyRows(i)
                 /\ SameStratum(i, a) <=> SameScc(i.head, AtomRow(i, a))
                 /\ SameStratum(i, a) <=> Level(AtomRow(i, a)) = Level(i.head)
                 /\ ~SameStratum(i, a) => Level(AtomRow(i, a)) < Level(i.head)
           /\ \A y \in BodyRows(i) : \E a \in Atoms(i) : ~IsNegated(i, a) /\ AtomRow(i, a) = y
           /\ \A y \in i.neg : \E a \in Atoms(i) : IsNegated(i, a) /\ AtomRow(i, a) = y
<1> DEFINE n == Len(i.body)
           m == Cardinality(i.neg)
<1>1. i.body \in Seq(Row) /\ n \in Nat /\ DOMAIN i.body = 1..n
  BY InstancesTyped
<1>2. m \in Nat /\ IsFiniteSet(i.neg) /\ m <= 1
  <2>1. IsFiniteSet(i.neg)
    BY InstancesTyped, ProgramFinite, FS_Subset
  <2>2. i.neg = {} => m = 0
    BY FS_EmptySet
  <2>3. i.neg = {} \/ m <= 1
    BY ProgramWellFormed
  <2> HIDE DEF m
  <2>4. Cardinality(i.neg) \in Nat
    BY <2>1, FS_CardinalityType
  <2> QED
    BY <2>1, <2>2, <2>3, <2>4 DEF m
<1>3. Atoms(i) = 1..(n + m)
  BY DEF Atoms
<1>4. IsFiniteSet(Atoms(i)) /\ Atoms(i) \subseteq Nat \ {0}
  <2> HIDE DEF n, m
  <2> QED
    BY <1>1, <1>2, <1>3, FS_Interval
<1>5. m = 1 => \E y : i.neg = {y}
  BY <1>2, FS_Singleton
<1>6. m = 0 => i.neg = {}
  BY <1>2, FS_EmptySet
<1>7. ASSUME NEW a \in Atoms(i)
      PROVE  /\ IsNegated(i, a) => AtomRow(i, a) \in i.neg
             /\ ~IsNegated(i, a) => AtomRow(i, a) \in BodyRows(i)
  <2>1. CASE a <= n
    <3>1. a \in DOMAIN i.body /\ ~(a > n)
      BY <1>1, <1>3, <1>4, <2>1
    <3> QED
      BY <2>1, <3>1 DEF AtomRow, IsNegated, BodyRows
  <2>2. CASE ~(a <= n)
    <3>1. m = 1 /\ a > n
      <4> HIDE DEF n, m
      <4> QED
        BY <1>1, <1>2, <1>3, <2>2
    <3>2. PICK y : i.neg = {y}
      BY <1>5, <3>1
    <3> QED
      BY <2>2, <3>1, <3>2 DEF AtomRow, IsNegated
  <2> QED
    BY <2>1, <2>2
<1>8. ASSUME NEW a \in Atoms(i)
      PROVE  /\ AtomRow(i, a) \in Row
             /\ IsNegated(i, a) => ~SameStratum(i, a)
             /\ SameStratum(i, a) <=> SameScc(i.head, AtomRow(i, a))
             /\ SameStratum(i, a) <=> Level(AtomRow(i, a)) = Level(i.head)
             /\ ~SameStratum(i, a) => Level(AtomRow(i, a)) < Level(i.head)
  <2> DEFINE y == AtomRow(i, a)
  <2>1. y \in Row /\ i.head \in Row /\ i.at \in Nat /\ i.at <= Level(i.head)
    BY <1>7, HeadsAndAtoms DEF Level
  <2>2. Level(y) \in Nat /\ Level(i.head) \in Nat
    BY <2>1, ProgramFinite DEF Level
  <2>3. SameScc(i.head, y) => Level(y) = Level(i.head)
    BY <2>1, ProgramFinite DEF Level
  <2>4. SameScc(i.head, y) \/ Level(y) < i.at
    BY <1>7, HeadsAndAtoms DEF Level
  <2>5. IsNegated(i, a) => Level(y) < i.at
    BY <1>7, HeadsAndAtoms DEF Level
  <2>6. SameStratum(i, a) <=> Level(y) = Level(i.head)
    BY DEF SameStratum, Level
  <2> HIDE DEF y
  <2>7. /\ IsNegated(i, a) => ~SameStratum(i, a)
        /\ SameStratum(i, a) <=> SameScc(i.head, y)
        /\ ~SameStratum(i, a) => Level(y) < Level(i.head)
    BY <2>1, <2>2, <2>3, <2>4, <2>5, <2>6
  <2> QED
    BY <2>1, <2>6, <2>7 DEF y
<1>9. ASSUME NEW y \in BodyRows(i)
      PROVE  \E a \in Atoms(i) : ~IsNegated(i, a) /\ AtomRow(i, a) = y
  <2>1. PICK a \in DOMAIN i.body : i.body[a] = y
    BY DEF BodyRows
  <2>2. a \in Atoms(i) /\ a <= n /\ ~(a > n)
    <3> HIDE DEF n, m
    <3> QED
      BY <1>1, <1>2, <1>3, <2>1
  <2> QED
    BY <2>1, <2>2 DEF IsNegated, AtomRow
<1>10. ASSUME NEW y \in i.neg
       PROVE  \E a \in Atoms(i) : IsNegated(i, a) /\ AtomRow(i, a) = y
  <2>1. m = 1
    <3>1. m # 0
      BY <1>6
    <3> HIDE DEF n, m
    <3> QED
      BY <1>2, <3>1
  <2>2. n + 1 \in Atoms(i) /\ ~(n + 1 <= n) /\ n + 1 > n
    <3> HIDE DEF n, m
    <3> QED
      BY <1>1, <1>2, <1>3, <2>1
  <2>3. PICK z : i.neg = {z}
    BY <1>5, <2>1
  <2>4. AtomRow(i, n + 1) = y /\ IsNegated(i, n + 1)
    BY <2>2, <2>3 DEF AtomRow, IsNegated
  <2> QED
    BY <2>2, <2>4
<1> QED
  BY <1>4, <1>7, <1>8, <1>9, <1>10

(* A positive atom holds where its row is, a negated one where it is not.  *)
LEMMA HeldReads ==
    ASSUME NEW i, NEW a, NEW S
    PROVE  /\ IsNegated(i, a) \in BOOLEAN /\ SameStratum(i, a) \in BOOLEAN
           /\ IsNegated(i, a) => (Held(i, a, S) <=> AtomRow(i, a) \notin S)
           /\ ~IsNegated(i, a) => (Held(i, a, S) <=> AtomRow(i, a) \in S)
<1>1. IsNegated(i, a) \in BOOLEAN
  BY DEF IsNegated
<1>2. IsNegated(i, a) = TRUE => (Held(i, a, S) <=> AtomRow(i, a) \notin S)
  BY DEF Held
<1>3. IsNegated(i, a) = FALSE => (Held(i, a, S) <=> AtomRow(i, a) \in S)
  <2> DEFINE inS == AtomRow(i, a) \in S
  <2>1. Held(i, a, S) <=> (inS # IsNegated(i, a))
    BY DEF Held
  <2>2. inS \in BOOLEAN
    OBVIOUS
  <2> HIDE DEF inS
  <2>3. IsNegated(i, a) = FALSE => ((inS # IsNegated(i, a)) <=> inS)
    BY <2>2
  <2> QED
    BY <2>1, <2>3 DEF inS
<1> QED
  BY <1>1, <1>2, <1>3 DEF SameStratum

(* An instance holds where all its atoms do.                               *)
LEMMA HoldsByAtoms ==
    ASSUME NEW i \in Inst, NEW S
    PROVE  Holds(i, S) <=> \A a \in Atoms(i) : Held(i, a, S)
<1>1. Holds(i, S) => \A a \in Atoms(i) : Held(i, a, S)
  BY AtomShape, HeldReads DEF Holds
<1>2. ASSUME \A a \in Atoms(i) : Held(i, a, S)
      PROVE  Holds(i, S)
  <2>1. ASSUME NEW y \in BodyRows(i) PROVE y \in S
    <3>1. PICK a \in Atoms(i) : ~IsNegated(i, a) /\ AtomRow(i, a) = y
      BY AtomShape
    <3> QED
      BY <1>2, <3>1, HeldReads
  <2>2. ASSUME NEW y \in i.neg PROVE y \notin S
    <3>1. PICK a \in Atoms(i) : IsNegated(i, a) /\ AtomRow(i, a) = y
      BY AtomShape
    <3> QED
      BY <1>2, <3>1, HeldReads
  <2> QED
    BY <2>1, <2>2 DEF Holds
<1> QED
  BY <1>1, <1>2

-----------------------------------------------------------------------------
(* Schema position order is a strict total order of the atoms,             *)
LEMMA SchemaOrder ==
    ASSUME NEW i \in Inst, NEW a \in Atoms(i), NEW b \in Atoms(i)
    PROVE  /\ ~Precedes(i, a, a)
           /\ a # b => (Precedes(i, a, b) <=> ~Precedes(i, b, a))
           /\ \A c \in Atoms(i) : Precedes(i, a, b) /\ Precedes(i, b, c) => Precedes(i, a, c)
<1> DEFINE s(x) == Stratum[TableOf(AtomRow(i, x))]
<1>1. \A x \in Atoms(i) : x \in Nat /\ s(x) \in Nat
  BY AtomShape, ProgramFinite
<1>2. \A x, y : Precedes(i, x, y) <=>
         \/ ~SameStratum(i, x) /\ SameStratum(i, y)
         \/ SameStratum(i, x) = SameStratum(i, y) /\ s(x) < s(y)
         \/ SameStratum(i, x) = SameStratum(i, y) /\ s(x) = s(y) /\ x < y
  BY DEF Precedes
<1>3. \A x : SameStratum(i, x) \in BOOLEAN
  BY DEF SameStratum
<1> HIDE DEF s
<1>4. ~Precedes(i, a, a)
  BY <1>1, <1>2
<1>5. a # b => (Precedes(i, a, b) <=> ~Precedes(i, b, a))
  BY <1>1, <1>2, <1>3
<1>6. ASSUME NEW c \in Atoms(i), Precedes(i, a, b), Precedes(i, b, c)
      PROVE  Precedes(i, a, c)
  BY <1>1, <1>2, <1>3, <1>6
<1> QED
  BY <1>4, <1>5, <1>6

(* so some of them have a first and a last one.                            *)
LEMMA FirstAtom ==
    ASSUME NEW i \in Inst, NEW B \in SUBSET Atoms(i), B # {}
    PROVE  \E m \in B : \A k \in B \ {m} : Precedes(i, m, k)
<1> DEFINE upTo(b) == {a \in B : a = b \/ Precedes(i, a, b)}
           F == {upTo(b) : b \in B}
<1>1. F \subseteq SUBSET B /\ F # {} /\ IsFiniteSet(B)
  <2>1. IsFiniteSet(B)
    BY AtomShape, FS_Subset
  <2> QED
    BY <2>1
<1>2. PICK U \in F : \A V \in F : V \subseteq U => V = U
  <2> HIDE DEF F
  <2> QED
    BY <1>1, FiniteMinimal
<1>3. PICK m \in B : U = upTo(m)
  OBVIOUS
<1>4. ASSUME NEW k \in B \ {m}, ~Precedes(i, m, k)
      PROVE  FALSE
  <2>1. Precedes(i, k, m)
    BY <1>4, SchemaOrder
  <2>2. upTo(k) \subseteq upTo(m)
    <3>1. ASSUME NEW a \in B, a = k \/ Precedes(i, a, k)
          PROVE  Precedes(i, a, m)
      BY <2>1, <3>1, SchemaOrder
    <3> QED
      BY <3>1
  <2>3. upTo(k) = upTo(m)
    BY <1>2, <1>3, <2>2
  <2>4. m \in upTo(k)
    BY <2>3
  <2> QED
    BY <1>4, <2>4
<1> QED
  BY <1>4

(* Some atom of every set of atoms is preceded by all the others.          *)
LEMMA LastAtom ==
    ASSUME NEW i \in Inst, NEW B \in SUBSET Atoms(i), B # {}
    PROVE  \E m \in B : \A k \in B \ {m} : Precedes(i, k, m)
<1> DEFINE upTo(b) == {a \in B : a = b \/ Precedes(i, a, b)}
           F == {upTo(b) : b \in B}
<1>1. F \subseteq SUBSET B /\ F # {} /\ IsFiniteSet(B)
  <2>1. IsFiniteSet(B)
    BY AtomShape, FS_Subset
  <2> QED
    BY <2>1
<1>2. PICK U \in F : \A V \in F : U \subseteq V => V = U
  <2> HIDE DEF F
  <2> QED
    BY <1>1, FiniteMaximal
<1>3. PICK m \in B : U = upTo(m)
  OBVIOUS
<1>4. ASSUME NEW k \in B \ {m}, ~Precedes(i, k, m)
      PROVE  FALSE
  <2>1. Precedes(i, m, k)
    BY <1>4, SchemaOrder
  <2>2. upTo(m) \subseteq upTo(k)
    <3>1. ASSUME NEW a \in B, a = m \/ Precedes(i, a, m)
          PROVE  Precedes(i, a, k)
      BY <2>1, <3>1, SchemaOrder
    <3> QED
      BY <3>1
  <2>3. upTo(k) = upTo(m)
    <3>1. upTo(k) \in F
      BY <1>4
    <3> HIDE DEF F, upTo
    <3> QED
      BY <1>2, <1>3, <2>2, <3>1
  <2>4. k \in upTo(m)
    BY <2>3
  <2> QED
    BY <1>4, <2>4
<1> QED
  BY <1>4

-----------------------------------------------------------------------------
(* The loops of the oracle read the atoms before the delta position by one *)
(* rule and those after it by another: U is the set of atoms that hold by  *)
(* the first, V those that hold by the second.                             *)
FiresAt(i, p, U, V) ==
    \A a \in Atoms(i) \ {p} : a \in (IF Precedes(i, a, p) THEN U ELSE V)
(* Every atom that fails V precedes every atom that fails U.               *)
Sorted(i, U, V) ==
    \A a, b \in Atoms(i) : a \notin V /\ b \notin U => Precedes(i, a, b)

(* An instance fires at one position only: in a loop of decrements the     *)
(* first that fails U, in a loop of increments the last that fails V.      *)
LEMMA FiresOnce ==
    ASSUME NEW i \in Inst, NEW U, NEW V
    PROVE  /\ (\E p \in Atoms(i) : p \in V /\ p \notin U /\ FiresAt(i, p, U, V))
                 <=> Sorted(i, U, V) /\ ~(Atoms(i) \subseteq U)
           /\ (\E p \in Atoms(i) : p \in U /\ p \notin V /\ FiresAt(i, p, U, V))
                 <=> Sorted(i, U, V) /\ ~(Atoms(i) \subseteq V)
           /\ \A p, q \in Atoms(i) :
                 /\ FiresAt(i, p, U, V) /\ FiresAt(i, q, U, V)
                 /\ \/ p \notin U /\ q \notin U
                    \/ p \notin V /\ q \notin V
                 => p = q
<1>1. ASSUME NEW p \in Atoms(i), NEW q \in Atoms(i), p # q,
             FiresAt(i, p, U, V), FiresAt(i, q, U, V)
      PROVE  (p \in U \/ q \in U) /\ (p \in V \/ q \in V)
  <2>1. Precedes(i, p, q) <=> ~Precedes(i, q, p)
    BY <1>1, SchemaOrder
  <2>2. q \in (IF Precedes(i, q, p) THEN U ELSE V)
    BY <1>1 DEF FiresAt
  <2>3. p \in (IF Precedes(i, p, q) THEN U ELSE V)
    BY <1>1 DEF FiresAt
  <2> QED
    BY <2>1, <2>2, <2>3
<1>2. ASSUME NEW p \in Atoms(i), FiresAt(i, p, U, V),
             (p \in U /\ p \notin V) \/ (p \in V /\ p \notin U)
      PROVE  Sorted(i, U, V)
  <2>1. SUFFICES ASSUME NEW a \in Atoms(i), NEW b \in Atoms(i), a \notin V, b \notin U
                 PROVE  Precedes(i, a, b)
    BY DEF Sorted
  <2>2. a = p \/ Precedes(i, a, p)
    BY <1>2, <2>1 DEF FiresAt
  <2>3. b = p \/ Precedes(i, p, b)
    BY <1>2, <2>1, SchemaOrder DEF FiresAt
  <2>4. ~(a = p /\ b = p)
    BY <1>2, <2>1
  <2> QED
    BY <2>2, <2>3, <2>4, SchemaOrder
<1>3. ASSUME Sorted(i, U, V), ~(Atoms(i) \subseteq U)
      PROVE  \E p \in Atoms(i) : p \in V /\ p \notin U /\ FiresAt(i, p, U, V)
  <2> DEFINE B == {a \in Atoms(i) : a \notin U}
  <2>1. B \in SUBSET Atoms(i) /\ B # {}
    BY <1>3
  <2>2. PICK p \in B : \A k \in B \ {p} : Precedes(i, p, k)
    BY <2>1, FirstAtom
  <2>3. p \in Atoms(i) /\ p \notin U
    BY <2>2
  <2>4. p \in V
    BY <1>3, <2>3, SchemaOrder DEF Sorted
  <2>5. ASSUME NEW a \in Atoms(i) \ {p}
        PROVE  a \in (IF Precedes(i, a, p) THEN U ELSE V)
    <3>1. Precedes(i, a, p) <=> ~Precedes(i, p, a)
      BY <2>3, <2>5, SchemaOrder
    <3>2. a \notin U => Precedes(i, p, a)
      BY <2>2, <2>5
    <3>3. a \notin V => Precedes(i, a, p)
      BY <1>3, <2>3, <2>5 DEF Sorted
    <3> QED
      BY <3>1, <3>2, <3>3
  <2> QED
    BY <2>3, <2>4, <2>5 DEF FiresAt
<1>4. ASSUME Sorted(i, U, V), ~(Atoms(i) \subseteq V)
      PROVE  \E p \in Atoms(i) : p \in U /\ p \notin V /\ FiresAt(i, p, U, V)
  <2> DEFINE B == {a \in Atoms(i) : a \notin V}
  <2>1. B \in SUBSET Atoms(i) /\ B # {}
    BY <1>4
  <2>2. PICK p \in B : \A k \in B \ {p} : Precedes(i, k, p)
    BY <2>1, LastAtom
  <2>3. p \in Atoms(i) /\ p \notin V
    BY <2>2
  <2>4. p \in U
    BY <1>4, <2>3, SchemaOrder DEF Sorted
  <2>5. ASSUME NEW a \in Atoms(i) \ {p}
        PROVE  a \in (IF Precedes(i, a, p) THEN U ELSE V)
    <3>1. Precedes(i, a, p) <=> ~Precedes(i, p, a)
      BY <2>3, <2>5, SchemaOrder
    <3>2. a \notin V => Precedes(i, a, p)
      BY <2>2, <2>5
    <3>3. a \notin U => Precedes(i, p, a)
      BY <1>4, <2>3, <2>5 DEF Sorted
    <3> QED
      BY <3>1, <3>2, <3>3
  <2> QED
    BY <2>3, <2>4, <2>5 DEF FiresAt
<1> QED
  BY <1>1, <1>2, <1>3, <1>4

(* A loop of sign d over the instances I that fires as above fires each of *)
(* them once.                                                              *)
FiresSo(fires, I, U, V, d) ==
    /\ \A e \in fires : \E i \in I : \E p \in Atoms(i) : e = <<i, p>>
    /\ \A i \in I : \A p \in Atoms(i) :
          <<i, p>> \in fires <=>
             /\ IF d = 1 THEN p \in U[i] /\ p \notin V[i] ELSE p \in V[i] /\ p \notin U[i]
             /\ FiresAt(i, p, U[i], V[i])
(* The instances that such a loop fires: sorted, and with an atom that     *)
(* fails the one reading that the positions of the delta fail.             *)
FiringOf(I, U, V, d) ==
    {i \in I : /\ Sorted(i, U[i], V[i])
               /\ ~(Atoms(i) \subseteq IF d = 1 THEN V[i] ELSE U[i])}

(* A loop of either sign fires the sorted instances whose atoms do not all *)
(* hold by the reading of that sign, each at one position.                 *)
LEMMA Firing ==
    ASSUME NEW fires, NEW I \in SUBSET Inst, NEW U, NEW V, NEW d \in {-1, 1},
           FiresSo(fires, I, U, V, d)
    PROVE  Fired(fires) = FiringOf(I, U, V, d) /\ Once(fires)
<1>1. /\ \A e \in fires : \E i \in I : \E p \in Atoms(i) : e = <<i, p>>
      /\ \A i \in I : \A p \in Atoms(i) :
             <<i, p>> \in fires <=>
                /\ IF d = 1 THEN p \in U[i] /\ p \notin V[i] ELSE p \in V[i] /\ p \notin U[i]
                /\ FiresAt(i, p, U[i], V[i])
  BY DEF FiresSo
<1>2. ASSUME NEW i \in I
      PROVE  i \in Fired(fires) <=> /\ Sorted(i, U[i], V[i])
                                    /\ ~(Atoms(i) \subseteq IF d = 1 THEN V[i] ELSE U[i])
  <2>1. i \in Fired(fires) <=> \E p \in Atoms(i) : <<i, p>> \in fires
    <3>1. ASSUME NEW e \in fires, e[1] = i
          PROVE  \E p \in Atoms(i) : <<i, p>> \in fires
      <4>1. PICK j \in I : \E p \in Atoms(j) : e = <<j, p>>
        BY <1>1
      <4>2. j = i
        BY <3>1, <4>1
      <4> QED
        BY <4>1, <4>2
    <3>2. ASSUME NEW p \in Atoms(i), <<i, p>> \in fires
          PROVE  i \in Fired(fires)
      <4>1. <<i, p>>[1] = i
        OBVIOUS
      <4> QED
        BY <3>2, <4>1 DEF Fired
    <3> QED
      BY <3>1, <3>2 DEF Fired
  <2>2. i \in Inst
    OBVIOUS
  <2>3. CASE d = 1
    <3>1. (\E p \in Atoms(i) : <<i, p>> \in fires)
             <=> \E p \in Atoms(i) : p \in U[i] /\ p \notin V[i] /\ FiresAt(i, p, U[i], V[i])
      BY <1>1, <2>3
    <3>2. (\E p \in Atoms(i) : p \in U[i] /\ p \notin V[i] /\ FiresAt(i, p, U[i], V[i]))
             <=> Sorted(i, U[i], V[i]) /\ ~(Atoms(i) \subseteq V[i])
      <4> DEFINE u == U[i]  v == V[i]
      <4> HIDE DEF u, v
      <4>1. (\E p \in Atoms(i) : p \in u /\ p \notin v /\ FiresAt(i, p, u, v))
               <=> Sorted(i, u, v) /\ ~(Atoms(i) \subseteq v)
        BY <2>2, FiresOnce
      <4> QED
        BY <4>1 DEF u, v
    <3> QED
      BY <2>1, <2>3, <3>1, <3>2
  <2>4. CASE d # 1
    <3>1. (\E p \in Atoms(i) : <<i, p>> \in fires)
             <=> \E p \in Atoms(i) : p \in V[i] /\ p \notin U[i] /\ FiresAt(i, p, U[i], V[i])
      BY <1>1, <2>4
    <3>2. (\E p \in Atoms(i) : p \in V[i] /\ p \notin U[i] /\ FiresAt(i, p, U[i], V[i]))
             <=> Sorted(i, U[i], V[i]) /\ ~(Atoms(i) \subseteq U[i])
      <4> DEFINE u == U[i]  v == V[i]
      <4> HIDE DEF u, v
      <4>1. (\E p \in Atoms(i) : p \in v /\ p \notin u /\ FiresAt(i, p, u, v))
               <=> Sorted(i, u, v) /\ ~(Atoms(i) \subseteq u)
        BY <2>2, FiresOnce
      <4> QED
        BY <4>1 DEF u, v
    <3> QED
      BY <2>1, <2>4, <3>1, <3>2
  <2> QED
    BY <2>3, <2>4
<1>3. Fired(fires) \subseteq I
  <2>1. ASSUME NEW e \in fires
        PROVE  e[1] \in I
    <3>1. \E j \in I : \E p \in Atoms(j) : e = <<j, p>>
      BY <1>1
    <3> QED
      BY <3>1
  <2> QED
    BY <2>1 DEF Fired
<1>4. ASSUME NEW c \in fires, NEW e \in fires, c[1] = e[1]
      PROVE  c = e
  <2>1. PICK i \in I : \E p \in Atoms(i) : c = <<i, p>>
    BY <1>1
  <2>2. PICK p \in Atoms(i) : c = <<i, p>>
    BY <2>1
  <2>3. PICK j \in I : \E q \in Atoms(j) : e = <<j, q>>
    BY <1>1
  <2>4. PICK q \in Atoms(j) : e = <<j, q>>
    BY <2>3
  <2>5. i = j /\ i \in Inst
    BY <1>4, <2>2, <2>4
  <2>6. <<i, p>> \in fires /\ <<i, q>> \in fires /\ q \in Atoms(i)
    BY <2>2, <2>4, <2>5
  <2>7. /\ IF d = 1 THEN p \in U[i] /\ p \notin V[i] ELSE p \in V[i] /\ p \notin U[i]
        /\ FiresAt(i, p, U[i], V[i])
    BY <1>1, <2>6
  <2>8. /\ IF d = 1 THEN q \in U[i] /\ q \notin V[i] ELSE q \in V[i] /\ q \notin U[i]
        /\ FiresAt(i, q, U[i], V[i])
    BY <1>1, <2>6
  <2>9. (p \notin U[i] /\ q \notin U[i]) \/ (p \notin V[i] /\ q \notin V[i])
    BY <2>7, <2>8
  <2>10. \A p1, q1 \in Atoms(i) :
            /\ FiresAt(i, p1, U[i], V[i]) /\ FiresAt(i, q1, U[i], V[i])
            /\ \/ p1 \notin U[i] /\ q1 \notin U[i]
               \/ p1 \notin V[i] /\ q1 \notin V[i]
            => p1 = q1
    <3> DEFINE u == U[i]  v == V[i]
    <3> HIDE DEF u, v
    <3>1. \A p1, q1 \in Atoms(i) :
             /\ FiresAt(i, p1, u, v) /\ FiresAt(i, q1, u, v)
             /\ \/ p1 \notin u /\ q1 \notin u
                \/ p1 \notin v /\ q1 \notin v
             => p1 = q1
      BY <2>5, FiresOnce
    <3> QED
      BY <3>1 DEF u, v
  <2>11. p = q
    BY <2>6, <2>7, <2>8, <2>9, <2>10
  <2> QED
    BY <2>2, <2>4, <2>5, <2>11
<1>5. Once(fires)
  BY <1>4 DEF Once
<1> QED
  BY <1>2, <1>3, <1>5 DEF FiringOf

(* The pairs that the loops run over are an instance and one of its atoms. *)
LEMMA PairShape ==
    ASSUME NEW I, NEW e
    PROVE  e \in UNION {{i} \X Atoms(i) : i \in I}
              <=> \E i \in I : \E p \in Atoms(i) : e = <<i, p>>
OBVIOUS

(* The seeds of a sign fire the instances of the stratum whose atoms came  *)
(* before they left, and that have an atom that left (resp. came).         *)
SeedWork(s, d) ==
    {i \in Inst : /\ Level(i.head) = s
                  /\ Ordered(i, Old, Now)
                  /\ IF d = 1 THEN ~Holds(i, Old)
                           ELSE \E a \in Atoms(i) : ~SeedHeld(i, a, Old, Now)}
(* The rows a batch has added so far (d = 1), or removed.                  *)
Frontier(d) == IF d = 1 THEN Now \ Old ELSE Old \ Now

(* SeedFires, given the frontiers of the lower strata, fires SeedWork,     *)
(* each instance once.                                                     *)
LEMMA SeedFired ==
    ASSUME NEW s \in Nat, NEW neg, NEW pos, NEW d \in {-1, 1},
           \A y \in Row : Level(y) < s => /\ y \in pos <=> y \in Frontier(d)
                                          /\ y \in neg <=> y \in Frontier(-d)
    PROVE  /\ Fired(SeedFires(s, neg, pos)) = SeedWork(s, d)
           /\ Once(SeedFires(s, neg, pos))
<1> DEFINE fires == SeedFires(s, neg, pos)
           I == {i \in Inst : Level(i.head) = s}
           U == [i \in Inst |-> {a \in Atoms(i) : SeedHeld(i, a, Old, Now)}]
           V == [i \in Inst |-> {a \in Atoms(i) : Held(i, a, Old)}]
<1>1. \A e \in fires : \E i \in I : \E p \in Atoms(i) : e = <<i, p>>
  <2>1. I = {j \in Inst : Stratum[TableOf(j.head)] = s}
    BY DEF Level
  <2>2. \A e \in fires : e \in UNION {{i} \X Atoms(i) : i \in I}
    BY <2>1 DEF SeedFires
  <2> HIDE DEF I, fires
  <2> QED
    BY <2>2, PairShape
<1>2. ASSUME NEW i \in I, NEW p \in Atoms(i)
      PROVE  <<i, p>> \in fires <=>
                 /\ IF d = 1 THEN p \in U[i] /\ p \notin V[i] ELSE p \in V[i] /\ p \notin U[i]
                 /\ FiresAt(i, p, U[i], V[i])
  <2>1. i \in Inst /\ Level(i.head) = s
    OBVIOUS
  <2>2. /\ U[i] = {a \in Atoms(i) : SeedHeld(i, a, Old, Now)}
        /\ V[i] = {a \in Atoms(i) : Held(i, a, Old)}
    BY <2>1
  <2>3. <<i, p>> \in fires <=>
           /\ ~SameStratum(i, p)
           /\ AtomRow(i, p) \in IF IsNegated(i, p) THEN neg ELSE pos
           /\ \A a \in Atoms(i) \ {p} : SeedRead(i, p, a) # IsNegated(i, a)
    <3>1. <<i, p>> \in UNION {{j} \X Atoms(j) : j \in {k \in Inst : Stratum[TableOf(k.head)] = s}}
      BY <2>1 DEF Level
    <3>2. <<i, p>>[1] = i /\ <<i, p>>[2] = p
      OBVIOUS
    <3> QED
      BY <3>1, <3>2 DEF SeedFires
  <2>4. ASSUME NEW a \in Atoms(i)
        PROVE  /\ a \in V[i] <=> Held(i, a, Old)
               /\ a \in U[i] <=> IF SameStratum(i, a) THEN Held(i, a, Old) ELSE Held(i, a, Now)
               /\ AtomRow(i, a) \in Row
               /\ ~SameStratum(i, a) => Level(AtomRow(i, a)) < s
               /\ InI(cell[AtomRow(i, a)]) <=> AtomRow(i, a) \in Old
               /\ InNew(cell[AtomRow(i, a)]) <=> AtomRow(i, a) \in Now
    BY <2>1, <2>2, AtomShape DEF SeedHeld, Old, OldOf, Now, NowOf
  <2>5. ~SameStratum(i, p) =>
           (AtomRow(i, p) \in (IF IsNegated(i, p) THEN neg ELSE pos)
              <=> IF d = 1 THEN p \in U[i] /\ p \notin V[i] ELSE p \in V[i] /\ p \notin U[i])
    <3>1. SUFFICES ASSUME ~SameStratum(i, p)
                   PROVE  AtomRow(i, p) \in (IF IsNegated(i, p) THEN neg ELSE pos)
                             <=> IF d = 1 THEN p \in U[i] /\ p \notin V[i] ELSE p \in V[i] /\ p \notin U[i]
      OBVIOUS
    <3> DEFINE y == AtomRow(i, p)
    <3>2. y \in Row /\ Level(y) < s
      BY <2>4, <3>1
    <3>3. /\ y \in pos <=> IF d = 1 THEN y \in Now /\ y \notin Old ELSE y \in Old /\ y \notin Now
          /\ y \in neg <=> IF d = 1 THEN y \in Old /\ y \notin Now ELSE y \in Now /\ y \notin Old
      <4>1. (y \in pos <=> y \in Frontier(d)) /\ (y \in neg <=> y \in Frontier(-d))
        BY <3>2
      <4>2. (d = 1 => -d # 1) /\ (d # 1 => -d = 1)
        OBVIOUS
      <4> HIDE DEF y
      <4> QED
        BY <4>1, <4>2 DEF Frontier
    <3>4. (p \in V[i] <=> Held(i, p, Old)) /\ (p \in U[i] <=> Held(i, p, Now))
      BY <2>4, <3>1
    <3>5. CASE IsNegated(i, p)
      <4>1. (p \in V[i] <=> y \notin Old) /\ (p \in U[i] <=> y \notin Now)
        BY <3>4, <3>5, HeldReads
      <4> HIDE DEF U, V
      <4> QED
        BY <3>3, <3>5, <4>1 DEF Frontier
    <3>6. CASE ~IsNegated(i, p)
      <4>1. (p \in V[i] <=> y \in Old) /\ (p \in U[i] <=> y \in Now)
        BY <3>4, <3>6, HeldReads
      <4> HIDE DEF U, V
      <4> QED
        BY <3>3, <3>6, <4>1 DEF Frontier
    <3> QED
      BY <3>5, <3>6
  <2>6. SameStratum(i, p) => (p \in U[i] <=> p \in V[i])
    BY <2>4
  <2>7. ASSUME ~SameStratum(i, p), NEW a \in Atoms(i) \ {p}
        PROVE  (SeedRead(i, p, a) # IsNegated(i, a))
                   <=> a \in IF Precedes(i, a, p) THEN U[i] ELSE V[i]
    <3>1. Precedes(i, a, p) => ~SameStratum(i, a)
      BY <2>7, HeldReads DEF Precedes
    <3> DEFINE y == AtomRow(i, a)
    <3>2. CASE Precedes(i, a, p)
      <4>1. SeedRead(i, p, a) = InNew(cell[y])
        BY <3>2 DEF SeedRead
      <4>2. a \in U[i] <=> Held(i, a, Now)
        BY <2>4, <3>1, <3>2
      <4>3. InNew(cell[y]) \in BOOLEAN
        BY DEF InNew, InI, SurvivesSoFar
      <4>4. SeedRead(i, p, a) = (y \in Now)
        BY <2>4, <4>1, <4>3
      <4>5. (SeedRead(i, p, a) # IsNegated(i, a)) <=> Held(i, a, Now)
        BY <4>4 DEF Held
      <4> QED
        BY <3>2, <4>2, <4>5
    <3>3. CASE ~Precedes(i, a, p)
      <4>1. SeedRead(i, p, a) = InI(cell[y])
        BY <3>3 DEF SeedRead
      <4>2. a \in V[i] <=> Held(i, a, Old)
        BY <2>4
      <4>3. InI(cell[y]) \in BOOLEAN
        BY DEF InNew, InI, SurvivesSoFar
      <4>4. SeedRead(i, p, a) = (y \in Old)
        BY <2>4, <4>1, <4>3
      <4>5. (SeedRead(i, p, a) # IsNegated(i, a)) <=> Held(i, a, Old)
        BY <4>4 DEF Held
      <4> QED
        BY <3>3, <4>2, <4>5
    <3> QED
      BY <3>2, <3>3
  <2> HIDE DEF U, V, fires, I
  <2>8. CASE SameStratum(i, p)
    BY <2>3, <2>6, <2>8
  <2>9. CASE ~SameStratum(i, p)
    BY <2>3, <2>5, <2>7, <2>9 DEF FiresAt
  <2> QED
    BY <2>8, <2>9
<1>3. ASSUME NEW i \in I
      PROVE  /\ Sorted(i, U[i], V[i]) <=> Ordered(i, Old, Now)
             /\ Atoms(i) \subseteq V[i] <=> Holds(i, Old)
             /\ Atoms(i) \subseteq U[i] <=> \A a \in Atoms(i) : SeedHeld(i, a, Old, Now)
  <2>1. i \in Inst
    OBVIOUS
  <2>2. /\ U[i] = {a \in Atoms(i) : SeedHeld(i, a, Old, Now)}
        /\ V[i] = {a \in Atoms(i) : Held(i, a, Old)}
    BY <2>1
  <2> HIDE DEF U, V, I
  <2>3. Sorted(i, U[i], V[i]) <=> Ordered(i, Old, Now)
    BY <2>2 DEF Sorted, Ordered
  <2> QED
    BY <2>1, <2>2, <2>3, HoldsByAtoms
<1> HIDE DEF U, V, fires
<1>4. I \in SUBSET Inst
  OBVIOUS
<1>5. Fired(fires) = FiringOf(I, U, V, d) /\ Once(fires)
  <2>1. \A i \in I : \A p \in Atoms(i) :
           <<i, p>> \in fires <=>
              /\ IF d = 1 THEN p \in U[i] /\ p \notin V[i] ELSE p \in V[i] /\ p \notin U[i]
              /\ FiresAt(i, p, U[i], V[i])
    BY <1>2
  <2> HIDE DEF I
  <2>2. FiresSo(fires, I, U, V, d)
    BY <1>1, <2>1 DEF FiresSo
  <2> QED
    BY <1>4, <2>2, Firing
<1>6. ASSUME NEW i \in I
      PROVE  i \in SeedWork(s, d) <=>
                /\ Sorted(i, U[i], V[i])
                /\ ~(Atoms(i) \subseteq IF d = 1 THEN V[i] ELSE U[i])
  <2>1. i \in Inst /\ Level(i.head) = s
    OBVIOUS
  <2> HIDE DEF I
  <2>2. CASE d = 1
    BY <1>3, <2>1, <2>2 DEF SeedWork
  <2>3. CASE d # 1
    BY <1>3, <2>1, <2>3 DEF SeedWork
  <2> QED
    BY <2>2, <2>3
<1>7. SeedWork(s, d) \subseteq I
  BY DEF SeedWork
<1> HIDE DEF I
<1> QED
  BY <1>5, <1>6, <1>7 DEF fires, FiringOf

-----------------------------------------------------------------------------
(* What the counters of one row say of the instances counted and owed.     *)
LEMMA BalanceFacts ==
    ASSUME NEW cells \in [Row -> Cell], NEW C \in SUBSET Inst, NEW D \in SUBSET Inst,
           Balances(cells, C, D), NEW x \in Row
    PROVE  /\ cells[x].nr \in Int /\ cells[x].r \in Int
           /\ cells[x].nr > 0 => \/ \E i \in C : i.head = x /\ RuleClass(i) = "kNonRecursive"
                                 \/ "kExplicit" \in cells[x].f
           /\ Total(cells[x]) > 0 => (\E i \in C : i.head = x) \/ "kExplicit" \in cells[x].f
           /\ (\A i \in D : i.head # x \/ RuleClass(i) # "kRecursive") => cells[x].r >= 0
           /\ (\A i \in D : i.head # x) =>
                 /\ cells[x].nr >= 0 /\ cells[x].r >= 0
                 /\ cells[x].nr = Cardinality(Into(C, x, "kNonRecursive")) + Explicit(cells[x])
                 /\ cells[x].r = Cardinality(Into(C, x, "kRecursive"))
                 /\ (\E i \in C : i.head = x) \/ "kExplicit" \in cells[x].f => Total(cells[x]) > 0
<1> DEFINE N == Into(C, x, "kNonRecursive")
           R == Into(C, x, "kRecursive")
           n == Cardinality(N)
           r == Cardinality(R)
           dn == Cardinality(Into(D, x, "kNonRecursive"))
           dr == Cardinality(Into(D, x, "kRecursive"))
           e == Explicit(cells[x])
<1>1. /\ IsFiniteSet(N) /\ n \in Nat /\ IsFiniteSet(R) /\ r \in Nat
      /\ dn \in Nat /\ dr \in Nat
  BY IntoFinite
<1>2. (n > 0 <=> N # {}) /\ (r > 0 <=> R # {})
  BY <1>1, FS_EmptySet
<1>3. cells[x].nr = n - dn + e /\ cells[x].r = r - dr
  BY DEF Balances
<1>4. e \in {0, 1} /\ (e > 0 <=> "kExplicit" \in cells[x].f)
  BY DEF Explicit
<1>5. (\A i \in D : i.head # x \/ RuleClass(i) # "kRecursive") => dr = 0
  <2>1. (\A i \in D : i.head # x \/ RuleClass(i) # "kRecursive") => Into(D, x, "kRecursive") = {}
    BY DEF Into
  <2> QED
    BY <2>1, FS_EmptySet
<1>6. (\A i \in D : i.head # x) => dn = 0 /\ dr = 0
  BY IntoEmpty
<1>7. \A i \in C : RuleClass(i) \in {"kNonRecursive", "kRecursive"}
  BY DEF RuleClass
<1>8. /\ N # {} <=> \E i \in C : i.head = x /\ RuleClass(i) = "kNonRecursive"
      /\ R # {} <=> \E i \in C : i.head = x /\ RuleClass(i) = "kRecursive"
  BY DEF Into
<1>9. N # {} \/ R # {} <=> \E i \in C : i.head = x
  BY <1>7, <1>8
<1>10. cells[x].nr \in Int /\ cells[x].r \in Int
  BY DEF Cell
<1> HIDE DEF N, R, n, r, dn, dr, e
<1>11. cells[x].nr > 0 => N # {} \/ "kExplicit" \in cells[x].f
  BY <1>1, <1>2, <1>3, <1>4
<1>12. Total(cells[x]) > 0 => N # {} \/ R # {} \/ "kExplicit" \in cells[x].f
  BY <1>1, <1>2, <1>3, <1>4 DEF Total
<1>13. dr = 0 => cells[x].r >= 0
  BY <1>1, <1>3
<1>14. dn = 0 /\ dr = 0 =>
          /\ cells[x].nr >= 0 /\ cells[x].r >= 0
          /\ cells[x].nr = n + e /\ cells[x].r = r
          /\ N # {} \/ R # {} \/ "kExplicit" \in cells[x].f => Total(cells[x]) > 0
  BY <1>1, <1>2, <1>3, <1>4 DEF Total
<1>15. /\ n = Cardinality(Into(C, x, "kNonRecursive")) /\ r = Cardinality(Into(C, x, "kRecursive"))
       /\ e = Explicit(cells[x])
  BY DEF n, r, e, N, R
<1> QED
  BY <1>5, <1>6, <1>8, <1>9, <1>10, <1>11, <1>12, <1>13, <1>14, <1>15

(* A loop that fires the instances of X, each of them once. *)
FiresJust(fires, X) == Fired(fires) = X /\ Once(fires)

(* A loop of decrements: some instances are no longer counted, others are  *)
(* owed.                                                                   *)
LEMMA BalanceDown ==
    ASSUME NEW cells, NEW dq, NEW aq, NEW waiting, NEW C, NEW D, NEW f,
           Balance(cells, dq, aq, waiting, C, D, f),
           NEW C2 \in SUBSET C, NEW D2 \in SUBSET Inst, D \subseteq D2, C \cap D2 = {},
           NEW fires, FiresJust(fires, (C \ C2) \cup (D2 \ D))
    PROVE  LET end == FoldAll(cells, fires, -1) IN
           /\ Balance(end, dq \cup ParkedDown(cells, end, fires), aq, waiting, C2, D2, f)
           /\ Touched(cells, end)
           /\ \A x \in Row : end[x].nr <= cells[x].nr
<1> DEFINE end == FoldAll(cells, fires, -1)
           dq2 == dq \cup ParkedDown(cells, end, fires)
           n(x, k) == Cardinality(Into(Fired(fires), x, k))
<1>1. /\ cells \in [Row -> Cell] /\ C \subseteq Inst /\ D \subseteq Inst /\ Balances(cells, C, D)
      /\ dq \subseteq OldOf(cells) /\ aq \subseteq Row
      /\ LossParked(cells, dq, C, D, f) /\ GainQueued(cells, aq, waiting)
  BY DEF Balance
<1>2. Fired(fires) \subseteq Inst /\ Once(fires)
  BY <1>1 DEF FiresJust
<1>3. /\ end \in [Row -> Cell]
      /\ \A x \in Row :
            /\ end[x].nr = cells[x].nr + (-1) * n(x, "kNonRecursive")
            /\ end[x].r = cells[x].r + (-1) * n(x, "kRecursive")
            /\ n(x, "kNonRecursive") \in Nat /\ n(x, "kRecursive") \in Nat
            /\ end[x].f = cells[x].f \cup (IF x \in Heads(fires) THEN {"kTouched"} ELSE {})
            /\ x \notin Heads(fires) => end[x] = cells[x]
  BY <1>1, <1>2, FoldEffect
<1>4. \A x \in Row : end[x].f = cells[x].f \cup {"kTouched"} \/ end[x].f = cells[x].f
  BY <1>3
<1>5. OldOf(end) = OldOf(cells)
  BY <1>4, TouchedCells
<1> HIDE DEF end
<1>6. \A x : \A k : n(x, k) = Cardinality(Into(C, x, k)) - Cardinality(Into(C2, x, k))
                            + (Cardinality(Into(D2, x, k)) - Cardinality(Into(D, x, k)))
  <2>1. SUFFICES ASSUME NEW x, NEW k
                 PROVE  n(x, k) = Cardinality(Into(C, x, k)) - Cardinality(Into(C2, x, k))
                            + (Cardinality(Into(D2, x, k)) - Cardinality(Into(D, x, k)))
    OBVIOUS
  <2>2. n(x, k) = Cardinality(Into(C \ C2, x, k)) + Cardinality(Into(D2 \ D, x, k))
    <3>1. (C \ C2) \in SUBSET Inst /\ (D2 \ D) \in SUBSET Inst /\ (C \ C2) \cap (D2 \ D) = {}
      BY <1>1
    <3> QED
      BY <3>1, IntoUnion DEF FiresJust
  <2>3. Cardinality(Into(C \ C2, x, k)) = Cardinality(Into(C, x, k)) - Cardinality(Into(C2, x, k))
    BY <1>1, IntoDifference
  <2>4. Cardinality(Into(D2 \ D, x, k)) = Cardinality(Into(D2, x, k)) - Cardinality(Into(D, x, k))
    BY <1>1, IntoDifference
  <2> QED
    BY <2>2, <2>3, <2>4
<1>7. \A x : \A k : /\ Cardinality(Into(C, x, k)) \in Nat /\ Cardinality(Into(C2, x, k)) \in Nat
                    /\ Cardinality(Into(D, x, k)) \in Nat /\ Cardinality(Into(D2, x, k)) \in Nat
  <2>1. C2 \subseteq Inst
    BY <1>1
  <2> QED
    BY <1>1, <2>1, IntoFinite
<1> HIDE DEF n
<1>8. ASSUME NEW x \in Row
      PROVE  /\ end[x].nr = Cardinality(Into(C2, x, "kNonRecursive"))
                              - Cardinality(Into(D2, x, "kNonRecursive")) + Explicit(end[x])
             /\ end[x].r = Cardinality(Into(C2, x, "kRecursive"))
                              - Cardinality(Into(D2, x, "kRecursive"))
             /\ end[x].nr <= cells[x].nr /\ Total(end[x]) <= Total(cells[x])
  <2>1. /\ cells[x].nr = Cardinality(Into(C, x, "kNonRecursive"))
                           - Cardinality(Into(D, x, "kNonRecursive")) + Explicit(cells[x])
        /\ cells[x].r = Cardinality(Into(C, x, "kRecursive"))
                           - Cardinality(Into(D, x, "kRecursive"))
    BY <1>1 DEF Balances
  <2>2. Explicit(end[x]) = Explicit(cells[x]) /\ Explicit(cells[x]) \in Nat
    BY <1>4, TouchReads DEF Explicit
  <2>3. /\ end[x].nr = cells[x].nr + (-1) * n(x, "kNonRecursive")
        /\ end[x].r = cells[x].r + (-1) * n(x, "kRecursive")
        /\ n(x, "kNonRecursive") \in Nat /\ n(x, "kRecursive") \in Nat
    BY <1>3
  <2>4. cells[x].nr \in Int /\ cells[x].r \in Int
    BY <1>1 DEF Cell
  <2> QED
    BY <1>6, <1>7, <2>1, <2>2, <2>3, <2>4 DEF Total
<1>9. LossParked(end, dq2, C2, D2, f)
  <2>1. SUFFICES ASSUME NEW x \in Row,
                        SurvivesSoFar(end[x]), end[x].nr <= 0, x \notin dq2
                 PROVE  /\ \A i \in Inst : i.head = x =>
                              i \notin D2 /\ (Holds(i, OldOf(end)) => i \in C2)
                        /\ x \in f => "kExplicit" \in end[x].f
    BY DEF LossParked
  <2>2. x \notin Heads(fires)
    BY <1>4, <2>1, TouchReads DEF ParkedDown, CrossedDown, SurvivesSoFar
  <2>3. end[x] = cells[x]
    BY <1>3, <2>2
  <2>4. \A i \in Inst : i.head = x => i \notin C \ C2 /\ i \notin D2 \ D
    BY <2>2 DEF FiresJust, Heads, Fired
  <2> QED
    BY <1>1, <1>5, <2>1, <2>3, <2>4 DEF LossParked
<1>10. GainQueued(end, aq, waiting)
  <2>1. ASSUME NEW x \in Row, Total(end[x]) > 0
        PROVE  InNew(end[x]) \/ x \in aq \/ x \in waiting
    <3>1. Total(cells[x]) > 0
      <4>1. Total(end[x]) \in Int /\ Total(cells[x]) \in Int
        BY <1>1, <1>3 DEF Cell, Total
      <4> QED
        BY <1>8, <2>1, <4>1
    <3> QED
      BY <1>1, <1>4, <3>1, TouchReads DEF GainQueued
  <2> QED
    BY <2>1 DEF GainQueued
<1>11. dq2 \subseteq OldOf(end)
  <2>1. Heads(fires) \subseteq Row
    BY <1>2, HeadsAndAtoms DEF Heads, Fired
  <2>2. ParkedDown(cells, end, fires) \subseteq OldOf(cells)
    BY <2>1 DEF ParkedDown, CrossedDown, OldOf, InI
  <2> QED
    BY <1>1, <1>5, <2>2
<1>12. Balances(end, C2, D2)
  BY <1>8 DEF Balances
<1>13. Balance(end, dq2, aq, waiting, C2, D2, f)
  <2> HIDE DEF dq2
  <2> QED
    BY <1>1, <1>3, <1>9, <1>10, <1>11, <1>12 DEF Balance
<1> QED
  BY <1>4, <1>8, <1>13 DEF dq2, end, Touched

(* A loop of increments: some instances are now counted, others repaid.    *)
LEMMA BalanceUp ==
    ASSUME NEW cells, NEW dq, NEW aq, NEW waiting, NEW C, NEW D, NEW f,
           Balance(cells, dq, aq, waiting, C, D, f),
           NEW C2 \in SUBSET Inst, NEW D2 \in SUBSET D, C \subseteq C2, C2 \cap D = {},
           NEW fires, FiresJust(fires, (C2 \ C) \cup (D \ D2))
    PROVE  LET end == FoldAll(cells, fires, 1) IN
           /\ Balance(end, dq, aq \cup ParkedUp(cells, end, fires), waiting, C2, D2, f)
           /\ Touched(cells, end)
           /\ \A x \in Row : cells[x].nr <= end[x].nr /\ cells[x].r <= end[x].r
           /\ \A x \in Row : x \notin Heads(fires) => end[x] = cells[x]
<1> DEFINE end == FoldAll(cells, fires, 1)
           aq2 == aq \cup ParkedUp(cells, end, fires)
           n(x, k) == Cardinality(Into(Fired(fires), x, k))
<1>1. /\ cells \in [Row -> Cell] /\ C \subseteq Inst /\ D \subseteq Inst /\ Balances(cells, C, D)
      /\ dq \subseteq OldOf(cells) /\ aq \subseteq Row
      /\ LossParked(cells, dq, C, D, f) /\ GainQueued(cells, aq, waiting)
  BY DEF Balance
<1>2. Fired(fires) \subseteq Inst /\ Once(fires)
  BY <1>1 DEF FiresJust
<1>3. /\ end \in [Row -> Cell]
      /\ \A x \in Row :
            /\ end[x].nr = cells[x].nr + 1 * n(x, "kNonRecursive")
            /\ end[x].r = cells[x].r + 1 * n(x, "kRecursive")
            /\ n(x, "kNonRecursive") \in Nat /\ n(x, "kRecursive") \in Nat
            /\ end[x].f = cells[x].f \cup (IF x \in Heads(fires) THEN {"kTouched"} ELSE {})
            /\ x \notin Heads(fires) => end[x] = cells[x]
  BY <1>1, <1>2, FoldEffect
<1>4. \A x \in Row : end[x].f = cells[x].f \cup {"kTouched"} \/ end[x].f = cells[x].f
  BY <1>3
<1>5. OldOf(end) = OldOf(cells)
  BY <1>4, TouchedCells
<1> HIDE DEF end
<1>6. \A x : \A k : n(x, k) = Cardinality(Into(C2, x, k)) - Cardinality(Into(C, x, k))
                            + (Cardinality(Into(D, x, k)) - Cardinality(Into(D2, x, k)))
  <2>1. SUFFICES ASSUME NEW x, NEW k
                 PROVE  n(x, k) = Cardinality(Into(C2, x, k)) - Cardinality(Into(C, x, k))
                            + (Cardinality(Into(D, x, k)) - Cardinality(Into(D2, x, k)))
    OBVIOUS
  <2>2. n(x, k) = Cardinality(Into(C2 \ C, x, k)) + Cardinality(Into(D \ D2, x, k))
    <3>1. (C2 \ C) \in SUBSET Inst /\ (D \ D2) \in SUBSET Inst /\ (C2 \ C) \cap (D \ D2) = {}
      BY <1>1
    <3> QED
      BY <3>1, IntoUnion DEF FiresJust
  <2>3. Cardinality(Into(C2 \ C, x, k)) = Cardinality(Into(C2, x, k)) - Cardinality(Into(C, x, k))
    BY <1>1, IntoDifference
  <2>4. Cardinality(Into(D \ D2, x, k)) = Cardinality(Into(D, x, k)) - Cardinality(Into(D2, x, k))
    BY <1>1, IntoDifference
  <2> QED
    BY <2>2, <2>3, <2>4
<1>7. \A x : \A k : /\ Cardinality(Into(C, x, k)) \in Nat /\ Cardinality(Into(C2, x, k)) \in Nat
                    /\ Cardinality(Into(D, x, k)) \in Nat /\ Cardinality(Into(D2, x, k)) \in Nat
  <2>1. D2 \subseteq Inst
    BY <1>1
  <2> QED
    BY <1>1, <2>1, IntoFinite
<1> HIDE DEF n
<1>8. ASSUME NEW x \in Row
      PROVE  /\ end[x].nr = Cardinality(Into(C2, x, "kNonRecursive"))
                              - Cardinality(Into(D2, x, "kNonRecursive")) + Explicit(end[x])
             /\ end[x].r = Cardinality(Into(C2, x, "kRecursive"))
                              - Cardinality(Into(D2, x, "kRecursive"))
             /\ cells[x].nr <= end[x].nr /\ cells[x].r <= end[x].r
  <2>1. /\ cells[x].nr = Cardinality(Into(C, x, "kNonRecursive"))
                           - Cardinality(Into(D, x, "kNonRecursive")) + Explicit(cells[x])
        /\ cells[x].r = Cardinality(Into(C, x, "kRecursive"))
                           - Cardinality(Into(D, x, "kRecursive"))
    BY <1>1 DEF Balances
  <2>2. Explicit(end[x]) = Explicit(cells[x]) /\ Explicit(cells[x]) \in Nat
    BY <1>4, TouchReads DEF Explicit
  <2>3. /\ end[x].nr = cells[x].nr + 1 * n(x, "kNonRecursive")
        /\ end[x].r = cells[x].r + 1 * n(x, "kRecursive")
        /\ n(x, "kNonRecursive") \in Nat /\ n(x, "kRecursive") \in Nat
    BY <1>3
  <2>4. cells[x].nr \in Int /\ cells[x].r \in Int
    BY <1>1 DEF Cell
  <2> QED
    BY <1>6, <1>7, <2>1, <2>2, <2>3, <2>4
<1>9. LossParked(end, dq, C2, D2, f)
  <2>1. SUFFICES ASSUME NEW x \in Row,
                        SurvivesSoFar(end[x]), end[x].nr <= 0, x \notin dq
                 PROVE  /\ \A i \in Inst : i.head = x =>
                              i \notin D2 /\ (Holds(i, OldOf(end)) => i \in C2)
                        /\ x \in f => "kExplicit" \in end[x].f
    BY DEF LossParked
  <2>2. SurvivesSoFar(cells[x]) /\ ("kExplicit" \in cells[x].f => "kExplicit" \in end[x].f)
    BY <1>4, <2>1, TouchReads
  <2>3. cells[x].nr <= 0
    <3>1. cells[x].nr \in Int /\ end[x].nr \in Int
      BY <1>1, <1>3 DEF Cell
    <3> QED
      BY <1>8, <2>1, <3>1
  <2> QED
    BY <1>1, <1>5, <2>1, <2>2, <2>3 DEF LossParked
<1>10. GainQueued(end, aq2, waiting)
  <2>1. ASSUME NEW x \in Row, Total(end[x]) > 0
        PROVE  InNew(end[x]) \/ x \in aq2 \/ x \in waiting
    <3>1. CASE Total(cells[x]) > 0
      BY <1>1, <1>4, <3>1, TouchReads DEF GainQueued
    <3>2. CASE ~(Total(cells[x]) > 0)
      <4>1. Total(cells[x]) <= 0
        BY <1>1, <3>2 DEF Cell, Total
      <4>2. x \in Heads(fires)
        BY <1>3, <2>1, <3>2
      <4> QED
        BY <2>1, <4>1, <4>2 DEF ParkedUp, CrossedUp
    <3> QED
      BY <3>1, <3>2
  <2> QED
    BY <2>1 DEF GainQueued
<1>11. aq2 \subseteq Row
  <2>1. Heads(fires) \subseteq Row
    BY <1>2, HeadsAndAtoms DEF Heads, Fired
  <2> QED
    BY <1>1, <2>1 DEF ParkedUp
<1>12. Balances(end, C2, D2)
  BY <1>8 DEF Balances
<1>13. Balance(end, dq, aq2, waiting, C2, D2, f)
  <2>1. D2 \subseteq Inst
    BY <1>1
  <2> HIDE DEF aq2
  <2> QED
    BY <1>1, <1>3, <1>5, <1>9, <1>10, <1>11, <1>12, <2>1 DEF Balance
<1> QED
  BY <1>3, <1>4, <1>8, <1>13 DEF aq2, end, Touched

(* Claims, retirements and the like move flags only.                       *)
LEMMA BalanceReflag ==
    ASSUME NEW cells, NEW dq, NEW aq, NEW waiting, NEW C, NEW D, NEW f,
           Balance(cells, dq, aq, waiting, C, D, f),
           NEW end \in [Row -> Cell], NEW dq2, NEW aq2, NEW waiting2,
           \A x \in Row : /\ end[x].nr = cells[x].nr /\ end[x].r = cells[x].r
                          /\ "kInI" \in end[x].f <=> "kInI" \in cells[x].f
                          /\ "kExplicit" \in end[x].f <=> "kExplicit" \in cells[x].f
                          /\ SurvivesSoFar(end[x]) => SurvivesSoFar(cells[x])
                          /\ SurvivesSoFar(end[x]) /\ x \in dq => x \in dq2,
           dq2 \subseteq dq, aq2 \subseteq Row,
           GainQueued(end, aq2, waiting2)
    PROVE  Balance(end, dq2, aq2, waiting2, C, D, f)
<1>1. OldOf(end) = OldOf(cells)
  BY DEF OldOf, InI
<1>2. dq2 \subseteq OldOf(end)
  BY <1>1 DEF Balance
<1>3. Balances(end, C, D)
  BY DEF Balance, Balances, Explicit
<1>4. LossParked(end, dq2, C, D, f)
  <2>1. LossParked(cells, dq, C, D, f)
    BY DEF Balance
  <2>2. SUFFICES ASSUME NEW x \in Row,
                        SurvivesSoFar(end[x]), end[x].nr <= 0, x \notin dq2
                 PROVE  /\ \A i \in Inst : i.head = x =>
                              i \notin D /\ (Holds(i, OldOf(end)) => i \in C)
                        /\ x \in f => "kExplicit" \in end[x].f
    BY DEF LossParked
  <2>3. SurvivesSoFar(cells[x]) /\ cells[x].nr <= 0 /\ x \notin dq
    BY <2>2
  <2> QED
    BY <1>1, <2>1, <2>2, <2>3 DEF LossParked
<1> QED
  BY <1>2, <1>3, <1>4 DEF Balance

-----------------------------------------------------------------------------
(* The rounds of a stratum fire the instances that hold with the claimed   *)
(* rows and do not without them.                                           *)
RoundWork(s, S, B) == {i \in Inst : Level(i.head) = s /\ Holds(i, B) /\ ~Holds(i, S)}
(* How FixRead sees the rows of the stratum in a round: S without the      *)
(* claimed rows, B with them, either test of the sign.                     *)
RoundReads(cells, s, S, B, deleting) ==
    \A y \in Row :
        /\ Level(y) < s => (InNew(cells[y]) <=> y \in S)
        /\ Level(y) = s =>
              IF deleting
              THEN /\ SurvivesSoFar(cells[y]) <=> y \in S
                   /\ AliveAtClaim(cells[y]) <=> y \in B
              ELSE /\ InNewWithFrontier(cells[y]) <=> y \in B
                   /\ InNewSansFrontier(cells[y]) <=> y \in S

(* RoundFires fires RoundWork, each instance at one position only.         *)
LEMMA RoundFired ==
    ASSUME NEW s \in Nat, NEW mid, NEW round, NEW S, NEW B, NEW deleting \in BOOLEAN,
           B = S \cup round, S \cap round = {}, round \subseteq ViewsByStratum(s),
           RoundReads(mid, s, S, B, deleting)
    PROVE  FiresJust(RoundFires(mid, s, round, deleting), RoundWork(s, S, B))
<1> DEFINE fires == RoundFires(mid, s, round, deleting)
           I == {i \in Inst : Level(i.head) = s}
           hS == [i \in Inst |-> {a \in Atoms(i) : Held(i, a, S)}]
           hB == [i \in Inst |-> {a \in Atoms(i) : Held(i, a, B)}]
           d == IF deleting THEN -1 ELSE 1
           U == IF deleting THEN hS ELSE hB
           V == IF deleting THEN hB ELSE hS
<1>1. \A e \in fires : \E i \in I : \E p \in Atoms(i) : e = <<i, p>>
  <2>1. I = {j \in Inst : Stratum[TableOf(j.head)] = s}
    BY DEF Level
  <2>2. \A e \in fires : e \in UNION {{i} \X Atoms(i) : i \in I}
    BY <2>1 DEF RoundFires
  <2> HIDE DEF I, fires
  <2> QED
    BY <2>2, PairShape
<1>2. ASSUME NEW i \in I, NEW a \in Atoms(i)
      PROVE  /\ a \in hS[i] <=> Held(i, a, S)
             /\ a \in hB[i] <=> Held(i, a, B)
             /\ AtomRow(i, a) \in Row
             /\ ~SameStratum(i, a) => Level(AtomRow(i, a)) < s /\ (Held(i, a, B) <=> Held(i, a, S))
             /\ SameStratum(i, a) => /\ Level(AtomRow(i, a)) = s /\ ~IsNegated(i, a)
                                     /\ Held(i, a, S) <=> AtomRow(i, a) \in S
                                     /\ Held(i, a, B) <=> AtomRow(i, a) \in B
  <2>1. i \in Inst /\ Level(i.head) = s
    OBVIOUS
  <2>2. a \in hS[i] <=> Held(i, a, S)
    BY <2>1
  <2>3. a \in hB[i] <=> Held(i, a, B)
    BY <2>1
  <2>4. /\ AtomRow(i, a) \in Row
        /\ SameStratum(i, a) => Level(AtomRow(i, a)) = s /\ ~IsNegated(i, a)
        /\ ~SameStratum(i, a) => Level(AtomRow(i, a)) < s
    BY <2>1, AtomShape
  <2>5. AtomRow(i, a) \in round => Level(AtomRow(i, a)) = s
    BY DEF ViewsByStratum, Level
  <2>6. Level(AtomRow(i, a)) < s => Level(AtomRow(i, a)) # s
    BY <2>4, ProgramFinite DEF Level
  <2>7. ~SameStratum(i, a) => (AtomRow(i, a) \in B <=> AtomRow(i, a) \in S)
    BY <2>4, <2>5, <2>6
  <2> QED
    BY <2>2, <2>3, <2>4, <2>7, HeldReads
<1>3. ASSUME NEW i \in I, NEW p \in Atoms(i)
      PROVE  <<i, p>> \in fires <=>
                 /\ IF d = 1 THEN p \in U[i] /\ p \notin V[i] ELSE p \in V[i] /\ p \notin U[i]
                 /\ FiresAt(i, p, U[i], V[i])
  <2>1. <<i, p>> \in fires <=>
           /\ SameStratum(i, p)
           /\ AtomRow(i, p) \in round
           /\ \A a \in Atoms(i) \ {p} : FixRead(mid, i, p, a, deleting) # IsNegated(i, a)
    <3>1. <<i, p>> \in UNION {{j} \X Atoms(j) : j \in {k \in Inst : Stratum[TableOf(k.head)] = s}}
      BY DEF Level
    <3>2. <<i, p>>[1] = i /\ <<i, p>>[2] = p
      OBVIOUS
    <3> QED
      BY <3>1, <3>2 DEF RoundFires
  <2>2. SameStratum(i, p) /\ AtomRow(i, p) \in round <=> p \in hB[i] /\ p \notin hS[i]
    <3>1. SameStratum(i, p) => (AtomRow(i, p) \in round <=> p \in hB[i] /\ p \notin hS[i])
      BY <1>2
    <3>2. ~SameStratum(i, p) => ~(p \in hB[i] /\ p \notin hS[i])
      BY <1>2
    <3> QED
      BY <3>1, <3>2
  <2>3. ASSUME NEW a \in Atoms(i) \ {p}, SameStratum(i, p)
        PROVE  (FixRead(mid, i, p, a, deleting) # IsNegated(i, a))
                  <=> a \in IF Precedes(i, a, p) THEN U[i] ELSE V[i]
    <3> DEFINE y == AtomRow(i, a)
               T == IF deleting = Precedes(i, a, p) THEN S ELSE B
    <3>1. y \in Row /\ s \in Nat
      BY <1>2
    <3>2. Precedes(i, a, p) \in BOOLEAN
      BY HeldReads DEF Precedes
    <3>3. a \in (IF Precedes(i, a, p) THEN U[i] ELSE V[i]) <=> Held(i, a, T)
      <4>1. (a \in hS[i] <=> Held(i, a, S)) /\ (a \in hB[i] <=> Held(i, a, B))
        BY <1>2
      <4> HIDE DEF hS, hB
      <4> QED
        BY <3>2, <4>1
    <3>4. /\ InNew(mid[y]) \in BOOLEAN /\ SurvivesSoFar(mid[y]) \in BOOLEAN
          /\ AliveAtClaim(mid[y]) \in BOOLEAN /\ InNewWithFrontier(mid[y]) \in BOOLEAN
          /\ InNewSansFrontier(mid[y]) \in BOOLEAN
      BY DEF InNew, SurvivesSoFar, AliveAtClaim, InNewWithFrontier, InNewSansFrontier
    <3>5. CASE ~SameStratum(i, a)
      <4>1. Level(y) < s /\ (Held(i, a, B) <=> Held(i, a, S))
        BY <1>2, <3>5
      <4>2. FixRead(mid, i, p, a, deleting) = (y \in S)
        <5>1. FixRead(mid, i, p, a, deleting) = InNew(mid[y])
          BY <3>5 DEF FixRead
        <5> QED
          BY <3>1, <3>4, <4>1, <5>1 DEF RoundReads
      <4>3. (FixRead(mid, i, p, a, deleting) # IsNegated(i, a)) <=> Held(i, a, S)
        BY <4>2 DEF Held
      <4> QED
        BY <3>3, <4>1, <4>3
    <3>6. CASE SameStratum(i, a)
      <4>1. Level(y) = s
        BY <1>2, <3>6
      <4>2. FixRead(mid, i, p, a, deleting) = (y \in T)
        <5>1. FixRead(mid, i, p, a, deleting) =
                 IF Precedes(i, a, p)
                 THEN IF deleting THEN SurvivesSoFar(mid[y]) ELSE InNewWithFrontier(mid[y])
                 ELSE IF deleting THEN AliveAtClaim(mid[y]) ELSE InNewSansFrontier(mid[y])
          BY <3>6 DEF FixRead
        <5>2. IF deleting
              THEN /\ SurvivesSoFar(mid[y]) <=> y \in S
                   /\ AliveAtClaim(mid[y]) <=> y \in B
              ELSE /\ InNewWithFrontier(mid[y]) <=> y \in B
                   /\ InNewSansFrontier(mid[y]) <=> y \in S
          BY <3>1, <4>1 DEF RoundReads
        <5> HIDE DEF y
        <5> QED
          BY <3>2, <3>4, <5>1, <5>2
      <4>3. (FixRead(mid, i, p, a, deleting) # IsNegated(i, a)) <=> Held(i, a, T)
        BY <4>2 DEF Held
      <4> QED
        BY <3>3, <4>3
    <3> QED
      BY <3>5, <3>6
  <2>4. (IF d = 1 THEN p \in U[i] /\ p \notin V[i] ELSE p \in V[i] /\ p \notin U[i])
            <=> p \in hB[i] /\ p \notin hS[i]
    <3> HIDE DEF hS, hB
    <3> QED
      OBVIOUS
  <2> HIDE DEF hS, hB, U, V, fires, I, d
  <2> QED
    BY <2>1, <2>2, <2>3, <2>4 DEF FiresAt
<1>4. ASSUME NEW i \in I
      PROVE  /\ Sorted(i, U[i], V[i]) /\ ~(Atoms(i) \subseteq IF d = 1 THEN V[i] ELSE U[i])
                   <=> i \in RoundWork(s, S, B)
  <2>1. i \in Inst /\ Level(i.head) = s
    OBVIOUS
  <2>2. hS[i] \subseteq hB[i] /\ hS[i] \subseteq Atoms(i) /\ hB[i] \subseteq Atoms(i)
    <3>1. ASSUME NEW a \in Atoms(i), a \in hS[i]
          PROVE  a \in hB[i]
      BY <1>2, <3>1
    <3>2. hS[i] \subseteq Atoms(i) /\ hB[i] \subseteq Atoms(i)
      BY <2>1
    <3> QED
      BY <3>1, <3>2
  <2>3. (Atoms(i) \subseteq hS[i] <=> Holds(i, S)) /\ (Atoms(i) \subseteq hB[i] <=> Holds(i, B))
    <3>1. Atoms(i) \subseteq hS[i] <=> \A a \in Atoms(i) : Held(i, a, S)
      BY <1>2
    <3>2. Atoms(i) \subseteq hB[i] <=> \A a \in Atoms(i) : Held(i, a, B)
      BY <1>2
    <3> QED
      BY <2>1, <3>1, <3>2, HoldsByAtoms
  <2>4. Sorted(i, hS[i], hB[i]) <=> Atoms(i) \subseteq hB[i]
    <3>1. \A a \in Atoms(i) : ~Precedes(i, a, a)
      BY <2>1, SchemaOrder
    <3> HIDE DEF hS, hB
    <3> QED
      BY <2>2, <3>1 DEF Sorted
  <2>5. Sorted(i, hB[i], hS[i]) <=> Atoms(i) \subseteq hB[i]
    <3>1. \A a \in Atoms(i) : ~Precedes(i, a, a)
      BY <2>1, SchemaOrder
    <3> HIDE DEF hS, hB
    <3> QED
      BY <2>2, <3>1 DEF Sorted
  <2> HIDE DEF hS, hB
  <2>6. CASE deleting
    BY <2>1, <2>3, <2>4, <2>6 DEF RoundWork
  <2>7. CASE ~deleting
    BY <2>1, <2>3, <2>5, <2>7 DEF RoundWork
  <2> QED
    BY <2>6, <2>7
<1>5. RoundWork(s, S, B) \subseteq I
  BY DEF RoundWork
<1>6. I \in SUBSET Inst /\ d \in {-1, 1}
  OBVIOUS
<1> HIDE DEF U, V, fires, d, I
<1>7. FiresSo(fires, I, U, V, d)
  <2>1. \A i \in I : \A p \in Atoms(i) :
           <<i, p>> \in fires <=>
              /\ IF d = 1 THEN p \in U[i] /\ p \notin V[i] ELSE p \in V[i] /\ p \notin U[i]
              /\ FiresAt(i, p, U[i], V[i])
    BY <1>3
  <2> QED
    BY <1>1, <2>1 DEF FiresSo
<1>8. Fired(fires) = FiringOf(I, U, V, d) /\ Once(fires)
  BY <1>6, <1>7, Firing
<1>9. Fired(fires) = RoundWork(s, S, B)
  BY <1>4, <1>5, <1>8 DEF FiringOf
<1> QED
  BY <1>8, <1>9 DEF FiresJust, fires

-----------------------------------------------------------------------------
(* What is counted and owed at a stratum, phase by phase.                  *)
LEMMA CountAt ==
    ASSUME NEW i \in Inst, NEW old, NEW now, NEW ph, NEW st \in Nat
    PROVE  /\ Level(i.head) < st =>
                 (Counted(i, old, now, ph, st) <=> Holds(i, now)) /\ ~Owed(i, old, now, ph, st)
           /\ Level(i.head) > st =>
                 (Counted(i, old, now, ph, st) <=> Holds(i, old)) /\ ~Owed(i, old, now, ph, st)
           /\ Level(i.head) = st =>
                 /\ ph \in {"idle", "ingest", "delSeed"} =>
                       /\ Counted(i, old, now, ph, st) <=> Holds(i, old)
                       /\ ~Owed(i, old, now, ph, st)
                 /\ ph \in Thinning =>
                       /\ Counted(i, old, now, ph, st) <=> Holds(i, old) /\ Holds(i, now)
                       /\ Owed(i, old, now, ph, st) <=>
                             ~Holds(i, old) /\ ~Holds(i, now) /\ Ordered(i, old, now)
                 /\ ph \in Refilling =>
                       /\ Counted(i, old, now, ph, st) <=> Holds(i, now)
                       /\ ~Owed(i, old, now, ph, st)
<1>1. Level(i.head) \in Nat
  BY HeadsAndAtoms DEF Level
<1> QED
  BY <1>1 DEF Counted, Owed, Thinned, Refilled, Thinning, Refilling

(* An instance reads rows up to the stratum of its head.                   *)
LEMMA ReadsBelow ==
    ASSUME NEW i \in Inst
    PROVE  /\ i.head \in Row /\ Level(i.head) \in Nat /\ i.head \notin Facts
           /\ \A y \in BodyRows(i) : y \in Row /\ Level(y) \in Nat /\ Level(y) <= Level(i.head)
           /\ \A y \in i.neg : y \in Row /\ Level(y) \in Nat /\ Level(y) < Level(i.head)
<1>1. /\ i.head \in Row /\ i.head \notin Facts /\ i.neg \subseteq Row /\ BodyRows(i) \subseteq Row
      /\ i.at \in Nat /\ i.at <= Level(i.head)
      /\ \A y \in i.neg : Level(y) < i.at
      /\ \A y \in BodyRows(i) : Level(y) <= Level(i.head)
  BY HeadsAndAtoms DEF Level
<1>2. \A y \in Row : Level(y) \in Nat
  BY ProgramFinite DEF Level
<1> QED
  BY <1>1, <1>2

(* Growing a model at the stratum of the head keeps what holds.            *)
LEMMA HoldsGrows ==
    ASSUME NEW i \in Inst, NEW S, NEW B,
           \A y \in Row : Level(y) < Level(i.head) => (y \in S <=> y \in B),
           \A y \in Row : Level(y) = Level(i.head) /\ y \in S => y \in B,
           Holds(i, S)
    PROVE  Holds(i, B)
<1>1. ASSUME NEW y \in BodyRows(i)
      PROVE  y \in B
  <2>1. y \in Row /\ y \in S /\ (Level(y) < Level(i.head) \/ Level(y) = Level(i.head))
    BY ReadsBelow DEF Holds
  <2> QED
    BY <2>1
<1>2. ASSUME NEW y \in i.neg
      PROVE  y \notin B
  <2>1. y \in Row /\ y \notin S /\ Level(y) < Level(i.head)
    BY ReadsBelow DEF Holds
  <2> QED
    BY <2>1
<1> QED
  BY <1>1, <1>2 DEF Holds

(* What a step does to the rows of its stratum leaves the count of all     *)
(* other heads alone.                                                      *)
LEMMA CountElsewhere ==
    ASSUME NEW i \in Inst, NEW old, NEW now, NEW now2, NEW ph, NEW ph2, NEW st \in Nat,
           Level(i.head) # st,
           \A y \in Row : Level(y) < st => (y \in now <=> y \in now2)
    PROVE  /\ Counted(i, old, now, ph, st) <=> Counted(i, old, now2, ph2, st)
           /\ ~Owed(i, old, now, ph, st) /\ ~Owed(i, old, now2, ph2, st)
<1>1. Level(i.head) \in Nat
  BY ReadsBelow
<1>2. CASE Level(i.head) > st
  BY <1>2, CountAt
<1>3. CASE Level(i.head) < st
  <2>1. \A y \in Row : Level(y) \in Nat
    BY ProgramFinite DEF Level
  <2>2. \A y \in Row : Level(y) <= Level(i.head) => (y \in now <=> y \in now2)
    BY <1>1, <1>3, <2>1
  <2>3. Holds(i, now) <=> Holds(i, now2)
    BY <1>1, <2>1, <2>2, HoldsGrows
  <2> QED
    BY <1>3, <2>3, CountAt
<1> QED
  BY <1>1, <1>2, <1>3

(* Whatever holds came before it left: its atoms are in order.             *)
LEMMA HeldInOrder ==
    ASSUME NEW i \in Inst, NEW old, NEW now,
           \/ Holds(i, old)
           \/ /\ Holds(i, now)
              /\ \A y \in Row : Level(y) = Level(i.head) /\ y \in now => y \in old
    PROVE  Ordered(i, old, now)
<1>1. CASE Holds(i, old)
  <2>1. \A a \in Atoms(i) : Held(i, a, old)
    BY <1>1, HoldsByAtoms
  <2> QED
    BY <2>1 DEF Ordered
<1>2. CASE ~Holds(i, old)
  <2>1. \A a \in Atoms(i) : Held(i, a, now)
    BY <1>2, HoldsByAtoms
  <2>2. ASSUME NEW a \in Atoms(i)
        PROVE  SeedHeld(i, a, old, now)
    <3>1. CASE SameStratum(i, a)
      <4>1. AtomRow(i, a) \in Row /\ Level(AtomRow(i, a)) = Level(i.head) /\ ~IsNegated(i, a)
        BY <3>1, AtomShape
      <4>2. AtomRow(i, a) \in now
        BY <2>1, <4>1, HeldReads
      <4>3. AtomRow(i, a) \in old
        BY <1>2, <4>1, <4>2
      <4> QED
        BY <3>1, <4>1, <4>3, HeldReads DEF SeedHeld
    <3>2. CASE ~SameStratum(i, a)
      BY <2>1, <3>2 DEF SeedHeld
    <3> QED
      BY <3>1, <3>2
  <2> QED
    BY <2>2 DEF Ordered
<1> QED
  BY <1>1, <1>2

(* The rows that the batch has not reached are as they were, and those     *)
(* that OVERDELETE works at can only have left.                            *)
LEMMA UnreachedSame ==
    ASSUME FlagsOk, NEW x \in Row, ~Refilled(x, phase, stratum)
    PROVE  /\ x \in Now <=> SurvivesSoFar(cell[x])
           /\ x \in Now => x \in Old
           /\ ~Thinned(x, phase, stratum) => (x \in Now <=> x \in Old)
BY DEF FlagsOk, Now, Old, NowOf, OldOf, InNew, SurvivesSoFar, InI

(* A step at stratum s that moves these instances moves the whole count.   *)
Steps(s, C, D, C2, D2, X) ==
    /\ X \subseteq Inst
    /\ \A i \in Inst : Level(i.head) # s =>
           i \notin X /\ (i \in C <=> i \in C2) /\ i \notin D /\ i \notin D2

(* Where rows below the stratum stay as they are, counts and debts change  *)
(* for heads of the stratum only.                                          *)
LEMMA StepsFrom ==
    ASSUME NEW now2, NEW ph2, NEW X, stratum \in Nat,
           \A i \in X : i \in Inst /\ Level(i.head) = stratum,
           \A y \in Row : Level(y) < stratum => (y \in Now <=> y \in now2)
    PROVE  Steps(stratum, Count, Debt, CountedBy(Old, now2, ph2, stratum),
                 OwedBy(Old, now2, ph2, stratum), X)
<1>1. ASSUME NEW i \in Inst, Level(i.head) # stratum
      PROVE  /\ Counted(i, Old, Now, phase, stratum) <=> Counted(i, Old, now2, ph2, stratum)
             /\ ~Owed(i, Old, Now, phase, stratum) /\ ~Owed(i, Old, now2, ph2, stratum)
  BY <1>1, CountElsewhere
<1> QED
  BY <1>1 DEF Steps, Count, Debt, CountedBy, OwedBy

-----------------------------------------------------------------------------
(* The minus seeds take the derivations that are lost to lower rows, and   *)
(* those they wrongly take are owed.                                       *)
LEMMA DelSeedMoves ==
    ASSUME Inv, phase = "delSeed"
    PROVE  LET C2 == CountedBy(Old, Now, "delRound", stratum)
               D2 == OwedBy(Old, Now, "delRound", stratum)
           IN  /\ SeedWork(stratum, -1) = (Count \ C2) \cup (D2 \ Debt)
               /\ C2 \subseteq Count /\ Debt \subseteq D2 /\ Count \cap D2 = {}
               /\ Count \subseteq Inst /\ D2 \subseteq Inst
<1> DEFINE C2 == CountedBy(Old, Now, "delRound", stratum)
           D2 == OwedBy(Old, Now, "delRound", stratum)
           X == SeedWork(stratum, -1)
<1>1. stratum \in Nat /\ FlagsOk
  BY LastStratumIsLast DEF Inv, Typed
<1>2. Steps(stratum, Count, Debt, C2, D2, X)
  <2>1. \A i \in X : i \in Inst /\ Level(i.head) = stratum
    BY DEF SeedWork
  <2> HIDE DEF X
  <2> QED
    BY <1>1, <2>1, StepsFrom
<1>3. ASSUME NEW i \in Inst, Level(i.head) = stratum
      PROVE  /\ i \in Count <=> Holds(i, Old)
             /\ i \notin Debt
             /\ i \in C2 <=> Holds(i, Old) /\ Holds(i, Now)
             /\ i \in D2 <=> ~Holds(i, Old) /\ ~Holds(i, Now) /\ Ordered(i, Old, Now)
             /\ i \in X <=> Ordered(i, Old, Now) /\ ~Holds(i, Now)
             /\ Holds(i, Old) => Ordered(i, Old, Now)
  <2>1. ASSUME NEW a \in Atoms(i)
        PROVE  SeedHeld(i, a, Old, Now) <=> Held(i, a, Now)
    <3>1. CASE ~SameStratum(i, a)
      BY <3>1 DEF SeedHeld
    <3>2. CASE SameStratum(i, a)
      <4>1. AtomRow(i, a) \in Row /\ Level(AtomRow(i, a)) = stratum
        BY <1>3, <3>2, AtomShape
      <4>2. AtomRow(i, a) \in Now <=> AtomRow(i, a) \in Old
        BY <1>1, <4>1, UnreachedSame DEF Refilled, Thinned, Refilling, Thinning
      <4> QED
        BY <3>2, <4>2, HeldReads DEF SeedHeld
    <3> QED
      BY <3>1, <3>2
  <2>2. (\E a \in Atoms(i) : ~SeedHeld(i, a, Old, Now)) <=> ~Holds(i, Now)
    BY <2>1, HoldsByAtoms
  <2>3. i \in X <=> Ordered(i, Old, Now) /\ ~Holds(i, Now)
    BY <1>3, <2>2 DEF SeedWork
  <2>4. Holds(i, Old) => Ordered(i, Old, Now)
    BY HeldInOrder
  <2>5. /\ Counted(i, Old, Now, phase, stratum) <=> Holds(i, Old)
        /\ ~Owed(i, Old, Now, phase, stratum)
        /\ Counted(i, Old, Now, "delRound", stratum) <=> Holds(i, Old) /\ Holds(i, Now)
        /\ Owed(i, Old, Now, "delRound", stratum) <=>
               ~Holds(i, Old) /\ ~Holds(i, Now) /\ Ordered(i, Old, Now)
    BY <1>1, <1>3, CountAt DEF Thinning
  <2> QED
    BY <2>3, <2>4, <2>5 DEF Count, Debt, CountedBy, OwedBy
<1>4. Count \subseteq Inst /\ Debt \subseteq Inst /\ C2 \subseteq Inst /\ D2 \subseteq Inst
  BY DEF Count, Debt, CountedBy, OwedBy
<1> HIDE DEF C2, D2, X
<1>5. ASSUME NEW i \in Inst
      PROVE  /\ i \in X <=> (i \in Count /\ i \notin C2) \/ (i \in D2 /\ i \notin Debt)
             /\ (i \in C2 => i \in Count) /\ (i \in Debt => i \in D2) /\ ~(i \in Count /\ i \in D2)
  <2>1. CASE Level(i.head) = stratum
    BY <1>3, <2>1
  <2>2. CASE Level(i.head) # stratum
    BY <1>2, <2>2 DEF Steps
  <2> QED
    BY <2>1, <2>2
<1>6. X \subseteq Inst
  BY <1>2 DEF Steps
<1>7. /\ X = (Count \ C2) \cup (D2 \ Debt)
      /\ C2 \subseteq Count /\ Debt \subseteq D2 /\ Count \cap D2 = {}
  BY <1>4, <1>5, <1>6
<1> QED
  BY <1>4, <1>7 DEF C2, D2, X

(* A deletion round takes the derivations that are lost to its claims.     *)
LEMMA DelRoundMoves ==
    ASSUME Inv, phase = "delRound", NEW round \in SUBSET ViewsByStratum(stratum)
    PROVE  LET C2 == CountedBy(Old, Now \ round, "delRound", stratum)
               D2 == OwedBy(Old, Now \ round, "delRound", stratum)
           IN  /\ RoundWork(stratum, Now \ round, Now) = (Count \ C2) \cup (D2 \ Debt)
               /\ C2 \subseteq Count /\ Debt \subseteq D2 /\ Count \cap D2 = {}
               /\ Count \subseteq Inst /\ D2 \subseteq Inst
<1> DEFINE S == Now \ round
           C2 == CountedBy(Old, S, "delRound", stratum)
           D2 == OwedBy(Old, S, "delRound", stratum)
           X == RoundWork(stratum, S, Now)
<1>1. stratum \in Nat /\ FlagsOk
  BY LastStratumIsLast DEF Inv, Typed
<1>2. \A y \in Row : /\ Level(y) < stratum => (y \in Now <=> y \in S)
                     /\ Level(y) = stratum /\ y \in Now => y \in Old
                     /\ y \in S => y \in Now
  <2>1. \A y \in Row : Level(y) \in Nat
    BY ProgramFinite DEF Level
  <2>2. \A y \in round : Level(y) = stratum
    BY DEF ViewsByStratum, Level
  <2>3. \A y \in Row : Level(y) = stratum /\ y \in Now => y \in Old
    BY <1>1, UnreachedSame DEF Refilled, Refilling
  <2> QED
    BY <1>1, <2>1, <2>2, <2>3
<1> HIDE DEF S
<1>3. Steps(stratum, Count, Debt, C2, D2, X)
  <2>1. \A i \in X : i \in Inst /\ Level(i.head) = stratum
    BY DEF RoundWork
  <2> HIDE DEF X
  <2> QED
    BY <1>1, <1>2, <2>1, StepsFrom
<1>4. ASSUME NEW i \in Inst, Level(i.head) = stratum
      PROVE  /\ i \in Count <=> Holds(i, Old) /\ Holds(i, Now)
             /\ i \in Debt <=> ~Holds(i, Old) /\ ~Holds(i, Now) /\ Ordered(i, Old, Now)
             /\ i \in C2 <=> Holds(i, Old) /\ Holds(i, S)
             /\ i \in D2 <=> ~Holds(i, Old) /\ ~Holds(i, S) /\ Ordered(i, Old, S)
             /\ i \in X <=> Holds(i, Now) /\ ~Holds(i, S)
             /\ Ordered(i, Old, S) <=> Ordered(i, Old, Now)
             /\ Holds(i, Now) => Ordered(i, Old, Now)
             /\ Holds(i, S) => Holds(i, Now)
  <2>1. Holds(i, S) => Holds(i, Now)
    BY <1>2, <1>4, HoldsGrows
  <2>2. Holds(i, Now) => Ordered(i, Old, Now)
    BY <1>2, <1>4, HeldInOrder
  <2>3. ASSUME NEW a \in Atoms(i)
        PROVE  SeedHeld(i, a, Old, S) <=> SeedHeld(i, a, Old, Now)
    <3>1. CASE SameStratum(i, a)
      BY <3>1 DEF SeedHeld
    <3>2. CASE ~SameStratum(i, a)
      <4>1. AtomRow(i, a) \in Row /\ Level(AtomRow(i, a)) < stratum
        BY <1>4, <3>2, AtomShape
      <4>2. AtomRow(i, a) \in S <=> AtomRow(i, a) \in Now
        BY <1>2, <4>1
      <4> QED
        BY <3>2, <4>2, HeldReads DEF SeedHeld
    <3> QED
      BY <3>1, <3>2
  <2>4. Ordered(i, Old, S) <=> Ordered(i, Old, Now)
    BY <2>3 DEF Ordered
  <2>5. i \in X <=> Holds(i, Now) /\ ~Holds(i, S)
    BY <1>4 DEF RoundWork
  <2>6. /\ Counted(i, Old, Now, phase, stratum) <=> Holds(i, Old) /\ Holds(i, Now)
        /\ Owed(i, Old, Now, phase, stratum) <=>
               ~Holds(i, Old) /\ ~Holds(i, Now) /\ Ordered(i, Old, Now)
        /\ Counted(i, Old, S, "delRound", stratum) <=> Holds(i, Old) /\ Holds(i, S)
        /\ Owed(i, Old, S, "delRound", stratum) <=>
               ~Holds(i, Old) /\ ~Holds(i, S) /\ Ordered(i, Old, S)
    BY <1>1, <1>4, CountAt DEF Thinning
  <2> QED
    BY <2>1, <2>2, <2>4, <2>5, <2>6 DEF Count, Debt, CountedBy, OwedBy
<1>5. Count \subseteq Inst /\ Debt \subseteq Inst /\ C2 \subseteq Inst /\ D2 \subseteq Inst
  BY DEF Count, Debt, CountedBy, OwedBy
<1> HIDE DEF C2, D2, X
<1>6. ASSUME NEW i \in Inst
      PROVE  /\ i \in X <=> (i \in Count /\ i \notin C2) \/ (i \in D2 /\ i \notin Debt)
             /\ (i \in C2 => i \in Count) /\ (i \in Debt => i \in D2) /\ ~(i \in Count /\ i \in D2)
  <2>1. CASE Level(i.head) = stratum
    BY <1>4, <2>1
  <2>2. CASE Level(i.head) # stratum
    BY <1>3, <2>2 DEF Steps
  <2> QED
    BY <2>1, <2>2
<1>7. X \subseteq Inst
  BY <1>3 DEF Steps
<1>8. /\ X = (Count \ C2) \cup (D2 \ Debt)
      /\ C2 \subseteq Count /\ Debt \subseteq D2 /\ Count \cap D2 = {}
  BY <1>5, <1>6, <1>7
<1> QED
  BY <1>5, <1>8 DEF C2, D2, X, S

-----------------------------------------------------------------------------
(* The plus seeds give the derivations that are gained from lower rows,    *)
(* and repay all that is owed.                                             *)
LEMMA AddSeedMoves ==
    ASSUME Inv, phase = "addSeed"
    PROVE  LET C2 == CountedBy(Old, Now, "addRound", stratum)
               D2 == OwedBy(Old, Now, "addRound", stratum)
           IN  /\ SeedWork(stratum, 1) = (C2 \ Count) \cup (Debt \ D2)
               /\ Count \subseteq C2 /\ D2 = {} /\ C2 \cap Debt = {}
               /\ C2 \subseteq Inst /\ Debt \subseteq Inst
<1> DEFINE C2 == CountedBy(Old, Now, "addRound", stratum)
           D2 == OwedBy(Old, Now, "addRound", stratum)
           X == SeedWork(stratum, 1)
<1>1. stratum \in Nat /\ FlagsOk
  BY LastStratumIsLast DEF Inv, Typed
<1>2. Steps(stratum, Count, Debt, C2, D2, X)
  <2>1. \A i \in X : i \in Inst /\ Level(i.head) = stratum
    BY DEF SeedWork
  <2> HIDE DEF X
  <2> QED
    BY <1>1, <2>1, StepsFrom
<1>3. \A y \in Row : Level(y) = stratum /\ y \in Now => y \in Old
  BY <1>1, UnreachedSame DEF Refilled, Refilling
<1>4. ASSUME NEW i \in Inst, Level(i.head) = stratum
      PROVE  /\ i \in Count <=> Holds(i, Old) /\ Holds(i, Now)
             /\ i \in Debt <=> ~Holds(i, Old) /\ ~Holds(i, Now) /\ Ordered(i, Old, Now)
             /\ i \in C2 <=> Holds(i, Now)
             /\ i \notin D2
             /\ i \in X <=> Ordered(i, Old, Now) /\ ~Holds(i, Old)
             /\ Holds(i, Now) => Ordered(i, Old, Now)
  <2>1. i \in X <=> Ordered(i, Old, Now) /\ ~Holds(i, Old)
    BY <1>4 DEF SeedWork
  <2>2. Holds(i, Now) => Ordered(i, Old, Now)
    BY <1>3, <1>4, HeldInOrder
  <2>3. /\ Counted(i, Old, Now, phase, stratum) <=> Holds(i, Old) /\ Holds(i, Now)
        /\ Owed(i, Old, Now, phase, stratum) <=>
               ~Holds(i, Old) /\ ~Holds(i, Now) /\ Ordered(i, Old, Now)
        /\ Counted(i, Old, Now, "addRound", stratum) <=> Holds(i, Now)
        /\ ~Owed(i, Old, Now, "addRound", stratum)
    BY <1>1, <1>4, CountAt DEF Thinning, Refilling
  <2> QED
    BY <2>1, <2>2, <2>3 DEF Count, Debt, CountedBy, OwedBy
<1>5. Count \subseteq Inst /\ Debt \subseteq Inst /\ C2 \subseteq Inst /\ D2 \subseteq Inst
  BY DEF Count, Debt, CountedBy, OwedBy
<1> HIDE DEF C2, D2, X
<1>6. ASSUME NEW i \in Inst
      PROVE  /\ i \in X <=> (i \in C2 /\ i \notin Count) \/ (i \in Debt /\ i \notin D2)
             /\ (i \in Count => i \in C2) /\ i \notin D2 /\ ~(i \in C2 /\ i \in Debt)
  <2>1. CASE Level(i.head) = stratum
    BY <1>4, <2>1
  <2>2. CASE Level(i.head) # stratum
    BY <1>2, <2>2 DEF Steps
  <2> QED
    BY <2>1, <2>2
<1>7. X \subseteq Inst
  BY <1>2 DEF Steps
<1>8. /\ X = (C2 \ Count) \cup (Debt \ D2)
      /\ Count \subseteq C2 /\ D2 = {} /\ C2 \cap Debt = {}
  BY <1>5, <1>6, <1>7
<1> QED
  BY <1>5, <1>8 DEF C2, D2, X

(* No derivation is owed outside OVERDELETE.                               *)
LEMMA NoDebt ==
    ASSUME phase \notin Thinning
    PROVE  Debt = {}
BY DEF Debt, OwedBy, Owed, Thinned

(* An insertion round gives the derivations that its claims make.          *)
LEMMA AddRoundMoves ==
    ASSUME Inv, phase = "addRound", NEW round \in SUBSET ViewsByStratum(stratum)
    PROVE  LET C2 == CountedBy(Old, Now \cup round, "addRound", stratum)
           IN  /\ RoundWork(stratum, Now, Now \cup round) = (C2 \ Count) \cup (Debt \ {})
               /\ Count \subseteq C2 /\ Debt = {} /\ C2 \subseteq Inst
<1> DEFINE B == Now \cup round
           C2 == CountedBy(Old, B, "addRound", stratum)
           D2 == OwedBy(Old, B, "addRound", stratum)
           X == RoundWork(stratum, Now, B)
<1>1. stratum \in Nat /\ FlagsOk
  BY LastStratumIsLast DEF Inv, Typed
<1>2. \A y \in Row : /\ Level(y) < stratum => (y \in Now <=> y \in B)
                     /\ y \in Now => y \in B
  <2>1. \A y \in Row : Level(y) \in Nat
    BY ProgramFinite DEF Level
  <2>2. \A y \in round : Level(y) = stratum
    BY DEF ViewsByStratum, Level
  <2> QED
    BY <1>1, <2>1, <2>2
<1> HIDE DEF B
<1>3. Steps(stratum, Count, Debt, C2, D2, X)
  <2>1. \A i \in X : i \in Inst /\ Level(i.head) = stratum
    BY DEF RoundWork
  <2> HIDE DEF X
  <2> QED
    BY <1>1, <1>2, <2>1, StepsFrom
<1>4. ASSUME NEW i \in Inst, Level(i.head) = stratum
      PROVE  /\ i \in Count <=> Holds(i, Now)
             /\ i \in C2 <=> Holds(i, B)
             /\ i \in X <=> Holds(i, B) /\ ~Holds(i, Now)
             /\ Holds(i, Now) => Holds(i, B)
  <2>1. Holds(i, Now) => Holds(i, B)
    BY <1>2, <1>4, HoldsGrows
  <2>2. i \in X <=> Holds(i, B) /\ ~Holds(i, Now)
    BY <1>4 DEF RoundWork
  <2>3. /\ Counted(i, Old, Now, phase, stratum) <=> Holds(i, Now)
        /\ Counted(i, Old, B, "addRound", stratum) <=> Holds(i, B)
    BY <1>1, <1>4, CountAt DEF Refilling
  <2> QED
    BY <2>1, <2>2, <2>3 DEF Count, CountedBy
<1>5. Count \subseteq Inst /\ C2 \subseteq Inst /\ Debt = {}
  BY NoDebt DEF Count, CountedBy, Thinning
<1> HIDE DEF C2, D2, X
<1>6. ASSUME NEW i \in Inst
      PROVE  /\ i \in X <=> i \in C2 /\ i \notin Count
             /\ i \in Count => i \in C2
  <2>1. CASE Level(i.head) = stratum
    BY <1>4, <2>1
  <2>2. CASE Level(i.head) # stratum
    BY <1>3, <2>2 DEF Steps
  <2> QED
    BY <2>1, <2>2
<1>7. X \subseteq Inst
  BY <1>3 DEF Steps
<1>8. X = (C2 \ Count) \cup (Debt \ {}) /\ Count \subseteq C2
  BY <1>5, <1>6, <1>7
<1> QED
  BY <1>5, <1>8 DEF C2, X, B

-----------------------------------------------------------------------------
(* A recursive derivation that is owed has two atoms: one that came, one   *)
(* of another position that left.                                          *)
LEMMA DebtHasTwo ==
    ASSUME NEW i \in Debt, RuleClass(i) = "kRecursive"
    PROVE  i \in Inst /\ Cardinality(Atoms(i)) > 1
<1>1. i \in Inst /\ ~Holds(i, Old) /\ ~Holds(i, Now) /\ Ordered(i, Old, Now)
  BY DEF Debt, OwedBy, Owed
<1>2. PICK y \in BodyRows(i) \cup i.neg : SameScc(i.head, y)
  BY DEF RuleClass, ReadsOwnScc
<1>3. PICK a \in Atoms(i) : AtomRow(i, a) = y
  BY <1>1, <1>2, AtomShape
<1>4. SameStratum(i, a)
  BY <1>1, <1>2, <1>3, AtomShape
<1>5. PICK b \in Atoms(i) : ~Held(i, b, Old)
  BY <1>1, HoldsByAtoms
<1>6. a # b
  <2>1. SUFFICES ASSUME a = b PROVE FALSE
    OBVIOUS
  <2>2. ~SeedHeld(i, a, Old, Now)
    BY <1>4, <1>5, <2>1 DEF SeedHeld
  <2>3. Precedes(i, a, a)
    BY <1>1, <1>5, <2>1, <2>2 DEF Ordered
  <2> QED
    BY <1>1, <2>3, SchemaOrder
<1>7. IsFiniteSet(Atoms(i)) /\ Cardinality(Atoms(i)) \in Nat
  BY <1>1, AtomShape, FS_CardinalityType
<1>8. Cardinality(Atoms(i)) # 0
  BY <1>3, <1>7, FS_EmptySet
<1>9. Cardinality(Atoms(i)) # 1
  <2>1. SUFFICES ASSUME Cardinality(Atoms(i)) = 1 PROVE FALSE
    OBVIOUS
  <2>2. PICK c : Atoms(i) = {c}
    BY <1>7, <2>1, FS_Singleton
  <2> QED
    BY <1>3, <1>5, <1>6, <2>2
<1> QED
  BY <1>1, <1>7, <1>8, <1>9

(* So no row is owed a recursive derivation while a nonrecursive one       *)
(* counts, and a row that is there and not queued has a derivation.        *)
LEMMA SurvivorSupported ==
    ASSUME NEW cells, NEW dq, NEW aq, NEW waiting, NEW C, NEW D, NEW f \in SUBSET Facts,
           Balance(cells, dq, aq, waiting, C, D, f),
           D = {} \/ D = Debt,
           NEW g \in SUBSET Facts, \A x \in Row : "kExplicit" \in cells[x].f => x \in g,
           OldOf(cells) = LeastModel(f),
           NEW x \in Row, SurvivesSoFar(cells[x]), x \notin dq
    PROVE  Total(cells[x]) > 0
<1>1. /\ cells \in [Row -> Cell] /\ C \subseteq Inst /\ D \subseteq Inst /\ Balances(cells, C, D)
      /\ LossParked(cells, dq, C, D, f)
  BY DEF Balance
<1>2. cells[x].nr \in Int /\ cells[x].r \in Int
  BY <1>1, BalanceFacts
<1>3. CASE cells[x].nr > 0
  <2>1. ASSUME NEW i \in D, i.head = x, RuleClass(i) = "kRecursive"
        PROVE  FALSE
    <3>1. i \in Inst /\ Cardinality(Atoms(i)) > 1
      BY <1>1, <2>1, DebtHasTwo
    <3>2. \A j \in Inst : j.head = x => RuleClass(j) = "kRecursive"
      BY <2>1, <3>1, JoinsAlone
    <3>3. "kExplicit" \in cells[x].f
      BY <1>1, <1>3, <3>2, BalanceFacts
    <3>4. x \in Facts
      BY <3>3
    <3> QED
      BY <2>1, <3>1, <3>4, ReadsBelow
  <2>2. cells[x].r >= 0
    BY <1>1, <2>1, BalanceFacts
  <2> QED
    BY <1>2, <1>3, <2>2 DEF Total
<1>4. CASE cells[x].nr <= 0
  <2>1. x \in LeastModel(f)
    BY DEF OldOf, SurvivesSoFar, InI
  <2>2. /\ \A i \in Inst : i.head = x => i \notin D /\ (Holds(i, LeastModel(f)) => i \in C)
        /\ x \in f => "kExplicit" \in cells[x].f
    BY <1>1, <1>4 DEF LossParked
  <2>3. \A i \in D : i.head # x
    BY <1>1, <2>2
  <2>4. CASE x \in f
    BY <1>1, <2>2, <2>3, <2>4, BalanceFacts
  <2>5. CASE x \notin f
    <3>1. PICK i \in Inst : i.head = x /\ Holds(i, LeastModel(f))
      BY <2>1, <2>5, OldSupported
    <3> QED
      BY <1>1, <2>2, <2>3, <3>1, BalanceFacts
  <2> QED
    BY <2>4, <2>5
<1> QED
  BY <1>2, <1>3, <1>4

-----------------------------------------------------------------------------
(* The new model: closed, supported, least.                                *)
LEMMA TargetFacts ==
    ASSUME Typed
    PROVE  /\ NewFacts \subseteq Facts /\ Target = LeastModel(NewFacts)
           /\ NewFacts \subseteq Target /\ Target \subseteq Row
           /\ \A i \in Inst : Holds(i, Target) => i.head \in Target
           /\ \A x \in Target : x \in NewFacts \/ \E i \in Inst : i.head = x /\ Holds(i, Target)
<1>1. NewFacts \subseteq Facts /\ Target = LeastModel(NewFacts)
  BY DEF Typed, NewFacts, NettedRemoves, NettedAdds, Target
<1> QED
  BY <1>1, LeastModelFacts, OldSupported

(* A model is the least one at each stratum.                               *)
LEMMA LeastAt ==
    ASSUME NEW f \in SUBSET Facts, NEW M, M = LeastModel(f),
           NEW s \in Nat, NEW X \in SUBSET M, f \subseteq X,
           \A x \in M : Level(x) # s => x \in X,
           \A i \in Inst : /\ Level(i.head) = s
                           /\ BodyRows(i) \subseteq X
                           /\ i.neg \cap M = {}
                           => i.head \in X
    PROVE  X = M
<1>1. \A Y \in SUBSET M :
         /\ f \subseteq Y
         /\ \A x \in M : Stratum[TableOf(x)] # s => x \in Y
         /\ \A i \in Inst : /\ Stratum[TableOf(i.head)] = s
                            /\ BodyRows(i) \subseteq Y
                            /\ i.neg \cap M = {}
                            => i.head \in Y
         => Y = M
  BY LeastModelFacts
<1> QED
  BY <1>1 DEF Level

(* What no phase of the sort tells apart.                                  *)
LEMMA ThinningSame ==
    ASSUME NEW ph \in Thinning, NEW ph2 \in Thinning, NEW st
    PROVE  /\ \A x : /\ Refilled(x, ph, st) <=> Refilled(x, ph2, st)
                     /\ Thinned(x, ph, st) <=> Thinned(x, ph2, st)
                     /\ Built(x, ph, st) <=> Built(x, ph2, st)
                     /\ Final(x, ph, st) <=> Final(x, ph2, st)
           /\ \A old, now : /\ CountedBy(old, now, ph, st) = CountedBy(old, now, ph2, st)
                            /\ OwedBy(old, now, ph, st) = OwedBy(old, now, ph2, st)
<1>1. ph \notin Refilling /\ ph2 \notin Refilling /\ ph # "commit" /\ ph2 # "commit"
      /\ ph \notin {"frontiers", "commit"} /\ ph2 \notin {"frontiers", "commit"}
  BY DEF Thinning, Refilling
<1>2. \A x : /\ Refilled(x, ph, st) <=> Refilled(x, ph2, st)
             /\ Thinned(x, ph, st) <=> Thinned(x, ph2, st)
             /\ Built(x, ph, st) <=> Built(x, ph2, st)
             /\ Final(x, ph, st) <=> Final(x, ph2, st)
  BY <1>1 DEF Refilled, Thinned, Built, Final
<1>3. \A i, old, now : /\ Counted(i, old, now, ph, st) <=> Counted(i, old, now, ph2, st)
                       /\ Owed(i, old, now, ph, st) <=> Owed(i, old, now, ph2, st)
  BY <1>2 DEF Counted, Owed
<1> QED
  BY <1>2, <1>3 DEF CountedBy, OwedBy

(* The phases from InsertPhase on count the same instances.                *)
LEMMA RefillingSame ==
    ASSUME NEW ph \in Refilling, NEW ph2 \in Refilling, NEW st
    PROVE  /\ \A x : /\ Refilled(x, ph, st) <=> Refilled(x, ph2, st)
                     /\ ~Thinned(x, ph, st) /\ ~Thinned(x, ph2, st)
           /\ \A old, now : CountedBy(old, now, ph, st) = CountedBy(old, now, ph2, st)
<1>1. ph \notin Thinning /\ ph2 \notin Thinning
  BY DEF Thinning, Refilling
<1>2. \A x : /\ Refilled(x, ph, st) <=> Refilled(x, ph2, st)
             /\ ~Thinned(x, ph, st) /\ ~Thinned(x, ph2, st)
  BY <1>1 DEF Refilled, Thinned
<1>3. \A i, old, now : Counted(i, old, now, ph, st) <=> Counted(i, old, now, ph2, st)
  BY <1>2 DEF Counted
<1> QED
  BY <1>2, <1>3 DEF CountedBy

-----------------------------------------------------------------------------
(* Rederive keeps the invariant.                                           *)
LEMMA RederivePreserves ==
    ASSUME Inv, Rederive
    PROVE  Inv'
<1> DEFINE back == {x \in claimed_del \cap ViewsByStratum(stratum) :
                        RecursivelySupported(cell[x])}
<1>1. /\ phase = "rederive" /\ phase' = "addSeed" /\ pend_add' = pend_add \cup back
      /\ UNCHANGED <<cell, pend_del, claimed_del, claimed_add, out_del, out_add,
                     ops, facts, stratum, failed>>
      /\ phase \in Thinning /\ phase' \in Thinning
  BY DEF Rederive, Thinning
<1>2. Old' = Old /\ Now' = Now /\ NewFacts' = NewFacts /\ Target' = Target
  BY <1>1 DEF Old, Now, NewFacts, Target
<1>3. \A x : /\ Refilled(x, phase', stratum) <=> Refilled(x, phase, stratum)
             /\ Thinned(x, phase', stratum) <=> Thinned(x, phase, stratum)
             /\ Built(x, phase', stratum) <=> Built(x, phase, stratum)
             /\ Final(x, phase', stratum) <=> Final(x, phase, stratum)
  BY <1>1, ThinningSame
<1>4. Count' = Count /\ Debt' = Debt
  <2>1. /\ CountedBy(Old, Now, phase', stratum) = CountedBy(Old, Now, phase, stratum)
        /\ OwedBy(Old, Now, phase', stratum) = OwedBy(Old, Now, phase, stratum)
    BY <1>1, ThinningSame
  <2> QED
    BY <1>1, <1>2, <2>1 DEF Count, Debt
<1>5. Typed'
  BY <1>1 DEF Inv, Typed, Phases, Thinning
<1>6. WorkOk'
  BY <1>1 DEF Inv, WorkOk
<1>7. FlagsOk'
  BY <1>1, <1>2, <1>3 DEF Inv, FlagsOk
<1>8. VectorsOk'
  BY <1>1, <1>2, <1>3 DEF Inv, VectorsOk
<1>9. \A x \in back : /\ x \in Row /\ Level(x) = stratum /\ cell[x].r > 0
                      /\ "kDel" \in cell[x].f /\ cell[x].nr <= 0
  <2>1. \A x \in back : x \in claimed_del /\ Level(x) = stratum /\ cell[x].r > 0
    BY DEF ViewsByStratum, RecursivelySupported, Level
  <2> HIDE DEF back
  <2> QED
    BY <1>1, <2>1 DEF Inv, VectorsOk, QueuesOk
<1>10. QueuesOk'
  <2>1. ASSUME NEW x \in pend_del
        PROVE  cell[x].nr <= 0 /\ Level(x) > stratum
    BY <1>1 DEF Inv, QueuesOk
  <2>2. ASSUME NEW x \in pend_add
        PROVE  /\ ~SurvivesSoFar(cell[x])
               /\ "kExplicit" \in cell[x].f /\ Level(x) >= stratum
    BY <1>1 DEF Inv, QueuesOk
  <2>3. ASSUME NEW x \in back
        PROVE  /\ ~SurvivesSoFar(cell[x])
               /\ Level(x) = stratum /\ RecursivelySupported(cell[x])
    BY <1>9 DEF SurvivesSoFar, RecursivelySupported
  <2> HIDE DEF back
  <2> QED
    BY <1>1, <2>1, <2>2, <2>3 DEF QueuesOk
<1>11. LedgerOk'
  <2> DEFINE W == Waiting(cell, phase, stratum)
  <2>1. Balance(cell, pend_del, pend_add, W, Count, Debt, facts)
    BY DEF Inv, LedgerOk
  <2>2. Waiting(cell, phase', stratum) = {}
    BY <1>1 DEF Waiting
  <2>3. pend_add \cup back \subseteq Row
    BY <1>9, <2>1 DEF Balance
  <2>4. GainQueued(cell, pend_add \cup back, {})
    <3>1. ASSUME NEW x \in Row, Total(cell[x]) > 0
          PROVE  InNew(cell[x]) \/ x \in pend_add \/ x \in back
      <4>1. InNew(cell[x]) \/ x \in pend_add \/ x \in W
        BY <2>1, <3>1 DEF Balance, GainQueued
      <4>2. ASSUME x \in W
            PROVE  x \in back
        <5>1. Level(x) = stratum /\ x \in claimed_del
          BY <4>2 DEF Waiting, Inv, VectorsOk
        <5>2. cell[x].nr <= 0
          BY <1>1, <5>1 DEF Inv, QueuesOk
        <5>3. cell[x].nr \in Int /\ cell[x].r \in Int
          BY <2>1 DEF Balance, Cell
        <5>4. cell[x].r > 0
          BY <3>1, <5>2, <5>3 DEF Total
        <5> QED
          BY <5>1, <5>4 DEF ViewsByStratum, RecursivelySupported, Level
      <4> QED
        BY <4>1, <4>2
    <3> QED
      BY <3>1 DEF GainQueued
  <2> HIDE DEF W, back
  <2>5. cell \in [Row -> Cell]
    BY <2>1 DEF Balance
  <2>6. Balance(cell, pend_del, pend_add \cup back, {}, Count, Debt, facts)
    BY <2>1, <2>3, <2>4, <2>5, BalanceReflag
  <2> QED
    BY <1>1, <1>4, <2>2, <2>6 DEF LedgerOk
<1>12. ModelsOk'
  BY <1>1, <1>2, <1>3 DEF Inv, ModelsOk
<1> QED
  BY <1>5, <1>6, <1>7, <1>8, <1>10, <1>11, <1>12 DEF Inv

(* Submitting a batch keeps the invariant.                                 *)
LEMMA SubmitPreserves ==
    ASSUME Inv, NEW adds \in SUBSET Facts, NEW removes \in SUBSET Facts, Submit(adds, removes)
    PROVE  Inv'
<1>1. /\ phase = "idle" /\ phase' = "ingest"
      /\ ops' = [adds |-> adds, removes |-> removes, busy |-> TRUE]
      /\ UNCHANGED <<cell, pend_del, pend_add, claimed_del, claimed_add, out_del, out_add,
                     facts, stratum, failed>>
      /\ stratum = 0 /\ pend_del = {} /\ pend_add = {}
  BY DEF Submit, queues, Inv, WorkOk
<1>2. Old' = Old /\ Now' = Now
  BY <1>1 DEF Old, Now
<1>3. \A x \in Row : /\ ~Refilled(x, phase, stratum) /\ ~Refilled(x, phase', stratum)
                     /\ ~Thinned(x, phase, stratum) /\ ~Thinned(x, phase', stratum)
                     /\ ~Built(x, phase, stratum) /\ ~Built(x, phase', stratum)
                     /\ ~Final(x, phase', stratum)
  <2>1. \A x \in Row : ~(Level(x) < stratum)
    BY <1>1, ProgramFinite DEF Level
  <2> QED
    BY <1>1, <2>1 DEF Refilled, Thinned, Built, Final, Refilling, Thinning
<1>4. Count' = Count /\ Debt' = Debt
  <2>1. ASSUME NEW i \in Inst
        PROVE  /\ Counted(i, Old, Now, phase', stratum) <=> Counted(i, Old, Now, phase, stratum)
               /\ Owed(i, Old, Now, phase', stratum) <=> Owed(i, Old, Now, phase, stratum)
    <3>1. i.head \in Row
      BY ReadsBelow
    <3> QED
      BY <1>3, <3>1 DEF Counted, Owed
  <2> QED
    BY <1>1, <1>2, <2>1 DEF Count, Debt, CountedBy, OwedBy
<1>5. Typed'
  BY <1>1 DEF Inv, Typed, Phases
<1>6. WorkOk'
  BY <1>1 DEF WorkOk
<1>7. FlagsOk'
  BY <1>1, <1>3 DEF Inv, FlagsOk
<1>8. VectorsOk'
  <2>1. out_del = {} /\ out_add = {}
    BY <1>3 DEF Inv, VectorsOk, Old, OldOf, Now, NowOf
  <2>2. /\ {x \in Old \ Now : Built(x, phase', stratum)} = {}
        /\ {x \in Now \ Old : Built(x, phase', stratum)} = {}
    BY <1>3 DEF Old, OldOf, Now, NowOf
  <2> QED
    BY <1>1, <1>2, <2>1, <2>2 DEF Inv, VectorsOk
<1>9. QueuesOk'
  BY <1>1 DEF QueuesOk
<1>10. LedgerOk'
  <2>1. Waiting(cell, phase, stratum) = {} /\ Waiting(cell, phase', stratum) = {}
    BY <1>1 DEF Waiting
  <2> QED
    BY <1>1, <1>4, <2>1 DEF Inv, LedgerOk
<1>11. ModelsOk'
  <2>1. Old' = LeastModel(facts')
    BY <1>1, <1>2 DEF Inv, ModelsOk
  <2>2. phase' \notin {"rederive", "addSeed", "addRound"}
    BY <1>1
  <2> QED
    BY <1>1, <1>3, <2>1, <2>2 DEF ModelsOk
<1> QED
  BY <1>5, <1>6, <1>7, <1>8, <1>9, <1>10, <1>11 DEF Inv

-----------------------------------------------------------------------------
(* What a loop of folds leaves of the flags.                               *)
LEMMA TouchedFlags ==
    ASSUME NEW a, NEW b, Touched(a, b)
    PROVE  /\ OldOf(b) = OldOf(a) /\ NowOf(b) = NowOf(a)
           /\ \A x \in Row :
                 /\ SurvivesSoFar(b[x]) = SurvivesSoFar(a[x])
                 /\ FlagsOf(a[x]) => FlagsOf(b[x])
                 /\ \A g \in {"kInI", "kDel", "kAdd", "kDelNow", "kAddNow", "kExplicit"} :
                        g \in b[x].f <=> g \in a[x].f
<1>1. OldOf(b) = OldOf(a) /\ NowOf(b) = NowOf(a)
  BY TouchedCells DEF Touched
<1>2. ASSUME NEW x \in Row
      PROVE  /\ SurvivesSoFar(b[x]) = SurvivesSoFar(a[x])
             /\ FlagsOf(a[x]) => FlagsOf(b[x])
             /\ \A g \in {"kInI", "kDel", "kAdd", "kDelNow", "kAddNow", "kExplicit"} :
                    g \in b[x].f <=> g \in a[x].f
  <2>1. b[x].f = a[x].f \cup {"kTouched"} \/ b[x].f = a[x].f
    BY DEF Touched
  <2>2. SurvivesSoFar(b[x]) = SurvivesSoFar(a[x])
    BY <2>1, TouchReads
  <2>3. FlagsOf(a[x]) => FlagsOf(b[x])
    BY <2>1 DEF FlagsOf, ScratchFlags
  <2> QED
    BY <2>1, <2>2, <2>3
<1> QED
  BY <1>1, <1>2

(* Below the stratum the frontiers are all the differences.                *)
LEMMA SeedsFire ==
    ASSUME Inv, phase \in {"delSeed", "addSeed"}
    PROVE  /\ FiresJust(SeedFires(stratum, out_add, out_del), SeedWork(stratum, -1))
           /\ FiresJust(SeedFires(stratum, out_del, out_add), SeedWork(stratum, 1))
<1>1. stratum \in Nat
  BY LastStratumIsLast DEF Inv, Typed
<1>2. \A y \in Row : Level(y) < stratum => /\ y \in out_del <=> y \in Old \ Now
                                           /\ y \in out_add <=> y \in Now \ Old
  BY DEF Inv, VectorsOk, Built
<1>3. ASSUME NEW d \in {-1, 1}
      PROVE  /\ d = 1 => Frontier(d) = Now \ Old /\ Frontier(-d) = Old \ Now
             /\ d = -1 => Frontier(d) = Old \ Now /\ Frontier(-d) = Now \ Old
  BY DEF Frontier
<1>4. /\ Fired(SeedFires(stratum, out_add, out_del)) = SeedWork(stratum, -1)
      /\ Once(SeedFires(stratum, out_add, out_del))
  <2>1. PICK d \in {-1, 1} : d = -1
    OBVIOUS
  <2>2. \A y \in Row : Level(y) < stratum => /\ y \in out_del <=> y \in Frontier(d)
                                             /\ y \in out_add <=> y \in Frontier(-d)
    BY <1>2, <1>3, <2>1
  <2>3. /\ Fired(SeedFires(stratum, out_add, out_del)) = SeedWork(stratum, d)
        /\ Once(SeedFires(stratum, out_add, out_del))
    BY <1>1, <2>2, SeedFired
  <2> QED
    BY <2>1, <2>3
<1>5. /\ Fired(SeedFires(stratum, out_del, out_add)) = SeedWork(stratum, 1)
      /\ Once(SeedFires(stratum, out_del, out_add))
  <2>1. PICK d \in {-1, 1} : d = 1
    OBVIOUS
  <2>2. \A y \in Row : Level(y) < stratum => /\ y \in out_add <=> y \in Frontier(d)
                                             /\ y \in out_del <=> y \in Frontier(-d)
    BY <1>2, <1>3, <2>1
  <2>3. /\ Fired(SeedFires(stratum, out_del, out_add)) = SeedWork(stratum, d)
        /\ Once(SeedFires(stratum, out_del, out_add))
    BY <1>1, <2>2, SeedFired
  <2> QED
    BY <2>1, <2>3
<1> QED
  BY <1>4, <1>5 DEF FiresJust

(* Whatever a loop fires for a stratum has its heads there.                *)
LEMMA HeadsAt ==
    ASSUME NEW fires, NEW X, FiresJust(fires, X), NEW s,
           \A i \in X : i \in Inst /\ Level(i.head) = s
    PROVE  Heads(fires) \subseteq ViewsByStratum(s)
<1>1. ASSUME NEW e \in fires
      PROVE  e[1].head \in ViewsByStratum(s)
  <2>1. e[1] \in X
    BY DEF FiresJust, Fired
  <2> QED
    BY <2>1, ReadsBelow DEF ViewsByStratum, Level
<1> QED
  BY <1>1 DEF Heads

(* The minus seeds keep the invariant.                                     *)
LEMMA DelSeedPreserves ==
    ASSUME Inv, DelSeed
    PROVE  Inv'
<1> DEFINE fires == SeedFires(stratum, out_add, out_del)
           end == FoldAll(cell, fires, -1)
           dq == pend_del \cup ParkedDown(cell, end, fires)
           C2 == CountedBy(Old, Now, "delRound", stratum)
           D2 == OwedBy(Old, Now, "delRound", stratum)
<1>1. /\ phase = "delSeed" /\ phase' = "delRound" /\ cell' = end /\ pend_del' = dq
      /\ UNCHANGED <<pend_add, claimed_del, claimed_add, out_del, out_add, ops,
                     facts, stratum, failed>>
      /\ stratum \in Nat
  BY LastStratumIsLast DEF DelSeed, Inv, Typed
<1>2. FiresJust(fires, SeedWork(stratum, -1))
  BY <1>1, SeedsFire
<1>3. Waiting(cell, phase, stratum) = {}
  BY <1>1 DEF Waiting
<1>4. Balance(cell, pend_del, pend_add, {}, Count, Debt, facts)
  BY <1>3 DEF Inv, LedgerOk
<1>5. /\ SeedWork(stratum, -1) = (Count \ C2) \cup (D2 \ Debt)
      /\ C2 \subseteq Count /\ Debt \subseteq D2 /\ Count \cap D2 = {}
      /\ D2 \subseteq Inst
  BY <1>1, DelSeedMoves
<1>6. Heads(fires) \subseteq ViewsByStratum(stratum)
  <2>1. \A i \in SeedWork(stratum, -1) : i \in Inst /\ Level(i.head) = stratum
    BY DEF SeedWork
  <2> HIDE DEF fires
  <2> QED
    BY <1>2, <2>1, HeadsAt
<1> HIDE DEF fires, C2, D2
<1>7. /\ Balance(end, dq, pend_add, {}, C2, D2, facts)
      /\ Touched(cell, end)
      /\ \A x \in Row : end[x].nr <= cell[x].nr
  <2>1. FiresJust(fires, (Count \ C2) \cup (D2 \ Debt))
    BY <1>2, <1>5
  <2> QED
    BY <1>4, <1>5, <2>1, BalanceDown
<1> HIDE DEF end
<1>8. Old' = Old /\ Now' = Now /\ NewFacts' = NewFacts /\ Target' = Target
  BY <1>1, <1>7, TouchedFlags DEF Old, Now, NewFacts, Target
<1>9. \A x \in Row : /\ Refilled(x, phase', stratum) <=> Refilled(x, phase, stratum)
                     /\ ~Thinned(x, phase, stratum)
                     /\ Built(x, phase', stratum) <=> Built(x, phase, stratum)
                     /\ Final(x, phase', stratum) <=> Final(x, phase, stratum)
                     /\ Refilled(x, phase, stratum) => Level(x) # stratum
  BY <1>1, ProgramFinite DEF Refilled, Thinned, Built, Final, Refilling, Thinning, Level
<1>10. ASSUME NEW x \in Row
       PROVE  /\ SurvivesSoFar(end[x]) = SurvivesSoFar(cell[x])
              /\ FlagsOf(cell[x]) => FlagsOf(end[x])
              /\ \A g \in {"kInI", "kDel", "kAdd", "kDelNow", "kAddNow", "kExplicit"} :
                     g \in end[x].f <=> g \in cell[x].f
  BY <1>7, TouchedFlags
<1>11. \A x \in Row : Level(x) = stratum => "kDel" \notin cell[x].f
  BY <1>9 DEF Inv, FlagsOk
<1>12. Typed'
  BY <1>1 DEF Inv, Typed, Phases, Thinning
<1>13. WorkOk'
  BY <1>1 DEF Inv, WorkOk
<1>14. FlagsOk'
  <2>1. ASSUME NEW x \in Row
        PROVE  /\ FlagsOf(cell'[x])
               /\ cell'[x].f \cap {"kDelNow", "kAddNow"} = {}
               /\ "kAdd" \in cell'[x].f => /\ "kInI" \in cell'[x].f => "kDel" \in cell'[x].f
                                           /\ Refilled(x, phase', stratum')
               /\ "kDel" \in cell'[x].f => Refilled(x, phase', stratum')
               /\ "kExplicit" \in cell'[x].f <=> x \in NewFacts'
    <3>1. /\ FlagsOf(cell[x])
          /\ cell[x].f \cap {"kDelNow", "kAddNow"} = {}
          /\ "kAdd" \in cell[x].f => /\ "kInI" \in cell[x].f => "kDel" \in cell[x].f
                                     /\ Refilled(x, phase, stratum)
          /\ "kDel" \in cell[x].f => Refilled(x, phase, stratum)
          /\ "kExplicit" \in cell[x].f <=> x \in NewFacts
      BY <1>1, <1>9 DEF Inv, FlagsOk
    <3> QED
      BY <1>1, <1>8, <1>9, <1>10, <3>1
  <2> QED
    BY <1>1, <2>1 DEF FlagsOk
<1>15. VectorsOk'
  <2>1. \A x \in Row : /\ "kDel" \in end[x].f <=> "kDel" \in cell[x].f
                       /\ "kAdd" \in end[x].f <=> "kAdd" \in cell[x].f
    BY <1>10
  <2>2. Old \subseteq Row /\ Now \subseteq Row
    BY DEF Old, OldOf, Now, NowOf
  <2> QED
    BY <1>1, <1>8, <1>9, <2>1, <2>2 DEF Inv, VectorsOk
<1>16. QueuesOk'
  <2>1. ASSUME NEW x \in dq
        PROVE  end[x].nr <= 0 /\ (Level(x) > stratum \/ Level(x) = stratum)
    <3>1. CASE x \in pend_del
      <4>1. cell[x].nr <= 0 /\ (Level(x) > stratum \/ Level(x) = stratum)
        BY <3>1 DEF Inv, QueuesOk
      <4>2. x \in Row
        BY <1>4, <3>1 DEF Balance, OldOf
      <4>3. end[x].nr \in Int /\ cell[x].nr \in Int /\ end[x].nr <= cell[x].nr
        BY <1>4, <1>7, <4>2 DEF Balance, Cell
      <4> QED
        BY <4>1, <4>3
    <3>2. CASE x \in ParkedDown(cell, end, fires)
      BY <1>6, <3>2 DEF ParkedDown, CrossedDown, ViewsByStratum, Level
    <3> QED
      BY <3>1, <3>2
  <2>2. ASSUME NEW x \in pend_add
        PROVE  /\ ~SurvivesSoFar(end[x])
               /\ "kExplicit" \in end[x].f /\ Level(x) >= stratum
    <3>1. x \in Row
      BY <1>4 DEF Balance
    <3>2. /\ ~SurvivesSoFar(cell[x])
          /\ "kExplicit" \in cell[x].f /\ Level(x) >= stratum
      BY <1>1 DEF Inv, QueuesOk
    <3> QED
      BY <1>10, <3>1, <3>2
  <2>3. ASSUME NEW x \in claimed_del, Level(x) = stratum
        PROVE  FALSE
    BY <1>11, <2>3 DEF Inv, VectorsOk
  <2> HIDE DEF dq
  <2> QED
    BY <1>1, <2>1, <2>2, <2>3 DEF QueuesOk
<1>17. LedgerOk'
  <2>1. Waiting(end, "delRound", stratum) = {}
    BY <1>10, <1>11 DEF Waiting
  <2>2. Count' = C2 /\ Debt' = D2
    BY <1>1, <1>8 DEF Count, Debt, C2, D2
  <2> QED
    BY <1>1, <1>7, <2>1, <2>2 DEF LedgerOk
<1>18. ModelsOk'
  BY <1>1, <1>8, <1>9 DEF Inv, ModelsOk
<1> QED
  BY <1>12, <1>13, <1>14, <1>15, <1>16, <1>17, <1>18 DEF Inv

(* The plus seeds keep the invariant: what they park was not there, every  *)
(* row that is there having a derivation.                                  *)
LEMMA AddSeedPreserves ==
    ASSUME Inv, AddSeed
    PROVE  Inv'
<1> DEFINE fires == SeedFires(stratum, out_del, out_add)
           end == FoldAll(cell, fires, 1)
           aq == pend_add \cup ParkedUp(cell, end, fires)
           C2 == CountedBy(Old, Now, "addRound", stratum)
<1>1. /\ phase = "addSeed" /\ phase' = "addRound" /\ cell' = end /\ pend_add' = aq
      /\ UNCHANGED <<pend_del, claimed_del, claimed_add, out_del, out_add, ops,
                     facts, stratum, failed>>
      /\ stratum \in Nat
  BY LastStratumIsLast DEF AddSeed, Inv, Typed
<1>2. FiresJust(fires, SeedWork(stratum, 1))
  BY <1>1, SeedsFire
<1>3. Waiting(cell, phase, stratum) = {} /\ \A c : Waiting(c, "addRound", stratum) = {}
  BY <1>1 DEF Waiting
<1>4. Balance(cell, pend_del, pend_add, {}, Count, Debt, facts)
  BY <1>3 DEF Inv, LedgerOk
<1>5. /\ SeedWork(stratum, 1) = (C2 \ Count) \cup (Debt \ {})
      /\ Count \subseteq C2 /\ C2 \cap Debt = {} /\ C2 \subseteq Inst
      /\ OwedBy(Old, Now, "addRound", stratum) = {}
  BY <1>1, AddSeedMoves
<1>6. Heads(fires) \subseteq ViewsByStratum(stratum)
  <2>1. \A i \in SeedWork(stratum, 1) : i \in Inst /\ Level(i.head) = stratum
    BY DEF SeedWork
  <2> HIDE DEF fires
  <2> QED
    BY <1>2, <2>1, HeadsAt
<1> HIDE DEF fires, C2
<1>7. /\ Balance(end, pend_del, aq, {}, C2, {}, facts)
      /\ Touched(cell, end)
      /\ \A x \in Row : cell[x].nr <= end[x].nr /\ cell[x].r <= end[x].r
      /\ \A x \in Row : x \notin Heads(fires) => end[x] = cell[x]
  <2>1. FiresJust(fires, (C2 \ Count) \cup (Debt \ {}))
    BY <1>2, <1>5
  <2>2. C2 \in SUBSET Inst /\ {} \in SUBSET Debt /\ Count \subseteq C2 /\ C2 \cap Debt = {}
    BY <1>5
  <2> QED
    BY <1>4, <2>1, <2>2, BalanceUp
<1> HIDE DEF end
<1>8. Old' = Old /\ Now' = Now /\ NewFacts' = NewFacts /\ Target' = Target
  BY <1>1, <1>7, TouchedFlags DEF Old, Now, NewFacts, Target
<1>9. \A x \in Row : /\ Refilled(x, phase, stratum) \/ Thinned(x, phase, stratum)
                              => Refilled(x, phase', stratum)
                     /\ Built(x, phase', stratum) <=> Built(x, phase, stratum)
                     /\ Final(x, phase', stratum) <=> Final(x, phase, stratum)
  BY <1>1 DEF Refilled, Thinned, Built, Final, Refilling, Thinning
<1>10. ASSUME NEW x \in Row
       PROVE  /\ SurvivesSoFar(end[x]) = SurvivesSoFar(cell[x])
              /\ FlagsOf(cell[x]) => FlagsOf(end[x])
              /\ \A g \in {"kInI", "kDel", "kAdd", "kDelNow", "kAddNow", "kExplicit"} :
                     g \in end[x].f <=> g \in cell[x].f
  BY <1>7, TouchedFlags
<1>12. Typed'
  BY <1>1 DEF Inv, Typed, Phases, Thinning, Refilling
<1>13. WorkOk'
  BY <1>1 DEF Inv, WorkOk
<1>14. FlagsOk'
  <2>1. ASSUME NEW x \in Row
        PROVE  /\ FlagsOf(cell'[x])
               /\ cell'[x].f \cap {"kDelNow", "kAddNow"} = {}
               /\ "kAdd" \in cell'[x].f => /\ "kInI" \in cell'[x].f => "kDel" \in cell'[x].f
                                           /\ Refilled(x, phase', stratum')
               /\ "kDel" \in cell'[x].f => Refilled(x, phase', stratum')
               /\ "kExplicit" \in cell'[x].f <=> x \in NewFacts'
    <3>1. /\ FlagsOf(cell[x])
          /\ cell[x].f \cap {"kDelNow", "kAddNow"} = {}
          /\ "kAdd" \in cell[x].f => /\ "kInI" \in cell[x].f => "kDel" \in cell[x].f
                                     /\ Refilled(x, phase', stratum)
          /\ "kDel" \in cell[x].f => Refilled(x, phase', stratum)
          /\ "kExplicit" \in cell[x].f <=> x \in NewFacts
      BY <1>1, <1>9 DEF Inv, FlagsOk
    <3> QED
      BY <1>1, <1>8, <1>9, <1>10, <3>1
  <2> QED
    BY <1>1, <2>1 DEF FlagsOk
<1>15. VectorsOk'
  <2>1. \A x \in Row : /\ "kDel" \in end[x].f <=> "kDel" \in cell[x].f
                       /\ "kAdd" \in end[x].f <=> "kAdd" \in cell[x].f
    BY <1>10
  <2>2. Old \subseteq Row /\ Now \subseteq Row
    BY DEF Old, OldOf, Now, NowOf
  <2> QED
    BY <1>1, <1>8, <1>9, <2>1, <2>2 DEF Inv, VectorsOk
<1>16. QueuesOk'
  <2>1. ASSUME NEW x \in pend_del
        PROVE  end[x].nr <= 0 /\ Level(x) > stratum
    <3>1. cell[x].nr <= 0 /\ Level(x) > stratum
      BY <1>1 DEF Inv, QueuesOk
    <3>2. x \in Row
      BY <1>4 DEF Balance, OldOf
    <3>3. x \notin Heads(fires)
      BY <1>6, <3>1, <3>2, <1>1, ProgramFinite DEF ViewsByStratum, Level
    <3>4. end[x] = cell[x]
      BY <1>7, <3>2, <3>3
    <3> QED
      BY <3>1, <3>4
  <2>2. ASSUME NEW x \in aq
        PROVE  /\ ~SurvivesSoFar(end[x])
               /\ \/ /\ "kExplicit" \in end[x].f
                     /\ Level(x) >= stratum
                  \/ Level(x) = stratum /\ Total(end[x]) > 0
    <3>1. x \in Row /\ pend_del \subseteq Row
      BY <1>4, <1>7 DEF Balance, OldOf
    <3>2. CASE x \in pend_add
      <4>1. /\ ~SurvivesSoFar(cell[x])
            /\ \/ "kExplicit" \in cell[x].f /\ Level(x) >= stratum
               \/ Level(x) = stratum /\ RecursivelySupported(cell[x])
        BY <1>1, <3>2 DEF Inv, QueuesOk
      <4>2. ASSUME RecursivelySupported(cell[x])
            PROVE  Total(end[x]) > 0
        <5>1. end[x].nr >= 0 /\ end[x].nr \in Int /\ end[x].r \in Int
          <6>1. end \in [Row -> Cell] /\ C2 \in SUBSET Inst /\ Balances(end, C2, {})
            BY <1>7 DEF Balance
          <6>2. end[x].nr >= 0
            <7>1. PICK D \in SUBSET Inst : D = {}
              OBVIOUS
            <7>2. Balances(end, C2, D) /\ \A i \in D : i.head # x
              BY <6>1, <7>1
            <7> QED
              BY <3>1, <6>1, <7>2, BalanceFacts
          <6> QED
            BY <3>1, <6>1, <6>2 DEF Cell
        <5>2. cell[x].r > 0 /\ cell[x].r \in Int /\ cell[x].r <= end[x].r
          <6>1. cell[x].r > 0 /\ cell[x].r \in Int
            BY <1>4, <3>1, <4>2 DEF RecursivelySupported, Balance, Cell
          <6> QED
            BY <1>7, <3>1, <6>1
        <5> QED
          BY <5>1, <5>2 DEF Total
      <4> QED
        BY <1>10, <3>1, <4>1, <4>2
    <3>3. CASE x \in ParkedUp(cell, end, fires)
      <4>1. Total(cell[x]) <= 0 /\ Total(end[x]) > 0 /\ Level(x) = stratum
        BY <1>6, <3>3 DEF ParkedUp, CrossedUp, ViewsByStratum, Level
      <4>2. ASSUME SurvivesSoFar(cell[x])
            PROVE  FALSE
        <5>1. x \notin pend_del
          BY <1>1, <4>1, ProgramFinite DEF Inv, QueuesOk
        <5>2. /\ facts \in SUBSET Facts /\ NewFacts \in SUBSET Facts
              /\ \A y \in Row : "kExplicit" \in cell[y].f => y \in NewFacts
              /\ OldOf(cell) = LeastModel(facts)
          BY <1>1, TargetFacts DEF Inv, Typed, FlagsOk, ModelsOk, Old
        <5>3. Total(cell[x]) > 0
          BY <1>4, <3>1, <4>2, <5>1, <5>2, SurvivorSupported
        <5>4. Total(cell[x]) \in Int
          BY <1>4, <3>1 DEF Balance, Cell, Total
        <5> QED
          BY <4>1, <5>3, <5>4
      <4> QED
        BY <1>10, <3>1, <4>1, <4>2
    <3> QED
      BY <3>2, <3>3
  <2> HIDE DEF aq
  <2> QED
    BY <1>1, <2>1, <2>2 DEF QueuesOk
<1>17. LedgerOk'
  <2>1. Count' = C2 /\ Debt' = {}
    BY <1>1, <1>5, <1>8 DEF Count, Debt, C2
  <2> QED
    BY <1>1, <1>3, <1>7, <2>1 DEF LedgerOk
<1>18. ModelsOk'
  BY <1>1, <1>8, <1>9 DEF Inv, ModelsOk
<1> QED
  BY <1>12, <1>13, <1>14, <1>15, <1>16, <1>17, <1>18 DEF Inv

-----------------------------------------------------------------------------
(* A derivation that reads below the stratum only holds in the new model   *)
(* as soon as it holds as of now.                                          *)
LEMMA LowerHolds ==
    ASSUME Inv, NEW i \in Inst, Level(i.head) = stratum, Holds(i, Now),
           \A y \in BodyRows(i) : Level(y) = stratum => y \in Target
    PROVE  i.head \in Target
<1>1. \A y \in Row : Level(y) < stratum => (y \in Now <=> y \in Target)
  BY DEF Inv, ModelsOk, Final
<1>2. /\ \A y \in BodyRows(i) : y \in Row /\ (Level(y) < stratum \/ Level(y) = stratum)
      /\ \A y \in i.neg : y \in Row /\ Level(y) < stratum
  <2>1. /\ \A y \in BodyRows(i) : y \in Row /\ Level(y) \in Nat /\ Level(y) <= Level(i.head)
        /\ \A y \in i.neg : y \in Row /\ Level(y) \in Nat /\ Level(y) < Level(i.head)
    BY ReadsBelow
  <2>2. stratum \in Nat
    BY LastStratumIsLast DEF Inv, Typed
  <2> QED
    BY <2>1, <2>2
<1>3. Holds(i, Target)
  BY <1>1, <1>2 DEF Holds
<1> QED
  BY <1>3, TargetFacts DEF Inv

(* A nonrecursive derivation reads below its own stratum.                  *)
LEMMA NonRecursiveReads ==
    ASSUME NEW i \in Inst, RuleClass(i) = "kNonRecursive"
    PROVE  \A y \in BodyRows(i) : Level(y) # Level(i.head)
<1>1. \A y \in BodyRows(i) : ~SameScc(i.head, y)
  BY DEF RuleClass, ReadsOwnScc
<1>2. ASSUME NEW y \in BodyRows(i)
      PROVE  Level(y) < Level(i.head) /\ Level(y) \in Nat
  <2>1. /\ Stratum[TableOf(y)] < i.at /\ i.at <= Stratum[TableOf(i.head)]
        /\ Stratum[TableOf(i.head)] \in Nat /\ i.at \in Nat
    BY <1>1, HeadsAndAtoms
  <2>2. Stratum[TableOf(y)] \in Nat
    BY ReadsBelow DEF Level
  <2> QED
    BY <2>1, <2>2 DEF Level
<1> QED
  BY <1>2

(* When OVERDELETE has nothing more to claim, every row of the stratum     *)
(* that it spared is in the new model.                                     *)
LEMMA OverdeleteSound ==
    ASSUME Inv, phase = "delRound",
           \A x \in pend_del : Level(x) = stratum => "kDel" \in cell[x].f
    PROVE  \A x \in Now : Level(x) = stratum => x \in Target
<1>1. stratum \in Nat /\ FlagsOk /\ facts \in SUBSET Facts
  BY LastStratumIsLast DEF Inv, Typed
<1>2. /\ cell \in [Row -> Cell] /\ Count \in SUBSET Inst /\ Debt \in SUBSET Inst
      /\ Balances(cell, Count, Debt)
      /\ LossParked(cell, pend_del, Count, Debt, facts)
  BY DEF Inv, LedgerOk, Balance
<1>3. /\ Old = LeastModel(facts) /\ facts \subseteq Old /\ Old \subseteq Row
      /\ \A i \in Inst : Holds(i, Old) => i.head \in Old
  BY <1>1, LeastModelFacts DEF Inv, ModelsOk
<1>4. NewFacts \subseteq Target
  BY TargetFacts DEF Inv
<1>5. ASSUME NEW x \in Row, Level(x) = stratum, x \in Now
      PROVE  /\ SurvivesSoFar(cell[x]) /\ x \notin pend_del /\ x \in Old
             /\ "kExplicit" \in cell[x].f => x \in Target
  <2>1. ~Refilled(x, phase, stratum)
    BY <1>1, <1>5 DEF Refilled, Refilling
  <2>2. SurvivesSoFar(cell[x]) /\ x \in Old
    BY <1>1, <1>5, <2>1, UnreachedSame
  <2>3. "kExplicit" \in cell[x].f => x \in NewFacts
    BY <1>1 DEF FlagsOk
  <2> QED
    BY <1>4, <1>5, <2>2, <2>3 DEF SurvivesSoFar
<1>6. ASSUME NEW i \in Count, Level(i.head) = stratum
      PROVE  Holds(i, Now)
  BY <1>6 DEF Count, CountedBy, Counted, Thinned, Thinning
<1>7. ASSUME NEW x \in Row, Level(x) = stratum, x \in Now, ~(cell[x].nr <= 0)
      PROVE  x \in Target
  <2>1. cell[x].nr > 0
    BY <1>2, <1>7 DEF Cell
  <2>2. CASE "kExplicit" \in cell[x].f
    BY <1>5, <1>7, <2>2
  <2>3. CASE "kExplicit" \notin cell[x].f
    <3>1. PICK i \in Count : i.head = x /\ RuleClass(i) = "kNonRecursive"
      BY <1>2, <2>1, <2>3, BalanceFacts
    <3>2. i \in Inst /\ Level(i.head) = stratum /\ Holds(i, Now)
      BY <1>2, <1>6, <1>7, <3>1
    <3>3. \A y \in BodyRows(i) : Level(y) # stratum
      BY <3>1, <3>2, NonRecursiveReads
    <3> QED
      BY <3>1, <3>2, <3>3, LowerHolds
  <2> QED
    BY <2>2, <2>3
<1> DEFINE X == {x \in Old : Level(x) = stratum /\ x \in Now => x \in Target}
<1>8. facts \subseteq X
  <2>1. ASSUME NEW x \in facts, Level(x) = stratum, x \in Now, cell[x].nr <= 0
        PROVE  x \in Target
    BY <1>2, <1>3, <1>5, <2>1 DEF LossParked
  <2> QED
    BY <1>3, <1>7, <2>1
<1>9. ASSUME NEW i \in Inst, Level(i.head) = stratum, BodyRows(i) \subseteq X, i.neg \cap Old = {}
      PROVE  i.head \in X
  <2>1. Holds(i, Old) /\ i.head \in Old
    BY <1>3, <1>9 DEF Holds
  <2>2. ASSUME i.head \in Now, cell[i.head].nr <= 0
        PROVE  i.head \in Target
    <3>1. /\ i.head \in Row /\ SurvivesSoFar(cell[i.head]) /\ i.head \notin pend_del
          /\ Holds(i, OldOf(cell))
      BY <1>3, <1>5, <1>9, <2>1, <2>2 DEF Old
    <3>2. i \in Count
      BY <1>2, <2>2, <3>1 DEF LossParked
    <3>3. Holds(i, Now)
      BY <1>6, <1>9, <3>2
    <3>4. \A y \in BodyRows(i) : Level(y) = stratum => y \in Target
      BY <1>9, <3>3 DEF Holds
    <3> QED
      BY <1>9, <3>3, <3>4, LowerHolds
  <2> QED
    BY <1>3, <1>7, <1>9, <2>1, <2>2
<1>10. X = Old
  <2>1. X \in SUBSET Old /\ \A x \in Old : Level(x) # stratum => x \in X
    OBVIOUS
  <2> HIDE DEF X
  <2> QED
    BY <1>1, <1>3, <1>8, <1>9, <2>1, LeastAt
<1>11. ASSUME NEW x \in Now, Level(x) = stratum
       PROVE  x \in Target
  <2>1. x \in Row
    BY DEF Now, NowOf
  <2> QED
    BY <1>5, <1>10, <1>11, <2>1
<1> QED
  BY <1>11

-----------------------------------------------------------------------------
(* What a deletion round marks, and what its folds read.                   *)
LEMMA DelRoundMarks ==
    ASSUME Inv, phase = "delRound", NEW round, NEW mid,
           round = {x \in pend_del \cap ViewsByStratum(stratum) : "kDel" \notin cell[x].f},
           mid = [x \in Row |-> IF x \in round THEN ClaimDel(cell[x]) ELSE cell[x]]
    PROVE  /\ round \subseteq Now
           /\ \A x \in round : Level(x) = stratum /\ "kAdd" \notin cell[x].f
                                 /\ "kInI" \in cell[x].f /\ cell[x].nr <= 0
           /\ Marked(cell, mid, round, {"kTouched", "kDel", "kDelNow"})
           /\ RoundReads(mid, stratum, Now \ round, Now, TRUE)
<1>1. stratum \in Nat /\ FlagsOk /\ cell \in [Row -> Cell]
      /\ pend_del \subseteq Row /\ \A x \in pend_del : "kInI" \in cell[x].f
  BY LastStratumIsLast DEF Inv, Typed, LedgerOk, Balance, OldOf, InI
<1>2. ASSUME NEW x \in round
      PROVE  /\ x \in Row /\ x \in pend_del /\ Level(x) = stratum
             /\ "kDel" \notin cell[x].f /\ "kInI" \in cell[x].f
  BY <1>1 DEF ViewsByStratum, Level
<1>3. ASSUME NEW x \in Row, Level(x) = stratum
      PROVE  /\ "kAdd" \notin cell[x].f
             /\ x \in Now <=> SurvivesSoFar(cell[x])
             /\ "kDelNow" \notin cell[x].f
  <2>1. ~Refilled(x, phase, stratum)
    BY <1>1, <1>3 DEF Refilled, Refilling
  <2> QED
    BY <1>1, <2>1, UnreachedSame DEF FlagsOk
<1>4. \A x \in round : x \in Now
  BY <1>2, <1>3 DEF SurvivesSoFar
<1>5. Marked(cell, mid, round, {"kTouched", "kDel", "kDelNow"})
  <2>1. ASSUME NEW x \in Row
        PROVE  /\ ClaimDel(cell[x]) \in Cell /\ cell[x] \in Cell
               /\ ClaimDel(cell[x]).nr = cell[x].nr /\ ClaimDel(cell[x]).r = cell[x].r
               /\ ClaimDel(cell[x]).f = cell[x].f \cup {"kTouched", "kDel", "kDelNow"}
    BY <1>1, FlagMoves
  <2>2. mid \in [Row -> Cell]
    BY <2>1
  <2>3. \A x \in Row : /\ x \in round => mid[x] = ClaimDel(cell[x])
                       /\ x \notin round => mid[x] = cell[x]
    OBVIOUS
  <2>4. ASSUME NEW x \in Row
        PROVE  /\ mid[x].nr = cell[x].nr /\ mid[x].r = cell[x].r
               /\ x \in round => mid[x].f = cell[x].f \cup {"kTouched", "kDel", "kDelNow"}
               /\ x \notin round => mid[x] = cell[x]
    <3>1. CASE x \in round
      <4>1. mid[x] = ClaimDel(cell[x])
        BY <2>3, <3>1
      <4> QED
        BY <2>1, <3>1, <4>1
    <3>2. CASE x \notin round
      BY <2>3, <3>2
    <3> QED
      BY <3>1, <3>2
  <2> QED
    BY <2>2, <2>4 DEF Marked
<1>6. RoundReads(mid, stratum, Now \ round, Now, TRUE)
  <2>1. ASSUME NEW y \in Row, Level(y) < stratum
        PROVE  InNew(mid[y]) <=> y \in Now \ round
    <3>1. y \notin round
      BY <1>1, <1>2, <2>1, ProgramFinite DEF Level
    <3>2. mid[y] = cell[y]
      BY <1>5, <3>1 DEF Marked
    <3> QED
      BY <3>1, <3>2 DEF Now, NowOf
  <2>2. ASSUME NEW y \in Row, Level(y) = stratum
        PROVE  /\ SurvivesSoFar(mid[y]) <=> y \in Now \ round
               /\ AliveAtClaim(mid[y]) <=> y \in Now
    <3>1. CASE y \in round
      <4>1. mid[y].f = cell[y].f \cup {"kTouched", "kDel", "kDelNow"}
        BY <1>5, <3>1 DEF Marked
      <4> QED
        BY <1>2, <1>4, <3>1, <4>1 DEF SurvivesSoFar, AliveAtClaim
    <3>2. CASE y \notin round
      <4>1. mid[y] = cell[y]
        BY <1>5, <3>2 DEF Marked
      <4> QED
        BY <1>3, <2>2, <3>2, <4>1 DEF SurvivesSoFar, AliveAtClaim
    <3> QED
      BY <3>1, <3>2
  <2> QED
    BY <2>1, <2>2 DEF RoundReads
<1>7. \A x \in round : cell[x].nr <= 0
  BY <1>2 DEF Inv, QueuesOk
<1> QED
  BY <1>2, <1>3, <1>4, <1>5, <1>6, <1>7

(* What the folds of a round and its retirement leave of the flags.        *)
LEMMA DelRoundFlags ==
    ASSUME Inv, NEW mid, NEW end, NEW done, NEW round,
           Marked(cell, mid, round, {"kTouched", "kDel", "kDelNow"}),
           Touched(mid, end), end \in [Row -> Cell],
           done = [x \in Row |-> IF x \in round THEN RetireDel(end[x]) ELSE end[x]],
           \A x \in round : "kInI" \in cell[x].f
    PROVE  /\ done \in [Row -> Cell]
           /\ \A x \in Row :
                 /\ done[x].nr = end[x].nr /\ done[x].r = end[x].r
                 /\ FlagsOf(done[x])
                 /\ done[x].f \cap {"kDelNow", "kAddNow"} = {}
                 /\ \A g \in {"kInI", "kAdd", "kExplicit"} :
                       /\ g \in done[x].f <=> g \in cell[x].f
                       /\ g \in end[x].f <=> g \in cell[x].f
                       /\ g \in mid[x].f <=> g \in cell[x].f
                 /\ "kDel" \in done[x].f <=> "kDel" \in cell[x].f \/ x \in round
                 /\ "kDel" \in end[x].f <=> "kDel" \in done[x].f
                 /\ "kDel" \in mid[x].f <=> "kDel" \in done[x].f
<1>1. ASSUME NEW x \in Row
      PROVE  /\ RetireDel(end[x]) \in Cell /\ end[x] \in Cell
             /\ RetireDel(end[x]).nr = end[x].nr /\ RetireDel(end[x]).r = end[x].r
             /\ RetireDel(end[x]).f = end[x].f \ {"kDelNow"}
  BY FlagMoves
<1>2. done \in [Row -> Cell]
  BY <1>1
<1>3. \A x \in Row : /\ x \in round => done[x] = RetireDel(end[x])
                     /\ x \notin round => done[x] = end[x]
  OBVIOUS
<1>4. ASSUME NEW x \in Row
      PROVE  /\ done[x].nr = end[x].nr /\ done[x].r = end[x].r
             /\ FlagsOf(done[x])
             /\ done[x].f \cap {"kDelNow", "kAddNow"} = {}
             /\ \A g \in {"kInI", "kAdd", "kExplicit"} :
                   /\ g \in done[x].f <=> g \in cell[x].f
                   /\ g \in end[x].f <=> g \in cell[x].f
                   /\ g \in mid[x].f <=> g \in cell[x].f
             /\ "kDel" \in done[x].f <=> "kDel" \in cell[x].f \/ x \in round
             /\ "kDel" \in end[x].f <=> "kDel" \in done[x].f
             /\ "kDel" \in mid[x].f <=> "kDel" \in done[x].f
  <2>1. FlagsOf(cell[x]) /\ cell[x].f \cap {"kDelNow", "kAddNow"} = {}
    BY DEF Inv, FlagsOk
  <2>2. end[x].f = mid[x].f \cup {"kTouched"} \/ end[x].f = mid[x].f
    BY DEF Touched
  <2>3. CASE x \in round
    <3>1. /\ done[x].f = end[x].f \ {"kDelNow"}
          /\ done[x].nr = end[x].nr /\ done[x].r = end[x].r
      BY <1>1, <1>3, <2>3
    <3>2. mid[x].f = cell[x].f \cup {"kTouched", "kDel", "kDelNow"}
      BY <2>3 DEF Marked
    <3>3. done[x].f = (cell[x].f \cup {"kTouched", "kDel"}) \ {"kDelNow"}
      BY <2>2, <3>1, <3>2
    <3>4. FlagsOf(done[x])
      BY <2>3, <3>3 DEF FlagsOf
    <3>5. /\ done[x].f \cap {"kDelNow", "kAddNow"} = {}
          /\ "kDel" \in done[x].f /\ "kDel" \in end[x].f /\ "kDel" \in mid[x].f
      BY <2>1, <2>2, <3>2, <3>3
    <3>6. ASSUME NEW g \in {"kInI", "kAdd", "kExplicit"}
          PROVE  /\ g \in done[x].f <=> g \in cell[x].f
                 /\ g \in end[x].f <=> g \in cell[x].f
                 /\ g \in mid[x].f <=> g \in cell[x].f
      BY <2>2, <3>2, <3>3
    <3> QED
      BY <2>3, <3>1, <3>4, <3>5, <3>6
  <2>4. CASE x \notin round
    <3>1. done[x] = end[x] /\ mid[x] = cell[x]
      BY <1>3, <2>4 DEF Marked
    <3>2. FlagsOf(done[x])
      BY <2>1, <2>2, <3>1 DEF FlagsOf, ScratchFlags
    <3> QED
      BY <2>1, <2>2, <2>4, <3>1, <3>2
  <2> QED
    BY <2>3, <2>4
<1> QED
  BY <1>2, <1>4

-----------------------------------------------------------------------------
(* A deletion round keeps the invariant.                                   *)
LEMMA DelRoundPreserves ==
    ASSUME Inv, DelRound
    PROVE  Inv'
<1> DEFINE round == {x \in pend_del \cap ViewsByStratum(stratum) : "kDel" \notin cell[x].f}
           mid == [x \in Row |-> IF x \in round THEN ClaimDel(cell[x]) ELSE cell[x]]
           fires == RoundFires(mid, stratum, round, TRUE)
           end == FoldAll(mid, fires, -1)
           done == [x \in Row |-> IF x \in round THEN RetireDel(end[x]) ELSE end[x]]
           kept == pend_del \ ViewsByStratum(stratum)
           dq == kept \cup ParkedDown(mid, end, fires)
           S == Now \ round
           C2 == CountedBy(Old, S, "delRound", stratum)
           D2 == OwedBy(Old, S, "delRound", stratum)
           W == Waiting(cell, phase, stratum)
           W2 == W \cup round
<1>1. /\ phase = "delRound" /\ phase' = IF round = {} THEN "rederive" ELSE "delRound"
      /\ failed' = (\E x \in round : cell[x].nr > 0)
      /\ cell' = done /\ pend_del' = dq /\ claimed_del' = claimed_del \cup round
      /\ UNCHANGED <<pend_add, claimed_add, out_del, out_add, ops, facts, stratum>>
      /\ stratum \in Nat /\ phase \in Thinning /\ phase' \in Thinning
  BY LastStratumIsLast DEF DelRound, Inv, Typed, Thinning
<1>2. /\ cell \in [Row -> Cell] /\ \A x \in Row : cell[x].nr \in Int
      /\ Balance(cell, pend_del, pend_add, W, Count, Debt, facts)
      /\ pend_del \subseteq Row /\ pend_add \subseteq Row
      /\ \A x \in Row : Level(x) \in Nat
  BY ProgramFinite DEF Inv, LedgerOk, Balance, OldOf, Cell, Level
<1>3. /\ round \subseteq Now
      /\ \A x \in round : Level(x) = stratum /\ "kAdd" \notin cell[x].f
                            /\ "kInI" \in cell[x].f /\ cell[x].nr <= 0
      /\ Marked(cell, mid, round, {"kTouched", "kDel", "kDelNow"})
      /\ RoundReads(mid, stratum, S, Now, TRUE)
  BY <1>1, DelRoundMarks
<1>4. round \subseteq ViewsByStratum(stratum)
  OBVIOUS
<1>5. round = {} => fires = {}
  BY DEF RoundFires
<1>6. \A x \in pend_del : x \notin kept => Level(x) = stratum /\ ("kDel" \in cell[x].f \/ x \in round)
  BY DEF ViewsByStratum, Level
<1>7. \A x \in kept : x \in pend_del /\ Level(x) # stratum
  BY <1>2 DEF ViewsByStratum, Level
<1> HIDE DEF round, mid, kept
<1>8. FiresJust(fires, RoundWork(stratum, S, Now))
  <2>1. Now = S \cup round /\ S \cap round = {}
    BY <1>3
  <2> QED
    BY <1>1, <1>3, <1>4, <2>1, RoundFired
<1>9. /\ RoundWork(stratum, S, Now) = (Count \ C2) \cup (D2 \ Debt)
      /\ C2 \subseteq Count /\ Debt \subseteq D2 /\ Count \cap D2 = {}
      /\ D2 \subseteq Inst
  BY <1>1, <1>4, DelRoundMoves
<1>10. Heads(fires) \subseteq ViewsByStratum(stratum)
  <2>1. \A i \in RoundWork(stratum, S, Now) : i \in Inst /\ Level(i.head) = stratum
    BY DEF RoundWork
  <2> HIDE DEF fires
  <2> QED
    BY <1>8, <2>1, HeadsAt
<1> HIDE DEF fires, C2, D2, W, S
<1>11. ASSUME NEW x \in Row
       PROVE  /\ mid[x].nr = cell[x].nr /\ mid[x].r = cell[x].r
              /\ "kInI" \in mid[x].f <=> "kInI" \in cell[x].f
              /\ "kExplicit" \in mid[x].f <=> "kExplicit" \in cell[x].f
              /\ SurvivesSoFar(mid[x]) => SurvivesSoFar(cell[x])
              /\ SurvivesSoFar(mid[x]) /\ x \in pend_del => x \in kept
              /\ InNew(cell[x]) => InNew(mid[x]) \/ x \in round
  <2>1. CASE x \in round
    <3>1. mid[x].f = cell[x].f \cup {"kTouched", "kDel", "kDelNow"}
          /\ mid[x].nr = cell[x].nr /\ mid[x].r = cell[x].r
      BY <1>3, <2>1 DEF Marked
    <3> QED
      BY <2>1, <3>1 DEF SurvivesSoFar
  <2>2. CASE x \notin round
    <3>1. mid[x] = cell[x]
      BY <1>3, <2>2 DEF Marked
    <3> QED
      BY <1>6, <2>2, <3>1 DEF SurvivesSoFar
  <2> QED
    BY <2>1, <2>2
<1>12. Balance(mid, kept, pend_add, W2, Count, Debt, facts)
  <2>1. mid \in [Row -> Cell]
    BY <1>3 DEF Marked
  <2>2. GainQueued(mid, pend_add, W2)
    <3>1. GainQueued(cell, pend_add, W)
      BY <1>2 DEF Balance
    <3> QED
      BY <1>11, <3>1 DEF GainQueued, Total
  <2>3. kept \subseteq pend_del
    BY <1>7
  <2> HIDE DEF W2
  <2> QED
    BY <1>2, <1>11, <2>1, <2>2, <2>3, BalanceReflag
<1>13. /\ Balance(end, dq, pend_add, W2, C2, D2, facts)
       /\ Touched(mid, end)
       /\ \A x \in Row : end[x].nr <= mid[x].nr
  <2>1. FiresJust(fires, (Count \ C2) \cup (D2 \ Debt))
    BY <1>8, <1>9
  <2> HIDE DEF W2
  <2> QED
    BY <1>9, <1>12, <2>1, BalanceDown
<1>14. /\ \A x \in dq : x \in kept \/ x \in ParkedDown(mid, end, fires)
       /\ \A x \in ParkedDown(mid, end, fires) :
             /\ x \in Row /\ Level(x) = stratum /\ end[x].nr <= 0 /\ round # {}
  <2>1. Heads({}) = {}
    BY DEF Heads
  <2> QED
    BY <1>5, <1>10, <2>1 DEF ParkedDown, CrossedDown, ViewsByStratum, Level
<1> HIDE DEF end, dq
<1>15. /\ end \in [Row -> Cell] /\ \A x \in round : "kInI" \in cell[x].f
       /\ done = [x \in Row |-> IF x \in round THEN RetireDel(end[x]) ELSE end[x]]
  BY <1>3, <1>13 DEF Balance
<1> HIDE DEF done
<1>16. /\ done \in [Row -> Cell]
       /\ \A x \in Row :
             /\ done[x].nr = end[x].nr /\ done[x].r = end[x].r
             /\ FlagsOf(done[x])
             /\ done[x].f \cap {"kDelNow", "kAddNow"} = {}
             /\ \A g \in {"kInI", "kAdd", "kExplicit"} :
                   /\ g \in done[x].f <=> g \in cell[x].f
                   /\ g \in end[x].f <=> g \in cell[x].f
                   /\ g \in mid[x].f <=> g \in cell[x].f
             /\ "kDel" \in done[x].f <=> "kDel" \in cell[x].f \/ x \in round
             /\ "kDel" \in end[x].f <=> "kDel" \in done[x].f
             /\ "kDel" \in mid[x].f <=> "kDel" \in done[x].f
  BY <1>3, <1>13, <1>15, DelRoundFlags
<1>17. ASSUME NEW x \in Row
       PROVE  /\ SurvivesSoFar(done[x]) <=> SurvivesSoFar(end[x])
              /\ SurvivesSoFar(done[x]) <=> SurvivesSoFar(cell[x]) /\ x \notin round
              /\ InNew(done[x]) <=> InNew(end[x])
              /\ InNew(done[x]) <=> InNew(cell[x]) /\ x \notin round
  <2>1. /\ SurvivesSoFar(done[x]) <=> SurvivesSoFar(end[x])
        /\ SurvivesSoFar(done[x]) <=> SurvivesSoFar(cell[x]) /\ x \notin round
        /\ InNew(done[x]) <=> InNew(end[x])
    BY <1>16 DEF SurvivesSoFar, InNew
  <2>2. InNew(done[x]) <=> InNew(cell[x]) /\ x \notin round
    BY <1>3, <1>16 DEF SurvivesSoFar, InNew
  <2> QED
    BY <2>1, <2>2
<1>18. Old' = Old /\ Now' = S /\ NewFacts' = NewFacts /\ Target' = Target
  <2>1. \A x \in Row : InI(done[x]) <=> InI(cell[x])
    BY <1>16 DEF InI
  <2>2. Old' = Old
    BY <1>1, <2>1 DEF Old, OldOf
  <2>3. Now' = S
    BY <1>1, <1>17 DEF Now, NowOf, S
  <2> QED
    BY <1>1, <2>2, <2>3 DEF NewFacts, Target
<1>19. \A x : /\ Refilled(x, phase', stratum) <=> Refilled(x, phase, stratum)
              /\ Thinned(x, phase', stratum) <=> Thinned(x, phase, stratum)
              /\ Built(x, phase', stratum) <=> Built(x, phase, stratum)
              /\ Final(x, phase', stratum) <=> Final(x, phase, stratum)
  BY <1>1, ThinningSame
<1>20. Count' = C2 /\ Debt' = D2
  <2>1. /\ CountedBy(Old, S, phase', stratum) = CountedBy(Old, S, "delRound", stratum)
        /\ OwedBy(Old, S, phase', stratum) = OwedBy(Old, S, "delRound", stratum)
    BY <1>1, ThinningSame
  <2> QED
    BY <1>1, <1>18, <2>1 DEF Count, Debt, C2, D2
<1>21. \A x \in round : x \in Row /\ Thinned(x, phase, stratum)
                          /\ ~Built(x, phase, stratum) /\ ~Final(x, phase, stratum)
  <2>1. \A x \in round : x \in Row
    BY <1>3 DEF Now, NowOf
  <2> QED
    BY <1>1, <1>2, <1>3, <2>1 DEF Thinned, Built, Final
<1>22. Typed'
  <2>1. failed' = FALSE
    BY <1>1, <1>2, <1>3, <1>21
  <2> QED
    BY <1>1, <2>1 DEF Inv, Typed, Phases
<1>23. WorkOk'
  BY <1>1 DEF Inv, WorkOk
<1>24. FlagsOk'
  <2>1. ASSUME NEW x \in Row
        PROVE  /\ FlagsOf(done[x])
               /\ done[x].f \cap {"kDelNow", "kAddNow"} = {}
               /\ "kAdd" \in done[x].f => /\ "kInI" \in done[x].f => "kDel" \in done[x].f
                                          /\ Refilled(x, phase', stratum)
               /\ "kDel" \in done[x].f => \/ Refilled(x, phase', stratum)
                                          \/ Thinned(x, phase', stratum)
               /\ "kExplicit" \in done[x].f <=> x \in NewFacts
    <3>1. /\ "kAdd" \in cell[x].f => /\ "kInI" \in cell[x].f => "kDel" \in cell[x].f
                                     /\ Refilled(x, phase, stratum)
          /\ "kDel" \in cell[x].f => \/ Refilled(x, phase, stratum)
                                     \/ Thinned(x, phase, stratum)
          /\ "kExplicit" \in cell[x].f <=> x \in NewFacts
      BY <1>1 DEF Inv, FlagsOk
    <3> QED
      BY <1>16, <1>19, <1>21, <3>1
  <2> QED
    BY <1>1, <1>18, <2>1 DEF FlagsOk
<1>25. VectorsOk'
  <2>1. /\ claimed_del = {x \in Row : "kDel" \in cell[x].f}
        /\ claimed_add = {x \in Row : "kAdd" \in cell[x].f}
        /\ out_del = {x \in Old \ Now : Built(x, phase, stratum)}
        /\ out_add = {x \in Now \ Old : Built(x, phase, stratum)}
    BY DEF Inv, VectorsOk
  <2>2. claimed_del' = {x \in Row : "kDel" \in done[x].f}
    BY <1>1, <1>16, <1>21, <2>1
  <2>3. claimed_add' = {x \in Row : "kAdd" \in done[x].f}
    BY <1>1, <1>16, <2>1
  <2>4. out_del' = {x \in Old \ S : Built(x, phase', stratum)}
    BY <1>1, <1>19, <1>21, <2>1 DEF S
  <2>5. out_add' = {x \in S \ Old : Built(x, phase', stratum)}
    BY <1>1, <1>19, <1>21, <2>1 DEF S
  <2> QED
    BY <1>1, <1>18, <2>2, <2>3, <2>4, <2>5 DEF VectorsOk
<1>26. \A x \in Row : cell[x].nr <= 0 => done[x].nr <= 0
  <2>1. \A x \in Row : end[x].nr \in Int /\ done[x].nr = end[x].nr
    BY <1>15, <1>16 DEF Cell
  <2>2. \A x \in Row : mid[x].nr = cell[x].nr
    BY <1>11
  <2> QED
    BY <1>2, <1>13, <2>1, <2>2
<1>27. QueuesOk'
  <2>1. ASSUME NEW x \in dq
        PROVE  /\ done[x].nr <= 0
               /\ Level(x) > stratum \/ (Level(x) = stratum /\ phase' = "delRound")
    <3>1. CASE x \in kept
      <4>1. cell[x].nr <= 0 /\ Level(x) > stratum /\ x \in Row
        BY <1>2, <1>7, <3>1 DEF Inv, QueuesOk
      <4> QED
        BY <1>26, <4>1
    <3>2. CASE x \in ParkedDown(mid, end, fires)
      BY <1>1, <1>14, <1>16, <3>2
    <3> QED
      BY <1>14, <3>1, <3>2
  <2>2. ASSUME NEW x \in pend_add
        PROVE  /\ ~SurvivesSoFar(done[x])
               /\ "kExplicit" \in done[x].f /\ Level(x) >= stratum
    <3>1. x \in Row
      BY <1>2
    <3>2. /\ ~SurvivesSoFar(cell[x])
          /\ "kExplicit" \in cell[x].f /\ Level(x) >= stratum
      BY <1>1 DEF Inv, QueuesOk
    <3> QED
      BY <1>16, <1>17, <3>1, <3>2
  <2>3. ASSUME NEW x \in claimed_del \cup round, Level(x) = stratum
        PROVE  done[x].nr <= 0
    <3>1. CASE x \in claimed_del
      <4>1. x \in Row /\ cell[x].nr <= 0
        BY <1>1, <2>3, <3>1 DEF Inv, VectorsOk, QueuesOk
      <4> QED
        BY <1>26, <4>1
    <3>2. CASE x \in round
      BY <1>3, <1>21, <1>26, <3>2
    <3> QED
      BY <3>1, <3>2
  <2>4. phase' \notin {"frontiers", "commit"}
    BY <1>1
  <2> QED
    BY <1>1, <2>1, <2>2, <2>3, <2>4 DEF QueuesOk
<1>28. LedgerOk'
  <2>1. Waiting(done, phase', stratum) = W2
    <3>1. ASSUME NEW x \in Row
          PROVE  x \in Waiting(done, phase', stratum) <=> x \in W2
      BY <1>1, <1>3, <1>16 DEF Waiting, W
    <3>2. W2 \subseteq Row /\ Waiting(done, phase', stratum) \subseteq Row
      BY <1>21 DEF Waiting, W
    <3> QED
      BY <3>1, <3>2
  <2>2. GainQueued(done, pend_add, W2)
    <3>1. GainQueued(end, pend_add, W2)
      BY <1>13 DEF Balance
    <3>2. \A x \in Row : Total(done[x]) = Total(end[x])
      BY <1>16 DEF Total
    <3> QED
      BY <1>17, <3>1, <3>2 DEF GainQueued
  <2> HIDE DEF W2
  <2>3. \A x \in Row : /\ done[x].nr = end[x].nr /\ done[x].r = end[x].r
                       /\ "kInI" \in done[x].f <=> "kInI" \in end[x].f
                       /\ "kExplicit" \in done[x].f <=> "kExplicit" \in end[x].f
                       /\ SurvivesSoFar(done[x]) => SurvivesSoFar(end[x])
                       /\ SurvivesSoFar(done[x]) /\ x \in dq => x \in dq
    BY <1>16, <1>17
  <2>4. Balance(done, dq, pend_add, W2, C2, D2, facts)
    BY <1>2, <1>13, <1>16, <2>2, <2>3, BalanceReflag
  <2> QED
    BY <1>1, <1>20, <2>1, <2>4 DEF LedgerOk
<1>29. ModelsOk'
  <2>1. Old = LeastModel(facts)
    BY DEF Inv, ModelsOk
  <2>2. \A x \in Row : Final(x, phase', stratum) => (x \in S <=> x \in Target)
    BY <1>19, <1>21 DEF Inv, ModelsOk, S
  <2>3. ASSUME phase' \in {"rederive", "addSeed", "addRound"}
        PROVE  \A x \in S : Level(x) = stratum => x \in Target
    <3>1. round = {}
      BY <1>1, <2>3
    <3>2. \A x \in pend_del : Level(x) = stratum => "kDel" \in cell[x].f
      BY <1>6, <1>7, <3>1
    <3> QED
      BY <1>1, <3>2, OverdeleteSound DEF S
  <2> QED
    BY <1>1, <1>18, <2>1, <2>2, <2>3 DEF ModelsOk
<1> QED
  BY <1>22, <1>23, <1>24, <1>25, <1>27, <1>28, <1>29 DEF Inv

-----------------------------------------------------------------------------
(* InsertPhase has no debts: a row with a derivation is there or queued.   *)
LEMMA InsertFacts ==
    ASSUME Inv, phase = "addRound", NEW x \in Row
    PROVE  /\ Total(cell[x]) > 0 => (\E i \in Count : i.head = x) \/ "kExplicit" \in cell[x].f
           /\ (\E i \in Count : i.head = x) \/ "kExplicit" \in cell[x].f =>
                 x \in Now \/ x \in pend_add
           /\ \A i \in Count : i \in Inst /\ (i.head = x /\ Level(x) = stratum => Holds(i, Now))
           /\ \A i \in Inst : i.head = x /\ Level(x) = stratum /\ Holds(i, Now) => i \in Count
<1>1. /\ cell \in [Row -> Cell] /\ Count \in SUBSET Inst /\ Debt \in SUBSET Inst
      /\ Balances(cell, Count, Debt)
      /\ GainQueued(cell, pend_add, Waiting(cell, phase, stratum))
  BY DEF Inv, LedgerOk, Balance
<1>2. Debt = {} /\ Waiting(cell, phase, stratum) = {}
  BY NoDebt DEF Waiting, Thinning
<1>3. /\ Total(cell[x]) > 0 => (\E i \in Count : i.head = x) \/ "kExplicit" \in cell[x].f
      /\ (\E i \in Count : i.head = x) \/ "kExplicit" \in cell[x].f => Total(cell[x]) > 0
  <2>1. \A i \in Debt : i.head # x
    BY <1>2
  <2> QED
    BY <1>1, <2>1, BalanceFacts
<1>4. Total(cell[x]) > 0 => x \in Now \/ x \in pend_add
  BY <1>1, <1>2 DEF GainQueued, Now, NowOf
<1>5. Level(x) = stratum => Refilled(x, phase, stratum)
  BY DEF Refilled, Refilling
<1> QED
  BY <1>1, <1>3, <1>4, <1>5 DEF Count, CountedBy, Counted

(* What InsertPhase claims is in the new model.                            *)
LEMMA InsertSound ==
    ASSUME Inv, phase = "addRound", NEW x \in pend_add, Level(x) = stratum
    PROVE  x \in Target
<1>1. x \in Row
  BY DEF Inv, LedgerOk, Balance
<1>2. CASE "kExplicit" \in cell[x].f
  <2>1. x \in NewFacts
    BY <1>1, <1>2 DEF Inv, FlagsOk
  <2> QED
    BY <2>1, TargetFacts DEF Inv
<1>3. CASE "kExplicit" \notin cell[x].f
  <2>1. Total(cell[x]) > 0
    BY <1>3 DEF Inv, QueuesOk
  <2>2. PICK i \in Count : i.head = x
    BY <1>1, <1>3, <2>1, InsertFacts
  <2>3. i \in Inst /\ Holds(i, Now)
    BY <1>1, <2>2, InsertFacts
  <2>4. \A y \in BodyRows(i) : Level(y) = stratum => y \in Target
    BY <2>3 DEF Holds, Inv, ModelsOk
  <2> QED
    BY <2>2, <2>3, <2>4, LowerHolds
<1> QED
  BY <1>2, <1>3

(* When it has nothing more to claim, every row of the new model is there. *)
LEMMA InsertComplete ==
    ASSUME Inv, phase = "addRound",
           \A x \in pend_add : Level(x) = stratum => "kAdd" \in cell[x].f
    PROVE  \A x \in Target : Level(x) = stratum => x \in Now
<1>1. stratum \in Nat
  BY LastStratumIsLast DEF Inv, Typed
<1>2. /\ NewFacts \in SUBSET Facts /\ Target = LeastModel(NewFacts)
      /\ NewFacts \subseteq Target /\ Target \subseteq Row
      /\ \A i \in Inst : Holds(i, Target) => i.head \in Target
  BY TargetFacts DEF Inv
<1>3. ASSUME NEW x \in Row, Level(x) = stratum,
             (\E i \in Count : i.head = x) \/ "kExplicit" \in cell[x].f
      PROVE  x \in Now
  <2>1. x \in Now \/ x \in pend_add
    BY <1>3, InsertFacts
  <2>2. x \in pend_add => x \in Now
    BY <1>3 DEF Now, NowOf, InNew
  <2> QED
    BY <2>1, <2>2
<1>4. \A y \in Row : Level(y) < stratum => (y \in Now <=> y \in Target)
  BY DEF Inv, ModelsOk, Final
<1> DEFINE X == {x \in Target : Level(x) = stratum => x \in Now}
<1>5. NewFacts \subseteq X
  <2>1. \A x \in NewFacts : x \in Row /\ "kExplicit" \in cell[x].f
    BY <1>2 DEF Inv, FlagsOk
  <2> QED
    BY <1>2, <1>3, <2>1
<1>6. ASSUME NEW i \in Inst, Level(i.head) = stratum, BodyRows(i) \subseteq X, i.neg \cap Target = {}
      PROVE  i.head \in X
  <2>1. Holds(i, Target) /\ i.head \in Target
    BY <1>2, <1>6 DEF Holds
  <2>2. /\ \A y \in BodyRows(i) : y \in Row /\ (Level(y) < stratum \/ Level(y) = stratum)
        /\ \A y \in i.neg : y \in Row /\ Level(y) < stratum
    <3>1. /\ \A y \in BodyRows(i) : y \in Row /\ Level(y) \in Nat /\ Level(y) <= Level(i.head)
          /\ \A y \in i.neg : y \in Row /\ Level(y) \in Nat /\ Level(y) < Level(i.head)
      BY ReadsBelow
    <3> QED
      BY <1>1, <1>6, <3>1
  <2>3. Holds(i, Now)
    BY <1>4, <1>6, <2>2 DEF Holds
  <2>4. i.head \in Now
    <3>1. i.head \in Row
      BY <1>2, <2>1
    <3>2. i \in Count
      BY <1>6, <2>3, <3>1, InsertFacts
    <3> QED
      BY <1>3, <1>6, <3>1, <3>2
  <2> QED
    BY <2>1, <2>4
<1>7. X = Target
  <2>1. X \in SUBSET Target /\ \A x \in Target : Level(x) # stratum => x \in X
    OBVIOUS
  <2> HIDE DEF X
  <2> QED
    BY <1>1, <1>2, <1>5, <1>6, <2>1, LeastAt
<1> QED
  BY <1>7

-----------------------------------------------------------------------------
(* What an insertion round marks, and what its folds read.                 *)
LEMMA AddRoundMarks ==
    ASSUME Inv, phase = "addRound", NEW round, NEW mid,
           round = {x \in pend_add \cap ViewsByStratum(stratum) : "kAdd" \notin cell[x].f},
           mid = [x \in Row |-> IF x \in round THEN ClaimAdd(cell[x]) ELSE cell[x]]
    PROVE  /\ round \cap Now = {}
           /\ \A x \in round : x \in Row /\ Level(x) = stratum /\ ~SurvivesSoFar(cell[x])
           /\ Marked(cell, mid, round, {"kTouched", "kAdd", "kAddNow"})
           /\ RoundReads(mid, stratum, Now, Now \cup round, FALSE)
<1>1. stratum \in Nat /\ FlagsOk /\ cell \in [Row -> Cell] /\ pend_add \subseteq Row
  BY LastStratumIsLast DEF Inv, Typed, LedgerOk, Balance
<1>2. ASSUME NEW x \in round
      PROVE  /\ x \in Row /\ x \in pend_add /\ Level(x) = stratum
             /\ "kAdd" \notin cell[x].f /\ ~SurvivesSoFar(cell[x])
  <2>1. x \in Row /\ x \in pend_add /\ Level(x) = stratum /\ "kAdd" \notin cell[x].f
    BY <1>1 DEF ViewsByStratum, Level
  <2> QED
    BY <2>1 DEF Inv, QueuesOk
<1>4. \A x \in round : x \notin Now
  BY <1>2 DEF Now, NowOf, InNew
<1>5. Marked(cell, mid, round, {"kTouched", "kAdd", "kAddNow"})
  <2>1. ASSUME NEW x \in Row
        PROVE  /\ ClaimAdd(cell[x]) \in Cell /\ cell[x] \in Cell
               /\ ClaimAdd(cell[x]).nr = cell[x].nr /\ ClaimAdd(cell[x]).r = cell[x].r
               /\ ClaimAdd(cell[x]).f = cell[x].f \cup {"kTouched", "kAdd", "kAddNow"}
    BY <1>1, FlagMoves
  <2>2. mid \in [Row -> Cell]
    BY <2>1
  <2>3. \A x \in Row : /\ x \in round => mid[x] = ClaimAdd(cell[x])
                       /\ x \notin round => mid[x] = cell[x]
    OBVIOUS
  <2>4. ASSUME NEW x \in Row
        PROVE  /\ mid[x].nr = cell[x].nr /\ mid[x].r = cell[x].r
               /\ x \in round => mid[x].f = cell[x].f \cup {"kTouched", "kAdd", "kAddNow"}
               /\ x \notin round => mid[x] = cell[x]
    <3>1. CASE x \in round
      <4>1. mid[x] = ClaimAdd(cell[x])
        BY <2>3, <3>1
      <4> QED
        BY <2>1, <3>1, <4>1
    <3>2. CASE x \notin round
      BY <2>3, <3>2
    <3> QED
      BY <3>1, <3>2
  <2> QED
    BY <2>2, <2>4 DEF Marked
<1>6. RoundReads(mid, stratum, Now, Now \cup round, FALSE)
  <2>1. ASSUME NEW y \in Row, Level(y) < stratum
        PROVE  InNew(mid[y]) <=> y \in Now
    <3>1. y \notin round
      BY <1>1, <1>2, <2>1, ProgramFinite DEF Level
    <3>2. mid[y] = cell[y]
      BY <1>5, <3>1 DEF Marked
    <3> QED
      BY <3>1, <3>2 DEF Now, NowOf
  <2>2. ASSUME NEW y \in Row, Level(y) = stratum
        PROVE  /\ InNewWithFrontier(mid[y]) <=> y \in Now \cup round
               /\ InNewSansFrontier(mid[y]) <=> y \in Now
    <3>1. CASE y \in round
      <4>1. mid[y].f = cell[y].f \cup {"kTouched", "kAdd", "kAddNow"}
        BY <1>5, <3>1 DEF Marked
      <4> QED
        BY <1>2, <1>4, <3>1, <4>1 DEF SurvivesSoFar, InNewWithFrontier, InNewSansFrontier, InNew
    <3>2. CASE y \notin round
      <4>1. mid[y] = cell[y] /\ "kAddNow" \notin cell[y].f
        BY <1>1, <1>5, <3>2 DEF Marked, FlagsOk
      <4> QED
        BY <3>2, <4>1 DEF Now, NowOf, InNewWithFrontier, InNewSansFrontier, InNew
    <3> QED
      BY <3>1, <3>2
  <2> QED
    BY <2>1, <2>2 DEF RoundReads
<1> QED
  BY <1>2, <1>4, <1>5, <1>6

(* What the folds of a round and its retirement leave of the flags.        *)
LEMMA AddRoundFlags ==
    ASSUME Inv, NEW mid, NEW end, NEW done, NEW round,
           Marked(cell, mid, round, {"kTouched", "kAdd", "kAddNow"}),
           Touched(mid, end), end \in [Row -> Cell],
           done = [x \in Row |-> IF x \in round THEN RetireAdd(end[x]) ELSE end[x]]
    PROVE  /\ done \in [Row -> Cell]
           /\ \A x \in Row :
                 /\ done[x].nr = end[x].nr /\ done[x].r = end[x].r
                 /\ FlagsOf(done[x])
                 /\ done[x].f \cap {"kDelNow", "kAddNow"} = {}
                 /\ \A g \in {"kInI", "kDel", "kExplicit"} :
                       /\ g \in done[x].f <=> g \in cell[x].f
                       /\ g \in end[x].f <=> g \in cell[x].f
                       /\ g \in mid[x].f <=> g \in cell[x].f
                 /\ "kAdd" \in done[x].f <=> "kAdd" \in cell[x].f \/ x \in round
                 /\ "kAdd" \in end[x].f <=> "kAdd" \in done[x].f
                 /\ "kAdd" \in mid[x].f <=> "kAdd" \in done[x].f
<1>1. ASSUME NEW x \in Row
      PROVE  /\ RetireAdd(end[x]) \in Cell /\ end[x] \in Cell
             /\ RetireAdd(end[x]).nr = end[x].nr /\ RetireAdd(end[x]).r = end[x].r
             /\ RetireAdd(end[x]).f = end[x].f \ {"kAddNow"}
  BY FlagMoves
<1>2. done \in [Row -> Cell]
  BY <1>1
<1>3. \A x \in Row : /\ x \in round => done[x] = RetireAdd(end[x])
                     /\ x \notin round => done[x] = end[x]
  OBVIOUS
<1>4. ASSUME NEW x \in Row
      PROVE  /\ done[x].nr = end[x].nr /\ done[x].r = end[x].r
             /\ FlagsOf(done[x])
             /\ done[x].f \cap {"kDelNow", "kAddNow"} = {}
             /\ \A g \in {"kInI", "kDel", "kExplicit"} :
                   /\ g \in done[x].f <=> g \in cell[x].f
                   /\ g \in end[x].f <=> g \in cell[x].f
                   /\ g \in mid[x].f <=> g \in cell[x].f
             /\ "kAdd" \in done[x].f <=> "kAdd" \in cell[x].f \/ x \in round
             /\ "kAdd" \in end[x].f <=> "kAdd" \in done[x].f
             /\ "kAdd" \in mid[x].f <=> "kAdd" \in done[x].f
  <2>1. FlagsOf(cell[x]) /\ cell[x].f \cap {"kDelNow", "kAddNow"} = {}
    BY DEF Inv, FlagsOk
  <2>2. end[x].f = mid[x].f \cup {"kTouched"} \/ end[x].f = mid[x].f
    BY DEF Touched
  <2>3. CASE x \in round
    <3>1. /\ done[x].f = end[x].f \ {"kAddNow"}
          /\ done[x].nr = end[x].nr /\ done[x].r = end[x].r
      BY <1>1, <1>3, <2>3
    <3>2. mid[x].f = cell[x].f \cup {"kTouched", "kAdd", "kAddNow"}
      BY <2>3 DEF Marked
    <3>3. done[x].f = (cell[x].f \cup {"kTouched", "kAdd"}) \ {"kAddNow"}
      BY <2>2, <3>1, <3>2
    <3>4. FlagsOf(done[x])
      BY <2>1, <3>3 DEF FlagsOf
    <3>5. /\ done[x].f \cap {"kDelNow", "kAddNow"} = {}
          /\ "kAdd" \in done[x].f /\ "kAdd" \in end[x].f /\ "kAdd" \in mid[x].f
      BY <2>1, <2>2, <3>2, <3>3
    <3>6. ASSUME NEW g \in {"kInI", "kDel", "kExplicit"}
          PROVE  /\ g \in done[x].f <=> g \in cell[x].f
                 /\ g \in end[x].f <=> g \in cell[x].f
                 /\ g \in mid[x].f <=> g \in cell[x].f
      BY <2>2, <3>2, <3>3
    <3> QED
      BY <2>3, <3>1, <3>4, <3>5, <3>6
  <2>4. CASE x \notin round
    <3>1. done[x] = end[x] /\ mid[x] = cell[x]
      BY <1>3, <2>4 DEF Marked
    <3>2. FlagsOf(done[x])
      BY <2>1, <2>2, <3>1 DEF FlagsOf, ScratchFlags
    <3> QED
      BY <2>1, <2>2, <2>4, <3>1, <3>2
  <2> QED
    BY <2>3, <2>4
<1> QED
  BY <1>2, <1>4

-----------------------------------------------------------------------------
(* An insertion round keeps the invariant.                                 *)
LEMMA AddRoundPreserves ==
    ASSUME Inv, AddRound
    PROVE  Inv'
<1> DEFINE round == {x \in pend_add \cap ViewsByStratum(stratum) : "kAdd" \notin cell[x].f}
           mid == [x \in Row |-> IF x \in round THEN ClaimAdd(cell[x]) ELSE cell[x]]
           fires == RoundFires(mid, stratum, round, FALSE)
           end == FoldAll(mid, fires, 1)
           done == [x \in Row |-> IF x \in round THEN RetireAdd(end[x]) ELSE end[x]]
           kept == pend_add \ ViewsByStratum(stratum)
           aq == kept \cup ParkedUp(mid, end, fires)
           B == Now \cup round
           C2 == CountedBy(Old, B, "addRound", stratum)
<1>1. /\ phase = "addRound" /\ phase' = IF round = {} THEN "frontiers" ELSE "addRound"
      /\ cell' = done /\ pend_add' = aq /\ claimed_add' = claimed_add \cup round
      /\ UNCHANGED <<pend_del, claimed_del, out_del, out_add, ops, facts, stratum, failed>>
      /\ stratum \in Nat /\ phase \in Refilling /\ phase' \in Refilling /\ phase' # "commit"
  BY LastStratumIsLast DEF AddRound, Inv, Typed, Refilling
<1>2. Waiting(cell, phase, stratum) = {} /\ Waiting(cell', phase', stratum) = {}
  BY <1>1 DEF Waiting
<1>3. /\ cell \in [Row -> Cell] /\ \A x \in Row : cell[x].nr \in Int
      /\ Balance(cell, pend_del, pend_add, {}, Count, Debt, facts)
      /\ pend_del \subseteq Row /\ pend_add \subseteq Row
      /\ \A x \in Row : Level(x) \in Nat
  BY <1>2, ProgramFinite DEF Inv, LedgerOk, Balance, OldOf, Cell, Level
<1>4. /\ round \cap Now = {}
      /\ \A x \in round : x \in Row /\ Level(x) = stratum /\ ~SurvivesSoFar(cell[x])
      /\ Marked(cell, mid, round, {"kTouched", "kAdd", "kAddNow"})
      /\ RoundReads(mid, stratum, Now, B, FALSE)
  BY <1>1, AddRoundMarks
<1>5. round \subseteq ViewsByStratum(stratum) /\ round \subseteq pend_add
  OBVIOUS
<1>6. round = {} => fires = {}
  BY DEF RoundFires
<1>7. \A x \in pend_add : x \notin kept => Level(x) = stratum /\ ("kAdd" \in cell[x].f \/ x \in round)
  BY DEF ViewsByStratum, Level
<1>8. \A x \in kept : x \in pend_add /\ Level(x) # stratum
  BY <1>3 DEF ViewsByStratum, Level
<1> HIDE DEF round, mid, kept
<1>9. FiresJust(fires, RoundWork(stratum, Now, B))
  <2>1. B = Now \cup round /\ Now \cap round = {}
    BY <1>4
  <2> HIDE DEF B
  <2> QED
    BY <1>1, <1>4, <1>5, <2>1, RoundFired
<1>10. /\ RoundWork(stratum, Now, B) = (C2 \ Count) \cup (Debt \ {})
       /\ Count \subseteq C2 /\ Debt = {} /\ C2 \subseteq Inst
  BY <1>1, <1>5, AddRoundMoves
<1>11. Heads(fires) \subseteq ViewsByStratum(stratum)
  <2>1. \A i \in RoundWork(stratum, Now, B) : i \in Inst /\ Level(i.head) = stratum
    BY DEF RoundWork
  <2> HIDE DEF fires
  <2> QED
    BY <1>9, <2>1, HeadsAt
<1> HIDE DEF fires, C2, B
<1>12. ASSUME NEW x \in Row
       PROVE  /\ mid[x].nr = cell[x].nr /\ mid[x].r = cell[x].r
              /\ "kInI" \in mid[x].f <=> "kInI" \in cell[x].f
              /\ "kExplicit" \in mid[x].f <=> "kExplicit" \in cell[x].f
              /\ SurvivesSoFar(mid[x]) <=> SurvivesSoFar(cell[x])
              /\ InNew(mid[x]) <=> InNew(cell[x]) \/ x \in round
  <2>1. CASE x \in round
    <3>1. mid[x].f = cell[x].f \cup {"kTouched", "kAdd", "kAddNow"}
          /\ mid[x].nr = cell[x].nr /\ mid[x].r = cell[x].r
      BY <1>4, <2>1 DEF Marked
    <3>2. SurvivesSoFar(mid[x]) <=> SurvivesSoFar(cell[x])
      BY <3>1 DEF SurvivesSoFar
    <3> QED
      BY <2>1, <3>1, <3>2 DEF InNew
  <2>2. CASE x \notin round
    <3>1. mid[x] = cell[x]
      BY <1>4, <2>2 DEF Marked
    <3> QED
      BY <2>2, <3>1
  <2> QED
    BY <2>1, <2>2
<1>13. Balance(mid, pend_del, kept, {}, Count, Debt, facts)
  <2>1. mid \in [Row -> Cell]
    BY <1>4 DEF Marked
  <2>2. GainQueued(mid, kept, {})
    <3>1. GainQueued(cell, pend_add, {})
      BY <1>3 DEF Balance
    <3>2. ASSUME NEW x \in Row, Total(mid[x]) > 0
          PROVE  InNew(mid[x]) \/ x \in kept
      <4>1. Total(cell[x]) > 0
        BY <1>12, <3>2 DEF Total
      <4>2. InNew(cell[x]) \/ x \in pend_add
        BY <3>1, <4>1 DEF GainQueued
      <4> QED
        BY <1>7, <1>12, <4>2 DEF InNew
    <3> QED
      BY <3>2 DEF GainQueued
  <2>3. kept \subseteq Row
    BY <1>3, <1>8
  <2> QED
    BY <1>3, <1>12, <2>1, <2>2, <2>3, BalanceReflag
<1>14. /\ Balance(end, pend_del, aq, {}, C2, {}, facts)
       /\ Touched(mid, end)
       /\ \A x \in Row : x \notin Heads(fires) => end[x] = mid[x]
  <2>1. PICK D2 \in SUBSET Debt : D2 = {}
    OBVIOUS
  <2>2. FiresJust(fires, (C2 \ Count) \cup (Debt \ D2)) /\ C2 \cap Debt = {}
        /\ Count \subseteq C2 /\ C2 \in SUBSET Inst
    BY <1>9, <1>10, <2>1
  <2>3. /\ Balance(end, pend_del, aq, {}, C2, D2, facts)
        /\ Touched(mid, end)
        /\ \A x \in Row : x \notin Heads(fires) => end[x] = mid[x]
    BY <1>13, <2>2, BalanceUp
  <2> QED
    BY <2>1, <2>3
<1>15. /\ \A x \in aq : x \in kept \/ x \in ParkedUp(mid, end, fires)
       /\ \A x \in ParkedUp(mid, end, fires) :
             /\ x \in Row /\ Level(x) = stratum /\ round # {}
             /\ Total(mid[x]) <= 0 /\ Total(end[x]) > 0
  <2>1. Heads({}) = {}
    BY DEF Heads
  <2> QED
    BY <1>6, <1>11, <2>1 DEF ParkedUp, CrossedUp, ViewsByStratum, Level
<1> HIDE DEF end, aq
<1>16. /\ end \in [Row -> Cell]
       /\ done = [x \in Row |-> IF x \in round THEN RetireAdd(end[x]) ELSE end[x]]
  BY <1>14 DEF Balance
<1> HIDE DEF done
<1>17. /\ done \in [Row -> Cell]
       /\ \A x \in Row :
             /\ done[x].nr = end[x].nr /\ done[x].r = end[x].r
             /\ FlagsOf(done[x])
             /\ done[x].f \cap {"kDelNow", "kAddNow"} = {}
             /\ \A g \in {"kInI", "kDel", "kExplicit"} :
                   /\ g \in done[x].f <=> g \in cell[x].f
                   /\ g \in end[x].f <=> g \in cell[x].f
                   /\ g \in mid[x].f <=> g \in cell[x].f
             /\ "kAdd" \in done[x].f <=> "kAdd" \in cell[x].f \/ x \in round
             /\ "kAdd" \in end[x].f <=> "kAdd" \in done[x].f
             /\ "kAdd" \in mid[x].f <=> "kAdd" \in done[x].f
  BY <1>4, <1>14, <1>16, AddRoundFlags
<1>18. ASSUME NEW x \in Row
       PROVE  /\ SurvivesSoFar(done[x]) <=> SurvivesSoFar(end[x])
              /\ SurvivesSoFar(done[x]) <=> SurvivesSoFar(cell[x])
              /\ InNew(done[x]) <=> InNew(end[x])
              /\ InNew(done[x]) <=> InNew(cell[x]) \/ x \in round
  <2>1. /\ SurvivesSoFar(done[x]) <=> SurvivesSoFar(end[x])
        /\ SurvivesSoFar(done[x]) <=> SurvivesSoFar(cell[x])
    BY <1>17 DEF SurvivesSoFar
  <2> QED
    BY <1>17, <2>1 DEF InNew
<1>19. Old' = Old /\ Now' = B /\ NewFacts' = NewFacts /\ Target' = Target
  <2>1. \A x \in Row : InI(done[x]) <=> InI(cell[x])
    BY <1>17 DEF InI
  <2>2. Old' = Old
    BY <1>1, <2>1 DEF Old, OldOf
  <2>3. Now' = B
    BY <1>1, <1>4, <1>18 DEF Now, NowOf, B
  <2> QED
    BY <1>1, <2>2, <2>3 DEF NewFacts, Target
<1>20. \A x : /\ Refilled(x, phase', stratum) <=> Refilled(x, phase, stratum)
              /\ ~Thinned(x, phase', stratum) /\ ~Thinned(x, phase, stratum)
              /\ Built(x, phase', stratum) <=> Built(x, phase, stratum)
  BY <1>1, RefillingSame DEF Built
<1>21. Count' = C2 /\ Debt' = {}
  <2>1. CountedBy(Old, B, phase', stratum) = CountedBy(Old, B, "addRound", stratum)
    BY <1>1, RefillingSame
  <2>2. OwedBy(Old, B, phase', stratum) = {}
    BY <1>20 DEF OwedBy, Owed
  <2> QED
    BY <1>1, <1>19, <2>1, <2>2 DEF Count, Debt, C2
<1>22. \A x \in round : ~Built(x, phase, stratum) /\ Refilled(x, phase, stratum)
  BY <1>1, <1>3, <1>4 DEF Built, Refilled
<1>23. Typed'
  BY <1>1 DEF Inv, Typed, Phases
<1>24. WorkOk'
  BY <1>1 DEF Inv, WorkOk
<1>25. FlagsOk'
  <2>1. ASSUME NEW x \in Row
        PROVE  /\ FlagsOf(done[x])
               /\ done[x].f \cap {"kDelNow", "kAddNow"} = {}
               /\ "kAdd" \in done[x].f => /\ "kInI" \in done[x].f => "kDel" \in done[x].f
                                          /\ Refilled(x, phase', stratum)
               /\ "kDel" \in done[x].f => \/ Refilled(x, phase', stratum)
                                          \/ Thinned(x, phase', stratum)
               /\ "kExplicit" \in done[x].f <=> x \in NewFacts
    <3>1. /\ "kAdd" \in cell[x].f => /\ "kInI" \in cell[x].f => "kDel" \in cell[x].f
                                     /\ Refilled(x, phase, stratum)
          /\ "kDel" \in cell[x].f => \/ Refilled(x, phase, stratum)
                                     \/ Thinned(x, phase, stratum)
          /\ "kExplicit" \in cell[x].f <=> x \in NewFacts
      BY <1>1 DEF Inv, FlagsOk
    <3>2. x \in round => ("kInI" \in cell[x].f => "kDel" \in cell[x].f)
      BY <1>4 DEF SurvivesSoFar
    <3> QED
      BY <1>17, <1>20, <1>22, <3>1, <3>2
  <2> QED
    BY <1>1, <1>19, <2>1 DEF FlagsOk
<1>26. VectorsOk'
  <2>1. /\ claimed_del = {x \in Row : "kDel" \in cell[x].f}
        /\ claimed_add = {x \in Row : "kAdd" \in cell[x].f}
        /\ out_del = {x \in Old \ Now : Built(x, phase, stratum)}
        /\ out_add = {x \in Now \ Old : Built(x, phase, stratum)}
    BY DEF Inv, VectorsOk
  <2>2. claimed_del' = {x \in Row : "kDel" \in done[x].f}
    BY <1>1, <1>17, <2>1
  <2>3. claimed_add' = {x \in Row : "kAdd" \in done[x].f}
    BY <1>1, <1>4, <1>17, <2>1
  <2>4. out_del' = {x \in Old \ B : Built(x, phase', stratum)}
    BY <1>1, <1>20, <1>22, <2>1 DEF B
  <2>5. out_add' = {x \in B \ Old : Built(x, phase', stratum)}
    BY <1>1, <1>20, <1>22, <2>1 DEF B
  <2> QED
    BY <1>1, <1>19, <2>2, <2>3, <2>4, <2>5 DEF VectorsOk
<1>27. QueuesOk'
  <2>1. ASSUME NEW x \in pend_del
        PROVE  done[x].nr <= 0 /\ Level(x) > stratum
    <3>1. cell[x].nr <= 0 /\ Level(x) > stratum /\ x \in Row
      BY <1>1, <1>3 DEF Inv, QueuesOk
    <3>2. x \notin Heads(fires)
      BY <1>1, <1>3, <1>11, <3>1 DEF ViewsByStratum, Level
    <3>3. end[x] = mid[x]
      BY <1>14, <3>1, <3>2
    <3>4. done[x].nr = cell[x].nr
      BY <1>12, <1>17, <3>1, <3>3
    <3> QED
      BY <3>1, <3>4
  <2>2. ASSUME NEW x \in aq
        PROVE  /\ ~SurvivesSoFar(done[x])
               /\ \/ "kExplicit" \in done[x].f /\ Level(x) > stratum
                  \/ Level(x) = stratum /\ phase' = "addRound" /\ Total(done[x]) > 0
    <3>1. CASE x \in kept
      <4>1. x \in Row /\ x \in pend_add /\ Level(x) # stratum
        BY <1>3, <1>8, <3>1
      <4>2. /\ ~SurvivesSoFar(cell[x])
            /\ "kExplicit" \in cell[x].f /\ Level(x) >= stratum
        BY <1>1, <4>1 DEF Inv, QueuesOk
      <4>3. Level(x) > stratum
        BY <1>1, <1>3, <4>1, <4>2
      <4> QED
        BY <1>17, <1>18, <4>1, <4>2, <4>3
    <3>2. CASE x \in ParkedUp(mid, end, fires)
      <4>1. /\ x \in Row /\ Level(x) = stratum /\ round # {}
            /\ Total(mid[x]) <= 0 /\ Total(end[x]) > 0
        BY <1>15, <3>2
      <4>2. ASSUME SurvivesSoFar(mid[x])
            PROVE  FALSE
        <5>1. x \notin pend_del
          BY <1>1, <1>3, <4>1 DEF Inv, QueuesOk
        <5>2. /\ facts \in SUBSET Facts /\ NewFacts \in SUBSET Facts
              /\ \A y \in Row : "kExplicit" \in mid[y].f => y \in NewFacts
          BY <1>1, <1>12, TargetFacts DEF Inv, Typed, FlagsOk
        <5>3. OldOf(mid) = LeastModel(facts)
          BY <1>12 DEF Inv, ModelsOk, Old, OldOf, InI
        <5>4. Total(mid[x]) > 0
          BY <1>13, <4>1, <4>2, <5>1, <5>2, <5>3, SurvivorSupported
        <5>5. Total(mid[x]) \in Int
          BY <1>13, <4>1 DEF Balance, Cell, Total
        <5> QED
          BY <4>1, <5>4, <5>5
      <4>3. ~SurvivesSoFar(done[x])
        BY <1>12, <1>18, <4>1, <4>2
      <4>4. Total(done[x]) > 0
        BY <1>17, <4>1 DEF Total
      <4> QED
        BY <1>1, <4>1, <4>3, <4>4
    <3> QED
      BY <1>15, <3>1, <3>2
  <2>3. \A x \in aq : Level(x) > stratum => Level(x) >= stratum /\ Level(x) # stratum
    <3>1. aq \subseteq Row
      BY <1>14 DEF Balance
    <3> QED
      BY <1>1, <1>3, <3>1
  <2>4. phase' \notin {"delRound", "rederive"}
    BY <1>1
  <2>5. \A x \in aq : \/ /\ "kExplicit" \in done[x].f
                         /\ Level(x) = stratum => phase' \notin {"frontiers", "commit"}
                         /\ Level(x) >= stratum
                      \/ /\ Level(x) = stratum
                         /\ phase' = "addRound" /\ Total(done[x]) > 0
    BY <2>2, <2>3
  <2> QED
    BY <1>1, <2>1, <2>2, <2>4, <2>5 DEF QueuesOk
<1>28. LedgerOk'
  <2>1. GainQueued(done, aq, {})
    <3>1. GainQueued(end, aq, {})
      BY <1>14 DEF Balance
    <3>2. \A x \in Row : Total(done[x]) = Total(end[x])
      BY <1>17 DEF Total
    <3> QED
      BY <1>18, <3>1, <3>2 DEF GainQueued
  <2>2. \A x \in Row : /\ done[x].nr = end[x].nr /\ done[x].r = end[x].r
                       /\ "kInI" \in done[x].f <=> "kInI" \in end[x].f
                       /\ "kExplicit" \in done[x].f <=> "kExplicit" \in end[x].f
                       /\ SurvivesSoFar(done[x]) => SurvivesSoFar(end[x])
                       /\ SurvivesSoFar(done[x]) /\ x \in pend_del => x \in pend_del
    BY <1>17, <1>18
  <2>3. aq \subseteq Row
    BY <1>14 DEF Balance
  <2>4. Balance(done, pend_del, aq, {}, C2, {}, facts)
    BY <1>14, <1>17, <2>1, <2>2, <2>3, BalanceReflag
  <2> QED
    BY <1>1, <1>2, <1>21, <2>4 DEF LedgerOk
<1>29. ModelsOk'
  <2>1. Old = LeastModel(facts)
    BY DEF Inv, ModelsOk
  <2>2. \A x \in B : Level(x) = stratum => x \in Target
    <3>1. \A x \in Now : Level(x) = stratum => x \in Target
      BY <1>1 DEF Inv, ModelsOk
    <3>2. \A x \in round : x \in Target
      BY <1>1, <1>4, <1>5, InsertSound
    <3> QED
      BY <3>1, <3>2 DEF B
  <2>3. ASSUME phase' = "frontiers"
        PROVE  \A x \in Target : Level(x) = stratum => x \in B
    <3>1. round = {}
      BY <1>1, <2>3
    <3>2. \A x \in pend_add : Level(x) = stratum => "kAdd" \in cell[x].f
      BY <1>7, <1>8, <3>1
    <3> QED
      BY <1>1, <3>2, InsertComplete DEF B
  <2>4. ASSUME NEW x \in Row, Final(x, phase', stratum)
        PROVE  x \in B <=> x \in Target
    <3>1. CASE Level(x) < stratum
      <4>1. x \notin round
        BY <1>1, <1>3, <1>4, <3>1
      <4> QED
        BY <3>1, <4>1 DEF Inv, ModelsOk, Final, B
    <3>2. CASE ~(Level(x) < stratum)
      BY <1>1, <2>2, <2>3, <2>4, <3>2 DEF Final
    <3> QED
      BY <3>1, <3>2
  <2> QED
    BY <1>1, <1>19, <2>1, <2>2, <2>4 DEF ModelsOk
<1> QED
  BY <1>23, <1>24, <1>25, <1>26, <1>27, <1>28, <1>29 DEF Inv

-----------------------------------------------------------------------------
(* Before the first stratum nothing of the batch is counted.               *)
LEMMA Early ==
    ASSUME NEW ph \in {"idle", "ingest", "delSeed"}
    PROVE  /\ \A x \in Row : /\ ~Refilled(x, ph, 0) /\ ~Thinned(x, ph, 0)
                             /\ ~Built(x, ph, 0) /\ ~Final(x, ph, 0)
           /\ \A old, now : /\ CountedBy(old, now, ph, 0) = {i \in Inst : Holds(i, old)}
                            /\ OwedBy(old, now, ph, 0) = {}
<1>1. \A x \in Row : /\ ~Refilled(x, ph, 0) /\ ~Thinned(x, ph, 0)
                     /\ ~Built(x, ph, 0) /\ ~Final(x, ph, 0)
  <2>1. \A x \in Row : ~(Level(x) < 0)
    BY ProgramFinite DEF Level
  <2> QED
    BY <2>1 DEF Refilled, Thinned, Built, Final, Refilling, Thinning
<1>2. \A i \in Inst : i.head \in Row
  BY ReadsBelow
<1> QED
  BY <1>1, <1>2 DEF CountedBy, OwedBy, Counted, Owed

(* The frontiers of a stratum are its differences.                         *)
LEMMA FrontiersPreserve ==
    ASSUME Inv, BuildFrontiers
    PROVE  Inv'
<1>1. /\ phase = "frontiers" /\ phase \in Refilling
      /\ out_del' = out_del \cup {x \in claimed_del \cap ViewsByStratum(stratum) :
                                      "kAdd" \notin cell[x].f}
      /\ out_add' = out_add \cup {x \in claimed_add \cap ViewsByStratum(stratum) :
                                      "kDel" \notin cell[x].f}
      /\ UNCHANGED <<cell, pend_del, pend_add, claimed_del, claimed_add, ops, facts, failed>>
      /\ stratum \in Nat /\ stratum <= LastStratum /\ LastStratum \in Nat
      /\ \A x \in Row : Level(x) \in Nat /\ Level(x) <= LastStratum
  BY LastStratumIsLast, ProgramFinite DEF BuildFrontiers, Inv, Typed, Refilling, Level
<1>2. \/ stratum = LastStratum /\ phase' = "commit" /\ stratum' = stratum
      \/ stratum < LastStratum /\ phase' = "delSeed" /\ stratum' = stratum + 1
  BY <1>1 DEF BuildFrontiers
<1>3. Old' = Old /\ Now' = Now /\ NewFacts' = NewFacts /\ Target' = Target
  BY <1>1 DEF Old, Now, NewFacts, Target
<1>4. ASSUME NEW x \in Row
      PROVE  /\ Refilled(x, phase', stratum') <=> Refilled(x, phase, stratum)
             /\ ~Thinned(x, phase', stratum') /\ ~Thinned(x, phase, stratum)
             /\ Built(x, phase', stratum') <=> Built(x, phase, stratum) \/ Level(x) = stratum
             /\ Final(x, phase', stratum') <=> Final(x, phase, stratum)
             /\ ~Built(x, phase, stratum) \/ Level(x) # stratum
             /\ Level(x) > stratum => Level(x) > stratum' \/ (Level(x) = stratum' /\ phase' = "delSeed")
             /\ stratum' \in 0..LastStratum
  BY <1>1, <1>2 DEF Refilled, Thinned, Built, Final, Refilling, Thinning
<1>5. Count' = Count /\ Debt' = Debt
  <2>1. ASSUME NEW i \in Inst
        PROVE  /\ Counted(i, Old, Now, phase', stratum') <=> Counted(i, Old, Now, phase, stratum)
               /\ Owed(i, Old, Now, phase', stratum') <=> Owed(i, Old, Now, phase, stratum)
    <3>1. i.head \in Row
      BY ReadsBelow
    <3> QED
      BY <1>4, <3>1 DEF Counted, Owed
  <2> QED
    BY <1>3, <2>1 DEF Count, Debt, CountedBy, OwedBy
<1>6. Typed'
  <2>1. stratum' \in 0..LastStratum
    BY <1>4, ProgramFinite
  <2>2. phase' \in Phases
    BY <1>2 DEF Phases, Refilling
  <2> QED
    BY <1>1, <2>1, <2>2 DEF Inv, Typed
<1>7. WorkOk'
  BY <1>1, <1>2 DEF Inv, WorkOk
<1>8. FlagsOk'
  BY <1>1, <1>2, <1>3, <1>4 DEF Inv, FlagsOk
<1>9. VectorsOk'
  <2>1. /\ claimed_del = {x \in Row : "kDel" \in cell[x].f}
        /\ claimed_add = {x \in Row : "kAdd" \in cell[x].f}
        /\ out_del = {x \in Old \ Now : Built(x, phase, stratum)}
        /\ out_add = {x \in Now \ Old : Built(x, phase, stratum)}
    BY DEF Inv, VectorsOk
  <2>2. ASSUME NEW x \in Row
        PROVE  /\ "kDel" \in cell[x].f /\ "kAdd" \notin cell[x].f <=> x \in Old \ Now
               /\ "kAdd" \in cell[x].f /\ "kDel" \notin cell[x].f <=> x \in Now \ Old
    <3>1. /\ FlagsOf(cell[x])
          /\ "kAdd" \in cell[x].f => ("kInI" \in cell[x].f => "kDel" \in cell[x].f)
      BY DEF Inv, FlagsOk
    <3>2. /\ x \in Old <=> InI(cell[x])
          /\ x \in Now <=> InNew(cell[x])
      BY DEF Old, OldOf, Now, NowOf
    <3>3. /\ NetDeleted(cell[x]) <=> InI(cell[x]) /\ ~InNew(cell[x])
          /\ NetAdded(cell[x]) <=> InNew(cell[x]) /\ ~InI(cell[x])
      BY <3>1, NetReads
    <3>4. "kDel" \in cell[x].f /\ "kAdd" \notin cell[x].f <=> x \in Old \ Now
      BY <3>2, <3>3 DEF NetDeleted
    <3>5. "kAdd" \in cell[x].f /\ "kDel" \notin cell[x].f <=> x \in Now \ Old
      BY <3>1, <3>2, <3>3 DEF NetAdded
    <3> QED
      BY <3>4, <3>5
  <2>3. Old \subseteq Row /\ Now \subseteq Row
    BY DEF Old, OldOf, Now, NowOf
  <2>4. ASSUME NEW x
        PROVE  x \in out_del' <=> x \in {y \in Old \ Now : Built(y, phase', stratum')}
    BY <1>1, <1>4, <2>1, <2>2, <2>3 DEF ViewsByStratum, Level
  <2>5. ASSUME NEW x
        PROVE  x \in out_add' <=> x \in {y \in Now \ Old : Built(y, phase', stratum')}
    BY <1>1, <1>4, <2>1, <2>2, <2>3 DEF ViewsByStratum, Level
  <2>6. /\ out_del' = {y \in Old \ Now : Built(y, phase', stratum')}
        /\ out_add' = {y \in Now \ Old : Built(y, phase', stratum')}
    BY <2>4, <2>5
  <2> QED
    BY <1>1, <1>3, <2>1, <2>6 DEF VectorsOk
<1>10. QueuesOk'
  <2>1. pend_del \subseteq Row /\ pend_add \subseteq Row
    BY DEF Inv, LedgerOk, Balance, OldOf
  <2>2. ASSUME NEW x \in pend_del
        PROVE  cell[x].nr <= 0 /\ Level(x) > stratum
    BY <1>1 DEF Inv, QueuesOk
  <2>3. ASSUME NEW x \in pend_add
        PROVE  ~SurvivesSoFar(cell[x]) /\ "kExplicit" \in cell[x].f /\ Level(x) > stratum
    <3>1. /\ ~SurvivesSoFar(cell[x]) /\ "kExplicit" \in cell[x].f
          /\ Level(x) # stratum /\ Level(x) >= stratum
      BY <1>1 DEF Inv, QueuesOk
    <3> QED
      BY <1>1, <2>1, <3>1
  <2>4. \A x \in Row : Level(x) > stratum' => Level(x) >= stratum' /\ Level(x) # stratum'
    BY <1>1, <1>4
  <2>5. \A x \in Row : Level(x) = stratum' => Level(x) >= stratum'
    BY <1>1, <1>4
  <2>6. \A x \in pend_del : /\ cell[x].nr <= 0
                            /\ Level(x) > stratum' \/ (Level(x) = stratum' /\ phase' = "delSeed")
    BY <1>4, <2>1, <2>2
  <2>7. \A x \in pend_add : /\ ~SurvivesSoFar(cell[x]) /\ "kExplicit" \in cell[x].f
                            /\ Level(x) >= stratum'
                            /\ Level(x) = stratum' => phase' = "delSeed"
    BY <1>4, <2>1, <2>3, <2>4, <2>5
  <2> QED
    BY <1>1, <1>2, <2>6, <2>7 DEF QueuesOk
<1>11. LedgerOk'
  <2>1. Waiting(cell, phase, stratum) = {} /\ Waiting(cell, phase', stratum') = {}
    BY <1>1, <1>2 DEF Waiting
  <2> QED
    BY <1>1, <1>5, <2>1 DEF Inv, LedgerOk
<1>12. ModelsOk'
  <2>1. phase' \notin {"rederive", "addSeed", "addRound"}
    BY <1>2
  <2> QED
    BY <1>1, <1>3, <1>4, <2>1 DEF Inv, ModelsOk
<1> QED
  BY <1>6, <1>7, <1>8, <1>9, <1>10, <1>11, <1>12 DEF Inv

-----------------------------------------------------------------------------
(* What netting leaves of a batch.                                         *)
LEMMA Netting ==
    ASSUME Typed, ops' = [ops EXCEPT !.adds = NettedAdds(ops), !.removes = NettedRemoves(ops)]
    PROVE  /\ ops' \in [adds : SUBSET Facts, removes : SUBSET Facts, busy : BOOLEAN]
           /\ ops'.adds = NettedAdds(ops) /\ ops'.removes = NettedRemoves(ops)
           /\ ops'.busy = ops.busy
           /\ NettedAdds(ops') = NettedAdds(ops) /\ NettedRemoves(ops') = NettedRemoves(ops)
           /\ NettedAdds(ops) \cap NettedRemoves(ops) = {}
           /\ NettedAdds(ops) \subseteq Facts /\ NettedRemoves(ops) \subseteq Facts
<1>1. ops \in [adds : SUBSET Facts, removes : SUBSET Facts, busy : BOOLEAN]
  BY DEF Typed
<1>2. ops' = [adds |-> ops.adds \ ops.removes, removes |-> ops.removes \ ops.adds,
              busy |-> ops.busy]
  BY <1>1 DEF NettedAdds, NettedRemoves
<1> QED
  BY <1>1, <1>2 DEF NettedAdds, NettedRemoves

(* Ingesting a batch queues just the rows whose first or last support      *)
(* moved.                                                                  *)
LEMMA IngestPreserves ==
    ASSUME Inv, Ingest
    PROVE  Inv'
<1> DEFINE A == NettedAdds(ops)
           R == NettedRemoves(ops)
<1>1. /\ phase = "ingest" /\ phase' = "delSeed" /\ stratum = 0 /\ stratum' = 0
      /\ UNCHANGED <<claimed_del, claimed_add, out_del, out_add, facts, failed>>
      /\ pend_del = {} /\ pend_add = {} /\ ops.busy /\ facts \in SUBSET Facts
      /\ cell' = [x \in Row |-> IF x \in R THEN SubExplicit(cell[x])
                                ELSE IF x \in A THEN AddExplicit(cell[x]) ELSE cell[x]]
      /\ pend_add' = {x \in A : CrossedUp(cell[x], cell'[x])}
      /\ pend_del' = {x \in R : "kExplicit" \in cell[x].f /\ CrossedDown(cell[x], cell'[x])}
  BY DEF Ingest, Inv, WorkOk, Typed
<1>2. /\ ops' \in [adds : SUBSET Facts, removes : SUBSET Facts, busy : BOOLEAN]
      /\ ops'.adds = A /\ ops'.removes = R /\ ops'.busy
      /\ NettedAdds(ops') = A /\ NettedRemoves(ops') = R
      /\ A \cap R = {} /\ A \subseteq Facts /\ R \subseteq Facts
  BY <1>1, Netting DEF Ingest, Inv
<1>3. NewFacts = (facts \ R) \cup A
  BY DEF NewFacts
<1>4. NewFacts' = NewFacts
  BY <1>1, <1>2, <1>3 DEF NewFacts
<1> HIDE DEF A, R
<1>5. Waiting(cell, phase, stratum) = {} /\ Waiting(cell', phase', stratum') = {}
  BY <1>1 DEF Waiting
<1>6. /\ cell \in [Row -> Cell] /\ Count \in SUBSET Inst
      /\ Balance(cell, {}, {}, {}, Count, Debt, facts)
      /\ \A x \in Row : cell[x].f \subseteq {"kInI", "kExplicit"}
      /\ \A x \in Row : "kExplicit" \in cell[x].f <=> x \in facts
      /\ \A x \in Row : cell[x] \in Cell
  BY <1>1, <1>5 DEF Inv, LedgerOk, Balance, FlagsOk
<1>7. Old \subseteq Row /\ Now = Old /\ Old = LeastModel(facts)
  <2>1. Now = Old
    BY <1>6 DEF Now, NowOf, Old, OldOf, InNew, InI, SurvivesSoFar
  <2> QED
    BY <2>1 DEF Inv, ModelsOk, Old, OldOf
<1> DEFINE Plus(c) == [nr |-> c.nr + 1, r |-> c.r, f |-> c.f \cup {"kExplicit", "kTouched"}]
           Minus(c) == [nr |-> c.nr - 1, r |-> c.r, f |-> (c.f \ {"kExplicit"}) \cup {"kTouched"}]
<1>8. ASSUME NEW x \in Row
      PROVE  cell'[x] = IF x \in A /\ x \notin facts THEN Plus(cell[x])
                        ELSE IF x \in R /\ x \in facts THEN Minus(cell[x])
                        ELSE cell[x]
  <2>1. cell[x] = [nr |-> cell[x].nr, r |-> cell[x].r, f |-> cell[x].f] /\ cell[x].nr \in Int /\ cell[x].r \in Int
    BY <1>6 DEF Cell
  <2>2. cell'[x] = IF x \in R THEN SubExplicit(cell[x])
                   ELSE IF x \in A THEN AddExplicit(cell[x])
                   ELSE cell[x]
    BY <1>1
  <2>3. x \notin facts => AddExplicit(cell[x]) = Plus(cell[x])
    BY <1>6, <2>1 DEF AddExplicit, FoldAt, Touch
  <2>4. x \in facts => AddExplicit(cell[x]) = cell[x]
    BY <1>6 DEF AddExplicit
  <2>5. x \in facts => SubExplicit(cell[x]) = Minus(cell[x])
    BY <1>6, <2>1 DEF SubExplicit, FoldAt, Touch
  <2>6. x \notin facts => SubExplicit(cell[x]) = cell[x]
    BY <1>6 DEF SubExplicit
  <2>7. ~(x \in A /\ x \in R)
    BY <1>2
  <2> QED
    BY <2>2, <2>3, <2>4, <2>5, <2>6, <2>7
<1>9. ASSUME NEW x \in Row
      PROVE  /\ cell'[x] \in Cell
             /\ cell'[x].f \subseteq {"kInI", "kExplicit", "kTouched"}
             /\ "kInI" \in cell'[x].f <=> "kInI" \in cell[x].f
             /\ "kExplicit" \in cell'[x].f <=> x \in NewFacts
             /\ cell'[x].nr - Explicit(cell'[x]) = cell[x].nr - Explicit(cell[x])
             /\ cell'[x].r = cell[x].r
             /\ x \in facts /\ x \notin NewFacts => x \in R /\ cell'[x] = Minus(cell[x])
             /\ Total(cell'[x]) > Total(cell[x]) => x \in A /\ x \notin facts
  <2>1. cell[x] \in Cell /\ cell[x].nr \in Int /\ cell[x].r \in Int
    BY <1>6 DEF Cell
  <2>2. CASE x \in A /\ x \notin facts
    <3>1. cell'[x] = Plus(cell[x])
      BY <1>8, <2>2
    <3>2. "kExplicit" \notin cell[x].f
      BY <1>6, <2>2
    <3> QED
      BY <1>3, <1>6, <2>1, <2>2, <3>1, <3>2 DEF Cell, RowFlags, Explicit, Total
  <2>3. CASE x \in R /\ x \in facts
    <3>1. cell'[x] = Minus(cell[x]) /\ x \notin A
      BY <1>2, <1>8, <2>3
    <3>2. "kExplicit" \in cell[x].f
      BY <1>6, <2>3
    <3> QED
      BY <1>3, <1>6, <2>1, <2>3, <3>1, <3>2 DEF Cell, RowFlags, Explicit, Total
  <2>4. CASE ~(x \in A /\ x \notin facts) /\ ~(x \in R /\ x \in facts)
    <3>1. cell'[x] = cell[x]
      BY <1>8, <2>4
    <3>2. x \in facts <=> x \in NewFacts
      BY <1>3, <2>4
    <3> QED
      BY <1>6, <2>1, <3>1, <3>2 DEF Total
  <2> QED
    BY <2>2, <2>3, <2>4
<1>10. cell' \in [Row -> Cell]
  BY <1>1, <1>9
<1>11. ASSUME NEW x \in Row
       PROVE  /\ cell[x].nr \in Int /\ cell[x].r \in Int /\ cell'[x].nr \in Int /\ cell'[x].r \in Int
              /\ Total(cell[x]) \in Int /\ Total(cell'[x]) \in Int
              /\ Explicit(cell'[x]) \in Int /\ Explicit(cell[x]) \in Int
  <2>1. cell[x] \in Cell /\ cell'[x] \in Cell
    BY <1>6, <1>10
  <2>2. /\ cell[x].nr \in Int /\ cell[x].r \in Int /\ cell'[x].nr \in Int /\ cell'[x].r \in Int
    BY <2>1 DEF Cell
  <2> QED
    BY <2>2 DEF Total, Explicit
<1>12. Old' = Old /\ Now' = Now
  <2>1. Old' = Old
    BY <1>9 DEF Old, OldOf, InI
  <2>2. Now' = Old
    BY <1>9 DEF Now, NowOf, Old, OldOf, InNew, InI, SurvivesSoFar
  <2> QED
    BY <1>7, <2>1, <2>2
<1>13. /\ \A x \in Row : /\ ~Refilled(x, phase, 0) /\ ~Thinned(x, phase, 0)
                         /\ ~Built(x, phase, 0) /\ ~Final(x, phase, 0)
       /\ Count = {i \in Inst : Holds(i, Old)} /\ Debt = {}
  BY <1>1, Early DEF Count, Debt
<1>14. /\ \A x \in Row : /\ ~Refilled(x, phase', 0) /\ ~Thinned(x, phase', 0)
                         /\ ~Built(x, phase', 0) /\ ~Final(x, phase', 0)
       /\ Count' = {i \in Inst : Holds(i, Old)} /\ Debt' = {}
  BY <1>1, <1>12, Early DEF Count, Debt
<1>15. Typed'
  BY <1>1, <1>2, LastStratumIsLast DEF Inv, Typed, Phases
<1>16. WorkOk'
  BY <1>1, <1>2 DEF WorkOk
<1>17. FlagsOk'
  <2>1. ASSUME NEW x \in Row
        PROVE  /\ FlagsOf(cell'[x])
               /\ cell'[x].f \cap {"kDelNow", "kAddNow", "kDel", "kAdd"} = {}
               /\ "kExplicit" \in cell'[x].f <=> x \in NewFacts'
    BY <1>4, <1>9 DEF FlagsOf, ScratchFlags
  <2> QED
    BY <1>1, <2>1 DEF FlagsOk
<1>18. VectorsOk'
  <2>1. \A x \in Row : /\ "kDel" \in cell'[x].f <=> "kDel" \in cell[x].f
                       /\ "kAdd" \in cell'[x].f <=> "kAdd" \in cell[x].f
    BY <1>6, <1>9
  <2> QED
    BY <1>1, <1>7, <1>12, <2>1 DEF Inv, VectorsOk
<1>19. \A x \in Row : "kExplicit" \in cell[x].f => Total(cell[x]) > 0
  <2>1. PICK D \in SUBSET Inst : D = {}
    OBVIOUS
  <2>2. Balances(cell, Count, D) /\ \A x \in Row : \A i \in D : i.head # x
    BY <1>6, <1>13, <2>1 DEF Balance
  <2> QED
    BY <1>6, <2>2, BalanceFacts
<1>20. QueuesOk'
  <2>1. Facts \subseteq Row /\ \A x \in Row : Level(x) \in Nat
    BY ProgramFinite DEF Facts, Level
  <2>2. ASSUME NEW x \in pend_del'
        PROVE  cell'[x].nr <= 0 /\ x \in Row
    BY <1>1, <1>2, <2>1 DEF CrossedDown
  <2>3. ASSUME NEW x \in pend_add'
        PROVE  ~SurvivesSoFar(cell'[x]) /\ "kExplicit" \in cell'[x].f /\ x \in Row
    <3>1. x \in A /\ x \in Facts /\ x \in Row /\ Total(cell[x]) <= 0
      BY <1>1, <1>2, <2>1 DEF CrossedUp
    <3>2. "kExplicit" \in cell'[x].f
      BY <1>3, <1>9, <3>1
    <3>3. x \notin facts
      BY <1>6, <1>11, <1>19, <3>1
    <3>4. x \notin Old
      <4>1. SUFFICES ASSUME x \in LeastModel(facts) PROVE FALSE
        BY <1>7
      <4>2. PICK i \in Inst : i.head = x
        BY <1>1, <3>3, <4>1, OldSupported
      <4> QED
        BY <3>1, <4>2, HeadsAndAtoms
    <3>5. "kInI" \notin cell'[x].f
      BY <1>9, <3>1, <3>4 DEF Old, OldOf, InI
    <3> QED
      BY <3>1, <3>2, <3>5 DEF SurvivesSoFar
  <2>4. \A x \in Row : (Level(x) > 0 \/ Level(x) = 0) /\ Level(x) >= 0
    BY <2>1
  <2> QED
    BY <1>1, <2>2, <2>3, <2>4 DEF QueuesOk
<1>21. Balance(cell', pend_del', pend_add', {}, Count, {}, facts)
  <2>1. Balances(cell', Count, {})
    <3>1. ASSUME NEW x \in Row
          PROVE  /\ cell'[x].nr = Cardinality(Into(Count, x, "kNonRecursive"))
                                    - Cardinality(Into({}, x, "kNonRecursive"))
                                    + Explicit(cell'[x])
                 /\ cell'[x].r = Cardinality(Into(Count, x, "kRecursive"))
                                    - Cardinality(Into({}, x, "kRecursive"))
      <4>1. /\ cell'[x].nr \in Int /\ cell[x].nr \in Int
            /\ Explicit(cell'[x]) \in Int /\ Explicit(cell[x]) \in Int
        BY <1>11
      <4>2. /\ Cardinality(Into(Count, x, "kNonRecursive")) \in Nat
            /\ Cardinality(Into({}, x, "kNonRecursive")) \in Nat
        BY <1>6, IntoFinite
      <4>3. /\ cell[x].nr = Cardinality(Into(Count, x, "kNonRecursive"))
                              - Cardinality(Into({}, x, "kNonRecursive"))
                              + Explicit(cell[x])
            /\ cell[x].r = Cardinality(Into(Count, x, "kRecursive"))
                              - Cardinality(Into({}, x, "kRecursive"))
        BY <1>6, <1>13 DEF Balance, Balances
      <4>4. cell'[x].nr - Explicit(cell'[x]) = cell[x].nr - Explicit(cell[x]) /\ cell'[x].r = cell[x].r
        BY <1>9
      <4> QED
        BY <4>1, <4>2, <4>3, <4>4
    <3> QED
      BY <3>1 DEF Balances
  <2>2. pend_del' \subseteq OldOf(cell') /\ pend_add' \subseteq Row
    <3>1. Facts \subseteq Row
      BY DEF Facts
    <3> QED
      BY <1>1, <1>2, <1>9, <3>1 DEF CrossedDown, OldOf, InI
  <2>3. LossParked(cell', pend_del', Count, {}, facts)
    <3>1. SUFFICES ASSUME NEW x \in Row,
                          SurvivesSoFar(cell'[x]), cell'[x].nr <= 0, x \notin pend_del'
                   PROVE  /\ \A i \in Inst : i.head = x =>
                                i \notin {} /\ (Holds(i, OldOf(cell')) => i \in Count)
                          /\ x \in facts => "kExplicit" \in cell'[x].f
      BY DEF LossParked
    <3>2. OldOf(cell') = Old
      BY <1>12 DEF Old
    <3>3. ASSUME x \in facts, x \notin NewFacts
          PROVE  FALSE
      <4>1. x \in R /\ "kInI" \in cell[x].f /\ "kExplicit" \in cell[x].f
        BY <1>6, <1>9, <3>1, <3>3 DEF SurvivesSoFar
      <4> QED
        BY <1>1, <3>1, <4>1 DEF CrossedDown
    <3> QED
      BY <1>9, <1>13, <3>2, <3>3
  <2>4. GainQueued(cell', pend_add', {})
    <3>1. SUFFICES ASSUME NEW x \in Row, Total(cell'[x]) > 0
                   PROVE  InNew(cell'[x]) \/ x \in pend_add'
      BY DEF GainQueued
    <3>2. Total(cell'[x]) \in Int /\ Total(cell[x]) \in Int
      BY <1>11
    <3>3. CASE Total(cell[x]) > 0
      <4>1. InNew(cell[x])
        BY <1>6, <3>3 DEF Balance, GainQueued
      <4> QED
        BY <1>6, <1>9, <4>1 DEF InNew, SurvivesSoFar
    <3>4. CASE ~(Total(cell[x]) > 0)
      <4>1. Total(cell'[x]) > Total(cell[x]) /\ Total(cell[x]) <= 0
        BY <3>1, <3>2, <3>4
      <4> QED
        BY <1>1, <1>9, <3>1, <4>1 DEF CrossedUp
    <3> QED
      BY <3>3, <3>4
  <2> QED
    BY <1>6, <1>10, <2>1, <2>2, <2>3, <2>4 DEF Balance
<1>22. LedgerOk'
  BY <1>1, <1>5, <1>13, <1>14, <1>21 DEF LedgerOk
<1>23. ModelsOk'
  <2>1. phase' \notin {"rederive", "addSeed", "addRound"}
    BY <1>1
  <2> QED
    BY <1>1, <1>7, <1>12, <1>14, <2>1 DEF ModelsOk
<1> QED
  BY <1>15, <1>16, <1>17, <1>18, <1>20, <1>22, <1>23 DEF Inv

-----------------------------------------------------------------------------
(* At commit the rows are those of the new model and the counters count    *)
(* its derivations; nothing is queued.                                     *)
LEMMA CommitReady ==
    ASSUME Inv, phase = "commit"
    PROVE  /\ Now = Target /\ Debt = {}
           /\ Count = {i \in Inst : Holds(i, Target)}
           /\ \A x \in Row : /\ Total(cell[x]) > 0 <=> x \in Target
                             /\ cell[x].nr >= 0 /\ cell[x].r >= 0
                             /\ cell[x].nr = Cardinality(Into(Count, x, "kNonRecursive"))
                                                + Explicit(cell[x])
                             /\ cell[x].r = Cardinality(Into(Count, x, "kRecursive"))
           /\ pend_del = {} /\ pend_add = {}
<1>1. /\ stratum = LastStratum /\ stratum \in Nat
      /\ cell \in [Row -> Cell] /\ Count \in SUBSET Inst /\ Debt \in SUBSET Inst
      /\ Balances(cell, Count, Debt)
      /\ pend_del \subseteq Row /\ pend_add \subseteq Row
  BY LastStratumIsLast DEF Inv, WorkOk, LedgerOk, Balance, OldOf
<1>2. ASSUME NEW x \in Row
      PROVE  /\ Level(x) \in Nat /\ (Level(x) < stratum \/ Level(x) = stratum)
             /\ Final(x, phase, stratum) /\ Refilled(x, phase, stratum)
  <2>1. Level(x) \in Nat /\ Level(x) <= stratum
    BY <1>1, LastStratumIsLast, ProgramFinite DEF Level
  <2>2. Level(x) < stratum \/ Level(x) = stratum
    BY <1>1, <2>1
  <2> QED
    BY <2>1, <2>2 DEF Final, Refilled, Refilling
<1>3. /\ Target \subseteq Row /\ NewFacts \subseteq Target
      /\ \A i \in Inst : Holds(i, Target) => i.head \in Target
      /\ \A x \in Target : x \in NewFacts \/ \E i \in Inst : i.head = x /\ Holds(i, Target)
  BY TargetFacts DEF Inv
<1>4. Now = Target
  <2>1. \A x \in Row : x \in Now <=> x \in Target
    BY <1>2 DEF Inv, ModelsOk
  <2> QED
    BY <1>3, <2>1 DEF Now, NowOf
<1>5. Debt = {}
  BY NoDebt DEF Thinning
<1>6. Count = {i \in Inst : Holds(i, Target)}
  <2>1. \A i \in Inst : i.head \in Row
    BY ReadsBelow
  <2> QED
    BY <1>2, <1>4, <2>1 DEF Count, CountedBy, Counted
<1>7. ASSUME NEW x \in Row
      PROVE  /\ Total(cell[x]) > 0 <=> x \in Target
             /\ cell[x].nr >= 0 /\ cell[x].r >= 0
             /\ cell[x].nr = Cardinality(Into(Count, x, "kNonRecursive")) + Explicit(cell[x])
             /\ cell[x].r = Cardinality(Into(Count, x, "kRecursive"))
  <2>1. "kExplicit" \in cell[x].f <=> x \in NewFacts
    BY DEF Inv, FlagsOk
  <2>2. \A i \in Debt : i.head # x
    BY <1>5
  <2>3. /\ Total(cell[x]) > 0 => (\E i \in Count : i.head = x) \/ "kExplicit" \in cell[x].f
        /\ cell[x].nr >= 0 /\ cell[x].r >= 0
        /\ cell[x].nr = Cardinality(Into(Count, x, "kNonRecursive")) + Explicit(cell[x])
        /\ cell[x].r = Cardinality(Into(Count, x, "kRecursive"))
        /\ (\E i \in Count : i.head = x) \/ "kExplicit" \in cell[x].f => Total(cell[x]) > 0
    BY <1>1, <2>2, BalanceFacts
  <2>4. (\E i \in Count : i.head = x) <=> \E i \in Inst : i.head = x /\ Holds(i, Target)
    BY <1>6
  <2> QED
    BY <1>3, <2>1, <2>3, <2>4
<1>8. pend_del = {} /\ pend_add = {}
  <2>1. ASSUME NEW x \in pend_del PROVE FALSE
    <3>1. Level(x) > stratum
      BY <2>1 DEF Inv, QueuesOk
    <3> QED
      BY <1>1, <1>2, <3>1
  <2>2. ASSUME NEW x \in pend_add PROVE FALSE
    <3>1. Level(x) >= stratum /\ Level(x) # stratum
      BY <2>2 DEF Inv, QueuesOk
    <3> QED
      BY <1>1, <1>2, <3>1
  <2> QED
    BY <2>1, <2>2
<1> QED
  BY <1>4, <1>5, <1>6, <1>7, <1>8

(* The commit agrees with the from-scratch evaluation and leads to the     *)
(* invariant between batches.                                              *)
LEMMA CommitPreserves ==
    ASSUME Inv, Commit
    PROVE  Inv'
<1>1. /\ phase = "commit" /\ phase' = "idle" /\ stratum' = 0
      /\ facts' = (facts \ ops.removes) \cup ops.adds /\ ops' = NoOps
      /\ failed' = ~(CommitAsserts /\ CheckAgainstScratch(cell', facts'))
      /\ pend_del' = {} /\ pend_add' = {} /\ claimed_del' = {} /\ claimed_add' = {}
      /\ out_del' = {} /\ out_add' = {}
      /\ cell' = [x \in Row |-> IF "kTouched" \in cell[x].f THEN CommitRow(cell[x]) ELSE cell[x]]
  BY DEF Commit
<1>2. facts' = NewFacts
  <2>1. ops.adds \cap ops.removes = {}
    BY <1>1 DEF Inv, WorkOk
  <2> QED
    BY <1>1, <2>1 DEF NewFacts, NettedAdds, NettedRemoves
<1>3. /\ Now = Target
      /\ Count = {i \in Inst : Holds(i, Target)}
      /\ \A x \in Row : /\ Total(cell[x]) > 0 <=> x \in Target
                        /\ cell[x].nr >= 0 /\ cell[x].r >= 0
                        /\ cell[x].nr = Cardinality(Into(Count, x, "kNonRecursive"))
                                           + Explicit(cell[x])
                        /\ cell[x].r = Cardinality(Into(Count, x, "kRecursive"))
      /\ pend_del = {} /\ pend_add = {}
  BY <1>1, CommitReady
<1>4. /\ cell \in [Row -> Cell] /\ Count \in SUBSET Inst
      /\ \A x \in Row : FlagsOf(cell[x]) /\ ("kExplicit" \in cell[x].f <=> x \in NewFacts)
  BY <1>1 DEF Inv, LedgerOk, Balance, FlagsOk
<1>5. /\ NewFacts \subseteq Facts /\ Target = LeastModel(NewFacts) /\ Target \subseteq Row
  BY TargetFacts DEF Inv
<1>6. ASSUME NEW x \in Row
      PROVE  /\ cell'[x] \in Cell /\ cell'[x].nr = cell[x].nr /\ cell'[x].r = cell[x].r
             /\ cell'[x].f \subseteq {"kInI", "kExplicit"}
             /\ "kExplicit" \in cell'[x].f <=> x \in NewFacts
             /\ Explicit(cell'[x]) = Explicit(cell[x])
             /\ InI(cell'[x]) <=> x \in Target
             /\ InNew(cell'[x]) <=> x \in Target
  <2>1. cell[x] \in Cell /\ FlagsOf(cell[x]) /\ (Total(cell[x]) > 0 <=> InNew(cell[x]))
        /\ (InNew(cell[x]) <=> x \in Target)
    BY <1>3, <1>4 DEF Now, NowOf
  <2>2. cell'[x] = IF "kTouched" \in cell[x].f THEN CommitRow(cell[x]) ELSE cell[x]
    BY <1>1
  <2>3. /\ cell'[x] \in Cell /\ cell'[x].nr = cell[x].nr /\ cell'[x].r = cell[x].r
        /\ cell'[x].f \subseteq {"kInI", "kExplicit"}
        /\ "kExplicit" \in cell'[x].f <=> "kExplicit" \in cell[x].f
        /\ InI(cell'[x]) <=> InNew(cell[x])
        /\ InNew(cell'[x]) <=> InNew(cell[x])
    BY <2>1, <2>2, SweepMoves
  <2> QED
    BY <1>4, <2>1, <2>3 DEF Explicit
<1>7. Old' = Target /\ Now' = Target
  BY <1>5, <1>6 DEF Old, OldOf, Now, NowOf
<1>8. /\ \A x \in Row : /\ ~Refilled(x, phase', 0) /\ ~Thinned(x, phase', 0)
                        /\ ~Built(x, phase', 0) /\ ~Final(x, phase', 0)
      /\ Count' = {i \in Inst : Holds(i, Target)} /\ Debt' = {}
  BY <1>1, <1>7, Early DEF Count, Debt
<1>9. cell' \in [Row -> Cell]
  BY <1>1, <1>6
<1>10. CommitAsserts
  BY <1>3 DEF CommitAsserts
<1>11. CheckAgainstScratch(cell', facts')
  <2>1. {x \in Row : InI(cell'[x])} = LeastModel(facts')
    BY <1>2, <1>5, <1>6
  <2>2. ASSUME NEW x, NEW k
        PROVE  Derivations(x, k, Target) = Cardinality(Into(Count, x, k))
    <3>1. {i \in Inst : i.head = x /\ RuleClass(i) = k /\ Holds(i, Target)} = Into(Count, x, k)
      BY <1>3 DEF Into
    <3> QED
      BY <3>1 DEF Derivations
  <2>3. ASSUME NEW x \in Row
        PROVE  /\ cell'[x].nr = Derivations(x, "kNonRecursive", Target)
                                   + (IF x \in NewFacts THEN 1 ELSE 0)
               /\ cell'[x].r = Derivations(x, "kRecursive", Target)
    <3>1. Explicit(cell[x]) = IF x \in NewFacts THEN 1 ELSE 0
      BY <1>4 DEF Explicit
    <3> QED
      BY <1>3, <1>6, <2>2, <3>1
  <2>4. ExactCounts(cell', facts')
    BY <1>2, <1>5, <2>3 DEF ExactCounts
  <2> QED
    BY <2>1, <2>4 DEF CheckAgainstScratch
<1>12. Typed'
  <2>1. 0 \in 0..LastStratum
    BY LastStratumIsLast
  <2> QED
    BY <1>1, <1>2, <1>5, <1>10, <1>11, <2>1 DEF Typed, NoOps, Phases
<1>13. WorkOk'
  BY <1>1 DEF WorkOk
<1>14. FlagsOk'
  <2>1. ASSUME NEW x \in Row
        PROVE  /\ FlagsOf(cell'[x])
               /\ cell'[x].f \subseteq {"kInI", "kExplicit"}
               /\ cell'[x].f \cap {"kDelNow", "kAddNow"} = {}
               /\ cell'[x].f \cap {"kDel", "kAdd"} = {}
               /\ "kExplicit" \in cell'[x].f <=> x \in facts'
    BY <1>2, <1>6 DEF FlagsOf, ScratchFlags
  <2> QED
    BY <1>1, <2>1 DEF FlagsOk
<1>15. VectorsOk'
  <2>1. \A x \in Row : "kDel" \notin cell'[x].f /\ "kAdd" \notin cell'[x].f
    BY <1>6
  <2> QED
    BY <1>1, <1>7, <2>1 DEF VectorsOk
<1>16. QueuesOk'
  BY <1>1 DEF QueuesOk
<1>17. LedgerOk'
  <2>1. Waiting(cell', phase', stratum') = {}
    BY <1>1 DEF Waiting
  <2>2. Balances(cell', Count, {})
    <3>1. ASSUME NEW x \in Row
          PROVE  /\ cell'[x].nr = Cardinality(Into(Count, x, "kNonRecursive"))
                                    - Cardinality(Into({}, x, "kNonRecursive"))
                                    + Explicit(cell'[x])
                 /\ cell'[x].r = Cardinality(Into(Count, x, "kRecursive"))
                                    - Cardinality(Into({}, x, "kRecursive"))
      <4>1. /\ Cardinality(Into({}, x, "kNonRecursive")) = 0
            /\ Cardinality(Into({}, x, "kRecursive")) = 0
        BY IntoEmpty
      <4>2. /\ Cardinality(Into(Count, x, "kNonRecursive")) \in Nat
            /\ Cardinality(Into(Count, x, "kRecursive")) \in Nat
        BY <1>4, IntoFinite
      <4> QED
        BY <1>3, <1>6, <4>1, <4>2
    <3> QED
      BY <3>1 DEF Balances
  <2>3. LossParked(cell', {}, Count, {}, facts')
    <3>1. OldOf(cell') = Target
      BY <1>7 DEF Old
    <3> QED
      BY <1>2, <1>3, <1>6, <3>1 DEF LossParked
  <2>4. GainQueued(cell', {}, {})
    <3>1. \A x \in Row : Total(cell'[x]) = Total(cell[x])
      BY <1>6 DEF Total
    <3> QED
      BY <1>3, <1>6, <3>1 DEF GainQueued
  <2>5. Balance(cell', {}, {}, {}, Count, {}, facts')
    BY <1>4, <1>9, <2>2, <2>3, <2>4 DEF Balance
  <2> QED
    BY <1>1, <1>3, <1>8, <2>1, <2>5 DEF LedgerOk
<1>18. ModelsOk'
  BY <1>1, <1>2, <1>5, <1>7, <1>8 DEF ModelsOk
<1> QED
  BY <1>12, <1>13, <1>14, <1>15, <1>16, <1>17, <1>18 DEF Inv

-----------------------------------------------------------------------------
(* The invariant holds before the first batch.                             *)
LEMMA InitInv ==
    ASSUME Init
    PROVE  Inv
<1>1. /\ cell = [x \in Row |-> NewCell]
      /\ pend_del = {} /\ pend_add = {} /\ claimed_del = {} /\ claimed_add = {}
      /\ out_del = {} /\ out_add = {} /\ ops = NoOps /\ facts = {}
      /\ phase = "idle" /\ stratum = 0 /\ failed = FALSE
  BY DEF Init
<1>2. ASSUME NEW x \in Row
      PROVE  /\ cell[x] \in Cell /\ cell[x].nr = 0 /\ cell[x].r = 0 /\ cell[x].f = {}
             /\ ~InI(cell[x]) /\ ~InNew(cell[x]) /\ ~SurvivesSoFar(cell[x])
             /\ Explicit(cell[x]) = 0 /\ Total(cell[x]) = 0
  <2>1. cell[x] = NewCell
    BY <1>1
  <2>2. cell[x].nr = 0 /\ cell[x].r = 0 /\ cell[x].f = {}
    BY <2>1 DEF NewCell
  <2>3. cell[x] \in Cell
    BY <2>1 DEF NewCell, Cell
  <2>4. /\ ~InI(cell[x]) /\ ~InNew(cell[x]) /\ ~SurvivesSoFar(cell[x])
        /\ Explicit(cell[x]) = 0 /\ Total(cell[x]) = 0
    BY <2>2 DEF InI, InNew, SurvivesSoFar, Explicit, Total
  <2> QED
    BY <2>2, <2>3, <2>4
<1>3. Old = {} /\ Now = {}
  BY <1>2 DEF Old, OldOf, Now, NowOf
<1>4. Count = {} /\ Debt = {}
  <2>1. \A i \in Inst : ~Holds(i, {})
    BY BodyNonEmpty DEF Holds
  <2> QED
    BY <1>1, <1>3, <2>1, Early DEF Count, Debt
<1>5. \A x \in Row : ~Final(x, phase, stratum) /\ ~Built(x, phase, stratum)
  BY <1>1, Early
<1>6. Typed
  <2>1. 0 \in 0..LastStratum
    BY LastStratumIsLast
  <2> QED
    BY <1>1, <2>1 DEF Typed, NoOps, Phases
<1>7. WorkOk
  BY <1>1 DEF WorkOk
<1>8. FlagsOk
  <2>1. \A x \in Row : FlagsOf(cell[x])
    BY <1>2 DEF FlagsOf
  <2> QED
    BY <1>1, <1>2, <2>1 DEF FlagsOk
<1>9. VectorsOk
  BY <1>1, <1>2, <1>3 DEF VectorsOk
<1>10. QueuesOk
  BY <1>1 DEF QueuesOk
<1>11. LedgerOk
  <2>1. Waiting(cell, phase, stratum) = {}
    BY <1>1 DEF Waiting
  <2>2. cell \in [Row -> Cell]
    <3>1. NewCell \in Cell
      BY DEF NewCell, Cell
    <3> QED
      BY <1>1, <3>1
  <2>3. Balances(cell, {}, {})
    <3>1. ASSUME NEW x \in Row
          PROVE  /\ Cardinality(Into({}, x, "kNonRecursive")) = 0
                 /\ Cardinality(Into({}, x, "kRecursive")) = 0
      BY IntoEmpty
    <3> QED
      BY <1>2, <3>1 DEF Balances
  <2>4. LossParked(cell, {}, {}, {}, facts) /\ GainQueued(cell, {}, {})
    BY <1>2 DEF LossParked, GainQueued
  <2>5. Balance(cell, {}, {}, {}, {}, {}, facts)
    BY <2>2, <2>3, <2>4 DEF Balance
  <2> QED
    BY <1>1, <1>4, <2>1, <2>5 DEF LedgerOk
<1>12. ModelsOk
  BY <1>1, <1>3, <1>5, EmptyModel DEF ModelsOk
<1> QED
  BY <1>6, <1>7, <1>8, <1>9, <1>10, <1>11, <1>12 DEF Inv

(* Every step keeps the invariant.                                         *)
LEMMA StepInv ==
    ASSUME Inv, [Next]_vars
    PROVE  Inv'
<1>1. CASE SubmitOf(Facts)
  BY <1>1, SubmitPreserves DEF SubmitOf
<1>2. CASE Run
  <2>1. CASE Ingest
    BY <2>1, IngestPreserves
  <2>2. CASE DelSeed
    BY <2>2, DelSeedPreserves
  <2>3. CASE DelRound
    BY <2>3, DelRoundPreserves
  <2>4. CASE Rederive
    BY <2>4, RederivePreserves
  <2>5. CASE AddSeed
    BY <2>5, AddSeedPreserves
  <2>6. CASE AddRound
    BY <2>6, AddRoundPreserves
  <2>7. CASE BuildFrontiers
    BY <2>7, FrontiersPreserve
  <2>8. CASE Commit
    BY <2>8, CommitPreserves
  <2> QED
    BY <1>2, <2>1, <2>2, <2>3, <2>4, <2>5, <2>6, <2>7, <2>8 DEF Run
<1>3. CASE UNCHANGED vars
  <2>1. /\ UNCHANGED <<cell, pend_del, pend_add, claimed_del, claimed_add, out_del, out_add>>
        /\ UNCHANGED <<ops, facts, phase, stratum, failed>>
    BY <1>3 DEF vars
  <2>2. Old' = Old /\ Now' = Now /\ NewFacts' = NewFacts /\ Target' = Target
    BY <2>1 DEF Old, Now, NewFacts, Target
  <2>3. Count' = Count /\ Debt' = Debt
    BY <2>1, <2>2 DEF Count, Debt
  <2>4. Typed' /\ WorkOk' /\ QueuesOk'
    BY <2>1 DEF Inv, Typed, WorkOk, QueuesOk
  <2>5. FlagsOk' /\ ModelsOk'
    BY <2>1, <2>2 DEF Inv, FlagsOk, ModelsOk
  <2>6. VectorsOk'
    BY <2>1, <2>2 DEF Inv, VectorsOk
  <2>7. LedgerOk'
    BY <2>1, <2>3 DEF Inv, LedgerOk
  <2> QED
    BY <2>4, <2>5, <2>6, <2>7 DEF Inv
<1> QED
  BY <1>1, <1>2, <1>3 DEF Next

-----------------------------------------------------------------------------
(* View maintenance and the oracle mean the same least model.              *)
LEMMA SameModel == \A f : View!LeastModel(f) = LeastModel(f)
BY DEF LeastModel, View!LeastModel, Closure, View!Closure, OneStep, View!OneStep,
   Holds, View!Holds, LastStratum, View!LastStratum, Strata, View!Strata,
   BodyRows, View!BodyRows, TableOf, View!TableOf

(* The view and the batch that view maintenance sees of the oracle. *)
Visible == {x \in Row : InI(cell[x])}
(* The batch as the netting of IngestInputs will leave it.                 *)
Net == [adds |-> ops.adds \ ops.removes, removes |-> ops.removes \ ops.adds,
        busy |-> ops.busy]

(* The initial states are initial states of view maintenance.              *)
LEMMA InitRefines ==
    ASSUME Init
    PROVE  View!AInit
<1>1. Inv /\ facts = {} /\ ops = NoOps
  BY InitInv DEF Init
<1>2. {x \in Row : InI(cell[x])} = View!LeastModel({})
  BY <1>1, SameModel DEF Inv, ModelsOk, Old, OldOf
<1>3. [adds |-> ops.adds \ ops.removes, removes |-> ops.removes \ ops.adds, busy |-> ops.busy]
          = View!NoBatch
  BY <1>1 DEF NoOps, View!NoBatch
<1> QED
  BY <1>1, <1>2, <1>3 DEF View!AInit

(* Each step is a step of view maintenance or none.                        *)
LEMMA StepRefines ==
    ASSUME Inv, Inv', [Next]_vars
    PROVE  [View!ANext]_<<facts, Visible, Net>>
<1>1. Visible = LeastModel(facts) /\ Visible' = LeastModel(facts')
  BY DEF Inv, ModelsOk, Visible, Old, OldOf
<1>2. CASE facts' = facts /\ Net' = Net
  BY <1>1, <1>2
<1>3. CASE SubmitOf(Facts)
  <2>1. PICK adds \in SUBSET Facts, removes \in SUBSET Facts : Submit(adds, removes)
    BY <1>3 DEF SubmitOf
  <2>2. /\ ops = NoOps /\ facts' = facts
        /\ ops' = [adds |-> adds, removes |-> removes, busy |-> TRUE]
    BY <2>1 DEF Submit, Inv, WorkOk
  <2>3. ~Net.busy /\ Net' = [adds |-> adds \ removes, removes |-> removes \ adds, busy |-> TRUE]
    BY <2>2 DEF Net, NoOps
  <2>4. View!Facts = Facts
    BY DEF Facts, View!Facts, TableOf, View!TableOf
  <2>5. adds \ removes \in SUBSET Facts /\ removes \ adds \in SUBSET (Facts \ (adds \ removes))
    OBVIOUS
  <2>6. View!Accept(adds \ removes, removes \ adds)
    BY <1>1, <2>2, <2>3 DEF View!Accept, Net, Visible
  <2> QED
    BY <2>3, <2>4, <2>5, <2>6 DEF View!ANext, Net
<1>4. CASE Commit
  <2>1. /\ ops.busy /\ facts' = (facts \ ops.removes) \cup ops.adds /\ ops' = NoOps
        /\ ops.adds \cap ops.removes = {}
    BY <1>4 DEF Commit, Inv, WorkOk
  <2>2. Net.busy /\ facts' = View!Apply(facts, Net)
    BY <2>1 DEF Net, View!Apply
  <2>3. Net' = View!NoBatch
    BY <2>1 DEF Net, NoOps, View!NoBatch
  <2>4. Visible' = View!LeastModel(facts')
    BY <1>1, SameModel
  <2> QED
    BY <2>2, <2>3, <2>4 DEF View!ANext, View!Settle, Net, Visible
<1>5. CASE Ingest
  <2>1. facts' = facts /\ NettedAdds(ops') = NettedAdds(ops) /\ NettedRemoves(ops') = NettedRemoves(ops)
        /\ ops'.busy = ops.busy
    BY <1>5, Netting DEF Ingest, Inv
  <2> QED
    BY <1>2, <2>1 DEF Net, NettedAdds, NettedRemoves
<1>6. CASE Run /\ ~Commit /\ ~Ingest
  <2>1. facts' = facts /\ ops' = ops
    BY <1>6 DEF Run, DelSeed, DelRound, Rederive, AddSeed, AddRound, BuildFrontiers
  <2> QED
    BY <1>2, <2>1 DEF Net
<1>7. CASE UNCHANGED vars
  BY <1>2, <1>7 DEF vars, Net
<1> QED
  BY <1>3, <1>4, <1>5, <1>6, <1>7 DEF Next

-----------------------------------------------------------------------------
(* The results. *)

(* The oracle never fails, whatever the program and the batches: it claims *)
(* no deletion with nonrecursive support left, though its claims test the  *)
(* counters no more; the queues are empty and no counter is negative at    *)
(* commit; and presence and every counter agree with a from-scratch        *)
(* evaluation.                                                             *)
THEOREM OracleNeverFails == Spec => []NeverFails
<1>1. Init => Inv
  BY InitInv
<1>2. Inv /\ [Next]_vars => Inv'
  BY StepInv
<1>3. Inv => NeverFails
  BY DEF Inv, Typed, NeverFails
<1> QED
  BY <1>1, <1>2, <1>3, PTL DEF Spec

(* The oracle implements the abstract view maintenance, the batch taken    *)
(* with its set semantics.                                                 *)
THEOREM OracleRefines == Spec => RefinesViewMaintenance
<1>1. Init => Inv /\ View!AInit
  BY InitInv, InitRefines
<1>2. Inv /\ [Next]_vars => Inv'
  BY StepInv
<1>3. Inv /\ Inv' /\ [Next]_vars => [View!ANext]_<<facts, Visible, Net>>
  BY StepRefines
<1> QED
  BY <1>1, <1>2, <1>3, PTL DEF Spec, RefinesViewMaintenance, View!ASpec, Visible, Net
=============================================================================
