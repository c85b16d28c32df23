----------------------------- MODULE DRFlowProofs -----------------------------
(***************************************************************************)
(* For any finite program, any order of the units and any order of the     *)
(* tables in memory: the strata lift ends with the least strata that put   *)
(* every unit after what it reads; in the flow that is emitted from them   *)
(* no vector is drained before it is complete and no flag is read on the   *)
(* wrong side of the claims; every change is folded exactly once; and no   *)
(* validator of the flow aborts the compiler.                              *)
(***************************************************************************)
EXTENDS DRFlow, FiniteSetTheorems, TLAPS

(* A unit that is where it should be: not before what it reads is ready,   *)
(* and not after its head drains.                                          *)
UnitOk(u) ==
    /\ Ready(u) <= unitStratum[SlotOf(u)]
    /\ u.family # "toJoin" => unitStratum[u] <= drain[u.head]

LiftTyped ==
    /\ prog \in Programs
    /\ scc = SccMap(prog)
    /\ unitStratum \in [Units(prog) -> Nat]
    /\ drain \in [prog.phase -> Nat]
    /\ DOMAIN round = {scc[t] : t \in Table} \ {NoScc}
    /\ left \subseteq Units(prog)
    /\ changed \in BOOLEAN

(* In a pass that has changed nothing the units it has lifted are right;   *)
(* one that ends so found all of them right.                               *)
PassOk ==
    /\ flowStage = "lift" /\ ~changed => \A u \in Units(prog) \ left : UnitOk(u)
    /\ flowStage = "stamp" => Pinned = drain /\ \A u \in Units(prog) : UnitOk(u)

Inv == LiftTyped /\ PassOk /\ StrataExact

-----------------------------------------------------------------------------
(* A set of numbers that has 0, and with a number the next one, has all.   *)
LEMMA Induct ==
    ASSUME NEW N \in Nat, NEW G, 0 \in G, \A n \in 0..(N - 1) : n \in G => n + 1 \in G
    PROVE  \A n \in 0..N : n \in G
<1> DEFINE Bad == {n \in 0..N : n \notin G}
<1>1. ASSUME Bad # {} PROVE FALSE
  <2>1. Bad \subseteq Nat
    OBVIOUS
  <2> HIDE DEF Bad
  <2>2. PICK m \in Bad : \A j \in Bad : ~(<<j, m>> \in OpToRel(<, Nat))
    BY <1>1, <2>1, NatLessThanWellFounded, WFMin
  <2>3. \A j \in Bad : ~(j < m)
    BY <2>1, <2>2 DEF OpToRel
  <2>4. m \in 0..N /\ m \notin G /\ m # 0
    BY DEF Bad
  <2>5. m - 1 \in 0..(N - 1) /\ m - 1 < m /\ m - 1 + 1 = m
    BY <2>4
  <2>6. m - 1 \notin Bad
    BY <2>3, <2>5
  <2>7. m - 1 \in G
    BY <2>5, <2>6 DEF Bad
  <2> QED
    BY <2>4, <2>5, <2>7
<1> QED
  BY <1>1

(* A finite set of numbers that is not empty has a largest.                *)
LEMMA MaxFacts ==
    ASSUME NEW S \in SUBSET Int, IsFiniteSet(S), S # {}
    PROVE  Max(S) \in S /\ \A y \in S : y <= Max(S)
<1> DEFINE Has(T) == \E x \in T : \A y \in T : x >= y
           G == {n \in Nat : \A T \in SUBSET S : Cardinality(T) = n /\ T # {} => Has(T)}
<1>1. \A T \in SUBSET S : IsFiniteSet(T) /\ Cardinality(T) \in Nat
  BY FS_Subset, FS_CardinalityType
<1>2. 0 \in G
  BY <1>1, FS_EmptySet
<1>3. ASSUME NEW n \in 0..(Cardinality(S) - 1), n \in G
      PROVE  n + 1 \in G
  <2>1. SUFFICES ASSUME NEW T \in SUBSET S, Cardinality(T) = n + 1, T # {}
                 PROVE  Has(T)
    OBVIOUS
  <2>2. PICK z \in T : TRUE
    BY <2>1
  <2>3. Cardinality(T \ {z}) = n /\ T \ {z} \in SUBSET S
    <3>1. IsFiniteSet(T) /\ Cardinality(T) = n + 1 /\ n \in Int
      BY <1>1, <2>1
    <3>2. Cardinality(T \ {z}) = Cardinality(T) - 1
      BY <2>2, <3>1, FS_RemoveElement
    <3> QED
      BY <3>1, <3>2
  <2>4. CASE T \ {z} = {}
    <3>1. \A y \in T : y = z
      BY <2>4
    <3> QED
      BY <2>2, <3>1
  <2>5. CASE T \ {z} # {}
    <3>1. Has(T \ {z})
      BY <1>3, <2>3, <2>5
    <3>2. PICK x \in T \ {z} : \A y \in T \ {z} : x >= y
      BY <3>1
    <3>3. x \in Int /\ z \in Int /\ \A y \in T : y \in Int
      BY <2>1, <2>2
    <3>4. CASE x >= z
      <4>1. \A y \in T : x >= y
        BY <3>2, <3>4
      <4> QED
        BY <4>1
    <3>5. CASE z > x
      <4>1. \A y \in T : z >= y
        BY <3>2, <3>3, <3>5
      <4> QED
        BY <2>2, <4>1
    <3> QED
      BY <3>3, <3>4, <3>5
  <2> QED
    BY <2>4, <2>5
<1>4. Cardinality(S) \in G
  <2> HIDE DEF G
  <2> QED
    BY <1>1, <1>2, <1>3, Induct
<1>5. Has(S)
  BY <1>4
<1> HIDE DEF Has
<1>6. Max(S) \in S /\ \A y \in S : Max(S) >= y
  BY <1>5 DEF Max, Has
<1> QED
  BY <1>6

-----------------------------------------------------------------------------
(* What a legal program is, by parts.                                      *)
LEMMA LegalFacts ==
    ASSUME DRStrataParameters, prog \in Programs
    PROVE  /\ IsFiniteSet(Table)
           /\ prog.phase \subseteq Table
           /\ prog.reads \in [Table -> SUBSET Table]
           /\ prog.negated \in [Table -> SUBSET Table]
           /\ prog.view \in [Table -> Nat] /\ prog.owner \in [Table -> Nat]
           /\ prog.within \in [Table -> SUBSET Table]
           /\ prog.anchors \subseteq {t \in prog.phase : Cyclic(prog, t, t)}
           /\ \A t \in Table :
                 /\ prog.reads[t] \subseteq prog.within[t]
                 /\ \A w \in prog.within[t] : prog.within[w] \subseteq prog.within[t]
                 /\ prog.negated[t] \subseteq prog.reads[t]
                 /\ \A w \in Table : prog.view[w] = prog.view[t] <=> w = t \/ Cyclic(prog, t, w)
                 /\ \A w \in prog.reads[t] : prog.view[w] <= prog.view[t]
                 /\ \A w \in prog.negated[t] : ~Cyclic(prog, t, w)
                 /\ prog.kind[t] \in {"product", "aggregate"} => ~Cyclic(prog, t, t)
                 /\ prog.view[t] <= prog.owner[t]
                 /\ t \notin prog.phase => prog.reads[t] \cap prog.phase = {}
                 /\ t \in prog.phase /\ Cyclic(prog, t, t) =>
                       \E a \in prog.anchors : Cyclic(prog, a, t)
<1>1. LegalProgram(prog) /\ IsFiniteSet(Table)
  BY DEF DRStrataParameters
<1>2. ASSUME NEW t \in Table
      PROVE  prog.negated[t] \subseteq prog.reads[t]
  BY <1>1 DEF LegalProgram
<1> QED
  BY <1>1, <1>2 DEF LegalProgram, Within, Cyclic

(* Tables on a common cycle form classes.                                  *)
LEMMA CyclicFacts ==
    ASSUME DRStrataParameters, prog \in Programs
    PROVE  /\ \A t, w \in Table : Cyclic(prog, t, w) => Cyclic(prog, w, t)
           /\ \A t, w, u \in Table :
                 Cyclic(prog, t, w) /\ Cyclic(prog, w, u) => Cyclic(prog, t, u)
<1>1. \A t \in Table : \A w \in prog.within[t] : prog.within[w] \subseteq prog.within[t]
  BY LegalFacts
<1> QED
  BY <1>1 DEF Cyclic

(* The recursive SCC of a table is the set of anchors on a cycle with it.  *)
LEMMA SccIs ==
    ASSUME DRStrataParameters, prog \in Programs, NEW t \in Table
    PROVE  SccMap(prog)[t] = {b \in prog.anchors : Cyclic(prog, b, t)}
<1> DEFINE Anchored(a) == OnCycleThrough(prog, AnchorsOf(prog, a), t)
<1>1. \A a \in prog.anchors : a \in Table /\ Cyclic(prog, a, a)
  BY LegalFacts
<1>2. ASSUME NEW a \in prog.anchors
      PROVE  Anchored(a) <=> Cyclic(prog, a, t)
  <2>1. ASSUME Anchored(a) PROVE Cyclic(prog, a, t)
    <3>1. PICK x \in AnchorsOf(prog, a) : x \in prog.within[t]
      BY <2>1 DEF OnCycleThrough
    <3>2. PICK y \in AnchorsOf(prog, a) : t \in prog.within[y]
      BY <2>1 DEF OnCycleThrough
    <3>3. x \in Table /\ y \in Table /\ a \in prog.within[x] /\ y \in prog.within[a]
      BY <1>1 DEF AnchorsOf, Cyclic
    <3>4. a \in prog.within[t]
      BY <3>1, <3>3, LegalFacts
    <3>5. t \in prog.within[a]
      BY <1>1, <3>2, <3>3, LegalFacts
    <3> QED
      BY <3>4, <3>5 DEF Cyclic
  <2>2. ASSUME Cyclic(prog, a, t) PROVE Anchored(a)
    <3>1. a \in AnchorsOf(prog, a)
      BY <1>1 DEF AnchorsOf
    <3> QED
      BY <2>2, <3>1 DEF OnCycleThrough, Cyclic
  <2> QED
    BY <2>1, <2>2
<1>3. ASSUME NEW a \in prog.anchors, Cyclic(prog, a, t)
      PROVE  AnchorsOf(prog, a) = {b \in prog.anchors : Cyclic(prog, b, t)}
  <2>1. ASSUME NEW b \in prog.anchors
        PROVE  Cyclic(prog, a, b) <=> Cyclic(prog, b, t)
    <3>1. a \in Table /\ b \in Table
      BY <1>1
    <3> QED
      BY <1>3, <3>1, CyclicFacts
  <2> QED
    BY <2>1 DEF AnchorsOf
<1>4. SccMap(prog)[t] = IF \E a \in prog.anchors : Anchored(a)
                        THEN AnchorsOf(prog, CHOOSE a \in prog.anchors : Anchored(a))
                        ELSE {}
  BY DEF SccMap, NoScc
<1> HIDE DEF Anchored
<1>5. CASE \E a \in prog.anchors : Anchored(a)
  <2> DEFINE c == CHOOSE a \in prog.anchors : Anchored(a)
  <2>1. c \in prog.anchors /\ Anchored(c)
    BY <1>5
  <2> HIDE DEF c
  <2>2. AnchorsOf(prog, c) = {b \in prog.anchors : Cyclic(prog, b, t)}
    BY <1>2, <1>3, <2>1
  <2> QED
    BY <1>4, <1>5, <2>2 DEF c
<1>6. CASE ~\E a \in prog.anchors : Anchored(a)
  <2>1. {b \in prog.anchors : Cyclic(prog, b, t)} = {}
    BY <1>2, <1>6
  <2> QED
    BY <1>4, <1>6, <2>1
<1> QED
  BY <1>5, <1>6

(* Phase-owned tables are in one SCC exactly if they are on a cycle.       *)
LEMMA SccFacts ==
    ASSUME DRStrataParameters, prog \in Programs, scc = SccMap(prog)
    PROVE  /\ \A t, w \in Table : SameScc(t, w) => Cyclic(prog, t, w)
           /\ \A t, w \in Table : t \in prog.phase /\ Cyclic(prog, t, w) => SameScc(t, w)
           /\ \A t, w \in Table : scc[t] # NoScc /\ scc[w] = scc[t] => prog.view[w] = prog.view[t]
<1>1. \A t \in Table : scc[t] = {b \in prog.anchors : Cyclic(prog, b, t)}
  BY SccIs
<1>2. prog.anchors \subseteq Table
  BY LegalFacts
<1>3. ASSUME NEW t \in Table, NEW w \in Table, scc[t] # NoScc, scc[w] = scc[t]
      PROVE  Cyclic(prog, t, w)
  <2>1. PICK b \in Table : Cyclic(prog, b, t) /\ Cyclic(prog, b, w)
    BY <1>1, <1>2, <1>3 DEF NoScc
  <2> QED
    BY <2>1, CyclicFacts
<1>4. ASSUME NEW t \in Table, NEW w \in Table, t \in prog.phase, Cyclic(prog, t, w)
      PROVE  SameScc(t, w)
  <2>1. Cyclic(prog, t, t)
    BY <1>4, CyclicFacts
  <2>2. PICK a \in prog.anchors : Cyclic(prog, a, t)
    BY <1>4, <2>1, LegalFacts
  <2>3. ASSUME NEW b \in prog.anchors
        PROVE  Cyclic(prog, b, t) <=> Cyclic(prog, b, w)
    <3>1. b \in Table
      BY <1>2
    <3> QED
      BY <1>4, <3>1, CyclicFacts
  <2>4. scc[t] = scc[w] /\ scc[t] # NoScc
    BY <1>1, <2>2, <2>3 DEF NoScc
  <2> QED
    BY <2>4 DEF SameScc
<1>5. \A t, w \in Table : scc[t] # NoScc /\ scc[w] = scc[t] => prog.view[w] = prog.view[t]
  BY <1>3, LegalFacts
<1> QED
  BY <1>3, <1>4, <1>5 DEF SameScc

-----------------------------------------------------------------------------
(* The reference has the values its equation says: the level of a          *)
(* component is a number that no owner of its tables exceeds, and greater  *)
(* than the levels of the components it reads.                             *)
Highest == Max({prog.view[t] : t \in Table})
LevelRule(f, s) == Max({0} \cup {prog.owner[t] : t \in Here(s)}
                           \cup {f[prog.view[w]] + 1 : w \in Below(s)})

LEMMA NumbersFinite ==
    ASSUME NEW S, IsFiniteSet(S), NEW f
    PROVE  IsFiniteSet({f[x] : x \in S})
<1> DEFINE T == {f[x] : x \in S}
           g == [x \in S |-> f[x]]
<1>1. g \in Surjection(S, T)
  BY DEF Surjection
<1> HIDE DEF T, g
<1>2. IsFiniteSet(T)
  BY <1>1, FS_Surjection
<1> QED
  BY <1>2 DEF T

LEMMA ViewFacts ==
    ASSUME DRStrataParameters, prog \in Programs, Table # {}
    PROVE  /\ Highest \in Nat
           /\ \A t \in Table : prog.view[t] \in 0..Highest
           /\ \A s : Here(s) \subseteq Table /\ Below(s) \subseteq Table
           /\ \A s : \A w \in Below(s) : prog.view[w] < s
<1> DEFINE V == {prog.view[t] : t \in Table}
<1>1. IsFiniteSet(V)
  BY LegalFacts, NumbersFinite
<1>2. V \subseteq Nat /\ V # {}
  BY LegalFacts
<1> HIDE DEF V
<1>3. Max(V) \in V /\ \A y \in V : y <= Max(V)
  BY <1>1, <1>2, MaxFacts
<1>4. \A t \in Table : prog.view[t] \in V
  BY DEF V
<1>5. Highest = Max(V)
  BY DEF Highest, V
<1>6. prog.phase \subseteq Table
  BY LegalFacts
<1>7. Highest \in Nat /\ \A t \in Table : prog.view[t] \in 0..Highest
  <2>1. Max(V) \in Nat /\ \A t \in Table : prog.view[t] \in Nat /\ prog.view[t] <= Max(V)
    BY <1>2, <1>3, <1>4
  <2> QED
    BY <1>5, <2>1
<1>8. \A s : Here(s) \subseteq Table /\ Below(s) \subseteq Table
  BY <1>6 DEF Here, Below
<1>9. \A s : \A w \in Below(s) : prog.view[w] < s
  BY DEF Below
<1> QED
  BY <1>7, <1>8, <1>9

(* Two functions that agree on the components below agree on a rule.       *)
LEMMA RuleAgrees ==
    ASSUME DRStrataParameters, prog \in Programs, Table # {},
           NEW s \in Nat, NEW f, NEW g,
           \A w \in Below(s) : f[prog.view[w]] = g[prog.view[w]]
    PROVE  LevelRule(f, s) = LevelRule(g, s)
<1>1. {f[prog.view[w]] + 1 : w \in Below(s)} = {g[prog.view[w]] + 1 : w \in Below(s)}
  OBVIOUS
<1> QED
  BY <1>1 DEF LevelRule

LEMMA LevelExists ==
    ASSUME DRStrataParameters, prog \in Programs, Table # {}
    PROVE  \E f : f = [s \in 0..Highest |-> LevelRule(f, s)]
<1> DEFINE H == Highest
           Upto(f, n) == f = [s \in 0..n |-> LevelRule(f, s)]
           G == {n \in Nat : \E f : Upto(f, n)}
<1>0. /\ H \in Nat
      /\ \A s : \A w \in Below(s) : prog.view[w] \in Nat /\ prog.view[w] < s
  <2>1. \A s : \A w \in Below(s) : w \in Table /\ prog.view[w] < s
    BY ViewFacts
  <2> QED
    BY <2>1, ViewFacts, LegalFacts
<1> HIDE DEF H
<1>1. 0 \in G
  <2> DEFINE f == [s \in 0..0 |-> LevelRule([x \in {} |-> 0], s)]
  <2>1. \A s \in 0..0 : \A w \in Below(s) : FALSE
    BY <1>0
  <2>2. \A s \in 0..0 : LevelRule([x \in {} |-> 0], s) = LevelRule(f, s)
    <3> TAKE s \in 0..0
    <3> DEFINE e == [x \in {} |-> 0]
    <3> HIDE DEF f, e
    <3>1. LevelRule(e, s) = LevelRule(f, s)
      BY <2>1, RuleAgrees
    <3> QED
      BY <3>1 DEF e
  <2>3. f = [s \in 0..0 |-> LevelRule(f, s)]
    BY <2>2
  <2> QED
    BY <2>3
<1>2. ASSUME NEW n \in 0..(H - 1), n \in G
      PROVE  n + 1 \in G
  <2>1. PICK f : Upto(f, n)
    BY <1>2
  <2> DEFINE g == [s \in 0..(n + 1) |-> IF s = n + 1 THEN LevelRule(f, s) ELSE f[s]]
  <2>2. n \in Nat
    BY <1>0
  <2>3. \A s \in 0..(n + 1) : \A w \in Below(s) : f[prog.view[w]] = g[prog.view[w]]
    BY <1>0, <2>2
  <2>4. \A s \in 0..(n + 1) : LevelRule(f, s) = LevelRule(g, s)
    <3> HIDE DEF g
    <3> QED
      BY <2>2, <2>3, RuleAgrees
  <2>5. \A s \in 0..(n + 1) : g[s] = LevelRule(f, s)
    <3>1. \A s \in 0..n : f[s] = LevelRule(f, s)
      BY <2>1
    <3>2. \A s \in 0..(n + 1) : s = n + 1 \/ s \in 0..n
      BY <2>2
    <3> QED
      BY <3>1, <3>2
  <2>6. g = [s \in 0..(n + 1) |-> g[s]]
    OBVIOUS
  <2>7. Upto(g, n + 1)
    <3> HIDE DEF g
    <3> QED
      BY <2>4, <2>5, <2>6
  <2>8. n + 1 \in Nat /\ \E h : Upto(h, n + 1)
    <3> HIDE DEF g, Upto
    <3> QED
      BY <2>2, <2>7
  <2> HIDE DEF Upto
  <2> QED
    BY <2>8
<1>3. H \in G
  <2> HIDE DEF G
  <2> QED
    BY <1>0, <1>1, <1>2, Induct
<1> QED
  BY <1>3 DEF H

LEMMA LevelIs ==
    ASSUME DRStrataParameters, prog \in Programs, Table # {}
    PROVE  \A s \in 0..Highest : Level[s] = LevelRule(Level, s)
<1>1. Level = CHOOSE f : f = [s \in 0..Highest |-> LevelRule(f, s)]
  BY DEF Level, Highest, LevelRule
<1>2. Level = [s \in 0..Highest |-> LevelRule(Level, s)]
  <2> DEFINE Is(f) == f = [s \in 0..Highest |-> LevelRule(f, s)]
  <2>1. Level = CHOOSE f : Is(f)
    BY <1>1
  <2>2. \E f : Is(f)
    BY LevelExists
  <2> HIDE DEF Is, Level
  <2>3. Is(Level)
    BY <2>1, <2>2
  <2> QED
    BY <2>3 DEF Is
<1> QED
  BY <1>2

LEMMA LevelFacts ==
    ASSUME DRStrataParameters, prog \in Programs
    PROVE  /\ \A t \in Table : Level[prog.view[t]] \in Nat
           /\ \A t \in prog.phase : prog.owner[t] <= Level[prog.view[t]]
           /\ \A t \in prog.phase : \A w \in prog.reads[t] \cap prog.phase :
                 prog.view[w] < prog.view[t] =>
                     Level[prog.view[w]] + 1 <= Level[prog.view[t]]
<1> DEFINE Terms(s) == {0} \cup {prog.owner[t] : t \in Here(s)}
                           \cup {Level[prog.view[w]] + 1 : w \in Below(s)}
           H == Highest
           G == {n \in Nat : \A s \in 0..H : s <= n => Level[s] \in Nat}
<1>1. CASE Table = {}
  BY <1>1, LegalFacts
<1>2. CASE Table # {}
  <2>0. /\ H \in Nat
        /\ \A t \in Table : prog.view[t] \in 0..H
        /\ \A s : Here(s) \subseteq Table /\ Below(s) \subseteq Table
        /\ \A s : \A w \in Below(s) : prog.view[w] < s
    BY <1>2, ViewFacts
  <2>1. \A s \in 0..H : Level[s] = Max(Terms(s))
    BY <1>2, LevelIs DEF LevelRule
  <2>2. \A s : IsFiniteSet(Terms(s))
    <3> TAKE s
    <3> DEFINE A == {prog.owner[t] : t \in Here(s)}
               B == {Level[prog.view[w]] + 1 : w \in Below(s)}
    <3>1. IsFiniteSet(Here(s)) /\ IsFiniteSet(Below(s))
      BY <2>0, LegalFacts, FS_Subset
    <3>2. IsFiniteSet(A)
      BY <3>1, NumbersFinite
    <3>3. IsFiniteSet(B)
      <4> DEFINE after == [w \in Below(s) |-> Level[prog.view[w]] + 1]
      <4>1. IsFiniteSet({after[w] : w \in Below(s)})
        <5> HIDE DEF after
        <5> QED
          BY <3>1, NumbersFinite
      <4>2. {after[w] : w \in Below(s)} = B
        OBVIOUS
      <4> QED
        BY <4>1, <4>2
    <3> HIDE DEF A, B
    <3>4. IsFiniteSet({0} \cup A)
      BY <3>2, FS_Singleton, FS_Union
    <3>5. IsFiniteSet(({0} \cup A) \cup B)
      BY <3>3, <3>4, FS_Union
    <3> QED
      BY <3>5 DEF A, B
  <2>3. ASSUME NEW s \in 0..H, \A w \in Below(s) : Level[prog.view[w]] \in Nat
        PROVE  Level[s] \in Nat /\ \A y \in Terms(s) : y <= Level[s]
    <3>1. Terms(s) \subseteq Nat /\ Terms(s) # {}
      <4>1. {prog.owner[t] : t \in Here(s)} \subseteq Nat
        BY <2>0, LegalFacts
      <4>2. {Level[prog.view[w]] + 1 : w \in Below(s)} \subseteq Nat
        BY <2>3
      <4> QED
        BY <4>1, <4>2
    <3>2. Max(Terms(s)) \in Terms(s) /\ \A y \in Terms(s) : y <= Max(Terms(s))
      <4> HIDE DEF Terms
      <4> QED
        BY <2>2, <3>1, MaxFacts
    <3> HIDE DEF Terms
    <3> QED
      BY <2>1, <3>1, <3>2
  <2>4. 0 \in G
    <3>1. \A w \in Below(0) : FALSE
      <4>1. \A w \in Below(0) : w \in Table /\ prog.view[w] < 0
        BY <2>0
      <4> QED
        BY <2>0, <4>1
    <3>2. Level[0] \in Nat
      BY <2>0, <2>3, <3>1
    <3> QED
      BY <2>0, <3>2
  <2>5. ASSUME NEW n \in 0..(H - 1), n \in G
        PROVE  n + 1 \in G
    <3>1. \A w \in Below(n + 1) : Level[prog.view[w]] \in Nat
      <4>1. \A w \in Below(n + 1) : prog.view[w] \in 0..H /\ prog.view[w] < n + 1
        BY <2>0
      <4> QED
        BY <2>0, <2>5, <4>1
    <3>2. n + 1 \in 0..H
      BY <2>0
    <3>3. Level[n + 1] \in Nat
      BY <2>3, <3>1, <3>2
    <3>4. \A s \in 0..H : s <= n + 1 => s = n + 1 \/ s <= n
      BY <2>0
    <3> QED
      BY <2>5, <3>2, <3>3, <3>4
  <2>6. H \in G
    <3> HIDE DEF G, H
    <3> QED
      BY <2>0, <2>4, <2>5, Induct
  <2>7. \A s \in 0..H : Level[s] \in Nat
    BY <2>0, <2>6
  <2>8. \A s \in 0..H : \A y \in Terms(s) : y <= Level[s]
    <3> TAKE s \in 0..H
    <3>1. \A w \in Below(s) : Level[prog.view[w]] \in Nat
      BY <2>0, <2>7
    <3> HIDE DEF Terms
    <3> QED
      BY <2>3, <3>1
  <2>9. ASSUME NEW t \in prog.phase
        PROVE  /\ prog.owner[t] <= Level[prog.view[t]]
               /\ \A w \in prog.reads[t] \cap prog.phase :
                     prog.view[w] < prog.view[t] => Level[prog.view[w]] + 1 <= Level[prog.view[t]]
    <3>1. t \in Here(prog.view[t]) /\ prog.view[t] \in 0..H
      BY <2>0, LegalFacts DEF Here
    <3>2. prog.owner[t] \in Terms(prog.view[t])
      BY <3>1
    <3>3. ASSUME NEW w \in prog.reads[t] \cap prog.phase, prog.view[w] < prog.view[t]
          PROVE  Level[prog.view[w]] + 1 \in Terms(prog.view[t])
      <4>1. w \in Below(prog.view[t])
        BY <3>1, <3>3 DEF Below
      <4> QED
        BY <4>1
    <3> HIDE DEF Terms, H
    <3> QED
      BY <2>8, <3>1, <3>2, <3>3
  <2> QED
    BY <2>0, <2>7, <2>9
<1> QED
  BY <1>1, <1>2

-----------------------------------------------------------------------------
(* Units read what their head reads, and keep their stratum with a unit of *)
(* the same head.                                                          *)
Family == {"branch", "toJoin", "join", "crossover", "product", "groupUpdate"}

LEMMA UnitFields ==
    ASSUME NEW family, NEW head, NEW from
    PROVE  /\ Unit(family, head, from).family = family
           /\ Unit(family, head, from).head = head
           /\ Unit(family, head, from).from = from
  BY DEF Unit

LEMMA UnitFacts ==
    ASSUME DRStrataParameters, prog \in Programs, NEW u \in Units(prog)
    PROVE  /\ u.family \in Family /\ u.head \in prog.phase
           /\ u.from \subseteq prog.reads[u.head]
           /\ Strict(u) => prog.kind[u.head] \in {"product", "aggregate"}
           /\ u.family \notin {"branch", "toJoin"} => u.from = prog.reads[u.head]
           /\ u.family = "toJoin" =>
                 Unit("join", u.head, prog.reads[u.head]) \in Joins(prog)
<1>1. ASSUME u \in Branches(prog)
      PROVE  /\ u.family \in {"branch", "toJoin"} /\ u.head \in prog.phase
             /\ u.from \subseteq prog.reads[u.head]
             /\ u.family = "toJoin" =>
                   Unit("join", u.head, prog.reads[u.head]) \in Joins(prog)
  <2>1. CASE \E t \in FilledBy(prog, {"merge", "negate", "never"}) :
                 \E w \in prog.reads[t] \ prog.negated[t] : u = Unit("branch", t, {w})
    <3>1. PICK t \in FilledBy(prog, {"merge", "negate", "never"}) :
                 \E w \in prog.reads[t] \ prog.negated[t] : u = Unit("branch", t, {w})
      BY <2>1
    <3>2. PICK w \in prog.reads[t] \ prog.negated[t] : u = Unit("branch", t, {w})
      BY <3>1
    <3> QED
      BY <3>2, UnitFields DEF FilledBy
  <2>2. CASE \E t \in FilledBy(prog, {"join"}) :
                 \E w \in prog.reads[t] : u = Unit("toJoin", t, {w})
    <3>1. PICK t \in FilledBy(prog, {"join"}) :
                 \E w \in prog.reads[t] : u = Unit("toJoin", t, {w})
      BY <2>2
    <3>2. PICK w \in prog.reads[t] : u = Unit("toJoin", t, {w})
      BY <3>1
    <3>3. Unit("join", t, prog.reads[t]) \in Joins(prog)
      BY DEF Joins
    <3> QED
      BY <3>2, <3>3, UnitFields DEF FilledBy
  <2> QED
    BY <1>1, <2>1, <2>2 DEF Branches
<1>2. ASSUME NEW family \in {"join", "crossover", "product", "groupUpdate"}, NEW kind,
             u \in {Unit(family, t, prog.reads[t]) : t \in FilledBy(prog, {kind})}
      PROVE  /\ u.family = family /\ u.head \in prog.phase
             /\ u.from = prog.reads[u.head]
             /\ prog.kind[u.head] = kind
  <2>1. PICK t \in FilledBy(prog, {kind}) : u = Unit(family, t, prog.reads[t])
    BY <1>2
  <2> QED
    BY <2>1, UnitFields DEF FilledBy
<1>3. CASE u \in Branches(prog)
  BY <1>1, <1>3 DEF Strict, Family
<1>4. CASE u \in Joins(prog)
  <2>1. u.family = "join" /\ u.head \in prog.phase /\ u.from = prog.reads[u.head]
    BY <1>2, <1>4 DEF Joins
  <2> QED
    BY <2>1 DEF Strict, Family
<1>5. CASE u \in Crossovers(prog)
  <2>1. u.family = "crossover" /\ u.head \in prog.phase /\ u.from = prog.reads[u.head]
    BY <1>2, <1>5 DEF Crossovers
  <2> QED
    BY <2>1 DEF Strict, Family
<1>6. CASE u \in Products(prog)
  <2>1. /\ u.family = "product" /\ u.head \in prog.phase /\ u.from = prog.reads[u.head]
        /\ prog.kind[u.head] = "product"
    BY <1>2, <1>6 DEF Products
  <2> QED
    BY <2>1 DEF Family
<1>7. CASE u \in GroupUpdates(prog)
  <2>1. /\ u.family = "groupUpdate" /\ u.head \in prog.phase
        /\ u.from = prog.reads[u.head] /\ prog.kind[u.head] = "aggregate"
    BY <1>2, <1>7 DEF GroupUpdates
  <2> QED
    BY <2>1 DEF Family
<1> QED
  BY <1>3, <1>4, <1>5, <1>6, <1>7 DEF Units

LEMMA ReadsOfFacts ==
    ASSUME DRStrataParameters, prog \in Programs, NEW u \in Units(prog)
    PROVE  ReadsOf(u) \subseteq prog.reads[u.head] /\ ReadsOf(u) \subseteq Table
<1>1. u.head \in Table
  BY UnitFacts, LegalFacts
<1>2. u.from \subseteq prog.reads[u.head]
  BY UnitFacts
<1>3. prog.negated[u.head] \subseteq prog.reads[u.head] /\ prog.reads[u.head] \subseteq Table
  BY <1>1, LegalFacts
<1> QED
  BY <1>2, <1>3 DEF ReadsOf

LEMMA SlotFacts ==
    ASSUME DRStrataParameters, prog \in Programs, DOMAIN unitStratum = Units(prog),
           NEW u \in Units(prog)
    PROVE  /\ SlotOf(u) \in Units(prog) /\ SlotOf(u).head = u.head
           /\ SlotOf(u).family # "toJoin"
           /\ u.family # "toJoin" => SlotOf(u) = u
<1>1. CASE u.family # "toJoin"
  BY <1>1 DEF SlotOf
<1>2. CASE u.family = "toJoin"
  <2> DEFINE Is(j) == j.family = "join" /\ j.head = u.head
             j0 == Unit("join", u.head, prog.reads[u.head])
             found == CHOOSE j \in DOMAIN unitStratum : Is(j)
  <2>1. j0 \in DOMAIN unitStratum
    BY <1>2, UnitFacts DEF Units
  <2>2. Is(j0)
    BY UnitFields
  <2>3. SlotOf(u) = found
    BY <1>2 DEF SlotOf
  <2> HIDE DEF j0
  <2>4. found \in DOMAIN unitStratum /\ Is(found)
    <3> HIDE DEF Is
    <3> QED
      BY <2>1, <2>2
  <2> QED
    BY <1>2, <2>3, <2>4
<1> QED
  BY <1>1, <1>2

(* A head reads tables of its own SCC, and of components before its own.   *)
LEMMA BelowFacts ==
    ASSUME DRStrataParameters, prog \in Programs, scc = SccMap(prog),
           NEW t \in prog.phase, NEW w \in prog.reads[t]
    PROVE  /\ prog.view[w] < prog.view[t] \/ SameScc(t, w)
           /\ prog.kind[t] \in {"product", "aggregate"} => prog.view[w] < prog.view[t]
<1>1. t \in Table /\ w \in Table /\ prog.view[t] \in Nat /\ prog.view[w] \in Nat
  BY LegalFacts
<1>2. prog.view[w] <= prog.view[t] /\ w \in prog.within[t]
  BY <1>1, LegalFacts
<1>3. ASSUME ~(prog.view[w] < prog.view[t])
      PROVE  Cyclic(prog, t, w)
  <2>1. prog.view[w] = prog.view[t]
    BY <1>1, <1>2, <1>3
  <2>2. \A v \in Table : prog.view[v] = prog.view[t] <=> v = t \/ Cyclic(prog, t, v)
    BY <1>1, LegalFacts
  <2>3. w = t \/ Cyclic(prog, t, w)
    BY <1>1, <2>1, <2>2
  <2> QED
    BY <1>2, <2>3 DEF Cyclic
<1>4. Cyclic(prog, t, w) => SameScc(t, w)
  BY <1>1, SccFacts
<1>5. Cyclic(prog, t, w) => Cyclic(prog, t, t)
  BY <1>1, CyclicFacts
<1>6. prog.kind[t] \in {"product", "aggregate"} => ~Cyclic(prog, t, t)
  BY <1>1, LegalFacts
<1> QED
  BY <1>3, <1>4, <1>5, <1>6

-----------------------------------------------------------------------------
(* The readiness of a unit.                                                *)
ReadyFor(u, t) == IF Strict(u) THEN ReadyAfter(t) ELSE ReadyAcross(u.head, t)

LEMMA MaxThree ==
    ASSUME NEW a \in Nat, NEW b \in Nat, NEW c \in Nat
    PROVE  Max({a, b, c}) \in {a, b, c} /\ Max({a, b, c}) \in Nat
           /\ a <= Max({a, b, c}) /\ b <= Max({a, b, c}) /\ c <= Max({a, b, c})
<1> DEFINE S == {a, b, c}
<1>1. IsFiniteSet({a, b}) /\ IsFiniteSet({c})
  <2>1. IsFiniteSet({a}) /\ IsFiniteSet({b}) /\ IsFiniteSet({c})
    BY FS_Singleton
  <2>2. {a, b} = {a} \cup {b}
    OBVIOUS
  <2>3. IsFiniteSet({a} \cup {b})
    BY <2>1, FS_AddElement
  <2> QED
    BY <2>1, <2>2, <2>3
<1>2. IsFiniteSet(S)
  <2>1. S = {a, b} \cup {c}
    OBVIOUS
  <2>2. IsFiniteSet({a, b} \cup {c})
    BY <1>1, FS_AddElement
  <2> QED
    BY <2>1, <2>2
<1>3. S \in SUBSET Int /\ S # {} /\ S \subseteq Nat /\ a \in S /\ b \in S /\ c \in S
  OBVIOUS
<1> HIDE DEF S
<1>4. Max(S) \in S /\ \A y \in S : y <= Max(S)
  BY <1>2, <1>3, MaxFacts
<1>5. Max(S) \in Nat /\ a <= Max(S) /\ b <= Max(S) /\ c <= Max(S)
  BY <1>3, <1>4
<1> QED
  BY <1>4, <1>5 DEF S

LEMMA ReadyForFacts ==
    ASSUME prog \in Programs, drain \in [prog.phase -> Nat], NEW u, NEW t
    PROVE  ReadyFor(u, t) \in Nat
<1>1. ReadyAfter(t) \in Nat
  BY DEF ReadyAfter
<1> QED
  BY <1>1 DEF ReadyFor, ReadyAcross

LEMMA ReadyFacts ==
    ASSUME DRStrataParameters, prog \in Programs, drain \in [prog.phase -> Nat],
           NEW u \in Units(prog)
    PROVE  /\ Ready(u) \in Nat
           /\ \A t \in ReadsOf(u) : ReadyFor(u, t) <= Ready(u)
           /\ Ready(u) = 0 \/ \E t \in ReadsOf(u) : Ready(u) = ReadyFor(u, t)
<1> DEFINE f == [t \in ReadsOf(u) |-> ReadyFor(u, t)]
           S == {f[t] : t \in ReadsOf(u)}
           Z == {0} \cup S
<1>1. IsFiniteSet(ReadsOf(u))
  BY ReadsOfFacts, LegalFacts, FS_Subset
<1>2. IsFiniteSet(S)
  <2> HIDE DEF f
  <2> QED
    BY <1>1, NumbersFinite
<1>3. IsFiniteSet(Z)
  BY <1>2, FS_Singleton, FS_Union
<1>4. S \subseteq Nat
  BY ReadyForFacts
<1>5. Ready(u) = Max(Z)
  <2>1. {0} \cup {IF Strict(u) THEN ReadyAfter(t) ELSE ReadyAcross(u.head, t) : t \in ReadsOf(u)} = Z
    BY DEF ReadyFor
  <2> QED
    BY <2>1 DEF Ready
<1>6. Z \in SUBSET Int /\ Z # {} /\ Z \subseteq Nat
  BY <1>4
<1>7. Max(Z) \in Z /\ \A y \in Z : y <= Max(Z)
  <2> HIDE DEF Z
  <2> QED
    BY <1>3, <1>6, MaxFacts
<1>8. \A t \in ReadsOf(u) : ReadyFor(u, t) \in Z
  OBVIOUS
<1>9. \A y \in Z : y = 0 \/ \E t \in ReadsOf(u) : y = ReadyFor(u, t)
  OBVIOUS
<1> HIDE DEF Z
<1> QED
  BY <1>5, <1>6, <1>7, <1>8, <1>9

(* While no drain is past the reference, nothing is ready past it.         *)
LEMMA ReadyBounded ==
    ASSUME DRStrataParameters, prog \in Programs, scc = SccMap(prog),
           drain \in [prog.phase -> Nat],
           \A t \in prog.phase : drain[t] <= Level[prog.view[t]],
           NEW u \in Units(prog)
    PROVE  Ready(u) <= Level[prog.view[u.head]]
<1>1. u.head \in prog.phase /\ u.head \in Table
  BY UnitFacts, LegalFacts
<1>2. Level[prog.view[u.head]] \in Nat
  BY <1>1, LevelFacts
<1>3. ASSUME NEW t \in ReadsOf(u)
      PROVE  ReadyFor(u, t) <= Level[prog.view[u.head]]
  <2>1. t \in prog.reads[u.head] /\ t \in Table
    BY ReadsOfFacts
  <2>2. CASE t \notin prog.phase
    <3>1. ReadyFor(u, t) = 0
      BY <2>2 DEF ReadyFor, ReadyAfter, ReadyAcross
    <3> QED
      BY <1>2, <3>1
  <2>3. CASE t \in prog.phase /\ prog.view[t] < prog.view[u.head]
    <3>1. Level[prog.view[t]] + 1 <= Level[prog.view[u.head]]
      BY <1>1, <2>1, <2>3, LevelFacts
    <3>2. ReadyFor(u, t) = 0 \/ ReadyFor(u, t) = drain[t] + 1
      BY <2>3 DEF ReadyFor, ReadyAfter, ReadyAcross
    <3>3. drain[t] \in Nat /\ drain[t] <= Level[prog.view[t]] /\ Level[prog.view[t]] \in Nat
      BY <2>1, <2>3, LevelFacts
    <3> QED
      BY <1>2, <3>1, <3>2, <3>3
  <2>4. CASE ~(prog.view[t] < prog.view[u.head])
    <3>1. SameScc(u.head, t) /\ prog.kind[u.head] \notin {"product", "aggregate"}
      BY <1>1, <2>1, <2>4, BelowFacts
    <3>2. ~Strict(u)
      BY <3>1, UnitFacts
    <3>3. ReadyFor(u, t) = 0
      BY <3>1, <3>2 DEF ReadyFor, ReadyAcross
    <3> QED
      BY <1>2, <3>3
  <2> QED
    BY <2>2, <2>3, <2>4
<1> QED
  BY <1>2, <1>3, ReadyFacts

-----------------------------------------------------------------------------
(* What depends on the program, the SCCs and the drains alone.             *)
LEMMA SameLevel ==
    ASSUME prog' = prog
    PROVE  Level' = Level
<1>1. \A s : Here(s)' = Here(s)
  BY DEF Here
<1>2. \A s : Below(s)' = Below(s)
  BY <1>1 DEF Below
<1>3. \A f, s : LevelRule(f, s)' = LevelRule(f, s)
  BY <1>1, <1>2 DEF LevelRule
<1>4. Highest' = Highest
  BY DEF Highest
<1>5. Level = CHOOSE f : f = [s \in 0..Highest |-> LevelRule(f, s)]
  BY DEF Level, Highest, LevelRule
<1>6. Level' = CHOOSE f : f = [s \in 0..Highest' |-> LevelRule(f, s)']
  BY DEF Level, Highest, LevelRule
<1> QED
  BY <1>3, <1>4, <1>5, <1>6

LEMMA SameReady ==
    ASSUME prog' = prog, scc' = scc, drain' = drain
    PROVE  /\ \A u : Ready(u)' = Ready(u)
           /\ \A u : ReadsOf(u)' = ReadsOf(u)
           /\ \A t, w : SameScc(t, w)' = SameScc(t, w)
           /\ Pinned' = Pinned
           /\ \A g : GroupDrain(g)' = GroupDrain(g)
<1>1. \A t, w : SameScc(t, w)' = SameScc(t, w)
  BY DEF SameScc
<1>2. \A t : ReadyAfter(t)' = ReadyAfter(t)
  BY DEF ReadyAfter
<1>3. \A t, w : ReadyAcross(t, w)' = ReadyAcross(t, w)
  BY <1>1, <1>2 DEF ReadyAcross
<1>4. \A u : ReadsOf(u)' = ReadsOf(u)
  BY DEF ReadsOf
<1>5. \A u : Ready(u)' = Ready(u)
  BY <1>2, <1>3, <1>4 DEF Ready, Strict
<1>6. \A g : GroupDrain(g)' = GroupDrain(g)
  BY DEF GroupDrain
<1>7. Pinned' = Pinned
  BY <1>6 DEF Pinned
<1> QED
  BY <1>1, <1>4, <1>5, <1>6, <1>7

LEMMA SameSlot ==
    ASSUME DOMAIN unitStratum' = DOMAIN unitStratum
    PROVE  \A u : SlotOf(u)' = SlotOf(u)
  BY DEF SlotOf

(* An SCC drains at the stratum of one of its members, and no member of it *)
(* drains later.                                                           *)
LEMMA GroupFacts ==
    ASSUME DRStrataParameters, prog \in Programs, drain \in [prog.phase -> Nat],
           NEW t \in prog.phase
    PROVE  /\ drain[t] <= GroupDrain(scc[t])
           /\ \E w \in prog.phase : scc[w] = scc[t] /\ GroupDrain(scc[t]) = drain[w]
<1> DEFINE M == {w \in prog.phase : scc[w] = scc[t]}
           S == {drain[w] : w \in M}
<1>1. IsFiniteSet(M)
  BY LegalFacts, FS_Subset
<1>2. IsFiniteSet(S)
  <2> HIDE DEF M
  <2> QED
    BY <1>1, NumbersFinite
<1>3. S \in SUBSET Int /\ S # {} /\ drain[t] \in S
  OBVIOUS
<1>4. GroupDrain(scc[t]) = Max(S)
  BY DEF GroupDrain
<1>5. \A y \in S : \E w \in prog.phase : scc[w] = scc[t] /\ y = drain[w]
  OBVIOUS
<1> HIDE DEF S
<1>6. Max(S) \in S /\ \A y \in S : y <= Max(S)
  BY <1>2, <1>3, MaxFacts
<1> QED
  BY <1>3, <1>4, <1>5, <1>6

LEMMA PinnedFacts ==
    ASSUME DRStrataParameters, LiftTyped, NEW t \in prog.phase
    PROVE  /\ Pinned \in [prog.phase -> Nat]
           /\ \E w \in prog.phase : prog.view[w] = prog.view[t] /\ Pinned[t] = drain[w]
<1>0. /\ prog \in Programs /\ scc = SccMap(prog) /\ drain \in [prog.phase -> Nat]
      /\ prog.phase \subseteq Table
  BY LegalFacts DEF LiftTyped
<1>1. ASSUME NEW v \in prog.phase
      PROVE  \E w \in prog.phase : prog.view[w] = prog.view[v] /\ Pinned[v] = drain[w]
  <2>1. CASE scc[v] = NoScc
    <3>1. Pinned[v] = drain[v]
      BY <2>1 DEF Pinned
    <3> QED
      BY <3>1
  <2>2. CASE scc[v] # NoScc
    <3>1. Pinned[v] = GroupDrain(scc[v])
      BY <2>2 DEF Pinned
    <3>2. PICK w \in prog.phase : scc[w] = scc[v] /\ GroupDrain(scc[v]) = drain[w]
      BY <1>0, GroupFacts
    <3>3. prog.view[w] = prog.view[v]
      BY <1>0, <2>2, <3>2, SccFacts
    <3> QED
      BY <3>1, <3>2, <3>3
  <2> QED
    BY <2>1, <2>2
<1>2. Pinned = [v \in prog.phase |-> Pinned[v]]
  BY DEF Pinned
<1>3. \A v \in prog.phase : Pinned[v] \in Nat
  BY <1>0, <1>1
<1> HIDE DEF Pinned
<1>4. Pinned \in [prog.phase -> Nat]
  BY <1>2, <1>3
<1> QED
  BY <1>1, <1>4

LEMMA StartFacts ==
    ASSUME DRStrataParameters, prog \in Programs, NEW u \in Units(prog)
    PROVE  /\ StartOf(prog, u) \in Nat
           /\ StartOf(prog, u) <= Level[prog.view[u.head]]
           /\ Level[prog.view[u.head]] \in Nat
<1>1. u.head \in prog.phase /\ u.head \in Table
  BY UnitFacts, LegalFacts
<1>2. prog.view[u.head] \in Nat /\ prog.owner[u.head] \in Nat
      /\ prog.view[u.head] <= prog.owner[u.head]
  BY <1>1, LegalFacts
<1>3. Level[prog.view[u.head]] \in Nat /\ prog.owner[u.head] <= Level[prog.view[u.head]]
  BY <1>1, LevelFacts
<1>4. StartOf(prog, u) = prog.view[u.head] \/ StartOf(prog, u) = prog.owner[u.head]
  BY DEF StartOf
<1> QED
  BY <1>2, <1>3, <1>4

-----------------------------------------------------------------------------
(* Initially every unit has yet to be lifted.                              *)
LEMMA Initially ==
    ASSUME DRStrataParameters, LiftInit
    PROVE  Inv
<1>1. prog \in Programs /\ scc = SccMap(prog)
  BY DEF LiftInit
<1>2. unitStratum \in [Units(prog) -> Nat] /\ drain \in [prog.phase -> Nat]
  <2>1. \A u \in Units(prog) : StartOf(prog, u) \in Nat
    BY <1>1, StartFacts
  <2>2. \A t \in prog.phase : prog.owner[t] \in Nat
    BY <1>1, LegalFacts
  <2> QED
    BY <2>1, <2>2 DEF LiftInit
<1>3. LiftTyped
  BY <1>1, <1>2 DEF LiftInit, LiftTyped
<1>4. PassOk
  BY DEF LiftInit, PassOk
<1>5. NeverOvershoots
  <2>1. \A t \in prog.phase : drain[t] <= Level[prog.view[t]]
    <3>1. \A t \in prog.phase : prog.owner[t] <= Level[prog.view[t]]
      BY <1>1, LevelFacts
    <3> QED
      BY <3>1 DEF LiftInit
  <2>2. \A u \in Units(prog) : unitStratum[u] <= Level[prog.view[u.head]]
    <3>1. \A u \in Units(prog) : StartOf(prog, u) <= Level[prog.view[u.head]]
      BY <1>1, StartFacts
    <3> QED
      BY <3>1 DEF LiftInit
  <2> QED
    BY <1>2, <2>1, <2>2 DEF NeverOvershoots
<1>6. EstablishesWellFormed
  BY DEF LiftInit, EstablishesWellFormed
<1> QED
  BY <1>3, <1>4, <1>5, <1>6 DEF Inv, StrataExact

(* A unit is lifted to what it reads, which is not past the reference.     *)
LEMMA LiftUnitKeeps ==
    ASSUME DRStrataParameters, Inv, LiftUnit
    PROVE  Inv'
<1>0. /\ prog \in Programs /\ scc = SccMap(prog)
      /\ unitStratum \in [Units(prog) -> Nat] /\ drain \in [prog.phase -> Nat]
      /\ DOMAIN round = {scc[t] : t \in Table} \ {NoScc}
      /\ left \subseteq Units(prog) /\ changed \in BOOLEAN
      /\ \A t \in prog.phase : drain[t] <= Level[prog.view[t]]
      /\ \A u \in Units(prog) : unitStratum[u] <= Level[prog.view[u.head]]
  BY DEF Inv, LiftTyped, StrataExact, NeverOvershoots
<1>1. /\ flowStage = "lift" /\ flowStage' = "lift" /\ prog' = prog /\ scc' = scc
      /\ round' = round
      /\ changed' = (changed \/ unitStratum' # unitStratum \/ drain' # drain)
  BY DEF LiftUnit
<1>2. PICK u \in left :
         LET slot  == SlotOf(u)
             value == Max({unitStratum[slot], StartOf(prog, u), Ready(u)})
         IN  /\ unitStratum' = [unitStratum EXCEPT ![slot] = value]
             /\ drain' = LiftDrain(u, value)
             /\ left' = left \ {u}
  BY DEF LiftUnit
<1> DEFINE slot == SlotOf(u)
           value == Max({unitStratum[slot], StartOf(prog, u), Ready(u)})
           top == Level[prog.view[u.head]]
<1>3. /\ unitStratum' = [unitStratum EXCEPT ![slot] = value]
      /\ drain' = LiftDrain(u, value) /\ left' = left \ {u}
  BY <1>2
<1>4. /\ u \in Units(prog) /\ u.head \in prog.phase
      /\ slot \in Units(prog) /\ slot.head = u.head
      /\ slot.family # "toJoin" /\ (u.family # "toJoin" => slot = u)
  BY <1>0, UnitFacts, SlotFacts
<1>5. /\ value \in Nat /\ value <= top /\ unitStratum[slot] <= value /\ Ready(u) <= value
      /\ top \in Nat
  <2>1. unitStratum[slot] \in Nat /\ unitStratum[slot] <= top
    BY <1>0, <1>4
  <2>2. StartOf(prog, u) \in Nat /\ StartOf(prog, u) <= top /\ top \in Nat
    BY <1>0, <1>4, StartFacts
  <2>3. Ready(u) \in Nat
    BY <1>0, <1>4, ReadyFacts
  <2>4. Ready(u) <= top
    BY <1>0, <1>4, ReadyBounded
  <2> HIDE DEF slot
  <2> QED
    BY <2>1, <2>2, <2>3, <2>4, MaxThree
<1> HIDE DEF slot, value, top
<1>6. /\ drain' \in [prog.phase -> Nat]
      /\ \A t \in prog.phase : drain'[t] <= Level[prog.view[t]]
      /\ u.family # "toJoin" => value <= drain'[u.head]
  <2>1. CASE u.family = "toJoin"
    BY <1>0, <1>3, <2>1 DEF LiftDrain
  <2>2. CASE u.family # "toJoin"
    <3> DEFINE m == Max({drain[u.head], value})
    <3>1. drain' = [drain EXCEPT ![u.head] = m]
      BY <1>3, <2>2 DEF LiftDrain
    <3>2. m \in Nat /\ value <= m /\ m <= top
      <4>1. drain[u.head] \in Nat /\ drain[u.head] <= top
        BY <1>0, <1>4 DEF top
      <4>2. {drain[u.head], value} = {drain[u.head], value, value}
        OBVIOUS
      <4> QED
        BY <1>5, <4>1, <4>2, MaxThree
    <3> HIDE DEF m
    <3> QED
      BY <1>0, <1>4, <3>1, <3>2 DEF top
  <2> QED
    BY <2>1, <2>2
<1>7. unitStratum' \in [Units(prog) -> Nat]
  BY <1>0, <1>3, <1>4, <1>5
<1>8. LiftTyped'
  BY <1>0, <1>1, <1>3, <1>6, <1>7 DEF LiftTyped
<1>9. NeverOvershoots'
  <2>1. Level' = Level
    BY <1>1, SameLevel
  <2>2. \A v \in Units(prog) : unitStratum'[v] <= Level[prog.view[v.head]]
    BY <1>0, <1>3, <1>4, <1>5 DEF top
  <2> QED
    BY <1>1, <1>6, <1>7, <2>1, <2>2 DEF NeverOvershoots
<1>10. PassOk'
  <2>1. SUFFICES ASSUME ~changed', NEW v \in Units(prog) \ left'
                 PROVE  UnitOk(v)'
    BY <1>1 DEF PassOk
  <2>2. ~changed /\ unitStratum' = unitStratum /\ drain' = drain
    BY <1>0, <1>1, <2>1
  <2>3. Ready(v)' = Ready(v) /\ SlotOf(v)' = SlotOf(v)
    BY <1>1, <2>2, SameReady, SameSlot
  <2>4. CASE v # u
    <3>1. UnitOk(v)
      BY <1>1, <1>3, <2>1, <2>2, <2>4 DEF Inv, PassOk
    <3> QED
      BY <2>2, <2>3, <3>1 DEF UnitOk
  <2>5. CASE v = u
    <3>1. unitStratum[slot] = value
      BY <1>0, <1>3, <1>4, <2>2
    <3> QED
      BY <1>4, <1>5, <1>6, <2>2, <2>3, <2>5, <3>1 DEF UnitOk, slot
  <2> QED
    BY <2>4, <2>5
<1>11. EstablishesWellFormed'
  BY <1>1 DEF EstablishesWellFormed
<1> QED
  BY <1>8, <1>9, <1>10, <1>11 DEF Inv, StrataExact

(* A pass that found all units right is the last.                          *)
LEMMA EndPassKeeps ==
    ASSUME DRStrataParameters, Inv, EndPass
    PROVE  Inv'
<1>0. /\ LiftTyped
      /\ prog \in Programs /\ scc = SccMap(prog)
      /\ unitStratum \in [Units(prog) -> Nat] /\ drain \in [prog.phase -> Nat]
      /\ DOMAIN round = {scc[t] : t \in Table} \ {NoScc}
      /\ \A t \in prog.phase : drain[t] <= Level[prog.view[t]]
      /\ \A u \in Units(prog) : unitStratum[u] <= Level[prog.view[u.head]]
  BY DEF Inv, LiftTyped, StrataExact, NeverOvershoots
<1>1. /\ flowStage = "lift" /\ left = {} /\ drain' = Pinned /\ changed' = FALSE
      /\ prog' = prog /\ scc' = scc /\ unitStratum' = unitStratum /\ round' = round
      /\ \/ left' = DOMAIN unitStratum /\ flowStage' = flowStage
         \/ ~AnotherPass /\ flowStage' = "stamp" /\ left' = left
  BY DEF EndPass
<1>2. prog.phase # {} => Pinned \in [prog.phase -> Nat]
  BY <1>0, PinnedFacts
<1>3. Pinned \in [prog.phase -> Nat]
  <2>1. CASE prog.phase = {}
    BY <2>1 DEF Pinned
  <2> QED
    BY <1>2, <2>1
<1>4. LiftTyped'
  BY <1>0, <1>1, <1>3 DEF LiftTyped
<1>5. NeverOvershoots'
  <2>1. Level' = Level
    BY <1>1, SameLevel
  <2>2. ASSUME NEW t \in prog.phase
        PROVE  Pinned[t] <= Level[prog.view[t]]
    <3>1. PICK w \in prog.phase : prog.view[w] = prog.view[t] /\ Pinned[t] = drain[w]
      BY <1>0, PinnedFacts
    <3>2. drain[w] <= Level[prog.view[w]]
      BY <1>0
    <3> QED
      BY <3>1, <3>2
  <2> QED
    BY <1>0, <1>1, <2>1, <2>2 DEF NeverOvershoots
<1>6. PassOk'
  <2>1. CASE left' = DOMAIN unitStratum /\ flowStage' = flowStage
    BY <1>0, <1>1, <2>1 DEF PassOk
  <2>2. CASE ~AnotherPass /\ flowStage' = "stamp"
    <3>1. ~changed /\ drain' = drain /\ Pinned = drain
      BY <1>1, <2>2 DEF AnotherPass
    <3>2. Pinned' = Pinned /\ \A u : Ready(u)' = Ready(u)
      BY <1>1, <3>1, SameReady
    <3>3. \A u : SlotOf(u)' = SlotOf(u)
      BY <1>1, SameSlot
    <3>4. \A u \in Units(prog) : UnitOk(u)
      BY <1>1, <3>1 DEF Inv, PassOk
    <3>5. \A u \in Units(prog) : UnitOk(u)'
      BY <1>1, <3>1, <3>2, <3>3, <3>4 DEF UnitOk
    <3> QED
      BY <1>1, <2>2, <3>1, <3>2, <3>5 DEF PassOk
  <2> QED
    BY <1>1, <2>1, <2>2
<1>7. EstablishesWellFormed'
  BY <1>1 DEF EstablishesWellFormed
<1> QED
  BY <1>4, <1>5, <1>6, <1>7 DEF Inv, StrataExact

(* What is stamped is what the lowering relies on.                         *)
LEMMA StampKeeps ==
    ASSUME DRStrataParameters, Inv, Stamp
    PROVE  Inv'
<1>0. /\ prog \in Programs /\ scc = SccMap(prog)
      /\ unitStratum \in [Units(prog) -> Nat] /\ drain \in [prog.phase -> Nat]
      /\ DOMAIN round = {scc[t] : t \in Table} \ {NoScc}
      /\ left \subseteq Units(prog) /\ changed \in BOOLEAN
      /\ \A t \in prog.phase : drain[t] <= Level[prog.view[t]]
      /\ \A u \in Units(prog) : unitStratum[u] <= Level[prog.view[u.head]]
      /\ prog.phase \subseteq Table
  BY LegalFacts DEF Inv, LiftTyped, StrataExact, NeverOvershoots
<1>1. /\ flowStage = "stamp" /\ flowStage' = "done"
      /\ unitStratum' = [u \in DOMAIN unitStratum |-> unitStratum[SlotOf(u)]]
      /\ round' = [g \in DOMAIN round |-> GroupDrain(g)]
      /\ prog' = prog /\ scc' = scc /\ drain' = drain /\ left' = left /\ changed' = changed
  BY DEF Stamp
<1>2. Pinned = drain /\ \A u \in Units(prog) : UnitOk(u)
  BY <1>1 DEF Inv, PassOk
<1>3. \A u \in Units(prog) : /\ SlotOf(u) \in Units(prog) /\ SlotOf(u).head = u.head
                             /\ SlotOf(u).family # "toJoin" /\ SlotOf(SlotOf(u)) = SlotOf(u)
  BY <1>0, SlotFacts
<1>4. unitStratum' \in [Units(prog) -> Nat]
      /\ \A u \in Units(prog) : unitStratum'[u] = unitStratum[SlotOf(u)]
  BY <1>0, <1>1, <1>3
<1>5. LiftTyped'
  BY <1>0, <1>1, <1>4 DEF LiftTyped
<1>6. NeverOvershoots'
  <2>1. Level' = Level
    BY <1>1, SameLevel
  <2>2. \A u \in Units(prog) : unitStratum'[u] <= Level[prog.view[u.head]]
    BY <1>0, <1>3, <1>4
  <2> QED
    BY <1>0, <1>1, <1>4, <2>1, <2>2 DEF NeverOvershoots
<1>7. PassOk'
  BY <1>1 DEF PassOk
<1>8. ASSUME NEW t \in prog.phase, scc[t] # NoScc
      PROVE  drain[t] = GroupDrain(scc[t])
  BY <1>2, <1>8 DEF Pinned
<1>9. ASSUME NEW u \in Units(prog)
      PROVE  unitStratum'[u] <= drain[u.head]
  <2>1. unitStratum[SlotOf(u)] <= drain[SlotOf(u).head]
    BY <1>2, <1>3 DEF UnitOk
  <2> QED
    BY <1>3, <1>4, <2>1
<1>10. ASSUME NEW u \in Units(prog), NEW t \in ReadsOf(u) \cap prog.phase
       PROVE  drain[t] < unitStratum'[u] \/ (SameScc(u.head, t) /\ drain[t] = drain[u.head])
  <2>1. ReadyFor(u, t) <= Ready(u) /\ Ready(u) \in Nat
    BY <1>0, ReadyFacts
  <2>2. Ready(u) <= unitStratum'[u]
    BY <1>2, <1>4 DEF UnitOk
  <2>3. u.head \in prog.phase
    BY <1>0, UnitFacts
  <2>4. CASE ReadyFor(u, t) = drain[t] + 1
    <3>1. drain[t] \in Nat /\ unitStratum'[u] \in Nat
      BY <1>0, <1>4
    <3> QED
      BY <2>1, <2>2, <2>4, <3>1
  <2>5. CASE SameScc(u.head, t)
    BY <1>8, <2>3, <2>5 DEF SameScc
  <2> QED
    BY <2>4, <2>5 DEF ReadyFor, ReadyAfter, ReadyAcross
<1>11. EstablishesWellFormed'
  <2>1. /\ \A u : ReadsOf(u)' = ReadsOf(u)
        /\ \A t, w : SameScc(t, w)' = SameScc(t, w)
    BY <1>1, SameReady
  <2>2. \A t \in prog.phase : scc[t] # NoScc => round'[scc[t]] = drain[t]
    BY <1>0, <1>1, <1>8
  <2> QED
    BY <1>1, <1>4, <1>9, <1>10, <2>1, <2>2 DEF EstablishesWellFormed, WellFormed
<1> QED
  BY <1>5, <1>6, <1>7, <1>11 DEF Inv, StrataExact

(* The passes after the lift change none of it.                            *)
LEMMA LaterKeeps ==
    ASSUME Inv,
           UNCHANGED <<prog, scc, unitStratum, drain, round, left, changed>>,
           \/ flowStage' = flowStage
           \/ flowStage \notin {"lift", "stamp"} /\ flowStage' \notin {"lift", "stamp"}
    PROVE  Inv'
<1>1. Level' = Level
  BY SameLevel
<1>2. /\ \A u : Ready(u)' = Ready(u) /\ ReadsOf(u)' = ReadsOf(u)
      /\ \A t, w : SameScc(t, w)' = SameScc(t, w)
      /\ Pinned' = Pinned
  BY SameReady
<1>3. \A u : SlotOf(u)' = SlotOf(u)
  BY SameSlot
<1>4. \A u : UnitOk(u)' = UnitOk(u)
  BY <1>2, <1>3 DEF UnitOk
<1>5. LiftTyped'
  BY DEF Inv, LiftTyped
<1>6. PassOk'
  BY <1>2, <1>4 DEF Inv, PassOk
<1>7. NeverOvershoots'
  BY <1>1 DEF Inv, StrataExact, NeverOvershoots
<1>8. EstablishesWellFormed'
  BY <1>2 DEF Inv, StrataExact, EstablishesWellFormed, WellFormed
<1> QED
  BY <1>5, <1>6, <1>7, <1>8 DEF Inv, StrataExact

-----------------------------------------------------------------------------
(* The operations and their effects depend on the program and the SCCs.    *)
LEMMA SameInventory ==
    ASSUME prog' = prog, scc' = scc
    PROVE  /\ Inventory' = Inventory
           /\ \A o : Effects(o)' = Effects(o)
<1>1. /\ \A t, w : SameScc(t, w)' = SameScc(t, w)
      /\ \A t : Recursive(t)' = Recursive(t)
      /\ \A t : Differential(t)' = Differential(t)
  BY DEF SameScc, Recursive, Differential
<1>2. \A t, S : RuleClass(t, S)' = RuleClass(t, S)
  BY <1>1 DEF RuleClass
<1>3. \A t : MonotoneIngestRole(t)' = MonotoneIngestRole(t)
  BY <1>1 DEF MonotoneIngestRole
<1>4. \A o : IngestRole(o)' = IngestRole(o)
  BY <1>1, <1>3 DEF IngestRole
<1>5. \A o, x : GateReads(o, x)' = GateReads(o, x)
  BY DEF GateReads
<1>6. \A t : SignsOf(t)' = SignsOf(t)
  BY <1>1 DEF SignsOf
<1>7. \A t : FireDeltas(t)' = FireDeltas(t)
  BY <1>1 DEF FireDeltas
<1>8. \A u : InRounds(u)' = InRounds(u)
  BY <1>1 DEF InRounds
<1>9. \A t : AllSidesSameScc(t)' = AllSidesSameScc(t)
  BY <1>1 DEF AllSidesSameScc
<1>10. \A u : SeedSuppressed(u)' = SeedSuppressed(u)
  BY <1>8, <1>9 DEF SeedSuppressed
<1>11. \A o : CrossoverArmEffects(o)' = CrossoverArmEffects(o)
  BY <1>2 DEF CrossoverArmEffects
<1>12. \A o : ProductArmEffects(o)' = ProductArmEffects(o)
  BY DEF ProductArmEffects, ArmReads
<1>13. \A o : SeedFoldEffects(o)' = SeedFoldEffects(o)
  BY <1>2, <1>5 DEF SeedFoldEffects
<1>14. \A o : ChainFoldEffects(o)' = ChainFoldEffects(o)
  BY <1>5 DEF ChainFoldEffects
<1>15. \A o : FixpointFireEffects(o)' = FixpointFireEffects(o)
  BY <1>1, <1>7 DEF FixpointFireEffects
<1>16. \A o : GroupUpdateEffects(o)' = GroupUpdateEffects(o)
  BY DEF GroupUpdateEffects
<1>17. \A o : ClaimDrainEffects(o)' = ClaimDrainEffects(o)
  BY <1>1 DEF ClaimDrainEffects
<1>18. \A o : CommitSweepEffects(o)' = CommitSweepEffects(o)
  BY <1>1 DEF CommitSweepEffects
<1>19. \A o : PivotAssembleEffects(o)' = PivotAssembleEffects(o)
  BY DEF PivotAssembleEffects
<1>20. \A o : NegateGateEffects(o)' = NegateGateEffects(o)
  BY DEF NegateGateEffects
<1>21. \A o : IngestFoldEffects(o)' = IngestFoldEffects(o)
  BY <1>4 DEF IngestFoldEffects
<1>22. \A o : Effects(o)' = Effects(o)
  BY <1>11, <1>12, <1>13, <1>14, <1>15, <1>16, <1>17, <1>18, <1>19, <1>20, <1>21 DEF Effects
<1>23. /\ CrossoverOps' = CrossoverOps
       /\ ProductArms' = ProductArms
       /\ GroupUpdateOps' = GroupUpdateOps
  BY <1>6 DEF CrossoverOps, ProductArms, GroupUpdateOps
<1>24. SeedFolds' = SeedFolds /\ ChainFolds' = ChainFolds /\ FixpointFires' = FixpointFires
  BY <1>1, <1>6, <1>8, <1>10 DEF SeedFolds, ChainFolds, FixpointFires
<1>25. PhaseTableOps' = PhaseTableOps /\ PivotAssembles' = PivotAssembles
  BY <1>1 DEF PhaseTableOps, PivotAssembles
<1>26. /\ CommitSweeps' = CommitSweeps /\ NegateGates' = NegateGates
       /\ IngestFolds' = IngestFolds
  BY <1>1, <1>3, <1>6 DEF CommitSweeps, NegateGates, IngestFolds
<1>27. Inventory' = Inventory
  BY <1>23, <1>24, <1>25, <1>26 DEF Inventory
<1> QED
  BY <1>22, <1>27

(* The inventory is made of the stamped strata, and stays.                 *)
Built ==
    flowStage \notin {"lift", "stamp", "done"} => ops = [o \in Inventory |-> Effects(o)]

FlowInv == Inv /\ Built

LEMMA FlowInitially ==
    ASSUME DRStrataParameters, FlowInit
    PROVE  FlowInv
<1>1. Inv
  BY Initially DEF FlowInit
<1> QED
  BY <1>1 DEF FlowInv, Built, FlowInit, LiftInit

LEMMA FlowKeeps ==
    ASSUME DRStrataParameters, FlowInv, [FlowNext]_allVars
    PROVE  FlowInv'
<1>0. Inv /\ Built
  BY DEF FlowInv
<1>1. CASE DeriveStrata
  <2>1. CASE LiftUnit
    <3>1. Inv'
      BY <1>0, <2>1, LiftUnitKeeps
    <3> QED
      BY <2>1, <3>1 DEF FlowInv, Built, LiftUnit
  <2>2. CASE EndPass
    <3>1. Inv'
      BY <1>0, <2>2, EndPassKeeps
    <3>2. flowStage' \in {"lift", "stamp"}
      BY <2>2 DEF EndPass
    <3> QED
      BY <3>1, <3>2 DEF FlowInv, Built
  <2>3. CASE Stamp
    <3>1. Inv'
      BY <1>0, <2>3, StampKeeps
    <3> QED
      BY <2>3, <3>1 DEF FlowInv, Built, Stamp
  <2> QED
    BY <1>1, <2>1, <2>2, <2>3 DEF DeriveStrata, LiftNext
<1>2. CASE BuildDRInventory
  <2>1. Inv'
    BY <1>0, <1>2, LaterKeeps DEF BuildDRInventory
  <2>2. ops' = [o \in Inventory' |-> Effects(o)']
    <3>1. ops' = [o \in Inventory |-> Effects(o)] /\ prog' = prog /\ scc' = scc
      BY <1>2 DEF BuildDRInventory
    <3> QED
      BY <3>1, SameInventory
  <2> QED
    BY <2>1, <2>2 DEF FlowInv, Built
<1>3. CASE \/ Validate \/ DeriveDeps \/ Linearize \/ CheckOrder
           \/ UNCHANGED allVars
  <2>1. /\ UNCHANGED <<prog, scc, unitStratum, drain, round, left, changed, ops>>
        /\ \/ flowStage' = flowStage
           \/ /\ flowStage \notin {"lift", "stamp", "done"}
              /\ flowStage' \notin {"lift", "stamp", "done"}
    BY <1>3 DEF Validate, DeriveDeps, Linearize, CheckOrder, allVars
  <2>2. Inv'
    BY <1>0, <2>1, LaterKeeps
  <2>3. Inventory' = Inventory /\ \A o : Effects(o)' = Effects(o)
    BY <2>1, SameInventory
  <2>4. ops' = ops
    BY <2>1
  <2>5. Built'
    BY <1>0, <2>1, <2>3, <2>4 DEF Built
  <2> QED
    BY <2>2, <2>5 DEF FlowInv
<1> QED
  BY <1>1, <1>2, <1>3 DEF FlowNext

-----------------------------------------------------------------------------
(* What the operations of each kind are made of.                           *)
LEMMA OpFields ==
    ASSUME NEW kind, NEW head, NEW of, NEW sign
    PROVE  /\ Op(kind, head, of, sign).kind = kind /\ Op(kind, head, of, sign).head = head
           /\ Op(kind, head, of, sign).of = of /\ Op(kind, head, of, sign).sign = sign
  BY DEF Op

LEMMA BothFacts ==
    ASSUME NEW kind, NEW head, NEW of, NEW o \in Both(kind, head, of)
    PROVE  o.kind = kind /\ o.head = head /\ o.of = of /\ o.sign \in {-1, 1}
<1>1. PICK s \in {-1, 1} : o = Op(kind, head, of, s)
  BY DEF Both
<1> QED
  BY <1>1, OpFields

LEMMA SignsFacts ==
    ASSUME NEW w
    PROVE  SignsOf(w) \subseteq {-1, 1} /\ 1 \in SignsOf(w)
  BY DEF SignsOf

Folding == {"merge", "negate", "never"}

LEMMA BranchFacts ==
    ASSUME NEW u \in Branches(prog)
    PROVE  /\ u.head \in prog.phase
           /\ \E w \in prog.reads[u.head] : u = Unit(u.family, u.head, {w})
           /\ \/ /\ u.family = "branch" /\ prog.kind[u.head] \in Folding
                 /\ u.from \cap prog.negated[u.head] = {}
              \/ u.family = "toJoin" /\ prog.kind[u.head] = "join"
<1>1. CASE \E t \in FilledBy(prog, {"merge", "negate", "never"}) :
               \E w \in prog.reads[t] \ prog.negated[t] : u = Unit("branch", t, {w})
  <2>1. PICK t \in FilledBy(prog, {"merge", "negate", "never"}) :
               \E w \in prog.reads[t] \ prog.negated[t] : u = Unit("branch", t, {w})
    BY <1>1
  <2>2. PICK w \in prog.reads[t] \ prog.negated[t] : u = Unit("branch", t, {w})
    BY <2>1
  <2>3. u.family = "branch" /\ u.head = t /\ u.from = {w}
    BY <2>2, UnitFields
  <2>4. t \in prog.phase /\ prog.kind[t] \in Folding
    BY DEF FilledBy, Folding
  <2> QED
    BY <2>2, <2>3, <2>4
<1>2. CASE \E t \in FilledBy(prog, {"join"}) :
               \E w \in prog.reads[t] : u = Unit("toJoin", t, {w})
  <2>1. PICK t \in FilledBy(prog, {"join"}) :
               \E w \in prog.reads[t] : u = Unit("toJoin", t, {w})
    BY <1>2
  <2>2. PICK w \in prog.reads[t] : u = Unit("toJoin", t, {w})
    BY <2>1
  <2>3. u.family = "toJoin" /\ u.head = t /\ u.from = {w}
    BY <2>2, UnitFields
  <2>4. t \in prog.phase /\ prog.kind[t] = "join"
    BY DEF FilledBy
  <2> QED
    BY <2>2, <2>3, <2>4
<1> QED
  BY <1>1, <1>2 DEF Branches

LEMMA FilledUnitFacts ==
    ASSUME NEW family, NEW kinds, NEW t \in FilledBy(prog, kinds),
           NEW u, u = Unit(family, t, prog.reads[t])
    PROVE  /\ u.family = family /\ u.head \in prog.phase /\ prog.kind[u.head] \in kinds
           /\ u.from = prog.reads[u.head] /\ u = Unit(family, u.head, prog.reads[u.head])
<1>1. u.family = family /\ u.head = t /\ u.from = prog.reads[t]
  BY UnitFields
<1> QED
  BY <1>1 DEF FilledBy

LEMMA CrossoverFacts ==
    ASSUME NEW o \in CrossoverOps
    PROVE  /\ o.kind = "kCrossover" /\ o.head \in prog.phase
           /\ prog.kind[o.head] = "negate" /\ o.of \in prog.negated[o.head]
           /\ -o.sign \in SignsOf(o.of) /\ o.sign \in {-1, 1}
           /\ Unit("crossover", o.head, prog.reads[o.head]) \in Units(prog)
<1>1. PICK u \in Crossovers(prog) :
          \E w \in prog.negated[u.head] : \E s \in SignsOf(w) : o = Op("kCrossover", u.head, w, -s)
  BY DEF CrossoverOps
<1>2. PICK w \in prog.negated[u.head] : \E s \in SignsOf(w) : o = Op("kCrossover", u.head, w, -s)
  BY <1>1
<1>3. PICK s \in SignsOf(w) : o = Op("kCrossover", u.head, w, -s)
  BY <1>2
<1>4. o.kind = "kCrossover" /\ o.head = u.head /\ o.of = w /\ o.sign = -s
  BY <1>3, OpFields
<1>5. /\ u.head \in prog.phase /\ prog.kind[u.head] = "negate"
      /\ u = Unit("crossover", u.head, prog.reads[u.head])
  <2>1. PICK t \in FilledBy(prog, {"negate"}) : u = Unit("crossover", t, prog.reads[t])
    BY DEF Crossovers
  <2> QED
    BY <2>1, FilledUnitFacts
<1>6. s \in {-1, 1}
  BY SignsFacts
<1>7. -(-s) = s /\ -s \in {-1, 1}
  BY <1>6
<1> QED
  BY <1>4, <1>5, <1>7 DEF Units

LEMMA ProductFacts ==
    ASSUME NEW o \in ProductArms
    PROVE  /\ o.kind = "kProductArm" /\ o.head \in prog.phase
           /\ prog.kind[o.head] = "product" /\ o.of \in prog.reads[o.head]
           /\ o.sign \in SignsOf(o.of) /\ o.sign \in {-1, 1}
           /\ Unit("product", o.head, prog.reads[o.head]) \in Units(prog)
<1>1. PICK u \in Products(prog) :
          \E w \in u.from : \E s \in SignsOf(w) : o = Op("kProductArm", u.head, w, s)
  BY DEF ProductArms
<1>2. PICK w \in u.from : \E s \in SignsOf(w) : o = Op("kProductArm", u.head, w, s)
  BY <1>1
<1>3. PICK s \in SignsOf(w) : o = Op("kProductArm", u.head, w, s)
  BY <1>2
<1>4. o.kind = "kProductArm" /\ o.head = u.head /\ o.of = w /\ o.sign = s
  BY <1>3, OpFields
<1>5. /\ u.head \in prog.phase /\ prog.kind[u.head] = "product"
      /\ u.from = prog.reads[u.head] /\ u = Unit("product", u.head, prog.reads[u.head])
  <2>1. PICK t \in FilledBy(prog, {"product"}) : u = Unit("product", t, prog.reads[t])
    BY DEF Products
  <2> QED
    BY <2>1, FilledUnitFacts
<1>6. s \in {-1, 1}
  BY SignsFacts
<1> QED
  BY <1>4, <1>5, <1>6 DEF Units

LEMMA GroupUpdateFacts ==
    ASSUME NEW o \in GroupUpdateOps
    PROVE  /\ o.kind \in {"kGroupUpdate", "kStateSeal"} /\ o.head \in prog.phase
           /\ prog.kind[o.head] = "aggregate" /\ o.of = 0 /\ o.sign = 0
           /\ Unit("groupUpdate", o.head, prog.reads[o.head]) \in Units(prog)
<1>1. PICK k \in {"kGroupUpdate", "kStateSeal"} :
          \E u \in GroupUpdates(prog) : o = Op(k, u.head, 0, 0)
  BY DEF GroupUpdateOps
<1>2. PICK u \in GroupUpdates(prog) : o = Op(k, u.head, 0, 0)
  BY <1>1
<1>3. o.kind = k /\ o.head = u.head /\ o.of = 0 /\ o.sign = 0
  BY <1>2, OpFields
<1>4. /\ u.head \in prog.phase /\ prog.kind[u.head] = "aggregate"
      /\ u = Unit("groupUpdate", u.head, prog.reads[u.head])
  <2>1. PICK t \in FilledBy(prog, {"aggregate"}) : u = Unit("groupUpdate", t, prog.reads[t])
    BY DEF GroupUpdates
  <2> QED
    BY <2>1, FilledUnitFacts
<1> QED
  BY <1>3, <1>4 DEF Units

LEMMA SeedFacts ==
    ASSUME NEW o \in SeedFolds
    PROVE  /\ o.head \in prog.phase /\ o.of \in prog.reads[o.head]
           /\ o.sign \in SignsOf(o.of) /\ o.sign \in {-1, 1}
           /\ \/ /\ o.kind = "kSeedFold" /\ prog.kind[o.head] \in Folding
                 /\ o.of \notin prog.negated[o.head] /\ ~SameScc(o.head, o.of)
                 /\ Unit("branch", o.head, {o.of}) \in Units(prog)
              \/ /\ o.kind = "kPivotSeed" /\ prog.kind[o.head] = "join"
                 /\ ~AllSidesSameScc(o.head)
<1>1. PICK u \in {b \in Branches(prog) : ~SeedSuppressed(b)} :
          \E w \in u.from : \E s \in SignsOf(w) :
              o = Op(IF u.family = "toJoin" THEN "kPivotSeed" ELSE "kSeedFold", u.head, w, s)
  BY DEF SeedFolds
<1>2. PICK w \in u.from : \E s \in SignsOf(w) :
          o = Op(IF u.family = "toJoin" THEN "kPivotSeed" ELSE "kSeedFold", u.head, w, s)
  BY <1>1
<1>3. PICK s \in SignsOf(w) :
          o = Op(IF u.family = "toJoin" THEN "kPivotSeed" ELSE "kSeedFold", u.head, w, s)
  BY <1>2
<1>4. /\ o.kind = (IF u.family = "toJoin" THEN "kPivotSeed" ELSE "kSeedFold")
      /\ o.head = u.head /\ o.of = w /\ o.sign = s
  BY <1>3, OpFields
<1>5. /\ u.head \in prog.phase
      /\ \/ /\ u.family = "branch" /\ prog.kind[u.head] \in Folding
            /\ u.from \cap prog.negated[u.head] = {}
         \/ u.family = "toJoin" /\ prog.kind[u.head] = "join"
  BY BranchFacts
<1>6. w \in prog.reads[u.head] /\ u.from = {w} /\ u = Unit(u.family, u.head, {w})
  <2>1. PICK v \in prog.reads[u.head] : u = Unit(u.family, u.head, {v})
    BY BranchFacts
  <2>2. u.from = {v}
    BY <2>1, UnitFields
  <2>3. v = w
    BY <2>2
  <2> QED
    BY <2>1, <2>2, <2>3
<1>7. s \in {-1, 1}
  BY SignsFacts
<1>8. u \in Units(prog) /\ ~SeedSuppressed(u)
  BY DEF Units
<1>9. CASE u.family = "branch"
  <2>1. ~SameScc(u.head, w)
    BY <1>6, <1>8, <1>9 DEF SeedSuppressed, InRounds
  <2> QED
    BY <1>4, <1>5, <1>6, <1>7, <1>8, <1>9, <2>1
<1>10. CASE u.family = "toJoin"
  <2>1. ~AllSidesSameScc(u.head)
    BY <1>8, <1>10 DEF SeedSuppressed
  <2> QED
    BY <1>4, <1>5, <1>6, <1>7, <1>10, <2>1
<1> QED
  BY <1>5, <1>9, <1>10

LEMMA ChainFacts ==
    ASSUME NEW o \in ChainFolds
    PROVE  /\ o.kind = "kChainFold" /\ o.head \in prog.phase
           /\ prog.kind[o.head] \in Folding /\ o.of \in prog.reads[o.head]
           /\ o.of \notin prog.negated[o.head] /\ SameScc(o.head, o.of)
           /\ o.sign \in {-1, 1}
           /\ Unit("branch", o.head, {o.of}) \in Units(prog)
<1>1. PICK u \in {b \in Branches(prog) : InRounds(b)} :
          \E w \in u.from : o \in Both("kChainFold", u.head, w)
  BY DEF ChainFolds
<1>2. PICK w \in u.from : o \in Both("kChainFold", u.head, w)
  BY <1>1
<1>3. o.kind = "kChainFold" /\ o.head = u.head /\ o.of = w /\ o.sign \in {-1, 1}
  BY <1>2, BothFacts
<1>4. u.family = "branch" /\ SameScc(u.head, w)
  BY DEF InRounds
<1>5. /\ u.head \in prog.phase /\ prog.kind[u.head] \in Folding
      /\ u.from \cap prog.negated[u.head] = {}
  BY <1>4, BranchFacts
<1>6. w \in prog.reads[u.head] /\ u = Unit("branch", u.head, {w})
  <2>1. PICK v \in prog.reads[u.head] : u = Unit(u.family, u.head, {v})
    BY BranchFacts
  <2>2. u.from = {v}
    BY <2>1, UnitFields
  <2> QED
    BY <1>4, <2>1, <2>2
<1>7. u \in Units(prog)
  BY DEF Units
<1> QED
  BY <1>3, <1>4, <1>5, <1>6, <1>7

LEMMA FireFacts ==
    ASSUME NEW o \in FixpointFires
    PROVE  /\ o.kind = "kFixpointFire" /\ o.head \in prog.phase
           /\ prog.kind[o.head] = "join" /\ Recursive(o.head)
           /\ o.of = 0 /\ o.sign \in {-1, 1}
<1>1. PICK u \in {j \in Joins(prog) : Recursive(j.head)} : o \in Both("kFixpointFire", u.head, 0)
  BY DEF FixpointFires
<1>2. o.kind = "kFixpointFire" /\ o.head = u.head /\ o.of = 0 /\ o.sign \in {-1, 1}
  BY <1>1, BothFacts
<1>3. u.head \in prog.phase /\ prog.kind[u.head] = "join"
  <2>1. PICK t \in FilledBy(prog, {"join"}) : u = Unit("join", t, prog.reads[t])
    BY DEF Joins
  <2> QED
    BY <2>1, FilledUnitFacts
<1> QED
  BY <1>2, <1>3

LEMMA PhaseOpFacts ==
    ASSUME NEW o \in PhaseTableOps
    PROVE  /\ o.head \in prog.phase /\ o.of = 0
           /\ \/ o.kind \in {"kClaimDrain", "kFrontierFilter"} /\ o.sign \in {-1, 1}
              \/ o.kind = "kRetire" /\ o.sign \in {-1, 1} /\ Recursive(o.head)
              \/ o.kind = "kRederive" /\ o.sign = 0 /\ Recursive(o.head)
<1>1. PICK t \in prog.phase :
          o \in Both("kClaimDrain", t, 0) \cup Both("kFrontierFilter", t, 0)
                \cup IF Recursive(t)
                     THEN Both("kRetire", t, 0) \cup {Op("kRederive", t, 0, 0)} ELSE {}
  BY DEF PhaseTableOps
<1>2. CASE o \in Both("kClaimDrain", t, 0)
  BY <1>2, BothFacts
<1>3. CASE o \in Both("kFrontierFilter", t, 0)
  BY <1>3, BothFacts
<1>4. CASE Recursive(t) /\ o \in Both("kRetire", t, 0)
  BY <1>4, BothFacts
<1>5. CASE Recursive(t) /\ o = Op("kRederive", t, 0, 0)
  BY <1>5, OpFields
<1> QED
  BY <1>1, <1>2, <1>3, <1>4, <1>5

LEMMA OtherOpFacts ==
    /\ \A o \in CommitSweeps : o.kind = "kCommitSweep"
    /\ \A o \in PivotAssembles : o.kind = "kPivotAssemble"
    /\ \A o \in NegateGates : o.kind = "kNegateGate"
    /\ \A o \in IngestFolds : o.kind = "kIngestFold" /\ o.sign \in {-1, 1}
<1>1. \A o \in CommitSweeps : o.kind = "kCommitSweep"
  BY OpFields DEF CommitSweeps
<1>2. \A o \in PivotAssembles : o.kind = "kPivotAssemble"
  BY OpFields DEF PivotAssembles
<1>3. \A o \in NegateGates : o.kind = "kNegateGate"
  BY OpFields DEF NegateGates
<1>4. \A o \in IngestFolds : o.kind = "kIngestFold" /\ o.sign \in {-1, 1}
  BY OpFields, SignsFacts DEF IngestFolds
<1> QED
  BY <1>1, <1>2, <1>3, <1>4

(* By its kind one knows of which family an operation is.                  *)
LEMMA InventoryFacts ==
    ASSUME NEW o \in Inventory
    PROVE  /\ o.kind = "kCrossover" => o \in CrossoverOps
           /\ o.kind = "kProductArm" => o \in ProductArms
           /\ o.kind \in {"kGroupUpdate", "kStateSeal"} => o \in GroupUpdateOps
           /\ o.kind \in {"kSeedFold", "kPivotSeed"} => o \in SeedFolds
           /\ o.kind = "kChainFold" => o \in ChainFolds
           /\ o.kind = "kFixpointFire" => o \in FixpointFires
           /\ o.kind \in {"kClaimDrain", "kFrontierFilter", "kRetire", "kRederive"} =>
                 o \in PhaseTableOps
           /\ o.kind = "kIngestFold" => o \in IngestFolds
           /\ o.kind \in {"kCrossover", "kProductArm", "kGroupUpdate", "kStateSeal", "kSeedFold",
                          "kPivotSeed", "kChainFold", "kFixpointFire", "kClaimDrain",
                          "kFrontierFilter", "kRetire", "kRederive", "kIngestFold",
                          "kCommitSweep", "kPivotAssemble", "kNegateGate"}
<1>1. CASE o \in CrossoverOps
  BY <1>1, CrossoverFacts
<1>2. CASE o \in ProductArms
  BY <1>2, ProductFacts
<1>3. CASE o \in GroupUpdateOps
  BY <1>3, GroupUpdateFacts
<1>4. CASE o \in SeedFolds
  BY <1>4, SeedFacts
<1>5. CASE o \in ChainFolds
  BY <1>5, ChainFacts
<1>6. CASE o \in FixpointFires
  BY <1>6, FireFacts
<1>7. CASE o \in PhaseTableOps
  BY <1>7, PhaseOpFacts
<1>8. CASE o \in CommitSweeps \cup PivotAssembles \cup NegateGates \cup IngestFolds
  BY <1>8, OtherOpFacts
<1> QED
  BY <1>1, <1>2, <1>3, <1>4, <1>5, <1>6, <1>7, <1>8 DEF Inventory

-----------------------------------------------------------------------------
(* What the effects of each kind drain, append to, and read.               *)
LEMMA EffectFields ==
    ASSUME NEW t, NEW x, NEW y
    PROVE  /\ Drain(t, x).eff = "kVecDrain" /\ Drain(t, x).table = t /\ Drain(t, x).role = x
           /\ AppendTo(t, x).eff = "kVecAppend" /\ AppendTo(t, x).table = t
           /\ AppendTo(t, x).role = x
           /\ Clear(t, x).eff = "kVecClear"
           /\ FlagRead(t, x).eff = "kFlagRead" /\ FlagRead(t, x).table = t
           /\ FlagRead(t, x).arg = x
           /\ FlagWrite(t).eff = "kFlagWrite" /\ CrossingRead(t).eff = "kInIReadFrozen"
           /\ Counter(t, x).eff = "kCounter"
           /\ Fx(x, t, y, y).eff = x
  BY DEF Fx, Drain, AppendTo, Clear, FlagRead, FlagWrite, CrossingRead, Counter

LEMMA FoldFacts ==
    ASSUME NEW t, NEW sign, NEW class, NEW e \in Fold(t, sign, class)
    PROVE  /\ e.eff \in {"kCounter", "kInIReadFrozen", "kVecAppend"}
           /\ e.eff = "kVecAppend" => e.table = t /\ e.role = Queue(sign)
  BY EffectFields DEF Fold

LEMMA CrossoverEffects ==
    ASSUME NEW o, o.kind = "kCrossover", NEW e \in Effects(o)
    PROVE  /\ e.eff = "kVecDrain" => e.table = o.of /\ e.role = Frontier(-o.sign)
           /\ e.eff = "kVecAppend" => e.table = o.head /\ e.role = Queue(o.sign)
           /\ e.eff = "kFlagRead" => /\ e.table \in prog.reads[o.head] \ prog.negated[o.head]
                                     /\ e.arg = "kInNew"
<1>1. e \in CrossoverArmEffects(o)
  BY DEF Effects
<1>2. CASE e = Drain(o.of, Frontier(-o.sign))
  BY <1>2, EffectFields
<1>3. CASE \E w \in prog.reads[o.head] \ prog.negated[o.head] : e = FlagRead(w, "kInNew")
  BY <1>3, EffectFields
<1>4. CASE e \in Fold(o.head, o.sign, RuleClass(o.head, prog.reads[o.head]))
  BY <1>4, FoldFacts
<1> QED
  BY <1>1, <1>2, <1>3, <1>4 DEF CrossoverArmEffects

LEMMA ProductEffects ==
    ASSUME NEW o, o.kind = "kProductArm", NEW e \in Effects(o)
    PROVE  /\ e.eff = "kVecDrain" => e.table = o.of /\ e.role = Frontier(o.sign)
           /\ e.eff = "kVecAppend" => e.table = o.head /\ e.role = Queue(o.sign)
           /\ e.eff = "kFlagRead" => /\ e.table \in prog.reads[o.head] \ {o.of}
                                     /\ e.arg = IF e.table < o.of THEN "kInNew" ELSE "kInI"
<1>1. e \in ProductArmEffects(o)
  BY DEF Effects
<1>2. CASE e = Drain(o.of, Frontier(o.sign))
  BY <1>2, EffectFields
<1>3. CASE e \in ArmReads(o)
  <2>1. PICK w \in prog.reads[o.head] \ {o.of} :
            e = FlagRead(w, IF w < o.of THEN "kInNew" ELSE "kInI")
    BY <1>3 DEF ArmReads
  <2>2. e.eff = "kFlagRead" /\ e.table = w /\ e.arg = IF w < o.of THEN "kInNew" ELSE "kInI"
    BY <2>1, EffectFields
  <2> QED
    BY <2>2
<1>4. CASE e \in Fold(o.head, o.sign, "kNonRecursive")
  BY <1>4, FoldFacts
<1> QED
  BY <1>1, <1>2, <1>3, <1>4 DEF ProductArmEffects

LEMMA GateReadFacts ==
    ASSUME NEW o, NEW ctx, NEW e \in GateReads(o, ctx)
    PROVE  /\ e.eff = "kFlagRead" /\ e.table \in prog.negated[o.head]
           /\ e.arg = NegateGatePred(ctx, "kNormal")
<1>1. PICK w \in prog.negated[o.head] : e = FlagRead(w, NegateGatePred(ctx, "kNormal"))
  BY DEF GateReads
<1> QED
  BY <1>1, EffectFields

LEMMA SeedEffects ==
    ASSUME NEW o, o.kind \in {"kSeedFold", "kPivotSeed"}, NEW e \in Effects(o)
    PROVE  /\ e.eff = "kVecDrain" => e.table = o.of /\ e.role = Frontier(o.sign)
           /\ e.eff = "kVecAppend" =>
                 /\ e.table = o.head
                 /\ e.role = IF o.kind = "kPivotSeed" THEN "kJoinPivots" ELSE Queue(o.sign)
           /\ e.eff = "kFlagRead" => e.table \in prog.negated[o.head] /\ e.arg = "kInI"
<1>1. e \in SeedFoldEffects(o)
  BY DEF Effects
<1>2. CASE e = Drain(o.of, Frontier(o.sign))
  BY <1>2, EffectFields
<1>3. CASE o.kind = "kPivotSeed" /\ e = AppendTo(o.head, "kJoinPivots")
  BY <1>3, EffectFields
<1>4. CASE o.kind # "kPivotSeed" /\ e \in GateReads(o, "kSeed")
  <2>1. NegateGatePred("kSeed", "kNormal") = "kInI"
    BY DEF NegateGatePred
  <2> QED
    BY <1>4, <2>1, GateReadFacts
<1>5. CASE o.kind # "kPivotSeed" /\ e \in Fold(o.head, o.sign, RuleClass(o.head, {o.of}))
  BY <1>5, FoldFacts
<1> QED
  BY <1>1, <1>2, <1>3, <1>4, <1>5 DEF SeedFoldEffects

LEMMA ChainEffects ==
    ASSUME NEW o, o.kind = "kChainFold", NEW e \in Effects(o)
    PROVE  /\ e.eff = "kVecDrain" => e.table = o.of /\ e.role = Claimed(o.sign)
           /\ e.eff = "kVecAppend" => e.table = o.head /\ e.role = Queue(o.sign)
           /\ e.eff = "kFlagRead" => e.table \in prog.negated[o.head] /\ e.arg = "kInNew"
<1>1. e \in ChainFoldEffects(o)
  BY DEF Effects
<1>2. CASE e = Drain(o.of, Claimed(o.sign))
  BY <1>2, EffectFields
<1>3. CASE e \in GateReads(o, "kFixpoint")
  <2>1. NegateGatePred("kFixpoint", "kNormal") = "kInNew"
    BY DEF NegateGatePred
  <2> QED
    BY <1>3, <2>1, GateReadFacts
<1>4. CASE e \in Fold(o.head, o.sign, "kRecursive")
  BY <1>4, FoldFacts
<1> QED
  BY <1>1, <1>2, <1>3, <1>4 DEF ChainFoldEffects

LEMMA FireEffects ==
    ASSUME NEW o, o.kind = "kFixpointFire", NEW e \in Effects(o)
    PROVE  /\ e.eff = "kVecDrain" =>
                 \/ e.table \in FireDeltas(o.head) /\ e.role = Claimed(o.sign)
                 \/ e.table = o.head /\ e.role = "kJoinPivots"
           /\ e.eff = "kVecAppend" => e.table = o.head /\ e.role = Queue(o.sign)
           /\ e.eff = "kFlagRead" =>
                 /\ e.table \in prog.reads[o.head]
                 /\ e.arg = "kInNew" => ~SameScc(o.head, e.table)
                 /\ e.arg \notin {"kNetDeleted", "kNetAdded"}
<1>1. e \in FixpointFireEffects(o)
  BY DEF Effects
<1>2. CASE \E p \in FireDeltas(o.head) : e = Drain(p, Claimed(o.sign))
  BY <1>2, EffectFields
<1>3. CASE \E p \in FireDeltas(o.head) : \E j \in prog.reads[o.head] \ {p} :
              e = FlagRead(j, IF SameScc(o.head, j) THEN FixpointSamePred(j, p, o.sign)
                              ELSE "kInNew")
  <2>1. PICK p \in FireDeltas(o.head) : \E j \in prog.reads[o.head] \ {p} :
              e = FlagRead(j, IF SameScc(o.head, j) THEN FixpointSamePred(j, p, o.sign)
                              ELSE "kInNew")
    BY <1>3
  <2>2. PICK j \in prog.reads[o.head] \ {p} :
              e = FlagRead(j, IF SameScc(o.head, j) THEN FixpointSamePred(j, p, o.sign)
                              ELSE "kInNew")
    BY <2>1
  <2>3. /\ e.eff = "kFlagRead" /\ e.table = j
        /\ e.arg = IF SameScc(o.head, j) THEN FixpointSamePred(j, p, o.sign) ELSE "kInNew"
    BY <2>2, EffectFields
  <2>4. FixpointSamePred(j, p, o.sign) \in {"kSurvivesSoFar", "kInNewWithFrontier",
                                            "kAliveAtClaim", "kInNewSansFrontier"}
    BY DEF FixpointSamePred
  <2> QED
    BY <2>3, <2>4
<1>4. CASE e \in Fold(o.head, o.sign, "kRecursive")
  BY <1>4, FoldFacts
<1>5. CASE e = Drain(o.head, "kJoinPivots")
  BY <1>5, EffectFields
<1> QED
  BY <1>1, <1>2, <1>3, <1>4, <1>5 DEF FixpointFireEffects

LEMMA GroupEffects ==
    ASSUME NEW o, o.kind = "kGroupUpdate", NEW e \in Effects(o)
    PROVE  /\ e.eff = "kVecDrain" =>
                 e.table \in prog.reads[o.head] /\ e.role \in {Frontier(-1), Frontier(1)}
           /\ e.eff = "kVecAppend" => e.table = o.head /\ e.role \in {Queue(-1), Queue(1)}
           /\ e.eff # "kFlagRead"
<1>1. e \in GroupUpdateEffects(o)
  BY DEF Effects
<1>2. CASE \E w \in prog.reads[o.head] : \E s \in {-1, 1} : e = Drain(w, Frontier(s))
  BY <1>2, EffectFields
<1>3. CASE e \in {Fx("kStateFold", o.head, "-", s) : s \in {"-1", "1"}}
  <2>1. e.eff = "kStateFold"
    BY <1>3 DEF Fx
  <2> QED
    BY <2>1
<1>4. CASE e \in {Fx("kStateEmit", o.head, "-", "-"), Fx("kStateOld", o.head, "-", "-")}
  <2>1. e.eff \in {"kStateEmit", "kStateOld"}
    BY <1>4 DEF Fx
  <2> QED
    BY <2>1
<1>5. CASE e \in Fold(o.head, -1, "kNonRecursive") \cup Fold(o.head, 1, "kNonRecursive")
  BY <1>5, FoldFacts
<1> QED
  BY <1>1, <1>2, <1>3, <1>4, <1>5 DEF GroupUpdateEffects

LEMMA ClaimEffects ==
    ASSUME NEW o, o.kind = "kClaimDrain", NEW e \in Effects(o)
    PROVE  /\ e.eff = "kVecDrain" => e.table = o.head /\ e.role = Queue(o.sign)
           /\ e.eff = "kVecAppend" =>
                 /\ e.table = o.head
                 /\ e.role = ClaimSet(o.sign) \/ (Recursive(o.head) /\ e.role = Claimed(o.sign))
           /\ e.eff # "kFlagRead"
<1>1. e \in ClaimDrainEffects(o)
  BY DEF Effects
<1>2. \/ e = Drain(o.head, Queue(o.sign)) \/ e = FlagWrite(o.head)
      \/ e = AppendTo(o.head, ClaimSet(o.sign))
      \/ Recursive(o.head) /\ (\/ e = AppendTo(o.head, Claimed(o.sign))
                               \/ e = Clear(o.head, Queue(o.sign)))
  BY <1>1 DEF ClaimDrainEffects
<1> QED
  BY <1>2, EffectFields

LEMMA FilterEffects ==
    ASSUME NEW o, o.kind = "kFrontierFilter", NEW e \in Effects(o)
    PROVE  /\ e.eff = "kVecDrain" => e.table = o.head /\ e.role = ClaimSet(o.sign)
           /\ e.eff = "kVecAppend" => e.table = o.head /\ e.role = Frontier(o.sign)
           /\ e.eff = "kFlagRead" =>
                 e.table = o.head /\ e.arg \in {"kNetDeleted", "kNetAdded"}
<1>1. e \in FrontierFilterEffects(o)
  BY DEF Effects
<1>2. \/ e = Drain(o.head, ClaimSet(o.sign))
      \/ e = FlagRead(o.head, IF o.sign < 0 THEN "kNetDeleted" ELSE "kNetAdded")
      \/ e = AppendTo(o.head, Frontier(o.sign))
  BY <1>1 DEF FrontierFilterEffects
<1> QED
  BY <1>2, EffectFields

LEMMA RetireFacts ==
    ASSUME NEW o, o.kind = "kRetire", NEW e \in Effects(o)
    PROVE  /\ e.eff = "kVecDrain" => e.table = o.head /\ e.role = Claimed(o.sign)
           /\ e.eff \notin {"kVecAppend", "kFlagRead"}
<1>1. e \in RetireEffects(o)
  BY DEF Effects
<1>2. e = Drain(o.head, Claimed(o.sign)) \/ e = FlagWrite(o.head)
  BY <1>1 DEF RetireEffects
<1> QED
  BY <1>2, EffectFields

LEMMA RederiveFacts ==
    ASSUME NEW o, o.kind = "kRederive", NEW e \in Effects(o)
    PROVE  /\ e.eff = "kVecDrain" => e.table = o.head /\ e.role = "kOverdeleteSet"
           /\ e.eff = "kVecAppend" => e.table = o.head /\ e.role = "kAddQueue"
           /\ e.eff = "kFlagRead" => e.arg = "kRecursivelySupported"
<1>1. e \in RederiveEffects(o)
  BY DEF Effects
<1>2. \/ e = Drain(o.head, "kOverdeleteSet") \/ e = FlagRead(o.head, "kRecursivelySupported")
      \/ e = AppendTo(o.head, "kAddQueue")
  BY <1>1 DEF RederiveEffects
<1> QED
  BY <1>2, EffectFields

LEMMA IngestFacts ==
    ASSUME NEW o, o.kind = "kIngestFold", NEW e \in Effects(o)
    PROVE  /\ e.eff \notin {"kVecDrain", "kFlagRead"}
           /\ e.eff = "kVecAppend" => e.table = o.head /\ e.role = IngestRole(o)
<1>1. e \in IngestFoldEffects(o)
  BY DEF Effects
<1>2. \/ e = Counter(o.head, "kNonRecursive")
      \/ e \in {AppendTo(o.head, r) : r \in {IngestRole(o)} \ {"kEmpty"}}
  BY <1>1 DEF IngestFoldEffects
<1>3. e = Counter(o.head, "kNonRecursive") \/ e = AppendTo(o.head, IngestRole(o))
  BY <1>2
<1> QED
  BY <1>3, EffectFields

LEMMA OtherEffects ==
    ASSUME NEW o, o.kind \in {"kCommitSweep", "kStateSeal", "kNegateGate"}, NEW e \in Effects(o)
    PROVE  /\ e.eff \notin {"kVecDrain", "kVecAppend"}
           /\ e.eff = "kFlagRead" => e.arg \in {"kPresent", "kInI"}
<1>1. CASE o.kind = "kCommitSweep"
  <2>1. e \in CommitSweepEffects(o)
    BY <1>1 DEF Effects
  <2>2. e = FlagWrite(o.head) \/ e = CrossingRead(o.head)
    BY <2>1 DEF CommitSweepEffects
  <2> QED
    BY <2>2, EffectFields
<1>2. CASE o.kind = "kStateSeal"
  <2>1. e = Fx("kStateFold", o.head, "-", "0")
    BY <1>2 DEF Effects, StateSealEffects
  <2>2. e.eff = "kStateFold"
    BY <2>1 DEF Fx
  <2> QED
    BY <2>2
<1>3. CASE o.kind = "kNegateGate"
  <2> DEFINE pred == NegateGatePred("kEager", IF prog.kind[o.head] = "never"
                                              THEN "kNever" ELSE "kNormal")
  <2>1. e \in NegateGateEffects(o)
    BY <1>3 DEF Effects
  <2>2. pred \in {"kPresent", "kInI"}
    BY DEF NegateGatePred
  <2>3. \E w : e = FlagRead(w, pred)
    BY <2>1 DEF NegateGateEffects
  <2> QED
    BY <2>2, <2>3, EffectFields
<1> QED
  BY <1>1, <1>2, <1>3

-----------------------------------------------------------------------------
(* Where the operations are emitted.  Those outside the rounds run at the  *)
(* stratum of a unit.                                                      *)
OuterKinds == {"kCrossover", "kProductArm", "kGroupUpdate", "kSeedFold", "kPivotSeed"}

Stamped == DRStrataParameters /\ Inv /\ flowStage \notin {"lift", "stamp"}

(* What the unit of an operation reads.                                    *)
Uses(o) == IF o.kind = "kSeedFold" THEN {o.of} ELSE prog.reads[o.head]

LEMMA StampedFacts ==
    ASSUME Stamped
    PROVE  /\ prog \in Programs /\ scc = SccMap(prog)
           /\ unitStratum \in [Units(prog) -> Nat] /\ drain \in [prog.phase -> Nat]
           /\ \A u \in Units(prog) :
                 /\ unitStratum[u] <= drain[u.head]
                 /\ \A t \in ReadsOf(u) \cap prog.phase :
                       \/ drain[t] < unitStratum[u]
                       \/ SameScc(u.head, t) /\ drain[t] = drain[u.head]
           /\ \A t \in prog.phase : Recursive(t) => round[scc[t]] = drain[t]
           /\ prog.phase \subseteq Table
  BY LegalFacts
     DEF Stamped, Inv, LiftTyped, StrataExact, EstablishesWellFormed, WellFormed, Recursive

LEMMA UnitFound ==
    ASSUME Stamped, NEW o, NEW families,
           NEW u0 \in Units(prog), u0.family \in families, u0.head = o.head,
           u0.family = "branch" => o.of \in u0.from
    PROVE  /\ UnitOf(o, families) \in Units(prog)
           /\ UnitOf(o, families).family \in families
           /\ UnitOf(o, families).head = o.head
           /\ UnitOf(o, families).family = "branch" => o.of \in UnitOf(o, families).from
<1> DEFINE Is(u) == /\ u.family \in families /\ u.head = o.head
                    /\ u.family = "branch" => o.of \in u.from
           found == CHOOSE u \in DOMAIN unitStratum : Is(u)
<1>1. Is(u0) /\ u0 \in DOMAIN unitStratum
  BY StampedFacts
<1>2. UnitOf(o, families) = found
  BY DEF UnitOf
<1> HIDE DEF Is
<1>3. found \in DOMAIN unitStratum /\ Is(found)
  BY <1>1
<1> HIDE DEF found
<1>4. found \in Units(prog)
  BY <1>3, StampedFacts
<1> QED
  BY <1>2, <1>3, <1>4 DEF Is

(* The unit of an operation runs after what it uses.                       *)
LEMMA UnitPlace ==
    ASSUME Stamped, NEW o, NEW family \in {"branch", "join", "crossover", "product", "groupUpdate"},
           NEW u0 \in Units(prog), u0.family = family, u0.head = o.head,
           family = "branch" => o.of \in u0.from,
           NEW t \in prog.phase, t \in IF family = "branch" THEN {o.of} ELSE prog.reads[o.head]
    PROVE  /\ o.head \in prog.phase
           /\ unitStratum[UnitOf(o, {family})] \in Nat /\ drain[o.head] \in Nat /\ drain[t] \in Nat
           /\ unitStratum[UnitOf(o, {family})] <= drain[o.head]
           /\ \/ drain[t] < unitStratum[UnitOf(o, {family})]
              \/ SameScc(o.head, t) /\ drain[t] = drain[o.head]
<1> DEFINE u == UnitOf(o, {family})
<1>1. u \in Units(prog) /\ u.family = family /\ u.head = o.head
      /\ (u.family = "branch" => o.of \in u.from)
  <2> DEFINE F == {family}
  <2>1. u0.family \in F /\ (u0.family = "branch" => o.of \in u0.from)
    OBVIOUS
  <2> HIDE DEF F
  <2>2. /\ UnitOf(o, F) \in Units(prog) /\ UnitOf(o, F).family \in F
        /\ UnitOf(o, F).head = o.head
        /\ UnitOf(o, F).family = "branch" => o.of \in UnitOf(o, F).from
    BY <2>1, UnitFound
  <2> QED
    BY <2>2 DEF F
<1> HIDE DEF u
<1>2. DRStrataParameters /\ prog \in Programs
  BY StampedFacts DEF Stamped
<1>3. u.head \in prog.phase /\ (u.family \notin {"branch", "toJoin"} => u.from = prog.reads[u.head])
  BY <1>1, <1>2, UnitFacts
<1>4. t \in ReadsOf(u) \cap prog.phase
  BY <1>1, <1>3 DEF ReadsOf
<1>5. /\ unitStratum[u] \in Nat /\ drain[u.head] \in Nat /\ drain[t] \in Nat
      /\ unitStratum[u] <= drain[u.head]
      /\ drain[t] < unitStratum[u] \/ (SameScc(u.head, t) /\ drain[t] = drain[u.head])
  <2>1. unitStratum[u] \in Nat /\ drain[u.head] \in Nat /\ drain[t] \in Nat
    BY <1>1, <1>3, StampedFacts
  <2> QED
    BY <1>1, <1>4, <2>1, StampedFacts
<1> QED
  BY <1>1, <1>3, <1>5 DEF u

LEMMA UnitNumber ==
    ASSUME Stamped, NEW o, NEW family \in {"branch", "join", "crossover", "product", "groupUpdate"},
           NEW u0 \in Units(prog), u0.family = family, u0.head = o.head,
           family = "branch" => o.of \in u0.from
    PROVE  /\ o.head \in prog.phase /\ drain[o.head] \in Nat
           /\ unitStratum[UnitOf(o, {family})] \in Nat
           /\ unitStratum[UnitOf(o, {family})] <= drain[o.head]
<1> DEFINE F == {family}
           u == UnitOf(o, F)
<1>1. u0.family \in F /\ (u0.family = "branch" => o.of \in u0.from)
  OBVIOUS
<1> HIDE DEF F
<1>2. u \in Units(prog) /\ u.head = o.head
  BY <1>1, UnitFound
<1> HIDE DEF u
<1>3. DRStrataParameters /\ prog \in Programs
  BY StampedFacts DEF Stamped
<1>4. u.head \in prog.phase
  BY <1>2, <1>3, UnitFacts
<1>5. unitStratum[u] \in Nat /\ drain[u.head] \in Nat /\ unitStratum[u] <= drain[u.head]
  BY <1>2, <1>4, StampedFacts
<1> QED
  BY <1>2, <1>4, <1>5 DEF u, F

FamilyOf(o) ==
    CASE o.kind = "kCrossover" -> "crossover"
      [] o.kind = "kProductArm" -> "product"
      [] o.kind = "kGroupUpdate" -> "groupUpdate"
      [] o.kind = "kSeedFold" -> "branch"
      [] o.kind = "kPivotSeed" -> "join"

LEMMA OuterUnit ==
    ASSUME Stamped, NEW o \in Inventory, o.kind \in OuterKinds
    PROVE  /\ FamilyOf(o) \in {"branch", "join", "crossover", "product", "groupUpdate"}
           /\ \E u \in Units(prog) : /\ u.family = FamilyOf(o) /\ u.head = o.head
                                     /\ FamilyOf(o) = "branch" => o.of \in u.from
           /\ OpStratum(o) = unitStratum[UnitOf(o, {FamilyOf(o)})]
           /\ FamilyOf(o) = "branch" <=> o.kind = "kSeedFold"
<1>1. CASE o.kind = "kCrossover"
  <2>1. Unit("crossover", o.head, prog.reads[o.head]) \in Units(prog)
    BY <1>1, InventoryFacts, CrossoverFacts
  <2>2. FamilyOf(o) = "crossover"
    BY <1>1 DEF FamilyOf
  <2>3. OpStratum(o) = unitStratum[UnitOf(o, {"crossover"})]
    BY <1>1 DEF OpStratum
  <2> QED
    BY <1>1, <2>1, <2>2, <2>3, UnitFields
<1>2. CASE o.kind = "kProductArm"
  <2>1. Unit("product", o.head, prog.reads[o.head]) \in Units(prog)
    BY <1>2, InventoryFacts, ProductFacts
  <2>2. FamilyOf(o) = "product"
    BY <1>2 DEF FamilyOf
  <2>3. OpStratum(o) = unitStratum[UnitOf(o, {"product"})]
    BY <1>2 DEF OpStratum
  <2> QED
    BY <1>2, <2>1, <2>2, <2>3, UnitFields
<1>3. CASE o.kind = "kGroupUpdate"
  <2>1. Unit("groupUpdate", o.head, prog.reads[o.head]) \in Units(prog)
    BY <1>3, InventoryFacts, GroupUpdateFacts
  <2>2. FamilyOf(o) = "groupUpdate"
    BY <1>3 DEF FamilyOf
  <2>3. OpStratum(o) = unitStratum[UnitOf(o, {"groupUpdate"})]
    BY <1>3 DEF OpStratum
  <2> QED
    BY <1>3, <2>1, <2>2, <2>3, UnitFields
<1>4. CASE o.kind = "kSeedFold"
  <2>1. Unit("branch", o.head, {o.of}) \in Units(prog)
    BY <1>4, InventoryFacts, SeedFacts
  <2>2. FamilyOf(o) = "branch"
    BY <1>4 DEF FamilyOf
  <2>3. OpStratum(o) = unitStratum[UnitOf(o, {"branch"})]
    BY <1>4 DEF OpStratum
  <2>4. /\ Unit("branch", o.head, {o.of}).family = "branch"
        /\ Unit("branch", o.head, {o.of}).head = o.head
        /\ o.of \in Unit("branch", o.head, {o.of}).from
    BY UnitFields
  <2> QED
    BY <1>4, <2>1, <2>2, <2>3, <2>4
<1>5. CASE o.kind = "kPivotSeed"
  <2>1. o.head \in prog.phase /\ prog.kind[o.head] = "join"
    BY <1>5, InventoryFacts, SeedFacts
  <2>2. Unit("join", o.head, prog.reads[o.head]) \in Units(prog)
    BY <2>1 DEF FilledBy, Joins, Units
  <2>3. FamilyOf(o) = "join"
    BY <1>5 DEF FamilyOf
  <2>4. OpStratum(o) = unitStratum[UnitOf(o, {"join"})]
    BY <1>5 DEF OpStratum
  <2> QED
    BY <1>5, <2>2, <2>3, <2>4, UnitFields
<1> QED
  BY <1>1, <1>2, <1>3, <1>4, <1>5 DEF OuterKinds

LEMMA OuterPlace ==
    ASSUME Stamped, NEW o \in Inventory, o.kind \in OuterKinds
    PROVE  /\ o.head \in prog.phase
           /\ Lead(o) = 1 /\ EmitBand(o) \in 1..5
           /\ EmitStratum(o) \in Nat /\ drain[o.head] \in Nat
           /\ EmitStratum(o) <= drain[o.head]
           /\ \A t \in Uses(o) \cap prog.phase :
                 /\ drain[t] \in Nat
                 /\ \/ drain[t] < EmitStratum(o)
                    \/ SameScc(o.head, t) /\ drain[t] = drain[o.head]
<1>1. /\ FamilyOf(o) \in {"branch", "join", "crossover", "product", "groupUpdate"}
      /\ OpStratum(o) = unitStratum[UnitOf(o, {FamilyOf(o)})]
      /\ FamilyOf(o) = "branch" <=> o.kind = "kSeedFold"
  BY OuterUnit
<1>2. PICK u \in Units(prog) : /\ u.family = FamilyOf(o) /\ u.head = o.head
                               /\ FamilyOf(o) = "branch" => o.of \in u.from
  BY OuterUnit
<1>3. Lead(o) = 1 /\ ~EmittedInRounds(o) /\ EmitBand(o) \in 1..5
  <2>1. Lead(o) = 1
    BY DEF OuterKinds, Lead
  <2>2. ~EmittedInRounds(o)
    BY DEF OuterKinds, EmittedInRounds, Looped
  <2>3. FlowBand(o) \in {1, 3, 4, 5}
    BY DEF OuterKinds, FlowBand
  <2>4. EmitBand(o) = FlowBand(o)
    BY <2>2 DEF EmitBand
  <2> QED
    BY <2>1, <2>2, <2>3, <2>4
<1>4. EmitStratum(o) = OpStratum(o)
  BY <1>3 DEF EmitStratum
<1> HIDE DEF FamilyOf
<1> DEFINE f == FamilyOf(o)
<1>5. /\ o.head \in prog.phase /\ drain[o.head] \in Nat
      /\ unitStratum[UnitOf(o, {f})] \in Nat /\ unitStratum[UnitOf(o, {f})] <= drain[o.head]
  <2>1. f \in {"branch", "join", "crossover", "product", "groupUpdate"} /\ u.family = f
        /\ (f = "branch" => o.of \in u.from)
    BY <1>1, <1>2
  <2> HIDE DEF f
  <2> QED
    BY <1>2, <2>1, UnitNumber
<1>6. ASSUME NEW t \in Uses(o) \cap prog.phase
      PROVE  /\ drain[t] \in Nat
             /\ \/ drain[t] < unitStratum[UnitOf(o, {f})]
                \/ SameScc(o.head, t) /\ drain[t] = drain[o.head]
  <2>1. /\ f \in {"branch", "join", "crossover", "product", "groupUpdate"} /\ u.family = f
        /\ f = "branch" => o.of \in u.from
        /\ t \in IF f = "branch" THEN {o.of} ELSE prog.reads[o.head]
    BY <1>1, <1>2 DEF Uses
  <2> HIDE DEF f
  <2> QED
    BY <1>2, <2>1, UnitPlace
<1> QED
  BY <1>1, <1>3, <1>4, <1>5, <1>6

(* Those in the rounds run at the drain stratum of their SCC.              *)
LEMMA RoundPlace ==
    ASSUME Stamped, NEW o \in Inventory, o.kind \in Looped, Recursive(o.head)
    PROVE  /\ o.head \in prog.phase /\ drain[o.head] \in Nat
           /\ Lead(o) = 1 /\ EmitStratum(o) = drain[o.head]
           /\ EmitBand(o) = 8 + RoundSlot(o) /\ RoundSlot(o) \in 0..9
<1>1. o.head \in prog.phase
  BY InventoryFacts, ChainFacts, FireFacts, PhaseOpFacts DEF Looped
<1>2. Lead(o) = 1
  BY DEF Looped, Lead
<1>3. EmittedInRounds(o)
  BY DEF EmittedInRounds
<1>4. RoundSlot(o) \in 0..9
  BY DEF Looped, RoundSlot
<1>5. round[scc[o.head]] = drain[o.head] /\ drain[o.head] \in Nat
  BY <1>1, StampedFacts
<1> QED
  BY <1>1, <1>2, <1>3, <1>4, <1>5 DEF EmitStratum, EmitBand

LEMMA DrainPlace ==
    ASSUME Stamped, NEW o \in Inventory, o.kind \in {"kClaimDrain", "kFrontierFilter"},
           ~Recursive(o.head)
    PROVE  /\ o.head \in prog.phase /\ drain[o.head] \in Nat
           /\ Lead(o) = 1 /\ EmitStratum(o) = drain[o.head]
           /\ EmitBand(o) = IF o.kind = "kClaimDrain" THEN 6 ELSE 7
<1>1. o.head \in prog.phase
  BY InventoryFacts, PhaseOpFacts
<1>2. Lead(o) = 1
  BY DEF Lead
<1>3. ~EmittedInRounds(o)
  BY DEF EmittedInRounds
<1>4. OpStratum(o) = drain[o.head] /\ drain[o.head] \in Nat
  BY <1>1, StampedFacts DEF OpStratum
<1>5. FlowBand(o) = IF o.kind = "kClaimDrain" THEN 6 ELSE 7
  BY DEF FlowBand
<1> QED
  BY <1>1, <1>2, <1>3, <1>4, <1>5 DEF EmitStratum, EmitBand

(* A claim or a retirement of a table, whether in rounds or not.           *)
LEMMA ClaimPlace ==
    ASSUME Stamped, NEW c \in Inventory, c.kind \in {"kClaimDrain", "kRetire"}
    PROVE  /\ c.head \in prog.phase /\ drain[c.head] \in Nat
           /\ Lead(c) = 1 /\ EmitStratum(c) = drain[c.head] /\ EmitBand(c) \in 6..16
           /\ Recursive(c.head) => EmitBand(c) >= 8
<1>1. CASE Recursive(c.head)
  <2>1. c.kind \in Looped
    BY DEF Looped
  <2>2. RoundSlot(c) \in 0..8
    BY DEF RoundSlot
  <2> QED
    BY <1>1, <2>1, <2>2, RoundPlace
<1>2. CASE ~Recursive(c.head)
  <2>1. c.kind = "kClaimDrain"
    BY <1>2, InventoryFacts, PhaseOpFacts
  <2> QED
    BY <1>2, <2>1, DrainPlace
<1> QED
  BY <1>1, <1>2

(* The filter of a table comes after its claims and retirements.           *)
LEMMA FilterPlace ==
    ASSUME Stamped, NEW f \in Inventory, f.kind = "kFrontierFilter"
    PROVE  /\ f.head \in prog.phase /\ drain[f.head] \in Nat
           /\ Lead(f) = 1 /\ EmitStratum(f) = drain[f.head]
           /\ EmitBand(f) = IF Recursive(f.head) THEN 17 ELSE 7
<1>1. CASE Recursive(f.head)
  <2>1. f.kind \in Looped
    BY DEF Looped
  <2>2. RoundSlot(f) = 9
    BY DEF RoundSlot
  <2> QED
    BY <1>1, <2>1, <2>2, RoundPlace
<1>2. CASE ~Recursive(f.head)
  BY <1>2, DrainPlace
<1> QED
  BY <1>1, <1>2

(* What comes before in the lexicographic order of the places.             *)
LEMMA BeforeFacts ==
    ASSUME NEW a, NEW b, Lead(a) = 1, Lead(b) = 1
    PROVE  /\ EmitStratum(a) < EmitStratum(b) => Before(a, b)
           /\ EmitStratum(a) = EmitStratum(b) /\ EmitBand(a) < EmitBand(b) => Before(a, b)
           /\ Before(a, b) => \/ EmitStratum(a) < EmitStratum(b)
                              \/ EmitStratum(a) = EmitStratum(b) /\ EmitBand(a) < EmitBand(b)
  BY DEF Before

-----------------------------------------------------------------------------
(* The vectors an operation appends to and drains, by their roles.         *)
Queues == {"kDeleteQueue", "kAddQueue"}
ClaimSets == {"kOverdeleteSet", "kAdditionSet"}
ClaimedSets == {"kClaimedDel", "kClaimedAdd"}
Frontiers == {"kNetRemoval", "kNetAddition"}

LEMMA RoleFacts ==
    /\ \A s : /\ Queue(s) \in Queues /\ ClaimSet(s) \in ClaimSets
              /\ Claimed(s) \in ClaimedSets /\ Frontier(s) \in Frontiers
    /\ \A s, z \in {-1, 1} : /\ Queue(s) = Queue(z) => s = z
                             /\ ClaimSet(s) = ClaimSet(z) => s = z
                             /\ Claimed(s) = Claimed(z) => s = z
    /\ \A s \in {-1, 1} : /\ Queue(s) = "kAddQueue" => s = 1
                          /\ ClaimSet(s) = "kOverdeleteSet" => s = -1
  BY DEF Queue, ClaimSet, Claimed, Frontier, Queues, ClaimSets, ClaimedSets, Frontiers

LEMMA AppendFacts ==
    ASSUME NEW a \in Inventory, a.kind # "kPivotAssemble",
           NEW x \in Effects(a), x.eff = "kVecAppend"
    PROVE  /\ x.table = a.head
           /\ x.role \in Queues =>
                 \/ a.kind \in OuterKinds \ {"kPivotSeed"}
                 \/ a.kind \in {"kChainFold", "kFixpointFire"} /\ x.role = Queue(a.sign)
                 \/ a.kind = "kRederive" /\ x.role = "kAddQueue"
                 \/ a.kind = "kIngestFold"
           /\ x.role = "kJoinPivots" => a.kind = "kPivotSeed"
           /\ x.role \in ClaimSets => a.kind = "kClaimDrain" /\ x.role = ClaimSet(a.sign)
           /\ x.role \in ClaimedSets =>
                 a.kind = "kClaimDrain" /\ Recursive(a.head) /\ x.role = Claimed(a.sign)
           /\ x.role \in Frontiers => a.kind \in {"kFrontierFilter", "kIngestFold"}
<1>1. CASE a.kind = "kCrossover"
  BY <1>1, CrossoverEffects, RoleFacts DEF Queues, ClaimSets, ClaimedSets, Frontiers, OuterKinds
<1>2. CASE a.kind = "kProductArm"
  BY <1>2, ProductEffects, RoleFacts DEF Queues, ClaimSets, ClaimedSets, Frontiers, OuterKinds
<1>3. CASE a.kind = "kGroupUpdate"
  <2>1. x.table = a.head /\ x.role \in Queues
    BY <1>3, GroupEffects, RoleFacts
  <2> QED
    BY <1>3, <2>1 DEF Queues, ClaimSets, ClaimedSets, Frontiers, OuterKinds
<1>4. CASE a.kind = "kSeedFold"
  BY <1>4, SeedEffects, RoleFacts DEF Queues, ClaimSets, ClaimedSets, Frontiers, OuterKinds
<1>5. CASE a.kind = "kPivotSeed"
  <2>1. x.table = a.head /\ x.role = "kJoinPivots"
    BY <1>5, SeedEffects
  <2> QED
    BY <1>5, <2>1 DEF Queues, ClaimSets, ClaimedSets, Frontiers
<1>6. CASE a.kind = "kChainFold"
  BY <1>6, ChainEffects, RoleFacts DEF Queues, ClaimSets, ClaimedSets, Frontiers
<1>7. CASE a.kind = "kFixpointFire"
  BY <1>7, FireEffects, RoleFacts DEF Queues, ClaimSets, ClaimedSets, Frontiers
<1>8. CASE a.kind = "kClaimDrain"
  <2>1. /\ x.table = a.head
        /\ \/ x.role = ClaimSet(a.sign) /\ x.role \in ClaimSets
           \/ Recursive(a.head) /\ x.role = Claimed(a.sign) /\ x.role \in ClaimedSets
    BY <1>8, ClaimEffects, RoleFacts
  <2> QED
    BY <1>8, <2>1 DEF Queues, ClaimSets, ClaimedSets, Frontiers
<1>9. CASE a.kind = "kFrontierFilter"
  BY <1>9, FilterEffects, RoleFacts DEF Queues, ClaimSets, ClaimedSets, Frontiers
<1>10. CASE a.kind = "kRederive"
  BY <1>10, RederiveFacts DEF Queues, ClaimSets, ClaimedSets, Frontiers
<1>11. CASE a.kind = "kIngestFold"
  <2>1. x.table = a.head /\ x.role = IngestRole(a)
    BY <1>11, IngestFacts
  <2>2. IngestRole(a) \in Queues \cup {"kNetAddition", "kEmpty"}
    BY RoleFacts DEF IngestRole, MonotoneIngestRole
  <2> QED
    BY <1>11, <2>1, <2>2 DEF Queues, ClaimSets, ClaimedSets, Frontiers
<1>12. CASE a.kind \in {"kRetire", "kCommitSweep", "kStateSeal", "kNegateGate"}
  BY <1>12, RetireFacts, OtherEffects
<1> QED
  BY <1>1, <1>2, <1>3, <1>4, <1>5, <1>6, <1>7, <1>8, <1>9, <1>10, <1>11, <1>12, InventoryFacts

(* A table negated or read by a product is never of the reader's SCC.      *)
LEMMA AnotherScc ==
    ASSUME Stamped, NEW t \in prog.phase, NEW w \in prog.reads[t],
           w \in prog.negated[t] \/ prog.kind[t] \in {"product", "aggregate"}
    PROVE  ~SameScc(t, w)
<1>0. DRStrataParameters /\ prog \in Programs /\ scc = SccMap(prog)
  BY StampedFacts DEF Stamped
<1>1. t \in Table /\ w \in Table
  BY <1>0, LegalFacts
<1>2. SameScc(t, w) => Cyclic(prog, t, w)
  BY <1>0, <1>1, SccFacts
<1>3. CASE w \in prog.negated[t]
  BY <1>0, <1>1, <1>2, <1>3, LegalFacts
<1>4. CASE prog.kind[t] \in {"product", "aggregate"}
  <2>1. Cyclic(prog, t, w) => Cyclic(prog, t, t)
    BY <1>0, <1>1, CyclicFacts
  <2> QED
    BY <1>0, <1>1, <1>2, <1>4, <2>1, LegalFacts
<1> QED
  BY <1>3, <1>4

LEMMA DrainFacts ==
    ASSUME Stamped, NEW o \in Inventory, o.kind # "kPivotAssemble",
           NEW e \in Effects(o), e.eff = "kVecDrain"
    PROVE  \/ /\ e.role \in Queues /\ o.kind = "kClaimDrain"
              /\ e.table = o.head /\ e.role = Queue(o.sign)
           \/ e.role = "kJoinPivots" /\ o.kind = "kFixpointFire" /\ e.table = o.head
           \/ /\ e.role \in ClaimSets /\ e.table = o.head
              /\ \/ o.kind = "kFrontierFilter" /\ e.role = ClaimSet(o.sign)
                 \/ o.kind = "kRederive" /\ e.role = "kOverdeleteSet"
           \/ /\ e.role \in ClaimedSets /\ e.role = Claimed(o.sign)
              /\ o.kind \in {"kChainFold", "kFixpointFire", "kRetire"}
              /\ e.table = o.head \/ SameScc(o.head, e.table)
              /\ e.table \in Table
           \/ /\ e.role \in Frontiers /\ o.kind \in OuterKinds /\ e.table \in Uses(o)
              /\ o.kind # "kPivotSeed" => ~SameScc(o.head, e.table)
<1>0. DRStrataParameters /\ prog \in Programs /\ scc = SccMap(prog)
  BY StampedFacts DEF Stamped
<1>1. CASE o.kind = "kCrossover"
  <2>1. o.head \in prog.phase /\ o.of \in prog.negated[o.head]
    BY <1>1, InventoryFacts, CrossoverFacts
  <2>2. o.of \in prog.reads[o.head]
    BY <1>0, <2>1, LegalFacts
  <2>3. e.table = o.of /\ e.role \in Frontiers
    BY <1>1, CrossoverEffects, RoleFacts
  <2>4. ~SameScc(o.head, o.of)
    BY <2>1, <2>2, AnotherScc
  <2> QED
    BY <1>1, <2>2, <2>3, <2>4 DEF OuterKinds, Uses
<1>2. CASE o.kind = "kProductArm"
  <2>1. o.head \in prog.phase /\ o.of \in prog.reads[o.head] /\ prog.kind[o.head] = "product"
    BY <1>2, InventoryFacts, ProductFacts
  <2>2. e.table = o.of /\ e.role \in Frontiers
    BY <1>2, ProductEffects, RoleFacts
  <2>3. ~SameScc(o.head, o.of)
    BY <2>1, AnotherScc
  <2> QED
    BY <1>2, <2>1, <2>2, <2>3 DEF OuterKinds, Uses
<1>3. CASE o.kind = "kGroupUpdate"
  <2>1. o.head \in prog.phase /\ prog.kind[o.head] = "aggregate"
    BY <1>3, InventoryFacts, GroupUpdateFacts
  <2>2. e.table \in prog.reads[o.head] /\ e.role \in Frontiers
    BY <1>3, GroupEffects, RoleFacts
  <2>3. ~SameScc(o.head, e.table)
    BY <2>1, <2>2, AnotherScc
  <2> QED
    BY <1>3, <2>2, <2>3 DEF OuterKinds, Uses
<1>4. CASE o.kind \in {"kSeedFold", "kPivotSeed"}
  <2>1. o.of \in prog.reads[o.head] /\ (o.kind = "kSeedFold" => ~SameScc(o.head, o.of))
    BY <1>4, InventoryFacts, SeedFacts
  <2>2. e.table = o.of /\ e.role \in Frontiers
    BY <1>4, SeedEffects, RoleFacts
  <2> QED
    BY <1>4, <2>1, <2>2 DEF OuterKinds, Uses
<1>5. CASE o.kind = "kChainFold"
  <2>1. o.head \in prog.phase /\ SameScc(o.head, o.of) /\ o.of \in prog.reads[o.head]
    BY <1>5, InventoryFacts, ChainFacts
  <2>2. o.of \in Table
    BY <1>0, <2>1, LegalFacts
  <2> QED
    BY <1>5, <2>1, <2>2, ChainEffects, RoleFacts
<1>6. CASE o.kind = "kFixpointFire"
  <2>1. o.head \in prog.phase
    BY <1>6, InventoryFacts, FireFacts
  <2>2. prog.reads[o.head] \subseteq Table
    BY <1>0, <2>1, LegalFacts
  <2>3. \/ e.table \in FireDeltas(o.head) /\ e.role = Claimed(o.sign)
        \/ e.table = o.head /\ e.role = "kJoinPivots"
    BY <1>6, FireEffects
  <2> QED
    BY <1>6, <2>2, <2>3, RoleFacts DEF FireDeltas
<1>7. CASE o.kind = "kClaimDrain"
  BY <1>7, ClaimEffects, RoleFacts
<1>8. CASE o.kind = "kFrontierFilter"
  BY <1>8, FilterEffects, RoleFacts
<1>9. CASE o.kind = "kRetire"
  <2>1. o.head \in Table
    BY <1>0, <1>9, InventoryFacts, PhaseOpFacts, LegalFacts
  <2> QED
    BY <1>9, <2>1, RetireFacts, RoleFacts
<1>10. CASE o.kind = "kRederive"
  BY <1>10, RederiveFacts DEF ClaimSets
<1>11. CASE o.kind \in {"kIngestFold", "kCommitSweep", "kStateSeal", "kNegateGate"}
  BY <1>11, IngestFacts, OtherEffects
<1> QED
  BY <1>1, <1>2, <1>3, <1>4, <1>5, <1>6, <1>7, <1>8, <1>9, <1>10, <1>11, InventoryFacts

(* Phase-owned tables of one SCC are drained together.                     *)
LEMMA DrainedTogether ==
    ASSUME Stamped, NEW t \in prog.phase, NEW w \in prog.phase, SameScc(t, w)
    PROVE  drain[t] = drain[w] /\ Recursive(t) /\ Recursive(w)
<1>1. Recursive(t) /\ Recursive(w) /\ scc[t] = scc[w]
  BY DEF SameScc, Recursive
<1> QED
  BY <1>1, StampedFacts

-----------------------------------------------------------------------------
(* A vector is complete before it is drained.                              *)
LEMMA VectorComplete ==
    ASSUME Stamped,
           NEW o \in Inventory, o.kind # "kPivotAssemble",
           NEW a \in Inventory, a.kind # "kPivotAssemble",
           NEW e \in Effects(o), e.eff = "kVecDrain",
           NEW x \in Effects(a), x.eff = "kVecAppend", x.table = e.table, x.role = e.role
    PROVE  Before(a, o) \/ SameLoop(a, o) \/ DrainsNothing(o, e.table)
<1>0. a.head = e.table
  BY AppendFacts
<1>1. CASE /\ e.role \in Queues /\ o.kind = "kClaimDrain"
           /\ e.table = o.head /\ e.role = Queue(o.sign)
  <2>0. /\ o.head \in prog.phase /\ drain[o.head] \in Nat /\ Lead(o) = 1
        /\ EmitStratum(o) = drain[o.head] /\ EmitBand(o) \in 6..16
    BY <1>1, ClaimPlace
  <2>1. CASE a.kind \in OuterKinds
    <3>1. /\ Lead(a) = 1 /\ EmitBand(a) \in 1..5 /\ EmitStratum(a) \in Nat
          /\ EmitStratum(a) <= drain[o.head]
      BY <1>0, <1>1, <2>1, OuterPlace
    <3>2. EmitStratum(a) < EmitStratum(o)
          \/ (EmitStratum(a) = EmitStratum(o) /\ EmitBand(a) < EmitBand(o))
      BY <2>0, <3>1
    <3> QED
      BY <2>0, <3>1, <3>2, BeforeFacts
  <2>2. CASE a.kind \in {"kChainFold", "kFixpointFire"} /\ x.role = Queue(a.sign)
    <3>1. Recursive(a.head) /\ a.sign \in {-1, 1}
      BY <2>2, InventoryFacts, ChainFacts, FireFacts DEF SameScc, Recursive
    <3>2. o.sign \in {-1, 1}
      BY <1>1, InventoryFacts, PhaseOpFacts
    <3>3. a.sign = o.sign
      BY <1>1, <2>2, <3>1, <3>2, RoleFacts
    <3>4. InRound(a) /\ InRound(o) /\ SameScc(a.head, o.head)
      BY <1>0, <1>1, <2>2, <3>1 DEF InRound, SameScc, Recursive
    <3> QED
      BY <3>3, <3>4 DEF SameLoop
  <2>3. CASE a.kind = "kRederive" /\ x.role = "kAddQueue"
    <3>1. Recursive(a.head)
      BY <2>3, InventoryFacts, PhaseOpFacts
    <3>2. o.sign = 1
      BY <1>1, <2>3, InventoryFacts, PhaseOpFacts, RoleFacts
    <3>3. RoundSlot(a) = 4 /\ RoundSlot(o) = 5
      BY <1>1, <2>3, <3>2 DEF RoundSlot
    <3>4. a.kind \in Looped /\ o.kind \in Looped
      BY <1>1, <2>3 DEF Looped
    <3>5. /\ Lead(a) = 1 /\ EmitStratum(a) = drain[o.head] /\ EmitBand(a) = 12
          /\ EmitBand(o) = 13
      BY <1>0, <1>1, <3>1, <3>3, <3>4, RoundPlace
    <3> QED
      BY <2>0, <3>5, BeforeFacts
  <2>4. CASE a.kind = "kIngestFold"
    <3>1. Lead(a) = 0
      BY <2>4 DEF Lead
    <3> QED
      BY <2>0, <3>1 DEF Before
  <2> QED
    BY <1>1, <2>1, <2>2, <2>3, <2>4, AppendFacts
<1>2. CASE e.role = "kJoinPivots" /\ o.kind = "kFixpointFire" /\ e.table = o.head
  <2>1. a.kind = "kPivotSeed"
    BY <1>2, AppendFacts
  <2>2. /\ Lead(a) = 1 /\ EmitBand(a) \in 1..5 /\ EmitStratum(a) \in Nat
        /\ EmitStratum(a) <= drain[o.head]
    BY <1>0, <1>2, <2>1, OuterPlace DEF OuterKinds
  <2>3. o.kind \in Looped /\ Recursive(o.head)
    BY <1>2, InventoryFacts, FireFacts DEF Looped
  <2>4. /\ Lead(o) = 1 /\ EmitStratum(o) = drain[o.head] /\ drain[o.head] \in Nat
        /\ EmitBand(o) = 8 + RoundSlot(o) /\ RoundSlot(o) \in 0..9
    BY <2>3, RoundPlace
  <2>5. EmitStratum(a) < EmitStratum(o)
        \/ (EmitStratum(a) = EmitStratum(o) /\ EmitBand(a) < EmitBand(o))
    BY <2>2, <2>4
  <2> QED
    BY <2>2, <2>4, <2>5, BeforeFacts
<1>3. CASE /\ e.role \in ClaimSets /\ e.table = o.head
           /\ \/ o.kind = "kFrontierFilter" /\ e.role = ClaimSet(o.sign)
              \/ o.kind = "kRederive" /\ e.role = "kOverdeleteSet"
  <2>1. a.kind = "kClaimDrain" /\ x.role = ClaimSet(a.sign)
    BY <1>3, AppendFacts
  <2>2. /\ Lead(a) = 1 /\ EmitStratum(a) = drain[o.head] /\ EmitBand(a) \in 6..16
    BY <1>0, <1>3, <2>1, ClaimPlace
  <2>3. CASE o.kind = "kFrontierFilter"
    <3>1. /\ Lead(o) = 1 /\ EmitStratum(o) = drain[o.head]
          /\ EmitBand(o) = IF Recursive(o.head) THEN 17 ELSE 7
      BY <2>3, FilterPlace
    <3>2. ~Recursive(o.head) => EmitBand(a) = 6
      BY <1>0, <1>3, <2>1, DrainPlace
    <3>3. EmitBand(a) < EmitBand(o)
      BY <2>2, <3>1, <3>2
    <3> QED
      BY <2>2, <3>1, <3>3, BeforeFacts
  <2>4. CASE o.kind = "kRederive" /\ e.role = "kOverdeleteSet"
    <3>1. a.sign = -1
      BY <2>1, <2>4, InventoryFacts, PhaseOpFacts, RoleFacts
    <3>2. Recursive(o.head)
      BY <2>4, InventoryFacts, PhaseOpFacts
    <3>3. RoundSlot(a) = 0 /\ RoundSlot(o) = 4 /\ a.kind \in Looped /\ o.kind \in Looped
      BY <2>1, <2>4, <3>1 DEF RoundSlot, Looped
    <3>4. EmitBand(a) = 8 /\ EmitBand(o) = 12 /\ Lead(o) = 1 /\ EmitStratum(o) = drain[o.head]
      BY <1>0, <1>3, <3>2, <3>3, RoundPlace
    <3> QED
      BY <2>2, <3>4, BeforeFacts
  <2> QED
    BY <1>3, <2>3, <2>4
<1>4. CASE /\ e.role \in ClaimedSets /\ e.role = Claimed(o.sign)
           /\ o.kind \in {"kChainFold", "kFixpointFire", "kRetire"}
           /\ e.table = o.head \/ SameScc(o.head, e.table)
  <2>1. a.kind = "kClaimDrain" /\ Recursive(a.head) /\ x.role = Claimed(a.sign)
    BY <1>4, AppendFacts
  <2>2. /\ o.sign \in {-1, 1} /\ a.sign \in {-1, 1} /\ a.head \in prog.phase
        /\ o.head \in prog.phase
    BY <1>4, <2>1, InventoryFacts, ChainFacts, FireFacts, PhaseOpFacts
  <2>3. a.sign = o.sign
    BY <1>4, <2>1, <2>2, RoleFacts
  <2>4. Recursive(o.head) /\ drain[a.head] = drain[o.head]
    BY <1>0, <1>4, <2>1, <2>2, DrainedTogether
  <2>5. a.kind \in Looped /\ o.kind \in Looped
    BY <1>4, <2>1 DEF Looped
  <2>6. /\ RoundSlot(a) \in 0..9 /\ RoundSlot(o) \in 0..9 /\ RoundSlot(a) < RoundSlot(o)
    BY <1>4, <2>1, <2>2, <2>3 DEF RoundSlot
  <2>7. /\ Lead(a) = 1 /\ Lead(o) = 1 /\ EmitStratum(a) = EmitStratum(o)
        /\ EmitBand(a) = 8 + RoundSlot(a) /\ EmitBand(o) = 8 + RoundSlot(o)
    BY <2>1, <2>4, <2>5, RoundPlace
  <2>8. EmitBand(a) < EmitBand(o)
    BY <2>6, <2>7
  <2> QED
    BY <2>7, <2>8, BeforeFacts
<1>5. CASE /\ e.role \in Frontiers /\ o.kind \in OuterKinds /\ e.table \in Uses(o)
           /\ o.kind # "kPivotSeed" => ~SameScc(o.head, e.table)
  <2>1. /\ Lead(o) = 1 /\ EmitStratum(o) \in Nat
        /\ \A t \in Uses(o) \cap prog.phase :
              /\ drain[t] \in Nat
              /\ \/ drain[t] < EmitStratum(o)
                 \/ SameScc(o.head, t) /\ drain[t] = drain[o.head]
    BY <1>5, OuterPlace
  <2>2. CASE a.kind = "kIngestFold"
    <3>1. Lead(a) = 0
      BY <2>2 DEF Lead
    <3> QED
      BY <2>1, <3>1 DEF Before
  <2>3. CASE a.kind = "kFrontierFilter"
    <3>1. a.head \in prog.phase /\ Lead(a) = 1 /\ EmitStratum(a) = drain[a.head]
      BY <2>3, FilterPlace
    <3>2. CASE SameScc(o.head, e.table)
      BY <1>5, <3>2 DEF DrainsNothing
    <3>3. CASE drain[a.head] < EmitStratum(o)
      BY <2>1, <3>1, <3>3, BeforeFacts
    <3> QED
      BY <1>0, <1>5, <2>1, <3>1, <3>2, <3>3
  <2> QED
    BY <1>5, <2>2, <2>3, AppendFacts
<1> QED
  BY <1>1, <1>2, <1>3, <1>4, <1>5, DrainFacts

(* The operations that read a table as of the end of the batch.            *)
LEMMA NewReads ==
    ASSUME Stamped, NEW o \in Inventory, o.kind # "kPivotAssemble",
           NEW e \in Effects(o), e.eff = "kFlagRead"
    PROVE  /\ e.arg = "kInNew" =>
                 \/ o.kind \in {"kCrossover", "kProductArm"} /\ e.table \in prog.reads[o.head]
                 \/ /\ o.kind = "kChainFold" /\ e.table \in prog.negated[o.head]
                    /\ ~SameScc(o.head, e.table)
                 \/ /\ o.kind = "kFixpointFire" /\ e.table \in prog.reads[o.head]
                    /\ ~SameScc(o.head, e.table)
           /\ e.arg \in {"kNetDeleted", "kNetAdded"} =>
                 o.kind = "kFrontierFilter" /\ e.table = o.head
<1>1. CASE o.kind = "kCrossover"
  BY <1>1, CrossoverEffects
<1>2. CASE o.kind = "kProductArm"
  <2>1. e.table \in prog.reads[o.head] /\ e.arg \in {"kInNew", "kInI"}
    BY <1>2, ProductEffects
  <2> QED
    BY <1>2, <2>1
<1>3. CASE o.kind \in {"kSeedFold", "kPivotSeed"}
  BY <1>3, SeedEffects
<1>4. CASE o.kind = "kChainFold"
  <2>1. e.table \in prog.negated[o.head] /\ e.arg = "kInNew"
    BY <1>4, ChainEffects
  <2>2. o.head \in prog.phase
    BY <1>4, InventoryFacts, ChainFacts
  <2>3. prog.negated[o.head] \subseteq prog.reads[o.head]
    BY <2>2, StampedFacts, LegalFacts DEF Stamped
  <2>4. ~SameScc(o.head, e.table)
    BY <2>1, <2>2, <2>3, AnotherScc
  <2> QED
    BY <1>4, <2>1, <2>4
<1>5. CASE o.kind = "kFixpointFire"
  BY <1>5, FireEffects
<1>6. CASE o.kind \in {"kGroupUpdate", "kClaimDrain", "kRetire", "kIngestFold"}
  BY <1>6, GroupEffects, ClaimEffects, RetireFacts, IngestFacts
<1>7. CASE o.kind = "kFrontierFilter"
  <2>1. e.table = o.head /\ e.arg # "kInNew"
    BY <1>7, FilterEffects
  <2> QED
    BY <1>7, <2>1
<1>8. CASE o.kind = "kRederive"
  BY <1>8, RederiveFacts
<1>9. CASE o.kind \in {"kCommitSweep", "kStateSeal", "kNegateGate"}
  BY <1>9, OtherEffects
<1> QED
  BY <1>1, <1>2, <1>3, <1>4, <1>5, <1>6, <1>7, <1>8, <1>9, InventoryFacts

(* What a fold of the rounds reads from outside its SCC is drained at an   *)
(* earlier stratum.                                                        *)
LEMMA RoundReads ==
    ASSUME Stamped, NEW o \in Inventory, NEW t \in prog.phase, ~SameScc(o.head, t),
           \/ o.kind = "kChainFold" /\ t \in prog.negated[o.head]
           \/ o.kind = "kFixpointFire" /\ t \in prog.reads[o.head]
    PROVE  /\ Lead(o) = 1 /\ EmitStratum(o) \in Nat /\ drain[t] \in Nat
           /\ drain[t] < EmitStratum(o)
<1> DEFINE u == IF o.kind = "kChainFold" THEN Unit("branch", o.head, {o.of})
                ELSE Unit("join", o.head, prog.reads[o.head])
<1>1. u \in Units(prog) /\ u.head = o.head /\ t \in ReadsOf(u)
  <2>1. CASE o.kind = "kChainFold" /\ t \in prog.negated[o.head]
    <3>1. u = Unit("branch", o.head, {o.of}) /\ u \in Units(prog)
      BY <2>1, InventoryFacts, ChainFacts
    <3>2. u.family = "branch" /\ u.head = o.head
      BY <3>1, UnitFields
    <3> QED
      BY <2>1, <3>1, <3>2 DEF ReadsOf
  <2>2. CASE o.kind = "kFixpointFire" /\ t \in prog.reads[o.head]
    <3>1. o.head \in prog.phase /\ prog.kind[o.head] = "join"
      BY <2>2, InventoryFacts, FireFacts
    <3>2. u = Unit("join", o.head, prog.reads[o.head])
      BY <2>2
    <3>3. u \in Units(prog)
      BY <3>1, <3>2 DEF FilledBy, Joins, Units
    <3>4. u.head = o.head /\ u.from = prog.reads[o.head]
      BY <3>2, UnitFields
    <3> QED
      BY <2>2, <3>3, <3>4 DEF ReadsOf
  <2> QED
    BY <2>1, <2>2
<1> HIDE DEF u
<1>2. o.kind \in Looped /\ Recursive(o.head)
  BY InventoryFacts, ChainFacts, FireFacts DEF Looped, SameScc, Recursive
<1>3. /\ Lead(o) = 1 /\ EmitStratum(o) = drain[o.head] /\ drain[o.head] \in Nat
  BY <1>2, RoundPlace
<1>4. unitStratum[u] <= drain[o.head] /\ drain[t] < unitStratum[u]
  BY <1>1, StampedFacts
<1>5. unitStratum[u] \in Nat /\ drain[t] \in Nat
  BY <1>1, StampedFacts
<1> QED
  BY <1>3, <1>4, <1>5

(* Reads of the flags of a table that is claimed or retired in the flow.   *)
LEMMA FlagsSettled ==
    ASSUME Stamped,
           NEW o \in Inventory, o.kind # "kPivotAssemble",
           NEW e \in Effects(o), e.eff = "kFlagRead",
           NEW c \in Inventory, c.kind \in {"kClaimDrain", "kRetire"}, c.head = e.table
    PROVE  /\ e.arg = "kInNew" => IF SameScc(o.head, c.head) THEN Before(o, c) ELSE Before(c, o)
           /\ e.arg \in {"kNetDeleted", "kNetAdded"} => Before(c, o)
<1>0. /\ c.head \in prog.phase /\ drain[c.head] \in Nat
      /\ Lead(c) = 1 /\ EmitStratum(c) = drain[c.head] /\ EmitBand(c) \in 6..16
      /\ Recursive(c.head) => EmitBand(c) >= 8
  BY ClaimPlace
<1>1. ASSUME e.arg = "kInNew", o.kind \in {"kCrossover", "kProductArm"},
             e.table \in prog.reads[o.head]
      PROVE  IF SameScc(o.head, c.head) THEN Before(o, c) ELSE Before(c, o)
  <2>1. c.head \in Uses(o) /\ o.kind \in OuterKinds
    BY <1>1 DEF Uses, OuterKinds
  <2>2. /\ o.head \in prog.phase /\ Lead(o) = 1 /\ EmitBand(o) \in 1..5
        /\ EmitStratum(o) \in Nat /\ drain[o.head] \in Nat /\ EmitStratum(o) <= drain[o.head]
        /\ \/ drain[c.head] < EmitStratum(o)
           \/ SameScc(o.head, c.head) /\ drain[c.head] = drain[o.head]
    BY <1>0, <2>1, OuterPlace
  <2>3. CASE SameScc(o.head, c.head)
    <3>1. drain[c.head] = drain[o.head]
      BY <1>0, <2>2, <2>3, DrainedTogether
    <3>2. \/ EmitStratum(o) < EmitStratum(c)
          \/ EmitStratum(o) = EmitStratum(c) /\ EmitBand(o) < EmitBand(c)
      BY <1>0, <2>2, <3>1
    <3> QED
      BY <1>0, <2>2, <2>3, <3>2, BeforeFacts
  <2>4. CASE ~SameScc(o.head, c.head)
    BY <1>0, <2>2, <2>4, BeforeFacts
  <2> QED
    BY <2>3, <2>4
<1>2. ASSUME e.arg = "kInNew", ~SameScc(o.head, c.head),
             \/ o.kind = "kChainFold" /\ e.table \in prog.negated[o.head]
             \/ o.kind = "kFixpointFire" /\ e.table \in prog.reads[o.head]
      PROVE  Before(c, o)
  <2>1. Lead(o) = 1 /\ drain[c.head] < EmitStratum(o)
    BY <1>0, <1>2, RoundReads
  <2> QED
    BY <1>0, <2>1, BeforeFacts
<1>3. ASSUME o.kind = "kFrontierFilter", e.table = o.head
      PROVE  Before(c, o)
  <2>1. /\ Lead(o) = 1 /\ EmitStratum(o) = drain[c.head]
        /\ EmitBand(o) = IF Recursive(c.head) THEN 17 ELSE 7
    BY <1>3, FilterPlace
  <2>2. ~Recursive(c.head) => EmitBand(c) = 6
    BY InventoryFacts, PhaseOpFacts, DrainPlace
  <2>3. EmitBand(c) < EmitBand(o)
    BY <1>0, <2>1, <2>2
  <2> QED
    BY <1>0, <2>1, <2>3, BeforeFacts
<1> QED
  BY <1>1, <1>2, <1>3, NewReads

LEMMA SettledFacts ==
    ASSUME DRStrataParameters, FlowInv
    PROVE  ReadsSettled
<1> SUFFICES ASSUME flowStage = "checked"
             PROVE  ReadsSettled
  BY DEF ReadsSettled
<1>1. Stamped /\ ops = [o \in Inventory |-> Effects(o)]
  BY DEF Stamped, FlowInv, Built
<1>2. /\ \A o \in Emitted : o \in Inventory /\ o.kind # "kPivotAssemble" /\ ops[o] = Effects(o)
      /\ \A c \in OfKind({"kClaimDrain", "kRetire"}) :
            c \in Inventory /\ c.kind \in {"kClaimDrain", "kRetire"}
  BY <1>1 DEF Emitted, OfKind
<1>3. ASSUME NEW o \in Emitted, NEW e \in EffectsOf(o, "kVecDrain"), NEW a \in Emitted,
             AppendTo(e.table, e.role) \in ops[a]
      PROVE  Before(a, o) \/ SameLoop(a, o) \/ DrainsNothing(o, e.table)
  <2>1. e \in Effects(o) /\ e.eff = "kVecDrain"
    BY <1>2 DEF EffectsOf
  <2> DEFINE x == AppendTo(e.table, e.role)
  <2>2. x \in Effects(a) /\ x.eff = "kVecAppend" /\ x.table = e.table /\ x.role = e.role
    BY <1>2, <1>3, EffectFields
  <2> HIDE DEF x
  <2> QED
    BY <1>1, <1>2, <2>1, <2>2, VectorComplete
<1>4. ASSUME NEW o \in Emitted, NEW e \in EffectsOf(o, "kFlagRead"),
             NEW c \in OfKind({"kClaimDrain", "kRetire"}), c.head = e.table
      PROVE  /\ e.arg = "kInNew" =>
                    IF SameScc(o.head, c.head) THEN Before(o, c) ELSE Before(c, o)
             /\ e.arg \in {"kNetDeleted", "kNetAdded"} => Before(c, o)
  <2>1. e \in Effects(o) /\ e.eff = "kFlagRead"
    BY <1>2 DEF EffectsOf
  <2> QED
    BY <1>1, <1>2, <1>4, <2>1, FlagsSettled
<1> QED
  BY <1>3, <1>4 DEF ReadsSettled

-----------------------------------------------------------------------------
(* Changes folded once.  The inventory has each operation that the kinds   *)
(* of the tables call for.                                                 *)
LEMMA OpIs ==
    ASSUME NEW o \in Inventory
    PROVE  o = Op(o.kind, o.head, o.of, o.sign)
<1>1. SUFFICES \E k, h, w, s : o = Op(k, h, w, s)
  BY OpFields
<1>2. CASE o \in CrossoverOps \cup ProductArms
  BY <1>2 DEF CrossoverOps, ProductArms
<1>3. CASE o \in GroupUpdateOps
  BY <1>3 DEF GroupUpdateOps
<1>4. CASE o \in SeedFolds
  BY <1>4 DEF SeedFolds
<1>5. CASE o \in ChainFolds \cup FixpointFires
  BY <1>5 DEF ChainFolds, FixpointFires, Both
<1>6. CASE o \in PhaseTableOps
  BY <1>6 DEF PhaseTableOps, Both
<1>7. CASE o \in CommitSweeps \cup PivotAssembles \cup NegateGates \cup IngestFolds
  BY <1>7 DEF CommitSweeps, PivotAssembles, NegateGates, IngestFolds
<1> QED
  BY <1>2, <1>3, <1>4, <1>5, <1>6, <1>7 DEF Inventory

LEMMA PhaseOpsExist ==
    ASSUME NEW t \in prog.phase, NEW s \in {-1, 1}
    PROVE  Op("kClaimDrain", t, 0, s) \in Inventory /\ Op("kFrontierFilter", t, 0, s) \in Inventory
<1>1. /\ Op("kClaimDrain", t, 0, s) \in Both("kClaimDrain", t, 0)
      /\ Op("kFrontierFilter", t, 0, s) \in Both("kFrontierFilter", t, 0)
  BY DEF Both
<1>2. \A x \in Both("kClaimDrain", t, 0) \cup Both("kFrontierFilter", t, 0) : x \in PhaseTableOps
  BY DEF PhaseTableOps
<1> QED
  BY <1>1, <1>2 DEF Inventory

LEMMA CrossoverExists ==
    ASSUME NEW t \in prog.phase, prog.kind[t] = "negate", NEW w \in prog.negated[t],
           NEW s \in SignsOf(w)
    PROVE  Op("kCrossover", t, w, -s) \in Inventory
<1> DEFINE u == Unit("crossover", t, prog.reads[t])
<1>1. u \in Crossovers(prog) /\ u.head = t
  BY UnitFields DEF Crossovers, FilledBy
<1> HIDE DEF u
<1>2. Op("kCrossover", u.head, w, -s) \in CrossoverOps
  BY <1>1 DEF CrossoverOps
<1> QED
  BY <1>1, <1>2 DEF Inventory

LEMMA ArmExists ==
    ASSUME NEW t \in prog.phase, prog.kind[t] = "product", NEW w \in prog.reads[t],
           NEW s \in SignsOf(w)
    PROVE  Op("kProductArm", t, w, s) \in Inventory
<1> DEFINE u == Unit("product", t, prog.reads[t])
<1>1. u \in Products(prog) /\ u.head = t /\ w \in u.from
  BY UnitFields DEF Products, FilledBy
<1> HIDE DEF u
<1>2. Op("kProductArm", u.head, w, s) \in ProductArms
  BY <1>1 DEF ProductArms
<1> QED
  BY <1>1, <1>2 DEF Inventory

LEMMA GroupUpdateExists ==
    ASSUME NEW t \in prog.phase, prog.kind[t] = "aggregate"
    PROVE  Op("kGroupUpdate", t, 0, 0) \in Inventory
<1> DEFINE u == Unit("groupUpdate", t, prog.reads[t])
<1>1. u \in GroupUpdates(prog) /\ u.head = t
  BY UnitFields DEF GroupUpdates, FilledBy
<1> HIDE DEF u
<1>2. Op("kGroupUpdate", u.head, 0, 0) \in GroupUpdateOps
  BY <1>1 DEF GroupUpdateOps
<1> QED
  BY <1>1, <1>2 DEF Inventory

LEMMA BranchExists ==
    ASSUME NEW t \in prog.phase, prog.kind[t] \in Folding,
           NEW w \in prog.reads[t] \ prog.negated[t], NEW s \in {-1, 1}
    PROVE  /\ SameScc(t, w) => Op("kChainFold", t, w, s) \in Inventory
           /\ ~SameScc(t, w) /\ s \in SignsOf(w) => Op("kSeedFold", t, w, s) \in Inventory
<1> DEFINE u == Unit("branch", t, {w})
<1>1. u \in Branches(prog) /\ u.head = t /\ u.from = {w} /\ u.family = "branch"
  <2>1. t \in FilledBy(prog, {"merge", "negate", "never"})
    BY DEF FilledBy, Folding
  <2> DEFINE Made(y) == {Unit("branch", y, {x}) : x \in prog.reads[y] \ prog.negated[y]}
             families == {"merge", "negate", "never"}
  <2>2. u \in Made(t)
    OBVIOUS
  <2>3. u \in Branches(prog)
    <3>1. (UNION {Made(y) : y \in FilledBy(prog, families)}) \subseteq Branches(prog)
      BY Zenon DEF Branches
    <3> HIDE DEF u, Made, families
    <3>2. u \in UNION {Made(y) : y \in FilledBy(prog, families)}
      BY <2>1, <2>2 DEF families
    <3> QED
      BY <3>1, <3>2
  <2> QED
    BY <2>3, UnitFields
<1> HIDE DEF u
<1>2. ASSUME SameScc(t, w)
      PROVE  Op("kChainFold", t, w, s) \in Inventory
  <2>1. InRounds(u)
    BY <1>1, <1>2 DEF InRounds
  <2>2. Op("kChainFold", t, w, s) \in Both("kChainFold", u.head, w)
    BY <1>1 DEF Both
  <2>3. Op("kChainFold", t, w, s) \in ChainFolds
    BY <1>1, <2>1, <2>2 DEF ChainFolds
  <2> QED
    BY <2>3 DEF Inventory
<1>3. ASSUME ~SameScc(t, w), s \in SignsOf(w)
      PROVE  Op("kSeedFold", t, w, s) \in Inventory
  <2>1. ~SeedSuppressed(u)
    BY <1>1, <1>3 DEF SeedSuppressed, InRounds
  <2>2. Op(IF u.family = "toJoin" THEN "kPivotSeed" ELSE "kSeedFold", u.head, w, s) \in SeedFolds
    BY <1>1, <1>3, <2>1 DEF SeedFolds
  <2> QED
    BY <1>1, <2>2 DEF Inventory
<1> QED
  BY <1>2, <1>3

LEMMA JoinExists ==
    ASSUME NEW t \in prog.phase, prog.kind[t] = "join", NEW w \in prog.reads[t], NEW s \in {-1, 1}
    PROVE  /\ SameScc(t, w) => Op("kFixpointFire", t, 0, s) \in Inventory
           /\ ~SameScc(t, w) /\ s \in SignsOf(w) => Op("kPivotSeed", t, w, s) \in Inventory
<1>1. ASSUME SameScc(t, w)
      PROVE  Op("kFixpointFire", t, 0, s) \in Inventory
  <2> DEFINE u == Unit("join", t, prog.reads[t])
  <2>1. u \in Joins(prog) /\ u.head = t
    BY UnitFields DEF Joins, FilledBy
  <2> HIDE DEF u
  <2>2. Recursive(u.head)
    BY <1>1, <2>1 DEF SameScc, Recursive
  <2>3. Op("kFixpointFire", t, 0, s) \in Both("kFixpointFire", u.head, 0)
    BY <2>1 DEF Both
  <2>4. Op("kFixpointFire", t, 0, s) \in FixpointFires
    BY <2>1, <2>2, <2>3 DEF FixpointFires
  <2> QED
    BY <2>4 DEF Inventory
<1>2. ASSUME ~SameScc(t, w), s \in SignsOf(w)
      PROVE  Op("kPivotSeed", t, w, s) \in Inventory
  <2> DEFINE u == Unit("toJoin", t, {w})
  <2>1. u \in Branches(prog) /\ u.head = t /\ u.from = {w} /\ u.family = "toJoin"
    <3>1. t \in FilledBy(prog, {"join"})
      BY DEF FilledBy
    <3> DEFINE Made(y) == {Unit("toJoin", y, {x}) : x \in prog.reads[y]}
               families == {"join"}
    <3>2. u \in Made(t)
      OBVIOUS
    <3>3. u \in Branches(prog)
      <4>1. (UNION {Made(y) : y \in FilledBy(prog, families)}) \subseteq Branches(prog)
        BY Zenon DEF Branches
      <4> HIDE DEF u, Made, families
      <4>2. u \in UNION {Made(y) : y \in FilledBy(prog, families)}
        BY <3>1, <3>2 DEF families
      <4> QED
        BY <4>1, <4>2
    <3> QED
      BY <3>3, UnitFields
  <2> HIDE DEF u
  <2>2. ~SeedSuppressed(u)
    BY <1>2, <2>1 DEF SeedSuppressed, InRounds, AllSidesSameScc
  <2>3. Op(IF u.family = "toJoin" THEN "kPivotSeed" ELSE "kSeedFold", u.head, w, s) \in SeedFolds
    BY <1>2, <2>1, <2>2 DEF SeedFolds
  <2> QED
    BY <2>1, <2>3 DEF Inventory
<1> QED
  BY <1>1, <1>2

LEMMA FilledFacts ==
    ASSUME Stamped, NEW t \in Table
    PROVE  /\ prog.kind[t] \in Kind
           /\ prog.kind[t] = "receive" => prog.reads[t] = {}
           /\ IF prog.kind[t] \in {"negate", "never"}
              THEN \E v, w \in Table : prog.reads[t] = {v, w} /\ prog.negated[t] = {w}
              ELSE prog.negated[t] = {}
           /\ \A S \in SUBSET Table :
                 prog.reads[t] \subseteq S /\ (\A w \in S : prog.reads[w] \subseteq S)
                     => prog.within[t] \subseteq S
<1>1. LegalProgram(prog)
  BY StampedFacts DEF Stamped, DRStrataParameters
<1> QED
  BY <1>1 DEF LegalProgram, Within

(* What reads, in any number of steps, from a phase-owned table is phase   *)
(* owned, and so is all of its SCC.                                        *)
LEMMA PhaseCycle ==
    ASSUME Stamped, NEW t \in prog.phase, NEW w \in prog.reads[t], SameScc(t, w)
    PROVE  w \in prog.phase
<1>0. DRStrataParameters /\ prog \in Programs /\ scc = SccMap(prog)
  BY StampedFacts DEF Stamped
<1>1. t \in Table /\ w \in Table
  BY <1>0, LegalFacts
<1>2. t \in prog.within[w]
  BY <1>0, <1>1, SccFacts DEF Cyclic
<1>3. ASSUME w \notin prog.phase
      PROVE  FALSE
  <2> DEFINE S == Table \ prog.phase
  <2>1. \A v \in S : prog.reads[v] \subseteq S
    BY <1>0, LegalFacts
  <2>2. w \in S /\ t \notin S /\ S \in SUBSET Table
    BY <1>1, <1>3
  <2> HIDE DEF S
  <2>3. prog.within[w] \subseteq S
    BY <1>1, <2>1, <2>2, FilledFacts
  <2> QED
    BY <1>2, <2>2, <2>3
<1> QED
  BY <1>3

(* A frontier from another SCC is filled before it is drained; one of the  *)
(* head's own SCC is filled after the seeds of the head.                   *)
LEMMA FilledBefore ==
    ASSUME Stamped, NEW o \in Inventory, o.kind \in OuterKinds,
           NEW w \in Uses(o), ~SameScc(o.head, w), NEW s \in {-1, 1}
    PROVE  FrontierFilled(w, s, o)
<1> DEFINE f == Op("kFrontierFilter", w, 0, s)
<1>1. SUFFICES ASSUME w \in prog.phase PROVE Before(f, o)
  BY DEF FrontierFilled, Differential
<1>2. f \in Inventory /\ f.kind = "kFrontierFilter" /\ f.head = w
  BY <1>1, PhaseOpsExist, OpFields
<1> HIDE DEF f
<1>3. Lead(f) = 1 /\ EmitStratum(f) = drain[w]
  BY <1>2, FilterPlace
<1>4. Lead(o) = 1 /\ drain[w] < EmitStratum(o)
  BY <1>1, OuterPlace
<1> QED
  BY <1>3, <1>4, BeforeFacts

LEMMA FilledAfter ==
    ASSUME Stamped, NEW o \in Inventory, o.kind \in OuterKinds,
           NEW w \in prog.reads[o.head], SameScc(o.head, w), NEW s \in {-1, 1}
    PROVE  ~FrontierFilled(w, s, o)
<1> DEFINE f == Op("kFrontierFilter", w, 0, s)
<1>1. /\ o.head \in prog.phase /\ Lead(o) = 1 /\ EmitBand(o) \in 1..5
      /\ EmitStratum(o) \in Nat /\ EmitStratum(o) <= drain[o.head]
  BY OuterPlace
<1>2. w \in prog.phase
  BY <1>1, PhaseCycle
<1>3. f \in Inventory /\ f.kind = "kFrontierFilter" /\ f.head = w
  BY <1>2, PhaseOpsExist, OpFields
<1>4. SUFFICES ~Before(f, o)
  BY <1>2 DEF FrontierFilled, Differential
<1> HIDE DEF f
<1>5. Recursive(w) /\ drain[w] = drain[o.head]
  BY <1>1, <1>2, DrainedTogether
<1>6. Lead(f) = 1 /\ EmitStratum(f) = drain[o.head] /\ EmitBand(f) = 17 /\ drain[o.head] \in Nat
  BY <1>3, <1>5, FilterPlace
<1> QED
  BY <1>1, <1>6, BeforeFacts

(* The one operation that folds the changes of w into t.                   *)
FolderOf(t, w, s) ==
    CASE w \in prog.negated[t] -> Op("kCrossover", t, w, -s)
      [] w \notin prog.negated[t] /\ prog.kind[t] \in Folding ->
             IF SameScc(t, w) THEN Op("kChainFold", t, w, s) ELSE Op("kSeedFold", t, w, s)
      [] w \notin prog.negated[t] /\ prog.kind[t] = "join" ->
             IF SameScc(t, w) THEN Op("kFixpointFire", t, 0, s) ELSE Op("kPivotSeed", t, w, s)
      [] w \notin prog.negated[t] /\ prog.kind[t] = "product" -> Op("kProductArm", t, w, s)
      [] w \notin prog.negated[t] /\ prog.kind[t] = "aggregate" -> Op("kGroupUpdate", t, 0, 0)

Checked == Stamped /\ ops = [o \in Inventory |-> Effects(o)]

LEMMA CheckedFacts ==
    ASSUME Checked
    PROVE  /\ Emitted = {o \in Inventory : o.kind # "kPivotAssemble"}
           /\ \A kinds : OfKind(kinds) = {o \in Inventory : o.kind \in kinds}
           /\ \A o \in Inventory : ops[o] = Effects(o)
<1>1. DOMAIN ops = Inventory
  BY DEF Checked
<1> QED
  BY <1>1 DEF Checked, Emitted, OfKind

LEMMA HeadFacts ==
    ASSUME Stamped, NEW t \in prog.phase, NEW w \in prog.reads[t]
    PROVE  /\ t \in Table /\ w \in Table
           /\ prog.kind[t] \in {"merge", "join", "negate", "never", "product", "aggregate"}
           /\ w \in prog.negated[t] => prog.kind[t] \in {"negate", "never"}
<1>1. t \in Table /\ w \in Table
  BY StampedFacts, LegalFacts DEF Stamped
<1> QED
  BY <1>1, FilledFacts DEF Kind

(* Nothing else folds them.                                                *)
LEMMA FolderOnly ==
    ASSUME Checked, NEW t \in prog.phase, NEW w \in prog.reads[t], NEW s \in SignsOf(w),
           NEW o \in Folders(t, w, s)
    PROVE  o = FolderOf(t, w, s) /\ o \in Inventory
           /\ ~(prog.kind[t] = "never" /\ w \in prog.negated[t])
<1>0. Stamped /\ s \in {-1, 1}
  BY SignsFacts DEF Checked
<1>1. /\ o \in Inventory /\ o.head = t
      /\ \/ o.kind \in {"kSeedFold", "kPivotSeed", "kProductArm"} /\ o.of = w /\ o.sign = s
            /\ FrontierFilled(w, s, o)
         \/ o.kind = "kCrossover" /\ o.of = w /\ o.sign = -s /\ FrontierFilled(w, s, o)
         \/ o.kind = "kGroupUpdate" /\ FrontierFilled(w, s, o)
         \/ o.kind = "kChainFold" /\ o.of = w /\ o.sign = s
         \/ o.kind = "kFixpointFire" /\ o.sign = s /\ SameScc(t, w)
  BY CheckedFacts DEF Folders
<1>2. o = Op(o.kind, t, o.of, o.sign)
  BY <1>1, OpIs
<1>3. CASE o.kind = "kSeedFold" /\ o.of = w /\ o.sign = s
  <2>1. prog.kind[t] \in Folding /\ w \notin prog.negated[t] /\ ~SameScc(t, w)
    BY <1>1, <1>3, InventoryFacts, SeedFacts
  <2> QED
    BY <1>1, <1>2, <1>3, <2>1 DEF FolderOf, Folding
<1>4. CASE o.kind = "kPivotSeed" /\ o.of = w /\ o.sign = s /\ FrontierFilled(w, s, o)
  <2>1. prog.kind[t] = "join"
    BY <1>1, <1>4, InventoryFacts, SeedFacts
  <2>2. w \notin prog.negated[t]
    BY <1>0, <2>1, HeadFacts
  <2>3. ~SameScc(t, w)
    BY <1>0, <1>1, <1>4, FilledAfter DEF OuterKinds
  <2> QED
    BY <1>1, <1>2, <1>4, <2>1, <2>2, <2>3 DEF FolderOf, Folding
<1>5. CASE o.kind = "kProductArm" /\ o.of = w /\ o.sign = s
  <2>1. prog.kind[t] = "product"
    BY <1>1, <1>5, InventoryFacts, ProductFacts
  <2>2. w \notin prog.negated[t]
    BY <1>0, <2>1, HeadFacts
  <2> QED
    BY <1>1, <1>2, <1>5, <2>1, <2>2 DEF FolderOf, Folding
<1>6. CASE o.kind = "kCrossover" /\ o.of = w /\ o.sign = -s
  <2>1. prog.kind[t] = "negate" /\ w \in prog.negated[t]
    BY <1>1, <1>6, InventoryFacts, CrossoverFacts
  <2> QED
    BY <1>1, <1>2, <1>6, <2>1 DEF FolderOf
<1>7. CASE o.kind = "kGroupUpdate"
  <2>1. prog.kind[t] = "aggregate" /\ o.of = 0 /\ o.sign = 0
    BY <1>1, <1>7, InventoryFacts, GroupUpdateFacts
  <2>2. w \notin prog.negated[t]
    BY <1>0, <2>1, HeadFacts
  <2> QED
    BY <1>1, <1>2, <1>7, <2>1, <2>2 DEF FolderOf, Folding
<1>8. CASE o.kind = "kChainFold" /\ o.of = w /\ o.sign = s
  <2>1. prog.kind[t] \in Folding /\ w \notin prog.negated[t] /\ SameScc(t, w)
    BY <1>1, <1>8, InventoryFacts, ChainFacts
  <2> QED
    BY <1>1, <1>2, <1>8, <2>1 DEF FolderOf, Folding
<1>9. CASE o.kind = "kFixpointFire" /\ o.sign = s /\ SameScc(t, w)
  <2>1. prog.kind[t] = "join" /\ o.of = 0
    BY <1>1, <1>9, InventoryFacts, FireFacts
  <2>2. w \notin prog.negated[t]
    BY <1>0, <2>1, HeadFacts
  <2> QED
    BY <1>1, <1>2, <1>9, <2>1, <2>2 DEF FolderOf, Folding
<1> QED
  BY <1>1, <1>3, <1>4, <1>5, <1>6, <1>7, <1>8, <1>9

LEMMA FolderThere ==
    ASSUME Checked, NEW t \in prog.phase, NEW w \in prog.reads[t], NEW s \in SignsOf(w),
           ~(prog.kind[t] = "never" /\ w \in prog.negated[t])
    PROVE  FolderOf(t, w, s) \in Folders(t, w, s)
<1>0. Stamped /\ s \in {-1, 1}
  BY SignsFacts DEF Checked
<1>1. /\ prog.kind[t] \in {"merge", "join", "negate", "never", "product", "aggregate"}
      /\ w \in prog.negated[t] => prog.kind[t] \in {"negate", "never"}
  BY <1>0, HeadFacts
<1>2. \A o \in Inventory : o.kind # "kPivotAssemble" => o \in Emitted
  BY CheckedFacts
<1> DEFINE o == FolderOf(t, w, s)
<1>3. CASE w \in prog.negated[t]
  <2>1. o = Op("kCrossover", t, w, -s)
    BY <1>3 DEF FolderOf
  <2> HIDE DEF o
  <2>2. o \in Inventory /\ o.kind = "kCrossover" /\ o.head = t /\ o.of = w /\ o.sign = -s
    BY <1>1, <1>3, <2>1, CrossoverExists, OpFields
  <2>3. ~SameScc(t, w) /\ w \in Uses(o)
    BY <1>0, <1>3, <2>2, AnotherScc DEF Uses
  <2>4. FrontierFilled(w, s, o)
    BY <1>0, <2>2, <2>3, FilledBefore DEF OuterKinds
  <2>5. o \in Emitted
    BY <1>2, <2>2
  <2>6. o \in Folders(t, w, s)
    BY <2>2, <2>4, <2>5 DEF Folders
  <2> QED
    BY <2>6 DEF o
<1>4. CASE w \notin prog.negated[t] /\ prog.kind[t] \in Folding /\ SameScc(t, w)
  <2>1. o = Op("kChainFold", t, w, s)
    BY <1>4 DEF FolderOf, Folding
  <2> HIDE DEF o
  <2>2. o \in Inventory /\ o.kind = "kChainFold" /\ o.head = t /\ o.of = w /\ o.sign = s
    BY <1>0, <1>4, <2>1, BranchExists, OpFields
  <2>3. o \in Emitted
    BY <1>2, <2>2
  <2>4. o \in Folders(t, w, s)
    BY <2>2, <2>3 DEF Folders
  <2> QED
    BY <2>4 DEF o
<1>5. CASE w \notin prog.negated[t] /\ prog.kind[t] \in Folding /\ ~SameScc(t, w)
  <2>1. o = Op("kSeedFold", t, w, s)
    BY <1>5 DEF FolderOf, Folding
  <2> HIDE DEF o
  <2>2. o \in Inventory /\ o.kind = "kSeedFold" /\ o.head = t /\ o.of = w /\ o.sign = s
    BY <1>0, <1>5, <2>1, BranchExists, OpFields
  <2>3. FrontierFilled(w, s, o)
    BY <1>0, <1>5, <2>2, FilledBefore DEF OuterKinds, Uses
  <2>4. o \in Emitted
    BY <1>2, <2>2
  <2>5. o \in Folders(t, w, s)
    BY <2>2, <2>3, <2>4 DEF Folders
  <2> QED
    BY <2>5 DEF o
<1>6. CASE w \notin prog.negated[t] /\ prog.kind[t] = "join" /\ SameScc(t, w)
  <2>1. o = Op("kFixpointFire", t, 0, s)
    BY <1>6 DEF FolderOf, Folding
  <2> HIDE DEF o
  <2>2. o \in Inventory /\ o.kind = "kFixpointFire" /\ o.head = t /\ o.sign = s
    BY <1>0, <1>6, <2>1, JoinExists, OpFields
  <2>3. o \in Emitted
    BY <1>2, <2>2
  <2>4. o \in Folders(t, w, s)
    BY <1>6, <2>2, <2>3 DEF Folders
  <2> QED
    BY <2>4 DEF o
<1>7. CASE w \notin prog.negated[t] /\ prog.kind[t] = "join" /\ ~SameScc(t, w)
  <2>1. o = Op("kPivotSeed", t, w, s)
    BY <1>7 DEF FolderOf, Folding
  <2> HIDE DEF o
  <2>2. o \in Inventory /\ o.kind = "kPivotSeed" /\ o.head = t /\ o.of = w /\ o.sign = s
    BY <1>0, <1>7, <2>1, JoinExists, OpFields
  <2>3. FrontierFilled(w, s, o)
    BY <1>0, <1>7, <2>2, FilledBefore DEF OuterKinds, Uses
  <2>4. o \in Emitted
    BY <1>2, <2>2
  <2>5. o \in Folders(t, w, s)
    BY <2>2, <2>3, <2>4 DEF Folders
  <2> QED
    BY <2>5 DEF o
<1>8. CASE w \notin prog.negated[t] /\ prog.kind[t] = "product"
  <2>1. o = Op("kProductArm", t, w, s)
    BY <1>8 DEF FolderOf, Folding
  <2> HIDE DEF o
  <2>2. o \in Inventory /\ o.kind = "kProductArm" /\ o.head = t /\ o.of = w /\ o.sign = s
    BY <1>8, <2>1, ArmExists, OpFields
  <2>3. ~SameScc(t, w) /\ w \in Uses(o)
    BY <1>0, <1>8, <2>2, AnotherScc DEF Uses
  <2>4. FrontierFilled(w, s, o)
    BY <1>0, <2>2, <2>3, FilledBefore DEF OuterKinds
  <2>5. o \in Emitted
    BY <1>2, <2>2
  <2>6. o \in Folders(t, w, s)
    BY <2>2, <2>4, <2>5 DEF Folders
  <2> QED
    BY <2>6 DEF o
<1>9. CASE w \notin prog.negated[t] /\ prog.kind[t] = "aggregate"
  <2>1. o = Op("kGroupUpdate", t, 0, 0)
    BY <1>9 DEF FolderOf, Folding
  <2> HIDE DEF o
  <2>2. o \in Inventory /\ o.kind = "kGroupUpdate" /\ o.head = t
    BY <1>9, <2>1, GroupUpdateExists, OpFields
  <2>3. ~SameScc(t, w) /\ w \in Uses(o)
    BY <1>0, <1>9, <2>2, AnotherScc DEF Uses
  <2>4. FrontierFilled(w, s, o)
    BY <1>0, <2>2, <2>3, FilledBefore DEF OuterKinds
  <2>5. o \in Emitted
    BY <1>2, <2>2
  <2>6. o \in Folders(t, w, s)
    BY <2>2, <2>4, <2>5 DEF Folders
  <2> QED
    BY <2>6 DEF o
<1> QED
  BY <1>1, <1>3, <1>4, <1>5, <1>6, <1>7, <1>8, <1>9 DEF Folding

LEMMA FoldersCount ==
    ASSUME Checked, NEW t \in prog.phase, NEW w \in prog.reads[t], NEW s \in SignsOf(w)
    PROVE  Cardinality(Folders(t, w, s)) =
              IF prog.kind[t] = "never" /\ w \in prog.negated[t] THEN 0 ELSE 1
<1>1. CASE prog.kind[t] = "never" /\ w \in prog.negated[t]
  <2>1. Folders(t, w, s) = {}
    BY <1>1, FolderOnly
  <2> QED
    BY <1>1, <2>1, FS_EmptySet
<1>2. CASE ~(prog.kind[t] = "never" /\ w \in prog.negated[t])
  <2>1. \A o \in Folders(t, w, s) : o = FolderOf(t, w, s)
    BY FolderOnly
  <2>2. FolderOf(t, w, s) \in Folders(t, w, s)
    BY <1>2, FolderThere
  <2>3. Folders(t, w, s) = {FolderOf(t, w, s)}
    BY <2>1, <2>2
  <2>4. Cardinality({FolderOf(t, w, s)}) = 1
    BY FS_Singleton
  <2> QED
    BY <1>2, <2>3, <2>4
<1> QED
  BY <1>1, <1>2

(* Which of the folders of a pair sees the other side as it is after the   *)
(* batch.                                                                  *)
LEMMA SeenUnless ==
    ASSUME Checked, NEW o \in Inventory, o.kind # "kPivotAssemble",
           NEW w \in prog.reads[o.head], o.head \in prog.phase
    PROVE  /\ FlagRead(w, "kInNew") \notin Effects(o) => ~SeesNew(o, w)
           /\ FlagRead(w, "kInNew") \in Effects(o) =>
                 (SeesNew(o, w) <=> ~SameScc(o.head, w))
<1>0. Stamped /\ ops[o] = Effects(o)
      /\ OfKind({"kClaimDrain", "kRetire"}) =
            {c \in Inventory : c.kind \in {"kClaimDrain", "kRetire"}}
  BY CheckedFacts DEF Checked
<1>1. FlagRead(w, "kInNew") \notin Effects(o) => ~SeesNew(o, w)
  BY <1>0 DEF SeesNew
<1>2. ASSUME FlagRead(w, "kInNew") \in Effects(o)
      PROVE  SeesNew(o, w) <=> ~SameScc(o.head, w)
  <2> DEFINE e == FlagRead(w, "kInNew")
  <2>1. e \in Effects(o) /\ e.eff = "kFlagRead" /\ e.table = w /\ e.arg = "kInNew"
    BY <1>2, EffectFields
  <2> HIDE DEF e
  <2>2. \A c \in OfKind({"kClaimDrain", "kRetire"}) : c.head = w =>
            IF SameScc(o.head, w) THEN Before(o, c) ELSE Before(c, o)
    BY <1>0, <2>1, FlagsSettled
  <2>3. CASE ~SameScc(o.head, w)
    BY <1>0, <1>2, <2>2, <2>3 DEF SeesNew
  <2>4. CASE SameScc(o.head, w)
    <3>1. w \in prog.phase
      BY <1>0, <2>4, PhaseCycle
    <3> DEFINE c == Op("kClaimDrain", w, 0, 1)
    <3>2. c \in Inventory /\ c.kind = "kClaimDrain" /\ c.head = w
      BY <3>1, PhaseOpsExist, OpFields
    <3> HIDE DEF c
    <3>3. Before(o, c) /\ c \in OfKind({"kClaimDrain", "kRetire"})
      BY <1>0, <2>2, <2>4, <3>2
    <3>4. Lead(c) = 1 /\ EmitStratum(c) \in Nat /\ EmitBand(c) \in Nat
      BY <1>0, <3>2, ClaimPlace
    <3>5. ~Before(c, o)
      <4>1. o.kind \in {"kCrossover", "kProductArm", "kChainFold", "kFixpointFire"}
        BY <1>0, <2>1, NewReads
      <4>2. Lead(o) = 1 /\ EmitStratum(o) \in Nat /\ EmitBand(o) \in Nat
        <5>1. CASE o.kind \in {"kCrossover", "kProductArm"}
          BY <1>0, <5>1, OuterPlace DEF OuterKinds
        <5>2. CASE o.kind \in {"kChainFold", "kFixpointFire"}
          <6>1. o.kind \in Looped /\ Recursive(o.head)
            BY <5>2, InventoryFacts, ChainFacts, FireFacts DEF Looped, SameScc, Recursive
          <6>2. Lead(o) = 1 /\ EmitStratum(o) = drain[o.head] /\ drain[o.head] \in Nat
                /\ EmitBand(o) = 8 + RoundSlot(o) /\ RoundSlot(o) \in 0..9
            BY <1>0, <6>1, RoundPlace
          <6> QED
            BY <6>2
        <5> QED
          BY <4>1, <5>1, <5>2
      <4>3. \/ EmitStratum(o) < EmitStratum(c)
            \/ EmitStratum(o) = EmitStratum(c) /\ EmitBand(o) < EmitBand(c)
        BY <3>3, <3>4, <4>2, BeforeFacts
      <4>4. ~(\/ EmitStratum(c) < EmitStratum(o)
              \/ EmitStratum(c) = EmitStratum(o) /\ EmitBand(c) < EmitBand(o))
        BY <3>4, <4>2, <4>3
      <4> QED
        BY <3>4, <4>2, <4>4, BeforeFacts
    <3> QED
      BY <2>4, <3>2, <3>3, <3>5 DEF SeesNew
  <2> QED
    BY <2>3, <2>4
<1> QED
  BY <1>1, <1>2

LEMMA ArmSees ==
    ASSUME Checked, NEW t \in prog.phase, prog.kind[t] = "product",
           NEW w \in prog.reads[t], NEW v \in prog.reads[t] \ {w}, NEW s \in SignsOf(w),
           NEW o \in Folders(t, w, s)
    PROVE  SeesNew(o, v) <=> v < w
<1>0. Stamped
  BY DEF Checked
<1>1. o = Op("kProductArm", t, w, s) /\ o \in Inventory
  <2>1. w \notin prog.negated[t]
    BY <1>0, HeadFacts
  <2> QED
    BY <2>1, FolderOnly DEF FolderOf, Folding
<1>2. o.kind = "kProductArm" /\ o.head = t /\ o.of = w
  BY <1>1, OpFields
<1>3. Effects(o) = ProductArmEffects(o)
  BY <1>2 DEF Effects
<1>4. ASSUME v < w
      PROVE  FlagRead(v, "kInNew") \in Effects(o)
  <2>1. FlagRead(v, IF v < o.of THEN "kInNew" ELSE "kInI") \in ArmReads(o)
    BY <1>2 DEF ArmReads
  <2>2. FlagRead(v, "kInNew") \in ArmReads(o)
    BY <1>2, <1>4, <2>1
  <2> QED
    BY <1>3, <2>2 DEF ProductArmEffects
<1>5. ASSUME FlagRead(v, "kInNew") \in Effects(o)
      PROVE  v < w
  <2> DEFINE e == FlagRead(v, "kInNew")
  <2>1. e \in Effects(o) /\ e.eff = "kFlagRead" /\ e.table = v /\ e.arg = "kInNew"
    BY <1>5, EffectFields
  <2> HIDE DEF e
  <2>2. e.arg = IF e.table < o.of THEN "kInNew" ELSE "kInI"
    BY <1>2, <2>1, ProductEffects
  <2> QED
    BY <1>2, <2>1, <2>2
<1>6. ~SameScc(t, v)
  BY <1>0, AnotherScc
<1> QED
  BY <1>1, <1>2, <1>4, <1>5, <1>6, SeenUnless

LEMMA NegationSees ==
    ASSUME Checked, NEW t \in prog.phase, prog.kind[t] = "negate",
           NEW w \in prog.negated[t], NEW v \in prog.reads[t] \ prog.negated[t],
           NEW s \in SignsOf(w), NEW z \in SignsOf(v),
           NEW a \in Folders(t, w, s), NEW b \in Folders(t, v, z)
    PROVE  /\ SeesNew(a, v) <=> ~SameScc(t, v)
           /\ SeesNew(b, w) <=> SameScc(t, v)
<1>0. Stamped /\ w \in prog.reads[t]
  BY StampedFacts, LegalFacts DEF Checked, Stamped
<1>1. ~SameScc(t, w)
  BY <1>0, AnotherScc
<1>2. SeesNew(a, v) <=> ~SameScc(t, v)
  <2>1. a = Op("kCrossover", t, w, -s) /\ a \in Inventory
    BY <1>0, FolderOnly DEF FolderOf
  <2>2. a.kind = "kCrossover" /\ a.head = t
    BY <2>1, OpFields
  <2>3. FlagRead(v, "kInNew") \in CrossoverArmEffects(a)
    BY <2>2 DEF CrossoverArmEffects
  <2>4. FlagRead(v, "kInNew") \in Effects(a)
    BY <2>2, <2>3 DEF Effects
  <2> QED
    BY <2>1, <2>2, <2>4, SeenUnless
<1>3. /\ b = IF SameScc(t, v) THEN Op("kChainFold", t, v, z) ELSE Op("kSeedFold", t, v, z)
      /\ b \in Inventory
  BY FolderOnly DEF FolderOf, Folding
<1>4. CASE SameScc(t, v)
  <2>1. b.kind = "kChainFold" /\ b.head = t
    BY <1>3, <1>4, OpFields
  <2>2. NegateGatePred("kFixpoint", "kNormal") = "kInNew"
    BY DEF NegateGatePred
  <2>3. FlagRead(w, "kInNew") \in GateReads(b, "kFixpoint")
    BY <2>1, <2>2 DEF GateReads
  <2>4. FlagRead(w, "kInNew") \in Effects(b)
    BY <2>1, <2>3 DEF Effects, ChainFoldEffects
  <2>5. SeesNew(b, w)
    BY <1>0, <1>1, <1>3, <2>1, <2>4, SeenUnless
  <2> QED
    BY <1>2, <1>4, <2>5
<1>5. CASE ~SameScc(t, v)
  <2>1. b.kind = "kSeedFold" /\ b.head = t
    BY <1>3, <1>5, OpFields
  <2>2. FlagRead(w, "kInNew") \notin Effects(b)
    <3> DEFINE e == FlagRead(w, "kInNew")
    <3>1. e.eff = "kFlagRead" /\ e.arg = "kInNew"
      BY EffectFields
    <3> HIDE DEF e
    <3>2. e \notin Effects(b)
      BY <2>1, <3>1, SeedEffects
    <3> QED
      BY <3>2 DEF e
  <2>3. ~SeesNew(b, w)
    BY <1>0, <1>3, <2>1, <2>2, SeenUnless
  <2> QED
    BY <1>2, <1>5, <2>3
<1> QED
  BY <1>4, <1>5

LEMMA PairOnce ==
    ASSUME Checked, NEW t \in prog.phase, prog.kind[t] \in {"product", "negate"},
           NEW w \in prog.reads[t], NEW v \in prog.reads[t] \ {w},
           NEW s \in SignsOf(w), NEW z \in SignsOf(v),
           NEW a \in Folders(t, w, s), NEW b \in Folders(t, v, z)
    PROVE  SeesNew(a, v) # SeesNew(b, w)
<1>0. Stamped /\ t \in Table /\ v \in Table /\ w \in Table
  BY HeadFacts DEF Checked
<1>1. CASE prog.kind[t] = "product"
  <2>1. SeesNew(a, v) <=> v < w
    BY <1>1, ArmSees
  <2>2. SeesNew(b, w) <=> w < v
    BY <1>1, ArmSees
  <2>3. v \in Nat /\ w \in Nat /\ v # w
    BY <1>0, DRFlowAssumption
  <2>4. v < w <=> ~(w < v)
    BY <2>3
  <2> QED
    BY <2>1, <2>2, <2>4
<1>2. CASE prog.kind[t] = "negate"
  <2>1. PICK x, y \in Table : prog.reads[t] = {x, y} /\ prog.negated[t] = {y}
    BY <1>0, <1>2, FilledFacts
  <2>2. CASE w \in prog.negated[t]
    <3>1. v \in prog.reads[t] \ prog.negated[t]
      BY <2>1, <2>2
    <3> QED
      BY <1>2, <2>2, <3>1, NegationSees
  <2>3. CASE w \notin prog.negated[t]
    <3>1. v \in prog.negated[t]
      BY <2>1, <2>3
    <3> QED
      BY <1>2, <2>3, <3>1, NegationSees
  <2> QED
    BY <2>2, <2>3
<1> QED
  BY <1>1, <1>2

LEMMA FoldedFacts ==
    ASSUME DRStrataParameters, FlowInv
    PROVE  ChangesFoldedOnce
<1> SUFFICES ASSUME flowStage = "checked"
             PROVE  ChangesFoldedOnce
  BY DEF ChangesFoldedOnce
<1>1. Checked
  BY DEF Checked, Stamped, FlowInv, Built
<1>2. ASSUME NEW t \in prog.phase, NEW w \in prog.reads[t], NEW s \in SignsOf(w)
      PROVE  Cardinality(Folders(t, w, s)) =
                (IF prog.kind[t] = "never" /\ w \in prog.negated[t] THEN 0 ELSE 1)
  BY <1>1, FoldersCount
<1>3. ASSUME NEW t \in prog.phase, NEW w \in prog.reads[t], NEW s \in SignsOf(w),
             prog.kind[t] \in {"product", "negate"}, NEW v \in prog.reads[t] \ {w},
             NEW z \in SignsOf(v), NEW a \in Folders(t, w, s), NEW b \in Folders(t, v, z)
      PROVE  SeesNew(a, v) # SeesNew(b, w)
  BY <1>1, <1>3, PairOnce
<1> QED
  BY <1>2, <1>3 DEF ChangesFoldedOnce

-----------------------------------------------------------------------------
LEMMA FlowInvariant == FlowSpec => []FlowInv
<1>1. FlowInit => FlowInv
  BY DRStrataAssumption, FlowInitially
<1>2. FlowInv /\ [FlowNext]_allVars => FlowInv'
  BY DRStrataAssumption, FlowKeeps
<1> QED
  BY <1>1, <1>2, PTL DEF FlowSpec

(* The strata are the least that put every unit after what it reads: at    *)
(* no time is one past the reference, and from the end of the walk a unit  *)
(* runs after the drains of what it reads from other SCCs, not after the   *)
(* drain of its head, and an SCC drains and runs its rounds at one stratum *)
(* (DeriveDRStrata), for any finite set of tables and in whatever order    *)
(* the units of a family are lifted.                                       *)
THEOREM StrataTheorem == FlowSpec => []StrataExact
<1>1. FlowInv => StrataExact
  BY DEF FlowInv, Inv
<1> QED
  BY <1>1, FlowInvariant, PTL

(* In the emitted order of a checked flow a vector is complete before it   *)
(* is drained, and a table's flags are read on the side of its claims and  *)
(* retirements that the read means (LowerDRFlow and LowerDRRounds), for    *)
(* any program that Stratify lets through.                                 *)
THEOREM SettledTheorem == FlowSpec => []ReadsSettled
<1>1. FlowInv => ReadsSettled
  BY DRStrataAssumption, SettledFacts
<1> QED
  BY <1>1, FlowInvariant, PTL

(* Every change of a table that a head reads is folded into the head by    *)
(* exactly one emitted operation, a seed or an operation of the rounds;    *)
(* and when both sides of a product or a negation change, exactly one of   *)
(* the two folds sees the other side as it is after the batch              *)
(* (BuildDRInventory with LowerDRFlow and LowerDRRounds), for any program  *)
(* that Stratify lets through.                                             *)
THEOREM FoldedTheorem == FlowSpec => []ChangesFoldedOnce
<1>1. FlowInv => ChangesFoldedOnce
  BY DRStrataAssumption, FoldedFacts
<1> QED
  BY <1>1, FlowInvariant, PTL

-----------------------------------------------------------------------------
(* The order of keys is a strict order on tuples of numbers, so a finite   *)
(* set of operations has one with no smaller key.                          *)
Nine(k) == \A i \in 1..9 : k[i] \in Int

LEMMA LessFacts ==
    ASSUME NEW a, NEW b, NEW c, Nine(a), Nine(b), Nine(c)
    PROVE  /\ ~KeyLess(a, a)
           /\ KeyLess(a, b) /\ KeyLess(b, c) => KeyLess(a, c)
<1>1. ~KeyLess(a, a)
  BY DEF KeyLess, Nine
<1>2. ASSUME KeyLess(a, b), KeyLess(b, c)
      PROVE  KeyLess(a, c)
  <2>1. PICK i \in 1..9 : a[i] < b[i] /\ \A j \in 1..(i - 1) : a[j] = b[j]
    BY <1>2 DEF KeyLess
  <2>2. PICK k \in 1..9 : b[k] < c[k] /\ \A j \in 1..(k - 1) : b[j] = c[j]
    BY <1>2 DEF KeyLess
  <2>3. CASE i <= k
    <3>1. a[i] < c[i]
      <4>1. i = k \/ i \in 1..(k - 1)
        BY <2>3
      <4> QED
        BY <2>1, <2>2, <4>1 DEF Nine
    <3>2. \A j \in 1..(i - 1) : a[j] = c[j]
      <4>1. \A j \in 1..(i - 1) : j \in 1..(k - 1)
        BY <2>3
      <4> QED
        BY <2>1, <2>2, <4>1
    <3> QED
      BY <3>1, <3>2 DEF KeyLess
  <2>4. CASE k < i
    <3>1. a[k] < c[k]
      <4>1. k \in 1..(i - 1)
        BY <2>4
      <4> QED
        BY <2>1, <2>2, <4>1 DEF Nine
    <3>2. \A j \in 1..(k - 1) : a[j] = c[j]
      <4>1. \A j \in 1..(k - 1) : j \in 1..(i - 1)
        BY <2>4
      <4> QED
        BY <2>1, <2>2, <4>1
    <3> QED
      BY <3>1, <3>2 DEF KeyLess
  <2> QED
    BY <2>3, <2>4
<1> QED
  BY <1>1, <1>2

Minimal(o, S) == o \in S /\ \A x \in S : ~KeyLess(KeyOf(x), KeyOf(o))

LEMMA MinimalExists ==
    ASSUME NEW S, IsFiniteSet(S), S # {}, \A o \in S : Nine(KeyOf(o))
    PROVE  \E o : Minimal(o, S)
<1> DEFINE G == {n \in Nat : \A T \in SUBSET S :
                                 Cardinality(T) = n /\ T # {} => \E o : Minimal(o, T)}
<1>1. \A T \in SUBSET S : IsFiniteSet(T) /\ Cardinality(T) \in Nat
  BY FS_Subset, FS_CardinalityType
<1>2. 0 \in G
  BY <1>1, FS_EmptySet
<1>3. ASSUME NEW n \in 0..(Cardinality(S) - 1), n \in G
      PROVE  n + 1 \in G
  <2>1. SUFFICES ASSUME NEW T \in SUBSET S, Cardinality(T) = n + 1, T # {}
                 PROVE  \E o : Minimal(o, T)
    OBVIOUS
  <2>2. PICK z \in T : TRUE
    BY <2>1
  <2>3. Cardinality(T \ {z}) = n /\ T \ {z} \in SUBSET S
    <3>1. IsFiniteSet(T) /\ Cardinality(T) = n + 1 /\ n \in Int
      BY <1>1, <2>1
    <3>2. Cardinality(T \ {z}) = Cardinality(T) - 1
      BY <2>2, <3>1, FS_RemoveElement
    <3> QED
      BY <3>1, <3>2
  <2>4. CASE T \ {z} = {}
    <3>1. T = {z}
      BY <2>2, <2>4
    <3>2. Minimal(z, T)
      BY <2>1, <3>1, LessFacts DEF Minimal
    <3> QED
      BY <3>2
  <2>5. CASE T \ {z} # {}
    <3>1. PICK y : Minimal(y, T \ {z})
      BY <1>3, <2>3, <2>5
    <3>2. CASE KeyLess(KeyOf(z), KeyOf(y))
      <4>1. \A x \in T : Nine(KeyOf(x)) /\ y \in T /\ z \in T
        BY <2>1, <2>2, <3>1 DEF Minimal
      <4>2. ASSUME NEW x \in T, KeyLess(KeyOf(x), KeyOf(z))
            PROVE  FALSE
        <5>1. KeyLess(KeyOf(x), KeyOf(y))
          BY <3>2, <4>1, <4>2, LessFacts
        <5>2. x = z
          BY <3>1, <5>1 DEF Minimal
        <5> QED
          BY <4>1, <4>2, <5>2, LessFacts
      <4>3. Minimal(z, T)
        BY <4>1, <4>2 DEF Minimal
      <4> QED
        BY <4>3
    <3>3. CASE ~KeyLess(KeyOf(z), KeyOf(y))
      <4>1. Minimal(y, T)
        BY <3>1, <3>3 DEF Minimal
      <4> QED
        BY <4>1
    <3> QED
      BY <3>2, <3>3
  <2> QED
    BY <2>4, <2>5
<1>4. Cardinality(S) \in G
  <2> HIDE DEF G
  <2> QED
    BY <1>1, <1>2, <1>3, Induct
<1> QED
  BY <1>4

(* One with no smaller key can be found below any other.                   *)
LEMMA MinimalBelow ==
    ASSUME NEW S, IsFiniteSet(S), \A o \in S : Nine(KeyOf(o)), NEW x \in S
    PROVE  \E o : /\ Minimal(o, S)
                  /\ o = x \/ KeyLess(KeyOf(o), KeyOf(x))
<1> DEFINE T == {y \in S : y = x \/ KeyLess(KeyOf(y), KeyOf(x))}
<1>1. IsFiniteSet(T) /\ T # {} /\ \A o \in T : Nine(KeyOf(o))
  <2>1. T \in SUBSET S /\ x \in T
    OBVIOUS
  <2> QED
    BY <2>1, FS_Subset
<1>2. PICK o : Minimal(o, T)
  <2> HIDE DEF T
  <2> QED
    BY <1>1, MinimalExists
<1>3. o \in S /\ (o = x \/ KeyLess(KeyOf(o), KeyOf(x)))
  BY <1>2 DEF Minimal
<1>4. ASSUME NEW y \in S, KeyLess(KeyOf(y), KeyOf(o))
      PROVE  FALSE
  <2>1. KeyLess(KeyOf(y), KeyOf(x))
    BY <1>3, <1>4, LessFacts
  <2>2. y \in T
    BY <2>1
  <2> QED
    BY <1>2, <1>4, <2>2 DEF Minimal
<1> QED
  BY <1>3, <1>4 DEF Minimal

-----------------------------------------------------------------------------
(* Kahn's algorithm over edges that go up in the key puts every operation  *)
(* once, in the order of the keys.                                         *)
Upward(all, edges) ==
    \A d \in edges : ~d.carried =>
        d.from \in all /\ d.to \in all /\ KeyLess(KeyOf(d.from), KeyOf(d.to))

SortedSoFar(p, all) ==
    /\ p \in Seq(all)
    /\ Cardinality(ToSet(p)) = Len(p)
    /\ \A i, j \in 1..Len(p) :
          i < j => p[i] # p[j] /\ ~KeyLess(KeyOf(p[j]), KeyOf(p[i]))
    /\ \A i \in 1..Len(p) : \A x \in all \ ToSet(p) : ~KeyLess(KeyOf(x), KeyOf(p[i]))

Waiting(p, all, edges) ==
    {o \in all \ ToSet(p) : {d.from : d \in {e \in edges : e.to = o /\ ~e.carried}} \subseteq ToSet(p)}

SortRule(f, n, all, edges) ==
    IF n = 0 THEN <<>>
    ELSE IF Waiting(f[n - 1], all, edges) = {} THEN f[n - 1]
    ELSE Append(f[n - 1], FirstOf([o \in all |-> KeyOf(o)], Waiting(f[n - 1], all, edges)))

LEMMA AppendKeeps ==
    ASSUME NEW all, IsFiniteSet(all), \A o \in all : Nine(KeyOf(o)), NEW edges, Upward(all, edges),
           NEW p, SortedSoFar(p, all), Len(p) < Cardinality(all)
    PROVE  /\ Waiting(p, all, edges) # {}
           /\ \A o : Minimal(o, Waiting(p, all, edges)) =>
                  SortedSoFar(Append(p, o), all) /\ Len(Append(p, o)) = Len(p) + 1
<1> DEFINE rest == all \ ToSet(p)
           W == Waiting(p, all, edges)
<1>1. /\ p \in Seq(all) /\ Len(p) \in Nat /\ ToSet(p) \subseteq all
      /\ \A i \in 1..Len(p) : p[i] \in ToSet(p)
      /\ \A x \in ToSet(p) : \E i \in 1..Len(p) : x = p[i]
  BY DEF SortedSoFar, ToSet
<1>2. IsFiniteSet(ToSet(p)) /\ IsFiniteSet(rest)
  BY <1>1, FS_Subset
<1>3. rest # {}
  <2>1. CASE rest = {}
    <3>1. ToSet(p) = all
      BY <1>1, <2>1
    <3> QED
      BY <3>1, <1>1 DEF SortedSoFar
  <2> QED
    BY <2>1
<1>4. \A m : Minimal(m, rest) => m \in W
  <2>1. SUFFICES ASSUME NEW m, Minimal(m, rest), NEW d \in edges, d.to = m, ~d.carried
                 PROVE  d.from \in ToSet(p)
    BY DEF Minimal, Waiting
  <2>2. d.from \in all /\ KeyLess(KeyOf(d.from), KeyOf(m))
    BY <2>1 DEF Upward
  <2> QED
    BY <2>1, <2>2 DEF Minimal
<1>5. \A o \in rest : Nine(KeyOf(o))
  OBVIOUS
<1>6. W \subseteq rest
  BY DEF Waiting
<1>7. W # {}
  <2> HIDE DEF rest, W
  <2>1. PICK m : Minimal(m, rest)
    BY <1>2, <1>3, <1>5, MinimalExists
  <2> QED
    BY <1>4, <2>1
<1>8. ASSUME NEW o, Minimal(o, W)
      PROVE  Minimal(o, rest)
  <2>1. o \in rest
    BY <1>6, <1>8 DEF Minimal
  <2>2. ASSUME NEW x \in rest, KeyLess(KeyOf(x), KeyOf(o))
        PROVE  FALSE
    <3> HIDE DEF rest, W
    <3>1. PICK m : Minimal(m, rest) /\ (m = x \/ KeyLess(KeyOf(m), KeyOf(x)))
      BY <1>2, <1>5, MinimalBelow
    <3>2. m \in W /\ m \in rest
      BY <1>4, <3>1 DEF Minimal
    <3>3. KeyLess(KeyOf(m), KeyOf(o))
      <4>1. Nine(KeyOf(m)) /\ Nine(KeyOf(x)) /\ Nine(KeyOf(o))
        BY <1>5, <2>1, <3>2
      <4> QED
        BY <2>2, <3>1, <4>1, LessFacts
    <3> QED
      BY <1>8, <3>2, <3>3 DEF Minimal
  <2> QED
    BY <2>1, <2>2 DEF Minimal
<1>9. ASSUME NEW o, Minimal(o, W)
      PROVE  SortedSoFar(Append(p, o), all) /\ Len(Append(p, o)) = Len(p) + 1
  <2> DEFINE q == Append(p, o)
  <2>1. o \in all /\ o \notin ToSet(p) /\ \A x \in rest : ~KeyLess(KeyOf(x), KeyOf(o))
    BY <1>8, <1>9 DEF Minimal
  <2>2. /\ q \in Seq(all) /\ Len(q) = Len(p) + 1
        /\ q[Len(p) + 1] = o /\ \A i \in 1..Len(p) : q[i] = p[i]
    BY <1>1, <2>1
  <2> HIDE DEF q
  <2>3. \A i \in 1..Len(q) : i = Len(p) + 1 \/ i \in 1..Len(p)
    BY <1>1, <2>2
  <2>4. ToSet(q) = ToSet(p) \cup {o}
    <3>1. DOMAIN q = 1..Len(q) /\ Len(p) + 1 \in 1..Len(q) /\ 1..Len(p) \subseteq 1..Len(q)
      BY <1>1, <2>2
    <3>2. DOMAIN p = 1..Len(p)
      BY <1>1
    <3>3. \A x : x \in ToSet(q) <=> \E i \in 1..Len(q) : x = q[i]
      BY <3>1 DEF ToSet
    <3>4. \A x : x \in ToSet(p) <=> \E i \in 1..Len(p) : x = p[i]
      BY <3>2 DEF ToSet
    <3>5. \A x : x \in ToSet(q) <=> x \in ToSet(p) \/ x = o
      BY <2>2, <2>3, <3>1, <3>3, <3>4
    <3> QED
      BY <3>5
  <2>5. Cardinality(ToSet(q)) = Len(q)
    <3>1. Cardinality(ToSet(p) \cup {o}) = Cardinality(ToSet(p)) + 1
      BY <1>2, <2>1, FS_AddElement
    <3> QED
      BY <2>2, <2>4, <3>1 DEF SortedSoFar
  <2>6. ASSUME NEW i \in 1..Len(q), NEW j \in 1..Len(q), i < j
        PROVE  q[i] # q[j] /\ ~KeyLess(KeyOf(q[j]), KeyOf(q[i]))
    <3>1. i \in 1..Len(p)
      BY <1>1, <2>2, <2>6
    <3>2. CASE j \in 1..Len(p)
      BY <2>2, <2>6, <3>1, <3>2 DEF SortedSoFar
    <3>3. CASE j = Len(p) + 1
      <4>1. q[j] = o /\ q[i] = p[i] /\ o \in all \ ToSet(p) /\ p[i] \in ToSet(p)
        BY <1>1, <2>1, <2>2, <3>1, <3>3
      <4> QED
        BY <3>1, <4>1 DEF SortedSoFar
    <3> QED
      BY <2>3, <3>2, <3>3
  <2>7. ASSUME NEW i \in 1..Len(q), NEW x \in all \ ToSet(q)
        PROVE  ~KeyLess(KeyOf(x), KeyOf(q[i]))
    <3>1. x \in all \ ToSet(p)
      BY <2>4, <2>7
    <3> QED
      BY <2>1, <2>2, <2>3, <2>7, <3>1 DEF SortedSoFar
  <2>8. SortedSoFar(q, all)
    BY <2>2, <2>5, <2>6, <2>7 DEF SortedSoFar
  <2> QED
    BY <2>2, <2>8 DEF q
<1> QED
  BY <1>7, <1>9

Sorts(f, N, all, edges) == f = [n \in 0..N |-> SortRule(f, n, all, edges)]

LEMMA SortExists ==
    ASSUME NEW N \in Nat, NEW all, NEW edges
    PROVE  \E f : Sorts(f, N, all, edges)
<1> DEFINE Upto(f, n) == f = [k \in 0..n |-> SortRule(f, k, all, edges)]
           G == {n \in Nat : \E f : Upto(f, n)}
<1>0. \A f, g : \A k : f[k - 1] = g[k - 1] \/ k = 0 => SortRule(f, k, all, edges) = SortRule(g, k, all, edges)
  BY DEF SortRule
<1>1. 0 \in G
  <2> DEFINE f == [k \in 0..0 |-> <<>>]
  <2>1. \A k \in 0..0 : k = 0
    OBVIOUS
  <2>2. \A k \in 0..0 : SortRule(f, k, all, edges) = <<>>
    BY <2>1 DEF SortRule
  <2>3. Upto(f, 0)
    BY <2>2
  <2> QED
    BY <2>3
<1>2. ASSUME NEW n \in 0..(N - 1), n \in G
      PROVE  n + 1 \in G
  <2>1. PICK f : Upto(f, n)
    BY <1>2
  <2> DEFINE g == [k \in 0..(n + 1) |-> IF k = n + 1 THEN SortRule(f, k, all, edges) ELSE f[k]]
  <2>2. n \in Nat
    BY <1>2
  <2>3. \A k \in 0..(n + 1) : k = 0 \/ f[k - 1] = g[k - 1]
    BY <2>2
  <2>4. \A k \in 0..(n + 1) : SortRule(f, k, all, edges) = SortRule(g, k, all, edges)
    <3> HIDE DEF g
    <3> QED
      BY <1>0, <2>3
  <2>5. \A k \in 0..(n + 1) : g[k] = SortRule(f, k, all, edges)
    <3>1. \A k \in 0..n : f[k] = SortRule(f, k, all, edges)
      BY <2>1
    <3>2. \A k \in 0..(n + 1) : k = n + 1 \/ k \in 0..n
      BY <2>2
    <3> QED
      BY <3>1, <3>2
  <2>6. g = [k \in 0..(n + 1) |-> g[k]]
    OBVIOUS
  <2>7. Upto(g, n + 1)
    <3> HIDE DEF g
    <3> QED
      BY <2>4, <2>5, <2>6
  <2>8. n + 1 \in Nat /\ \E h : Upto(h, n + 1)
    <3> HIDE DEF g, Upto
    <3> QED
      BY <2>2, <2>7
  <2> HIDE DEF Upto
  <2> QED
    BY <2>8
<1>3. N \in G
  <2> HIDE DEF G
  <2> QED
    BY <1>1, <1>2, Induct
<1> QED
  BY <1>3 DEF Sorts

LEMMA FirstIs ==
    ASSUME NEW all, NEW S \in SUBSET all, NEW m, Minimal(m, S)
    PROVE  Minimal(FirstOf([o \in all |-> KeyOf(o)], S), S)
<1> DEFINE key == [o \in all |-> KeyOf(o)]
           Is(o) == o \in S /\ \A x \in S : ~KeyLess(key[x], key[o])
           first == FirstOf(key, S)
<1>1. \A o : Is(o) <=> Minimal(o, S)
  BY DEF Minimal
<1>2. first = CHOOSE o : Is(o)
  BY DEF FirstOf
<1> HIDE DEF Is, first
<1>3. Is(first)
  BY <1>1, <1>2
<1> QED
  BY <1>1, <1>3 DEF first

LEMMA TopoSortIs ==
    ASSUME NEW all, NEW edges, Cardinality(all) \in Nat
    PROVE  \E f : /\ Sorts(f, Cardinality(all), all, edges)
                  /\ TopoSort(all, edges) = f[Cardinality(all)]
<1> DEFINE N == Cardinality(all)
           key == [o \in all |-> KeyOf(o)]
           preds == [o \in all |-> {d.from : d \in {e \in edges : e.to = o /\ ~ e.carried}}]
           Ready0(f, n) == {o \in all \ ToSet(f[n - 1]) : preds[o] \subseteq ToSet(f[n - 1])}
           Rule(f, n) == IF n = 0 THEN <<>>
                         ELSE IF Ready0(f, n) = {} THEN f[n - 1]
                         ELSE Append(f[n - 1], FirstOf(key, Ready0(f, n)))
           Is(f) == f = [n \in 0..N |-> Rule(f, n)]
           sorted == CHOOSE f : Is(f)
<1>1. TopoSort(all, edges) = sorted[N]
  BY DEF TopoSort
<1>2. \A f, n : Ready0(f, n) = Waiting(f[n - 1], all, edges)
  BY DEF Waiting
<1>3. \A f, n : Rule(f, n) = SortRule(f, n, all, edges)
  <2> HIDE DEF Ready0
  <2> QED
    BY <1>2 DEF SortRule
<1>4. \E f : Sorts(f, N, all, edges)
  BY SortExists
<1> HIDE DEF Rule, N
<1>5. \A f : Is(f) <=> Sorts(f, N, all, edges)
  BY <1>3 DEF Sorts
<1> HIDE DEF Is
<1>6. Is(sorted)
  BY <1>4, <1>5
<1> HIDE DEF sorted
<1> QED
  BY <1>1, <1>5, <1>6 DEF N

LEMMA TopoSorted ==
    ASSUME NEW all, IsFiniteSet(all), \A o \in all : Nine(KeyOf(o)), NEW edges, Upward(all, edges)
    PROVE  /\ SortedSoFar(TopoSort(all, edges), all)
           /\ Len(TopoSort(all, edges)) = Cardinality(all)
<1> DEFINE N == Cardinality(all)
<1>1. N \in Nat
  BY FS_CardinalityType
<1>2. PICK f : Sorts(f, N, all, edges) /\ TopoSort(all, edges) = f[N]
  BY <1>1, TopoSortIs
<1> DEFINE G == {n \in 0..N : SortedSoFar(f[n], all) /\ Len(f[n]) = n}
<1> HIDE DEF N
<1>3. 0 \in G
  <2>1. f[0] = <<>>
    BY <1>1, <1>2 DEF SortRule, Sorts
  <2>2. SortedSoFar(<<>>, all) /\ Len(<<>>) = 0
    <3>1. <<>> \in Seq(all) /\ Len(<<>>) = 0
      OBVIOUS
    <3>2. Cardinality(ToSet(<<>>)) = 0
      <4>1. ToSet(<<>>) = {}
        BY DEF ToSet
      <4> QED
        BY <4>1, FS_EmptySet
    <3>3. 1..0 = {}
      OBVIOUS
    <3> QED
      BY <3>1, <3>2, <3>3 DEF SortedSoFar
  <2> QED
    BY <1>1, <2>1, <2>2
<1>4. ASSUME NEW n \in 0..(N - 1), n \in G
      PROVE  n + 1 \in G
  <2>1. SortedSoFar(f[n], all) /\ Len(f[n]) = n /\ n < N /\ n \in Nat /\ n + 1 \in 0..N
    BY <1>1, <1>4
  <2> DEFINE W == Waiting(f[n], all, edges)
             first == FirstOf([o \in all |-> KeyOf(o)], W)
  <2>2. f[n + 1] = IF W = {} THEN f[n] ELSE Append(f[n], first)
    <3>1. f[n + 1] = SortRule(f, n + 1, all, edges)
      BY <1>2, <2>1 DEF Sorts
    <3>2. n + 1 # 0 /\ (n + 1) - 1 = n
      BY <2>1
    <3> QED
      BY <3>1, <3>2 DEF SortRule
  <2>3. W # {} /\ \A o : Minimal(o, W) => SortedSoFar(Append(f[n], o), all)
                                          /\ Len(Append(f[n], o)) = n + 1
    <3>1. Len(f[n]) < Cardinality(all)
      BY <2>1 DEF N
    <3> QED
      BY <2>1, <3>1, AppendKeeps
  <2>4. Minimal(first, W)
    <3>1. W \in SUBSET all
      BY DEF Waiting
    <3>2. IsFiniteSet(W) /\ \A o \in W : Nine(KeyOf(o))
      BY <3>1, FS_Subset
    <3> HIDE DEF W
    <3>3. PICK m : Minimal(m, W)
      BY <2>3, <3>2, MinimalExists
    <3> QED
      BY <3>1, <3>3, FirstIs
  <2> HIDE DEF W, first
  <2> QED
    BY <2>1, <2>2, <2>3, <2>4
<1>5. N \in G
  <2> HIDE DEF G
  <2>1. \A n \in 0..(N - 1) : n \in G => n + 1 \in G
    BY <1>4
  <2>2. \A n \in 0..N : n \in G
    BY <1>1, <1>3, <2>1, Induct
  <2> QED
    BY <1>1, <2>2
<1> QED
  BY <1>2, <1>5 DEF N

-----------------------------------------------------------------------------
(* Operations are made of tables and signs, so there are finitely many and *)
(* their keys are tuples of numbers.                                       *)
LEMMA OpTyped ==
    ASSUME Stamped, NEW o \in Inventory
    PROVE  /\ o.kind \in {Constructed[i] : i \in 1..16} /\ o.head \in Table
           /\ o.of \in Table \cup {0} /\ o.sign \in {-1, 0, 1}
<1>1. /\ prog.phase \subseteq Table
      /\ \A t \in Table : prog.reads[t] \subseteq Table /\ prog.negated[t] \subseteq Table
  BY LegalFacts, StampedFacts DEF Stamped
<1>2. o.kind \in {Constructed[i] : i \in 1..16}
  <2>1. o.kind \in {"kCrossover", "kProductArm", "kGroupUpdate", "kStateSeal", "kSeedFold",
                    "kPivotSeed", "kChainFold", "kFixpointFire", "kClaimDrain", "kRetire",
                    "kRederive", "kFrontierFilter", "kCommitSweep", "kPivotAssemble",
                    "kNegateGate", "kIngestFold"}
    BY InventoryFacts
  <2>2. /\ Constructed[1] = "kCrossover" /\ Constructed[2] = "kProductArm"
        /\ Constructed[3] = "kGroupUpdate" /\ Constructed[4] = "kStateSeal"
        /\ Constructed[5] = "kSeedFold" /\ Constructed[6] = "kPivotSeed"
        /\ Constructed[7] = "kChainFold" /\ Constructed[8] = "kFixpointFire"
        /\ Constructed[9] = "kClaimDrain" /\ Constructed[10] = "kRetire"
        /\ Constructed[11] = "kRederive" /\ Constructed[12] = "kFrontierFilter"
        /\ Constructed[13] = "kCommitSweep" /\ Constructed[14] = "kPivotAssemble"
        /\ Constructed[15] = "kNegateGate" /\ Constructed[16] = "kIngestFold"
    BY DEF Constructed
  <2>3. \A i \in 1..16 : Constructed[i] \in {Constructed[k] : k \in 1..16}
    OBVIOUS
  <2>4. /\ 1 \in 1..16 /\ 2 \in 1..16 /\ 3 \in 1..16 /\ 4 \in 1..16 /\ 5 \in 1..16
        /\ 6 \in 1..16 /\ 7 \in 1..16 /\ 8 \in 1..16 /\ 9 \in 1..16 /\ 10 \in 1..16
        /\ 11 \in 1..16 /\ 12 \in 1..16 /\ 13 \in 1..16 /\ 14 \in 1..16 /\ 15 \in 1..16
        /\ 16 \in 1..16
    OBVIOUS
  <2> QED
    BY <2>1, <2>2, <2>3, <2>4
<1>3. o.head \in Table /\ o.of \in Table \cup {0} /\ o.sign \in {-1, 0, 1}
  <2>1. CASE o \in CrossoverOps
    BY <1>1, <2>1, CrossoverFacts
  <2>2. CASE o \in ProductArms
    BY <1>1, <2>2, ProductFacts
  <2>3. CASE o \in GroupUpdateOps
    BY <1>1, <2>3, GroupUpdateFacts
  <2>4. CASE o \in SeedFolds
    BY <1>1, <2>4, SeedFacts
  <2>5. CASE o \in ChainFolds
    BY <1>1, <2>5, ChainFacts
  <2>6. CASE o \in FixpointFires
    BY <1>1, <2>6, FireFacts
  <2>7. CASE o \in PhaseTableOps
    BY <1>1, <2>7, PhaseOpFacts
  <2>8. CASE o \in CommitSweeps \cup NegateGates \cup IngestFolds
    <3>1. \A t : SignsOf(t) \subseteq {-1, 1}
      BY SignsFacts
    <3>2. \/ \E t \in Table : o = Op("kCommitSweep", t, 0, 0) \/ o = Op("kNegateGate", t, 0, 0)
          \/ \E t \in Table : \E s \in SignsOf(t) : o = Op("kIngestFold", t, 0, s)
      BY <2>8 DEF CommitSweeps, NegateGates, IngestFolds
    <3> QED
      BY <3>1, <3>2, OpFields
  <2>9. CASE o \in PivotAssembles
    <3>1. PICK j \in Joins(prog) : o = Op("kPivotAssemble", j.head, 0, 0)
      BY <2>9 DEF PivotAssembles
    <3>2. j.head \in prog.phase
      BY UnitFields DEF Joins, FilledBy
    <3> QED
      BY <1>1, <3>1, <3>2, OpFields
  <2> QED
    BY <2>1, <2>2, <2>3, <2>4, <2>5, <2>6, <2>7, <2>8, <2>9 DEF Inventory
<1> QED
  BY <1>2, <1>3

LEMMA InventoryFinite ==
    ASSUME Stamped
    PROVE  IsFiniteSet(Inventory)
<1> DEFINE A == 1..16
           B == Table \cup {0}
           C == {-1, 0, 1}
           D == (A \X Table) \X (B \X C)
           f == [x \in D |-> Op(Constructed[x[1][1]], x[1][2], x[2][1], x[2][2])]
<1>1. IsFiniteSet(Table)
  BY LegalFacts, StampedFacts DEF Stamped
<1>2. IsFiniteSet(A) /\ IsFiniteSet(B) /\ IsFiniteSet(C)
  <2>0. 1 \in Int /\ 16 \in Int /\ -1 \in Int
    OBVIOUS
  <2>1. IsFiniteSet(1..16)
    BY <2>0, FS_Interval, Zenon
  <2>2. IsFiniteSet(Table \cup {0})
    BY <1>1, FS_AddElement
  <2>3. IsFiniteSet(-1..1)
    BY <2>0, FS_Interval, Zenon
  <2>4. -1..1 = {-1, 0, 1}
    OBVIOUS
  <2> QED
    BY <2>1, <2>2, <2>3, <2>4
<1>3. IsFiniteSet(D)
  <2> HIDE DEF A, B, C
  <2>1. IsFiniteSet(A \X Table) /\ IsFiniteSet(B \X C)
    BY <1>1, <1>2, FS_Product
  <2> QED
    BY <2>1, FS_Product
<1>4. IsFiniteSet({f[x] : x \in D})
  <2> HIDE DEF D, f
  <2> QED
    BY <1>3, NumbersFinite
<1>5. Inventory \subseteq {f[x] : x \in D}
  <2>1. SUFFICES ASSUME NEW o \in Inventory
                 PROVE  \E x \in D : o = f[x]
    OBVIOUS
  <2>2. PICK i \in A : o.kind = Constructed[i]
    BY OpTyped
  <2>3. <<<<i, o.head>>, <<o.of, o.sign>>>> \in D
    BY <2>2, OpTyped
  <2>4. o = Op(Constructed[i], o.head, o.of, o.sign)
    BY <2>2, OpIs
  <2>5. f[<<<<i, o.head>>, <<o.of, o.sign>>>>] = Op(Constructed[i], o.head, o.of, o.sign)
    BY <2>3
  <2> HIDE DEF D, f
  <2> QED
    BY <2>3, <2>4, <2>5
<1> HIDE DEF D, f
<1> QED
  BY <1>4, <1>5, FS_Subset

(* A join's operations in the rounds have its unit.                        *)
LEMMA JoinUnit ==
    ASSUME Stamped, NEW o \in Inventory, o.kind \in {"kFixpointFire", "kPivotAssemble"}
    PROVE  /\ o.head \in prog.phase
           /\ OpStratum(o) \in Nat /\ drain[o.head] \in Nat /\ OpStratum(o) <= drain[o.head]
<1>1. o \in FixpointFires \cup PivotAssembles
  <2>1. \A k : o \in CommitSweeps \cup NegateGates \cup IngestFolds =>
                  o.kind \in {"kCommitSweep", "kNegateGate", "kIngestFold"}
    BY OtherOpFacts
  <2>2. \/ o \in CrossoverOps \/ o \in ProductArms \/ o \in GroupUpdateOps \/ o \in SeedFolds
        \/ o \in ChainFolds \/ o \in PhaseTableOps
        \/ o \in CommitSweeps \cup NegateGates \cup IngestFolds
        \/ o \in FixpointFires \cup PivotAssembles
    BY DEF Inventory
  <2> QED
    BY <2>1, <2>2, CrossoverFacts, ProductFacts, GroupUpdateFacts, SeedFacts, ChainFacts, PhaseOpFacts
<1>2. PICK j \in Joins(prog) : o.head = j.head
  BY <1>1, OpFields, BothFacts DEF FixpointFires, PivotAssembles
<1>3. j \in Units(prog) /\ j.family = "join"
  BY UnitFields DEF Joins, Units
<1>4. OpStratum(o) = unitStratum[UnitOf(o, {"join"})]
  BY DEF OpStratum
<1> QED
  BY <1>2, <1>3, <1>4, UnitNumber

LEMMA StratumNumber ==
    ASSUME Stamped, NEW o \in Inventory, Lead(o) = 1
    PROVE  OpStratum(o) \in Nat
<1>1. CASE o.kind \in OuterKinds
  <2>1. EmitStratum(o) \in Nat /\ ~EmittedInRounds(o)
    BY <1>1, OuterPlace DEF OuterKinds, EmittedInRounds, Looped
  <2> QED
    BY <2>1 DEF EmitStratum
<1>2. CASE o.kind \in {"kFixpointFire", "kPivotAssemble"}
  BY <1>2, JoinUnit
<1>3. CASE o.kind \in {"kChainFold", "kClaimDrain", "kRetire", "kRederive", "kFrontierFilter"}
  <2>1. o.head \in prog.phase
    BY <1>3, InventoryFacts, ChainFacts, PhaseOpFacts
  <2> QED
    BY <1>3, <2>1, StampedFacts DEF OpStratum
<1>4. o.kind \notin {"kNegateGate", "kIngestFold", "kCommitSweep", "kStateSeal"}
  BY DEF Lead
<1> QED
  BY <1>1, <1>2, <1>3, <1>4, InventoryFacts DEF OuterKinds

LEMMA KeyTyped ==
    ASSUME Stamped, address \in [Table -> Nat], NEW o \in Inventory
    PROVE  Nine(KeyOf(o))
<1>1. /\ o.head \in Table /\ o.of \in Nat /\ o.sign \in Int /\ o.head \in Nat
      /\ address[o.head] \in Nat
  <2>1. o.head \in Table /\ o.of \in Table \cup {0} /\ o.sign \in {-1, 0, 1}
    BY OpTyped
  <2>2. Table \subseteq Nat
    BY DRFlowAssumption
  <2>3. 0 \in Nat /\ -1 \in Int /\ 0 \in Int /\ 1 \in Int
    OBVIOUS
  <2>4. o.of \in Nat /\ o.sign \in Int
    BY <2>1, <2>2, <2>3, Zenon
  <2>5. address[o.head] \in Nat
    BY <2>1
  <2> QED
    BY <2>1, <2>2, <2>4, <2>5
<1>2. Lead(o) \in Nat /\ OpBand(o) \in Nat /\ OpTableId(o) \in Nat /\ OpSign(o) \in Int
      /\ CtorSign(o) \in Int
  <2>1. Lead(o) \in Nat
    BY DEF Lead
  <2>2. OpBand(o) \in Nat
    BY DEF OpBand
  <2>3. OpTableId(o) \in Nat /\ OpSign(o) \in Int /\ CtorSign(o) \in Int
    BY <1>1 DEF OpTableId, OpSign, CtorSign
  <2> QED
    BY <2>1, <2>2, <2>3
<1>3. CtorLoop(o) \in Int
  <2>1. \E i : i \in DOMAIN Constructed /\ Constructed[i] = o.kind
    <3>1. DOMAIN Constructed = 1..16
      BY DEF Constructed
    <3> QED
      BY <3>1, OpTyped
  <2>2. CtorLoop(o) \in DOMAIN Constructed
    BY <2>1 DEF CtorLoop
  <2>3. DOMAIN Constructed = 1..16
    BY DEF Constructed
  <2> QED
    BY <2>2, <2>3
<1>4. (IF Lead(o) = 1 THEN OpStratum(o) ELSE 0) \in Int
  BY StratumNumber
<1> QED
  BY <1>1, <1>2, <1>3, <1>4 DEF KeyOf, Nine

-----------------------------------------------------------------------------
(* Dependences go up in the key, but for those of the next iteration,      *)
(* which reverse one that does.                                            *)
LEMMA DepFacts ==
    ASSUME NEW all, NEW d \in DepEdges(all)
    PROVE  \E a, b \in all :
              /\ KeyLess(KeyOf(a), KeyOf(b))
              /\ \/ ~d.carried /\ d.from = a /\ d.to = b
                 \/ /\ d.carried /\ d.from = b /\ d.to = a
                    /\ Dep(a, b, "kWAR", FALSE) \in DepEdges(all)
<1> DEFINE key == [o \in all |-> KeyOf(o)]
           reads == [o \in all |-> ResourcesRead(o)]
           writes == [o \in all |-> ResourcesWritten(o)]
           H(a, b) == Hazards(a, b, reads, writes)
           Later(a) == {x \in all : KeyLess(key[a], key[x])}
<1>1. DepEdges(all) = UNION {UNION {H(a, b) : b \in Later(a)} : a \in all}
  BY DEF DepEdges
<1> HIDE DEF H, Later
<1>2. PICK a \in all : \E b \in Later(a) : d \in H(a, b)
  BY <1>1
<1>3. PICK b \in Later(a) : d \in H(a, b)
  BY <1>2
<1>4. b \in all /\ KeyLess(KeyOf(a), KeyOf(b))
  BY DEF Later
<1>5. H(a, b) \subseteq DepEdges(all)
  BY <1>1, <1>4
<1>6. \/ ~d.carried /\ d.from = a /\ d.to = b
      \/ /\ d.carried /\ d.from = b /\ d.to = a
         /\ Dep(a, b, "kWAR", FALSE) \in H(a, b)
  <2>1. \A x, y, k : /\ Dep(x, y, k, FALSE).from = x /\ Dep(x, y, k, FALSE).to = y
                     /\ Dep(x, y, k, TRUE).from = x /\ Dep(x, y, k, TRUE).to = y
                     /\ ~Dep(x, y, k, FALSE).carried /\ Dep(x, y, k, TRUE).carried
    BY DEF Dep
  <2>2. ASSUME NEW k, d = Dep(a, b, k, FALSE)
        PROVE  ~d.carried /\ d.from = a /\ d.to = b
    <3>1. ~d.carried
      BY <2>1, <2>2, Zenon
    <3>2. d.from = a /\ d.to = b
      BY <2>2 DEF Dep
    <3> QED
      BY <3>1, <3>2
  <2>3. CASE d = Dep(b, a, "kRAW", TRUE) /\ reads[a] \cap writes[b] # {}
    <3>1. Dep(a, b, "kWAR", FALSE) \in H(a, b)
      BY <2>3 DEF H, Hazards
    <3>2. d.from = b /\ d.to = a
      BY <2>3 DEF Dep
    <3>3. d.carried
      BY <2>1, <2>3, Zenon
    <3> QED
      BY <3>1, <3>2, <3>3
  <2> QED
    <3>1. \/ d = Dep(a, b, "kWAW", FALSE) \/ d = Dep(a, b, "kRAW", FALSE)
          \/ d = Dep(a, b, "kWAR", FALSE)
          \/ d = Dep(b, a, "kRAW", TRUE) /\ \E r \in reads[a] \cap writes[b] : TRUE
      BY <1>3 DEF H, Hazards
    <3> QED
      BY <2>2, <2>3, <3>1
<1> QED
  BY <1>4, <1>5, <1>6

-----------------------------------------------------------------------------
(* The sorted operations: every one has one place, and the lower key comes *)
(* first.                                                                  *)
Keyed == Stamped /\ DOMAIN ops = Inventory /\ address \in [Table -> Nat]
Laid == SortedSoFar(pinned, Inventory) /\ Len(pinned) = Cardinality(Inventory)
Sorted == Keyed /\ deps = DepEdges(DOMAIN ops) /\ Laid

LEMMA Linearized ==
    ASSUME Keyed, deps = DepEdges(DOMAIN ops)
    PROVE  LET p == TopoSort(DOMAIN ops, deps)
           IN  SortedSoFar(p, Inventory) /\ Len(p) = Cardinality(Inventory)
<1>1. Upward(Inventory, deps)
  BY DepFacts DEF Upward, Keyed
<1>2. IsFiniteSet(Inventory) /\ \A o \in Inventory : Nine(KeyOf(o))
  BY InventoryFinite, KeyTyped DEF Keyed
<1> QED
  BY <1>1, <1>2, TopoSorted DEF Keyed

PlaceOf(o) == CHOOSE i \in DOMAIN pinned : pinned[i] = o

LEMMA Places ==
    ASSUME Sorted
    PROVE  /\ ToSet(pinned) = Inventory /\ Len(pinned) = Cardinality(Inventory)
           /\ \A i \in 1..Len(pinned) : pinned[i] \in Inventory
           /\ \A a \in Inventory : PlaceOf(a) \in 1..Len(pinned) /\ pinned[PlaceOf(a)] = a
           /\ \A a, b \in Inventory : KeyLess(KeyOf(a), KeyOf(b)) => PlaceOf(a) < PlaceOf(b)
           /\ \A i \in 1..(Len(pinned) - 1) :
                 ~KeyLess(KeyOf(pinned[i + 1]), KeyOf(pinned[i]))
<1>2. IsFiniteSet(Inventory) /\ \A o \in Inventory : Nine(KeyOf(o))
  BY InventoryFinite, KeyTyped DEF Sorted, Keyed
<1>3. SortedSoFar(pinned, Inventory) /\ Len(pinned) = Cardinality(Inventory)
  BY DEF Sorted, Laid
<1>4. pinned \in Seq(Inventory) /\ DOMAIN pinned = 1..Len(pinned) /\ Len(pinned) \in Nat
  BY <1>3 DEF SortedSoFar
<1>5. ToSet(pinned) = Inventory
  <2>1. ToSet(pinned) \subseteq Inventory
    BY <1>4 DEF ToSet
  <2>2. Cardinality(ToSet(pinned)) = Cardinality(Inventory)
    BY <1>3 DEF SortedSoFar
  <2> QED
    BY <1>2, <2>1, <2>2, FS_Subset
<1>6. ASSUME NEW a \in Inventory
      PROVE  PlaceOf(a) \in 1..Len(pinned) /\ pinned[PlaceOf(a)] = a
  <2>1. \E i \in DOMAIN pinned : pinned[i] = a
    BY <1>5 DEF ToSet
  <2>2. PlaceOf(a) \in DOMAIN pinned /\ pinned[PlaceOf(a)] = a
    BY <2>1 DEF PlaceOf
  <2> QED
    BY <1>4, <2>2
<1>7. ASSUME NEW a \in Inventory, NEW b \in Inventory, KeyLess(KeyOf(a), KeyOf(b))
      PROVE  PlaceOf(a) < PlaceOf(b)
  <2> DEFINE i == PlaceOf(a)
             j == PlaceOf(b)
  <2>1. i \in 1..Len(pinned) /\ j \in 1..Len(pinned) /\ pinned[i] = a /\ pinned[j] = b
    BY <1>6
  <2> HIDE DEF i, j
  <2>2. i # j
    <3>1. ~KeyLess(KeyOf(a), KeyOf(a))
      BY <1>2, LessFacts
    <3> QED
      BY <1>7, <2>1, <3>1
  <2>3. ~(j < i)
    BY <1>3, <1>7, <2>1 DEF SortedSoFar
  <2>4. i < j
    BY <1>4, <2>1, <2>2, <2>3
  <2> QED
    BY <2>4 DEF i, j
<1>8. ASSUME NEW i \in 1..(Len(pinned) - 1)
      PROVE  ~KeyLess(KeyOf(pinned[i + 1]), KeyOf(pinned[i]))
  <2>1. i \in 1..Len(pinned) /\ i + 1 \in 1..Len(pinned) /\ i < i + 1
    BY <1>4
  <2> QED
    BY <1>3, <2>1 DEF SortedSoFar
<1> QED
  BY <1>3, <1>4, <1>5, <1>6, <1>7, <1>8

(* A lower key has no higher stratum.                                      *)
LEMMA KeyStrata ==
    ASSUME NEW a, NEW b, KeyLess(KeyOf(a), KeyOf(b)), Lead(a) = 1, Lead(b) = 1,
           OpStratum(a) \in Nat, OpStratum(b) \in Nat
    PROVE  OpStratum(a) <= OpStratum(b)
<1> DEFINE x == KeyOf(a)
           y == KeyOf(b)
<1>1. x[1] = 1 /\ y[1] = 1 /\ x[2] = OpStratum(a) /\ y[2] = OpStratum(b)
  BY DEF KeyOf
<1> HIDE DEF x, y
<1>2. PICK i \in 1..9 : x[i] < y[i] /\ \A j \in 1..(i - 1) : x[j] = y[j]
  BY DEF KeyLess, x, y
<1>3. i # 1
  BY <1>1, <1>2
<1>4. i = 2 \/ 2 \in 1..(i - 1)
  BY <1>3
<1> QED
  BY <1>1, <1>2, <1>4

(* A joint firing of a round is below the retirements of its SCC.          *)
LEMMA RetireLater ==
    ASSUME Stamped, NEW f \in Inventory, f.kind = "kFixpointFire",
           NEW r \in Inventory, r.kind = "kRetire", scc[r.head] = scc[f.head]
    PROVE  KeyLess(KeyOf(f), KeyOf(r))
<1>1. f.head \in prog.phase /\ r.head \in prog.phase /\ Recursive(f.head) /\ Recursive(r.head)
  BY InventoryFacts, FireFacts, PhaseOpFacts
<1>2. OpStratum(f) \in Nat /\ OpStratum(f) <= drain[f.head]
  BY JoinUnit
<1>3. drain[f.head] = drain[r.head] /\ drain[r.head] \in Nat
  <2>1. \A t \in prog.phase : Recursive(t) => round[scc[t]] = drain[t]
    BY StampedFacts
  <2>2. round[scc[f.head]] = drain[f.head] /\ round[scc[r.head]] = drain[r.head]
    BY <1>1, <2>1
  <2> QED
    BY <1>1, <2>2, StampedFacts
<1>4. OpStratum(r) = drain[r.head]
  BY DEF OpStratum
<1>5. Lead(f) = 1 /\ Lead(r) = 1 /\ OpBand(f) = 4 /\ OpBand(r) = 6
  BY DEF Lead, OpBand
<1> DEFINE x == KeyOf(f)
           y == KeyOf(r)
<1>6. /\ x[1] = 1 /\ y[1] = 1 /\ x[2] = OpStratum(f) /\ y[2] = OpStratum(r)
      /\ x[3] = 4 /\ y[3] = 6
  BY <1>5 DEF KeyOf
<1> HIDE DEF x, y
<1>7. CASE OpStratum(f) < OpStratum(r)
  <2>1. 2 \in 1..9 /\ \A j \in 1..(2 - 1) : x[j] = y[j]
    BY <1>6
  <2>2. x[2] < y[2]
    BY <1>6, <1>7
  <2> QED
    BY <2>1, <2>2 DEF KeyLess, x, y
<1>8. CASE OpStratum(f) = OpStratum(r)
  <2>1. 3 \in 1..9 /\ \A j \in 1..(3 - 1) : j = 1 \/ j = 2
    OBVIOUS
  <2>2. x[3] < y[3]
    BY <1>6
  <2> QED
    BY <1>6, <1>8, <2>1, <2>2 DEF KeyLess, x, y
<1> QED
  BY <1>2, <1>3, <1>4, <1>7, <1>8

(* No check of the order fails.                                            *)
LEMMA OrderPasses ==
    ASSUME Sorted, RetiresExist
    PROVE  ValidateOrder = {}
<1> DEFINE key == [o \in DOMAIN ops |-> KeyOf(o)]
           pos == [o \in ToSet(pinned) |-> CHOOSE i \in DOMAIN pinned : pinned[i] = o]
           onLattice(o) == Lead(o) = 1
           linear == Len(pinned) = Cardinality(DOMAIN ops) /\ \A d \in InPass : pos[d.from] < pos[d.to]
           loop == \A d \in deps \ InPass :
                      /\ Dep(d.to, d.from, "kWAR", FALSE) \in deps
                      /\ pos[d.to] < pos[d.from]
           retireAfter ==
               \A f \in OfKind({"kFixpointFire"}) :
                   LET retires == {r \in OfKind({"kRetire"}) :
                                      scc[r.head] = scc[f.head] /\ r.sign = f.sign}
                   IN  retires # {} /\ \A r \in retires : pos[f] < pos[r]
           ready == \A d \in InPass :
                       d.kind = "kRAW" /\ onLattice(d.from) /\ onLattice(d.to)
                           => OpStratum(d.from) <= OpStratum(d.to)
           order == \A i \in 1 .. Len(pinned) - 1 : ~ KeyLess(key[pinned[i + 1]], key[pinned[i]])
<1>1. Stamped /\ DOMAIN ops = Inventory
  BY DEF Sorted, Keyed
<1>2. /\ ToSet(pinned) = Inventory /\ Len(pinned) = Cardinality(Inventory)
      /\ \A i \in 1..Len(pinned) : pinned[i] \in Inventory
      /\ \A a \in Inventory : PlaceOf(a) \in 1..Len(pinned) /\ pinned[PlaceOf(a)] = a
      /\ \A a, b \in Inventory : KeyLess(KeyOf(a), KeyOf(b)) => PlaceOf(a) < PlaceOf(b)
      /\ \A i \in 1..(Len(pinned) - 1) :
            ~KeyLess(KeyOf(pinned[i + 1]), KeyOf(pinned[i]))
  BY Places
<1>3. \A a \in Inventory : pos[a] = PlaceOf(a) /\ key[a] = KeyOf(a)
  BY <1>1, <1>2 DEF PlaceOf
<1>4. \A a, b \in Inventory : KeyLess(KeyOf(a), KeyOf(b)) => pos[a] < pos[b]
  <2> HIDE DEF pos, key
  <2> QED
    BY <1>2, <1>3
<1>5. \A d \in deps :
         \E a, b \in Inventory :
            /\ KeyLess(KeyOf(a), KeyOf(b))
            /\ \/ ~d.carried /\ d.from = a /\ d.to = b
               \/ /\ d.carried /\ d.from = b /\ d.to = a
                  /\ Dep(a, b, "kWAR", FALSE) \in deps
  BY <1>1, DepFacts DEF Sorted
<1> HIDE DEF pos, key
<1>6. linear
  <2>1. ASSUME NEW d \in InPass
        PROVE  pos[d.from] < pos[d.to]
    <3>1. d \in deps /\ ~d.carried
      BY DEF InPass
    <3> QED
      BY <1>4, <1>5, <3>1
  <2> QED
    BY <1>1, <1>2, <2>1
<1>7. loop
  <2>1. SUFFICES ASSUME NEW d \in deps \ InPass
                 PROVE  Dep(d.to, d.from, "kWAR", FALSE) \in deps /\ pos[d.to] < pos[d.from]
    OBVIOUS
  <2>2. d.carried
    BY DEF InPass
  <2>3. PICK a \in Inventory : \E b \in Inventory :
            /\ KeyLess(KeyOf(a), KeyOf(b)) /\ d.from = b /\ d.to = a
            /\ Dep(a, b, "kWAR", FALSE) \in deps
    BY <1>5, <2>2
  <2>4. PICK b \in Inventory : /\ KeyLess(KeyOf(a), KeyOf(b)) /\ d.from = b /\ d.to = a
                               /\ Dep(a, b, "kWAR", FALSE) \in deps
    BY <2>3
  <2> QED
    BY <1>4, <2>4
<1>8. retireAfter
  <2>1. SUFFICES ASSUME NEW f \in OfKind({"kFixpointFire"})
                 PROVE  /\ \E r \in OfKind({"kRetire"}) : scc[r.head] = scc[f.head] /\ r.sign = f.sign
                        /\ \A r \in OfKind({"kRetire"}) :
                              scc[r.head] = scc[f.head] /\ r.sign = f.sign => pos[f] < pos[r]
    OBVIOUS
  <2>2. f \in Inventory /\ f.kind = "kFixpointFire"
    BY <1>1 DEF OfKind
  <2>3. f.sign \in {-1, 1}
    BY <2>2, InventoryFacts, FireFacts
  <2>4. \E r \in OfKind({"kRetire"}) : scc[r.head] = scc[f.head] /\ r.sign = f.sign
    <3>1. f \in OfKind({"kFixpointFire", "kChainFold"})
      BY DEF OfKind
    <3> QED
      BY <2>3, <3>1 DEF RetiresExist
  <2>5. ASSUME NEW r \in OfKind({"kRetire"}), scc[r.head] = scc[f.head]
        PROVE  pos[f] < pos[r]
    <3>1. r \in Inventory /\ r.kind = "kRetire"
      BY <1>1 DEF OfKind
    <3>2. KeyLess(KeyOf(f), KeyOf(r))
      BY <1>1, <2>2, <2>5, <3>1, RetireLater
    <3> QED
      BY <1>4, <2>2, <3>1, <3>2
  <2> QED
    BY <2>4, <2>5
<1>9. ready
  <2>1. SUFFICES ASSUME NEW d \in InPass, Lead(d.from) = 1, Lead(d.to) = 1
                 PROVE  OpStratum(d.from) <= OpStratum(d.to)
    OBVIOUS
  <2>2. d \in deps /\ ~d.carried
    BY DEF InPass
  <2>3. d.from \in Inventory /\ d.to \in Inventory /\ KeyLess(KeyOf(d.from), KeyOf(d.to))
    BY <1>5, <2>2
  <2>4. OpStratum(d.from) \in Nat /\ OpStratum(d.to) \in Nat
    BY <1>1, <2>1, <2>3, StratumNumber
  <2> QED
    BY <2>1, <2>3, <2>4, KeyStrata
<1>10. order
  <2>1. SUFFICES ASSUME NEW i \in 1 .. Len(pinned) - 1
                 PROVE  ~ KeyLess(key[pinned[i + 1]], key[pinned[i]])
    OBVIOUS
  <2>2. pinned[i] \in Inventory /\ pinned[i + 1] \in Inventory
    <3>1. Len(pinned) \in Nat
      BY <1>1, <1>2, InventoryFinite, FS_CardinalityType
    <3>2. i \in 1..Len(pinned) /\ i + 1 \in 1..Len(pinned)
      BY <3>1
    <3> QED
      BY <1>2, <3>2
  <2> QED
    BY <1>2, <1>3, <2>2
<1>11. ValidateOrder =
         IF Len(pinned) # Cardinality(DOMAIN ops) THEN {"V-LINEAR"}
         ELSE {v \in {"V-LINEAR", "V-LOOP", "V-RETIRE-AFTER", "V-READY", "V-OLD-EQUIV"} :
                 ~ CASE v = "V-LINEAR" -> linear [] v = "V-LOOP" -> loop
                     [] v = "V-RETIRE-AFTER" -> retireAfter [] v = "V-READY" -> ready
                     [] v = "V-OLD-EQUIV" -> order}
  BY DEF ValidateOrder, pos, key
<1> HIDE DEF linear, loop, retireAfter, ready, order
<1>12. \A v \in {"V-LINEAR", "V-LOOP", "V-RETIRE-AFTER", "V-READY", "V-OLD-EQUIV"} :
          CASE v = "V-LINEAR" -> linear [] v = "V-LOOP" -> loop
            [] v = "V-RETIRE-AFTER" -> retireAfter [] v = "V-READY" -> ready
            [] v = "V-OLD-EQUIV" -> order
  BY <1>6, <1>7, <1>8, <1>9, <1>10
<1>13. Len(pinned) = Cardinality(DOMAIN ops)
  BY <1>1, <1>2
<1> QED
  BY <1>11, <1>12, <1>13

-----------------------------------------------------------------------------
(* What the validators of the inventory ask for, kind by kind.             *)
LEMMA LegalKinds ==
    ASSUME Stamped, NEW t \in Table
    PROVE  /\ prog.kind[t] \in {"negate", "aggregate"} => t \in prog.phase
           /\ prog.kind[t] = "aggregate" => t \notin prog.reads[t]
           /\ \A w, x \in prog.negated[t] : w = x
<1>1. LegalProgram(prog) /\ prog \in Programs /\ DRStrataParameters
  BY StampedFacts DEF Stamped, DRStrataParameters
<1>2. prog.kind[t] \in {"negate", "aggregate"} => t \in prog.phase
  BY <1>1 DEF LegalProgram
<1>3. prog.kind[t] = "aggregate" => t \notin prog.reads[t]
  BY <1>1, LegalFacts DEF Cyclic
<1>4. \A w, x \in prog.negated[t] : w = x
  BY FilledFacts
<1> QED
  BY <1>2, <1>3, <1>4

LEMMA CrossoversPass ==
    ASSUME Checked, NEW o \in OfKind({"kCrossover"})
    PROVE  CrossoverChecks(o)
<1>0. Stamped /\ DOMAIN ops = Inventory
  BY DEF Checked
<1>1. /\ o \in Inventory /\ o.kind = "kCrossover" /\ o.head \in prog.phase /\ o.head \in Table
      /\ prog.kind[o.head] = "negate" /\ o.of \in prog.negated[o.head] /\ -o.sign \in SignsOf(o.of)
  <2>1. o \in Inventory /\ o.kind = "kCrossover"
    BY <1>0 DEF OfKind
  <2> QED
    BY <1>0, <2>1, InventoryFacts, CrossoverFacts, OpTyped
<1>2. Op("kCrossover", o.head, o.of, -1) \in Inventory
  BY <1>1, SignsFacts, CrossoverExists
<1>3. ASSUME Differential(o.of)
      PROVE  Op("kCrossover", o.head, o.of, 1) \in Inventory
  <2>1. -1 \in SignsOf(o.of)
    BY <1>3 DEF SignsOf
  <2>2. PICK z \in SignsOf(o.of) : z = -1
    BY <2>1
  <2>3. Op("kCrossover", o.head, o.of, -z) \in Inventory
    BY <1>1, CrossoverExists
  <2>4. -z = 1
    <3>1. z \in {-1, 1} /\ z # 1
      BY <2>2, SignsFacts
    <3>2. \A x \in {-1, 1} : x # 1 => -x = 1
      OBVIOUS
    <3> QED
      BY <3>1, <3>2
  <2> QED
    BY <2>3, <2>4
<1>4. ASSUME Op("kCrossover", o.head, o.of, 1) \in Inventory
      PROVE  Differential(o.of)
  <2> DEFINE x == Op("kCrossover", o.head, o.of, 1)
  <2>1. x.kind = "kCrossover" /\ x.of = o.of /\ x.sign = 1
    BY OpFields
  <2> HIDE DEF x
  <2>2. -x.sign \in SignsOf(x.of)
    BY <1>4, <2>1, InventoryFacts, CrossoverFacts DEF x
  <2>3. -1 \in SignsOf(o.of)
    BY <2>1, <2>2
  <2> QED
    BY <2>3 DEF SignsOf
<1>5. ASSUME NEW x \in OfKind({"kCrossover"}), x.head = o.head
      PROVE  x.of = o.of
  <2>1. x \in Inventory /\ x.kind = "kCrossover"
    BY <1>0 DEF OfKind
  <2>2. x.of \in prog.negated[o.head]
    BY <1>5, <2>1, InventoryFacts, CrossoverFacts
  <2> QED
    BY <1>0, <1>1, <2>2, LegalKinds
<1> QED
  BY <1>0, <1>1, <1>2, <1>3, <1>4, <1>5 DEF CrossoverChecks

LEMMA ProductsPass ==
    ASSUME Checked, NEW o \in OfKind({"kProductArm"})
    PROVE  ProductChecks(o)
<1>0. Stamped /\ DOMAIN ops = Inventory /\ \A x \in Inventory : ops[x] = Effects(x)
  BY CheckedFacts DEF Checked
<1>1. /\ o \in Inventory /\ o.kind = "kProductArm" /\ o.head \in prog.phase
      /\ prog.kind[o.head] = "product" /\ o.of \in prog.reads[o.head] /\ o.sign \in SignsOf(o.of)
  <2>1. o \in Inventory /\ o.kind = "kProductArm"
    BY <1>0 DEF OfKind
  <2> QED
    BY <2>1, InventoryFacts, ProductFacts
<1>2. ASSUME NEW e \in EffectsOf(o, "kCounter")
      PROVE  e.arg = "kNonRecursive"
  <2>1. e \in ProductArmEffects(o) /\ e.eff = "kCounter"
    BY <1>0, <1>1 DEF EffectsOf, Effects
  <2>2. e # Drain(o.of, Frontier(o.sign)) /\ e \notin ArmReads(o)
    BY <2>1, EffectFields DEF ArmReads
  <2>3. e \in Fold(o.head, o.sign, "kNonRecursive")
    BY <2>1, <2>2 DEF ProductArmEffects
  <2>4. e = Counter(o.head, "kNonRecursive")
    BY <2>1, <2>3, EffectFields DEF Fold
  <2> QED
    BY <2>4 DEF Counter, Fx
<1>3. Op("kProductArm", o.head, o.of, 1) \in Inventory
  BY <1>1, SignsFacts, ArmExists
<1>4. ASSUME Differential(o.of)
      PROVE  Op("kProductArm", o.head, o.of, -1) \in Inventory
  <2>1. -1 \in SignsOf(o.of)
    BY <1>4 DEF SignsOf
  <2> QED
    BY <1>1, <2>1, ArmExists
<1>5. ASSUME Op("kProductArm", o.head, o.of, -1) \in Inventory
      PROVE  Differential(o.of)
  <2> DEFINE x == Op("kProductArm", o.head, o.of, -1)
  <2>1. x.kind = "kProductArm" /\ x.of = o.of /\ x.sign = -1
    BY OpFields
  <2> HIDE DEF x
  <2>2. x.sign \in SignsOf(x.of)
    BY <1>5, <2>1, InventoryFacts, ProductFacts DEF x
  <2>3. -1 \in SignsOf(o.of)
    BY <2>1, <2>2
  <2> QED
    BY <2>3 DEF SignsOf
<1> QED
  BY <1>0, <1>1, <1>2, <1>3, <1>4, <1>5 DEF ProductChecks

LEMMA GatesPass ==
    ASSUME Checked, NEW o \in OfKind({"kNegateGate", "kRederive"})
    PROVE  GateChecks(o)
<1>0. o \in Inventory /\ ops[o] = Effects(o) /\ o.kind \in {"kNegateGate", "kRederive"}
  BY CheckedFacts
<1>1. CASE o.kind = "kRederive"
  <2>1. FlagRead(o.head, "kRecursivelySupported") \in RederiveEffects(o)
    BY DEF RederiveEffects
  <2>2. Effects(o) = RederiveEffects(o)
    BY <1>1 DEF Effects
  <2> QED
    BY <1>0, <1>1, <2>1, <2>2 DEF GateChecks
<1>2. CASE o.kind = "kNegateGate"
  <2> DEFINE hint == IF prog.kind[o.head] = "never" THEN "kNever" ELSE "kNormal"
  <2>1. SUFFICES ASSUME NEW e \in Effects(o)
                 PROVE  e.arg = (IF prog.kind[o.head] = "never" THEN "kPresent" ELSE "kInI")
    BY <1>0, <1>2 DEF GateChecks, EffectsOf
  <2>2. e \in NegateGateEffects(o)
    BY <1>2 DEF Effects
  <2>3. NegateGatePred("kEager", hint) = IF prog.kind[o.head] = "never" THEN "kPresent" ELSE "kInI"
    BY DEF NegateGatePred
  <2>4. \E w : e = FlagRead(w, NegateGatePred("kEager", hint))
    BY <2>2 DEF NegateGateEffects
  <2> QED
    BY <2>3, <2>4, EffectFields
<1> QED
  BY <1>0, <1>1, <1>2

LEMMA ClaimsPass ==
    ASSUME Checked, NEW o \in OfKind({"kClaimDrain"})
    PROVE  ClaimDrainChecks(o)
<1>0. o \in Inventory /\ ops[o] = Effects(o) /\ o.kind = "kClaimDrain"
  BY CheckedFacts
<1>1. Effects(o) = ClaimDrainEffects(o)
  BY <1>0 DEF Effects
<1>2. CASE Recursive(o.head)
  <2>1. /\ Clear(o.head, Queue(o.sign)) \in ClaimDrainEffects(o)
        /\ AppendTo(o.head, ClaimSet(o.sign)) \in ClaimDrainEffects(o)
        /\ AppendTo(o.head, Claimed(o.sign)) \in ClaimDrainEffects(o)
    BY <1>2 DEF ClaimDrainEffects
  <2> QED
    BY <1>0, <1>1, <1>2, <2>1 DEF ClaimDrainChecks
<1>3. CASE ~Recursive(o.head)
  <2>1. \A e \in ClaimDrainEffects(o) :
           e \in {Drain(o.head, Queue(o.sign)), FlagWrite(o.head), AppendTo(o.head, ClaimSet(o.sign))}
    BY <1>3 DEF ClaimDrainEffects
  <2>2. \A e \in ClaimDrainEffects(o) : e.eff # "kVecClear"
    BY <2>1, EffectFields
  <2> QED
    BY <1>0, <1>1, <1>3, <2>2 DEF ClaimDrainChecks, EffectsOf
<1> QED
  BY <1>2, <1>3

(* A fold moves one counter.                                               *)
LEMMA OneCounter ==
    ASSUME NEW t, NEW sign, NEW class
    PROVE  /\ {e \in Fold(t, sign, class) : e.eff = "kCounter"} = {Counter(t, class)}
           /\ \A role, w, pred : /\ Drain(w, role).eff # "kCounter"
                                 /\ FlagRead(w, pred).eff # "kCounter"
                                 /\ AppendTo(w, role).eff # "kCounter"
<1>1. Counter(t, class).eff = "kCounter" /\ CrossingRead(t).eff # "kCounter"
      /\ AppendTo(t, Queue(sign)).eff # "kCounter"
  BY EffectFields
<1>2. {e \in Fold(t, sign, class) : e.eff = "kCounter"} = {Counter(t, class)}
  BY <1>1 DEF Fold
<1> QED
  BY <1>2, EffectFields

LEMMA FoldsPass ==
    ASSUME Checked, NEW o \in OfKind({"kSeedFold", "kPivotSeed", "kChainFold"})
    PROVE  FoldChecks(o)
<1>0. o \in Inventory /\ ops[o] = Effects(o) /\ o.kind \in {"kSeedFold", "kPivotSeed", "kChainFold"}
  BY CheckedFacts
<1>1. ASSUME NEW e \in EffectsOf(o, "kFlagRead")
      PROVE  e.arg = (IF o.kind = "kSeedFold" THEN "kInI" ELSE "kInNew") \/ o.kind = "kPivotSeed"
  <2>1. e \in Effects(o) /\ e.eff = "kFlagRead"
    BY <1>0 DEF EffectsOf
  <2>2. CASE o.kind = "kSeedFold"
    BY <2>1, <2>2, SeedEffects
  <2>3. CASE o.kind = "kChainFold"
    BY <2>1, <2>3, ChainEffects
  <2> QED
    BY <1>0, <2>2, <2>3
<1>2. CASE o.kind = "kPivotSeed"
  <2>1. Effects(o) = SeedFoldEffects(o)
    BY <1>2 DEF Effects
  <2>2. SeedFoldEffects(o) = {Drain(o.of, Frontier(o.sign)), AppendTo(o.head, "kJoinPivots")}
    BY <1>2 DEF SeedFoldEffects
  <2>3. \A e \in Effects(o) : e.eff \notin {"kCounter", "kFlagRead"}
    BY <2>1, <2>2, EffectFields
  <2>4. EffectsOf(o, "kCounter") = {} /\ EffectsOf(o, "kFlagRead") = {}
    BY <1>0, <2>3 DEF EffectsOf
  <2>5. Cardinality({}) = 0
    BY FS_EmptySet
  <2> QED
    BY <1>2, <2>4, <2>5 DEF FoldChecks
<1>3. CASE o.kind # "kPivotSeed"
  <2>1. \E pre, class :
           /\ Effects(o) = pre \cup Fold(o.head, o.sign, class)
           /\ \A e \in pre : e.eff # "kCounter"
    <3>1. CASE o.kind = "kSeedFold"
      <4>1. Effects(o) = ({Drain(o.of, Frontier(o.sign))} \cup GateReads(o, "kSeed"))
                         \cup Fold(o.head, o.sign, RuleClass(o.head, {o.of}))
        <5>1. Effects(o) = SeedFoldEffects(o)
          BY <3>1 DEF Effects
        <5> QED
          BY <3>1, <5>1 DEF SeedFoldEffects
      <4>2. \A e \in {Drain(o.of, Frontier(o.sign))} \cup GateReads(o, "kSeed") : e.eff # "kCounter"
        BY EffectFields, GateReadFacts
      <4> QED
        BY <4>1, <4>2
    <3>2. CASE o.kind = "kChainFold"
      <4>1. Effects(o) = ({Drain(o.of, Claimed(o.sign))} \cup GateReads(o, "kFixpoint"))
                         \cup Fold(o.head, o.sign, "kRecursive")
        <5>1. Effects(o) = ChainFoldEffects(o)
          BY <3>2 DEF Effects
        <5> QED
          BY <5>1 DEF ChainFoldEffects
      <4>2. \A e \in {Drain(o.of, Claimed(o.sign))} \cup GateReads(o, "kFixpoint") : e.eff # "kCounter"
        BY EffectFields, GateReadFacts
      <4> QED
        BY <4>1, <4>2
    <3> QED
      BY <1>0, <1>3, <3>1, <3>2
  <2>2. PICK pre, class : /\ Effects(o) = pre \cup Fold(o.head, o.sign, class)
                          /\ \A e \in pre : e.eff # "kCounter"
    BY <2>1
  <2>3. EffectsOf(o, "kCounter") = {Counter(o.head, class)}
    <3>1. EffectsOf(o, "kCounter") = {e \in Fold(o.head, o.sign, class) : e.eff = "kCounter"}
      BY <1>0, <2>2 DEF EffectsOf
    <3> QED
      BY <3>1, OneCounter
  <2>4. Cardinality({Counter(o.head, class)}) = 1
    BY FS_Singleton
  <2> QED
    BY <1>1, <1>3, <2>3, <2>4 DEF FoldChecks
<1> QED
  BY <1>2, <1>3

LEMMA IngestsPass ==
    ASSUME Checked, NEW o \in OfKind({"kIngestFold"})
    PROVE  IngestChecks(o)
<1>0. o \in Inventory /\ ops[o] = Effects(o) /\ o.kind = "kIngestFold"
  BY CheckedFacts
<1> DEFINE role == IngestRole(o)
           counter == Counter(o.head, "kNonRecursive")
           appends == {AppendTo(o.head, r) : r \in {role} \ {"kEmpty"}}
<1>1. ops[o] = {counter} \cup appends
  BY <1>0 DEF Effects, IngestFoldEffects
<1>2. counter.eff = "kCounter" /\ \A e \in appends : e.eff = "kVecAppend" /\ e.role = role
  BY EffectFields
<1>3. role # "kEmpty" => AppendTo(o.head, role) \in appends
  OBVIOUS
<1>4. role = "kEmpty" => appends = {}
  OBVIOUS
<1>5. AppendTo(o.head, role).role = role
  BY EffectFields
<1> HIDE DEF counter, appends
<1>6. EffectsOf(o, "kCounter") = {counter} /\ EffectsOf(o, "kVecAppend") = appends
  BY <1>1, <1>2 DEF EffectsOf
<1>7. {e.role : e \in appends} = {role} \ {"kEmpty"}
  <2> HIDE DEF role
  <2> QED
    BY <1>2, <1>3, <1>4, <1>5
<1>8. o.sign \in SignsOf(o.head)
  <2>1. o \in IngestFolds
    BY <1>0, InventoryFacts
  <2> QED
    BY <2>1, OpFields DEF IngestFolds
<1>9. CASE Differential(o.head)
  <2>1. role = Queue(o.sign) /\ o.sign \in {-1, 1}
    BY <1>8, <1>9, SignsFacts DEF IngestRole
  <2>2. /\ IF o.sign < 0 THEN role = "kDeleteQueue" ELSE role = "kAddQueue"
        /\ role \in {"kAddQueue", "kDeleteQueue"}
    BY <2>1 DEF Queue
  <2> HIDE DEF role
  <2> QED
    BY <1>1, <1>6, <1>7, <1>9, <2>2 DEF IngestChecks, role, counter
<1>10. CASE ~Differential(o.head)
  <2>1. role \in {"kNetAddition", "kEmpty"} /\ o.sign = 1
    BY <1>8, <1>10 DEF IngestRole, MonotoneIngestRole, SignsOf
  <2> HIDE DEF role
  <2> QED
    BY <1>1, <1>6, <1>7, <1>10, <2>1 DEF IngestChecks, role, counter
<1> QED
  BY <1>9, <1>10

-----------------------------------------------------------------------------
LEMMA TwoThings ==
    ASSUME NEW a, NEW b, a # b
    PROVE  Cardinality({a, b}) = 2
<1>1. IsFiniteSet({a}) /\ Cardinality({a}) = 1
  BY FS_Singleton
<1>2. Cardinality({a} \cup {b}) = 2
  BY <1>1, FS_AddElement
<1>3. {a} \cup {b} = {a, b}
  OBVIOUS
<1> QED
  BY <1>2, <1>3

LEMMA AggregatesPass ==
    ASSUME Checked, NEW o \in OfKind({"kGroupUpdate"})
    PROVE  AggChecks(o)
<1>0. /\ Stamped /\ o \in Inventory /\ ops[o] = Effects(o) /\ o.kind = "kGroupUpdate"
      /\ DOMAIN ops = Inventory
  BY CheckedFacts DEF Checked
<1>1. o.head \in prog.phase /\ o.head \in Table /\ prog.kind[o.head] = "aggregate"
  BY <1>0, InventoryFacts, GroupUpdateFacts, OpTyped
<1> DEFINE drains == {Drain(w, Frontier(s)) : w \in prog.reads[o.head], s \in {-1, 1}}
           folds == {Fx("kStateFold", o.head, "-", s) : s \in {"-1", "1"}}
           emit == Fx("kStateEmit", o.head, "-", "-")
           old == Fx("kStateOld", o.head, "-", "-")
           counter == Counter(o.head, "kNonRecursive")
           crossing == CrossingRead(o.head)
           del == AppendTo(o.head, Queue(-1))
           add == AppendTo(o.head, Queue(1))
<1>2. ops[o] = drains \cup folds \cup {emit, old} \cup {counter, crossing, del, add}
  <2>1. ops[o] = GroupUpdateEffects(o)
    BY <1>0 DEF Effects
  <2>2. Fold(o.head, -1, "kNonRecursive") \cup Fold(o.head, 1, "kNonRecursive")
        = {counter, crossing, del, add}
    BY DEF Fold
  <2> HIDE DEF counter, crossing, del, add
  <2> QED
    BY <2>1, <2>2 DEF GroupUpdateEffects
<1>3. /\ \A e \in drains : e.eff = "kVecDrain"
      /\ \A e \in folds : e.eff = "kStateFold"
      /\ emit.eff = "kStateEmit" /\ old.eff = "kStateOld" /\ counter.eff = "kCounter"
      /\ crossing.eff = "kInIReadFrozen" /\ del.eff = "kVecAppend" /\ add.eff = "kVecAppend"
  <2>1. \A e \in drains : e.eff = "kVecDrain"
    BY EffectFields
  <2>2. \A e \in folds : e.eff = "kStateFold"
    BY DEF Fx
  <2>3. emit.eff = "kStateEmit" /\ old.eff = "kStateOld"
    BY DEF Fx
  <2>4. /\ counter.eff = "kCounter" /\ crossing.eff = "kInIReadFrozen"
        /\ del.eff = "kVecAppend" /\ add.eff = "kVecAppend"
    BY EffectFields
  <2> HIDE DEF drains, folds, emit, old, counter, crossing, del, add
  <2> QED
    BY <2>1, <2>2, <2>3, <2>4
<1>4. del # add
  <2>1. del.role = "kDeleteQueue" /\ add.role = "kAddQueue"
    BY EffectFields DEF Queue
  <2> HIDE DEF del, add
  <2> QED
    BY <2>1
<1>5. Cardinality(folds) = 2
  <2> DEFINE a == Fx("kStateFold", o.head, "-", "-1")
             b == Fx("kStateFold", o.head, "-", "1")
  <2>1. a.arg = "-1" /\ b.arg = "1"
    BY DEF Fx
  <2>2. folds = {a, b}
    OBVIOUS
  <2> HIDE DEF a, b, folds
  <2>3. a # b
    BY <2>1
  <2> QED
    BY <2>2, <2>3, TwoThings
<1> HIDE DEF drains, folds, emit, old, counter, crossing, del, add
<1>6. /\ EffectsOf(o, "kStateFold") = folds /\ EffectsOf(o, "kStateEmit") = {emit}
      /\ EffectsOf(o, "kStateOld") = {old} /\ EffectsOf(o, "kCounter") = {counter}
      /\ EffectsOf(o, "kVecAppend") = {del, add}
  BY <1>2, <1>3 DEF EffectsOf
<1>7. Op("kStateSeal", o.head, 0, 0) \in Inventory
  <2> DEFINE u == Unit("groupUpdate", o.head, prog.reads[o.head])
  <2>1. u \in GroupUpdates(prog) /\ u.head = o.head
    BY <1>1, UnitFields DEF GroupUpdates, FilledBy
  <2> HIDE DEF u
  <2>2. Op("kStateSeal", u.head, 0, 0) \in GroupUpdateOps
    BY <2>1 DEF GroupUpdateOps
  <2> QED
    BY <2>1, <2>2 DEF Inventory
<1>8. /\ Cardinality({emit}) = 1 /\ Cardinality({old}) = 1 /\ Cardinality({del, add}) = 2
  BY <1>4, TwoThings, FS_Singleton
<1>9. o.head \notin prog.reads[o.head]
  BY <1>0, <1>1, LegalKinds
<1> QED
  BY <1>0, <1>5, <1>6, <1>7, <1>8, <1>9 DEF AggChecks, counter

LEMMA RetireExists ==
    ASSUME NEW t \in prog.phase, Recursive(t)
    PROVE  /\ \A s \in {-1, 1} : Op("kRetire", t, 0, s) \in Inventory
           /\ Op("kRederive", t, 0, 0) \in Inventory
<1> DEFINE made == Both("kRetire", t, 0) \cup {Op("kRederive", t, 0, 0)}
<1>1. \A x \in made : x \in PhaseTableOps
  BY DEF PhaseTableOps
<1>2. \A s \in {-1, 1} : Op("kRetire", t, 0, s) \in Both("kRetire", t, 0)
  BY DEF Both
<1> QED
  BY <1>1, <1>2 DEF Inventory

LEMMA RetiresPass ==
    ASSUME Checked
    PROVE  RetiresExist
<1>1. SUFFICES ASSUME NEW o \in OfKind({"kFixpointFire", "kChainFold"}), NEW s \in {-1, 1}
               PROVE  \E r \in OfKind({"kRetire"}) : scc[r.head] = scc[o.head] /\ r.sign = s
  BY DEF RetiresExist
<1>2. o \in Inventory /\ o.kind \in {"kFixpointFire", "kChainFold"}
  BY CheckedFacts
<1>3. o.head \in prog.phase /\ Recursive(o.head)
  <2>1. CASE o.kind = "kFixpointFire"
    BY <1>2, <2>1, InventoryFacts, FireFacts
  <2>2. CASE o.kind = "kChainFold"
    BY <1>2, <2>2, InventoryFacts, ChainFacts DEF SameScc, Recursive
  <2> QED
    BY <1>2, <2>1, <2>2
<1> DEFINE r == Op("kRetire", o.head, 0, s)
<1>4. r \in Inventory /\ r.kind = "kRetire" /\ r.head = o.head /\ r.sign = s
  BY <1>3, RetireExists, OpFields
<1> HIDE DEF r
<1>5. r \in OfKind({"kRetire"})
  BY <1>4, CheckedFacts
<1> QED
  BY <1>4, <1>5

LEMMA SeedsPass ==
    ASSUME Checked
    PROVE  SeedSupNegative
<1>1. SUFFICES ASSUME NEW o \in OfKind({"kSeedFold"})
               PROVE  ~SameScc(o.head, o.of)
  BY DEF SeedSupNegative
<1>2. o \in Inventory /\ o.kind = "kSeedFold"
  BY CheckedFacts
<1> QED
  BY <1>2, InventoryFacts, SeedFacts

-----------------------------------------------------------------------------
(* The census: operations are as many as the things they are made for.     *)
LEMMA Numbered ==
    ASSUME NEW S, NEW f, \A x, y \in S : f[x] = f[y] => x = y,
           IsFiniteSet(S) \/ IsFiniteSet({f[x] : x \in S})
    PROVE  /\ IsFiniteSet(S) /\ IsFiniteSet({f[x] : x \in S})
           /\ Cardinality({f[x] : x \in S}) = Cardinality(S)
<1> DEFINE T == {f[x] : x \in S}
           g == [x \in S |-> f[x]]
<1>1. g \in Injection(S, T) /\ g \in Surjection(S, T)
  BY DEF Injection, Surjection, IsInjective
<1>2. ExistsBijection(S, T)
  BY <1>1 DEF ExistsBijection, Bijection
<1> HIDE DEF T, g
<1>3. IsFiniteSet(S)
  <2>1. CASE IsFiniteSet(T)
    BY <1>1, <2>1, FS_Injection
  <2> QED
    BY <2>1 DEF T
<1>4. IsFiniteSet(T) /\ Cardinality(T) = Cardinality(S)
  BY <1>2, <1>3, FS_Bijection
<1> QED
  BY <1>3, <1>4 DEF T

LEMMA TwoNumbered ==
    ASSUME NEW S, NEW f, NEW R, NEW g, NEW O, IsFiniteSet(O),
           \A x, y \in S : f[x] = f[y] => x = y,
           \A x, y \in R : g[x] = g[y] => x = y,
           \A x \in S : \A y \in R : f[x] # g[y],
           \A o : o \in O <=> (\E x \in S : o = f[x]) \/ (\E y \in R : o = g[y])
    PROVE  Cardinality(O) = Cardinality(S) + Cardinality(R)
<1> DEFINE A == {f[x] : x \in S}
           B == {g[y] : y \in R}
<1>1. O = A \cup B /\ A \cap B = {}
  OBVIOUS
<1> HIDE DEF A, B
<1>2. IsFiniteSet(A) /\ IsFiniteSet(B)
  BY <1>1, FS_Subset
<1>3. Cardinality(A) = Cardinality(S) /\ Cardinality(B) = Cardinality(R)
  BY <1>2, Numbered DEF A, B
<1>4. Cardinality(O) = Cardinality(A) + Cardinality(B) - Cardinality(A \cap B)
  BY <1>1, <1>2, FS_Union
<1>5. Cardinality(A \cap B) = 0 /\ Cardinality(A) \in Nat /\ Cardinality(B) \in Nat
  BY <1>1, <1>2, FS_EmptySet, FS_CardinalityType
<1> QED
  BY <1>3, <1>4, <1>5

(* Operations of one kind, with each sign for the tables of a set.         *)
LEMMA SignedCount ==
    ASSUME Checked, NEW kind, NEW P, NEW M,
           \A o : o \in OfKind({kind}) <=> \/ \E t \in P : o = Op(kind, t, 0, 1)
                                           \/ \E t \in M : o = Op(kind, t, 0, -1)
    PROVE  Cardinality(OfKind({kind})) = Cardinality(P) + Cardinality(M)
<1> DEFINE f == [t \in P |-> Op(kind, t, 0, 1)]
           g == [t \in M |-> Op(kind, t, 0, -1)]
           O == OfKind({kind})
<1>1. IsFiniteSet(O)
  <2>1. O \subseteq Inventory
    BY CheckedFacts
  <2> HIDE DEF O
  <2> QED
    BY <2>1, InventoryFinite, FS_Subset DEF Checked
<1>2. /\ \A t \in P : f[t].head = t /\ f[t].sign = 1 /\ f[t] = Op(kind, t, 0, 1)
      /\ \A t \in M : g[t].head = t /\ g[t].sign = -1 /\ g[t] = Op(kind, t, 0, -1)
  BY OpFields
<1>3. \A o : o \in O <=> (\E x \in P : o = f[x]) \/ (\E y \in M : o = g[y])
  <2> HIDE DEF f, g
  <2> QED
    BY <1>2
<1> HIDE DEF f, g, O
<1>4. /\ \A x, y \in P : f[x] = f[y] => x = y
      /\ \A x, y \in M : g[x] = g[y] => x = y
  BY <1>2
<1>5. \A x \in P : \A y \in M : f[x] # g[y]
  BY <1>2
<1>6. Cardinality(O) = Cardinality(P) + Cardinality(M)
  BY <1>1, <1>3, <1>4, <1>5, TwoNumbered
<1> QED
  BY <1>6 DEF O

(* The same for operations without a sign.                                 *)
LEMMA PlainCount ==
    ASSUME Checked, NEW kind, NEW P,
           \A o : o \in OfKind({kind}) <=> \E t \in P : o = Op(kind, t, 0, 0)
    PROVE  Cardinality(OfKind({kind})) = Cardinality(P)
<1> DEFINE f == [t \in P |-> Op(kind, t, 0, 0)]
           O == OfKind({kind})
<1>1. IsFiniteSet(O)
  <2>1. O \subseteq Inventory
    BY CheckedFacts
  <2> HIDE DEF O
  <2> QED
    BY <2>1, InventoryFinite, FS_Subset DEF Checked
<1>2. \A t \in P : f[t].head = t /\ f[t] = Op(kind, t, 0, 0)
  BY OpFields
<1>3. O = {f[x] : x \in P}
  <2> HIDE DEF f
  <2>1. \A o : o \in O <=> \E t \in P : o = f[t]
    BY <1>2
  <2> HIDE DEF O
  <2> QED
    BY <2>1
<1> HIDE DEF f, O
<1>4. \A x, y \in P : f[x] = f[y] => x = y
  BY <1>2
<1>5. Cardinality({f[x] : x \in P}) = Cardinality(P)
  BY <1>1, <1>3, <1>4, Numbered
<1> QED
  BY <1>3, <1>5 DEF O

(* An operation with a sign is one of two.                                 *)
LEMMA SignedOp ==
    ASSUME Checked, NEW kind, NEW o \in OfKind({kind}), o.of = 0, o.sign \in {-1, 1}
    PROVE  o = Op(kind, o.head, 0, 1) \/ o = Op(kind, o.head, 0, -1)
<1>1. o \in Inventory /\ o.kind = kind
  BY CheckedFacts
<1>2. o = Op(kind, o.head, 0, o.sign)
  BY <1>1, OpIs
<1> QED
  BY <1>2

LEMMA PhaseCensus ==
    ASSUME Checked
    PROVE  /\ Cardinality(OfKind({"kClaimDrain"})) = 2 * Cardinality(prog.phase)
           /\ Cardinality(OfKind({"kFrontierFilter"})) = 2 * Cardinality(prog.phase)
           /\ Cardinality(OfKind({"kRetire"})) = 2 * Cardinality({t \in prog.phase : Recursive(t)})
           /\ Cardinality(OfKind({"kRederive"})) = Cardinality({t \in prog.phase : Recursive(t)})
<1> DEFINE R == {t \in prog.phase : Recursive(t)}
           H == prog.phase
<1>0. \A kinds : OfKind(kinds) = {o \in Inventory : o.kind \in kinds}
  BY CheckedFacts
<1>1. Cardinality(H) \in Nat /\ Cardinality(R) \in Nat
  <2>1. IsFiniteSet(Table) /\ H \subseteq Table /\ R \subseteq Table
    BY LegalFacts, StampedFacts DEF Checked, Stamped
  <2> HIDE DEF R, H
  <2> QED
    BY <2>1, FS_Subset, FS_CardinalityType
<1>2. ASSUME NEW kind \in {"kClaimDrain", "kFrontierFilter"}
      PROVE  Cardinality(OfKind({kind})) = Cardinality(H) + Cardinality(H)
  <2>1. ASSUME NEW o \in OfKind({kind})
        PROVE  (\E t \in H : o = Op(kind, t, 0, 1)) \/ (\E t \in H : o = Op(kind, t, 0, -1))
    <3>1. o \in Inventory /\ o.kind = kind
      BY <1>0
    <3>2. o.head \in prog.phase /\ o.of = 0 /\ o.sign \in {-1, 1}
      BY <1>2, <3>1, InventoryFacts, PhaseOpFacts
    <3> QED
      BY <3>2, SignedOp
  <2>2. ASSUME NEW t \in H, NEW s \in {-1, 1}
        PROVE  Op(kind, t, 0, s) \in OfKind({kind})
    <3>1. Op(kind, t, 0, s) \in Inventory
      BY <1>2, PhaseOpsExist
    <3> QED
      BY <1>0, <3>1, OpFields
  <2> HIDE DEF H
  <2>3. \A o : o \in OfKind({kind}) <=> \/ \E t \in H : o = Op(kind, t, 0, 1)
                                        \/ \E t \in H : o = Op(kind, t, 0, -1)
    BY <2>1, <2>2
  <2> QED
    BY <2>3, SignedCount
<1>3. Cardinality(OfKind({"kRetire"})) = Cardinality(R) + Cardinality(R)
  <2>1. ASSUME NEW o \in OfKind({"kRetire"})
        PROVE  \/ \E t \in R : o = Op("kRetire", t, 0, 1)
               \/ \E t \in R : o = Op("kRetire", t, 0, -1)
    <3>1. o \in Inventory /\ o.kind = "kRetire"
      BY <1>0
    <3>2. o.head \in R /\ o.of = 0 /\ o.sign \in {-1, 1}
      BY <3>1, InventoryFacts, PhaseOpFacts
    <3> QED
      BY <3>2, SignedOp
  <2>2. ASSUME NEW t \in R, NEW s \in {-1, 1}
        PROVE  Op("kRetire", t, 0, s) \in OfKind({"kRetire"})
    BY <1>0, RetireExists, OpFields
  <2> HIDE DEF R
  <2>3. \A o : o \in OfKind({"kRetire"}) <=> \/ \E t \in R : o = Op("kRetire", t, 0, 1)
                                             \/ \E t \in R : o = Op("kRetire", t, 0, -1)
    BY <2>1, <2>2
  <2> QED
    BY <2>3, SignedCount
<1>4. Cardinality(OfKind({"kRederive"})) = Cardinality(R)
  <2>1. ASSUME NEW o \in OfKind({"kRederive"})
        PROVE  \E t \in R : o = Op("kRederive", t, 0, 0)
    <3>1. o \in Inventory /\ o.kind = "kRederive"
      BY <1>0
    <3>2. o.head \in R /\ o.of = 0 /\ o.sign = 0
      BY <3>1, InventoryFacts, PhaseOpFacts
    <3> QED
      BY <3>1, <3>2, OpIs
  <2>2. ASSUME NEW t \in R
        PROVE  Op("kRederive", t, 0, 0) \in OfKind({"kRederive"})
    BY <1>0, RetireExists, OpFields
  <2> HIDE DEF R
  <2>3. \A o : o \in OfKind({"kRederive"}) <=> \E t \in R : o = Op("kRederive", t, 0, 0)
    BY <2>1, <2>2
  <2> QED
    BY <2>3, PlainCount
<1> HIDE DEF R, H
<1>5. /\ Cardinality(OfKind({"kClaimDrain"})) = 2 * Cardinality(H)
      /\ Cardinality(OfKind({"kFrontierFilter"})) = 2 * Cardinality(H)
      /\ Cardinality(OfKind({"kRetire"})) = 2 * Cardinality(R)
  BY <1>1, <1>2, <1>3
<1> QED
  BY <1>4, <1>5 DEF R, H

LEMMA FireExists ==
    ASSUME NEW t \in prog.phase, prog.kind[t] = "join", Recursive(t), NEW s \in {-1, 1}
    PROVE  Op("kFixpointFire", t, 0, s) \in Inventory
<1> DEFINE u == Unit("join", t, prog.reads[t])
<1>1. u \in Joins(prog) /\ u.head = t
  BY UnitFields DEF Joins, FilledBy
<1> HIDE DEF u
<1>2. Op("kFixpointFire", t, 0, s) \in Both("kFixpointFire", u.head, 0)
  BY <1>1 DEF Both
<1>3. Op("kFixpointFire", t, 0, s) \in FixpointFires
  BY <1>1, <1>2 DEF FixpointFires
<1> QED
  BY <1>3 DEF Inventory

LEMMA FireCensus ==
    ASSUME Checked
    PROVE  Cardinality(OfKind({"kFixpointFire"})) =
              2 * Cardinality({j \in Joins(prog) : j.head \in {t \in prog.phase : Recursive(t)}})
<1> DEFINE J == {j \in Joins(prog) : j.head \in {t \in prog.phase : Recursive(t)}}
           R == {t \in prog.phase : Recursive(t) /\ prog.kind[t] = "join"}
           f == [t \in R |-> Unit("join", t, prog.reads[t])]
<1>0. \A kinds : OfKind(kinds) = {o \in Inventory : o.kind \in kinds}
  BY CheckedFacts
<1>1. IsFiniteSet(R)
  <2>1. IsFiniteSet(Table) /\ R \subseteq Table
    BY LegalFacts, StampedFacts DEF Checked, Stamped
  <2> HIDE DEF R
  <2> QED
    BY <2>1, FS_Subset
<1>2. Cardinality(J) = Cardinality(R) /\ Cardinality(R) \in Nat
  <2>1. \A t \in R : f[t].head = t /\ f[t] \in J
    <3>1. \A t \in R : f[t] = Unit("join", t, prog.reads[t])
      OBVIOUS
    <3>2. \A t \in R : Unit("join", t, prog.reads[t]).head = t /\ Unit("join", t, prog.reads[t]) \in J
      BY UnitFields DEF Joins, FilledBy
    <3> HIDE DEF f, J, R
    <3> QED
      BY <3>1, <3>2
  <2>2. \A j \in J : \E t \in R : j = f[t]
    <3>1. SUFFICES ASSUME NEW j \in J PROVE \E t \in R : j = f[t]
      OBVIOUS
    <3>2. PICK t \in FilledBy(prog, {"join"}) : j = Unit("join", t, prog.reads[t])
      BY DEF Joins
    <3>3. j.head = t
      BY <3>2, UnitFields
    <3>4. t \in R
      BY <3>3 DEF FilledBy
    <3> QED
      BY <3>2, <3>4
  <2> HIDE DEF J, R, f
  <2>3. J = {f[t] : t \in R}
    BY <2>1, <2>2
  <2>4. \A x, y \in R : f[x] = f[y] => x = y
    BY <2>1
  <2>5. Cardinality({f[t] : t \in R}) = Cardinality(R)
    BY <1>1, <2>4, Numbered
  <2> QED
    BY <1>1, <2>3, <2>5, FS_CardinalityType
<1>3. Cardinality(OfKind({"kFixpointFire"})) = Cardinality(R) + Cardinality(R)
  <2>1. ASSUME NEW o \in OfKind({"kFixpointFire"})
        PROVE  \/ \E t \in R : o = Op("kFixpointFire", t, 0, 1)
               \/ \E t \in R : o = Op("kFixpointFire", t, 0, -1)
    <3>1. o \in Inventory /\ o.kind = "kFixpointFire"
      BY <1>0
    <3>2. o.head \in R /\ o.of = 0 /\ o.sign \in {-1, 1}
      BY <3>1, InventoryFacts, FireFacts
    <3> QED
      BY <3>2, SignedOp
  <2>2. ASSUME NEW t \in R, NEW s \in {-1, 1}
        PROVE  Op("kFixpointFire", t, 0, s) \in OfKind({"kFixpointFire"})
    BY <1>0, FireExists, OpFields
  <2> HIDE DEF R
  <2>3. \A o : o \in OfKind({"kFixpointFire"}) <=> \/ \E t \in R : o = Op("kFixpointFire", t, 0, 1)
                                                   \/ \E t \in R : o = Op("kFixpointFire", t, 0, -1)
    BY <2>1, <2>2
  <2> QED
    BY <2>3, SignedCount
<1> HIDE DEF J, R
<1>4. Cardinality(OfKind({"kFixpointFire"})) = 2 * Cardinality(J)
  BY <1>2, <1>3
<1> QED
  BY <1>4 DEF J

LEMMA IngestCensus ==
    ASSUME Checked
    PROVE  LET receives == {t \in Table : prog.kind[t] = "receive"}
           IN  Cardinality(OfKind({"kIngestFold"})) =
                  Cardinality(receives) + Cardinality(receives \cap prog.phase)
<1> DEFINE P == {t \in Table : prog.kind[t] = "receive"}
           M == P \cap prog.phase
<1>0. \A kinds : OfKind(kinds) = {o \in Inventory : o.kind \in kinds}
  BY CheckedFacts
<1>1. ASSUME NEW o \in OfKind({"kIngestFold"})
      PROVE  \/ \E t \in P : o = Op("kIngestFold", t, 0, 1)
             \/ \E t \in M : o = Op("kIngestFold", t, 0, -1)
  <2>1. o \in IngestFolds
    BY <1>0, InventoryFacts
  <2>2. PICK t \in P : \E s \in SignsOf(t) : o = Op("kIngestFold", t, 0, s)
    BY <2>1 DEF IngestFolds
  <2>3. PICK s \in SignsOf(t) : o = Op("kIngestFold", t, 0, s)
    BY <2>2
  <2>4. s = 1 \/ (s = -1 /\ t \in prog.phase)
    BY DEF SignsOf, Differential
  <2> QED
    BY <2>3, <2>4
<1>2. ASSUME NEW t \in P, NEW s \in SignsOf(t)
      PROVE  Op("kIngestFold", t, 0, s) \in OfKind({"kIngestFold"})
  <2>1. Op("kIngestFold", t, 0, s) \in IngestFolds
    BY DEF IngestFolds
  <2>2. Op("kIngestFold", t, 0, s) \in Inventory
    BY <2>1 DEF Inventory
  <2> QED
    BY <1>0, <2>2, OpFields
<1>3. \A t \in P : 1 \in SignsOf(t)
  BY SignsFacts
<1>4. \A t \in M : t \in P /\ -1 \in SignsOf(t)
  BY DEF SignsOf, Differential
<1> HIDE DEF P, M
<1>5. \A o : o \in OfKind({"kIngestFold"}) <=> \/ \E t \in P : o = Op("kIngestFold", t, 0, 1)
                                               \/ \E t \in M : o = Op("kIngestFold", t, 0, -1)
  BY <1>1, <1>2, <1>3, <1>4
<1>6. Cardinality(OfKind({"kIngestFold"})) = Cardinality(P) + Cardinality(M)
  BY <1>5, SignedCount
<1> QED
  BY <1>6 DEF P, M

LEMMA AggregateCensus ==
    ASSUME Checked
    PROVE  Cardinality(OfKind({"kGroupUpdate"})) =
              Cardinality({t \in Table : prog.kind[t] = "aggregate"})
<1> DEFINE P == {t \in Table : prog.kind[t] = "aggregate"}
<1>0. Stamped /\ \A kinds : OfKind(kinds) = {o \in Inventory : o.kind \in kinds}
  BY CheckedFacts DEF Checked
<1>1. ASSUME NEW o \in OfKind({"kGroupUpdate"})
      PROVE  \E t \in P : o = Op("kGroupUpdate", t, 0, 0)
  <2>1. o \in Inventory /\ o.kind = "kGroupUpdate"
    BY <1>0
  <2>2. o.head \in P /\ o.of = 0 /\ o.sign = 0
    BY <1>0, <2>1, InventoryFacts, GroupUpdateFacts, OpTyped
  <2> QED
    BY <2>1, <2>2, OpIs
<1>2. ASSUME NEW t \in P
      PROVE  Op("kGroupUpdate", t, 0, 0) \in OfKind({"kGroupUpdate"})
  <2>1. t \in prog.phase
    BY <1>0, LegalKinds
  <2>2. Op("kGroupUpdate", t, 0, 0) \in Inventory
    BY <2>1, GroupUpdateExists
  <2> QED
    BY <1>0, <2>2, OpFields
<1> HIDE DEF P
<1>3. \A o : o \in OfKind({"kGroupUpdate"}) <=> \E t \in P : o = Op("kGroupUpdate", t, 0, 0)
  BY <1>1, <1>2
<1>4. Cardinality(OfKind({"kGroupUpdate"})) = Cardinality(P)
  BY <1>3, PlainCount
<1> QED
  BY <1>4 DEF P

-----------------------------------------------------------------------------
(* A seed of a branch with a sign; the branch is known from the seed.      *)
SeedOf(b, s) ==
    Op(IF b.family = "toJoin" THEN "kPivotSeed" ELSE "kSeedFold", b.head,
       CHOOSE w : w \in b.from, s)

LEMMA SeedOfFacts ==
    ASSUME NEW b \in Branches(prog), NEW s
    PROVE  /\ SeedOf(b, s).of \in b.from /\ b.from = {SeedOf(b, s).of} /\ SeedOf(b, s).sign = s
           /\ \A c \in Branches(prog) : \A z : SeedOf(b, s) = SeedOf(c, z) => b = c /\ s = z
<1> DEFINE kindOf(c) == IF c.family = "toJoin" THEN "kPivotSeed" ELSE "kSeedFold"
<1>1. ASSUME NEW c \in Branches(prog), NEW z
      PROVE  /\ SeedOf(c, z).of \in c.from /\ c.from = {SeedOf(c, z).of}
             /\ SeedOf(c, z).sign = z /\ SeedOf(c, z).head = c.head
             /\ SeedOf(c, z).kind = kindOf(c)
             /\ c = Unit(c.family, c.head, c.from) /\ c.family \in {"branch", "toJoin"}
  <2>1. PICK w \in prog.reads[c.head] : c = Unit(c.family, c.head, {w})
    BY BranchFacts
  <2>2. c.from = {w}
    BY <2>1, UnitFields
  <2>3. (CHOOSE x : x \in c.from) = w
    BY <2>2
  <2>4. c.family \in {"branch", "toJoin"}
    BY BranchFacts
  <2>5. /\ SeedOf(c, z).kind = kindOf(c) /\ SeedOf(c, z).head = c.head
        /\ SeedOf(c, z).of = (CHOOSE x : x \in c.from) /\ SeedOf(c, z).sign = z
    BY OpFields DEF SeedOf
  <2> QED
    BY <2>1, <2>2, <2>3, <2>4, <2>5
<1>2. ASSUME NEW c \in Branches(prog), NEW z, SeedOf(b, s) = SeedOf(c, z)
      PROVE  b = c /\ s = z
  <2>1. b.head = c.head /\ b.from = c.from /\ s = z /\ kindOf(b) = kindOf(c)
    <3> HIDE DEF kindOf
    <3> QED
      BY <1>1, <1>2
  <2>2. b.family = c.family
    BY <1>1, <2>1
  <2> QED
    BY <1>1, <2>1, <2>2
<1> QED
  BY <1>1, <1>2

LEMMA SeedCensus ==
    ASSUME Checked
    PROVE  Cardinality(OfKind({"kSeedFold", "kPivotSeed"})) = ExpectedSeeds
<1> DEFINE P == {b \in Branches(prog) :
                    /\ ~ InRounds(b)
                    /\ b.family = "toJoin" => ~ AllSidesSameScc(b.head)}
           M == {b \in P : b.from \subseteq prog.phase}
           f == [b \in P |-> SeedOf(b, 1)]
           g == [b \in M |-> SeedOf(b, -1)]
           O == OfKind({"kSeedFold", "kPivotSeed"})
<1>1. O = SeedFolds
  <2>1. \A o : o \in O <=> o \in Inventory /\ o.kind \in {"kSeedFold", "kPivotSeed"}
    BY CheckedFacts
  <2>2. \A o \in SeedFolds : o \in Inventory /\ o.kind \in {"kSeedFold", "kPivotSeed"}
    BY SeedFacts DEF Inventory
  <2>3. \A o \in Inventory : o.kind \in {"kSeedFold", "kPivotSeed"} => o \in SeedFolds
    BY InventoryFacts
  <2> HIDE DEF O
  <2> QED
    BY <2>1, <2>2, <2>3
<1>2. IsFiniteSet(O)
  <2>1. O \subseteq Inventory
    BY CheckedFacts
  <2> HIDE DEF O
  <2> QED
    BY <2>1, InventoryFinite, FS_Subset DEF Checked
<1>3. P \subseteq Branches(prog) /\ M \subseteq P
  OBVIOUS
<1>4. \A b \in Branches(prog) : b \in P <=> ~SeedSuppressed(b)
  BY DEF SeedSuppressed
<1>5. \A b \in P : b \in M <=> b.from \subseteq prog.phase
  OBVIOUS
<1>6. (\A b \in P : f[b] = SeedOf(b, 1)) /\ (\A b \in M : g[b] = SeedOf(b, -1))
  OBVIOUS
<1>7. ExpectedSeeds = Cardinality(P) + Cardinality(M)
  BY DEF ExpectedSeeds
<1> HIDE DEF P, M, f, g, O
<1>8. ASSUME NEW b \in P, NEW s \in {-1, 1}
      PROVE  SeedOf(b, s) \in SeedFolds <=> s = 1 \/ b \in M
  <2> DEFINE w == SeedOf(b, s).of
  <2>1. w \in b.from /\ b.from = {w} /\ SeedOf(b, s).sign = s
    BY <1>3, SeedOfFacts
  <2>2. SeedOf(b, s) = Op(IF b.family = "toJoin" THEN "kPivotSeed" ELSE "kSeedFold", b.head, w, s)
    BY OpFields DEF SeedOf
  <2> HIDE DEF w
  <2>3. s \in SignsOf(w) <=> s = 1 \/ w \in prog.phase
    BY DEF SignsOf, Differential
  <2>4. b \in M <=> w \in prog.phase
    BY <1>5, <2>1
  <2>5. ASSUME s \in SignsOf(w)
        PROVE  SeedOf(b, s) \in SeedFolds
    <3>1. b \in {c \in Branches(prog) : ~SeedSuppressed(c)}
      BY <1>3, <1>4
    <3> QED
      BY <2>1, <2>2, <2>5, <3>1 DEF SeedFolds
  <2>6. ASSUME SeedOf(b, s) \in SeedFolds
        PROVE  s \in SignsOf(w)
    <3>1. SeedOf(b, s).sign \in SignsOf(SeedOf(b, s).of)
      BY <2>6, SeedFacts
    <3> QED
      BY <2>1, <3>1 DEF w
  <2> QED
    BY <2>3, <2>4, <2>5, <2>6
<1>9. ASSUME NEW o \in SeedFolds
      PROVE  \E b \in P : \E s \in {-1, 1} : o = SeedOf(b, s)
  <2>1. PICK b \in {c \in Branches(prog) : ~SeedSuppressed(c)} :
            \E w \in b.from : \E s \in SignsOf(w) :
                o = Op(IF b.family = "toJoin" THEN "kPivotSeed" ELSE "kSeedFold", b.head, w, s)
    BY DEF SeedFolds
  <2>2. PICK w \in b.from : \E s \in SignsOf(w) :
                o = Op(IF b.family = "toJoin" THEN "kPivotSeed" ELSE "kSeedFold", b.head, w, s)
    BY <2>1
  <2>3. PICK s \in SignsOf(w) :
                o = Op(IF b.family = "toJoin" THEN "kPivotSeed" ELSE "kSeedFold", b.head, w, s)
    BY <2>2
  <2>4. b \in P /\ s \in {-1, 1}
    BY <1>4, SignsFacts
  <2>5. b.from = {SeedOf(b, s).of}
    BY SeedOfFacts
  <2>6. SeedOf(b, s).of = (CHOOSE x : x \in b.from)
    BY OpFields DEF SeedOf
  <2>7. w = (CHOOSE x : x \in b.from)
    BY <2>2, <2>5, <2>6
  <2>8. o = SeedOf(b, s)
    BY <2>3, <2>7 DEF SeedOf
  <2> QED
    BY <2>4, <2>8
<1>10. \A o : o \in O <=> (\E b \in P : o = f[b]) \/ (\E b \in M : o = g[b])
  <2>1. ASSUME NEW o \in O
        PROVE  (\E b \in P : o = f[b]) \/ (\E b \in M : o = g[b])
    <3>1. PICK b \in P : \E s \in {-1, 1} : o = SeedOf(b, s)
      BY <1>1, <1>9
    <3>2. PICK s \in {-1, 1} : o = SeedOf(b, s)
      BY <3>1
    <3>3. s = 1 \/ b \in M
      BY <1>1, <1>8, <3>2
    <3>4. CASE s = 1
      BY <1>6, <3>2, <3>4
    <3>5. CASE s = -1
      <4>1. b \in M
        BY <3>3, <3>5
      <4> QED
        BY <1>6, <3>2, <3>5, <4>1
    <3> QED
      BY <3>4, <3>5
  <2>2. ASSUME NEW b \in P
        PROVE  f[b] \in O
    BY <1>1, <1>6, <1>8
  <2>3. ASSUME NEW b \in M
        PROVE  g[b] \in O
    BY <1>1, <1>3, <1>6, <1>8
  <2> QED
    BY <2>1, <2>2, <2>3
<1>11. /\ \A x, y \in P : f[x] = f[y] => x = y
       /\ \A x, y \in M : g[x] = g[y] => x = y
  BY <1>3, <1>6, SeedOfFacts
<1>12. ASSUME NEW x \in P, NEW y \in M, f[x] = g[y]
       PROVE  FALSE
  <2>1. f[x].sign = 1 /\ g[y].sign = -1
    BY <1>3, <1>6, SeedOfFacts
  <2> QED
    BY <1>12, <2>1
<1>13. Cardinality(O) = Cardinality(P) + Cardinality(M)
  BY <1>2, <1>10, <1>11, <1>12, TwoNumbered
<1> QED
  BY <1>7, <1>13 DEF O

LEMMA CensusPass ==
    ASSUME Checked
    PROVE  Census
<1> DEFINE phase == prog.phase
           recursive == {t \in phase : Recursive(t)}
           receives == {t \in Table : prog.kind[t] = "receive"}
<1>1. Cardinality(OfKind({"kSeedFold", "kPivotSeed"})) = ExpectedSeeds
  BY SeedCensus
<1>2. Cardinality(OfKind({"kFixpointFire"})) =
         2 * Cardinality({j \in Joins(prog) : j.head \in recursive})
  BY FireCensus
<1>3. /\ Cardinality(OfKind({"kClaimDrain"})) = 2 * Cardinality(phase)
      /\ Cardinality(OfKind({"kFrontierFilter"})) = 2 * Cardinality(phase)
      /\ Cardinality(OfKind({"kRetire"})) = 2 * Cardinality(recursive)
      /\ Cardinality(OfKind({"kRederive"})) = Cardinality(recursive)
  BY PhaseCensus
<1>4. Cardinality(OfKind({"kIngestFold"})) =
         Cardinality(receives) + Cardinality(receives \cap phase)
  BY IngestCensus
<1>5. Cardinality(OfKind({"kGroupUpdate"})) =
         Cardinality({t \in Table : prog.kind[t] = "aggregate"})
  BY AggregateCensus
<1> QED
  BY <1>1, <1>2, <1>3, <1>4, <1>5 DEF Census

(* No check of the inventory fails.                                        *)
LEMMA InventoryPasses ==
    ASSUME Checked
    PROVE  ValidateDROps = {}
<1>1. ASSUME NEW v \in {"V-XOVER-ONE", "V-PROD-MONO", "V-NEG-CTX", "V-QCLEAR", "V-ONE-FOLD",
                        "V-INGEST", "V-AGG", "V-RETIRE-AFTER", "V-OLD-EQUIV", "V-SEED-SUP"}
      PROVE  CASE v = "V-XOVER-ONE" -> \A o \in OfKind({"kCrossover"}) : CrossoverChecks(o)
               [] v = "V-PROD-MONO" -> \A o \in OfKind({"kProductArm"}) : ProductChecks(o)
               [] v = "V-NEG-CTX" -> \A o \in OfKind({"kNegateGate", "kRederive"}) : GateChecks(o)
               [] v = "V-QCLEAR" -> \A o \in OfKind({"kClaimDrain"}) : ClaimDrainChecks(o)
               [] v = "V-ONE-FOLD" ->
                    \A o \in OfKind({"kSeedFold", "kPivotSeed", "kChainFold"}) : FoldChecks(o)
               [] v = "V-INGEST" -> \A o \in OfKind({"kIngestFold"}) : IngestChecks(o)
               [] v = "V-AGG" -> \A o \in OfKind({"kGroupUpdate"}) : AggChecks(o)
               [] v = "V-RETIRE-AFTER" -> RetiresExist
               [] v = "V-OLD-EQUIV" -> Census
               [] v = "V-SEED-SUP" -> SeedSupNegative
  BY CrossoversPass, ProductsPass, GatesPass, ClaimsPass, FoldsPass, IngestsPass,
     AggregatesPass, RetiresPass, CensusPass, SeedsPass
<1> QED
  BY <1>1 DEF ValidateDROps

-----------------------------------------------------------------------------
(* The keys and the dependences depend on the program, its strata, the     *)
(* addresses and the operations.                                           *)
LEMMA SameKeys ==
    ASSUME prog' = prog, scc' = scc, unitStratum' = unitStratum, drain' = drain,
           address' = address
    PROVE  \A o : KeyOf(o)' = KeyOf(o)
<1>1. \A t : Recursive(t)' = Recursive(t)
  BY DEF Recursive
<1>2. \A o, families : UnitOf(o, families)' = UnitOf(o, families)
  BY DEF UnitOf
<1>3. \A o : OpStratum(o)' = OpStratum(o)
  BY <1>2 DEF OpStratum
<1>4. \A o : OpBand(o)' = OpBand(o)
  BY <1>1 DEF OpBand
<1>5. \A o : OpTableId(o)' = OpTableId(o)
  BY DEF OpTableId
<1> QED
  BY <1>3, <1>4, <1>5 DEF KeyOf

LEMMA SameDeps ==
    ASSUME prog' = prog, scc' = scc, unitStratum' = unitStratum, drain' = drain,
           address' = address, ops' = ops
    PROVE  \A all : DepEdges(all)' = DepEdges(all)
<1>1. \A o : KeyOf(o)' = KeyOf(o)
  BY SameKeys
<1>2. \A t : Recursive(t)' = Recursive(t) /\ Differential(t)' = Differential(t)
  BY DEF Recursive, Differential
<1>3. \A t, role : Minted(t, role)' = Minted(t, role)
  BY <1>2 DEF Minted
<1>4. \A o : ResourcesRead(o)' = ResourcesRead(o)
  BY <1>3 DEF ResourcesRead
<1>5. \A o : ResourcesWritten(o)' = ResourcesWritten(o)
  BY <1>3 DEF ResourcesWritten
<1>6. \A o : InRound(o)' = InRound(o)
  BY <1>2 DEF InRound
<1>7. \A a, b : Scope(a, b)' = Scope(a, b)
  BY <1>6 DEF Scope
<1>8. \A a, b, kind : /\ Dep(a, b, kind, FALSE)' = Dep(a, b, kind, FALSE)
                      /\ Dep(a, b, kind, TRUE)' = Dep(a, b, kind, TRUE)
  BY <1>7 DEF Dep
<1>9. SUFFICES ASSUME NEW all PROVE DepEdges(all)' = DepEdges(all)
  OBVIOUS
<1> DEFINE key    == [o \in all |-> KeyOf(o)]
           reads  == [o \in all |-> ResourcesRead(o)]
           writes == [o \in all |-> ResourcesWritten(o)]
           above(a) == {x \in all : KeyLess(key[a], key[x])}
           edges(a) == UNION {Hazards(a, b, reads, writes) : b \in above(a)}
<1>10. key' = key /\ reads' = reads /\ writes' = writes
  BY <1>1, <1>4, <1>5
<1>11. DepEdges(all) = UNION {edges(a) : a \in all}
  BY DEF DepEdges
<1>12. DepEdges(all)' = UNION {edges(a)' : a \in all}
  BY DEF DepEdges
<1>13. ASSUME NEW a \in all
       PROVE  edges(a)' = edges(a)
  <2>1. above(a)' = above(a)
    BY <1>10 DEF KeyLess
  <2>2. ASSUME NEW b PROVE Hazards(a, b, reads, writes)' = Hazards(a, b, reads, writes)
    BY <1>8, <1>10 DEF Hazards
  <2> QED
    BY <2>1, <2>2
<1> HIDE DEF edges
<1>14. {edges(a)' : a \in all} = {edges(a) : a \in all}
  BY <1>13
<1> QED
  BY <1>11, <1>12, <1>14

(* No validator has failed, and what has been derived so far is right.     *)
Unfailed ==
    /\ failed = {}
    /\ address \in [Table -> Nat]
    /\ flowStage \in {"deps", "linear"} => deps = DepEdges(DOMAIN ops)
    /\ flowStage = "linear" => Laid

LEMMA UnfailedInitially ==
    ASSUME FlowInit
    PROVE  Unfailed
<1>1. \A t \in Table : [x \in Table |-> 0][t] \in Nat
  OBVIOUS
<1> QED
  BY DEF FlowInit, LiftInit, Unfailed

LEMMA UnfailedKeeps ==
    ASSUME DRStrataParameters, FlowInv, Unfailed, [FlowNext]_allVars
    PROVE  Unfailed'
<1>1. CASE DeriveStrata
  <2>1. flowStage' \in {"lift", "stamp", "done"}
    <3>1. LiftUnit => flowStage' = "lift"
      BY DEF LiftUnit
    <3>2. EndPass => flowStage' \in {"lift", "stamp"}
      BY DEF EndPass
    <3>3. Stamp => flowStage' = "done"
      BY DEF Stamp
    <3> QED
      BY <1>1, <3>1, <3>2, <3>3 DEF DeriveStrata, LiftNext
  <2> QED
    BY <1>1, <2>1 DEF DeriveStrata, flowVars, Unfailed
<1>2. CASE BuildDRInventory
  <2>1. address' \in [Table -> Nat] /\ flowStage' = "inventory" /\ failed' = failed
    BY <1>2, DRFlowAssumption DEF BuildDRInventory
  <2> QED
    BY <2>1 DEF Unfailed
<1>3. ASSUME flowStage \notin {"lift", "stamp", "done"}
      PROVE  Checked /\ Keyed
  BY <1>3 DEF FlowInv, Built, Checked, Keyed, Stamped, Unfailed
<1>4. CASE Validate
  <2>1. failed' = {}
    BY <1>3, <1>4, InventoryPasses DEF Validate
  <2> QED
    BY <1>4, <2>1 DEF Validate, Unfailed
<1>5. CASE DeriveDeps
  <2>1. deps' = DepEdges(DOMAIN ops) /\ ops' = ops
    BY <1>5 DEF DeriveDeps
  <2>2. DepEdges(DOMAIN ops)' = DepEdges(DOMAIN ops)
    <3>1. \A all : DepEdges(all)' = DepEdges(all)
      BY <1>5, SameDeps DEF DeriveDeps
    <3> QED
      BY <2>1, <3>1
  <2> QED
    BY <1>5, <2>1, <2>2 DEF DeriveDeps, Unfailed
<1>6. CASE Linearize \/ UNCHANGED allVars
  <2>1. /\ UNCHANGED <<prog, scc, unitStratum, drain, address, ops, deps, failed>>
        /\ flowStage' \in {"deps", "linear"} => flowStage \in {"deps", "linear"}
    BY <1>6 DEF Linearize, allVars
  <2>2. DepEdges(DOMAIN ops)' = DepEdges(DOMAIN ops)
    <3>1. \A all : DepEdges(all)' = DepEdges(all)
      BY <2>1, SameDeps
    <3> QED
      BY <2>1, <3>1
  <2>3. flowStage' = "linear" =>
           SortedSoFar(pinned', Inventory) /\ Len(pinned') = Cardinality(Inventory)
    <3>1. CASE Linearize
      <4>1. Keyed /\ deps = DepEdges(DOMAIN ops) /\ pinned' = TopoSort(DOMAIN ops, deps)
        BY <1>3, <3>1 DEF Linearize, Unfailed
      <4> QED
        BY <4>1, Linearized
    <3>2. CASE UNCHANGED allVars
      BY <3>2 DEF allVars, Unfailed, Laid
    <3> QED
      BY <1>6, <3>1, <3>2
  <2>4. Inventory' = Inventory /\ \A o : KeyOf(o)' = KeyOf(o)
    BY <2>1, SameInventory, SameKeys
  <2>5. flowStage' = "linear" => Laid'
    BY <2>3, <2>4 DEF Laid, SortedSoFar
  <2> QED
    BY <2>1, <2>2, <2>5 DEF Unfailed
<1>7. CASE CheckOrder
  <2>1. Checked /\ Sorted
    BY <1>3, <1>7 DEF CheckOrder, Sorted, Unfailed
  <2>2. failed' = {}
    BY <1>7, <2>1, RetiresPass, OrderPasses DEF CheckOrder
  <2> QED
    BY <1>7, <2>2 DEF CheckOrder, Unfailed
<1> QED
  BY <1>1, <1>2, <1>4, <1>5, <1>6, <1>7 DEF FlowNext

(* No validator of the flow ever aborts the compiler: not those of the     *)
(* inventory (ValidateDROps) and not those of the pinned order             *)
(* (LinearizeAndValidateDRFlow), for any program that Stratify lets        *)
(* through, any order of the units and any order of the tables in memory.  *)
THEOREM ValidatorsTheorem == FlowSpec => []NeverAborts
<1>1. FlowInit => Unfailed
  BY UnfailedInitially
<1>2. FlowInv /\ Unfailed /\ [FlowNext]_allVars => Unfailed'
  BY DRStrataAssumption, UnfailedKeeps
<1>3. Unfailed => NeverAborts
  BY DEF Unfailed, NeverAborts
<1> QED
  BY <1>1, <1>2, <1>3, FlowInvariant, PTL DEF FlowSpec
=============================================================================
