----------------------------- MODULE LedgerProofs -----------------------------
(***************************************************************************)
(* What the proofs about the entry procedure and about the oracle rest on. *)
(*                                                                         *)
(* First, what the reference semantics of a ground program is, for every   *)
(* program: the least model is closed under the instances, and nothing     *)
(* smaller is.  The two recursive functions it is computed by have least   *)
(* solutions; the proofs go by the least counterexample.                   *)
(*                                                                         *)
(* Then what a loop of folds does to the counters and the queues.  A       *)
(* ledger relates the cells, the queues and the set C of rule instances    *)
(* that the counters count; the loop moves C by the instances it fires, if *)
(* it fires each of them once.                                             *)
(***************************************************************************)
EXTENDS Derivation, FiniteSetTheorems, TLAPS


(* A set of numbers has a least element. *)
LEMMA NatLeast ==
    ASSUME NEW B, B \subseteq Nat, B # {}
    PROVE  \E m \in B : \A k \in B : m <= k
<1>1. PICK m \in B : \A k \in B : ~(<<k, m>> \in OpToRel(<, Nat))
  BY NatLessThanWellFounded, WFMin
<1>2. \A k \in B : ~(k < m)
  BY <1>1 DEF OpToRel
<1> QED
  BY <1>2

(* A set of subsets of a finite set has a minimal element.                 *)
LEMMA FiniteMinimal ==
    ASSUME NEW S, IsFiniteSet(S), NEW B, B \subseteq SUBSET S, B # {}
    PROVE  \E U \in B : \A V \in B : V \subseteq U => V = U
<1>1. B \subseteq FiniteSubsetsOf(S)
  BY FS_FiniteSubsetsOfFinite
<1>2. PICK U \in B : \A V \in B : <<V, U>> \notin StrictSubsetOrdering(S)
  BY <1>1, FS_StrictSubsetOrderingWellFounded, WFMin
<1> QED
  BY <1>2 DEF StrictSubsetOrdering

(* The same for a maximal element.                                         *)
LEMMA FiniteMaximal ==
    ASSUME NEW S, IsFiniteSet(S), NEW B, B \subseteq SUBSET S, B # {}
    PROVE  \E U \in B : \A V \in B : U \subseteq V => V = U
<1> DEFINE C == {S \ U : U \in B}
<1>1. C \subseteq SUBSET S
  OBVIOUS
<1>2. C # {}
  <2>1. PICK U : U \in B
    OBVIOUS
  <2>2. S \ U \in C
    BY <2>1
  <2> QED
    BY <2>2
<1>3. PICK W \in C : \A V \in C : V \subseteq W => V = W
  <2> HIDE DEF C
  <2> QED
    BY <1>1, <1>2, FiniteMinimal
<1>4. PICK U \in B : W = S \ U
  OBVIOUS
<1>5. ASSUME NEW V \in B, U \subseteq V
      PROVE  V = U
  <2>1. S \ V \in C /\ S \ V \subseteq W
    BY <1>4, <1>5
  <2>2. S \ V = S \ U
    BY <1>3, <1>4, <2>1
  <2> QED
    BY <2>2
<1> QED
  BY <1>5

(* A finite set of numbers has a greatest element. *)
LEMMA FiniteMax ==
    ASSUME NEW T \in SUBSET Nat, T # {}, IsFiniteSet(T)
    PROVE  \E m \in T : \A k \in T : k <= m
<1> DEFINE Bad == {U \in SUBSET T : U # {} /\ ~\E m \in U : \A k \in U : k <= m}
<1>1. SUFFICES ASSUME T \in Bad PROVE FALSE
  BY DEF Bad
<1>2. Bad \subseteq FiniteSubsetsOf(T)
  BY FS_FiniteSubsetsOfFinite DEF Bad
<1>3. PICK U \in Bad : \A V \in Bad : <<V, U>> \notin StrictSubsetOrdering(T)
  BY <1>1, <1>2, FS_StrictSubsetOrderingWellFounded, WFMin
<1>4. PICK u : u \in U
  BY DEF Bad
<1>5. U \ {u} \notin Bad
  BY <1>3, <1>4 DEF StrictSubsetOrdering, Bad
<1>6. CASE U \ {u} = {}
  BY <1>4, <1>6 DEF Bad
<1>7. CASE U \ {u} # {}
  <2>1. PICK m \in U \ {u} : \A k \in U \ {u} : k <= m
    BY <1>5, <1>7 DEF Bad
  <2>2. u \in Nat /\ m \in Nat /\ U \subseteq Nat
    BY <1>4, <2>1 DEF Bad
  <2>3. \A k \in U : k <= (IF u <= m THEN m ELSE u)
    BY <2>1, <2>2
  <2> QED
    BY <1>4, <2>1, <2>2, <2>3 DEF Bad
<1> QED
  BY <1>6, <1>7

(* LastStratum is a number, and no table is drained above it.              *)
LEMMA LastStratumIsLast ==
    /\ LastStratum \in Nat
    /\ \A x \in Row : Stratum[TableOf(x)] <= LastStratum
<1>1. IsFiniteSet(Strata)
  <2> DEFINE f == [x \in Row |-> Stratum[TableOf(x)]]
  <2>1. f \in Surjection(Row, Strata)
    BY DEF Surjection, Strata
  <2> QED
    BY <2>1, FS_Surjection, ProgramFinite
<1>2. Strata \subseteq Nat /\ Strata # {}
  BY ProgramFinite DEF Strata
<1>3. \E m \in Strata : \A k \in Strata : k <= m
  BY <1>1, <1>2, FiniteMax
<1>4. LastStratum \in Strata /\ \A k \in Strata : k <= LastStratum
  BY <1>3 DEF LastStratum
<1> QED
  BY <1>2, <1>4 DEF Strata

-----------------------------------------------------------------------------
(* The closure of a stratum. *)

StratumRows(s) == {x \in Row : Stratum[TableOf(x)] = s}

(* The sets that Closure(R, s) is the least of. *)
ClosedAbove(R, s) == {X \in SUBSET Row : /\ R \subseteq X
                                         /\ X \subseteq R \cup StratumRows(s)
                                         /\ OneStep(X, s) \subseteq X}

(* What the strata lift guarantees of one instance, atom by atom.          *)
LEMMA HeadsAndAtoms ==
    ASSUME NEW i \in Inst
    PROVE  /\ i.head \in Row /\ i.head \notin Facts
           /\ i.neg \subseteq Row /\ BodyRows(i) \subseteq Row
           /\ Stratum[TableOf(i.head)] \in Nat /\ i.at \in Nat
           /\ i.at <= Stratum[TableOf(i.head)]
           /\ \A y \in i.neg : Stratum[TableOf(y)] < i.at
           /\ \A y \in BodyRows(i) :
                 Stratum[TableOf(y)] < i.at \/ SameScc(i.head, y)
           /\ \A y \in BodyRows(i) :
                 Stratum[TableOf(y)] <= Stratum[TableOf(i.head)]
<1>1. /\ i.head \in Row /\ i.head \notin Facts /\ i.at <= Stratum[TableOf(i.head)]
      /\ \A y \in BodyRows(i) :
               /\ y \in Row
               /\ SameScc(i.head, y) \/ Stratum[TableOf(y)] < i.at
      /\ \A y \in i.neg : y \in Row /\ Stratum[TableOf(y)] < i.at
  BY ProgramWellFormed
<1>2. i.at \in Nat
  BY InstancesTyped
<1>3. \A x \in Row : Stratum[TableOf(x)] \in Nat
  BY ProgramFinite
<1>4. \A x, y \in Row : SameScc(x, y) => Stratum[TableOf(x)] = Stratum[TableOf(y)]
  BY ProgramFinite
<1> QED
  BY <1>1, <1>2, <1>3, <1>4

(* One step only adds rows, of its stratum.                                *)
LEMMA OneStepTyped ==
    ASSUME NEW R \in SUBSET Row, NEW s
    PROVE  /\ OneStep(R, s) \in SUBSET Row /\ R \subseteq OneStep(R, s)
           /\ OneStep(R, s) \subseteq R \cup StratumRows(s)
BY HeadsAndAtoms DEF OneStep, StratumRows

(* Within a stratum more rows derive more rows, negation reading lower     *)
(* ones.                                                                   *)
LEMMA OneStepMonotone ==
    ASSUME NEW R \in SUBSET Row, NEW X \in SUBSET Row, NEW s,
           R \subseteq X, X \subseteq R \cup StratumRows(s)
    PROVE  OneStep(R, s) \subseteq OneStep(X, s)
<1>1. ASSUME NEW j \in Inst, Stratum[TableOf(j.head)] = s, Holds(j, R)
      PROVE  Holds(j, X)
  <2>1. \A y \in j.neg : y \in Row /\ y \notin StratumRows(s)
    BY <1>1, HeadsAndAtoms DEF StratumRows
  <2> QED
    BY <1>1, <2>1 DEF Holds
<1> QED
  BY <1>1 DEF OneStep

(* R and what one step adds to it have the same closed supersets. *)
LEMMA StepKeepsClosed ==
    ASSUME NEW R \in SUBSET Row, NEW s
    PROVE  ClosedAbove(OneStep(R, s), s) = ClosedAbove(R, s)
<1>1. ASSUME NEW X \in ClosedAbove(R, s)
      PROVE  X \in ClosedAbove(OneStep(R, s), s)
  BY OneStepMonotone, OneStepTyped DEF ClosedAbove
<1>2. ASSUME NEW X \in ClosedAbove(OneStep(R, s), s)
      PROVE  X \in ClosedAbove(R, s)
  BY OneStepTyped DEF ClosedAbove
<1> QED
  BY <1>1, <1>2

Grow(s) == CHOOSE grow : grow = [R \in SUBSET Row |->
               IF OneStep(R, s) = R THEN R ELSE grow[OneStep(R, s)]]

Least(R, s) == {x \in Row : \A X \in ClosedAbove(R, s) : x \in X}

(* The recursion of Closure has a solution. *)
LEMMA GrowEquation ==
    ASSUME NEW s
    PROVE  \A R \in SUBSET Row :
               Grow(s)[R] = IF OneStep(R, s) = R THEN R ELSE Grow(s)[OneStep(R, s)]
<1> DEFINE h == [R \in SUBSET Row |-> Least(R, s)]
<1>1. ASSUME NEW R \in SUBSET Row
      PROVE  h[R] = IF OneStep(R, s) = R THEN R ELSE h[OneStep(R, s)]
  <2>1. CASE OneStep(R, s) = R
    <3>1. R \in ClosedAbove(R, s)
      BY <2>1 DEF ClosedAbove
    <3>2. Least(R, s) = R
      BY <3>1 DEF Least, ClosedAbove
    <3> QED
      BY <2>1, <3>2
  <2>2. CASE OneStep(R, s) # R
    <3>1. Least(OneStep(R, s), s) = Least(R, s)
      BY StepKeepsClosed DEF Least
    <3>2. OneStep(R, s) \in SUBSET Row
      BY OneStepTyped
    <3> QED
      BY <2>2, <3>1, <3>2
  <2> QED
    BY <2>1, <2>2
<1>2. h = [R \in SUBSET Row |-> IF OneStep(R, s) = R THEN R ELSE h[OneStep(R, s)]]
  BY <1>1
<1> HIDE DEF h
<1>3. Grow(s) = [R \in SUBSET Row |->
                    IF OneStep(R, s) = R THEN R ELSE Grow(s)[OneStep(R, s)]]
  BY <1>2 DEF Grow
<1> QED
  BY <1>3

(* It has no other: the closure is the least closed superset. *)
LEMMA ClosureIsLeast ==
    ASSUME NEW S \in SUBSET Row, NEW s
    PROVE  /\ Closure(S, s) \in ClosedAbove(S, s)
           /\ \A X \in ClosedAbove(S, s) : Closure(S, s) \subseteq X
<1> DEFINE Good(R) == /\ Grow(s)[R] \in ClosedAbove(R, s)
                      /\ \A X \in ClosedAbove(R, s) : Grow(s)[R] \subseteq X
           Bad == {R \in SUBSET Row : ~Good(R)}
<1>1. Closure(S, s) = Grow(s)[S]
  BY DEF Closure, Grow
<1>2. ASSUME Bad # {} PROVE FALSE
  <2>1. Bad \subseteq SUBSET Row
    OBVIOUS
  <2>2. PICK R \in Bad : \A V \in Bad : R \subseteq V => V = R
    <3> HIDE DEF Bad
    <3> QED
      BY <1>2, <2>1, FiniteMaximal, ProgramFinite
  <2> DEFINE Up == OneStep(R, s)
  <2>3. R \in SUBSET Row /\ Up \in SUBSET Row /\ R \subseteq Up /\ ~Good(R)
    BY OneStepTyped
  <2>4. CASE Up = R
    <3>1. Grow(s)[R] = R
      BY <2>3, <2>4, GrowEquation
    <3>2. R \in ClosedAbove(R, s)
      BY <2>3, <2>4 DEF ClosedAbove
    <3> QED
      BY <2>3, <3>1, <3>2 DEF ClosedAbove
  <2>5. CASE Up # R
    <3>1. Grow(s)[R] = Grow(s)[Up]
      BY <2>3, <2>5, GrowEquation
    <3>2. ClosedAbove(Up, s) = ClosedAbove(R, s)
      BY <2>3, StepKeepsClosed
    <3>3. Good(Up)
      BY <2>2, <2>3, <2>5
    <3> QED
      BY <2>3, <3>1, <3>2, <3>3
  <2> QED
    BY <2>4, <2>5
<1> QED
  BY <1>1, <1>2

-----------------------------------------------------------------------------
(* The least model, stratum by stratum. *)

UpTo(facts) == CHOOSE upTo : upTo = [s \in -1..LastStratum |->
                   IF s = -1 THEN facts ELSE Closure(upTo[s - 1], s)]

(* The model stratum by stratum solves its recursive equation.             *)
LEMMA UpToEquation ==
    ASSUME NEW facts
    PROVE  \A s \in -1..LastStratum :
               UpTo(facts)[s] = IF s = -1 THEN facts ELSE Closure(UpTo(facts)[s - 1], s)
<1> DEFINE Solves(u, n) == u = [s \in -1..(n - 1) |->
                                   IF s = -1 THEN facts ELSE Closure(u[s - 1], s)]
           Solvable(n) == \E u : Solves(u, n)
<1>1. \A n \in Nat : Solvable(n)
  <2> DEFINE Bad == {n \in Nat : ~Solvable(n)}
  <2>1. SUFFICES ASSUME Bad # {} PROVE FALSE
    OBVIOUS
  <2>2. PICK n \in Nat : ~Solvable(n) /\ \A k \in Nat : k < n => Solvable(k)
    <3> HIDE DEF Solvable
    <3>1. Bad \subseteq Nat
      OBVIOUS
    <3>2. PICK n \in Bad : \A k \in Bad : n <= k
      BY <2>1, <3>1, NatLeast
    <3> QED
      BY <3>2
  <2>3. CASE n = 0
    <3> DEFINE u == [s \in -1..(-1) |-> facts]
    <3>1. Solves(u, 0)
      OBVIOUS
    <3> QED
      BY <2>2, <2>3, <3>1
  <2>4. CASE n # 0
    <3>1. n - 1 \in Nat /\ n - 1 < n
      BY <2>4
    <3>2. PICK v : Solves(v, n - 1)
      BY <2>2, <3>1
    <3> DEFINE u == [s \in -1..(n - 1) |->
                        IF s = n - 1 THEN Closure(v[s - 1], s) ELSE v[s]]
    <3>3. ASSUME NEW s \in -1..(n - 1)
          PROVE  u[s] = IF s = -1 THEN facts ELSE Closure(u[s - 1], s)
      <4>1. CASE s = n - 1
        <5>1. s - 1 \in -1..(n - 1) /\ s - 1 # n - 1 /\ s # -1
          BY <3>1, <4>1
        <5> QED
          BY <4>1, <5>1
      <4>2. CASE s # n - 1
        <5>1. s \in -1..((n - 1) - 1)
          BY <3>1, <4>2
        <5>2. v[s] = IF s = -1 THEN facts ELSE Closure(v[s - 1], s)
          BY <3>2, <5>1
        <5>3. CASE s = -1
          BY <4>2, <5>2, <5>3
        <5>4. CASE s # -1
          <6>1. s - 1 \in -1..(n - 1) /\ s - 1 # n - 1
            BY <3>1, <5>1, <5>4
          <6> QED
            BY <4>2, <5>2, <5>4, <6>1
        <5> QED
          BY <5>3, <5>4
      <4> QED
        BY <4>1, <4>2
    <3>4. Solves(u, n)
      <4>1. u = [s \in -1..(n - 1) |-> u[s]]
        OBVIOUS
      <4> HIDE DEF u
      <4> QED
        BY <3>3, <4>1
    <3> QED
      BY <2>2, <3>4
  <2> QED
    BY <2>3, <2>4
<1>2. \E u : Solves(u, LastStratum + 1)
  <2>1. LastStratum + 1 \in Nat
    BY LastStratumIsLast
  <2> QED
    BY <1>1, <2>1
<1>3. (LastStratum + 1) - 1 = LastStratum
  BY LastStratumIsLast
<1>4. \E u : u = [s \in -1..LastStratum |->
                     IF s = -1 THEN facts ELSE Closure(u[s - 1], s)]
  BY <1>2, <1>3
<1>5. UpTo(facts) = [s \in -1..LastStratum |->
                  IF s = -1 THEN facts ELSE Closure(UpTo(facts)[s - 1], s)]
  BY <1>4 DEF UpTo
<1> QED
  BY <1>5

(* Each stratum adds rows of its own to those below it, and closes.        *)
LEMMA UpToStep ==
    ASSUME NEW facts \in SUBSET Row
    PROVE  /\ \A s \in -1..LastStratum : UpTo(facts)[s] \in SUBSET Row
           /\ \A s \in 0..LastStratum :
                 /\ UpTo(facts)[s] \in ClosedAbove(UpTo(facts)[s - 1], s)
                 /\ \A X \in ClosedAbove(UpTo(facts)[s - 1], s) :
                        UpTo(facts)[s] \subseteq X
<1> DEFINE u == UpTo(facts)
<1>1. u[-1] = facts
  BY UpToEquation, LastStratumIsLast
<1>2. \A s \in 0..LastStratum : u[s] = Closure(u[s - 1], s)
  BY UpToEquation, LastStratumIsLast
<1>3. \A s \in -1..LastStratum : u[s] \in SUBSET Row
  <2> DEFINE Bad == {n \in Nat : n - 1 \in -1..LastStratum /\ u[n - 1] \notin SUBSET Row}
  <2>1. SUFFICES ASSUME Bad # {} PROVE FALSE
    <3>1. SUFFICES ASSUME NEW s \in -1..LastStratum, u[s] \notin SUBSET Row
                   PROVE  Bad # {}
      OBVIOUS
    <3>2. (s + 1) - 1 = s /\ s + 1 \in Nat
      BY LastStratumIsLast
    <3>3. s + 1 \in Bad
      BY <3>1, <3>2
    <3> QED
      BY <3>3
  <2>2. PICK n \in Bad : \A k \in Bad : n <= k
    <3>1. Bad \subseteq Nat
      OBVIOUS
    <3> HIDE DEF Bad
    <3> QED
      BY <2>1, <3>1, NatLeast
  <2>3. n \in Nat /\ n - 1 \in -1..LastStratum /\ u[n - 1] \notin SUBSET Row
    BY <2>2
  <2>4. CASE n = 0
    BY <1>1, <2>3, <2>4
  <2>5. CASE n # 0
    <3>1. n - 1 \in 0..LastStratum /\ (n - 1) - 1 \in -1..LastStratum /\ n - 1 \in Nat /\ n - 1 < n
      BY <2>3, <2>5, LastStratumIsLast
    <3>2. n - 1 \notin Bad
      BY <2>2, <3>1
    <3>3. u[(n - 1) - 1] \in SUBSET Row
      BY <3>1, <3>2
    <3>4. u[n - 1] = Closure(u[(n - 1) - 1], n - 1)
      BY <1>2, <3>1
    <3>5. u[n - 1] \in SUBSET Row
      BY <3>3, <3>4, ClosureIsLeast DEF ClosedAbove
    <3> QED
      BY <2>3, <3>5
  <2> QED
    BY <2>4, <2>5
<1>4. ASSUME NEW s \in 0..LastStratum
      PROVE  s - 1 \in -1..LastStratum
  BY LastStratumIsLast
<1> QED
  BY <1>2, <1>3, <1>4, ClosureIsLeast

(* Later strata add no row of an earlier one.                              *)
LEMMA UpToGrows ==
    ASSUME NEW facts \in SUBSET Row, NEW s \in -1..LastStratum
    PROVE  \A t \in s..LastStratum :
               /\ UpTo(facts)[s] \subseteq UpTo(facts)[t]
               /\ \A x \in UpTo(facts)[t] \ UpTo(facts)[s] : Stratum[TableOf(x)] > s
<1> DEFINE u == UpTo(facts)
           Good(t) == /\ u[s] \subseteq u[t]
                      /\ \A x \in u[t] \ u[s] : Stratum[TableOf(x)] > s
           Bad == {n \in Nat : s + n \in s..LastStratum /\ ~Good(s + n)}
<1>1. SUFFICES ASSUME Bad # {} PROVE FALSE
  <2>1. SUFFICES ASSUME NEW t \in s..LastStratum, ~Good(t)
                 PROVE  Bad # {}
    OBVIOUS
  <2>2. s + (t - s) = t /\ t - s \in Nat
    BY LastStratumIsLast
  <2>3. t - s \in Bad
    BY <2>1, <2>2
  <2> QED
    BY <2>3
<1>2. PICK n \in Bad : \A k \in Bad : n <= k
  <2>1. Bad \subseteq Nat
    OBVIOUS
  <2> HIDE DEF Bad
  <2> QED
    BY <1>1, <2>1, NatLeast
<1>3. n \in Nat /\ s + n \in s..LastStratum /\ ~Good(s + n)
  BY <1>2
<1>4. CASE n = 0
  <2>1. s + n = s
    BY <1>4
  <2> QED
    BY <1>3, <2>1
<1>5. CASE n # 0
  <2>1. /\ n - 1 \in Nat /\ n - 1 < n
        /\ s + (n - 1) \in s..LastStratum /\ s + (n - 1) = (s + n) - 1
        /\ s + n \in 0..LastStratum /\ s + n > s
    BY <1>3, <1>5, LastStratumIsLast
  <2>2. n - 1 \notin Bad
    BY <1>2, <2>1
  <2>3. Good((s + n) - 1)
    BY <2>1, <2>2
  <2>4. u[s + n] \in ClosedAbove(u[(s + n) - 1], s + n)
    BY <2>1, UpToStep
  <2>5. Good(s + n)
    BY <2>1, <2>3, <2>4 DEF ClosedAbove, StratumRows
  <2> QED
    BY <1>3, <2>5
<1> QED
  BY <1>4, <1>5

(* The least model is what the last stratum closes.                        *)
LEMMA LeastModelUpTo == \A facts : LeastModel(facts) = UpTo(facts)[LastStratum]
BY DEF LeastModel, UpTo

(* The least model contains the facts, is closed under the instances, and  *)
(* is the least such set stratum by stratum.                               *)
THEOREM LeastModelFacts ==
    ASSUME NEW facts \in SUBSET Facts
    PROVE  LET M == LeastModel(facts) IN
           /\ facts \subseteq M /\ M \subseteq Row
           /\ \A i \in Inst : Holds(i, M) => i.head \in M
           /\ \A s \in Nat : \A X \in SUBSET M :
                 /\ facts \subseteq X
                 /\ \A x \in M : Stratum[TableOf(x)] # s => x \in X
                 /\ \A i \in Inst :
                       /\ Stratum[TableOf(i.head)] = s
                       /\ BodyRows(i) \subseteq X
                       /\ i.neg \cap M = {}
                       => i.head \in X
                 => X = M
<1> DEFINE M == LeastModel(facts)
           u == UpTo(facts)
           Level(x) == Stratum[TableOf(x)]
<1>1. facts \in SUBSET Row
  BY DEF Facts
<1>2. M = u[LastStratum]
  BY LeastModelUpTo
<1>3. u[-1] = facts
  BY UpToEquation, LastStratumIsLast
<1>4. facts \subseteq M /\ M \subseteq Row
  BY <1>1, <1>2, <1>3, UpToGrows, UpToStep, LastStratumIsLast
<1>5. \A s \in -1..LastStratum : /\ u[s] \subseteq M
                                 /\ \A x \in M : Level(x) <= s => x \in u[s]
  <2>1. SUFFICES ASSUME NEW s \in -1..LastStratum
                 PROVE  /\ u[s] \subseteq M
                        /\ \A x \in M : Level(x) <= s => x \in u[s]
    OBVIOUS
  <2>2. /\ u[s] \subseteq M
        /\ \A x \in M \ u[s] : Level(x) > s
    BY <1>1, <1>2, UpToGrows, LastStratumIsLast
  <2>3. \A x \in M : Level(x) \in Nat
    BY <1>4, ProgramFinite
  <2> QED
    BY <2>2, <2>3
<1>6. ASSUME NEW s \in 0..LastStratum
      PROVE  \A x \in u[s - 1] : x \in facts \/ Level(x) # s
  <2>1. s - 1 \in -1..LastStratum /\ -1 \in -1..LastStratum /\ s - 1 \in -1..(s - 1)
    BY LastStratumIsLast
  <2>2. CASE s = 0
    BY <1>3, <2>2
  <2>3. CASE s # 0
    <3> DEFINE Bad == {n \in Nat : n < s /\ \E x \in u[n] : x \notin facts /\ Level(x) = s}
    <3>1. SUFFICES Bad = {}
      <4>1. s - 1 \in Nat /\ s - 1 < s
        BY <2>3
      <4> QED
        BY <3>1, <4>1
    <3>2. SUFFICES ASSUME Bad # {} PROVE FALSE
      OBVIOUS
    <3>3. PICK n \in Bad : \A k \in Bad : n <= k
      <4>1. Bad \subseteq Nat
        OBVIOUS
      <4> HIDE DEF Bad
      <4> QED
        BY <3>2, <4>1, NatLeast
    <3>4. n \in Nat /\ n < s /\ n \in 0..LastStratum
      BY <3>3, LastStratumIsLast
    <3>5. PICK x \in u[n] : x \notin facts /\ Level(x) = s
      BY <3>3
    <3>6. u[n] \subseteq u[n - 1] \cup StratumRows(n)
      BY <1>1, <3>4, UpToStep DEF ClosedAbove
    <3>7. x \in u[n - 1]
      BY <3>4, <3>5, <3>6 DEF StratumRows
    <3>8. CASE n = 0
      BY <1>3, <3>5, <3>7, <3>8
    <3>9. CASE n # 0
      <4>1. n - 1 \in Nat /\ n - 1 < s /\ n - 1 < n
        BY <3>4, <3>9
      <4>2. n - 1 \in Bad
        BY <3>5, <3>7, <4>1
      <4> QED
        BY <3>3, <3>4, <4>1, <4>2
    <3> QED
      BY <3>8, <3>9
  <2> QED
    BY <2>2, <2>3
<1>7. ASSUME NEW i \in Inst, Holds(i, M)
      PROVE  i.head \in M
  <2> DEFINE s == Level(i.head)
  <2>1. s \in 0..LastStratum
    BY HeadsAndAtoms, LastStratumIsLast
  <2>2. Holds(i, u[s])
    BY <1>5, <1>7, <2>1, HeadsAndAtoms DEF Holds
  <2>3. OneStep(u[s], s) \subseteq u[s]
    BY <1>1, <2>1, UpToStep DEF ClosedAbove
  <2>4. i.head \in OneStep(u[s], s)
    BY <2>2 DEF OneStep
  <2> QED
    BY <1>5, <2>1, <2>3, <2>4
<1>8. ASSUME NEW s \in Nat, NEW X \in SUBSET M,
             facts \subseteq X,
             \A x \in M : Level(x) # s => x \in X,
             \A i \in Inst : /\ Level(i.head) = s
                             /\ BodyRows(i) \subseteq X
                             /\ i.neg \cap M = {}
                             => i.head \in X
      PROVE  X = M
  <2>1. CASE s > LastStratum
    <3>1. \A x \in M : Level(x) # s
      BY <1>4, <2>1, LastStratumIsLast, ProgramFinite
    <3> QED
      BY <1>8, <3>1
  <2>2. CASE s <= LastStratum
    <3>1. s \in 0..LastStratum /\ s - 1 \in -1..LastStratum /\ s \in -1..LastStratum
      BY <2>2, LastStratumIsLast
    <3> DEFINE Y == u[s - 1] \cup (X \cap u[s])
    <3>2. u[s] \in ClosedAbove(u[s - 1], s)
      BY <1>1, <3>1, UpToStep
    <3>3. u[s - 1] \subseteq X
      BY <1>5, <1>6, <1>8, <3>1
    <3>4. Y \subseteq X /\ Y \subseteq u[s] /\ Y \in SUBSET Row
      BY <1>4, <3>2, <3>3 DEF ClosedAbove
    <3>5. ASSUME NEW j \in Inst, Level(j.head) = s, Holds(j, Y)
          PROVE  j.head \in Y
      <4>1. ASSUME NEW y \in j.neg, y \in M
            PROVE  y \in u[s - 1]
        <5>1. y \in Row /\ Level(y) < j.at /\ j.at <= s /\ j.at \in Nat
          BY <3>5, HeadsAndAtoms
        <5>2. Level(y) \in Nat
          BY <5>1, ProgramFinite
        <5>3. Level(y) <= s - 1
          BY <5>1, <5>2
        <5> QED
          BY <1>5, <3>1, <4>1, <5>3
      <4>2. j.neg \cap M = {}
        BY <3>5, <4>1 DEF Holds
      <4>3. j.head \in X
        BY <1>8, <3>4, <3>5, <4>2 DEF Holds
      <4>4. Holds(j, u[s])
        BY <1>5, <3>1, <3>4, <3>5, <4>2 DEF Holds
      <4>5. j.head \in u[s]
        BY <3>2, <3>5, <4>4 DEF ClosedAbove, OneStep
      <4> QED
        BY <4>3, <4>5
    <3>6. OneStep(Y, s) \subseteq Y
      BY <3>5 DEF OneStep
    <3>7. Y \in ClosedAbove(u[s - 1], s)
      BY <3>2, <3>4, <3>6 DEF ClosedAbove
    <3>8. u[s] \subseteq X
      BY <1>1, <3>1, <3>4, <3>7, UpToStep
    <3>9. \A x \in M : Level(x) = s => x \in X
      BY <1>5, <3>1, <3>8
    <3> QED
      BY <1>8, <3>9
  <2> QED
    BY <2>1, <2>2, LastStratumIsLast
<1> HIDE DEF M, u, Level
<1>9. /\ facts \subseteq M /\ M \subseteq Row
      /\ \A i \in Inst : Holds(i, M) => i.head \in M
      /\ \A s \in Nat : \A X \in SUBSET M :
                 /\ facts \subseteq X
                 /\ \A x \in M : Level(x) # s => x \in X
                 /\ \A i \in Inst :
                       /\ Level(i.head) = s
                       /\ BodyRows(i) \subseteq X
                       /\ i.neg \cap M = {}
                       => i.head \in X
                 => X = M
  BY <1>4, <1>7, <1>8
<1> QED
  BY <1>9 DEF M, Level

-----------------------------------------------------------------------------
(* A row of the old model has a derivation in it, or is a fact.            *)
LEMMA OldSupported ==
    ASSUME NEW f \in SUBSET Facts, NEW x \in LeastModel(f), x \notin f
    PROVE  \E i \in Inst : i.head = x /\ Holds(i, LeastModel(f))
<1> DEFINE M == LeastModel(f)
           X == M \ {x}
<1>1. SUFFICES ASSUME ~\E i \in Inst : i.head = x /\ Holds(i, M) PROVE FALSE
  OBVIOUS
<1>2. f \subseteq M /\ M \subseteq Row /\ \A i \in Inst : Holds(i, M) => i.head \in M
  BY LeastModelFacts
<1>3. \A s \in Nat : \A Y \in SUBSET M :
                 /\ f \subseteq Y
                 /\ \A y \in M : Stratum[TableOf(y)] # s => y \in Y
                 /\ \A i \in Inst :
                       /\ Stratum[TableOf(i.head)] = s
                       /\ BodyRows(i) \subseteq Y
                       /\ i.neg \cap M = {}
                       => i.head \in Y
                 => Y = M
  BY LeastModelFacts
<1>4. Stratum[TableOf(x)] \in Nat
  BY <1>2, ProgramFinite
<1>5. X \in SUBSET M /\ f \subseteq X
  BY <1>2
<1>6. \A y \in M : Stratum[TableOf(y)] # Stratum[TableOf(x)] => y \in X
  OBVIOUS
<1>7. ASSUME NEW i \in Inst, BodyRows(i) \subseteq X, i.neg \cap M = {}
      PROVE  i.head \in X
  BY <1>1, <1>2, <1>7 DEF Holds
<1>8. X = M
  <2> HIDE DEF X, M
  <2> QED
    BY <1>3, <1>4, <1>5, <1>6, <1>7
<1> QED
  BY <1>8

(* Every instance reads a row, so nothing is derived from no facts.        *)
LEMMA BodyNonEmpty ==
    ASSUME NEW i \in Inst
    PROVE  BodyRows(i) # {}
<1>1. i.body \in Seq(Row) /\ Len(i.body) >= 1
  BY InstancesTyped, ProgramWellFormed
<1>2. 1 \in DOMAIN i.body
  BY <1>1
<1> QED
  BY <1>2 DEF BodyRows

(* No facts, no model: at its lowest stratum a row would have to read a    *)
(* lower one.                                                              *)
LEMMA EmptyModel == LeastModel({}) = {}
<1> DEFINE M == LeastModel({})
           L == {Stratum[TableOf(x)] : x \in M}
<1>1. SUFFICES ASSUME M # {} PROVE FALSE
  OBVIOUS
<1>2. /\ M \subseteq Row
      /\ \A s \in Nat : \A X \in SUBSET M :
                 /\ {} \subseteq X
                 /\ \A x \in M : Stratum[TableOf(x)] # s => x \in X
                 /\ \A i \in Inst :
                       /\ Stratum[TableOf(i.head)] = s
                       /\ BodyRows(i) \subseteq X
                       /\ i.neg \cap M = {}
                       => i.head \in X
                 => X = M
  BY LeastModelFacts
<1>3. L \subseteq Nat /\ L # {}
  BY <1>1, <1>2, ProgramFinite
<1>4. PICK s \in L : \A k \in L : s <= k
  <2> HIDE DEF L
  <2> QED
    BY <1>3, NatLeast
<1>5. \A x \in M : Stratum[TableOf(x)] \in L
  OBVIOUS
<1>6. PICK z \in M : Stratum[TableOf(z)] = s
  OBVIOUS
<1>7. s \in Nat
  BY <1>3
<1> DEFINE X == {x \in M : Stratum[TableOf(x)] # s}
<1>8. ASSUME NEW i \in Inst, Stratum[TableOf(i.head)] = s, BodyRows(i) \subseteq X
      PROVE  FALSE
  <2>1. PICK y : y \in BodyRows(i)
    BY BodyNonEmpty
  <2>2. y \in M /\ Stratum[TableOf(y)] # s
    BY <1>8, <2>1
  <2>3. Stratum[TableOf(y)] \in Nat /\ s <= Stratum[TableOf(y)]
    BY <1>2, <1>3, <1>4, <1>5, <2>2
  <2>4. Stratum[TableOf(y)] <= s
    BY <1>8, <2>1, HeadsAndAtoms
  <2> QED
    BY <1>7, <2>2, <2>3, <2>4
<1>9. X = M
  <2>1. X \in SUBSET M /\ \A x \in M : Stratum[TableOf(x)] # s => x \in X
    OBVIOUS
  <2> HIDE DEF X, M, L
  <2> QED
    BY <1>2, <1>7, <1>8, <2>1
<1> QED
  BY <1>6, <1>9

-----------------------------------------------------------------------------

(* The instances of a set of firings, each fired at one position only. *)
Fired(fires) == {e[1] : e \in fires}
Once(fires) == \A d, e \in fires : d[1] = e[1] => d = e

(* The instances of C that derive x in class k. *)
Into(C, x, k) == {i \in C : i.head = x /\ RuleClass(i) = k}

Explicit(c) == IF "kExplicit" \in c.f THEN 1 ELSE 0

Counts(cells, C) ==
    \A x \in Row :
        /\ cells[x].nr = Cardinality(Into(C, x, "kNonRecursive")) + Explicit(cells[x])
        /\ cells[x].r = Cardinality(Into(C, x, "kRecursive"))

NowOf(cells) == {x \in Row : InNew(cells[x])}
OldOf(cells) == {x \in Row : InI(cells[x])}

(* A row that lost a derivation and has no nonrecursive one left is queued *)
(* or deleted.                                                             *)
LossQueued(cells, dq, C, f) ==
    \A x \in Row :
        /\ SurvivesSoFar(cells[x]) /\ cells[x].nr <= 0 /\ x \notin dq
        => /\ \A i \in Inst : i.head = x /\ Holds(i, OldOf(cells)) => i \in C
           /\ x \in f => "kExplicit" \in cells[x].f

(* A row with a derivation is there, or queued, or waits for REDERIVE. *)
GainQueued(cells, aq, waiting) ==
    \A x \in Row : Total(cells[x]) > 0 => InNew(cells[x]) \/ x \in aq \/ x \in waiting

Ledger(cells, dq, aq, waiting, C, f) ==
    /\ cells \in [Row -> Cell]
    /\ C \subseteq Inst
    /\ Counts(cells, C)
    /\ dq \subseteq OldOf(cells) /\ aq \subseteq Row
    /\ LossQueued(cells, dq, C, f)
    /\ GainQueued(cells, aq, waiting)

-----------------------------------------------------------------------------
(* The instances into a row are finite.                                    *)
LEMMA IntoFinite ==
    ASSUME NEW C \in SUBSET Inst, NEW x, NEW k
    PROVE  /\ IsFiniteSet(Into(C, x, k))
           /\ Cardinality(Into(C, x, k)) \in Nat
<1>1. Into(C, x, k) \in SUBSET Inst
  BY DEF Into
<1> QED
  BY <1>1, FS_Subset, FS_CardinalityType, ProgramFinite

(* The firings into a row are as many as the instances fired into it.      *)
LEMMA CountIntoOnce ==
    ASSUME NEW fires, Once(fires), Fired(fires) \subseteq Inst, NEW x, NEW k
    PROVE  CountInto(fires, x, k) = Cardinality(Into(Fired(fires), x, k))
<1> DEFINE S == {e \in fires : e[1].head = x /\ RuleClass(e[1]) = k}
           T == Into(Fired(fires), x, k)
           f == [e \in S |-> e[1]]
<1>1. f \in [S -> T]
  BY DEF Into, Fired
<1>2. f \in Injection(S, T)
  BY <1>1 DEF Injection, IsInjective, Once
<1>3. \A t \in T : \E e \in S : f[e] = t
  BY DEF Into, Fired
<1>4. f \in Surjection(S, T)
  BY <1>1, <1>3 DEF Surjection
<1>5. IsFiniteSet(T)
  BY IntoFinite
<1>6. Cardinality(S) = Cardinality(T)
  <2> HIDE DEF S, T, f
  <2> QED
    BY <1>2, <1>4, <1>5, FS_Injection
<1> QED
  BY <1>6 DEF CountInto

(* Two disjoint sets of instances derive a row as often as both together.  *)
LEMMA IntoUnion ==
    ASSUME NEW C \in SUBSET Inst, NEW D \in SUBSET Inst, C \cap D = {}, NEW x, NEW k
    PROVE  Cardinality(Into(C \cup D, x, k))
               = Cardinality(Into(C, x, k)) + Cardinality(Into(D, x, k))
<1>1. Into(C \cup D, x, k) = Into(C, x, k) \cup Into(D, x, k)
  BY DEF Into
<1>2. Into(C, x, k) \cap Into(D, x, k) = {}
  BY DEF Into
<1>3. /\ IsFiniteSet(Into(C, x, k)) /\ IsFiniteSet(Into(D, x, k))
      /\ Cardinality(Into(C, x, k)) \in Nat /\ Cardinality(Into(D, x, k)) \in Nat
  BY IntoFinite
<1>4. Cardinality(Into(C, x, k) \cap Into(D, x, k)) = 0
  BY <1>2, FS_EmptySet
<1>5. Cardinality(Into(C, x, k) \cup Into(D, x, k))
         = Cardinality(Into(C, x, k)) + Cardinality(Into(D, x, k))
             - Cardinality(Into(C, x, k) \cap Into(D, x, k))
  BY <1>3, FS_Union
<1>6. Cardinality(Into(C \cup D, x, k)) = Cardinality(Into(C, x, k) \cup Into(D, x, k))
  BY <1>1
<1> HIDE DEF Into
<1> QED
  BY <1>3, <1>4, <1>5, <1>6

(* Taking some away from those counted takes as many off the count.        *)
LEMMA IntoDifference ==
    ASSUME NEW C \in SUBSET Inst, NEW D \in SUBSET C, NEW x, NEW k
    PROVE  Cardinality(Into(C \ D, x, k))
               = Cardinality(Into(C, x, k)) - Cardinality(Into(D, x, k))
<1>1. (C \ D) \cup D = C /\ (C \ D) \cap D = {}
  OBVIOUS
<1>2. Cardinality(Into(C, x, k))
        = Cardinality(Into(C \ D, x, k)) + Cardinality(Into(D, x, k))
  BY <1>1, IntoUnion
<1>3. /\ Cardinality(Into(C, x, k)) \in Nat /\ Cardinality(Into(D, x, k)) \in Nat
      /\ Cardinality(Into(C \ D, x, k)) \in Nat
  BY IntoFinite
<1> QED
  BY <1>2, <1>3

(* A row that none of the instances derives is not counted.                *)
LEMMA IntoEmpty ==
    ASSUME NEW C \in SUBSET Inst, NEW x, NEW k, \A i \in C : i.head # x
    PROVE  Cardinality(Into(C, x, k)) = 0
<1>1. Into(C, x, k) = {}
  BY DEF Into
<1> QED
  BY <1>1, FS_EmptySet

(* A counted instance makes the total of its head positive.                *)
LEMMA CountedTotal ==
    ASSUME NEW cells \in [Row -> Cell], NEW C \in SUBSET Inst, Counts(cells, C),
           NEW x \in Row
    PROVE  /\ Total(cells[x]) > 0 <=>
                  (\E i \in C : i.head = x) \/ "kExplicit" \in cells[x].f
           /\ cells[x].nr > 0 <=>
                  \/ \E i \in C : i.head = x /\ RuleClass(i) = "kNonRecursive"
                  \/ "kExplicit" \in cells[x].f
           /\ cells[x].r > 0 <=> \E i \in C : i.head = x /\ RuleClass(i) = "kRecursive"
           /\ cells[x].nr >= Explicit(cells[x]) /\ cells[x].r >= 0
<1> DEFINE N == Into(C, x, "kNonRecursive")
           R == Into(C, x, "kRecursive")
<1>1. /\ IsFiniteSet(N) /\ Cardinality(N) \in Nat
      /\ IsFiniteSet(R) /\ Cardinality(R) \in Nat
  BY IntoFinite
<1>2. Cardinality(N) > 0 <=> N # {}
  BY <1>1, FS_EmptySet
<1>3. Cardinality(R) > 0 <=> R # {}
  BY <1>1, FS_EmptySet
<1>4. cells[x].nr = Cardinality(N) + Explicit(cells[x]) /\ cells[x].r = Cardinality(R)
  BY DEF Counts
<1>5. Explicit(cells[x]) \in {0, 1} /\ (Explicit(cells[x]) > 0 <=> "kExplicit" \in cells[x].f)
  BY DEF Explicit
<1>6. N # {} <=> \E i \in C : i.head = x /\ RuleClass(i) = "kNonRecursive"
  BY DEF Into
<1>7. R # {} <=> \E i \in C : i.head = x /\ RuleClass(i) = "kRecursive"
  BY DEF Into
<1>8. \A i \in C : RuleClass(i) \in {"kNonRecursive", "kRecursive"}
  BY DEF RuleClass
<1>9. Total(cells[x]) > 0 <=> Cardinality(N) > 0 \/ Cardinality(R) > 0 \/ Explicit(cells[x]) > 0
  <2> HIDE DEF N, R
  <2> QED
    BY <1>1, <1>4, <1>5 DEF Total
<1>10. cells[x].nr > 0 <=> Cardinality(N) > 0 \/ Explicit(cells[x]) > 0
  <2> HIDE DEF N, R
  <2> QED
    BY <1>1, <1>4, <1>5
<1>11. cells[x].nr >= Explicit(cells[x]) /\ cells[x].r >= 0
  <2> HIDE DEF N, R
  <2> QED
    BY <1>1, <1>4, <1>5
<1> HIDE DEF N, R
<1>12. Total(cells[x]) > 0 <=> (\E i \in C : i.head = x) \/ "kExplicit" \in cells[x].f
  BY <1>2, <1>3, <1>5, <1>6, <1>7, <1>8, <1>9
<1> QED
  BY <1>2, <1>3, <1>4, <1>5, <1>6, <1>7, <1>10, <1>11, <1>12

-----------------------------------------------------------------------------
(* A loop of folds, sign d, moves each counter by the instances it fires,  *)
(* and touches the rows it folds into.                                     *)
LEMMA FoldEffect ==
    ASSUME NEW cells \in [Row -> Cell], NEW fires, NEW d \in {-1, 1},
           Once(fires), Fired(fires) \subseteq Inst
    PROVE  LET end == FoldAll(cells, fires, d)
               n(x, k) == Cardinality(Into(Fired(fires), x, k))
           IN  /\ end \in [Row -> Cell]
               /\ \A x \in Row :
                     /\ end[x].nr = cells[x].nr + d * n(x, "kNonRecursive")
                     /\ end[x].r = cells[x].r + d * n(x, "kRecursive")
                     /\ n(x, "kNonRecursive") \in Nat /\ n(x, "kRecursive") \in Nat
                     /\ end[x].f = cells[x].f \cup
                                      (IF x \in Heads(fires) THEN {"kTouched"} ELSE {})
                     /\ x \notin Heads(fires) => end[x] = cells[x]
<1> DEFINE n(x, k) == Cardinality(Into(Fired(fires), x, k))
           end == FoldAll(cells, fires, d)
<1>1. ASSUME NEW x \in Row
      PROVE  /\ n(x, "kNonRecursive") \in Nat /\ n(x, "kRecursive") \in Nat
             /\ CountInto(fires, x, "kNonRecursive") = n(x, "kNonRecursive")
             /\ CountInto(fires, x, "kRecursive") = n(x, "kRecursive")
  BY IntoFinite, CountIntoOnce
<1>2. ASSUME NEW x \in Row, x \notin Heads(fires)
      PROVE  n(x, "kNonRecursive") = 0 /\ n(x, "kRecursive") = 0
  <2>1. \A i \in Fired(fires) : i.head # x
    BY <1>2 DEF Fired, Heads
  <2> QED
    BY <2>1, IntoEmpty
<1>3. ASSUME NEW x \in Row
      PROVE  /\ end[x] \in Cell
             /\ end[x].nr = cells[x].nr + d * n(x, "kNonRecursive")
             /\ end[x].r = cells[x].r + d * n(x, "kRecursive")
             /\ end[x].f = cells[x].f \cup
                              (IF x \in Heads(fires) THEN {"kTouched"} ELSE {})
             /\ x \notin Heads(fires) => end[x] = cells[x]
  <2> DEFINE c == cells[x]
             dn == d * n(x, "kNonRecursive")
             dr == d * n(x, "kRecursive")
  <2>1. c \in Cell /\ dn \in Int /\ dr \in Int
    BY <1>1
  <2>2. CASE x \in Heads(fires)
    <3>1. end[x] = FoldAt(FoldAt(c, "kNonRecursive", dn), "kRecursive", dr)
      BY <1>1, <2>2 DEF FoldAll
    <3> HIDE DEF c, dn, dr
    <3>2. FoldAt(FoldAt(c, "kNonRecursive", dn), "kRecursive", dr)
            = [nr |-> c.nr + dn, r |-> c.r + dr, f |-> c.f \cup {"kTouched"}]
      BY <2>1 DEF FoldAt, Touch, Cell
    <3>3. "kTouched" \in RowFlags
      BY DEF RowFlags
    <3> QED
      BY <2>1, <2>2, <3>1, <3>2, <3>3 DEF Cell, c, dn, dr
  <2>3. CASE x \notin Heads(fires)
    <3>1. end[x] = c
      BY <2>3 DEF FoldAll
    <3>2. dn = 0 /\ dr = 0
      BY <1>2, <2>3
    <3> QED
      BY <2>1, <2>3, <3>1, <3>2 DEF Cell
  <2> QED
    BY <2>2, <2>3
<1>4. end \in [Row -> Cell]
  BY <1>3 DEF FoldAll
<1> HIDE DEF end, n
<1>5. /\ end \in [Row -> Cell]
      /\ \A x \in Row :
                     /\ end[x].nr = cells[x].nr + d * n(x, "kNonRecursive")
                     /\ end[x].r = cells[x].r + d * n(x, "kRecursive")
                     /\ n(x, "kNonRecursive") \in Nat /\ n(x, "kRecursive") \in Nat
                     /\ end[x].f = cells[x].f \cup
                                      (IF x \in Heads(fires) THEN {"kTouched"} ELSE {})
                     /\ x \notin Heads(fires) => end[x] = cells[x]
  BY <1>1, <1>3, <1>4
<1> QED
  BY <1>5 DEF end, n

(* A touched row reads as it did.                                          *)
LEMMA TouchReads ==
    ASSUME NEW c, NEW e, e.f = c.f \cup {"kTouched"} \/ e.f = c.f
    PROVE  /\ InI(e) = InI(c) /\ InNew(e) = InNew(c)
           /\ SurvivesSoFar(e) = SurvivesSoFar(c)
           /\ NetDeleted(e) = NetDeleted(c) /\ NetAdded(e) = NetAdded(c)
           /\ \A g \in RowFlags \ {"kTouched"} : g \in e.f <=> g \in c.f
           /\ Explicit(e) = Explicit(c)
BY DEF InI, InNew, SurvivesSoFar, NetDeleted, NetAdded, Explicit

(* A loop of folds moves no model.                                         *)
LEMMA TouchedCells ==
    ASSUME NEW cells, NEW end,
           \A x \in Row : \/ end[x].f = cells[x].f \cup {"kTouched"}
                          \/ end[x].f = cells[x].f
    PROVE  OldOf(end) = OldOf(cells) /\ NowOf(end) = NowOf(cells)
BY TouchReads DEF OldOf, NowOf

(* A loop of decrements of counted instances. *)
LEMMA LedgerDown ==
    ASSUME NEW cells, NEW dq, NEW aq, NEW waiting, NEW C, NEW f,
           Ledger(cells, dq, aq, waiting, C, f),
           NEW fires, Once(fires), Fired(fires) \subseteq C
    PROVE  LET end == FoldAll(cells, fires, -1) IN
           Ledger(end, dq \cup ParkedDown(cells, end, fires), aq, waiting,
                  C \ Fired(fires), f)
<1> DEFINE end == FoldAll(cells, fires, -1)
           D == C \ Fired(fires)
           dq2 == dq \cup ParkedDown(cells, end, fires)
           n(x, k) == Cardinality(Into(Fired(fires), x, k))
<1>1. /\ cells \in [Row -> Cell] /\ C \subseteq Inst /\ Counts(cells, C)
      /\ dq \subseteq OldOf(cells) /\ aq \subseteq Row
      /\ LossQueued(cells, dq, C, f) /\ GainQueued(cells, aq, waiting)
  BY DEF Ledger
<1>2. /\ end \in [Row -> Cell]
      /\ \A x \in Row :
            /\ end[x].nr = cells[x].nr + (-1) * n(x, "kNonRecursive")
            /\ end[x].r = cells[x].r + (-1) * n(x, "kRecursive")
            /\ n(x, "kNonRecursive") \in Nat /\ n(x, "kRecursive") \in Nat
            /\ end[x].f = cells[x].f \cup (IF x \in Heads(fires) THEN {"kTouched"} ELSE {})
            /\ x \notin Heads(fires) => end[x] = cells[x]
  BY <1>1, FoldEffect
<1>3. \A x \in Row : end[x].f = cells[x].f \cup {"kTouched"} \/ end[x].f = cells[x].f
  BY <1>2
<1>4. OldOf(end) = OldOf(cells)
  BY <1>3, TouchedCells
<1> HIDE DEF end
<1>5. Counts(end, D)
  <2>1. ASSUME NEW x \in Row
        PROVE  /\ end[x].nr = Cardinality(Into(D, x, "kNonRecursive")) + Explicit(end[x])
               /\ end[x].r = Cardinality(Into(D, x, "kRecursive"))
    <3>1. \A k : Cardinality(Into(D, x, k)) = Cardinality(Into(C, x, k)) - n(x, k)
      BY <1>1, IntoDifference
    <3>2. /\ cells[x].nr = Cardinality(Into(C, x, "kNonRecursive")) + Explicit(cells[x])
          /\ cells[x].r = Cardinality(Into(C, x, "kRecursive"))
      BY <1>1 DEF Counts
    <3>3. \A k : Cardinality(Into(C, x, k)) \in Nat
      BY <1>1, IntoFinite
    <3>4. Explicit(end[x]) = Explicit(cells[x]) /\ Explicit(cells[x]) \in Nat
      BY <1>3, TouchReads DEF Explicit
    <3>5. /\ end[x].nr = cells[x].nr + (-1) * n(x, "kNonRecursive")
          /\ end[x].r = cells[x].r + (-1) * n(x, "kRecursive")
          /\ n(x, "kNonRecursive") \in Nat /\ n(x, "kRecursive") \in Nat
      BY <1>2
    <3> HIDE DEF n, D
    <3> QED
      BY <3>1, <3>2, <3>3, <3>4, <3>5
  <2> QED
    BY <2>1 DEF Counts
<1>6. \A x \in Row : /\ end[x].nr <= cells[x].nr /\ end[x].r <= cells[x].r
                     /\ Total(end[x]) <= Total(cells[x])
  <2>1. ASSUME NEW x \in Row
        PROVE  /\ end[x].nr <= cells[x].nr /\ end[x].r <= cells[x].r
               /\ Total(end[x]) <= Total(cells[x])
    <3>1. cells[x].nr \in Int /\ cells[x].r \in Int /\ end[x].nr \in Int /\ end[x].r \in Int
      BY <1>1, <1>2 DEF Cell
    <3>2. /\ end[x].nr = cells[x].nr + (-1) * n(x, "kNonRecursive")
          /\ end[x].r = cells[x].r + (-1) * n(x, "kRecursive")
          /\ n(x, "kNonRecursive") \in Nat /\ n(x, "kRecursive") \in Nat
      BY <1>2
    <3> HIDE DEF n
    <3> QED
      BY <3>1, <3>2 DEF Total
  <2> QED
    BY <2>1
<1>7. LossQueued(end, dq2, D, f)
  <2>1. SUFFICES ASSUME NEW x \in Row,
                        SurvivesSoFar(end[x]), end[x].nr <= 0, x \notin dq2
                 PROVE  /\ \A i \in Inst : i.head = x /\ Holds(i, OldOf(end)) => i \in D
                        /\ x \in f => "kExplicit" \in end[x].f
    BY DEF LossQueued
  <2>2. x \notin Heads(fires)
    BY <1>3, <2>1, TouchReads DEF ParkedDown, CrossedDown, SurvivesSoFar
  <2>3. end[x] = cells[x]
    BY <1>2, <2>2
  <2>4. \A i \in Inst : i.head = x => i \notin Fired(fires)
    BY <2>2 DEF Heads, Fired
  <2> QED
    BY <1>1, <1>4, <2>1, <2>3, <2>4 DEF LossQueued
<1>8. GainQueued(end, aq, waiting)
  <2>1. ASSUME NEW x \in Row, Total(end[x]) > 0
        PROVE  InNew(end[x]) \/ x \in aq \/ x \in waiting
    <3>1. Total(cells[x]) > 0
      <4>1. Total(end[x]) \in Int /\ Total(cells[x]) \in Int
        BY <1>1, <1>2 DEF Cell, Total
      <4> QED
        BY <1>6, <2>1, <4>1
    <3> QED
      BY <1>1, <1>3, <3>1, TouchReads DEF GainQueued
  <2> QED
    BY <2>1 DEF GainQueued
<1>10. dq2 \subseteq OldOf(end)
  <2>1. Heads(fires) \subseteq Row
    BY <1>1, HeadsAndAtoms DEF Heads, Fired
  <2>2. ParkedDown(cells, end, fires) \subseteq OldOf(cells)
    BY <2>1 DEF ParkedDown, CrossedDown, OldOf, InI
  <2> QED
    BY <1>1, <1>4, <2>2
<1> HIDE DEF D, dq2
<1>11. Ledger(end, dq2, aq, waiting, D, f)
  <2>1. D \subseteq Inst
    BY <1>1 DEF D
  <2> QED
    BY <1>1, <1>2, <1>5, <1>7, <1>8, <1>10, <2>1 DEF Ledger
<1> QED
  BY <1>11 DEF D, dq2, end

(* A loop of increments of instances that were not counted.                *)
LEMMA LedgerUp ==
    ASSUME NEW cells, NEW dq, NEW aq, NEW waiting, NEW C, NEW f,
           Ledger(cells, dq, aq, waiting, C, f),
           NEW fires, Once(fires), Fired(fires) \subseteq Inst, Fired(fires) \cap C = {}
    PROVE  LET end == FoldAll(cells, fires, 1) IN
           Ledger(end, dq, aq \cup ParkedUp(cells, end, fires), waiting,
                  C \cup Fired(fires), f)
<1> DEFINE end == FoldAll(cells, fires, 1)
           D == C \cup Fired(fires)
           aq2 == aq \cup ParkedUp(cells, end, fires)
           n(x, k) == Cardinality(Into(Fired(fires), x, k))
<1>1. /\ cells \in [Row -> Cell] /\ C \subseteq Inst /\ Counts(cells, C)
      /\ dq \subseteq OldOf(cells) /\ aq \subseteq Row
      /\ LossQueued(cells, dq, C, f) /\ GainQueued(cells, aq, waiting)
  BY DEF Ledger
<1>2. /\ end \in [Row -> Cell]
      /\ \A x \in Row :
            /\ end[x].nr = cells[x].nr + 1 * n(x, "kNonRecursive")
            /\ end[x].r = cells[x].r + 1 * n(x, "kRecursive")
            /\ n(x, "kNonRecursive") \in Nat /\ n(x, "kRecursive") \in Nat
            /\ end[x].f = cells[x].f \cup (IF x \in Heads(fires) THEN {"kTouched"} ELSE {})
            /\ x \notin Heads(fires) => end[x] = cells[x]
  BY <1>1, FoldEffect
<1>3. \A x \in Row : end[x].f = cells[x].f \cup {"kTouched"} \/ end[x].f = cells[x].f
  BY <1>2
<1>4. OldOf(end) = OldOf(cells)
  BY <1>3, TouchedCells
<1>5. Heads(fires) \subseteq Row
  BY HeadsAndAtoms DEF Heads, Fired
<1> HIDE DEF end
<1>6. Counts(end, D)
  <2>1. ASSUME NEW x \in Row
        PROVE  /\ end[x].nr = Cardinality(Into(D, x, "kNonRecursive")) + Explicit(end[x])
               /\ end[x].r = Cardinality(Into(D, x, "kRecursive"))
    <3>1. \A k : Cardinality(Into(D, x, k)) = Cardinality(Into(C, x, k)) + n(x, k)
      BY <1>1, IntoUnion
    <3>2. /\ cells[x].nr = Cardinality(Into(C, x, "kNonRecursive")) + Explicit(cells[x])
          /\ cells[x].r = Cardinality(Into(C, x, "kRecursive"))
      BY <1>1 DEF Counts
    <3>3. \A k : Cardinality(Into(C, x, k)) \in Nat
      BY <1>1, IntoFinite
    <3>4. Explicit(end[x]) = Explicit(cells[x]) /\ Explicit(cells[x]) \in Nat
      BY <1>3, TouchReads DEF Explicit
    <3>5. /\ end[x].nr = cells[x].nr + 1 * n(x, "kNonRecursive")
          /\ end[x].r = cells[x].r + 1 * n(x, "kRecursive")
          /\ n(x, "kNonRecursive") \in Nat /\ n(x, "kRecursive") \in Nat
      BY <1>2
    <3> HIDE DEF n, D
    <3> QED
      BY <3>1, <3>2, <3>3, <3>4, <3>5
  <2> QED
    BY <2>1 DEF Counts
<1>7. \A x \in Row : cells[x].nr <= end[x].nr
  <2>1. ASSUME NEW x \in Row
        PROVE  cells[x].nr <= end[x].nr
    <3>1. cells[x].nr \in Int
      BY <1>1 DEF Cell
    <3>2. /\ end[x].nr = cells[x].nr + 1 * n(x, "kNonRecursive")
          /\ n(x, "kNonRecursive") \in Nat
      BY <1>2
    <3> HIDE DEF n
    <3> QED
      BY <3>1, <3>2
  <2> QED
    BY <2>1
<1>8. LossQueued(end, dq, D, f)
  <2>1. SUFFICES ASSUME NEW x \in Row,
                        SurvivesSoFar(end[x]), end[x].nr <= 0, x \notin dq
                 PROVE  /\ \A i \in Inst : i.head = x /\ Holds(i, OldOf(end)) => i \in D
                        /\ x \in f => "kExplicit" \in end[x].f
    BY DEF LossQueued
  <2>2. SurvivesSoFar(cells[x]) /\ ("kExplicit" \in cells[x].f => "kExplicit" \in end[x].f)
    BY <1>3, <2>1, TouchReads
  <2>3. cells[x].nr <= 0
    <3>1. cells[x].nr \in Int /\ end[x].nr \in Int
      BY <1>1, <1>2 DEF Cell
    <3> QED
      BY <1>7, <2>1, <3>1
  <2> QED
    BY <1>1, <1>4, <2>1, <2>2, <2>3 DEF LossQueued
<1>9. GainQueued(end, aq2, waiting)
  <2>1. ASSUME NEW x \in Row, Total(end[x]) > 0
        PROVE  InNew(end[x]) \/ x \in aq2 \/ x \in waiting
    <3>1. CASE Total(cells[x]) > 0
      BY <1>1, <1>3, <3>1, TouchReads DEF GainQueued
    <3>2. CASE ~(Total(cells[x]) > 0)
      <4>1. Total(cells[x]) <= 0
        BY <1>1, <3>2 DEF Cell, Total
      <4>2. x \in Heads(fires)
        BY <1>2, <2>1, <3>2
      <4> QED
        BY <2>1, <4>1, <4>2 DEF ParkedUp, CrossedUp
    <3> QED
      BY <3>1, <3>2
  <2> QED
    BY <2>1 DEF GainQueued
<1>11. aq2 \subseteq Row
  BY <1>1, <1>5 DEF ParkedUp
<1> HIDE DEF D, aq2
<1>12. Ledger(end, dq, aq2, waiting, D, f)
  <2>1. D \subseteq Inst
    BY <1>1 DEF D
  <2> QED
    BY <1>1, <1>2, <1>4, <1>6, <1>8, <1>9, <1>11, <2>1 DEF Ledger
<1> QED
  BY <1>12 DEF D, aq2, end

-----------------------------------------------------------------------------
(* The flags of a stored row. *)
FlagsOf(c) ==
    /\ "kDel" \in c.f => "kInI" \in c.f
    /\ c.f \cap ScratchFlags # {} => "kTouched" \in c.f

(* What the flags of a row say of it.                                      *)
LEMMA NetReads ==
    ASSUME NEW c, FlagsOf(c)
    PROVE  /\ NetDeleted(c) <=> InI(c) /\ ~InNew(c)
           /\ NetAdded(c) <=> InNew(c) /\ ~InI(c)
           /\ c.f \cap {"kDel", "kAdd"} = {} => (InNew(c) <=> InI(c))
BY DEF FlagsOf, NetDeleted, NetAdded, InI, InNew, SurvivesSoFar

(* A claim or a retirement moves flags only.                               *)
LEMMA FlagMoves ==
    ASSUME NEW c \in Cell
    PROVE  /\ ClaimDel(c) \in Cell /\ ClaimDel(c).nr = c.nr /\ ClaimDel(c).r = c.r
           /\ ClaimDel(c).f = c.f \cup {"kTouched", "kDel", "kDelNow"}
           /\ ClaimAdd(c) \in Cell /\ ClaimAdd(c).nr = c.nr /\ ClaimAdd(c).r = c.r
           /\ ClaimAdd(c).f = c.f \cup {"kTouched", "kAdd", "kAddNow"}
           /\ RetireDel(c) \in Cell /\ RetireDel(c).nr = c.nr /\ RetireDel(c).r = c.r
           /\ RetireDel(c).f = c.f \ {"kDelNow"}
           /\ RetireAdd(c) \in Cell /\ RetireAdd(c).nr = c.nr /\ RetireAdd(c).r = c.r
           /\ RetireAdd(c).f = c.f \ {"kAddNow"}
<1>1. c = [nr |-> c.nr, r |-> c.r, f |-> c.f] /\ c.nr \in Int /\ c.r \in Int /\ c.f \in SUBSET RowFlags
  BY DEF Cell
<1>2. Touch(c) = [nr |-> c.nr, r |-> c.r, f |-> c.f \cup {"kTouched"}]
  BY <1>1 DEF Touch
<1>3. ClaimDel(c) = [nr |-> c.nr, r |-> c.r, f |-> (c.f \cup {"kTouched"}) \cup {"kDel", "kDelNow"}]
  <2> DEFINE F == c.f \cup {"kTouched"}
  <2>1. Touch(c) = [nr |-> c.nr, r |-> c.r, f |-> F]
    BY <1>2
  <2> HIDE DEF F
  <2>2. ClaimDel(c) = [nr |-> c.nr, r |-> c.r, f |-> F \cup {"kDel", "kDelNow"}]
    BY <2>1 DEF ClaimDel
  <2> QED
    BY <2>2 DEF F
<1>4. ClaimAdd(c) = [nr |-> c.nr, r |-> c.r, f |-> (c.f \cup {"kTouched"}) \cup {"kAdd", "kAddNow"}]
  <2> DEFINE F == c.f \cup {"kTouched"}
  <2>1. Touch(c) = [nr |-> c.nr, r |-> c.r, f |-> F]
    BY <1>2
  <2> HIDE DEF F
  <2>2. ClaimAdd(c) = [nr |-> c.nr, r |-> c.r, f |-> F \cup {"kAdd", "kAddNow"}]
    BY <2>1 DEF ClaimAdd
  <2> QED
    BY <2>2 DEF F
<1>5. RetireDel(c) = [nr |-> c.nr, r |-> c.r, f |-> c.f \ {"kDelNow"}]
  BY <1>1 DEF RetireDel
<1>6. RetireAdd(c) = [nr |-> c.nr, r |-> c.r, f |-> c.f \ {"kAddNow"}]
  BY <1>1 DEF RetireAdd
<1>7. {"kTouched", "kDel", "kDelNow", "kAdd", "kAddNow"} \subseteq RowFlags
  BY DEF RowFlags
<1>8. /\ (c.f \cup {"kTouched"}) \cup {"kDel", "kDelNow"} \in SUBSET RowFlags
      /\ (c.f \cup {"kTouched"}) \cup {"kAdd", "kAddNow"} \in SUBSET RowFlags
      /\ c.f \ {"kDelNow"} \in SUBSET RowFlags
      /\ c.f \ {"kAddNow"} \in SUBSET RowFlags
      /\ (c.f \cup {"kTouched"}) \cup {"kDel", "kDelNow"} = c.f \cup {"kTouched", "kDel", "kDelNow"}
      /\ (c.f \cup {"kTouched"}) \cup {"kAdd", "kAddNow"} = c.f \cup {"kTouched", "kAdd", "kAddNow"}
  BY <1>1, <1>7
<1>9. ClaimDel(c) \in Cell /\ ClaimAdd(c) \in Cell /\ RetireDel(c) \in Cell /\ RetireAdd(c) \in Cell
  BY <1>1, <1>3, <1>4, <1>5, <1>6, <1>8 DEF Cell
<1>10. /\ ClaimDel(c).nr = c.nr /\ ClaimDel(c).r = c.r
       /\ ClaimDel(c).f = c.f \cup {"kTouched", "kDel", "kDelNow"}
  BY <1>3, <1>8
<1>11. /\ ClaimAdd(c).nr = c.nr /\ ClaimAdd(c).r = c.r
       /\ ClaimAdd(c).f = c.f \cup {"kTouched", "kAdd", "kAddNow"}
  BY <1>4, <1>8
<1>12. /\ RetireDel(c).nr = c.nr /\ RetireDel(c).r = c.r
       /\ RetireDel(c).f = c.f \ {"kDelNow"}
       /\ RetireAdd(c).nr = c.nr /\ RetireAdd(c).r = c.r
       /\ RetireAdd(c).f = c.f \ {"kAddNow"}
  BY <1>5, <1>6
<1> QED
  BY <1>9, <1>10, <1>11, <1>12

(* b is a with the flags F put on the rows of S. *)
Marked(a, b, S, F) ==
    /\ b \in [Row -> Cell]
    /\ \A x \in Row : /\ b[x].nr = a[x].nr /\ b[x].r = a[x].r
                      /\ x \in S => b[x].f = a[x].f \cup F
                      /\ x \notin S => b[x] = a[x]

(* What retiring the frontier of a round leaves.                           *)
Unmarked(a, b, S, F) ==
    /\ b \in [Row -> Cell]
    /\ \A x \in Row : /\ b[x].nr = a[x].nr /\ b[x].r = a[x].r
                      /\ x \in S => b[x].f = a[x].f \ F
                      /\ x \notin S => b[x] = a[x]

(* What a sweep leaves of a row.                                           *)
LEMMA SweepMoves ==
    ASSUME NEW c \in Cell, FlagsOf(c), Total(c) > 0 <=> InNew(c),
           NEW e, e = IF "kTouched" \in c.f THEN CommitRow(c) ELSE c
    PROVE  /\ e \in Cell /\ e.nr = c.nr /\ e.r = c.r
           /\ e.f \subseteq {"kInI", "kExplicit"}
           /\ "kExplicit" \in e.f <=> "kExplicit" \in c.f
           /\ InI(e) <=> InNew(c)
           /\ InNew(e) <=> InNew(c)
<1>1. c.f \subseteq RowFlags /\ c.nr \in Int /\ c.r \in Int
      /\ c = [nr |-> c.nr, r |-> c.r, f |-> c.f]
  BY DEF Cell
<1>2. CASE "kTouched" \in c.f
  <2> DEFINE s == (c.f \ (ScratchFlags \cup {"kInI"})) \cup (IF Total(c) > 0 THEN {"kInI"} ELSE {})
  <2>1. e = [nr |-> c.nr, r |-> c.r, f |-> s]
    BY <1>1, <1>2 DEF CommitRow
  <2>2. /\ s \subseteq RowFlags /\ s \subseteq {"kInI", "kExplicit"}
        /\ "kExplicit" \in s <=> "kExplicit" \in c.f
        /\ "kInI" \in s <=> Total(c) > 0
    BY <1>1 DEF RowFlags, ScratchFlags
  <2> HIDE DEF s
  <2>3. e \in Cell /\ e.nr = c.nr /\ e.r = c.r /\ e.f = s
    <3>1. c.nr \in Int /\ c.r \in Int /\ s \in SUBSET RowFlags
      BY <1>1, <2>2
    <3>2. e \in Cell
      BY <2>1, <3>1 DEF Cell
    <3> QED
      BY <2>1, <3>2
  <2>4. InI(e) <=> Total(c) > 0
    BY <2>2, <2>3 DEF InI
  <2>5. "kDel" \notin e.f /\ "kAdd" \notin e.f
    BY <2>2, <2>3
  <2>6. InNew(e) <=> InI(e)
    BY <2>5 DEF InI, InNew, SurvivesSoFar
  <2> QED
    BY <2>2, <2>3, <2>4, <2>6
<1>3. CASE "kTouched" \notin c.f
  <2>1. e = c /\ c.f \cap ScratchFlags = {}
    BY <1>3 DEF FlagsOf
  <2>2. c.f \subseteq {"kInI", "kExplicit"}
    BY <1>1, <2>1 DEF RowFlags, ScratchFlags
  <2> QED
    BY <2>1, <2>2 DEF InI, InNew, SurvivesSoFar
<1> QED
  BY <1>2, <1>3

Touched(cells, end) ==
    \A x \in Row : end[x].f = cells[x].f \cup {"kTouched"} \/ end[x].f = cells[x].f

(* A loop of folds moves no flag but kTouched.                             *)
LEMMA FoldTouches ==
    ASSUME NEW cells \in [Row -> Cell], NEW fires, NEW d \in {-1, 1},
           Once(fires), Fired(fires) \subseteq Inst
    PROVE  Touched(cells, FoldAll(cells, fires, d))
BY FoldEffect DEF Touched

(* Two loops of folds in a row do not either.                              *)
LEMMA TouchedTwice ==
    ASSUME NEW a, NEW b, NEW c, Touched(a, b), Touched(b, c)
    PROVE  Touched(a, c)
BY DEF Touched
=============================================================================
