----------------------------- MODULE EpochProofs -----------------------------
(***************************************************************************)
(* The entry procedure is correct for every program whose recursive rows   *)
(* have one seed: the invariant holds in every state, and with it the      *)
(* exactness of the counters and the view, the finality of lower strata,   *)
(* the contract of the drains and the refinement of view maintenance.      *)
(* The bands of a stratum come first, then its drains and the rounds of    *)
(* its SCCs, then what is true of a whole epoch.                           *)
(***************************************************************************)
EXTENDS EpochInvariant

(***************************************************************************)
(* The bands of a stratum: seed loops, join sections, crossovers, product  *)
(* arms.  Each step fires exactly the instances whose count it moves on.   *)
(***************************************************************************)

(* Strata and SCC groups are numbers.                                      *)
LEMMA LevelType ==
    ASSUME NEW x \in Row
    PROVE  Level(x) \in Nat /\ Group(x) \in Nat
BY ProgramFinite DEF Level, Group

(* A row that is neither drained nor in its rounds is as it was.           *)
LEMMA FreshSame ==
    ASSUME FlagsOk, NEW x \in Row,
           ~Drained(x, phase, stratum, todo), ~Open(x, phase, todo)
    PROVE  x \in Now <=> x \in Old
BY NetReads DEF FlagsOk, Now, Old, NowOf, OldOf

(* In the bands, the drained rows are the lower ones, and the frontiers    *)
(* are the whole difference between then and now.                          *)
LEMMA BandDrained ==
    ASSUME phase \in Bands, stratum \in Nat, NEW x \in Row, NEW td
    PROVE  /\ Drained(x, phase, stratum, td) <=> Level(x) < stratum
           /\ ~Open(x, phase, td)
BY LevelType DEF Drained, Open, Bands, Settling, Rounds

(* The frontiers of a band are the two differences of the models.          *)
LEMMA BandFrontiers ==
    ASSUME FlagsOk, VectorsOk, phase \in Bands, stratum \in Nat
    PROVE  netRem = Old \ Now /\ netAdd = Now \ Old
<1>1. ASSUME NEW x \in Row
      PROVE  /\ x \in netRem <=> x \in Old /\ x \notin Now
             /\ x \in netAdd <=> x \in Now /\ x \notin Old
  <2>1. FlagsOf(cell[x]) /\ ~Open(x, phase, todo)
    BY BandDrained DEF FlagsOk
  <2>2. CASE Drained(x, phase, stratum, todo)
    BY <2>1, <2>2, NetReads DEF VectorsOk, Now, Old, NowOf, OldOf
  <2>3. CASE ~Drained(x, phase, stratum, todo)
    BY <2>1, <2>3, FreshSame DEF VectorsOk
  <2> QED
    BY <2>2, <2>3
<1>2. netRem \subseteq Row /\ netAdd \subseteq Row /\ Old \subseteq Row /\ Now \subseteq Row
  BY DEF VectorsOk, Old, OldOf, Now, NowOf
<1> QED
  BY <1>1, <1>2

-----------------------------------------------------------------------------
(* What is counted. *)

(* Where every row read is the same then and now, counting is holding.     *)
LEMMA CountedSteady ==
    ASSUME NEW i \in Inst, NEW old, NEW now, NEW ph, NEW st, NEW td,
           \A y \in BodyRows(i) \cup i.neg : y \in now <=> y \in old
    PROVE  Counted(i, old, now, ph, st, td) <=> Holds(i, old)
<1>1. BodyRows(i) \subseteq old <=> \A p \in DOMAIN i.body : i.body[p] \in old
  BY DEF BodyRows
<1>2. \A p \in DOMAIN i.body : i.body[p] \in BodyRows(i)
  BY DEF BodyRows
<1>3. \A p \in DOMAIN i.body : i.body[p] \in (IF BodyNow(i, p, ph, st, td) THEN now ELSE old)
                                  <=> i.body[p] \in old
  BY <1>2
<1>4. \A y \in i.neg : y \notin (IF NegNow(i, ph, st, td) THEN now ELSE old) <=> y \notin old
  OBVIOUS
<1> QED
  BY <1>1, <1>3, <1>4 DEF Counted, Holds

(* Work done moves an instance out of the count or in, and into it only    *)
(* if it does not hold in the old model.                                   *)
LEMMA CountGrows ==
    ASSUME NEW i \in Inst, NEW old, NEW now, NEW ph, NEW st, NEW td, NEW td2 \in SUBSET td,
           ~Counted(i, old, now, ph, st, td), Counted(i, old, now, ph, st, td2)
    PROVE  ~Holds(i, old)
<1> SUFFICES ASSUME Holds(i, old) PROVE FALSE
  OBVIOUS
<1>1. \A p \in DOMAIN i.body : i.body[p] \in old
  BY DEF Holds, BodyRows
<1>2. \A p : BodyNow(i, p, ph, st, td) => BodyNow(i, p, ph, st, td2)
  BY DEF BodyNow
<1>3. NegNow(i, ph, st, td) => NegNow(i, ph, st, td2)
  BY DEF NegNow
<1>4. \A y \in i.neg : y \notin old
  BY DEF Holds
<1> QED
  BY <1>1, <1>2, <1>3, <1>4 DEF Counted

(* The count of what is emitted below does not depend on the work in hand. *)
LEMMA CountBelow ==
    ASSUME NEW i \in Inst, NEW old, NEW now, NEW ph, NEW st \in Nat, NEW td, i.at < st
    PROVE  Counted(i, old, now, ph, st, td) <=> Holds(i, now)
<1>1. \A p : BodyNow(i, p, ph, st, td)
  BY DEF BodyNow
<1>2. NegNow(i, ph, st, td)
  BY DEF NegNow
<1> QED
  BY <1>1, <1>2 DEF Counted, Holds, BodyRows

(* Before its SCC is drained, an instance that only the rounds fire is     *)
(* counted iff it held.                                                    *)
LEMMA UnseededSteady ==
    ASSUME FlagsOk, phase \in Bands, stratum \in Nat,
           NEW i \in Inst, Group(i.head) # 0, ~Seeded(i), stratum <= Level(i.head),
           NEW td
    PROVE  Counted(i, Old, Now, phase, stratum, td) <=> Holds(i, Old)
<1>1. i.neg = {} /\ \A y \in BodyRows(i) : SameScc(i.head, y)
  BY DEF Seeded, RoundsOnly, AllSidesSameScc
<1>2. ASSUME NEW y \in BodyRows(i)
      PROVE  y \in Now <=> y \in Old
  <2>1. y \in Row /\ i.head \in Row
    BY HeadsAndAtoms
  <2>2. Level(y) = Level(i.head)
    BY <1>1, <2>1, ProgramFinite DEF Level
  <2>3. ~(Level(y) < stratum)
    BY <2>1, <2>2, LevelType
  <2> QED
    BY <2>1, <2>3, BandDrained, FreshSame
<1> QED
  BY <1>1, <1>2, CountedSteady

(* One step of a band that fires what it moves on keeps the ledger.        *)
LEMMA BandStep ==
    ASSUME Typed, LedgerOk, phase \in Bands,
           NEW td \in SUBSET todo, NEW minus, NEW plus, Once(minus), Once(plus),
           Fired(minus) = Count \ CountedBy(Old, Now, phase, stratum, td),
           Fired(plus) = CountedBy(Old, Now, phase, stratum, td) \ Count,
           FoldMinusPlus(minus, plus) \/ FoldPlusMinus(plus, minus)
    PROVE  /\ Ledger(cell', delQ', addQ', {}, CountedBy(Old, Now, phase, stratum, td), facts)
           /\ Touched(cell, cell')
<1> DEFINE C2 == CountedBy(Old, Now, phase, stratum, td)
           L(cells, dq, aq, C) == Ledger(cells, dq, aq, {}, C, facts)
<1>1. Waiting(cell, phase, todo) = {}
  BY DEF Waiting, Bands
<1>2. L(cell, delQ, addQ, Count)
  BY <1>1 DEF LedgerOk
<1>3. /\ Count \subseteq Inst /\ C2 \subseteq Inst /\ stratum \in Nat
      /\ cell \in [Row -> Cell] /\ Counts(cell, Count)
  BY <1>2, LastStratumIsLast DEF Count, CountedBy, Typed, Ledger
<1>4. /\ Fired(minus) \subseteq Count /\ Fired(minus) \subseteq Inst
      /\ Fired(plus) \subseteq Inst /\ Fired(plus) \cap Count = {}
      /\ (Count \ Fired(minus)) \cup Fired(plus) = C2
      /\ (Count \cup Fired(plus)) \ Fired(minus) = C2
      /\ Fired(plus) \cap (Count \ Fired(minus)) = {}
      /\ Fired(minus) \subseteq Count \cup Fired(plus)
      /\ Fired(plus) \subseteq C2
  BY <1>3
<1>7. CASE FoldMinusPlus(minus, plus)
  <2> DEFINE mid == FoldAll(cell, minus, -1)
             end == FoldAll(mid, plus, 1)
  <2>1. L(mid, delQ \cup ParkedDown(cell, mid, minus), addQ, Count \ Fired(minus))
    BY <1>2, <1>4, LedgerDown
  <2>2. Touched(cell, mid)
    BY <1>3, <1>4, FoldTouches
  <2> HIDE DEF mid
  <2>3. mid \in [Row -> Cell] /\ Counts(mid, Count \ Fired(minus))
    BY <2>1 DEF Ledger
  <2>5. L(end, delQ \cup ParkedDown(cell, mid, minus), addQ \cup ParkedUp(mid, end, plus),
          (Count \ Fired(minus)) \cup Fired(plus))
    BY <1>4, <2>1, LedgerUp
  <2>6. Touched(mid, end)
    BY <1>4, <2>3, FoldTouches
  <2>7. Touched(cell, end)
    BY <2>2, <2>6, TouchedTwice
  <2>8. /\ cell' = end
        /\ delQ' = delQ \cup ParkedDown(cell, mid, minus)
        /\ addQ' = addQ \cup ParkedUp(mid, end, plus)
    BY <1>7 DEF FoldMinusPlus, mid
  <2> QED
    BY <1>4, <2>5, <2>7, <2>8
<1>8. CASE FoldPlusMinus(plus, minus)
  <2> DEFINE mid == FoldAll(cell, plus, 1)
             end == FoldAll(mid, minus, -1)
  <2>2. L(mid, delQ, addQ \cup ParkedUp(cell, mid, plus), Count \cup Fired(plus))
    BY <1>2, <1>4, LedgerUp
  <2>3. Touched(cell, mid)
    BY <1>3, <1>4, FoldTouches
  <2> HIDE DEF mid
  <2>4. mid \in [Row -> Cell]
    BY <2>2 DEF Ledger
  <2>5. L(end, delQ \cup ParkedDown(mid, end, minus), addQ \cup ParkedUp(cell, mid, plus),
          (Count \cup Fired(plus)) \ Fired(minus))
    BY <1>4, <2>2, LedgerDown
  <2>6. Touched(mid, end)
    BY <1>4, <2>4, FoldTouches
  <2>7. Touched(cell, end)
    BY <2>3, <2>6, TouchedTwice
  <2>8. /\ cell' = end
        /\ delQ' = delQ \cup ParkedDown(mid, end, minus)
        /\ addQ' = addQ \cup ParkedUp(cell, mid, plus)
    BY <1>8 DEF FoldPlusMinus, mid
  <2> QED
    BY <1>4, <2>5, <2>7, <2>8
<1> QED
  BY <1>7, <1>8

(* The rest of the invariant does not see a touch.                         *)
LEMMA BandKeeps ==
    ASSUME Inv, phase \in Bands, NEW td \in SUBSET todo,
           Touched(cell, cell'), todo' = td,
           UNCHANGED <<overdeleted, added, netRem, netAdd, batch, facts, phase, stratum>>,
           Ledger(cell', delQ', addQ', {}, CountedBy(Old, Now, phase, stratum, td), facts),
           phase = "product" =>
               \A a \in td : \A e \in ProductWork(stratum) :
                  e[1] = a[1] /\ a[2] <= e[2] => e \in td
    PROVE  Inv'
<1>1. Old' = Old /\ Now' = Now
  BY TouchedCells DEF Touched, Old, Now
<1>2. Typed' /\ stratum \in Nat /\ phase' \in Bands /\ phase \notin {"idle", "ingest"} \cup Rounds
      /\ phase \notin {"scc", "commit"}
  BY LastStratumIsLast DEF Inv, Typed, Bands, Rounds
<1>3. \A x \in Row : Drained(x, phase', stratum', todo') <=> Drained(x, phase, stratum, todo)
  BY <1>2, BandDrained
<1>4. \A x \in Row : ~Open(x, phase, todo) /\ ~Open(x, phase', todo')
  BY <1>2, BandDrained
<1>5. WorkOk'
  <2>1. WorkOk
    BY DEF Inv
  <2>2. ProductWork(stratum)' = ProductWork(stratum) /\ NegationsAt(stratum)' = NegationsAt(stratum)
        /\ BranchesAt(stratum)' = BranchesAt(stratum)
    BY DEF ProductWork, NegationsAt, BranchesAt
  <2> QED
    BY <1>1, <1>2, <2>1, <2>2 DEF WorkOk
<1>6. ASSUME NEW x \in Row
      PROVE  /\ NetDeleted(cell'[x]) = NetDeleted(cell[x]) /\ NetAdded(cell'[x]) = NetAdded(cell[x])
             /\ \A g \in RowFlags \ {"kTouched"} : g \in cell'[x].f <=> g \in cell[x].f
             /\ FlagsOf(cell[x]) => FlagsOf(cell'[x])
  <2>1. cell'[x].f = cell[x].f \cup {"kTouched"} \/ cell'[x].f = cell[x].f
    BY DEF Touched
  <2>2. /\ NetDeleted(cell'[x]) = NetDeleted(cell[x]) /\ NetAdded(cell'[x]) = NetAdded(cell[x])
        /\ \A g \in RowFlags \ {"kTouched"} : g \in cell'[x].f <=> g \in cell[x].f
    BY <2>1, TouchReads
  <2>3. FlagsOf(cell[x]) => FlagsOf(cell'[x])
    BY <2>1 DEF FlagsOf, ScratchFlags
  <2> QED
    BY <2>2, <2>3
<1>7. FlagsOk'
  <2>1. ASSUME NEW x \in Row
        PROVE  /\ FlagsOf(cell'[x])
               /\ Group(x) # 0 => cell'[x].f \cap {"kDelNow", "kAddNow"} = {}
               /\ ~Drained(x, phase', stratum', todo') /\ ~Open(x, phase', todo') =>
                      cell'[x].f \cap {"kDel", "kAdd"} = {}
               /\ "kExplicit" \in cell'[x].f <=> x \in NewFacts'
    <3>1. /\ FlagsOf(cell[x])
          /\ Group(x) # 0 => cell[x].f \cap {"kDelNow", "kAddNow"} = {}
          /\ ~Drained(x, phase, stratum, todo) /\ ~Open(x, phase, todo) =>
                      cell[x].f \cap {"kDel", "kAdd"} = {}
          /\ "kExplicit" \in cell[x].f <=> x \in NewFacts
      BY <1>2 DEF Inv, FlagsOk
    <3>2. NewFacts' = NewFacts
      BY DEF NewFacts
    <3>3. \A g \in {"kDel", "kAdd", "kDelNow", "kAddNow", "kExplicit"} :
              g \in cell'[x].f <=> g \in cell[x].f
      BY <1>6 DEF RowFlags
    <3> QED
      BY <1>3, <1>4, <1>6, <3>1, <3>2, <3>3
  <2> QED
    BY <1>2, <1>4, <2>1 DEF FlagsOk
<1>8. VectorsOk'
  <2>1. \A x \in Row : /\ "kDel" \in cell'[x].f <=> "kDel" \in cell[x].f
                       /\ "kAdd" \in cell'[x].f <=> "kAdd" \in cell[x].f
    BY <1>6 DEF RowFlags
  <2> QED
    BY <1>3, <1>6, <2>1 DEF Inv, VectorsOk
<1>9. LedgerOk'
  <2>1. Waiting(cell', phase', todo') = {}
    BY <1>4 DEF Waiting
  <2>2. Count' = CountedBy(Old, Now, phase, stratum, td)
    BY <1>1 DEF Count
  <2> QED
    BY <1>2, <2>1, <2>2 DEF LedgerOk, Rounds
<1>10. ModelsOk'
  <2>1. Target' = Target
    BY DEF Target
  <2> QED
    BY <1>1, <1>2, <1>3, <2>1 DEF Inv, ModelsOk, Rounds
<1> QED
  BY <1>2, <1>5, <1>7, <1>8, <1>9, <1>10 DEF Inv

-----------------------------------------------------------------------------
(* The shapes of the instances.                                            *)
LEMMA ChainShape ==
    ASSUME NEW i \in Inst, i.kind = "chain"
    PROVE  /\ DOMAIN i.body = {1} /\ BodyRows(i) = {i.body[1]} /\ i.body[1] \in Row
           /\ \A y, z \in i.neg : y = z
<1>1. i.body \in Seq(Row) /\ Len(i.body) = 1 /\ Cardinality(i.neg) <= 1
  BY InstancesTyped, ProgramWellFormed
<1>2. DOMAIN i.body = {1}
  BY <1>1
<1>3. BodyRows(i) = {i.body[1]} /\ i.body[1] \in Row
  BY <1>1, <1>2 DEF BodyRows
<1>4. IsFiniteSet(i.neg) /\ Cardinality(i.neg) \in Nat
  BY InstancesTyped, ProgramFinite, FS_Subset, FS_CardinalityType
<1>5. ASSUME NEW y \in i.neg, NEW z \in i.neg
      PROVE  y = z
  <2>1. Cardinality(i.neg) # 0
    BY <1>4, FS_EmptySet
  <2>2. Cardinality(i.neg) = 1
    BY <1>1, <1>4, <2>1
  <2>3. PICK w : i.neg = {w}
    BY <1>4, <2>2, FS_Singleton
  <2> QED
    BY <2>3
<1> QED
  BY <1>2, <1>3, <1>5

(* A join or a product has no negated row, and its body is a sequence of   *)
(* rows.                                                                   *)
LEMMA OtherShape ==
    ASSUME NEW i \in Inst, i.kind # "chain"
    PROVE  i.neg = {} /\ DOMAIN i.body \subseteq Nat \ {0} /\ i.body \in [DOMAIN i.body -> Row]
<1>1. i.body \in Seq(Row) /\ i.neg = {}
  BY InstancesTyped, ProgramWellFormed
<1> QED
  BY <1>1

(* The instances of a rule that is emitted at a stratum are all chains,    *)
(* emitted there.                                                          *)
LEMMA RuleShape ==
    ASSUME NEW i \in Inst, NEW j \in Inst, i.rule = j.rule
    PROVE  i.kind = j.kind /\ i.at = j.at
BY InstancesTyped

(* Instances that are all fired at position 1 are fired once.              *)
LEMMA FiredFirst ==
    ASSUME NEW A
    PROVE  Fired({<<i, 1>> : i \in A}) = A /\ Once({<<i, 1>> : i \in A})
<1> DEFINE F == {<<i, 1>> : i \in A}
<1>1. \A i \in A : <<i, 1>> \in F /\ <<i, 1>>[1] = i
  OBVIOUS
<1>2. \A e \in F : e[1] \in A /\ e = <<e[1], 1>>
  OBVIOUS
<1> HIDE DEF F
<1>3. \A i \in A : i \in Fired(F)
  BY <1>1 DEF Fired
<1>4. \A i \in Fired(F) : i \in A
  BY <1>2 DEF Fired
<1>5. Once(F)
  BY <1>2 DEF Once
<1> QED
  BY <1>3, <1>4, <1>5 DEF F

(* The seed loops of a branch fire what its source gains and loses.        *)
LEMMA SeedMoves ==
    ASSUME Inv, phase = "seed", NEW b \in todo
    PROVE  LET C2 == CountedBy(Old, Now, phase, stratum, todo \ {b}) IN
           /\ Fired(SeedFires(b, netRem)) = Count \ C2
           /\ Fired(SeedFires(b, netAdd)) = C2 \ Count
           /\ Once(SeedFires(b, netRem)) /\ Once(SeedFires(b, netAdd))
<1> DEFINE td == todo \ {b}
           C2 == CountedBy(Old, Now, phase, stratum, td)
<1>1. netRem = Old \ Now /\ netAdd = Now \ Old /\ stratum \in Nat
  BY BandFrontiers, LastStratumIsLast DEF Inv, Typed, Bands
<1>2. PICK k \in Inst : k.kind = "chain" /\ k.at = stratum /\ k.rule = b
  BY DEF Inv, WorkOk, BranchesAt
<1>3. ASSUME NEW i \in Inst, i.rule # b
      PROVE  i \in Count <=> i \in C2
  <2>1. \A p : BodyNow(i, p, phase, stratum, todo) <=> BodyNow(i, p, phase, stratum, td)
    BY <1>3 DEF BodyNow, Settling, Rounds
  <2>2. NegNow(i, phase, stratum, todo) <=> NegNow(i, phase, stratum, td)
    BY <1>3 DEF NegNow
  <2> QED
    BY <2>1, <2>2 DEF Count, CountedBy, Counted
<1>4. ASSUME NEW i \in Inst, i.rule = b
      PROVE  /\ i \in Count <=> i.body[1] \in Old /\ i.neg \cap Old = {}
             /\ i \in C2 <=> i.body[1] \in Now /\ i.neg \cap Old = {}
             /\ SeedGate(i) <=> i.neg \cap Old = {}
  <2>1. i.kind = "chain" /\ i.at = stratum /\ DOMAIN i.body = {1}
    BY <1>2, <1>4, RuleShape, ChainShape
  <2>2. ~BodyNow(i, 1, phase, stratum, todo) /\ BodyNow(i, 1, phase, stratum, td)
    BY <1>1, <1>4, <2>1 DEF BodyNow, Settling, Rounds
  <2>3. ~NegNow(i, phase, stratum, todo) /\ ~NegNow(i, phase, stratum, td)
    BY <1>1, <2>1 DEF NegNow, Settling, Rounds
  <2>4. i.neg \subseteq Row
    BY HeadsAndAtoms
  <2>5. SeedGate(i) <=> i.neg \cap Old = {}
    BY <2>4 DEF SeedGate, Old, OldOf
  <2> QED
    BY <2>1, <2>2, <2>3, <2>5 DEF Count, CountedBy, Counted
<1>5. Once(SeedFires(b, netRem)) /\ Once(SeedFires(b, netAdd))
  BY FiredFirst DEF SeedFires
<1>6. \A front : Fired(SeedFires(b, front))
          = {j \in Inst : j.rule = b /\ j.body[1] \in front /\ SeedGate(j)}
  BY FiredFirst DEF SeedFires
<1>7. Count \subseteq Inst /\ C2 \subseteq Inst
  BY DEF Count, CountedBy
<1> HIDE DEF C2
<1>8. Fired(SeedFires(b, netRem)) = Count \ C2
  BY <1>1, <1>3, <1>4, <1>6, <1>7
<1>9. Fired(SeedFires(b, netAdd)) = C2 \ Count
  BY <1>1, <1>3, <1>4, <1>6, <1>7
<1> QED
  BY <1>5, <1>8, <1>9 DEF C2

(* A seed loop keeps the invariant.                                        *)
LEMMA SeedPreserves ==
    ASSUME Inv, NEW b, Seed(b)
    PROVE  Inv'
<1>1. /\ phase = "seed" /\ b \in todo /\ todo' = todo \ {b} /\ phase \in Bands
      /\ FoldMinusPlus(SeedFires(b, netRem), SeedFires(b, netAdd))
      /\ UNCHANGED <<overdeleted, added, netRem, netAdd, batch, facts, phase, stratum>>
  BY DEF Seed, Bands
<1>2. /\ Ledger(cell', delQ', addQ', {},
                CountedBy(Old, Now, phase, stratum, todo \ {b}), facts)
      /\ Touched(cell, cell')
  BY <1>1, SeedMoves, BandStep DEF Inv
<1> QED
  BY <1>1, <1>2, BandKeeps

(* The sections of a delta join, read on the flags, are the two ways its   *)
(* combination can change.                                                 *)
LEMMA SectionReads ==
    ASSUME FlagsOk, NEW i \in Inst
    PROVE  /\ InAddedSection(i) <=> BodyRows(i) \subseteq Now /\ ~(BodyRows(i) \subseteq Old)
           /\ InRemovedSection(i) <=> BodyRows(i) \subseteq Old /\ ~(BodyRows(i) \subseteq Now)
<1>1. BodyRows(i) \subseteq Row
  BY HeadsAndAtoms
<1>2. \A y \in BodyRows(i) : /\ NetDeleted(cell[y]) <=> InI(cell[y]) /\ ~InNew(cell[y])
                             /\ NetAdded(cell[y]) <=> InNew(cell[y]) /\ ~InI(cell[y])
                             /\ y \in Now <=> InNew(cell[y])
                             /\ y \in Old <=> InI(cell[y])
  BY <1>1, NetReads DEF FlagsOk, Now, NowOf, Old, OldOf
<1> QED
  BY <1>2 DEF InAddedSection, InRemovedSection

(* The section of a combination is the way its count moves.                *)
LEMMA JoinMoves ==
    ASSUME Inv, phase = "join", NEW i \in todo
    PROVE  LET C2 == CountedBy(Old, Now, phase, stratum, todo \ {i}) IN
           /\ InAddedSection(i) => Count \ C2 = {} /\ C2 \ Count = {i}
           /\ ~InAddedSection(i) => Count \ C2 = {i} /\ C2 \ Count = {}
<1> DEFINE td == todo \ {i}
           C2 == CountedBy(Old, Now, phase, stratum, td)
<1>1. /\ i \in Inst /\ i.kind = "join" /\ i.at = stratum /\ stratum \in Nat
      /\ (BodyRows(i) \subseteq Now) # (BodyRows(i) \subseteq Old)
  BY LastStratumIsLast DEF Inv, WorkOk, Typed
<1>2. InAddedSection(i) <=> BodyRows(i) \subseteq Now /\ ~(BodyRows(i) \subseteq Old)
  BY <1>1, SectionReads DEF Inv
<1>3. ASSUME NEW j \in Inst, j # i
      PROVE  j \in Count <=> j \in C2
  <2>1. \A p : BodyNow(j, p, phase, stratum, todo) <=> BodyNow(j, p, phase, stratum, td)
    BY <1>3 DEF BodyNow, Settling, Rounds
  <2>2. NegNow(j, phase, stratum, todo) <=> NegNow(j, phase, stratum, td)
    BY DEF NegNow
  <2> QED
    BY <2>1, <2>2 DEF Count, CountedBy, Counted
<1>4. i \in Count <=> BodyRows(i) \subseteq Old
  <2>1. i.neg = {} /\ \A p : ~BodyNow(i, p, phase, stratum, todo)
    BY <1>1, OtherShape DEF BodyNow, Settling, Rounds
  <2> QED
    BY <1>1, <2>1 DEF Count, CountedBy, Counted, BodyRows
<1>5. i \in C2 <=> BodyRows(i) \subseteq Now
  <2>1. i.neg = {} /\ \A p : BodyNow(i, p, phase, stratum, td)
    BY <1>1, OtherShape DEF BodyNow, Settling, Rounds
  <2> QED
    BY <1>1, <2>1 DEF CountedBy, Counted, BodyRows
<1>6. Count \subseteq Inst /\ C2 \subseteq Inst
  BY DEF Count, CountedBy
<1> HIDE DEF C2
<1>7. /\ InAddedSection(i) => Count \ C2 = {} /\ C2 \ Count = {i}
      /\ ~InAddedSection(i) => Count \ C2 = {i} /\ C2 \ Count = {}
  BY <1>1, <1>2, <1>3, <1>4, <1>5, <1>6
<1> QED
  BY <1>7 DEF C2

(* A combination of a delta join keeps the invariant.                      *)
LEMMA JoinPreserves ==
    ASSUME Inv, NEW i, JoinSection(i)
    PROVE  Inv'
<1> DEFINE C2 == CountedBy(Old, Now, phase, stratum, todo \ {i})
<1>1. /\ phase = "join" /\ i \in todo /\ todo' = todo \ {i} /\ phase \in Bands
      /\ UNCHANGED <<overdeleted, added, netRem, netAdd, batch, facts, phase, stratum>>
  BY DEF JoinSection, Bands
<1>2. /\ Fired({<<i, 1>>}) = {i} /\ Once({<<i, 1>>})
      /\ Fired({}) = {} /\ Once({})
  BY DEF Fired, Once
<1>3. Ledger(cell', delQ', addQ', {}, C2, facts) /\ Touched(cell, cell')
  <2>1. CASE InAddedSection(i)
    <3>1. FoldPlusMinus({<<i, 1>>}, {})
      BY <2>1 DEF JoinSection
    <3> QED
      <4>1. Count \ C2 = Fired({}) /\ C2 \ Count = Fired({<<i, 1>>})
        BY <1>1, <1>2, <2>1, JoinMoves
      <4>2. Typed /\ LedgerOk /\ todo \ {i} \in SUBSET todo
        BY DEF Inv
      <4> QED
        BY <1>1, <1>2, <3>1, <4>1, <4>2, BandStep
  <2>2. CASE ~InAddedSection(i)
    <3>1. FoldMinusPlus({<<i, 1>>}, {})
      BY <2>2 DEF JoinSection
    <3> QED
      <4>1. Count \ C2 = Fired({<<i, 1>>}) /\ C2 \ Count = Fired({})
        BY <1>1, <1>2, <2>2, JoinMoves
      <4>2. Typed /\ LedgerOk /\ todo \ {i} \in SUBSET todo
        BY DEF Inv
      <4> QED
        BY <1>1, <1>2, <3>1, <4>1, <4>2, BandStep
  <2> QED
    BY <2>1, <2>2
<1> QED
  BY <1>1, <1>3, BandKeeps

(* The crossovers of a negation fire what its negated row decides.         *)
LEMMA CrossMoves ==
    ASSUME Inv, phase = "cross", NEW b \in todo
    PROVE  LET C2 == CountedBy(Old, Now, phase, stratum, todo \ {b}) IN
           /\ Fired(CrossFires(b, netAdd)) = Count \ C2
           /\ Fired(CrossFires(b, netRem)) = C2 \ Count
           /\ Once(CrossFires(b, netAdd)) /\ Once(CrossFires(b, netRem))
<1> DEFINE td == todo \ {b}
           C2 == CountedBy(Old, Now, phase, stratum, td)
<1>1. netRem = Old \ Now /\ netAdd = Now \ Old /\ stratum \in Nat
  BY BandFrontiers, LastStratumIsLast DEF Inv, Typed, Bands
<1>2. PICK k \in Inst : k.kind = "chain" /\ k.at = stratum /\ k.rule = b
  BY DEF Inv, WorkOk, NegationsAt
<1>3. ASSUME NEW i \in Inst, i.rule # b
      PROVE  i \in Count <=> i \in C2
  <2>1. \A p : BodyNow(i, p, phase, stratum, todo) <=> BodyNow(i, p, phase, stratum, td)
    BY DEF BodyNow, Settling, Rounds
  <2>2. NegNow(i, phase, stratum, todo) <=> NegNow(i, phase, stratum, td)
    BY <1>3 DEF NegNow, Settling, Rounds
  <2> QED
    BY <2>1, <2>2 DEF Count, CountedBy, Counted
<1>4. ASSUME NEW i \in Inst, i.rule = b
      PROVE  /\ i \in Count <=> i.body[1] \in Now /\ i.neg \cap Old = {}
             /\ i \in C2 <=> i.body[1] \in Now /\ i.neg \cap Now = {}
             /\ InNew(cell[i.body[1]]) <=> i.body[1] \in Now
             /\ \A y, z \in i.neg : y = z
  <2>1. /\ i.kind = "chain" /\ i.at = stratum /\ DOMAIN i.body = {1}
        /\ i.body[1] \in Row /\ \A y, z \in i.neg : y = z
    BY <1>2, <1>4, RuleShape, ChainShape
  <2>2. BodyNow(i, 1, phase, stratum, todo) /\ BodyNow(i, 1, phase, stratum, td)
    BY <1>1, <2>1 DEF BodyNow, Settling, Rounds
  <2>3. ~NegNow(i, phase, stratum, todo) /\ NegNow(i, phase, stratum, td)
    BY <1>1, <1>4, <2>1 DEF NegNow, Settling, Rounds
  <2> QED
    BY <2>1, <2>2, <2>3 DEF Count, CountedBy, Counted, Now, NowOf
<1>5. Once(CrossFires(b, netAdd)) /\ Once(CrossFires(b, netRem))
  BY FiredFirst DEF CrossFires
<1>6. \A front : Fired(CrossFires(b, front))
          = {j \in Inst : j.rule = b /\ j.neg \cap front # {} /\ InNew(cell[j.body[1]])}
  BY FiredFirst DEF CrossFires
<1>7. Count \subseteq Inst /\ C2 \subseteq Inst
  BY DEF Count, CountedBy
<1> HIDE DEF C2
<1>8. ASSUME NEW i \in Inst
      PROVE  /\ i \in Fired(CrossFires(b, netAdd)) <=> i \in Count /\ i \notin C2
             /\ i \in Fired(CrossFires(b, netRem)) <=> i \in C2 /\ i \notin Count
  <2>1. CASE i.rule # b
    BY <1>3, <1>6, <2>1
  <2>2. CASE i.rule = b
    <3>1. \A y \in i.neg : i.neg = {y}
      BY <1>4, <2>2
    <3>2. i.neg \cap netAdd # {} <=> i.neg \cap Old = {} /\ ~(i.neg \cap Now = {})
      BY <1>1, <3>1
    <3>3. i.neg \cap netRem # {} <=> i.neg \cap Now = {} /\ ~(i.neg \cap Old = {})
      BY <1>1, <3>1
    <3> QED
      BY <1>4, <1>6, <2>2, <3>2, <3>3
  <2> QED
    BY <2>1, <2>2
<1>9. Fired(CrossFires(b, netAdd)) \subseteq Inst /\ Fired(CrossFires(b, netRem)) \subseteq Inst
  BY <1>6
<1>10. Fired(CrossFires(b, netAdd)) = Count \ C2 /\ Fired(CrossFires(b, netRem)) = C2 \ Count
  BY <1>7, <1>8, <1>9
<1> QED
  BY <1>5, <1>10 DEF C2

(* A crossover keeps the invariant.                                        *)
LEMMA CrossPreserves ==
    ASSUME Inv, NEW b, Crossover(b)
    PROVE  Inv'
<1>1. /\ phase = "cross" /\ b \in todo /\ todo' = todo \ {b} /\ phase \in Bands
      /\ FoldMinusPlus(CrossFires(b, netAdd), CrossFires(b, netRem))
      /\ UNCHANGED <<overdeleted, added, netRem, netAdd, batch, facts, phase, stratum>>
  BY DEF Crossover, Bands
<1>2. /\ Ledger(cell', delQ', addQ', {},
                CountedBy(Old, Now, phase, stratum, todo \ {b}), facts)
      /\ Touched(cell, cell')
  BY <1>1, CrossMoves, BandStep DEF Inv
<1> QED
  BY <1>1, <1>2, BandKeeps

(* A position of a set of instances, spelled out.                          *)
LEMMA PositionsShape ==
    ASSUME NEW I, NEW e
    PROVE  e \in Positions(I) <=> \E i \in I : \E p \in DOMAIN i.body : e = <<i, p>>
<1>1. ASSUME NEW i \in I, NEW p \in DOMAIN i.body
      PROVE  <<i, p>> \in Positions(I)
  <2>1. <<i, p>> \in {i} \X DOMAIN i.body
    OBVIOUS
  <2> QED
    BY <2>1 DEF Positions
<1>2. ASSUME e \in Positions(I)
      PROVE  \E i \in I : \E p \in DOMAIN i.body : e = <<i, p>>
  <2>1. PICK i \in I : e \in {i} \X DOMAIN i.body
    BY <1>2 DEF Positions
  <2> QED
    BY <2>1
<1> QED
  BY <1>1, <1>2

(* The work of the product band, spelled out.                              *)
LEMMA ProductWorkShape ==
    ASSUME NEW s, NEW e
    PROVE  e \in ProductWork(s) <=>
                \E j \in Inst : /\ j.kind = "product" /\ j.at = s
                                /\ \E q \in DOMAIN j.body : e = <<j.rule, q>>
<1> DEFINE I == {j \in Inst : j.kind = "product" /\ j.at = s}
<1>1. ASSUME NEW j \in I, NEW q \in DOMAIN j.body
      PROVE  <<j.rule, q>> \in ProductWork(s)
  <2>1. <<j, q>> \in Positions(I) /\ <<j, q>>[1] = j /\ <<j, q>>[2] = q
    BY PositionsShape
  <2> QED
    BY <2>1 DEF ProductWork
<1>2. ASSUME e \in ProductWork(s)
      PROVE  \E j \in I : \E q \in DOMAIN j.body : e = <<j.rule, q>>
  <2>1. PICK d \in Positions(I) : e = <<d[1].rule, d[2]>>
    BY <1>2 DEF ProductWork
  <2>2. PICK j \in I : \E q \in DOMAIN j.body : d = <<j, q>>
    BY PositionsShape
  <2> QED
    BY <2>1, <2>2
<1> QED
  BY <1>1, <1>2

(* The arms of a side fire its changes, the earlier sides as of now.       *)
LEMMA ProductMoves ==
    ASSUME Inv, phase = "product", NEW b, NEW p, <<b, p>> \in todo,
           \A q \in 1..(p - 1) : <<b, q>> \notin todo
    PROVE  LET C2 == CountedBy(Old, Now, phase, stratum, todo \ {<<b, p>>}) IN
           /\ Fired(ProductFires(b, p, netRem)) = Count \ C2
           /\ Fired(ProductFires(b, p, netAdd)) = C2 \ Count
           /\ Once(ProductFires(b, p, netRem)) /\ Once(ProductFires(b, p, netAdd))
           /\ p \in Nat \ {0}
<1> DEFINE td == todo \ {<<b, p>>}
           C2 == CountedBy(Old, Now, phase, stratum, td)
<1>1. netRem = Old \ Now /\ netAdd = Now \ Old /\ stratum \in Nat
  BY BandFrontiers, LastStratumIsLast DEF Inv, Typed, Bands
<1>2. \A e : e \in ProductWork(stratum) <=>
                \E j \in Inst : /\ j.kind = "product" /\ j.at = stratum
                                /\ \E q \in DOMAIN j.body : e = <<j.rule, q>>
  BY ProductWorkShape
<1>3. /\ todo \subseteq ProductWork(stratum)
      /\ \A a \in todo : \A e \in ProductWork(stratum) :
                  e[1] = a[1] /\ a[2] <= e[2] => e \in todo
  BY DEF Inv, WorkOk
<1>4. PICK k \in Inst : k.kind = "product" /\ k.at = stratum /\ k.rule = b /\ p \in DOMAIN k.body
  BY <1>2, <1>3
<1>5. p \in Nat \ {0}
  BY <1>4, OtherShape
<1>6. ASSUME NEW i \in Inst, i.rule # b \/ p \notin DOMAIN i.body
      PROVE  i \in Count <=> i \in C2
  <2>1. \A q \in DOMAIN i.body : BodyNow(i, q, phase, stratum, todo) <=> BodyNow(i, q, phase, stratum, td)
    BY <1>6 DEF BodyNow, Settling, Rounds
  <2>2. NegNow(i, phase, stratum, todo) <=> NegNow(i, phase, stratum, td)
    BY DEF NegNow, Settling, Rounds
  <2> QED
    BY <2>1, <2>2 DEF Count, CountedBy, Counted
<1> DEFINE Rest(i) == \A q \in DOMAIN i.body \ {p} : ProductRead(q, p, cell[i.body[q]])
<1>7. ASSUME NEW i \in Inst, i.rule = b, p \in DOMAIN i.body
      PROVE  /\ i \in Count <=> i.body[p] \in Old /\ Rest(i)
             /\ i \in C2 <=> i.body[p] \in Now /\ Rest(i)
  <2>1. /\ i.kind = "product" /\ i.at = stratum /\ i.neg = {}
        /\ DOMAIN i.body \subseteq Nat \ {0} /\ i.body \in [DOMAIN i.body -> Row]
    BY <1>4, <1>7, RuleShape, OtherShape
  <2>2. ~BodyNow(i, p, phase, stratum, todo) /\ BodyNow(i, p, phase, stratum, td)
    BY <1>1, <1>4, <1>7, <2>1 DEF BodyNow, Settling, Rounds
  <2>3. ASSUME NEW q \in DOMAIN i.body \ {p}
        PROVE  /\ BodyNow(i, q, phase, stratum, todo) <=> q < p
               /\ BodyNow(i, q, phase, stratum, td) <=> q < p
    <3>1. q \in Nat \ {0} /\ q # p
      BY <2>1
    <3>2. <<i.rule, q>> \in todo <=> ~(q < p)
      <4>1. CASE q < p
        <5>1. q \in 1..(p - 1)
          BY <1>5, <3>1, <4>1
        <5> QED
          BY <1>7, <4>1, <5>1
      <4>2. CASE ~(q < p)
        <5>1. <<b, q>> \in ProductWork(stratum)
          BY <1>2, <1>7, <2>1, <2>3
        <5>2. <<b, p>>[1] = b /\ <<b, p>>[2] = p /\ <<b, q>>[1] = b /\ <<b, q>>[2] = q /\ p <= q
          BY <1>5, <3>1, <4>2
        <5>3. <<b, q>> \in todo
          BY <1>3, <5>1, <5>2
        <5> QED
          BY <1>7, <4>2, <5>3
      <4> QED
        BY <4>1, <4>2
    <3>3. <<i.rule, q>> \in td <=> <<i.rule, q>> \in todo
      BY <3>1
    <3> HIDE DEF td
    <3> QED
      BY <1>1, <2>1, <3>2, <3>3 DEF BodyNow, Settling, Rounds
  <2>4. ASSUME NEW q \in DOMAIN i.body \ {p}
        PROVE  /\ i.body[q] \in (IF BodyNow(i, q, phase, stratum, todo) THEN Now ELSE Old)
                      <=> ProductRead(q, p, cell[i.body[q]])
               /\ i.body[q] \in (IF BodyNow(i, q, phase, stratum, td) THEN Now ELSE Old)
                      <=> ProductRead(q, p, cell[i.body[q]])
    <3>1. i.body[q] \in Row
      BY <2>1
    <3> HIDE DEF td
    <3> QED
      BY <2>3, <3>1 DEF ProductRead, Now, NowOf, Old, OldOf
  <2> HIDE DEF td
  <2> QED
    BY <1>7, <2>1, <2>2, <2>4 DEF Count, CountedBy, Counted
<1>8. ASSUME NEW front
      PROVE  /\ Fired(ProductFires(b, p, front))
                   = {i \in Inst : i.rule = b /\ p \in DOMAIN i.body /\ i.body[p] \in front /\ Rest(i)}
             /\ Once(ProductFires(b, p, front))
  <2> DEFINE F == ProductFires(b, p, front)
             A == {i \in Inst : i.rule = b /\ p \in DOMAIN i.body /\ i.body[p] \in front /\ Rest(i)}
  <2>1. ASSUME NEW e \in F
        PROVE  e[1] \in A /\ e = <<e[1], p>>
    BY DEF ProductFires, Positions
  <2>2. ASSUME NEW i \in A
        PROVE  <<i, p>> \in F /\ <<i, p>>[1] = i
    <3>1. <<i, p>> \in Positions({j \in Inst : j.rule = b})
      BY DEF Positions
    <3> QED
      BY <3>1 DEF ProductFires
  <2> HIDE DEF F, A
  <2>3. Fired(F) = A
    <3>1. \A i \in Fired(F) : i \in A
      BY <2>1 DEF Fired
    <3>2. \A i \in A : i \in Fired(F)
      BY <2>2 DEF Fired
    <3> QED
      BY <3>1, <3>2
  <2>4. Once(F)
    BY <2>1 DEF Once
  <2> QED
    BY <2>3, <2>4 DEF F, A
<1>9. Count \subseteq Inst /\ C2 \subseteq Inst
  BY DEF Count, CountedBy
<1> HIDE DEF C2, Rest
<1>10. Fired(ProductFires(b, p, netRem)) = Count \ C2
  BY <1>1, <1>6, <1>7, <1>8, <1>9
<1>11. Fired(ProductFires(b, p, netAdd)) = C2 \ Count
  BY <1>1, <1>6, <1>7, <1>8, <1>9
<1> QED
  BY <1>5, <1>8, <1>10, <1>11 DEF C2

(* The two arms of a side keep the invariant.                              *)
LEMMA ProductPreserves ==
    ASSUME Inv, NEW b, NEW p, ProductArms(b, p)
    PROVE  Inv'
<1> DEFINE td == todo \ {<<b, p>>}
<1>1. /\ phase = "product" /\ <<b, p>> \in todo /\ todo' = td /\ phase \in Bands
      /\ \A q \in 1..(p - 1) : <<b, q>> \notin todo
      /\ FoldPlusMinus(ProductFires(b, p, netAdd), ProductFires(b, p, netRem))
      /\ UNCHANGED <<overdeleted, added, netRem, netAdd, batch, facts, phase, stratum>>
  BY DEF ProductArms, Bands
<1>2. /\ Ledger(cell', delQ', addQ', {}, CountedBy(Old, Now, phase, stratum, td), facts)
      /\ Touched(cell, cell') /\ p \in Nat \ {0}
  BY <1>1, ProductMoves, BandStep DEF Inv
<1>3. ASSUME NEW a \in td, NEW e \in ProductWork(stratum), e[1] = a[1], a[2] <= e[2]
      PROVE  e \in td
  <2>1. \A d \in ProductWork(stratum) : d = <<d[1], d[2]>> /\ d[2] \in Nat \ {0}
    <3>1. ASSUME NEW d \in ProductWork(stratum)
          PROVE  d = <<d[1], d[2]>> /\ d[2] \in Nat \ {0}
      <4>1. PICK j \in Inst : /\ j.kind = "product"
                              /\ \E q \in DOMAIN j.body : d = <<j.rule, q>>
        BY ProductWorkShape
      <4> QED
        BY <4>1, OtherShape
    <3> QED
      BY <3>1
  <2>2. a \in todo /\ a \in ProductWork(stratum)
    BY <1>1 DEF Inv, WorkOk
  <2>3. e \in todo
    BY <1>1, <1>3, <2>2 DEF Inv, WorkOk
  <2>4. e # <<b, p>>
    <3>1. SUFFICES ASSUME e = <<b, p>> PROVE FALSE
      OBVIOUS
    <3>2. a[1] = b /\ a[2] <= p /\ a = <<a[1], a[2]>> /\ a[2] \in Nat \ {0} /\ a # <<b, p>>
      BY <1>3, <2>1, <2>2, <3>1
    <3>3. a[2] \in 1..(p - 1)
      BY <1>2, <3>2
    <3> QED
      BY <1>1, <2>2, <3>2, <3>3
  <2> QED
    BY <2>3, <2>4
<1> QED
  BY <1>1, <1>2, <1>3, BandKeeps

-----------------------------------------------------------------------------
(* The steps that only move on.                                            *)

(* An instance that is emitted above is counted iff it held.               *)
LEMMA CountAbove ==
    ASSUME NEW i \in Inst, NEW old, NEW now, NEW ph, NEW st \in Nat, NEW td, st < i.at
    PROVE  Counted(i, old, now, ph, st, td) <=> Holds(i, old)
<1>1. i.at \in Nat
  BY InstancesTyped
<1>2. ~(i.at < st) /\ i.at # st
  BY <1>1
<1>3. \A p : ~BodyNow(i, p, ph, st, td)
  BY <1>2 DEF BodyNow
<1>4. ~NegNow(i, ph, st, td)
  BY <1>2 DEF NegNow
<1> QED
  BY <1>3, <1>4 DEF Counted, Holds, BodyRows

(* Once the folds of its stratum are done, it is counted iff it holds.     *)
LEMMA CountSettled ==
    ASSUME NEW i \in Inst, NEW old, NEW now, NEW ph \in Settling, NEW st \in Nat, NEW td,
           i.at <= st
    PROVE  Counted(i, old, now, ph, st, td) <=> Holds(i, now)
<1>1. i.at \in Nat
  BY InstancesTyped
<1>2. \A p : BodyNow(i, p, ph, st, td)
  BY <1>1 DEF BodyNow
<1>3. NegNow(i, ph, st, td)
  BY <1>1 DEF NegNow
<1> QED
  BY <1>2, <1>3 DEF Counted, Holds, BodyRows

(* A step that moves no row, drains no table and counts the same instances *)
(* keeps the invariant.                                                    *)
LEMMA MoveOn ==
    ASSUME Inv, Typed', WorkOk',
           UNCHANGED <<cell, delQ, addQ, overdeleted, added, netRem, netAdd, batch, facts>>,
           phase \notin {"idle", "ingest"} \cup Rounds,
           phase' \notin {"idle", "ingest"} \cup Rounds,
           \A x \in Row : Drained(x, phase', stratum', todo') <=> Drained(x, phase, stratum, todo),
           \A i \in Inst : Counted(i, Old, Now, phase', stratum', todo')
                              <=> Counted(i, Old, Now, phase, stratum, todo)
    PROVE  Inv'
<1>1. Old' = Old /\ Now' = Now /\ Target' = Target /\ NewFacts' = NewFacts
  BY DEF Old, Now, Target, NewFacts
<1>2. \A x \in Row : ~Open(x, phase, todo) /\ ~Open(x, phase', todo')
  BY DEF Open
<1>3. Waiting(cell, phase, todo) = {} /\ Waiting(cell', phase', todo') = {}
  BY <1>2 DEF Waiting
<1>4. Count' = Count
  BY <1>1 DEF Count, CountedBy
<1>5. FlagsOk'
  BY <1>1, <1>2 DEF Inv, FlagsOk
<1>6. VectorsOk'
  BY DEF Inv, VectorsOk
<1>7. LedgerOk'
  BY <1>3, <1>4 DEF Inv, LedgerOk, Rounds
<1>8. ModelsOk'
  BY <1>1 DEF Inv, ModelsOk, Rounds
<1> QED
  BY <1>5, <1>6, <1>7, <1>8 DEF Inv

(* The combinations that the join sections skip have not changed.          *)
LEMMA JoinWorkExact ==
    ASSUME FlagsOk, phase \in Bands, stratum \in Nat,
           NEW i \in Inst, i.kind = "join", i.at = stratum
    PROVE  i \in JoinWork(stratum) <=> (BodyRows(i) \subseteq Now) # (BodyRows(i) \subseteq Old)
<1>1. CASE ~RoundsOnly(i)
  BY <1>1, SectionReads DEF JoinWork
<1>2. CASE RoundsOnly(i)
  <2>1. ASSUME NEW y \in BodyRows(i)
        PROVE  y \in Now <=> y \in Old
    <3>1. y \in Row /\ i.head \in Row /\ i.at <= Level(i.head)
      BY HeadsAndAtoms DEF Level
    <3>2. SameScc(i.head, y)
      BY <1>2 DEF RoundsOnly, AllSidesSameScc
    <3>3. Level(y) = Level(i.head)
      BY <3>1, <3>2, ProgramFinite DEF Level
    <3>4. ~(Level(y) < stratum)
      BY <3>1, <3>3, LevelType
    <3> QED
      BY <3>1, <3>4, BandDrained, FreshSame
  <2>2. i \notin JoinWork(stratum)
    BY <1>2 DEF JoinWork
  <2> QED
    BY <2>1, <2>2
<1> QED
  BY <1>1, <1>2

(* Leaving a band keeps the invariant.                                     *)
LEMMA EndBandPreserves ==
    ASSUME Inv, EndBand
    PROVE  Inv'
<1>1. /\ todo = {} /\ stratum' = stratum /\ stratum \in Nat /\ batch.busy /\ batch' = batch
      /\ UNCHANGED <<cell, delQ, addQ, overdeleted, added, netRem, netAdd, batch, facts>>
  <2>1. batch.busy
    BY DEF EndBand, Inv, WorkOk
  <2> QED
    BY <2>1, LastStratumIsLast DEF EndBand, Inv, Typed
<1>2. \/ phase = "seed" /\ phase' = "join" /\ todo' = JoinWork(stratum)
      \/ phase = "join" /\ phase' = "cross" /\ todo' = NegationsAt(stratum)
      \/ phase = "cross" /\ phase' = "product" /\ todo' = ProductWork(stratum)
      \/ phase = "product" /\ phase' = "drain" /\ todo' = {}
  BY DEF EndBand, GoTo
<1>3. Typed'
  BY <1>1, <1>2 DEF Inv, Typed, Phases, Bands, Settling
<1>4. \A x \in Row : Drained(x, phase', stratum', todo') <=> Drained(x, phase, stratum, todo)
  <2>1. ASSUME NEW x \in Row
        PROVE  Drained(x, phase', stratum', todo') <=> Drained(x, phase, stratum, todo)
    <3>1. Drained(x, phase, stratum, todo) <=> Level(x) < stratum
      BY <1>1, <1>2, BandDrained DEF Bands
    <3>2. Drained(x, phase', stratum', todo') <=> Level(x) < stratum
      BY <1>1, <1>2, LevelType DEF Drained, Bands, Settling, Rounds
    <3> QED
      BY <3>1, <3>2
  <2> QED
    BY <2>1
<1>5. Old' = Old /\ Now' = Now
  BY <1>1 DEF Old, Now
<1>6. phase = "seed" => \A i \in JoinWork(stratum) :
                                         /\ i \in Inst /\ i.kind = "join"
                                         /\ i.at = stratum
                                         /\ (BodyRows(i) \subseteq Now) # (BodyRows(i) \subseteq Old)
  BY <1>1, JoinWorkExact DEF Inv, JoinWork, Bands
<1>7. WorkOk'
  <2>1. /\ NegationsAt(stratum)' = NegationsAt(stratum)
        /\ ProductWork(stratum)' = ProductWork(stratum)
    BY <1>1 DEF NegationsAt, ProductWork
  <2> QED
    BY <1>1, <1>2, <1>5, <1>6, <2>1 DEF WorkOk, Rounds
<1>8. ASSUME NEW i \in Inst
      PROVE  Counted(i, Old, Now, phase', stratum', todo')
                              <=> Counted(i, Old, Now, phase, stratum, todo)
  <2>1. i.at \in Nat /\ i.kind \in {"chain", "join", "product"}
    BY InstancesTyped
  <2>2. CASE i.at < stratum
    BY <1>1, <2>2, CountBelow
  <2>3. CASE stratum < i.at
    BY <1>1, <2>3, CountAbove
  <2>4. CASE i.at = stratum
    <3>1. CASE phase = "seed"
      <4>1. phase' = "join" /\ todo' = JoinWork(stratum)
        BY <1>2, <3>1
      <4>2. ~NegNow(i, phase, stratum, todo) /\ ~NegNow(i, phase', stratum', todo')
        BY <1>1, <2>1, <2>4, <3>1, <4>1 DEF NegNow, Settling, Rounds
      <4>3. CASE i.kind = "join" /\ i \notin JoinWork(stratum)
        <5>1. i.neg = {} /\ (BodyRows(i) \subseteq Now <=> BodyRows(i) \subseteq Old)
          BY <1>1, <2>4, <3>1, <4>3, JoinWorkExact, OtherShape DEF Inv, Bands
        <5>2. /\ \A p : ~BodyNow(i, p, phase, stratum, todo)
              /\ \A p : BodyNow(i, p, phase', stratum', todo')
          BY <1>1, <2>1, <2>4, <3>1, <4>1, <4>3 DEF BodyNow, Settling, Rounds
        <5> QED
          BY <5>1, <5>2 DEF Counted, BodyRows
      <4>4. CASE ~(i.kind = "join" /\ i \notin JoinWork(stratum))
        <5>1. \A p : BodyNow(i, p, phase, stratum, todo) <=> BodyNow(i, p, phase', stratum', todo')
          BY <1>1, <2>1, <2>4, <3>1, <4>1, <4>4 DEF BodyNow, Settling, Rounds
        <5> QED
          BY <4>2, <5>1 DEF Counted
      <4> QED
        BY <4>3, <4>4
    <3>2. CASE phase = "join"
      <4>1. phase' = "cross" /\ todo' = NegationsAt(stratum)
        BY <1>2, <3>2
      <4>2. \A p : BodyNow(i, p, phase, stratum, todo) <=> BodyNow(i, p, phase', stratum', todo')
        BY <1>1, <2>1, <2>4, <3>2, <4>1 DEF BodyNow, Settling, Rounds
      <4>3. i.neg = {} \/ i.rule \in NegationsAt(stratum)
        BY <2>4, OtherShape DEF NegationsAt
      <4>4. i.neg = {} \/ (~NegNow(i, phase, stratum, todo) /\ ~NegNow(i, phase', stratum', todo'))
        BY <1>1, <2>1, <2>4, <3>2, <4>1, <4>3 DEF NegNow, Settling, Rounds
      <4> QED
        BY <4>2, <4>4 DEF Counted
    <3>3. CASE phase = "cross"
      <4>1. phase' = "product" /\ todo' = ProductWork(stratum)
        BY <1>2, <3>3
      <4>2. NegNow(i, phase, stratum, todo) /\ NegNow(i, phase', stratum', todo')
        BY <1>1, <2>1, <2>4, <3>3, <4>1 DEF NegNow, Settling, Rounds
      <4>3. \A p \in DOMAIN i.body : i.kind = "product" => <<i.rule, p>> \in ProductWork(stratum)
        BY <2>4, ProductWorkShape
      <4>4. \A p \in DOMAIN i.body :
               BodyNow(i, p, phase, stratum, todo) <=> BodyNow(i, p, phase', stratum', todo')
        BY <1>1, <2>1, <2>4, <3>3, <4>1, <4>3 DEF BodyNow, Settling, Rounds
      <4> QED
        BY <4>2, <4>4 DEF Counted
    <3>4. CASE phase = "product"
      <4>1. phase' = "drain" /\ todo' = {}
        BY <1>2, <3>4
      <4>2. NegNow(i, phase, stratum, todo) /\ NegNow(i, phase', stratum', todo')
        BY <1>1, <2>1, <2>4, <3>4, <4>1 DEF NegNow, Settling, Rounds
      <4>3. \A p : BodyNow(i, p, phase, stratum, todo) /\ BodyNow(i, p, phase', stratum', todo')
        BY <1>1, <2>1, <2>4, <3>4, <4>1 DEF BodyNow, Settling, Rounds
      <4> QED
        BY <4>2, <4>3 DEF Counted
    <3> QED
      BY <1>2, <3>1, <3>2, <3>3, <3>4
  <2> QED
    BY <1>1, <2>1, <2>2, <2>3, <2>4
<1> QED
  BY <1>1, <1>2, <1>3, <1>4, <1>7, <1>8, MoveOn DEF Rounds

(* Above the strata that are drained nothing has changed.                  *)
LEMMA SeedsStart ==
    ASSUME NEW st \in Nat, NEW i \in Inst, i.at = st,
           \A x \in Row : st <= Level(x) => (x \in Now <=> x \in Old)
    PROVE  Counted(i, Old, Now, "seed", st, BranchesAt(st)) <=> Holds(i, Old)
<1>1. i.kind \in {"chain", "join", "product"}
  BY InstancesTyped
<1>2. ~NegNow(i, "seed", st, BranchesAt(st))
  BY DEF NegNow, Settling, Rounds
<1>3. CASE i.kind = "chain" /\ RoundsOnly(i)
  <2>1. ASSUME NEW y \in BodyRows(i)
        PROVE  y \in Now <=> y \in Old
    <3>1. y \in Row /\ i.head \in Row /\ i.at <= Level(i.head)
      BY HeadsAndAtoms DEF Level
    <3>2. SameScc(i.head, y)
      BY <1>3 DEF RoundsOnly, AllSidesSameScc
    <3>3. Level(y) = Level(i.head)
      BY <3>1, <3>2, ProgramFinite DEF Level
    <3> QED
      BY <3>1, <3>3
  <2>2. \A p \in DOMAIN i.body : i.body[p] \in BodyRows(i)
    BY DEF BodyRows
  <2>3. \A p \in DOMAIN i.body :
            i.body[p] \in (IF BodyNow(i, p, "seed", st, BranchesAt(st)) THEN Now ELSE Old)
                <=> i.body[p] \in Old
    BY <2>1, <2>2
  <2> QED
    BY <1>2, <2>3 DEF Counted, Holds, BodyRows
<1>4. CASE ~(i.kind = "chain" /\ RoundsOnly(i))
  <2>1. \A p : ~BodyNow(i, p, "seed", st, BranchesAt(st))
    BY <1>1, <1>4 DEF BodyNow, Settling, Rounds, BranchesAt
  <2> QED
    BY <1>2, <2>1 DEF Counted, Holds, BodyRows
<1> QED
  BY <1>3, <1>4

(* Leaving a stratum keeps the invariant.                                  *)
LEMMA EndStratumPreserves ==
    ASSUME Inv, EndStratum
    PROVE  Inv'
<1>1. /\ todo = {} /\ phase = "scc" /\ stratum \in 0..LastStratum /\ batch.busy
      /\ UNCHANGED <<cell, delQ, addQ, overdeleted, added, netRem, netAdd, batch, facts>>
  <2>1. batch.busy
    BY DEF EndStratum, Inv, WorkOk
  <2> QED
    BY <2>1 DEF EndStratum, Inv, Typed
<1>2. \A x \in Row : Drained(x, phase, stratum, todo) <=> Level(x) <= stratum
  BY <1>1, LevelType DEF Drained, Bands, Settling, Rounds
<1>3. \A x \in Row : ~Open(x, phase, todo)
  BY <1>1 DEF Open
<1>4. CASE stratum = LastStratum
  <2>1. phase' = "commit" /\ todo' = {} /\ stratum' = stratum
    BY <1>4 DEF EndStratum, GoTo
  <2>2. Typed'
    BY <1>1, <2>1 DEF Inv, Typed, Phases, Bands, Settling
  <2>3. WorkOk'
    BY <1>1, <1>4, <2>1 DEF WorkOk, Rounds
  <2>4. \A x \in Row : Drained(x, phase', stratum', todo') <=> Level(x) <= stratum
    BY <1>1, <2>1, LevelType DEF Drained, Bands, Settling, Rounds
  <2>5. ASSUME NEW i \in Inst
        PROVE  Counted(i, Old, Now, phase', stratum', todo')
                              <=> Counted(i, Old, Now, phase, stratum, todo)
    <3>1. i.at \in Nat /\ stratum \in Nat /\ "scc" \in Settling /\ "commit" \in Settling
      BY <1>1, InstancesTyped, LastStratumIsLast DEF Settling
    <3>2. CASE i.at <= stratum
      BY <1>1, <2>1, <3>1, <3>2, CountSettled
    <3>3. CASE stratum < i.at
      BY <2>1, <3>1, <3>3, CountAbove
    <3> QED
      BY <3>1, <3>2, <3>3
  <2> QED
    BY <1>1, <1>2, <2>1, <2>2, <2>3, <2>4, <2>5, MoveOn DEF Rounds
<1>5. CASE stratum # LastStratum
  <2>1. phase' = "seed" /\ todo' = BranchesAt(stratum + 1) /\ stratum' = stratum + 1
    BY <1>5 DEF EndStratum, GoTo
  <2>2. stratum + 1 \in 0..LastStratum /\ stratum \in Nat /\ stratum + 1 \in Nat
    BY <1>1, <1>5, LastStratumIsLast
  <2>3. Typed'
    BY <1>1, <2>1, <2>2 DEF Inv, Typed, Phases, Bands, Settling
  <2>4. WorkOk'
    <3>1. todo' \subseteq BranchesAt(stratum')
      BY <2>1
    <3> QED
      BY <1>1, <2>1, <3>1 DEF WorkOk, Rounds, BranchesAt
  <2>5. \A x \in Row : Drained(x, phase', stratum', todo') <=> Level(x) <= stratum
    BY <2>1, <2>2, LevelType DEF Drained, Bands, Settling, Rounds
  <2>6. \A x \in Row : stratum + 1 <= Level(x) => (x \in Now <=> x \in Old)
    <3>1. ASSUME NEW x \in Row, stratum + 1 <= Level(x)
          PROVE  x \in Now <=> x \in Old
      <4>1. ~(Level(x) <= stratum)
        BY <2>2, <3>1, LevelType
      <4> QED
        BY <1>2, <1>3, <4>1, FreshSame DEF Inv
    <3> QED
      BY <3>1
  <2>7. ASSUME NEW i \in Inst
        PROVE  Counted(i, Old, Now, phase', stratum', todo')
                              <=> Counted(i, Old, Now, phase, stratum, todo)
    <3>1. i.at \in Nat /\ "scc" \in Settling
      BY InstancesTyped DEF Settling
    <3>2. CASE i.at <= stratum
      BY <1>1, <2>1, <2>2, <3>1, <3>2, CountSettled, CountBelow
    <3>3. CASE i.at = stratum + 1
      BY <1>1, <2>1, <2>2, <2>6, <3>3, CountAbove, SeedsStart
    <3>4. CASE stratum + 1 < i.at
      BY <2>1, <2>2, <3>1, <3>4, CountAbove
    <3> QED
      BY <2>2, <3>1, <3>2, <3>3, <3>4
  <2> QED
    BY <1>1, <1>2, <2>1, <2>3, <2>4, <2>5, <2>7, MoveOn DEF Rounds
<1> QED
  BY <1>4, <1>5

(* Accepting a batch keeps the invariant.                                  *)
LEMMA SubmitPreserves ==
    ASSUME Inv, NEW adds \in SUBSET Facts, NEW removes \in SUBSET (Facts \ adds),
           Submit(adds, removes)
    PROVE  Inv'
<1>1. /\ phase = "idle" /\ phase' = "ingest" /\ todo' = {} /\ stratum' = stratum
      /\ batch' = [adds |-> adds, removes |-> removes, busy |-> TRUE]
      /\ UNCHANGED <<cell, delQ, addQ, overdeleted, added, netRem, netAdd, facts>>
  BY DEF Submit, GoTo
<1>2. Old' = Old /\ Now' = Now
  BY <1>1 DEF Old, Now
<1>3. Typed'
  BY <1>1 DEF Inv, Typed, Phases
<1>4. WorkOk'
  BY <1>1 DEF Inv, WorkOk, Rounds
<1>5. \A x \in Row : /\ ~Drained(x, phase, stratum, todo) /\ ~Drained(x, phase', stratum', todo')
                     /\ ~Open(x, phase, todo) /\ ~Open(x, phase', todo')
  BY <1>1 DEF Drained, Open, Bands, Settling, Rounds
<1>6. FlagsOk'
  BY <1>1, <1>5 DEF Inv, FlagsOk
<1>7. VectorsOk'
  BY <1>1, <1>5 DEF Inv, VectorsOk
<1>8. LedgerOk'
  <2>1. Waiting(cell, phase, todo) = {} /\ Waiting(cell', phase', todo') = {}
    BY <1>5 DEF Waiting
  <2>2. ASSUME NEW i \in Inst
        PROVE  Counted(i, Old, Now, phase', stratum', todo') <=> Counted(i, Old, Now, phase, stratum, todo)
    <3>1. \A p : BodyNow(i, p, phase', stratum', todo') <=> BodyNow(i, p, phase, stratum, todo)
      BY <1>1 DEF BodyNow, Settling, Rounds
    <3>2. NegNow(i, phase', stratum', todo') <=> NegNow(i, phase, stratum, todo)
      BY <1>1 DEF NegNow, Settling, Rounds
    <3> QED
      BY <3>1, <3>2 DEF Counted
  <2>3. Count' = Count
    BY <1>2, <2>2 DEF Count, CountedBy
  <2> QED
    BY <1>1, <2>1, <2>3 DEF Inv, LedgerOk
<1>9. ModelsOk'
  BY <1>1, <1>2, <1>5 DEF Inv, ModelsOk
<1> QED
  BY <1>3, <1>4, <1>6, <1>7, <1>8, <1>9 DEF Inv

(* The explicit folds of the receives.                                     *)
LEMMA IngestPreserves ==
    ASSUME Inv, Ingest
    PROVE  Inv'
<1>1. /\ phase = "ingest" /\ phase' = "seed" /\ todo' = BranchesAt(0) /\ stratum' = 0
      /\ UNCHANGED <<overdeleted, added, netRem, netAdd, batch, facts>>
      /\ stratum = 0 /\ delQ = {} /\ addQ = {} /\ batch.busy
      /\ batch.adds \subseteq Facts /\ batch.removes \subseteq Facts
      /\ batch.adds \cap batch.removes = {} /\ facts \subseteq Facts
  BY DEF Ingest, GoTo, Inv, WorkOk, Typed
<1>2. /\ cell \in [Row -> Cell] /\ Count \subseteq Inst /\ Counts(cell, Count)
      /\ \A x \in Row : cell[x].f \subseteq {"kInI", "kExplicit"}
      /\ \A x \in Row : "kExplicit" \in cell[x].f <=> x \in facts
      /\ \A x \in Row : cell[x] \in Cell
  BY <1>1 DEF Inv, LedgerOk, Ledger, FlagsOk
<1>3. Old \subseteq Row /\ Now = Old /\ Old = LeastModel(facts)
  <2>1. Now = Old
    BY <1>2 DEF Now, NowOf, Old, OldOf, InNew, InI, SurvivesSoFar
  <2> QED
    BY <2>1 DEF Inv, ModelsOk, Old, OldOf
<1> DEFINE Plus(c) == [nr |-> c.nr + 1, r |-> c.r, f |-> c.f \cup {"kExplicit", "kTouched"}]
           Minus(c) == [nr |-> c.nr - 1, r |-> c.r, f |-> (c.f \ {"kExplicit"}) \cup {"kTouched"}]
<1>4. ASSUME NEW x \in Row
      PROVE  cell'[x] = IF x \in batch.adds /\ x \notin facts THEN Plus(cell[x])
                        ELSE IF x \in batch.removes /\ x \in facts THEN Minus(cell[x])
                        ELSE cell[x]
  <2>1. cell[x] = [nr |-> cell[x].nr, r |-> cell[x].r, f |-> cell[x].f] /\ cell[x].nr \in Int /\ cell[x].r \in Int
    BY <1>2 DEF Cell
  <2>2. cell'[x] = IF x \in batch.adds THEN AddExplicit(cell[x])
                   ELSE IF x \in batch.removes THEN SubExplicit(cell[x])
                   ELSE cell[x]
    BY DEF Ingest
  <2>3. x \notin facts => AddExplicit(cell[x]) = Plus(cell[x])
    BY <1>2, <2>1 DEF AddExplicit, FoldAt, Touch
  <2>4. x \in facts => AddExplicit(cell[x]) = cell[x]
    BY <1>2 DEF AddExplicit
  <2>5. x \in facts => SubExplicit(cell[x]) = Minus(cell[x])
    BY <1>2, <2>1 DEF SubExplicit, FoldAt, Touch
  <2>6. x \notin facts => SubExplicit(cell[x]) = cell[x]
    BY <1>2 DEF SubExplicit
  <2> QED
    BY <1>1, <2>2, <2>3, <2>4, <2>5, <2>6
<1>5. ASSUME NEW x \in Row
      PROVE  /\ cell'[x] \in Cell
             /\ cell'[x].f \subseteq {"kInI", "kExplicit", "kTouched"}
             /\ "kInI" \in cell'[x].f <=> "kInI" \in cell[x].f
             /\ "kExplicit" \in cell'[x].f <=> x \in NewFacts
             /\ cell'[x].nr - Explicit(cell'[x]) = cell[x].nr - Explicit(cell[x])
             /\ cell'[x].r = cell[x].r
             /\ x \in facts /\ x \notin NewFacts => x \in batch.removes /\ cell'[x] = Minus(cell[x])
             /\ Total(cell'[x]) > Total(cell[x]) => x \in batch.adds /\ x \notin facts
  <2>1. cell[x] \in Cell /\ cell[x].nr \in Int /\ cell[x].r \in Int
    BY <1>2 DEF Cell
  <2>2. CASE x \in batch.adds /\ x \notin facts
    <3>1. cell'[x] = Plus(cell[x])
      BY <1>4, <2>2
    <3>2. "kExplicit" \notin cell[x].f
      BY <1>2, <2>2
    <3> QED
      BY <1>1, <1>2, <2>1, <2>2, <3>1, <3>2 DEF Cell, RowFlags, Explicit, NewFacts, Total
  <2>3. CASE x \in batch.removes /\ x \in facts
    <3>1. cell'[x] = Minus(cell[x]) /\ x \notin batch.adds
      BY <1>1, <1>4, <2>3
    <3>2. "kExplicit" \in cell[x].f
      BY <1>2, <2>3
    <3> QED
      BY <1>1, <1>2, <2>1, <2>3, <3>1, <3>2 DEF Cell, RowFlags, Explicit, NewFacts, Total
  <2>4. CASE ~(x \in batch.adds /\ x \notin facts) /\ ~(x \in batch.removes /\ x \in facts)
    <3>1. cell'[x] = cell[x]
      BY <1>4, <2>4
    <3>2. x \in facts <=> x \in NewFacts
      BY <2>4 DEF NewFacts
    <3> QED
      BY <1>2, <2>1, <3>1, <3>2 DEF Total
  <2> QED
    BY <2>2, <2>3, <2>4
<1>6. cell' \in [Row -> Cell]
  BY <1>5 DEF Ingest
<1>19. ASSUME NEW x \in Row
       PROVE  /\ cell[x].nr \in Int /\ cell[x].r \in Int /\ cell'[x].nr \in Int /\ cell'[x].r \in Int
              /\ Total(cell[x]) \in Int /\ Total(cell'[x]) \in Int
              /\ Explicit(cell'[x]) \in Int /\ Explicit(cell[x]) \in Int
  <2>1. cell[x] \in Cell /\ cell'[x] \in Cell
    BY <1>2, <1>6
  <2>2. /\ cell[x].nr \in Int /\ cell[x].r \in Int /\ cell'[x].nr \in Int /\ cell'[x].r \in Int
    BY <2>1 DEF Cell
  <2> QED
    BY <2>2 DEF Total, Explicit
<1>7. Old' = Old /\ Now' = Now
  <2>1. Old' = Old
    BY <1>5 DEF Old, OldOf, InI
  <2>2. Now' = Old
    BY <1>5 DEF Now, NowOf, Old, OldOf, InNew, InI, SurvivesSoFar
  <2> QED
    BY <1>3, <2>1, <2>2
<1>8. Typed'
  BY <1>1, LastStratumIsLast DEF Inv, Typed, Phases, Bands
<1>9. WorkOk'
  <2>1. todo' \subseteq BranchesAt(stratum')
    BY <1>1
  <2> QED
    BY <1>1, <2>1 DEF WorkOk, Rounds, BranchesAt
<1>10. \A x \in Row : /\ ~Drained(x, phase, stratum, todo) /\ ~Drained(x, phase', stratum', todo')
                      /\ ~Open(x, phase, todo) /\ ~Open(x, phase', todo')
  <2>1. ASSUME NEW x \in Row
        PROVE  ~(Level(x) < 0)
    BY LevelType
  <2> QED
    BY <1>1, <2>1 DEF Drained, Open, Bands, Settling, Rounds
<1>11. FlagsOk'
  <2>1. ASSUME NEW x \in Row
        PROVE  /\ FlagsOf(cell'[x])
               /\ cell'[x].f \cap {"kDelNow", "kAddNow", "kDel", "kAdd"} = {}
               /\ "kExplicit" \in cell'[x].f <=> x \in NewFacts'
    <3>1. NewFacts' = NewFacts
      BY <1>1 DEF NewFacts
    <3> QED
      BY <1>5, <3>1 DEF FlagsOf, ScratchFlags
  <2> QED
    BY <1>1, <1>10, <2>1 DEF FlagsOk
<1>12. VectorsOk'
  <2>1. \A x \in Row : /\ "kDel" \in cell'[x].f <=> "kDel" \in cell[x].f
                       /\ "kAdd" \in cell'[x].f <=> "kAdd" \in cell[x].f
    <3>1. ASSUME NEW x \in Row
          PROVE  /\ "kDel" \notin cell[x].f /\ "kAdd" \notin cell[x].f
                 /\ "kDel" \notin cell'[x].f /\ "kAdd" \notin cell'[x].f
      <4>1. /\ cell[x].f \subseteq {"kInI", "kExplicit"}
            /\ cell'[x].f \subseteq {"kInI", "kExplicit", "kTouched"}
        BY <1>2, <1>5
      <4> QED
        BY <4>1
    <3> QED
      BY <3>1
  <2> QED
    BY <1>1, <1>10, <2>1 DEF Inv, VectorsOk
<1>13. Count' = Count
  <2>1. ASSUME NEW i \in Inst
        PROVE  Counted(i, Old, Now, phase', stratum', todo') <=> Counted(i, Old, Now, phase, stratum, todo)
    BY <1>3, CountedSteady
  <2> QED
    BY <1>7, <2>1 DEF Count, CountedBy
<1>14. Count = {i \in Inst : Holds(i, Old)}
  BY <1>3, CountedSteady DEF Count, CountedBy
<1>15. Waiting(cell, phase, todo) = {} /\ Waiting(cell', phase', todo') = {}
  BY <1>10 DEF Waiting
<1>16. Ledger(cell', delQ', addQ', {}, Count, facts)
  <2>1. addQ' = {x \in batch.adds : CrossedUp(cell[x], cell'[x])}
    BY <1>1 DEF Ingest
  <2>2. delQ' = {x \in batch.removes : "kExplicit" \in cell[x].f /\ CrossedDown(cell[x], cell'[x])}
    BY <1>1 DEF Ingest
  <2>3. Facts \subseteq Row
    BY DEF Facts
  <2>4. Counts(cell', Count)
    <3>1. ASSUME NEW x \in Row
          PROVE  /\ cell'[x].nr = Cardinality(Into(Count, x, "kNonRecursive")) + Explicit(cell'[x])
                 /\ cell'[x].r = Cardinality(Into(Count, x, "kRecursive"))
      <4>1. /\ cell'[x].nr \in Int /\ cell[x].nr \in Int
            /\ Explicit(cell'[x]) \in Int /\ Explicit(cell[x]) \in Int
        BY <1>19
      <4>2. Cardinality(Into(Count, x, "kNonRecursive")) \in Nat
        BY <1>2, IntoFinite
      <4>3. /\ cell[x].nr = Cardinality(Into(Count, x, "kNonRecursive")) + Explicit(cell[x])
            /\ cell[x].r = Cardinality(Into(Count, x, "kRecursive"))
        BY <1>2 DEF Counts
      <4>4. cell'[x].nr - Explicit(cell'[x]) = cell[x].nr - Explicit(cell[x]) /\ cell'[x].r = cell[x].r
        BY <1>5
      <4> QED
        BY <4>1, <4>2, <4>3, <4>4
    <3> QED
      BY <3>1 DEF Counts
  <2>5. delQ' \subseteq OldOf(cell') /\ addQ' \subseteq Row
    BY <1>1, <1>5, <2>1, <2>2, <2>3 DEF CrossedDown, OldOf, InI
  <2>6. LossQueued(cell', delQ', Count, facts)
    <3>1. SUFFICES ASSUME NEW x \in Row,
                          SurvivesSoFar(cell'[x]), cell'[x].nr <= 0, x \notin delQ'
                   PROVE  /\ \A i \in Inst : i.head = x /\ Holds(i, OldOf(cell')) => i \in Count
                          /\ x \in facts => "kExplicit" \in cell'[x].f
      BY DEF LossQueued
    <3>2. OldOf(cell') = Old
      BY <1>7 DEF Old
    <3>3. ASSUME x \in facts, x \notin NewFacts
          PROVE  FALSE
      <4>1. x \in batch.removes /\ "kInI" \in cell[x].f /\ "kExplicit" \in cell[x].f
        BY <1>2, <1>5, <3>1, <3>3 DEF SurvivesSoFar
      <4> QED
        BY <2>2, <3>1, <4>1 DEF CrossedDown
    <3> QED
      BY <1>5, <1>14, <3>2, <3>3
  <2>8. GainQueued(cell', addQ', {})
    <3>1. SUFFICES ASSUME NEW x \in Row, Total(cell'[x]) > 0
                   PROVE  InNew(cell'[x]) \/ x \in addQ'
      BY DEF GainQueued
    <3>2. Total(cell'[x]) \in Int /\ Total(cell[x]) \in Int
      BY <1>19
    <3>3. CASE Total(cell[x]) > 0
      <4>1. InNew(cell[x])
        BY <1>1, <1>15, <3>3 DEF Inv, LedgerOk, Ledger, GainQueued
      <4> QED
        BY <1>2, <1>5, <4>1 DEF InNew, SurvivesSoFar
    <3>4. CASE ~(Total(cell[x]) > 0)
      <4>1. Total(cell'[x]) > Total(cell[x]) /\ Total(cell[x]) <= 0
        BY <3>1, <3>2, <3>4
      <4> QED
        BY <1>5, <2>1, <3>1, <4>1 DEF CrossedUp
    <3> QED
      BY <3>3, <3>4
  <2> QED
    BY <1>2, <1>6, <2>4, <2>5, <2>6, <2>8 DEF Ledger
<1>17. LedgerOk'
  BY <1>1, <1>13, <1>15, <1>16 DEF LedgerOk
<1>18. ModelsOk'
  BY <1>1, <1>3, <1>7, <1>10 DEF ModelsOk
<1> QED
  BY <1>8, <1>9, <1>11, <1>12, <1>17, <1>18 DEF Inv

-----------------------------------------------------------------------------
(***************************************************************************)
(* The drains of a stratum: the single pass over its acyclic tables, the   *)
(* rounds of its SCCs, the commit.  After them its rows are exactly those  *)
(* of the new model.                                                       *)
(***************************************************************************)

(* The new model: closed, supported, least.                                *)
LEMMA TargetFacts ==
    ASSUME Typed
    PROVE  /\ NewFacts \subseteq Facts /\ Target = LeastModel(NewFacts)
           /\ NewFacts \subseteq Target /\ Target \subseteq Row
           /\ \A i \in Inst : Holds(i, Target) => i.head \in Target
           /\ \A x \in Target : x \in NewFacts \/ \E i \in Inst : i.head = x /\ Holds(i, Target)
<1>1. NewFacts \subseteq Facts /\ Target = LeastModel(NewFacts)
  BY DEF Typed, NewFacts, Target
<1> QED
  BY <1>1, LeastModelFacts, OldSupported

(* The new model is the least one at each stratum.                         *)
LEMMA TargetLeast ==
    ASSUME Typed, NEW s \in Nat, NEW X \in SUBSET Target, NewFacts \subseteq X,
           \A x \in Target : Stratum[TableOf(x)] # s => x \in X,
           \A i \in Inst : /\ Stratum[TableOf(i.head)] = s
                           /\ BodyRows(i) \subseteq X
                           /\ i.neg \cap Target = {}
                           => i.head \in X
    PROVE  X = Target
<1>1. NewFacts \in SUBSET Facts /\ Target = LeastModel(NewFacts)
  BY TargetFacts
<1> DEFINE M == LeastModel(NewFacts)
<1>2. \A Y \in SUBSET M :
         /\ NewFacts \subseteq Y
         /\ \A x \in M : Stratum[TableOf(x)] # s => x \in Y
         /\ \A i \in Inst : /\ Stratum[TableOf(i.head)] = s
                            /\ BodyRows(i) \subseteq Y
                            /\ i.neg \cap M = {}
                            => i.head \in Y
         => Y = M
  BY <1>1, LeastModelFacts
<1>3. Target = M
  BY <1>1
<1> HIDE DEF M
<1> QED
  BY <1>2, <1>3

(* Claims, retirements and the like move flags only.                       *)
LEMMA LedgerReflag ==
    ASSUME NEW cells, NEW dq, NEW aq, NEW waiting, NEW C, NEW f,
           Ledger(cells, dq, aq, waiting, C, f),
           NEW end \in [Row -> Cell], NEW dq2, NEW aq2, NEW waiting2,
           \A x \in Row : /\ end[x].nr = cells[x].nr /\ end[x].r = cells[x].r
                          /\ "kInI" \in end[x].f <=> "kInI" \in cells[x].f
                          /\ "kExplicit" \in end[x].f <=> "kExplicit" \in cells[x].f
                          /\ SurvivesSoFar(end[x]) => SurvivesSoFar(cells[x])
                          /\ SurvivesSoFar(end[x]) /\ end[x].nr <= 0 /\ x \in dq => x \in dq2,
           dq2 \subseteq dq, aq2 \subseteq Row,
           GainQueued(end, aq2, waiting2)
    PROVE  Ledger(end, dq2, aq2, waiting2, C, f)
<1>1. OldOf(end) = OldOf(cells)
  BY DEF OldOf, InI
<1>2. dq2 \subseteq OldOf(end)
  BY <1>1 DEF Ledger
<1>3. Counts(end, C)
  BY DEF Ledger, Counts, Explicit
<1>4. LossQueued(end, dq2, C, f)
  <2>1. LossQueued(cells, dq, C, f)
    BY DEF Ledger
  <2>2. SUFFICES ASSUME NEW x \in Row,
                        SurvivesSoFar(end[x]), end[x].nr <= 0, x \notin dq2
                 PROVE  /\ \A i \in Inst : i.head = x /\ Holds(i, OldOf(end)) => i \in C
                        /\ x \in f => "kExplicit" \in end[x].f
    BY DEF LossQueued
  <2>3. SurvivesSoFar(cells[x]) /\ cells[x].nr <= 0 /\ x \notin dq
    BY <2>2
  <2> QED
    BY <1>1, <2>1, <2>3 DEF LossQueued
<1> QED
  BY <1>2, <1>3, <1>4 DEF Ledger

(* A row that is there without being queued has a derivation, once the     *)
(* rows it lost them for are dealt with.                                   *)
LEMMA SurvivorSupported ==
    ASSUME NEW cells, NEW dq, NEW aq, NEW waiting, NEW C,
           Typed, Ledger(cells, dq, aq, waiting, C, facts),
           OldOf(cells) = LeastModel(facts),
           NEW x \in Row, SurvivesSoFar(cells[x]), x \notin dq
    PROVE  Total(cells[x]) > 0
<1>1. cells \in [Row -> Cell] /\ C \subseteq Inst /\ Counts(cells, C) /\ LossQueued(cells, dq, C, facts)
  BY DEF Ledger
<1>2. cells[x].nr \in Int /\ cells[x].r \in Int /\ cells[x].r >= 0
  BY <1>1, CountedTotal DEF Cell
<1>3. CASE cells[x].nr > 0
  BY <1>2, <1>3 DEF Total
<1>4. CASE cells[x].nr <= 0
  <2>1. x \in LeastModel(facts) /\ facts \in SUBSET Facts
    BY DEF OldOf, SurvivesSoFar, InI, Typed
  <2>2. /\ \A i \in Inst : i.head = x /\ Holds(i, LeastModel(facts)) => i \in C
        /\ x \in facts => "kExplicit" \in cells[x].f
    BY <1>1, <1>4 DEF LossQueued
  <2>3. CASE x \in facts
    BY <1>1, <2>2, <2>3, CountedTotal
  <2>4. CASE x \notin facts
    <3>1. PICK i \in Inst : i.head = x /\ Holds(i, LeastModel(facts))
      BY <2>1, <2>4, OldSupported
    <3> QED
      BY <1>1, <2>2, <3>1, CountedTotal
  <2> QED
    BY <2>3, <2>4
<1> QED
  BY <1>2, <1>3, <1>4

-----------------------------------------------------------------------------
(* Claims move the flags of the claimed rows and nothing else.             *)
LEMMA ClaimsMark ==
    ASSUME NEW cells \in [Row -> Cell], NEW S
    PROVE  /\ Marked(cells, ClaimedDel(cells, S), S, {"kTouched", "kDel", "kDelNow"})
           /\ Marked(cells, ClaimedAdd(cells, S), S, {"kTouched", "kAdd", "kAddNow"})
<1> DEFINE d == ClaimedDel(cells, S)
           a == ClaimedAdd(cells, S)
<1>1. ASSUME NEW x \in Row
      PROVE  /\ d[x] = IF x \in S THEN ClaimDel(cells[x]) ELSE cells[x]
             /\ a[x] = IF x \in S THEN ClaimAdd(cells[x]) ELSE cells[x]
             /\ cells[x] \in Cell
  BY DEF ClaimedDel, ClaimedAdd
<1>2. d = [x \in Row |-> d[x]] /\ a = [x \in Row |-> a[x]]
  BY DEF ClaimedDel, ClaimedAdd
<1> HIDE DEF d, a
<1>3. \A x \in Row : d[x] \in Cell /\ a[x] \in Cell
  BY <1>1, FlagMoves
<1>4. d \in [Row -> Cell] /\ a \in [Row -> Cell]
  BY <1>2, <1>3
<1>5. Marked(cells, d, S, {"kTouched", "kDel", "kDelNow"})
  BY <1>1, <1>4, FlagMoves DEF Marked
<1>6. Marked(cells, a, S, {"kTouched", "kAdd", "kAddNow"})
  BY <1>1, <1>4, FlagMoves DEF Marked
<1> QED
  BY <1>5, <1>6 DEF d, a

-----------------------------------------------------------------------------
(* The drain of the acyclic tables. *)

(* An instance of an acyclic head reads drained rows only.                 *)
LEMMA AcyclicReads ==
    ASSUME NEW i \in Inst, Group(i.head) = 0
    PROVE  /\ \A y \in BodyRows(i) \cup i.neg : y \in Row /\ Level(y) < i.at
           /\ RuleClass(i) = "kNonRecursive"
<1>1. \A y : ~SameScc(i.head, y)
  BY DEF SameScc, Group
<1> QED
  BY <1>1, HeadsAndAtoms DEF Level, RuleClass, ReadsOwnScc

(* The single-pass drains of the acyclic tables keep the invariant.        *)
LEMMA DrainPreserves ==
    ASSUME Inv, Drain
    PROVE  Inv'
<1> DEFINE mine == {x \in Row : Stratum[TableOf(x)] = stratum /\ Scc[TableOf(x)] = 0}
           dels == DelClaims(cell, mine)
           mid  == ClaimedDel(cell, dels)
           adds == AddClaims(mid, mine)
           end  == ClaimedAdd(mid, adds)
<1>1. /\ phase = "drain" /\ phase' = "scc" /\ todo' = SccsAt(stratum)
      /\ UNCHANGED <<delQ, addQ, batch, facts, stratum>>
      /\ stratum \in 0..LastStratum /\ stratum \in Nat /\ batch.busy
      /\ cell' = end
      /\ overdeleted' = overdeleted \cup dels
      /\ added' = added \cup adds
      /\ netRem' = netRem \cup {x \in dels : NetDeleted(end[x])}
      /\ netAdd' = netAdd \cup {x \in adds : NetAdded(end[x])}
  BY LastStratumIsLast DEF Drain, GoTo, Inv, WorkOk, Typed
<1>2. Ledger(cell, delQ, addQ, {}, Count, facts)
  BY <1>1 DEF Inv, LedgerOk, Waiting
<1>3. /\ cell \in [Row -> Cell] /\ Count \subseteq Inst /\ Counts(cell, Count)
      /\ delQ \subseteq Old /\ addQ \subseteq Row
      /\ GainQueued(cell, addQ, {})
  BY <1>2 DEF Ledger, Old
<1>4. \A x \in Row : /\ Drained(x, phase, stratum, todo) <=> Level(x) < stratum
                     /\ ~Open(x, phase, todo)
  BY <1>1, LevelType DEF Drained, Open, Bands, Settling, Rounds
<1>5. \A x \in Row : /\ Drained(x, phase', stratum', todo') <=> Level(x) < stratum \/ x \in mine
                     /\ ~Open(x, phase', todo')
  <2>1. \A x \in Row : Level(x) = stratum /\ Group(x) # 0 => Group(x) \in SccsAt(stratum)
    BY DEF SccsAt, Level, Group
  <2> QED
    BY <1>1, <2>1, LevelType DEF Drained, Open, Bands, Settling, Rounds, Level, Group
<1>6. \A x \in mine : /\ x \in Row /\ Level(x) = stratum /\ Group(x) = 0
                      /\ ~(Level(x) < stratum)
                      /\ cell[x].f \cap {"kDel", "kAdd"} = {}
  <2>1. ASSUME NEW x \in mine
        PROVE  /\ x \in Row /\ Level(x) = stratum /\ Group(x) = 0
               /\ ~(Level(x) < stratum)
               /\ cell[x].f \cap {"kDel", "kAdd"} = {}
    <3>1. x \in Row /\ Level(x) = stratum /\ Group(x) = 0
      BY DEF Level, Group
    <3>2. ~(Level(x) < stratum)
      BY <1>1, <3>1
    <3> QED
      BY <1>4, <3>1, <3>2 DEF Inv, FlagsOk
  <2> QED
    BY <2>1
<1> HIDE DEF mine
<1>7. dels = {x \in mine : x \in delQ /\ cell[x].nr <= 0}
  BY <1>6 DEF DelClaims, CanClaimDel
<1>8. Marked(cell, mid, dels, {"kTouched", "kDel", "kDelNow"})
  BY <1>3, ClaimsMark
<1>9. adds = {x \in mine : x \in addQ /\ Total(cell[x]) > 0}
  <2>1. ASSUME NEW x \in mine
        PROVE  /\ "kAdd" \notin mid[x].f
               /\ Total(mid[x]) = Total(cell[x])
    <3>1. x \in Row /\ "kAdd" \notin cell[x].f
      BY <1>6
    <3> HIDE DEF mid, dels
    <3>2. "kAdd" \notin mid[x].f
      BY <1>8, <3>1 DEF Marked
    <3> QED
      BY <1>8, <3>1, <3>2 DEF Marked, Total
  <2> HIDE DEF mid
  <2> QED
    BY <2>1 DEF AddClaims, CanClaimAdd
<1>10. Marked(mid, end, adds, {"kTouched", "kAdd", "kAddNow"})
  <2>1. mid \in [Row -> Cell]
    BY <1>8 DEF Marked
  <2> HIDE DEF mid, adds
  <2> QED
    BY <2>1, ClaimsMark
<1> HIDE DEF dels, mid, adds, end
<1>11. ASSUME NEW x \in Row
       PROVE  /\ end[x].nr = cell[x].nr /\ end[x].r = cell[x].r
              /\ x \in mine \/ end[x] = cell[x]
              /\ \A g \in RowFlags \ {"kTouched", "kDel", "kDelNow", "kAdd", "kAddNow"} :
                     g \in end[x].f <=> g \in cell[x].f
              /\ "kDel" \in end[x].f <=> "kDel" \in cell[x].f \/ x \in dels
              /\ "kAdd" \in end[x].f <=> "kAdd" \in cell[x].f \/ x \in adds
              /\ x \in dels \cup adds => "kTouched" \in end[x].f
              /\ x \notin dels \cup adds => end[x] = cell[x]
              /\ end[x] \in Cell
  <2>1. dels \subseteq mine /\ adds \subseteq mine
    BY <1>7, <1>9
  <2>2. /\ mid[x].nr = cell[x].nr /\ mid[x].r = cell[x].r
        /\ x \in dels => mid[x].f = cell[x].f \cup {"kTouched", "kDel", "kDelNow"}
        /\ x \notin dels => mid[x] = cell[x]
    BY <1>8 DEF Marked
  <2>3. /\ end[x].nr = mid[x].nr /\ end[x].r = mid[x].r
        /\ x \in adds => end[x].f = mid[x].f \cup {"kTouched", "kAdd", "kAddNow"}
        /\ x \notin adds => end[x] = mid[x]
        /\ end[x] \in Cell
    BY <1>10 DEF Marked
  <2>4. CASE x \in dels
    BY <2>1, <2>2, <2>3, <2>4
  <2>5. CASE x \notin dels
    BY <2>1, <2>2, <2>3, <2>5
  <2> QED
    BY <2>4, <2>5
<1>12. end \in [Row -> Cell]
  BY <1>10 DEF Marked
(* A row of an acyclic table is there if it has a derivation. *)
<1>13. ASSUME NEW x \in mine
       PROVE  /\ InNew(end[x]) <=> Total(cell[x]) > 0
              /\ x \in dels => ~(Total(cell[x]) > 0)
  <2>1. x \in Row /\ cell[x].nr \in Int /\ cell[x].r \in Int /\ cell[x].r >= 0
    BY <1>3, <1>6, CountedTotal DEF Cell
  <2>2. cell[x].r = 0
    <3>1. ~(cell[x].r > 0)
      BY <1>3, <1>6, <2>1, AcyclicReads, CountedTotal
    <3> QED
      BY <2>1, <3>1
  <2>3. Total(cell[x]) > 0 <=> cell[x].nr > 0
    BY <2>1, <2>2 DEF Total
  <2>4. InNew(cell[x]) <=> x \in Old
    BY <1>6, <2>1 DEF InNew, SurvivesSoFar, Old, OldOf, InI
  <2>5. x \in dels => ~(Total(cell[x]) > 0)
    BY <1>7, <2>1, <2>3
  <2>6. CASE x \in Old
    <3>1. InNew(end[x]) <=> x \notin dels \/ x \in adds
      BY <1>6, <1>11, <2>1, <2>6 DEF InNew, SurvivesSoFar, Old, OldOf, InI, RowFlags
    <3>2. x \in adds => Total(cell[x]) > 0
      BY <1>9
    <3>3. ASSUME x \notin dels PROVE Total(cell[x]) > 0
      <4>1. CASE x \in delQ
        <5>1. cell[x].nr > 0
          BY <1>7, <2>1, <3>3, <4>1
        <5> QED
          BY <2>3, <5>1
      <4>2. CASE x \notin delQ
        <5>1. SurvivesSoFar(cell[x])
          BY <1>6, <2>1, <2>6 DEF SurvivesSoFar, Old, OldOf, InI
        <5> QED
          BY <1>2, <2>1, <4>2, <5>1, SurvivorSupported DEF Inv, ModelsOk, Old
      <4> QED
        BY <4>1, <4>2
    <3> QED
      BY <2>5, <3>1, <3>2, <3>3
  <2>7. CASE x \notin Old
    <3>1. InNew(end[x]) <=> x \in adds
      BY <1>6, <1>11, <2>1, <2>7 DEF InNew, SurvivesSoFar, Old, OldOf, InI, RowFlags
    <3>2. x \in adds <=> x \in addQ /\ Total(cell[x]) > 0
      BY <1>9
    <3>3. Total(cell[x]) > 0 => x \in addQ
      BY <1>3, <2>1, <2>4, <2>7 DEF GainQueued
    <3>4. x \notin dels
      BY <1>3, <1>7, <2>7
    <3> QED
      BY <3>1, <3>2, <3>3, <3>4
  <2> QED
    BY <2>5, <2>6, <2>7
(* And that is so iff it is in the new model. *)
<1>14. ASSUME NEW x \in mine
       PROVE  Total(cell[x]) > 0 <=> x \in Target
  <2>1. x \in Row /\ Level(x) = stratum /\ Group(x) = 0
    BY <1>6
  <2>2. \A i \in Inst : i.head = x => (i \in Count <=> Holds(i, Target))
    <3>1. ASSUME NEW i \in Inst, i.head = x
          PROVE  i \in Count <=> Holds(i, Target)
      <4>1. i.at <= stratum /\ i.at \in Nat
        BY <2>1, <3>1, HeadsAndAtoms DEF Level
      <4>2. i \in Count <=> Holds(i, Now)
        BY <1>1, <4>1, CountSettled DEF Count, CountedBy, Settling
      <4>3. \A y \in BodyRows(i) \cup i.neg : y \in Now <=> y \in Target
        <5>1. ASSUME NEW y \in BodyRows(i) \cup i.neg
              PROVE  y \in Now <=> y \in Target
          <6>1. y \in Row /\ Level(y) < i.at /\ Level(y) \in Nat
            BY <2>1, <3>1, AcyclicReads, LevelType
          <6>2. Level(y) < stratum
            BY <1>1, <4>1, <6>1
          <6> QED
            BY <1>4, <6>1, <6>2 DEF Inv, ModelsOk
        <5> QED
          BY <5>1
      <4> QED
        BY <4>2, <4>3 DEF Holds
    <3> QED
      BY <3>1
  <2>3. "kExplicit" \in cell[x].f <=> x \in NewFacts
    BY <1>1, <2>1 DEF Inv, FlagsOk
  <2>4. Total(cell[x]) > 0 <=> (\E i \in Inst : i.head = x /\ Holds(i, Target)) \/ x \in NewFacts
    BY <1>3, <2>1, <2>2, <2>3, CountedTotal
  <2> QED
    BY <2>4, TargetFacts DEF Inv
<1>15. Old' = Old
  BY <1>1, <1>11 DEF Old, OldOf, InI, RowFlags
<1>16. Now' \subseteq Row /\ \A x \in Row : x \in mine \/ (x \in Now' <=> x \in Now)
  BY <1>1, <1>11 DEF Now, NowOf
<1>17. Typed'
  BY <1>1 DEF Inv, Typed, Phases, Settling
<1>18. WorkOk'
  <2>1. SccsAt(stratum)' = SccsAt(stratum)
    BY <1>1 DEF SccsAt
  <2> QED
    BY <1>1, <2>1 DEF WorkOk, Rounds
<1>19. FlagsOk'
  <2>1. ASSUME NEW x \in Row
        PROVE  /\ FlagsOf(cell'[x])
               /\ Group(x) # 0 => cell'[x].f \cap {"kDelNow", "kAddNow"} = {}
               /\ ~Drained(x, phase', stratum', todo') => cell'[x].f \cap {"kDel", "kAdd"} = {}
               /\ "kExplicit" \in cell'[x].f <=> x \in NewFacts'
    <3>1. NewFacts' = NewFacts
      BY <1>1 DEF NewFacts
    <3>2. /\ FlagsOf(cell[x])
          /\ Group(x) # 0 => cell[x].f \cap {"kDelNow", "kAddNow"} = {}
          /\ ~(Level(x) < stratum) => cell[x].f \cap {"kDel", "kAdd"} = {}
          /\ "kExplicit" \in cell[x].f <=> x \in NewFacts
      BY <1>1, <1>4 DEF Inv, FlagsOk
    <3>3. FlagsOf(cell'[x])
      <4>1. CASE x \in dels \cup adds
        <5>1. x \in dels => "kInI" \in cell[x].f
          BY <1>3, <1>7 DEF Old, OldOf, InI
        <5> QED
          BY <1>1, <1>11, <3>2, <4>1, <5>1 DEF FlagsOf, RowFlags
      <4>2. CASE x \notin dels \cup adds
        BY <1>1, <1>11, <3>2, <4>2
      <4> QED
        BY <4>1, <4>2
    <3>4. "kExplicit" \in cell'[x].f <=> x \in NewFacts'
      BY <1>1, <1>11, <3>1, <3>2 DEF RowFlags
    <3>5. CASE x \in mine
      BY <1>5, <1>6, <3>3, <3>4, <3>5
    <3>6. CASE x \notin mine
      BY <1>1, <1>5, <1>11, <3>2, <3>3, <3>4, <3>6
    <3> QED
      BY <3>5, <3>6
  <2> QED
    BY <1>1, <1>5, <2>1 DEF FlagsOk
<1>20. VectorsOk'
  <2>1. dels \subseteq Row /\ adds \subseteq Row /\ dels \subseteq mine /\ adds \subseteq mine
    BY <1>6, <1>7, <1>9
  <2>2. overdeleted' = {x \in Row : "kDel" \in cell'[x].f}
    BY <1>1, <1>11, <2>1 DEF Inv, VectorsOk
  <2>3. added' = {x \in Row : "kAdd" \in cell'[x].f}
    BY <1>1, <1>11, <2>1 DEF Inv, VectorsOk
  <2>4. ASSUME NEW x \in Row
        PROVE  /\ x \in netRem' <=> Drained(x, phase', stratum', todo') /\ NetDeleted(cell'[x])
               /\ x \in netAdd' <=> Drained(x, phase', stratum', todo') /\ NetAdded(cell'[x])
    <3>1. /\ x \in netRem <=> Level(x) < stratum /\ NetDeleted(cell[x])
          /\ x \in netAdd <=> Level(x) < stratum /\ NetAdded(cell[x])
      BY <1>4 DEF Inv, VectorsOk
    <3>2. CASE x \in mine
      <4>1. NetDeleted(end[x]) => x \in dels
        BY <1>6, <1>11, <3>2 DEF NetDeleted
      <4>2. NetAdded(end[x]) => x \in adds
        BY <1>6, <1>11, <3>2 DEF NetAdded
      <4> QED
        BY <1>1, <1>5, <1>6, <3>1, <3>2, <4>1, <4>2
    <3>3. CASE x \notin mine
      BY <1>1, <1>5, <1>11, <2>1, <3>1, <3>3
    <3> QED
      BY <3>2, <3>3
  <2>5. netRem' \subseteq Row /\ netAdd' \subseteq Row
    BY <1>1, <2>1 DEF Inv, VectorsOk
  <2> QED
    BY <2>2, <2>3, <2>4, <2>5 DEF VectorsOk
<1>21. Count' = Count
  <2>1. ASSUME NEW i \in Inst
        PROVE  Counted(i, Old', Now', phase', stratum', todo') <=> Counted(i, Old, Now, phase, stratum, todo)
    <3>1. i.at \in Nat /\ i.at <= Level(i.head)
      BY InstancesTyped, HeadsAndAtoms DEF Level
    <3>2. CASE i.at <= stratum
      <4>1. \A y \in BodyRows(i) \cup i.neg : y \in Row /\ y \notin mine
        <5>1. ASSUME NEW y \in BodyRows(i) \cup i.neg
              PROVE  y \in Row /\ y \notin mine
          <6>1. y \in Row /\ Level(y) \in Nat /\ (Level(y) < i.at \/ SameScc(i.head, y))
            BY HeadsAndAtoms, LevelType DEF Level
          <6>2. CASE Level(y) < i.at
            <7>1. ~(Level(y) = stratum)
              BY <1>1, <3>1, <3>2, <6>1, <6>2
            <7> QED
              BY <1>6, <6>1, <7>1
          <6>3. CASE SameScc(i.head, y)
            BY <1>6, <6>1, <6>3 DEF SameScc, Group
          <6> QED
            BY <6>1, <6>2, <6>3
        <5> QED
          BY <5>1
      <4>2. Holds(i, Now') <=> Holds(i, Now)
        BY <1>16, <4>1 DEF Holds
      <4> QED
        BY <1>1, <3>2, <4>2, CountSettled DEF Settling
    <3>3. CASE stratum < i.at
      BY <1>1, <1>15, <3>3, CountAbove
    <3> QED
      BY <1>1, <3>1, <3>2, <3>3
  <2> QED
    BY <2>1 DEF Count, CountedBy
<1>22. LedgerOk'
  <2>1. GainQueued(end, addQ, {})
    <3>1. ASSUME NEW x \in Row, Total(end[x]) > 0
          PROVE  InNew(end[x]) \/ x \in addQ
      <4>1. Total(cell[x]) > 0
        BY <1>11, <3>1 DEF Total
      <4>2. CASE x \in mine
        BY <1>13, <4>1, <4>2
      <4>3. CASE x \notin mine
        BY <1>3, <1>11, <4>1, <4>3 DEF GainQueued
      <4> QED
        BY <4>2, <4>3
    <3> QED
      BY <3>1 DEF GainQueued
  <2>2. \A x \in Row : /\ end[x].nr = cell[x].nr /\ end[x].r = cell[x].r
                       /\ "kInI" \in end[x].f <=> "kInI" \in cell[x].f
                       /\ "kExplicit" \in end[x].f <=> "kExplicit" \in cell[x].f
                       /\ SurvivesSoFar(end[x]) => SurvivesSoFar(cell[x])
    BY <1>11 DEF RowFlags, SurvivesSoFar
  <2>4. Ledger(end, delQ, addQ, {}, Count, facts)
    BY <1>2, <1>3, <1>12, <2>1, <2>2, LedgerReflag
  <2>5. Waiting(cell', phase', todo') = {}
    BY <1>5 DEF Waiting
  <2> QED
    BY <1>1, <1>21, <2>4, <2>5 DEF LedgerOk
<1>23. ModelsOk'
  <2>1. Target' = Target
    BY <1>1 DEF Target
  <2>2. ASSUME NEW x \in Row, Drained(x, phase', stratum', todo')
        PROVE  x \in Now' <=> x \in Target'
    <3>1. CASE x \in mine
      BY <1>1, <1>13, <1>14, <2>1, <2>2, <3>1 DEF Now, NowOf
    <3>2. CASE x \notin mine
      BY <1>4, <1>5, <1>16, <2>1, <2>2, <3>2 DEF Inv, ModelsOk
    <3> QED
      BY <3>1, <3>2
  <2> QED
    BY <1>1, <1>15, <2>1, <2>2 DEF Inv, ModelsOk
<1> QED
  BY <1>17, <1>18, <1>19, <1>20, <1>22, <1>23 DEF Inv

-----------------------------------------------------------------------------
(* The SCCs of a stratum, in ascending order. *)

(* The rows of an SCC are drained at one stratum.                          *)
LEMMA SccShape ==
    ASSUME NEW st, NEW g \in SccsAt(st)
    PROVE  /\ g \in Nat \ {0}
           /\ \A x \in Row : Group(x) = g => Level(x) = st
           /\ SccRows(g) = {x \in Row : Group(x) = g}
<1>1. PICK y \in Row : Level(y) = st /\ Group(y) # 0 /\ g = Group(y)
  BY DEF SccsAt, Level, Group
<1>2. ASSUME NEW x \in Row, Group(x) = g
      PROVE  Level(x) = st
  <2>1. SameScc(y, x)
    BY <1>1, <1>2 DEF SameScc, Group
  <2> QED
    BY <1>1, <2>1, ProgramFinite DEF Level
<1>3. SccRows(g) = {x \in Row : Group(x) = g}
  BY DEF SccRows, Group
<1> QED
  BY <1>1, <1>2, <1>3, LevelType

(* A recursive row belongs to an SCC of its stratum.                       *)
LEMMA GroupAt ==
    ASSUME NEW x \in Row, Group(x) # 0
    PROVE  Group(x) \in SccsAt(Level(x))
BY DEF SccsAt, Level, Group

(* After the folds of a stratum, how far its drains have got is nothing to *)
(* the count.                                                              *)
LEMMA CountSame ==
    ASSUME NEW i \in Inst, NEW old, NEW now, NEW ph \in Settling, NEW ph2 \in Settling,
           NEW st \in Nat, NEW td, NEW td2
    PROVE  Counted(i, old, now, ph2, st, td2) <=> Counted(i, old, now, ph, st, td)
<1>1. i.at \in Nat
  BY InstancesTyped
<1>2. CASE i.at <= st
  BY <1>2, CountSettled
<1>3. CASE st < i.at
  BY <1>3, CountAbove
<1> QED
  BY <1>1, <1>2, <1>3

(* In the rounds of g.                                                     *)
LEMMA RoundShape ==
    ASSUME Typed, WorkOk, NEW ph \in Rounds, NEW g \in SccsAt(stratum), NEW x \in Row
    PROVE  /\ stratum \in Nat /\ g \in Nat \ {0}
           /\ Open(x, ph, {g}) <=> Group(x) = g
           /\ Group(x) = g => Level(x) = stratum
           /\ Drained(x, ph, stratum, {g}) <=>
                  Level(x) < stratum \/ (Level(x) = stratum /\ Group(x) < g)
           /\ x \in SccRows(g) <=> Group(x) = g
<1>1. /\ stratum \in Nat /\ g \in Nat \ {0}
      /\ Group(x) = g => Level(x) = stratum
      /\ x \in SccRows(g) <=> Group(x) = g
  BY SccShape, LastStratumIsLast DEF Typed
<1>2. Level(x) \in Nat /\ Group(x) \in Nat
  BY LevelType
<1>3. Open(x, ph, {g}) <=> Group(x) = g
  BY <1>1 DEF Open
<1>4. ph # "commit" /\ ph # "scc" /\ ph \in Settling
  BY DEF Settling, Rounds
<1> QED
  BY <1>1, <1>2, <1>3, <1>4 DEF Drained

(* Starting the rounds of the next SCC keeps the invariant.                *)
LEMMA StartSccPreserves ==
    ASSUME Inv, NEW g, StartScc(g)
    PROVE  Inv'
<1>1. /\ phase = "scc" /\ phase' = "del" /\ g \in todo /\ todo' = {g} /\ \A h \in todo : g <= h
      /\ UNCHANGED <<cell, delQ, addQ, overdeleted, added, netRem, netAdd, batch, facts, stratum>>
      /\ stratum \in Nat /\ stratum \in 0..LastStratum
  BY LastStratumIsLast DEF StartScc, Inv, Typed
<1>2. /\ g \in SccsAt(stratum) /\ todo \subseteq SccsAt(stratum)
      /\ \A h \in SccsAt(stratum) : g <= h => h \in todo
  BY <1>1 DEF Inv, WorkOk
<1>3. g \in Nat \ {0} /\ phase' \in Rounds /\ phase \in Settling /\ phase' \in Settling
  BY <1>1, <1>2, SccShape DEF Rounds, Settling
<1>4. ASSUME NEW x \in Row
      PROVE  /\ Drained(x, phase', stratum', todo') <=> Drained(x, phase, stratum, todo)
             /\ Open(x, phase', todo') <=> Group(x) = g
             /\ ~Open(x, phase, todo)
             /\ Group(x) = g => ~Drained(x, phase, stratum, todo)
  <2>1. Level(x) \in Nat /\ Group(x) \in Nat
    BY LevelType
  <2>2. /\ Open(x, phase', todo') <=> Group(x) = g
        /\ Group(x) = g => Level(x) = stratum
        /\ Drained(x, phase', stratum', todo') <=>
                  Level(x) < stratum \/ (Level(x) = stratum /\ Group(x) < g)
    BY <1>1, <1>2, <1>3, RoundShape DEF Inv
  <2>3. ~Open(x, phase, todo)
    BY <1>1 DEF Open, Rounds
  <2>4. Drained(x, phase, stratum, todo) <=>
           \/ Level(x) < stratum
           \/ Level(x) = stratum /\ (Group(x) = 0 \/ Group(x) \notin todo)
    BY <1>1, <2>1 DEF Drained, Settling, Rounds
  <2>5. ASSUME Level(x) = stratum, Group(x) # 0
        PROVE  Group(x) \in todo <=> g <= Group(x)
    <3>1. Group(x) \in SccsAt(stratum)
      BY <2>5, GroupAt
    <3> QED
      BY <1>1, <1>2, <3>1
  <2>6. Group(x) = g => ~Drained(x, phase, stratum, todo)
    BY <1>1, <1>3, <2>1, <2>2, <2>4
  <2>7. Level(x) = stratum => ((Group(x) = 0 \/ Group(x) \notin todo) <=> Group(x) < g)
    <3>1. CASE Group(x) = 0
      BY <1>3, <3>1
    <3>2. CASE Group(x) # 0
      BY <1>3, <2>1, <2>5, <3>2
    <3> QED
      BY <3>1, <3>2
  <2> QED
    BY <2>2, <2>3, <2>4, <2>6, <2>7
<1>5. Old' = Old /\ Now' = Now /\ Target' = Target /\ NewFacts' = NewFacts
  BY <1>1 DEF Old, Now, Target, NewFacts
<1>6. Typed'
  BY <1>1 DEF Inv, Typed, Phases, Settling, Rounds
<1>7. WorkOk'
  <2>1. SccsAt(stratum)' = SccsAt(stratum)
    BY <1>1 DEF SccsAt
  <2> QED
    BY <1>1, <1>2, <2>1 DEF Inv, WorkOk, Rounds
<1>8. FlagsOk'
  <2>1. ASSUME NEW x \in Row
        PROVE  /\ FlagsOf(cell'[x])
               /\ Group(x) # 0 => cell'[x].f \cap {"kDelNow", "kAddNow"} = {}
               /\ ~Drained(x, phase', stratum', todo') /\ ~Open(x, phase', todo') =>
                      cell'[x].f \cap {"kDel", "kAdd"} = {}
               /\ Open(x, phase', todo') => "kAdd" \notin cell'[x].f
               /\ "kExplicit" \in cell'[x].f <=> x \in NewFacts'
    <3>1. /\ FlagsOf(cell[x])
          /\ Group(x) # 0 => cell[x].f \cap {"kDelNow", "kAddNow"} = {}
          /\ ~Drained(x, phase, stratum, todo) => cell[x].f \cap {"kDel", "kAdd"} = {}
          /\ "kExplicit" \in cell[x].f <=> x \in NewFacts
      BY <1>1, <1>4 DEF Inv, FlagsOk
    <3> QED
      BY <1>1, <1>4, <1>5, <3>1
  <2> QED
    BY <1>1, <2>1 DEF FlagsOk
<1>9. VectorsOk'
  BY <1>1, <1>4 DEF Inv, VectorsOk
<1>10. LedgerOk'
  <2>1. Waiting(cell', phase', todo') = {} /\ Waiting(cell, phase, todo) = {}
    <3>1. ASSUME NEW x \in Row, Group(x) = g
          PROVE  "kDel" \notin cell[x].f
      BY <1>4, <3>1 DEF Inv, FlagsOk
    <3> QED
      BY <1>1, <1>4, <3>1 DEF Waiting
  <2>2. Count' = Count
    BY <1>1, <1>3, <1>5, CountSame DEF Count, CountedBy
  <2>3. Ledger(cell, delQ, addQ, Waiting(cell, phase, todo), Count, facts)
    BY DEF Inv, LedgerOk
  <2> QED
    BY <1>1, <2>1, <2>2, <2>3 DEF LedgerOk
<1>11. ModelsOk'
  BY <1>1, <1>4, <1>5 DEF Inv, ModelsOk
<1> QED
  BY <1>6, <1>7, <1>8, <1>9, <1>10, <1>11 DEF Inv

-----------------------------------------------------------------------------
(* What a round fires.  The small set S and the big set B of present rows  *)
(* differ by the frontier delta, rows of the SCC; a row before the firing  *)
(* position is read as after the round, one behind it as before.           *)

Reads(cells, g, S, B, isDel) ==
    /\ \A y \in Row : InNew(cells[y]) <=> y \in (IF isDel THEN S ELSE B)
    /\ \A y \in SccRows(g) :
           IF isDel
           THEN /\ SurvivesSoFar(cells[y]) <=> y \in S
                /\ AliveAtClaim(cells[y]) <=> y \in B
           ELSE /\ InNewWithFrontier(cells[y]) <=> y \in B
                /\ InNewSansFrontier(cells[y]) <=> y \in S

FiresAt(i, p, S, B, delta, isDel) ==
    /\ p \in DOMAIN i.body /\ i.body[p] \in delta
    /\ \A q \in DOMAIN i.body \ {p} :
           i.body[q] \in (IF (q < p) = isDel THEN S ELSE B)

(* Reading strictly after a position and permissively before it singles    *)
(* out one position of an instance.                                        *)
LEMMA RoundReads ==
    ASSUME NEW cells, NEW g \in Nat \ {0}, NEW S, NEW B, NEW delta, NEW isDel \in BOOLEAN,
           B = S \cup delta, S \cap delta = {}, delta \subseteq SccRows(g),
           Reads(cells, g, S, B, isDel),
           NEW i \in Inst, i.kind = "join", i.head \in SccRows(g), NEW p
    PROVE  <<i, p>> \in JoinFires(cells, g, delta, isDel) <=> FiresAt(i, p, S, B, delta, isDel)
<1>1. ASSUME NEW y \in Row
      PROVE  /\ SameScc(i.head, y) <=> y \in SccRows(g)
             /\ y \notin SccRows(g) => (y \in S <=> y \in B) /\ y \notin delta
  BY DEF SameScc, SccRows
<1>2. /\ DOMAIN i.body \subseteq Nat \ {0}
      /\ \A q \in DOMAIN i.body : i.body[q] \in Row
  BY OtherShape
<1>3. ASSUME p \in DOMAIN i.body, NEW q \in DOMAIN i.body \ {p}
      PROVE  SideReads(cells, i, p, q, isDel) <=>
                 i.body[q] \in (IF (q < p) = isDel THEN S ELSE B)
  <2> DEFINE y == i.body[q]
  <2>1. y \in Row /\ p \in Nat /\ q \in Nat
    BY <1>2, <1>3
  <2>2. CASE ~SameScc(i.head, y)
    <3>1. y \notin SccRows(g) /\ (y \in S <=> y \in B)
      BY <1>1, <2>1, <2>2
    <3>2. SideReads(cells, i, p, q, isDel) <=> InNew(cells[y])
      BY <2>2 DEF SideReads
    <3> QED
      BY <2>1, <3>1, <3>2 DEF Reads
  <2>3. CASE SameScc(i.head, y)
    <3>1. y \in SccRows(g)
      BY <1>1, <2>1, <2>3
    <3>2. SideReads(cells, i, p, q, isDel) <=>
             IF isDel THEN IF q < p THEN SurvivesSoFar(cells[y]) ELSE AliveAtClaim(cells[y])
             ELSE IF q < p THEN InNewWithFrontier(cells[y]) ELSE InNewSansFrontier(cells[y])
      BY <2>3 DEF SideReads
    <3> HIDE DEF y
    <3>3. CASE isDel = TRUE
      BY <3>1, <3>2, <3>3 DEF Reads, y
    <3>4. CASE isDel = FALSE
      BY <3>1, <3>2, <3>4 DEF Reads, y
    <3> QED
      BY <3>3, <3>4
  <2> QED
    BY <2>2, <2>3
<1>4. <<i, p>> \in JoinFires(cells, g, delta, isDel) <=>
          /\ p \in DOMAIN i.body /\ SameScc(i.head, i.body[p]) /\ i.body[p] \in delta
          /\ \A q \in DOMAIN i.body \ {p} : SideReads(cells, i, p, q, isDel)
  <2> DEFINE J == {j \in Inst : j.kind = "join" /\ j.head \in SccRows(g)}
  <2>1. i \in J
    OBVIOUS
  <2>2. <<i, p>> \in Positions(J) <=> p \in DOMAIN i.body
    <3> HIDE DEF J
    <3>1. <<i, p>> \in Positions(J) <=> \E j \in J : \E q \in DOMAIN j.body : <<i, p>> = <<j, q>>
      BY PositionsShape
    <3> QED
      BY <2>1, <3>1
  <2> QED
    BY <2>2 DEF JoinFires
<1>5. i.body[p] \in delta => i.body[p] \in Row /\ i.body[p] \in SccRows(g)
  BY DEF SccRows
<1> QED
  BY <1>1, <1>3, <1>4, <1>5 DEF FiresAt

RoundWork(g, S, B) == {i \in Inst : i.head \in SccRows(g) /\ Holds(i, B) /\ ~Holds(i, S)}

(* A round fires the instances of its SCC that gain or lose their last     *)
(* frontier row, each of them at one position.                             *)
LEMMA RoundFired ==
    ASSUME NEW cells, NEW st, NEW g \in SccsAt(st), NEW S, NEW B, NEW delta, NEW isDel \in BOOLEAN,
           B = S \cup delta, S \cap delta = {}, delta \subseteq SccRows(g),
           Reads(cells, g, S, B, isDel)
    PROVE  /\ Fired(RoundFires(cells, g, delta, isDel)) = RoundWork(g, S, B)
           /\ Once(RoundFires(cells, g, delta, isDel))
<1> DEFINE joins == JoinFires(cells, g, delta, isDel)
           chains == ChainFires(cells, g, delta)
           fires == RoundFires(cells, g, delta, isDel)
           wanted == RoundWork(g, S, B)
<1>1. g \in Nat \ {0} /\ SccRows(g) \subseteq Row /\ SccRows(g) = {x \in Row : Group(x) = g}
  BY SccShape DEF SccRows
<1>2. ASSUME NEW i \in Inst, i.head \in SccRows(g)
      PROVE  /\ \A y \in i.neg : y \in Row /\ y \notin SccRows(g) /\ (y \in S <=> y \in B)
             /\ Holds(i, B) /\ ~Holds(i, S) <=>
                    /\ BodyRows(i) \subseteq B /\ BodyRows(i) \cap delta # {}
                    /\ i.neg \cap B = {}
             /\ i.kind \in {"chain", "join"}
             /\ i \in wanted <=> Holds(i, B) /\ ~Holds(i, S)
  <2>1. ASSUME NEW y \in i.neg
        PROVE  y \in Row /\ y \notin SccRows(g)
    <3>1. y \in Row /\ Level(y) < i.at /\ i.at <= Level(i.head) /\ i.at \in Nat
          /\ Level(y) \in Nat /\ Level(i.head) \in Nat
      BY HeadsAndAtoms, LevelType DEF Level
    <3>2. Level(y) # Level(i.head)
      BY <3>1
    <3> QED
      BY <1>1, <1>2, <3>1, <3>2, SccShape
  <2>2. i.kind \in {"chain", "join"}
    BY <1>1, <1>2, InstancesTyped, ProgramWellFormed DEF Group
  <2>3. i \in wanted <=> Holds(i, B) /\ ~Holds(i, S)
    BY <1>2 DEF RoundWork
  <2>4. Holds(i, B) /\ ~Holds(i, S) <=>
                    /\ BodyRows(i) \subseteq B /\ BodyRows(i) \cap delta # {}
                    /\ i.neg \cap B = {}
    BY <2>1 DEF Holds
  <2> HIDE DEF wanted
  <2> QED
    BY <2>1, <2>2, <2>3, <2>4
<1>3. ASSUME NEW i, NEW p
      PROVE  <<i, p>> \in joins =>
                 /\ i \in Inst /\ i.kind = "join" /\ i.head \in SccRows(g)
                 /\ p \in DOMAIN i.body
  <2>1. <<i, p>> \in joins => <<i, p>> \in
            Positions({j \in Inst : j.kind = "join" /\ j.head \in SccRows(g)})
    BY DEF JoinFires
  <2> QED
    BY <2>1, PositionsShape
<1>4. \A e \in joins : e = <<e[1], e[2]>>
  <2>1. ASSUME NEW e \in joins
        PROVE  e = <<e[1], e[2]>>
    <3>1. e \in Positions({j \in Inst : j.kind = "join" /\ j.head \in SccRows(g)})
      BY DEF JoinFires
    <3>2. PICK j, q : e = <<j, q>>
      BY <3>1, PositionsShape
    <3> QED
      BY <3>2
  <2> QED
    BY <2>1
<1>5. ASSUME NEW i \in Inst, i.kind = "join", i.head \in SccRows(g), NEW p
      PROVE  <<i, p>> \in joins <=>
               /\ p \in DOMAIN i.body /\ i.body[p] \in delta
               /\ \A q \in DOMAIN i.body \ {p} :
                      i.body[q] \in (IF (q < p) = isDel THEN S ELSE B)
  <2>1. <<i, p>> \in JoinFires(cells, g, delta, isDel) <=> FiresAt(i, p, S, B, delta, isDel)
    BY <1>1, <1>5, RoundReads
  <2> QED
    BY <2>1 DEF FiresAt
(* A chain fires iff its row is in the frontier. *)
<1>6. ASSUME NEW i \in Inst, i.kind = "chain", i.head \in SccRows(g)
      PROVE  <<i, 1>> \in chains <=> i \in wanted
  <2>1. BodyRows(i) = {i.body[1]} /\ i.body[1] \in Row
    BY <1>6, ChainShape
  <2>2. i.body[1] \in delta => RoundsOnly(i)
    BY <1>1, <1>6, <2>1 DEF RoundsOnly, AllSidesSameScc, SameScc, SccRows
  <2>3. \A y \in i.neg : ~InNew(cells[y]) <=> y \notin B
    BY <1>2, <1>6 DEF Reads
  <2>4. i \in wanted <=> i.body[1] \in delta /\ \A y \in i.neg : y \notin B
    BY <1>2, <1>6, <2>1
  <2>5. <<i, 1>> \in chains <=>
            /\ RoundsOnly(i) /\ i.body[1] \in delta
            /\ \A y \in i.neg : ~InNew(cells[y])
    BY <1>6 DEF ChainFires
  <2> QED
    BY <2>2, <2>3, <2>4, <2>5
(* A join fires at its last frontier row in the rounds that add, at its    *)
(* first one in those that delete.                                         *)
<1>7. ASSUME NEW i \in Inst, i.kind = "join", i.head \in SccRows(g)
      PROVE  /\ (\E p : <<i, p>> \in joins) <=> i \in wanted
             /\ \A p, q : <<i, p>> \in joins /\ <<i, q>> \in joins => p = q
  <2> DEFINE at == {p \in DOMAIN i.body : i.body[p] \in delta}
  <2>1. /\ DOMAIN i.body \subseteq Nat \ {0} /\ i.neg = {}
        /\ \A q \in DOMAIN i.body : i.body[q] \in Row
    BY <1>7, OtherShape
  <2>2. i \in wanted <=> /\ at # {}
                         /\ \A q \in DOMAIN i.body : i.body[q] \in B
    <3>1. i \in wanted <=> BodyRows(i) \subseteq B /\ BodyRows(i) \cap delta # {}
      <4> HIDE DEF wanted
      <4> QED
        BY <1>2, <1>7, <2>1
    <3>2. BodyRows(i) \cap delta # {} <=> at # {}
      BY DEF BodyRows
    <3>3. BodyRows(i) \subseteq B <=> \A q \in DOMAIN i.body : i.body[q] \in B
      BY DEF BodyRows
    <3> HIDE DEF wanted, at
    <3> QED
      BY <3>1, <3>2, <3>3
  <2>3. at \subseteq Nat /\ IsFiniteSet(at)
    <3>1. IsFiniteSet(DOMAIN i.body)
      <4>1. i.body \in Seq(Row)
        BY InstancesTyped
      <4>2. DOMAIN i.body = 1..Len(i.body) /\ Len(i.body) \in Nat
        BY <4>1
      <4> QED
        BY <4>2, FS_Interval
    <3> QED
      BY <2>1, <3>1, FS_Subset
  <2>4. ASSUME NEW p \in at, NEW q \in at, p # q
        PROVE  /\ p \in Nat /\ q \in Nat
               /\ <<i, p>> \in joins => (q < p) # isDel
    <3>1. p \in DOMAIN i.body /\ q \in DOMAIN i.body \ {p} /\ i.body[q] \notin S
      BY <2>4
    <3> QED
      BY <1>5, <1>7, <2>3, <3>1
  <2>5. \A p : <<i, p>> \in joins => p \in at /\ i \in wanted
    <3>1. ASSUME NEW p, <<i, p>> \in joins
          PROVE  p \in at /\ i \in wanted
      <4>1. p \in at /\ \A q \in DOMAIN i.body \ {p} : i.body[q] \in B
        BY <1>5, <1>7, <3>1
      <4> QED
        BY <2>2, <4>1
    <3> QED
      BY <3>1
  <2>6. \A p, q : <<i, p>> \in joins /\ <<i, q>> \in joins => p = q
    <3>1. SUFFICES ASSUME NEW p, NEW q, <<i, p>> \in joins, <<i, q>> \in joins, p # q
                   PROVE  FALSE
      OBVIOUS
    <3>2. p \in at /\ q \in at
      BY <2>5, <3>1
    <3>3. p \in Nat /\ q \in Nat /\ (q < p) # isDel /\ (p < q) # isDel
      BY <2>4, <3>1, <3>2
    <3> QED
      BY <3>1, <3>3
  <2>7. ASSUME i \in wanted
        PROVE  \E p : <<i, p>> \in joins
    <3>1. at # {} /\ \A q \in DOMAIN i.body : i.body[q] \in B
      BY <2>2, <2>7
    <3>2. ASSUME NEW p \in at,
                 \A q \in DOMAIN i.body \ {p} : (q < p) = isDel => q \notin at
          PROVE  <<i, p>> \in joins
      <4>1. ASSUME NEW q \in DOMAIN i.body \ {p}
            PROVE  i.body[q] \in (IF (q < p) = isDel THEN S ELSE B)
        BY <3>1, <3>2
      <4> QED
        BY <1>5, <1>7, <4>1
    <3> HIDE DEF at
    <3>3. CASE isDel = TRUE
      <4>1. PICK p \in at : \A q \in at : p <= q
        BY <2>3, <3>1, NatLeast
      <4>2. \A q \in DOMAIN i.body \ {p} : (q < p) = isDel => q \notin at
        <5>1. ASSUME NEW q \in DOMAIN i.body \ {p}, (q < p) = isDel
              PROVE  q \notin at
          <6>1. q \in Nat /\ p \in Nat /\ q < p
            BY <2>1, <2>3, <3>3, <5>1
          <6> QED
            BY <4>1, <6>1
        <5> QED
          BY <5>1
      <4> QED
        BY <3>2, <4>2
    <3>4. CASE isDel = FALSE
      <4>1. PICK p \in at : \A q \in at : q <= p
        BY <2>3, <3>1, FiniteMax
      <4>2. \A q \in DOMAIN i.body \ {p} : (q < p) = isDel => q \notin at
        <5>1. ASSUME NEW q \in DOMAIN i.body \ {p}, (q < p) = isDel
              PROVE  q \notin at
          <6>1. q \in Nat /\ p \in Nat /\ q # p
            BY <2>1, <2>3
          <6>2. p < q
            BY <3>4, <5>1, <6>1
          <6> QED
            BY <4>1, <6>1, <6>2
        <5> QED
          BY <5>1
      <4> QED
        BY <3>2, <4>2
    <3> QED
      BY <3>3, <3>4
  <2> QED
    BY <2>5, <2>6, <2>7
<1>8. \A e \in chains : /\ e = <<e[1], 1>> /\ e[1] \in Inst /\ e[1].kind = "chain"
                        /\ e[1].head \in SccRows(g)
  BY DEF ChainFires
<1>9. fires = joins \cup chains
  BY DEF RoundFires
<1>10. \A e \in joins : /\ e[1] \in Inst /\ e[1].kind = "join" /\ e[1].head \in SccRows(g)
  BY <1>3, <1>4
<1> HIDE DEF joins, chains, fires, wanted
<1>11. Fired(fires) \subseteq wanted
  <2>1. ASSUME NEW e \in fires
        PROVE  e[1] \in wanted
    <3>1. CASE e \in joins
      <4>1. <<e[1], e[2]>> \in joins
        BY <1>4, <3>1
      <4>2. e[1] \in Inst /\ e[1].kind = "join" /\ e[1].head \in SccRows(g)
        BY <1>10, <3>1
      <4> QED
        BY <1>7, <4>1, <4>2
    <3>2. CASE e \in chains
      <4>1. /\ <<e[1], 1>> \in chains /\ e[1] \in Inst
            /\ e[1].kind = "chain" /\ e[1].head \in SccRows(g)
        BY <1>8, <3>2
      <4> QED
        BY <1>6, <4>1
    <3> QED
      BY <1>9, <3>1, <3>2
  <2> QED
    BY <2>1 DEF Fired
<1>12. wanted \subseteq Fired(fires)
  <2>1. ASSUME NEW i \in wanted
        PROVE  \E e \in fires : e[1] = i
    <3>1. i \in Inst /\ i.head \in SccRows(g)
      BY DEF wanted, RoundWork
    <3>2. CASE i.kind = "chain"
      <4>1. <<i, 1>> \in fires
        BY <1>6, <1>9, <3>1, <3>2
      <4> QED
        BY <4>1
    <3>3. CASE i.kind = "join"
      <4>1. PICK p : <<i, p>> \in joins
        BY <1>7, <3>1, <3>3
      <4> QED
        BY <1>9, <4>1
    <3> QED
      BY <1>2, <3>1, <3>2, <3>3
  <2> QED
    BY <2>1 DEF Fired
<1>13. Once(fires)
  <2>1. ASSUME NEW d \in fires, NEW e \in fires, d[1] = e[1]
        PROVE  d = e
    <3>1. CASE d \in joins /\ e \in joins
      <4>1. d = <<d[1], d[2]>> /\ e = <<d[1], e[2]>>
        BY <1>4, <2>1, <3>1
      <4>2. d[2] = e[2]
        BY <1>7, <1>10, <3>1, <4>1
      <4> QED
        BY <4>1, <4>2
    <3>2. CASE d \in chains /\ e \in chains
      BY <1>8, <2>1, <3>2
    <3>3. CASE ~(d \in joins /\ e \in joins) /\ ~(d \in chains /\ e \in chains)
      BY <1>8, <1>9, <1>10, <2>1, <3>3
    <3> QED
      BY <3>1, <3>2, <3>3
  <2> QED
    BY <2>1 DEF Once
<1> QED
  BY <1>11, <1>12, <1>13 DEF fires, wanted

-----------------------------------------------------------------------------
(* The OVERDELETE rounds. *)

(* While the rounds of g run, an instance of its SCC is counted iff it     *)
(* holds of the rows as of now, and what it reads outside is drained.      *)
LEMMA RoundCounted ==
    ASSUME Inv, NEW g, phase \in Rounds, todo = {g},
           NEW now, NEW i \in Inst, i.head \in SccRows(g)
    PROVE  /\ Counted(i, Old, now, phase, stratum, todo) <=> Holds(i, now)
           /\ \A y \in BodyRows(i) : y \in Row /\ (y \in SccRows(g) \/ (y \in Now <=> y \in Target))
           /\ \A y \in i.neg : y \in Row /\ y \notin SccRows(g) /\ (y \in Now <=> y \in Target)
           /\ RuleClass(i) = "kNonRecursive" => \A y \in BodyRows(i) : y \notin SccRows(g)
<1>1. g \in SccsAt(stratum)
  BY DEF Inv, WorkOk
<1>2. \A x \in Row :
           /\ stratum \in Nat /\ g \in Nat \ {0}
           /\ Group(x) = g => Level(x) = stratum
           /\ Drained(x, phase, stratum, {g}) <=>
                  Level(x) < stratum \/ (Level(x) = stratum /\ Group(x) < g)
           /\ x \in SccRows(g) <=> Group(x) = g
  BY <1>1, RoundShape DEF Inv
<1>3. /\ i.head \in Row /\ Level(i.head) = stratum /\ Group(i.head) = g
      /\ stratum \in Nat /\ g # 0
      /\ i.at \in Nat /\ i.at <= stratum
  BY <1>2, HeadsAndAtoms DEF Level
<1>4. Counted(i, Old, now, phase, stratum, todo) <=> Holds(i, now)
  BY <1>3, CountSettled DEF Settling
<1>5. ASSUME NEW y \in Row, Level(y) < i.at
      PROVE  y \notin SccRows(g) /\ (y \in Now <=> y \in Target)
  <2>1. Level(y) < stratum /\ Level(y) # stratum
    BY <1>3, <1>5, LevelType
  <2>2. Drained(y, phase, stratum, todo)
    BY <1>2, <2>1
  <2> QED
    BY <1>2, <2>1, <2>2 DEF Inv, ModelsOk
<1>6. ASSUME NEW y \in BodyRows(i)
      PROVE  /\ y \in Row
             /\ y \in SccRows(g) \/ (y \in Now <=> y \in Target)
             /\ RuleClass(i) = "kNonRecursive" => y \notin SccRows(g)
  <2>1. y \in Row /\ (Level(y) < i.at \/ SameScc(i.head, y))
    BY HeadsAndAtoms DEF Level
  <2>2. SameScc(i.head, y) => y \in SccRows(g) /\ RuleClass(i) = "kRecursive"
    BY <1>2, <1>3, <2>1 DEF SameScc, Group, RuleClass, ReadsOwnScc
  <2> QED
    BY <1>5, <2>1, <2>2
<1>7. \A y \in i.neg : y \in Row /\ Level(y) < i.at
  BY HeadsAndAtoms DEF Level
<1> QED
  BY <1>4, <1>5, <1>6, <1>7

(* When nothing is left to delete, what is left of the SCC is in the new   *)
(* model: it was derived from what is left of the old one.                 *)
LEMMA SurvivorsRight ==
    ASSUME Inv, NEW g, phase = "del", todo = {g}, DelClaims(cell, SccRows(g)) = {}
    PROVE  \A x \in Now : x \in SccRows(g) => x \in Target
<1>1. g \in SccsAt(stratum) /\ phase \in Rounds
  BY DEF Inv, WorkOk, Rounds
<1>2. /\ cell \in [Row -> Cell] /\ Count \subseteq Inst /\ Counts(cell, Count)
      /\ LossQueued(cell, delQ, Count, facts)
      /\ Old = LeastModel(facts) /\ facts \in SUBSET Facts
  BY DEF Inv, LedgerOk, Ledger, ModelsOk, Typed
<1>3. \A x \in Row :
           /\ stratum \in Nat
           /\ Open(x, phase, todo) <=> Group(x) = g
           /\ Group(x) = g => Level(x) = stratum
           /\ x \in SccRows(g) <=> Group(x) = g
  BY <1>1, RoundShape DEF Inv
<1>4. ASSUME NEW x \in SccRows(g), x \in Row
      PROVE  /\ x \in Now <=> SurvivesSoFar(cell[x])
             /\ x \in Now => x \in Old
             /\ "kExplicit" \in cell[x].f <=> x \in NewFacts
             /\ cell[x].nr \in Int
  BY <1>1, <1>2, <1>3, <1>4 DEF Inv, FlagsOk, Now, NowOf, Old, OldOf, InNew, SurvivesSoFar, InI, Rounds, Cell
<1>5. SccRows(g) \subseteq Row
  BY DEF SccRows
<1>6. ASSUME NEW x \in SccRows(g), x \in Now, cell[x].nr > 0
      PROVE  x \in Target
  <2>1. \/ \E i \in Count : i.head = x /\ RuleClass(i) = "kNonRecursive"
        \/ "kExplicit" \in cell[x].f
    BY <1>2, <1>5, <1>6, CountedTotal
  <2>2. CASE "kExplicit" \in cell[x].f
    BY <1>4, <1>5, <2>2, TargetFacts DEF Inv
  <2>3. CASE \E i \in Count : i.head = x /\ RuleClass(i) = "kNonRecursive"
    <3>1. PICK i \in Count : i.head = x /\ RuleClass(i) = "kNonRecursive"
      BY <2>3
    <3>2. i \in Inst /\ Counted(i, Old, Now, phase, stratum, todo)
      BY <1>2, <3>1 DEF Count, CountedBy
    <3>3. Holds(i, Now) /\ Holds(i, Target)
      BY <1>1, <3>1, <3>2, RoundCounted DEF Holds
    <3> QED
      BY <3>1, <3>2, <3>3, TargetFacts DEF Inv
  <2> QED
    BY <2>1, <2>2, <2>3
<1>7. ASSUME NEW x \in SccRows(g), x \in Now, ~(cell[x].nr > 0)
      PROVE  /\ \A i \in Inst : i.head = x /\ Holds(i, Old) => i \in Count
             /\ x \in facts => x \in Target
  <2>1. x \in Row /\ SurvivesSoFar(cell[x]) /\ cell[x].nr <= 0
    BY <1>4, <1>5, <1>7
  <2>2. x \notin delQ
    BY <2>1 DEF DelClaims, CanClaimDel, SurvivesSoFar
  <2>3. /\ \A i \in Inst : i.head = x /\ Holds(i, OldOf(cell)) => i \in Count
        /\ x \in facts => "kExplicit" \in cell[x].f
    BY <1>2, <2>1, <2>2 DEF LossQueued
  <2> QED
    BY <1>4, <2>1, <2>3, TargetFacts DEF Inv, Old
<1> DEFINE X == {x \in Old : x \in SccRows(g) /\ x \in Now => x \in Target}
<1>8. facts \subseteq X
  <2>1. facts \subseteq Old
    BY <1>2, LeastModelFacts
  <2> QED
    BY <1>6, <1>7, <2>1
<1>9. \A x \in Old : Stratum[TableOf(x)] # stratum => x \in X
  BY <1>3 DEF Level, Old, OldOf
<1>10. ASSUME NEW i \in Inst, BodyRows(i) \subseteq X, i.neg \cap Old = {}
       PROVE  i.head \in X
  <2>1. Holds(i, Old) /\ i.head \in Old
    <3>1. Holds(i, Old)
      BY <1>10 DEF Holds
    <3> QED
      BY <1>2, <3>1, LeastModelFacts
  <2>2. SUFFICES ASSUME i.head \in SccRows(g), i.head \in Now, ~(cell[i.head].nr > 0)
                 PROVE  i.head \in Target
    BY <1>6, <2>1
  <2>3. i \in Count
    BY <1>7, <2>1, <2>2
  <2>4. Holds(i, Now)
    BY <1>1, <2>2, <2>3, RoundCounted DEF Count, CountedBy
  <2>5. \A y \in BodyRows(i) : y \in Target
    BY <1>1, <1>10, <2>2, <2>4, RoundCounted DEF Holds
  <2>6. \A y \in i.neg : y \notin Target
    BY <1>1, <2>2, <2>4, RoundCounted DEF Holds
  <2>7. Holds(i, Target)
    BY <2>5, <2>6 DEF Holds
  <2> QED
    BY <2>7, TargetFacts DEF Inv
<1>11. X = Old
  <2>1. X \in SUBSET Old /\ stratum \in Nat
    BY LastStratumIsLast DEF Inv, Typed
  <2>2. \A i \in Inst :
            /\ Stratum[TableOf(i.head)] = stratum
            /\ BodyRows(i) \subseteq X
            /\ i.neg \cap Old = {}
            => i.head \in X
    BY <1>10
  <2> HIDE DEF X
  <2> QED
    BY <1>2, <1>8, <1>9, <2>1, <2>2, LeastModelFacts
<1> QED
  BY <1>4, <1>5, <1>11

(* Retiring a frontier moves its own flag and nothing else.                *)
LEMMA RetireMoves ==
    ASSUME NEW cells \in [Row -> Cell], NEW delta
    PROVE  /\ Unmarked(cells, Retired(cells, delta, TRUE), delta, {"kDelNow"})
           /\ Unmarked(cells, Retired(cells, delta, FALSE), delta, {"kAddNow"})
<1> DEFINE d == Retired(cells, delta, TRUE)
           a == Retired(cells, delta, FALSE)
<1>1. ASSUME NEW x \in Row
      PROVE  /\ d[x] = IF x \in delta THEN RetireDel(cells[x]) ELSE cells[x]
             /\ a[x] = IF x \in delta THEN RetireAdd(cells[x]) ELSE cells[x]
             /\ cells[x] \in Cell
  BY DEF Retired
<1>2. d = [x \in Row |-> d[x]] /\ a = [x \in Row |-> a[x]]
  BY DEF Retired
<1> HIDE DEF d, a
<1>3. ASSUME NEW x \in Row
      PROVE  /\ d[x] \in Cell /\ a[x] \in Cell
             /\ d[x].nr = cells[x].nr /\ d[x].r = cells[x].r
             /\ a[x].nr = cells[x].nr /\ a[x].r = cells[x].r
             /\ x \in delta => d[x].f = cells[x].f \ {"kDelNow"} /\ a[x].f = cells[x].f \ {"kAddNow"}
             /\ x \notin delta => d[x] = cells[x] /\ a[x] = cells[x]
  <2>1. CASE x \notin delta
    BY <1>1, <2>1
  <2>2. CASE x \in delta
    BY <1>1, <2>2, FlagMoves
  <2> QED
    BY <2>1, <2>2
<1>4. d \in [Row -> Cell] /\ a \in [Row -> Cell]
  BY <1>2, <1>3
<1> QED
  BY <1>3, <1>4 DEF d, a, Unmarked

(* The claims of an OVERDELETE round are as many deletions on the ledger.  *)
LEMMA OverdeleteClaims ==
    ASSUME Inv, NEW g, phase = "del", todo = {g},
           NEW delta, delta = DelClaims(cell, SccRows(g)),
           NEW mid, mid = ClaimedDel(cell, delta)
    PROVE  /\ Marked(cell, mid, delta, {"kTouched", "kDel", "kDelNow"})
           /\ delta \subseteq SccRows(g) /\ delta \subseteq Now /\ delta \subseteq Old
           /\ NowOf(mid) = Now \ delta /\ OldOf(mid) = Old
           /\ Reads(mid, g, Now \ delta, Now, TRUE)
           /\ Ledger(mid, delQ \ SccRows(g), addQ, Waiting(mid, "del", {g}), Count, facts)
<1>1. g \in SccsAt(stratum) /\ phase \in Rounds
  BY DEF Inv, WorkOk, Rounds
<1>2. /\ cell \in [Row -> Cell] /\ Count \subseteq Inst
      /\ Ledger(cell, delQ, addQ, Waiting(cell, phase, todo), Count, facts)
      /\ delQ \subseteq Old /\ addQ \subseteq Row
      /\ GainQueued(cell, addQ, Waiting(cell, phase, todo))
  BY DEF Inv, LedgerOk, Ledger, Old
<1>3. \A x \in Row :
           /\ Open(x, phase, todo) <=> Group(x) = g
           /\ x \in SccRows(g) <=> Group(x) = g
           /\ Group(x) = g => Group(x) # 0
  BY <1>1, RoundShape DEF Inv
<1>4. SccRows(g) \subseteq Row
  BY DEF SccRows
<1>5. \A x \in SccRows(g) : cell[x].f \cap {"kAdd", "kDelNow", "kAddNow"} = {}
  BY <1>3, <1>4 DEF Inv, FlagsOk
<1>6. delta = {x \in SccRows(g) : x \in delQ /\ "kDel" \notin cell[x].f /\ cell[x].nr <= 0}
  BY DEF DelClaims, CanClaimDel
<1>7. delta \subseteq SccRows(g) /\ delta \subseteq Old
  BY <1>2, <1>6
<1>8. delta \subseteq Now
  BY <1>4, <1>6, <1>7 DEF Now, NowOf, Old, OldOf, InNew, SurvivesSoFar, InI
<1>9. Marked(cell, mid, delta, {"kTouched", "kDel", "kDelNow"})
  BY <1>2, ClaimsMark
<1>10. ASSUME NEW x \in Row
       PROVE  /\ mid[x].nr = cell[x].nr /\ mid[x].r = cell[x].r
              /\ \A f \in RowFlags \ {"kTouched", "kDel", "kDelNow"} : f \in mid[x].f <=> f \in cell[x].f
              /\ "kDel" \in mid[x].f <=> "kDel" \in cell[x].f \/ x \in delta
              /\ "kDelNow" \in mid[x].f <=> "kDelNow" \in cell[x].f \/ x \in delta
              /\ x \notin delta => mid[x] = cell[x]
  BY <1>9 DEF Marked
<1>11. OldOf(mid) = Old
  BY <1>10 DEF Old, OldOf, InI, RowFlags
<1>12. \A x \in Row : InNew(mid[x]) <=> x \in Now \ delta
  <2>1. ASSUME NEW x \in Row
        PROVE  InNew(mid[x]) <=> x \in Now \ delta
    <3>1. CASE x \in delta
      <4>1. "kAdd" \notin mid[x].f /\ "kDel" \in mid[x].f
        BY <1>5, <1>7, <1>10, <3>1 DEF RowFlags
      <4> QED
        BY <3>1, <4>1 DEF InNew, SurvivesSoFar
    <3>2. CASE x \notin delta
      BY <1>10, <3>2 DEF Now, NowOf
    <3> QED
      BY <3>1, <3>2
  <2> QED
    BY <2>1
<1>13. NowOf(mid) = Now \ delta
  BY <1>12 DEF NowOf, Now
<1>14. Reads(mid, g, Now \ delta, Now, TRUE)
  <2>1. ASSUME NEW y \in SccRows(g)
        PROVE  /\ SurvivesSoFar(mid[y]) <=> y \in Now \ delta
               /\ AliveAtClaim(mid[y]) <=> y \in Now
    <3>1. y \in Row /\ "kAdd" \notin mid[y].f /\ "kInI" \in RowFlags
      BY <1>4, <1>5, <1>10 DEF RowFlags
    <3>2. SurvivesSoFar(mid[y]) <=> y \in Now \ delta
      BY <1>12, <3>1 DEF InNew
    <3>3. CASE y \in delta
      <4>1. "kInI" \in mid[y].f /\ "kDelNow" \in mid[y].f
        BY <1>7, <1>10, <3>1, <3>3 DEF Old, OldOf, InI
      <4> QED
        BY <1>8, <3>2, <3>3, <4>1 DEF AliveAtClaim
    <3>4. CASE y \notin delta
      <4>1. "kDelNow" \notin mid[y].f
        BY <1>5, <1>10, <3>1, <3>4
      <4> QED
        BY <3>2, <3>4, <4>1 DEF AliveAtClaim, SurvivesSoFar
    <3> QED
      BY <3>2, <3>3, <3>4
  <2> QED
    BY <1>12, <2>1 DEF Reads
<1>15. GainQueued(mid, addQ, Waiting(mid, "del", {g}))
  <2>1. ASSUME NEW x \in Row, Total(mid[x]) > 0
        PROVE  InNew(mid[x]) \/ x \in addQ \/ x \in Waiting(mid, "del", {g})
    <3>1. CASE x \in delta
      <4>1. Open(x, "del", {g}) /\ "kDel" \in mid[x].f /\ mid[x].nr <= 0
        BY <1>3, <1>6, <1>10, <2>1, <3>1
      <4> QED
        BY <4>1 DEF Waiting
    <3>2. CASE x \notin delta
      <4>1. mid[x] = cell[x]
        BY <1>10, <3>2
      <4>2. InNew(cell[x]) \/ x \in addQ \/ x \in Waiting(cell, phase, todo)
        BY <1>2, <2>1, <4>1 DEF GainQueued
      <4> QED
        BY <4>1, <4>2 DEF Waiting
    <3> QED
      BY <3>1, <3>2
  <2> QED
    BY <2>1 DEF GainQueued
<1>16. \A x \in Row : /\ "kInI" \in mid[x].f <=> "kInI" \in cell[x].f
                      /\ "kExplicit" \in mid[x].f <=> "kExplicit" \in cell[x].f
                      /\ SurvivesSoFar(mid[x]) => SurvivesSoFar(cell[x])
                      /\ SurvivesSoFar(mid[x]) /\ mid[x].nr <= 0 /\ x \in delQ
                             => x \in delQ \ SccRows(g)
  <2>1. ASSUME NEW x \in Row, SurvivesSoFar(mid[x]), mid[x].nr <= 0, x \in delQ
        PROVE  x \notin SccRows(g)
    BY <1>6, <1>10, <2>1 DEF SurvivesSoFar
  <2> QED
    BY <1>10, <2>1 DEF RowFlags, SurvivesSoFar
<1>18. mid \in [Row -> Cell]
  BY <1>9 DEF Marked
<1>19. delQ \ SccRows(g) \subseteq delQ
  OBVIOUS
<1>20. \A x \in Row : mid[x].nr = cell[x].nr /\ mid[x].r = cell[x].r
  BY <1>10
<1>21. Ledger(mid, delQ \ SccRows(g), addQ, Waiting(mid, "del", {g}), Count, facts)
  <2> HIDE DEF Waiting
  <2> QED
    BY <1>2, <1>15, <1>16, <1>18, <1>19, <1>20, LedgerReflag
<1> QED
  BY <1>7, <1>8, <1>9, <1>11, <1>13, <1>14, <1>21

(* The instances that the counters count in a round gain or lose are those *)
(* that the round fires.                                                   *)
LEMMA RoundCount ==
    ASSUME Inv, NEW g, phase \in Rounds, todo = {g},
           NEW S, NEW B, S \subseteq B, B \ S \subseteq SccRows(g)
    PROVE  /\ CountedBy(Old, S, phase, stratum, todo) \subseteq CountedBy(Old, B, phase, stratum, todo)
           /\ CountedBy(Old, B, phase, stratum, todo) \ CountedBy(Old, S, phase, stratum, todo)
                = RoundWork(g, S, B)
<1> DEFINE delta == B \ S
<1>0. B = S \cup delta /\ S \cap delta = {} /\ delta \subseteq SccRows(g)
  OBVIOUS
<1> HIDE DEF delta
<1> DEFINE C(now) == CountedBy(Old, now, phase, stratum, todo)
           K(i, now) == Counted(i, Old, now, phase, stratum, todo)
<1>1. g \in SccsAt(stratum) /\ stratum \in Nat /\ phase \in Settling
  BY LastStratumIsLast DEF Inv, WorkOk, Typed, Rounds, Settling
<1>2. /\ g \in Nat \ {0}
      /\ \A x \in SccRows(g) : x \in Row /\ Group(x) = g /\ Level(x) = stratum
  BY <1>1, SccShape DEF SccRows
<1>3. ASSUME NEW i \in Inst
      PROVE  IF i.head \in SccRows(g)
             THEN /\ K(i, B) <=> Holds(i, B)
                  /\ K(i, S) <=> Holds(i, S)
                  /\ Holds(i, S) => Holds(i, B)
             ELSE K(i, B) <=> K(i, S)
  <2>1. i.at \in Nat /\ i.at <= Level(i.head) /\ i.head \in Row /\ Level(i.head) \in Nat
    BY HeadsAndAtoms DEF Level
  <2>2. ASSUME NEW y, y \in i.neg \/ y \in BodyRows(i)
        PROVE  /\ y \in Row /\ Level(y) \in Nat
               /\ Level(y) < i.at \/ (y \in BodyRows(i) /\ SameScc(i.head, y))
    BY <2>2, HeadsAndAtoms, LevelType DEF Level
  <2>3. CASE i.head \in SccRows(g)
    <3>1. i.at <= stratum
      BY <1>2, <2>1, <2>3
    <3>2. (K(i, B) <=> Holds(i, B)) /\ (K(i, S) <=> Holds(i, S))
      BY <1>1, <3>1, CountSettled
    <3>3. ASSUME NEW y \in i.neg
          PROVE  y \notin delta
      <4>1. y \in Row /\ Level(y) < i.at /\ Level(y) \in Nat
        BY HeadsAndAtoms, LevelType DEF Level
      <4>2. Level(y) # stratum
        BY <1>1, <2>1, <3>1, <4>1
      <4> QED
        BY <1>0, <1>2, <4>2
    <3>4. Holds(i, S) => Holds(i, B)
      BY <1>0, <3>3 DEF Holds
    <3> QED
      BY <2>3, <3>2, <3>4
  <2>4. CASE i.head \notin SccRows(g)
    <3>1. CASE stratum < i.at
      BY <1>1, <2>4, <3>1, CountAbove
    <3>2. CASE i.at <= stratum
      <4>1. ASSUME NEW y, y \in i.neg \/ y \in BodyRows(i)
            PROVE  y \notin delta
        <5>1. CASE Level(y) < i.at
          <6>1. Level(y) # stratum
            BY <1>1, <2>1, <2>2, <3>2, <4>1, <5>1
          <6> QED
            BY <1>0, <1>2, <6>1
        <5>2. CASE SameScc(i.head, y)
          BY <1>0, <1>2, <2>1, <2>4, <5>2 DEF SameScc, SccRows, Group
        <5> QED
          BY <2>2, <4>1, <5>1, <5>2
      <4>2. Holds(i, B) <=> Holds(i, S)
        BY <1>0, <4>1 DEF Holds
      <4>3. (K(i, B) <=> Holds(i, B)) /\ (K(i, S) <=> Holds(i, S))
        BY <1>1, <3>2, CountSettled
      <4> QED
        BY <2>4, <4>2, <4>3
    <3> QED
      BY <1>1, <2>1, <3>1, <3>2
  <2> QED
    BY <2>3, <2>4
<1>4. \A i : /\ i \in C(B) <=> i \in Inst /\ K(i, B)
             /\ i \in C(S) <=> i \in Inst /\ K(i, S)
  BY DEF CountedBy
<1> HIDE DEF K, C
<1>5. C(S) \subseteq C(B)
  BY <1>3, <1>4
<1>6. C(B) \ C(S) = {i \in Inst : i.head \in SccRows(g) /\ Holds(i, B) /\ ~Holds(i, S)}
  BY <1>3, <1>4
<1> QED
  BY <1>5, <1>6 DEF C, RoundWork

(* An OVERDELETE round keeps the invariant.                                *)
LEMMA OverdeletePreserves ==
    ASSUME Inv, NEW g, OverdeleteRound(g)
    PROVE  Inv'
<1> DEFINE delta == DelClaims(cell, SccRows(g))
           mid   == ClaimedDel(cell, delta)
           fires == RoundFires(mid, g, delta, TRUE)
           end   == FoldAll(mid, fires, -1)
           last  == Retired(end, delta, TRUE)
           W(cells) == Waiting(cells, "del", {g})
           dq    == (delQ \ SccRows(g)) \cup ParkedDown(mid, end, fires)
           D     == CountedBy(Old, Now \ delta, phase, stratum, todo)
<1>1. /\ phase = "del" /\ todo = {g} /\ todo' = {g}
      /\ phase' = IF delta = {} THEN "rederive" ELSE "del"
      /\ cell' = last /\ delQ' = dq /\ overdeleted' = overdeleted \cup delta
      /\ UNCHANGED <<addQ, added, netRem, netAdd, batch, facts, stratum>>
      /\ phase \in Rounds /\ phase' \in Rounds
      /\ g \in SccsAt(stratum) /\ stratum \in Nat
  BY LastStratumIsLast DEF OverdeleteRound, Inv, WorkOk, Typed, Rounds
<1>2. /\ Marked(cell, mid, delta, {"kTouched", "kDel", "kDelNow"})
      /\ delta \subseteq SccRows(g) /\ delta \subseteq Now /\ delta \subseteq Old
      /\ NowOf(mid) = Now \ delta /\ OldOf(mid) = Old
      /\ Reads(mid, g, Now \ delta, Now, TRUE)
      /\ Ledger(mid, delQ \ SccRows(g), addQ, W(mid), Count, facts)
  <2> HIDE DEF W
  <2> QED
    BY <1>1, OverdeleteClaims DEF W
<1> HIDE DEF delta, mid
<1>3. Fired(fires) = RoundWork(g, Now \ delta, Now) /\ Once(fires)
  <2>1. Now = (Now \ delta) \cup delta /\ (Now \ delta) \cap delta = {}
    BY <1>2
  <2> QED
    BY <1>1, <1>2, <2>1, RoundFired
<1>4. Fired(fires) = Count \ D /\ D \subseteq Count
  <2> DEFINE S == Now \ delta
  <2>1. Now = S \cup delta /\ S \cap delta = {} /\ delta \subseteq SccRows(g)
    BY <1>2
  <2>2. Fired(fires) = RoundWork(g, S, Now)
    BY <1>3
  <2>3. D = CountedBy(Old, S, phase, stratum, todo)
    OBVIOUS
  <2> HIDE DEF S, D, fires
  <2>4. /\ CountedBy(Old, S, phase, stratum, todo) \subseteq CountedBy(Old, Now, phase, stratum, todo)
        /\ CountedBy(Old, Now, phase, stratum, todo) \ CountedBy(Old, S, phase, stratum, todo)
             = RoundWork(g, S, Now)
    <3>1. Inv /\ phase \in Rounds /\ todo = {g}
      BY <1>1
    <3>2. S \subseteq Now /\ Now \ S \subseteq SccRows(g)
      BY <2>1
    <3> QED
      BY <3>1, <3>2, RoundCount
  <2> QED
    BY <2>2, <2>3, <2>4 DEF Count
<1> HIDE DEF fires
<1>5. Ledger(end, dq, addQ, W(mid), D, facts)
  <2>1. Count \ Fired(fires) = D /\ Fired(fires) \subseteq Count
    BY <1>4
  <2> HIDE DEF W, D
  <2> QED
    BY <1>2, <1>3, <2>1, LedgerDown
<1>6. /\ mid \in [Row -> Cell] /\ Fired(fires) \subseteq Inst
      /\ \A x \in Heads(fires) : x \in Row /\ x \in SccRows(g)
  <2>1. \A i \in Fired(fires) : i \in Inst /\ i.head \in SccRows(g)
    BY <1>3 DEF RoundWork
  <2> QED
    BY <1>2, <2>1 DEF Marked, Fired, Heads, SccRows
<1>7. /\ end \in [Row -> Cell]
      /\ \A x \in Row :
            /\ end[x].nr <= mid[x].nr
            /\ end[x].f = mid[x].f \cup (IF x \in Heads(fires) THEN {"kTouched"} ELSE {})
  <2> DEFINE n(x, k) == Cardinality(Into(Fired(fires), x, k))
  <2>2. /\ end \in [Row -> Cell]
        /\ \A x \in Row :
              /\ end[x].nr = mid[x].nr + (-1) * n(x, "kNonRecursive")
              /\ end[x].r = mid[x].r + (-1) * n(x, "kRecursive")
              /\ n(x, "kNonRecursive") \in Nat /\ n(x, "kRecursive") \in Nat
              /\ end[x].f = mid[x].f \cup (IF x \in Heads(fires) THEN {"kTouched"} ELSE {})
              /\ x \notin Heads(fires) => end[x] = mid[x]
    <3>1. mid \in [Row -> Cell] /\ Once(fires) /\ Fired(fires) \subseteq Inst
      BY <1>3, <1>6
    <3>2. -1 \in {-1, 1}
      OBVIOUS
    <3> QED
      BY <3>1, <3>2, FoldEffect
  <2> HIDE DEF n, end
  <2>3. ASSUME NEW x \in Row
        PROVE  end[x].nr <= mid[x].nr
    <3>1. mid[x].nr \in Int /\ n(x, "kNonRecursive") \in Nat
          /\ end[x].nr = mid[x].nr + (-1) * n(x, "kNonRecursive")
      BY <1>6, <2>2 DEF Cell
    <3> QED
      BY <3>1
  <2> QED
    BY <2>2, <2>3
<1> HIDE DEF end
<1>8. /\ last \in [Row -> Cell]
      /\ \A x \in Row : /\ last[x].nr = end[x].nr /\ last[x].r = end[x].r
                        /\ x \in delta => last[x].f = end[x].f \ {"kDelNow"}
                        /\ x \notin delta => last[x] = end[x]
  <2>1. Unmarked(end, last, delta, {"kDelNow"})
    BY <1>7, RetireMoves
  <2> HIDE DEF last
  <2> QED
    BY <2>1 DEF Unmarked
<1> HIDE DEF last
(* What the round does to the flags of a row. *)
<1>9. ASSUME NEW x \in Row
      PROVE  /\ \A f \in RowFlags \ {"kTouched", "kDel", "kDelNow"} :
                    f \in last[x].f <=> f \in cell[x].f
             /\ "kDel" \in last[x].f <=> "kDel" \in cell[x].f \/ x \in delta
             /\ "kDelNow" \in last[x].f => "kDelNow" \in cell[x].f
             /\ "kTouched" \in cell[x].f \/ x \in delta => "kTouched" \in last[x].f
             /\ x \notin SccRows(g) => last[x].f = cell[x].f
             /\ "kDel" \in mid[x].f <=> "kDel" \in last[x].f
             /\ last[x].nr <= mid[x].nr
  <2>1. /\ x \in delta => mid[x].f = cell[x].f \cup {"kTouched", "kDel", "kDelNow"}
        /\ x \notin delta => mid[x].f = cell[x].f
    BY <1>2 DEF Marked
  <2>2. /\ end[x].f = mid[x].f \cup {"kTouched"} \/ end[x].f = mid[x].f
        /\ x \notin SccRows(g) => end[x].f = mid[x].f
    BY <1>6, <1>7
  <2>3. /\ x \in delta => last[x].f = end[x].f \ {"kDelNow"}
        /\ x \notin delta => last[x].f = end[x].f
        /\ last[x].nr <= mid[x].nr
    BY <1>7, <1>8
  <2>4. CASE x \in delta
    BY <1>2, <2>1, <2>2, <2>3, <2>4 DEF RowFlags
  <2>5. CASE x \notin delta
    <3>1. mid[x].f = cell[x].f /\ last[x].f = end[x].f
      BY <2>1, <2>3, <2>5
    <3> QED
      BY <2>2, <2>3, <2>5, <3>1
  <2> QED
    BY <2>4, <2>5
<1>10. \A x \in Row : /\ InI(last[x]) <=> InI(end[x])
                      /\ InNew(last[x]) <=> InNew(end[x])
                      /\ SurvivesSoFar(last[x]) <=> SurvivesSoFar(end[x])
                      /\ "kExplicit" \in last[x].f <=> "kExplicit" \in end[x].f
  <2>1. ASSUME NEW x \in Row
        PROVE  \A f \in {"kInI", "kDel", "kAdd", "kExplicit"} : f \in last[x].f <=> f \in end[x].f
    BY <1>8
  <2> QED
    BY <2>1 DEF InI, InNew, SurvivesSoFar
<1>11. Old' = Old /\ Now' = Now \ delta
  <2>1. \A x \in Row : end[x].f = mid[x].f \cup {"kTouched"} \/ end[x].f = mid[x].f
    BY <1>7
  <2>2. OldOf(end) = Old /\ NowOf(end) = Now \ delta
    BY <1>2, <2>1, TouchedCells
  <2>3. OldOf(last) = OldOf(end) /\ NowOf(last) = NowOf(end)
    BY <1>10 DEF OldOf, NowOf
  <2> QED
    BY <1>1, <2>2, <2>3 DEF Old, Now
<1>12. ASSUME NEW x \in Row
       PROVE  /\ Drained(x, phase', stratum', todo') <=> Drained(x, phase, stratum, todo)
              /\ Open(x, phase', todo') <=> Group(x) = g
              /\ Open(x, phase, todo) <=> Group(x) = g
              /\ Drained(x, phase, stratum, todo) => Group(x) # g
              /\ x \in SccRows(g) <=> Group(x) = g
              /\ Group(x) = g => Group(x) # 0
  <2>1. Level(x) \in Nat /\ Group(x) \in Nat
    BY LevelType
  <2>2. /\ Open(x, phase, {g}) <=> Group(x) = g
        /\ Open(x, phase', {g}) <=> Group(x) = g
        /\ Group(x) = g => Level(x) = stratum
        /\ Drained(x, phase, stratum, {g}) <=>
                  Level(x) < stratum \/ (Level(x) = stratum /\ Group(x) < g)
        /\ Drained(x, phase', stratum, {g}) <=>
                  Level(x) < stratum \/ (Level(x) = stratum /\ Group(x) < g)
        /\ x \in SccRows(g) <=> Group(x) = g
        /\ g \in Nat \ {0}
    BY <1>1, RoundShape DEF Inv
  <2> QED
    BY <1>1, <2>1, <2>2
<1>13. NewFacts' = NewFacts /\ Target' = Target
  BY <1>1 DEF NewFacts, Target
<1>14. Typed'
  BY <1>1 DEF Inv, Typed, Phases, Settling, Rounds
<1>15. WorkOk'
  <2>1. SccsAt(stratum)' = SccsAt(stratum)
    BY <1>1 DEF SccsAt
  <2> QED
    BY <1>1, <2>1 DEF Inv, WorkOk, Rounds
<1>16. FlagsOk'
  <2>1. ASSUME NEW x \in Row
        PROVE  /\ FlagsOf(cell'[x])
               /\ Group(x) # 0 => cell'[x].f \cap {"kDelNow", "kAddNow"} = {}
               /\ ~Drained(x, phase', stratum', todo') /\ ~Open(x, phase', todo') =>
                      cell'[x].f \cap {"kDel", "kAdd"} = {}
               /\ Open(x, phase', todo') => "kAdd" \notin cell'[x].f
               /\ "kExplicit" \in cell'[x].f <=> x \in NewFacts'
    <3>1. /\ FlagsOf(cell[x])
          /\ Group(x) # 0 => cell[x].f \cap {"kDelNow", "kAddNow"} = {}
          /\ ~Drained(x, phase, stratum, todo) /\ ~Open(x, phase, todo) =>
                  cell[x].f \cap {"kDel", "kAdd"} = {}
          /\ Open(x, phase, todo) => "kAdd" \notin cell[x].f
          /\ "kExplicit" \in cell[x].f <=> x \in NewFacts
      BY <1>1 DEF Inv, FlagsOk, Rounds
    <3>2. {"kInI", "kAdd", "kAddNow", "kExplicit"} \subseteq RowFlags \ {"kTouched", "kDel", "kDelNow"}
      BY DEF RowFlags
    <3>3. x \in delta => "kInI" \in cell[x].f
      BY <1>2 DEF Old, OldOf, InI
    <3>4. FlagsOf(last[x])
      BY <1>9, <3>1, <3>2, <3>3 DEF FlagsOf, ScratchFlags
    <3> QED
      BY <1>1, <1>9, <1>12, <1>13, <3>1, <3>2, <3>4
  <2> QED
    BY <1>1, <2>1 DEF FlagsOk, Rounds
<1>17. VectorsOk'
  <2>1. delta \subseteq Row
    BY <1>2 DEF SccRows
  <2>2. \A x \in Row : "kAdd" \in last[x].f <=> "kAdd" \in cell[x].f
    BY <1>9 DEF RowFlags
  <2>3. ASSUME NEW x \in Row, Drained(x, phase, stratum, todo)
        PROVE  /\ NetDeleted(last[x]) <=> NetDeleted(cell[x])
               /\ NetAdded(last[x]) <=> NetAdded(cell[x])
    <3>1. last[x].f = cell[x].f
      BY <1>9, <1>12, <2>3
    <3> QED
      BY <3>1 DEF NetDeleted, NetAdded
  <2>4. overdeleted' = {x \in Row : "kDel" \in cell'[x].f}
    BY <1>1, <1>9, <2>1 DEF Inv, VectorsOk
  <2>5. added' = {x \in Row : "kAdd" \in cell'[x].f}
    BY <1>1, <2>2 DEF Inv, VectorsOk
  <2>6. netRem' = {x \in Row : Drained(x, phase', stratum', todo') /\ NetDeleted(cell'[x])}
    BY <1>1, <1>12, <2>3 DEF Inv, VectorsOk
  <2>7. netAdd' = {x \in Row : Drained(x, phase', stratum', todo') /\ NetAdded(cell'[x])}
    BY <1>1, <1>12, <2>3 DEF Inv, VectorsOk
  <2> QED
    BY <2>4, <2>5, <2>6, <2>7 DEF VectorsOk
<1>18. Count' = D
  <2>1. \A i \in Inst : Counted(i, Old', Now', phase', stratum', todo')
                           <=> Counted(i, Old, Now \ delta, phase, stratum, todo)
    BY <1>1, <1>11, CountSame DEF Settling
  <2> QED
    BY <2>1 DEF Count, CountedBy
<1>19. Waiting(cell', phase', todo') = W(last)
  <2>1. phase' \in {"del", "rederive"}
    BY <1>1
  <2>2. \A x \in Row : Open(x, phase', todo') <=> Open(x, "del", {g})
    BY <1>1 DEF Open, Rounds
  <2> QED
    BY <1>1, <2>1, <2>2 DEF Waiting
<1>20. Ledger(last, dq, addQ, W(last), D, facts)
  <2>1. GainQueued(last, addQ, W(last))
    <3>1. ASSUME NEW x \in Row, Total(last[x]) > 0
          PROVE  InNew(last[x]) \/ x \in addQ \/ x \in W(last)
      <4>1. Total(end[x]) > 0
        BY <1>8, <3>1 DEF Total
      <4>2. InNew(end[x]) \/ x \in addQ \/ x \in W(mid)
        BY <1>5, <4>1 DEF Ledger, GainQueued
      <4>3. x \in W(mid) => x \in W(last)
        <5>1. mid[x].nr \in Int /\ last[x].nr \in Int
          BY <1>6, <1>8 DEF Cell
        <5> QED
          BY <1>9, <5>1 DEF Waiting
      <4> QED
        BY <1>10, <4>2, <4>3
    <3> QED
      BY <3>1 DEF GainQueued
  <2>2. addQ \subseteq Row
    BY <1>5 DEF Ledger
  <2>3. \A x \in Row : /\ last[x].nr = end[x].nr /\ last[x].r = end[x].r
                       /\ "kInI" \in last[x].f <=> "kInI" \in end[x].f
                       /\ "kExplicit" \in last[x].f <=> "kExplicit" \in end[x].f
                       /\ SurvivesSoFar(last[x]) => SurvivesSoFar(end[x])
    BY <1>8, <1>10 DEF InI
  <2> HIDE DEF W, D, dq
  <2> QED
    BY <1>5, <1>8, <2>1, <2>2, <2>3, LedgerReflag
<1>21. phase' = "rederive" => \A x \in dq : ~Open(x, phase', todo')
  <2>1. SUFFICES ASSUME delta = {} PROVE \A x \in dq : ~Open(x, phase', todo')
    BY <1>1
  <2>2. Fired(fires) = {}
    BY <1>3, <2>1 DEF RoundWork
  <2>3. ParkedDown(mid, end, fires) = {}
    BY <2>2 DEF ParkedDown, Heads, Fired
  <2>4. \A x \in delQ : x \in Row
    BY DEF Inv, LedgerOk, Ledger, OldOf
  <2> QED
    BY <1>12, <2>3, <2>4
<1>22. LedgerOk'
  BY <1>1, <1>18, <1>19, <1>20, <1>21 DEF LedgerOk
<1>23. ModelsOk'
  <2>1. ASSUME NEW x \in Row, Drained(x, phase', stratum', todo')
        PROVE  x \in Now' <=> x \in Target'
    <3>1. Drained(x, phase, stratum, todo) /\ x \notin delta
      BY <1>2, <1>12, <2>1
    <3> QED
      BY <1>11, <1>13, <3>1 DEF Inv, ModelsOk
  <2>2. ASSUME phase' \in {"rederive", "add"}, NEW x \in Now', Open(x, phase', todo')
        PROVE  x \in Target'
    <3>1. delta = {}
      BY <1>1, <2>2
    <3>2. x \in Now /\ x \in Row
      BY <1>11, <2>2 DEF Now, NowOf
    <3> QED
      BY <1>1, <1>12, <1>13, <2>2, <3>1, <3>2, SurvivorsRight DEF delta
  <2> QED
    BY <1>1, <1>11, <2>1, <2>2 DEF Inv, ModelsOk
<1> QED
  BY <1>14, <1>15, <1>16, <1>17, <1>22, <1>23 DEF Inv

-----------------------------------------------------------------------------
(* REDERIVE. *)

(* REDERIVE keeps the invariant.                                           *)
LEMMA RederivePreserves ==
    ASSUME Inv, NEW g, Rederive(g)
    PROVE  Inv'
<1> DEFINE again == {x \in overdeleted \cap SccRows(g) : RecursivelySupported(cell[x])}
<1>1. /\ phase = "rederive" /\ phase' = "add" /\ todo = {g} /\ todo' = {g}
      /\ addQ' = addQ \cup again
      /\ UNCHANGED <<cell, delQ, overdeleted, added, netRem, netAdd, batch, facts, stratum>>
      /\ g \in SccsAt(stratum) /\ phase \in Rounds /\ phase' \in Rounds
      /\ phase \in Settling /\ phase' \in Settling
      /\ stratum \in Nat
  BY LastStratumIsLast DEF Rederive, Inv, WorkOk, Typed, Rounds, Settling
<1>2. /\ cell \in [Row -> Cell] /\ delQ \subseteq OldOf(cell) /\ addQ \subseteq Row
      /\ Ledger(cell, delQ, addQ, Waiting(cell, phase, todo), Count, facts)
      /\ GainQueued(cell, addQ, Waiting(cell, phase, todo))
      /\ overdeleted = {x \in Row : "kDel" \in cell[x].f}
      /\ \A x \in delQ : ~Open(x, phase, todo)
  BY <1>1 DEF Inv, LedgerOk, Ledger, VectorsOk
<1>3. ASSUME NEW x \in Row
      PROVE  /\ Drained(x, phase', stratum', todo') <=> Drained(x, phase, stratum, todo)
             /\ Open(x, phase', todo') <=> Open(x, phase, todo)
             /\ Open(x, phase, todo) => x \in SccRows(g)
  BY <1>1, RoundShape DEF Inv
<1>4. Old' = Old /\ Now' = Now /\ NewFacts' = NewFacts /\ Target' = Target
  BY <1>1 DEF Old, Now, NewFacts, Target
<1>5. Typed'
  BY <1>1 DEF Inv, Typed, Phases
<1>6. WorkOk'
  <2>1. SccsAt(stratum)' = SccsAt(stratum)
    BY <1>1 DEF SccsAt
  <2> QED
    BY <1>1, <2>1 DEF Inv, WorkOk, Rounds
<1>7. FlagsOk'
  <2>1. ASSUME NEW x \in Row
        PROVE  /\ FlagsOf(cell[x])
               /\ Group(x) # 0 => cell[x].f \cap {"kDelNow", "kAddNow"} = {}
               /\ ~Drained(x, phase, stratum, todo) /\ ~Open(x, phase, todo) =>
                      cell[x].f \cap {"kDel", "kAdd"} = {}
               /\ "kExplicit" \in cell[x].f <=> x \in NewFacts
    BY <1>1 DEF Inv, FlagsOk
  <2> QED
    BY <1>1, <1>3, <1>4, <2>1 DEF FlagsOk
<1>8. VectorsOk'
  BY <1>1, <1>3 DEF Inv, VectorsOk
<1>9. Count' = Count
  BY <1>1, <1>4, CountSame DEF Count, CountedBy
<1>10. GainQueued(cell, addQ \cup again, {})
  <2>1. ASSUME NEW x \in Row, Total(cell[x]) > 0
        PROVE  InNew(cell[x]) \/ x \in addQ \/ x \in again
    <3>1. CASE x \in Waiting(cell, phase, todo)
      <4>1. /\ "kDel" \in cell[x].f /\ cell[x].nr <= 0 /\ x \in SccRows(g)
            /\ cell[x].nr \in Int /\ cell[x].r \in Int
        BY <1>2, <1>3, <3>1 DEF Waiting, Cell
      <4>2. cell[x].r > 0
        BY <2>1, <4>1 DEF Total
      <4> QED
        BY <1>2, <4>1, <4>2 DEF RecursivelySupported
    <3> QED
      BY <1>2, <2>1, <3>1 DEF GainQueued
  <2> QED
    BY <2>1 DEF GainQueued
<1>12. Ledger(cell, delQ, addQ \cup again, {}, Count, facts)
  BY <1>2, <1>10 DEF Ledger
<1>13. LedgerOk'
  <2>1. Waiting(cell', phase', todo') = {}
    BY <1>1 DEF Waiting
  <2>2. \A x \in delQ' : ~Open(x, phase', todo')
    BY <1>1, <1>2, <1>3 DEF OldOf
  <2> QED
    BY <1>1, <1>9, <1>12, <2>1, <2>2 DEF LedgerOk
<1>14. ModelsOk'
  <2>1. \A x \in Now : x \in Row
    BY DEF Now, NowOf
  <2> QED
    BY <1>1, <1>3, <1>4, <2>1 DEF Inv, ModelsOk
<1> QED
  BY <1>5, <1>6, <1>7, <1>8, <1>13, <1>14 DEF Inv

-----------------------------------------------------------------------------
(* The INSERT rounds. *)

(* What the rounds add is in the new model.                                *)
LEMMA DerivedRight ==
    ASSUME Inv, NEW g, phase = "add", todo = {g}, NEW x \in SccRows(g), Total(cell[x]) > 0
    PROVE  x \in Target
<1>1. g \in SccsAt(stratum) /\ phase \in Rounds
  BY DEF Inv, WorkOk, Rounds
<1>2. /\ cell \in [Row -> Cell] /\ Count \subseteq Inst /\ Counts(cell, Count)
      /\ x \in Row
  BY DEF Inv, LedgerOk, Ledger, SccRows
<1>3. (\E i \in Count : i.head = x) \/ "kExplicit" \in cell[x].f
  BY <1>2, CountedTotal
<1>4. CASE "kExplicit" \in cell[x].f
  BY <1>2, <1>4, TargetFacts DEF Inv, FlagsOk
<1>5. CASE \E i \in Count : i.head = x
  <2>1. PICK i \in Count : i.head = x
    BY <1>5
  <2>2. i \in Inst /\ Counted(i, Old, Now, phase, stratum, todo) /\ i.head \in SccRows(g)
    BY <1>2, <2>1 DEF Count, CountedBy
  <2>3. Holds(i, Now)
    BY <1>1, <2>2, RoundCounted
  <2>4. ASSUME NEW y \in BodyRows(i)
        PROVE  y \in Target
    <3>1. y \in Row /\ y \in Now /\ (y \in SccRows(g) \/ (y \in Now <=> y \in Target))
      BY <1>1, <2>2, <2>3, RoundCounted DEF Holds
    <3>2. y \in SccRows(g) => Open(y, phase, todo)
      BY <1>1, <3>1, RoundShape DEF Inv
    <3> QED
      BY <3>1, <3>2 DEF Inv, ModelsOk
  <2>5. \A y \in i.neg : y \notin Target
    BY <1>1, <2>2, <2>3, RoundCounted DEF Holds
  <2>6. Holds(i, Target)
    BY <2>4, <2>5 DEF Holds
  <2> QED
    BY <2>1, <2>2, <2>6, TargetFacts DEF Inv
<1> QED
  BY <1>3, <1>4, <1>5

(* When nothing is left to add, the SCC has all it has in the new model.   *)
LEMMA TargetReached ==
    ASSUME Inv, NEW g, phase = "add", todo = {g}, AddClaims(cell, SccRows(g)) = {}
    PROVE  \A x \in SccRows(g) : x \in Now <=> x \in Target
<1>1. g \in SccsAt(stratum) /\ phase \in Rounds
  BY DEF Inv, WorkOk, Rounds
<1>2. /\ cell \in [Row -> Cell] /\ Count \subseteq Inst /\ Counts(cell, Count)
      /\ GainQueued(cell, addQ, Waiting(cell, phase, todo))
  BY DEF Inv, LedgerOk, Ledger
<1>3. \A x \in Row :
           /\ stratum \in Nat
           /\ Open(x, phase, todo) <=> Group(x) = g
           /\ Group(x) = g => Level(x) = stratum
           /\ x \in SccRows(g) <=> Group(x) = g
  BY <1>1, RoundShape DEF Inv
<1>4. ASSUME NEW x \in SccRows(g), Total(cell[x]) > 0
      PROVE  x \in Now
  <2>1. x \in Row /\ (InNew(cell[x]) \/ x \in addQ)
    BY <1>2, <1>4 DEF GainQueued, Waiting, SccRows
  <2>2. x \in addQ => "kAdd" \in cell[x].f
    BY <1>4 DEF AddClaims, CanClaimAdd
  <2> QED
    BY <2>1, <2>2 DEF Now, NowOf, InNew
<1>5. \A x \in SccRows(g) : x \in Now => x \in Target
  BY <1>3 DEF Inv, ModelsOk, SccRows
<1> DEFINE X == {x \in Target : x \in SccRows(g) => x \in Now}
<1>6. NewFacts \subseteq X
  <2>1. ASSUME NEW x \in NewFacts, x \in SccRows(g)
        PROVE  x \in Now
    <3>1. x \in Row /\ "kExplicit" \in cell[x].f
      BY <2>1 DEF Inv, FlagsOk, SccRows
    <3> QED
      BY <1>2, <1>4, <2>1, <3>1, CountedTotal
  <2> QED
    BY <2>1, TargetFacts DEF Inv
<1>7. \A x \in Target : Stratum[TableOf(x)] # stratum => x \in X
  BY <1>3, TargetFacts DEF Level, Inv
<1>8. ASSUME NEW i \in Inst, BodyRows(i) \subseteq X, i.neg \cap Target = {}
      PROVE  i.head \in X
  <2>1. i.head \in Target
    BY <1>8, TargetFacts DEF Inv, Holds
  <2>2. SUFFICES ASSUME i.head \in SccRows(g) PROVE i.head \in Now
    BY <2>1
  <2>3. \A y \in BodyRows(i) : y \in Now
    BY <1>1, <1>8, <2>2, RoundCounted
  <2>4. \A y \in i.neg : y \notin Now
    BY <1>1, <1>8, <2>2, RoundCounted
  <2>5. i \in Count
    <3>1. Holds(i, Now)
      BY <2>3, <2>4 DEF Holds
    <3>2. Counted(i, Old, Now, phase, stratum, todo)
      BY <1>1, <2>2, <3>1, RoundCounted
    <3> QED
      BY <3>2 DEF Count, CountedBy
  <2> QED
    BY <1>2, <1>4, <2>2, <2>5, CountedTotal DEF SccRows
<1>9. X = Target
  <2>1. X \in SUBSET Target /\ stratum \in Nat /\ NewFacts \in SUBSET Facts
        /\ Target = LeastModel(NewFacts)
    BY TargetFacts, LastStratumIsLast DEF Inv, Typed
  <2>2. \A i \in Inst :
            /\ Stratum[TableOf(i.head)] = stratum
            /\ BodyRows(i) \subseteq X
            /\ i.neg \cap Target = {}
            => i.head \in X
    BY <1>8
  <2>3. NewFacts \subseteq X /\ \A x \in Target : Stratum[TableOf(x)] # stratum => x \in X
    BY <1>6, <1>7
  <2> HIDE DEF X
  <2> QED
    BY <2>1, <2>2, <2>3, TargetLeast DEF Inv
<1> QED
  BY <1>5, <1>9

(* The claims of an INSERT round are as many additions on the ledger.      *)
LEMMA InsertClaims ==
    ASSUME Inv, FreshClaims, NEW g, phase = "add", todo = {g},
           NEW delta, delta = AddClaims(cell, SccRows(g)),
           NEW mid, mid = ClaimedAdd(cell, delta)
    PROVE  /\ Marked(cell, mid, delta, {"kTouched", "kAdd", "kAddNow"})
           /\ delta \subseteq SccRows(g) /\ delta \cap Now = {}
           /\ \A x \in delta : Total(cell[x]) > 0
           /\ NowOf(mid) = Now \cup delta /\ OldOf(mid) = Old
           /\ Reads(mid, g, Now, Now \cup delta, FALSE)
           /\ Ledger(mid, delQ, addQ \ SccRows(g), {}, Count, facts)
<1>1. g \in SccsAt(stratum) /\ phase \in Rounds
  BY DEF Inv, WorkOk, Rounds
<1>2. /\ cell \in [Row -> Cell] /\ Count \subseteq Inst
      /\ Ledger(cell, delQ, addQ, Waiting(cell, phase, todo), Count, facts)
      /\ delQ \subseteq Old /\ addQ \subseteq Row
      /\ GainQueued(cell, addQ, {})
  <2>1. Waiting(cell, phase, todo) = {}
    BY DEF Waiting
  <2> QED
    BY <2>1 DEF Inv, LedgerOk, Ledger, Old
<1>3. \A x \in Row :
           /\ x \in SccRows(g) <=> Group(x) = g
           /\ Group(x) = g => Group(x) # 0
  BY <1>1, RoundShape DEF Inv
<1>4. SccRows(g) \subseteq Row
  BY DEF SccRows
<1>5. \A x \in SccRows(g) : cell[x].f \cap {"kDelNow", "kAddNow"} = {}
  BY <1>3, <1>4 DEF Inv, FlagsOk
<1>6. delta = {x \in SccRows(g) : x \in addQ /\ "kAdd" \notin cell[x].f /\ Total(cell[x]) > 0}
  BY DEF AddClaims, CanClaimAdd
<1>7. \A x \in delta : ~SurvivesSoFar(cell[x]) /\ x \notin Now
  BY <1>6 DEF FreshClaims, Now, NowOf, InNew
<1>8. Marked(cell, mid, delta, {"kTouched", "kAdd", "kAddNow"})
  BY <1>2, ClaimsMark
<1>9. ASSUME NEW x \in Row
      PROVE  /\ mid[x].nr = cell[x].nr /\ mid[x].r = cell[x].r
             /\ \A f \in RowFlags \ {"kTouched", "kAdd", "kAddNow"} : f \in mid[x].f <=> f \in cell[x].f
             /\ "kAdd" \in mid[x].f <=> "kAdd" \in cell[x].f \/ x \in delta
             /\ "kAddNow" \in mid[x].f <=> "kAddNow" \in cell[x].f \/ x \in delta
             /\ x \notin delta => mid[x] = cell[x]
  BY <1>8 DEF Marked
<1>10. ASSUME NEW x \in Row
       PROVE  /\ InI(mid[x]) <=> InI(cell[x])
              /\ SurvivesSoFar(mid[x]) <=> SurvivesSoFar(cell[x])
              /\ "kExplicit" \in mid[x].f <=> "kExplicit" \in cell[x].f
              /\ InNew(mid[x]) <=> x \in Now \cup delta
  <2>1. /\ InI(mid[x]) <=> InI(cell[x])
        /\ SurvivesSoFar(mid[x]) <=> SurvivesSoFar(cell[x])
        /\ "kExplicit" \in mid[x].f <=> "kExplicit" \in cell[x].f
    BY <1>9 DEF RowFlags, InI, SurvivesSoFar
  <2>2. InNew(mid[x]) <=> x \in Now \cup delta
    BY <1>9, <2>1 DEF InNew, Now, NowOf
  <2> QED
    BY <2>1, <2>2
<1>11. OldOf(mid) = Old
  BY <1>10 DEF Old, OldOf
<1>12. NowOf(mid) = Now \cup delta
  <2>1. Now \cup delta \subseteq Row
    BY <1>4, <1>6 DEF Now, NowOf
  <2> QED
    BY <1>10, <2>1 DEF NowOf
<1>13. Reads(mid, g, Now, Now \cup delta, FALSE)
  <2>1. ASSUME NEW y \in SccRows(g)
        PROVE  /\ InNewWithFrontier(mid[y]) <=> y \in Now \cup delta
               /\ InNewSansFrontier(mid[y]) <=> y \in Now
    <3>1. y \in Row
      BY <1>4
    <3>2. InNewWithFrontier(mid[y]) <=> y \in Now \cup delta
      BY <1>10, <3>1 DEF InNewWithFrontier
    <3>3. CASE y \in delta
      <4>1. ~SurvivesSoFar(mid[y]) /\ "kAddNow" \in mid[y].f /\ y \notin Now
        BY <1>7, <1>9, <1>10, <3>1, <3>3
      <4> QED
        BY <3>2, <4>1 DEF InNewSansFrontier
    <3>4. CASE y \notin delta
      <4>1. mid[y] = cell[y] /\ "kAddNow" \notin cell[y].f
        BY <1>5, <1>9, <3>1, <3>4
      <4> QED
        BY <3>1, <3>2, <4>1 DEF InNewSansFrontier, Now, NowOf, InNew
    <3> QED
      BY <3>2, <3>3, <3>4
  <2> QED
    BY <1>10, <2>1 DEF Reads
<1>14. GainQueued(mid, addQ \ SccRows(g), {})
  <2>1. ASSUME NEW x \in Row, Total(mid[x]) > 0
        PROVE  InNew(mid[x]) \/ x \in addQ \ SccRows(g)
    <3>1. Total(cell[x]) > 0
      BY <1>9, <2>1 DEF Total
    <3>2. InNew(cell[x]) \/ x \in addQ
      BY <1>2, <3>1 DEF GainQueued
    <3>3. InNew(cell[x]) => InNew(mid[x])
      BY <1>10 DEF Now, NowOf
    <3>4. x \in addQ /\ x \in SccRows(g) => InNew(mid[x])
      BY <1>6, <1>9, <3>1 DEF InNew
    <3> QED
      BY <3>2, <3>3, <3>4
  <2> QED
    BY <2>1 DEF GainQueued
<1>15. addQ \ SccRows(g) \subseteq Row
  BY <1>2
<1>16. \A x \in Row : /\ mid[x].nr = cell[x].nr /\ mid[x].r = cell[x].r
                      /\ "kInI" \in mid[x].f <=> "kInI" \in cell[x].f
                      /\ "kExplicit" \in mid[x].f <=> "kExplicit" \in cell[x].f
                      /\ SurvivesSoFar(mid[x]) => SurvivesSoFar(cell[x])
  BY <1>9, <1>10 DEF InI
<1>17. mid \in [Row -> Cell]
  BY <1>8 DEF Marked
<1>18. Ledger(mid, delQ, addQ \ SccRows(g), {}, Count, facts)
  BY <1>2, <1>14, <1>15, <1>16, <1>17, LedgerReflag
<1>19. delta \subseteq SccRows(g) /\ delta \cap Now = {} /\ \A x \in delta : Total(cell[x]) > 0
  BY <1>6, <1>7
<1> QED
  BY <1>8, <1>11, <1>12, <1>13, <1>18, <1>19

(* An INSERT round that claims no row that is there keeps the invariant.   *)
LEMMA InsertPreserves ==
    ASSUME Inv, FreshClaims, NEW g, InsertRound(g)
    PROVE  Inv'
<1> DEFINE delta == AddClaims(cell, SccRows(g))
           mid   == ClaimedAdd(cell, delta)
           fires == RoundFires(mid, g, delta, FALSE)
           end   == FoldAll(mid, fires, 1)
           last  == Retired(end, delta, FALSE)
           aq    == (addQ \ SccRows(g)) \cup ParkedUp(mid, end, fires)
           B     == Now \cup delta
           D     == CountedBy(Old, B, phase, stratum, todo)
<1>1. /\ phase = "add" /\ phase' = "add" /\ todo = {g} /\ todo' = {g}
      /\ cell' = last /\ addQ' = aq /\ added' = added \cup delta
      /\ UNCHANGED <<delQ, overdeleted, netRem, netAdd, batch, facts, stratum>>
      /\ phase \in Rounds /\ phase' \in Rounds
      /\ g \in SccsAt(stratum) /\ stratum \in Nat
  BY LastStratumIsLast DEF InsertRound, Inv, WorkOk, Typed, Rounds
<1>2. /\ Marked(cell, mid, delta, {"kTouched", "kAdd", "kAddNow"})
      /\ delta \subseteq SccRows(g) /\ delta \cap Now = {}
      /\ \A x \in delta : Total(cell[x]) > 0
      /\ NowOf(mid) = B /\ OldOf(mid) = Old
      /\ Reads(mid, g, Now, B, FALSE)
      /\ Ledger(mid, delQ, addQ \ SccRows(g), {}, Count, facts)
  BY <1>1, InsertClaims
<1> HIDE DEF delta, mid
<1>3. Fired(fires) = RoundWork(g, Now, B) /\ Once(fires)
  <2>1. Now \cap delta = {}
    BY <1>2
  <2> QED
    BY <1>1, <1>2, <2>1, RoundFired
<1>4. Fired(fires) = D \ Count /\ Count \subseteq D
  <2>1. B = Now \cup delta /\ Now \cap delta = {} /\ delta \subseteq SccRows(g)
    BY <1>2
  <2>2. Inv /\ phase \in Rounds /\ todo = {g}
    BY <1>1
  <2> HIDE DEF B, fires
  <2>3. /\ CountedBy(Old, Now, phase, stratum, todo) \subseteq CountedBy(Old, B, phase, stratum, todo)
        /\ CountedBy(Old, B, phase, stratum, todo) \ CountedBy(Old, Now, phase, stratum, todo)
             = RoundWork(g, Now, B)
    <3>1. Now \subseteq B /\ B \ Now \subseteq SccRows(g)
      BY <2>1
    <3> QED
      BY <2>2, <3>1, RoundCount
  <2> QED
    BY <1>3, <2>3 DEF Count
<1> HIDE DEF fires, B
<1>5. /\ mid \in [Row -> Cell] /\ Fired(fires) \subseteq Inst
      /\ \A x \in Heads(fires) : x \in Row /\ x \in SccRows(g)
  <2>1. \A i \in Fired(fires) : i \in Inst /\ i.head \in SccRows(g)
    BY <1>3 DEF RoundWork
  <2> QED
    BY <1>2, <2>1 DEF Marked, Fired, Heads, SccRows
<1>6. ASSUME NEW x \in Row
      PROVE  /\ Drained(x, phase, stratum, todo) => Group(x) # g
             /\ Open(x, phase, todo) <=> Group(x) = g
             /\ x \in SccRows(g) <=> Group(x) = g
             /\ Group(x) = g => Group(x) # 0
  <2>1. /\ Open(x, phase, {g}) <=> Group(x) = g
        /\ Group(x) = g => Level(x) = stratum
        /\ Drained(x, phase, stratum, {g}) <=>
                  Level(x) < stratum \/ (Level(x) = stratum /\ Group(x) < g)
        /\ x \in SccRows(g) <=> Group(x) = g
        /\ g \in Nat \ {0} /\ Level(x) \in Nat
    BY <1>1, RoundShape, LevelType DEF Inv
  <2> QED
    BY <1>1, <2>1
<1>8. Ledger(end, delQ, aq, {}, D, facts)
  <2>1. Count \cup Fired(fires) = D /\ Fired(fires) \cap Count = {}
    BY <1>4
  <2> HIDE DEF D
  <2> QED
    BY <1>2, <1>3, <1>5, <2>1, LedgerUp
<1>9. /\ end \in [Row -> Cell]
      /\ \A x \in Row :
            end[x].f = mid[x].f \cup (IF x \in Heads(fires) THEN {"kTouched"} ELSE {})
  BY <1>3, <1>5, FoldEffect
<1> HIDE DEF end
<1>10. /\ last \in [Row -> Cell]
       /\ \A x \in Row : /\ last[x].nr = end[x].nr /\ last[x].r = end[x].r
                         /\ x \in delta => last[x].f = end[x].f \ {"kAddNow"}
                         /\ x \notin delta => last[x] = end[x]
  <2>1. Unmarked(end, last, delta, {"kAddNow"})
    BY <1>9, RetireMoves
  <2> HIDE DEF last
  <2> QED
    BY <2>1 DEF Unmarked
<1> HIDE DEF last
<1>11. ASSUME NEW x \in Row
       PROVE  /\ \A f \in RowFlags \ {"kTouched", "kAdd", "kAddNow"} :
                     f \in last[x].f <=> f \in cell[x].f
              /\ "kAdd" \in last[x].f <=> "kAdd" \in cell[x].f \/ x \in delta
              /\ "kAddNow" \in last[x].f => "kAddNow" \in cell[x].f
              /\ "kTouched" \in cell[x].f \/ x \in delta => "kTouched" \in last[x].f
              /\ x \notin SccRows(g) => last[x].f = cell[x].f
  <2>1. /\ x \in delta => mid[x].f = cell[x].f \cup {"kTouched", "kAdd", "kAddNow"}
        /\ x \notin delta => mid[x].f = cell[x].f
    BY <1>2 DEF Marked
  <2>2. /\ end[x].f = mid[x].f \cup {"kTouched"} \/ end[x].f = mid[x].f
        /\ x \notin SccRows(g) => end[x].f = mid[x].f
    BY <1>5, <1>9
  <2>3. /\ x \in delta => last[x].f = end[x].f \ {"kAddNow"}
        /\ x \notin delta => last[x].f = end[x].f
    BY <1>10
  <2>4. CASE x \in delta
    BY <1>2, <2>1, <2>2, <2>3, <2>4 DEF RowFlags
  <2>5. CASE x \notin delta
    <3>1. mid[x].f = cell[x].f /\ last[x].f = end[x].f
      BY <2>1, <2>3, <2>5
    <3> QED
      BY <2>2, <2>3, <2>5, <3>1
  <2> QED
    BY <2>4, <2>5
<1>12. \A x \in Row : /\ InI(last[x]) <=> InI(end[x])
                      /\ InNew(last[x]) <=> InNew(end[x])
                      /\ SurvivesSoFar(last[x]) <=> SurvivesSoFar(end[x])
                      /\ "kExplicit" \in last[x].f <=> "kExplicit" \in end[x].f
  <2>1. ASSUME NEW x \in Row
        PROVE  \A f \in {"kInI", "kDel", "kAdd", "kExplicit"} : f \in last[x].f <=> f \in end[x].f
    BY <1>10
  <2> QED
    BY <2>1 DEF InI, InNew, SurvivesSoFar
<1>13. Old' = Old /\ Now' = B
  <2>1. \A x \in Row : end[x].f = mid[x].f \cup {"kTouched"} \/ end[x].f = mid[x].f
    BY <1>9
  <2>2. OldOf(end) = Old /\ NowOf(end) = B
    BY <1>2, <2>1, TouchedCells
  <2>3. OldOf(last) = OldOf(end) /\ NowOf(last) = NowOf(end)
    BY <1>12 DEF OldOf, NowOf
  <2> QED
    BY <1>1, <2>2, <2>3 DEF Old, Now
<1>14. NewFacts' = NewFacts /\ Target' = Target
  BY <1>1 DEF NewFacts, Target
<1>15. Typed'
  BY <1>1 DEF Inv, Typed, Phases, Settling, Rounds
<1>16. WorkOk'
  <2>1. SccsAt(stratum)' = SccsAt(stratum)
    BY <1>1 DEF SccsAt
  <2> QED
    BY <1>1, <2>1 DEF Inv, WorkOk, Rounds
<1>17. FlagsOk'
  <2>1. ASSUME NEW x \in Row
        PROVE  /\ FlagsOf(cell'[x])
               /\ Group(x) # 0 => cell'[x].f \cap {"kDelNow", "kAddNow"} = {}
               /\ ~Drained(x, phase, stratum, todo) /\ ~Open(x, phase, todo) =>
                      cell'[x].f \cap {"kDel", "kAdd"} = {}
               /\ "kExplicit" \in cell'[x].f <=> x \in NewFacts
    <3>1. /\ FlagsOf(cell[x])
          /\ Group(x) # 0 => cell[x].f \cap {"kDelNow", "kAddNow"} = {}
          /\ ~Drained(x, phase, stratum, todo) /\ ~Open(x, phase, todo) =>
                  cell[x].f \cap {"kDel", "kAdd"} = {}
          /\ "kExplicit" \in cell[x].f <=> x \in NewFacts
      BY <1>1 DEF Inv, FlagsOk
    <3>2. {"kInI", "kDel", "kDelNow", "kExplicit"} \subseteq RowFlags \ {"kTouched", "kAdd", "kAddNow"}
      BY DEF RowFlags
    <3>3. FlagsOf(last[x])
      BY <1>11, <3>1, <3>2 DEF FlagsOf, ScratchFlags
    <3>4. last[x].f \cap {"kDelNow", "kAddNow"} \subseteq cell[x].f
      BY <1>11, <3>2
    <3>5. x \notin SccRows(g) => last[x].f = cell[x].f
      BY <1>11
    <3>6. "kExplicit" \in last[x].f <=> x \in NewFacts
      BY <1>11, <3>1, <3>2
    <3> QED
      BY <1>1, <1>6, <3>1, <3>3, <3>4, <3>5, <3>6
  <2> QED
    BY <1>1, <1>14, <2>1 DEF FlagsOk
<1>18. VectorsOk'
  <2>1. delta \subseteq Row
    BY <1>2 DEF SccRows
  <2>2. \A x \in Row : "kDel" \in last[x].f <=> "kDel" \in cell[x].f
    BY <1>11 DEF RowFlags
  <2>3. ASSUME NEW x \in Row, Drained(x, phase, stratum, todo)
        PROVE  /\ NetDeleted(last[x]) <=> NetDeleted(cell[x])
               /\ NetAdded(last[x]) <=> NetAdded(cell[x])
    <3>1. last[x].f = cell[x].f
      BY <1>6, <1>11, <2>3
    <3> QED
      BY <3>1 DEF NetDeleted, NetAdded
  <2>4. added' = {x \in Row : "kAdd" \in cell'[x].f}
    BY <1>1, <1>11, <2>1 DEF Inv, VectorsOk
  <2>5. overdeleted' = {x \in Row : "kDel" \in cell'[x].f}
    BY <1>1, <2>2 DEF Inv, VectorsOk
  <2>6. netRem' = {x \in Row : Drained(x, phase', stratum', todo') /\ NetDeleted(cell'[x])}
    BY <1>1, <2>3 DEF Inv, VectorsOk
  <2>7. netAdd' = {x \in Row : Drained(x, phase', stratum', todo') /\ NetAdded(cell'[x])}
    BY <1>1, <2>3 DEF Inv, VectorsOk
  <2> QED
    BY <2>4, <2>5, <2>6, <2>7 DEF VectorsOk
<1>19. Count' = D
  BY <1>1, <1>13 DEF Count, CountedBy
<1>20. Ledger(last, delQ, aq, {}, D, facts)
  <2>1. GainQueued(last, aq, {})
    <3>1. ASSUME NEW x \in Row, Total(last[x]) > 0
          PROVE  InNew(last[x]) \/ x \in aq
      <4>1. Total(end[x]) > 0
        BY <1>10, <3>1 DEF Total
      <4>2. InNew(end[x]) \/ x \in aq
        BY <1>8, <4>1 DEF Ledger, GainQueued
      <4> QED
        BY <1>12, <4>2
    <3> QED
      BY <3>1 DEF GainQueued
  <2>2. aq \subseteq Row
    BY <1>8 DEF Ledger
  <2>3. \A x \in Row : /\ last[x].nr = end[x].nr /\ last[x].r = end[x].r
                       /\ "kInI" \in last[x].f <=> "kInI" \in end[x].f
                       /\ "kExplicit" \in last[x].f <=> "kExplicit" \in end[x].f
                       /\ SurvivesSoFar(last[x]) => SurvivesSoFar(end[x])
    BY <1>10, <1>12 DEF InI
  <2> HIDE DEF D, aq
  <2> QED
    BY <1>8, <1>10, <2>1, <2>2, <2>3, LedgerReflag
<1>21. LedgerOk'
  <2>1. Waiting(cell', phase', todo') = {}
    BY <1>1 DEF Waiting
  <2>2. \A x \in delQ' : ~Open(x, phase', todo')
    BY <1>1 DEF Inv, LedgerOk
  <2> QED
    BY <1>1, <1>19, <1>20, <2>1, <2>2 DEF LedgerOk
<1>22. ModelsOk'
  <2>1. ASSUME NEW x \in Row, Drained(x, phase, stratum, todo)
        PROVE  x \in B <=> x \in Target
    <3>1. x \notin delta
      BY <1>2, <1>6, <2>1
    <3> QED
      BY <2>1, <3>1 DEF B, Inv, ModelsOk
  <2>2. ASSUME NEW x \in B, Open(x, phase, todo)
        PROVE  x \in Target
    <3>1. CASE x \in Now
      BY <1>1, <2>2, <3>1 DEF Inv, ModelsOk
    <3>2. CASE x \in delta
      BY <1>1, <1>2, <3>2, DerivedRight
    <3> QED
      BY <3>1, <3>2 DEF B
  <2> QED
    BY <1>1, <1>13, <1>14, <2>1, <2>2 DEF Inv, ModelsOk
<1> QED
  BY <1>15, <1>16, <1>17, <1>18, <1>21, <1>22 DEF Inv

(* The end of the rounds of an SCC keeps the invariant.                    *)
LEMMA InsertDonePreserves ==
    ASSUME Inv, NEW g, InsertDone(g)
    PROVE  Inv'
<1>1. /\ phase = "add" /\ phase' = "scc" /\ todo = {g}
      /\ todo' = {h \in SccsAt(stratum) : h > g}
      /\ AddClaims(cell, SccRows(g)) = {}
      /\ addQ' = addQ \ SccRows(g)
      /\ netRem' = netRem \cup {x \in overdeleted \cap SccRows(g) : NetDeleted(cell[x])}
      /\ netAdd' = netAdd \cup {x \in added \cap SccRows(g) : NetAdded(cell[x])}
      /\ UNCHANGED <<cell, delQ, overdeleted, added, batch, facts, stratum>>
      /\ phase \in Rounds /\ phase \in Settling /\ phase' \in Settling
      /\ g \in SccsAt(stratum) /\ stratum \in Nat /\ g \in Nat \ {0}
  BY LastStratumIsLast, SccShape DEF InsertDone, Inv, WorkOk, Typed, Rounds, Settling
<1>2. ASSUME NEW x \in Row
      PROVE  /\ Drained(x, phase', stratum', todo') <=>
                    Drained(x, phase, stratum, todo) \/ x \in SccRows(g)
             /\ x \in SccRows(g) <=> Open(x, phase, todo)
             /\ ~Open(x, phase', todo')
  <2>1. Level(x) \in Nat /\ Group(x) \in Nat
    BY LevelType
  <2>2. /\ Open(x, phase, {g}) <=> Group(x) = g
        /\ Group(x) = g => Level(x) = stratum
        /\ Drained(x, phase, stratum, {g}) <=>
                  Level(x) < stratum \/ (Level(x) = stratum /\ Group(x) < g)
        /\ x \in SccRows(g) <=> Group(x) = g
    BY <1>1, RoundShape DEF Inv
  <2>3. Drained(x, phase', stratum', todo') <=>
           \/ Level(x) < stratum
           \/ Level(x) = stratum /\ (Group(x) = 0 \/ Group(x) \notin todo')
    BY <1>1, <2>1 DEF Drained, Settling, Rounds
  <2>4. Level(x) = stratum /\ Group(x) # 0 => (Group(x) \in todo' <=> Group(x) > g)
    BY <1>1, GroupAt
  <2>5. Level(x) = stratum =>
           ((Group(x) = 0 \/ Group(x) \notin todo') <=> (Group(x) < g \/ Group(x) = g))
    <3>1. CASE Group(x) = 0
      BY <1>1, <3>1
    <3>2. CASE Group(x) # 0
      BY <1>1, <2>1, <2>4, <3>2
    <3> QED
      BY <3>1, <3>2
  <2>6. ~Open(x, phase', todo')
    BY <1>1 DEF Open, Rounds
  <2> QED
    BY <1>1, <2>2, <2>3, <2>5, <2>6
<1>3. Old' = Old /\ Now' = Now /\ NewFacts' = NewFacts /\ Target' = Target
  BY <1>1 DEF Old, Now, NewFacts, Target
<1>4. Typed'
  BY <1>1 DEF Inv, Typed, Phases
<1>5. WorkOk'
  <2>1. SccsAt(stratum)' = SccsAt(stratum)
    BY <1>1 DEF SccsAt
  <2>2. \A h \in SccsAt(stratum) : h \in Nat
    BY SccShape
  <2>3. /\ todo' \subseteq SccsAt(stratum)
        /\ \A h \in todo' : \A k \in SccsAt(stratum) : h <= k => k \in todo'
    <3>1. ASSUME NEW h \in todo', NEW k \in SccsAt(stratum), h <= k
          PROVE  k > g
      <4>1. h \in Nat /\ k \in Nat /\ g \in Nat /\ h > g
        BY <1>1, <2>2
      <4> QED
        BY <3>1, <4>1
    <3> QED
      BY <1>1, <3>1
  <2>4. batch.busy
    BY <1>1 DEF Inv, WorkOk
  <2> QED
    BY <1>1, <2>1, <2>3, <2>4 DEF WorkOk, Rounds
<1>6. FlagsOk'
  <2>1. ASSUME NEW x \in Row
        PROVE  /\ FlagsOf(cell[x])
               /\ Group(x) # 0 => cell[x].f \cap {"kDelNow", "kAddNow"} = {}
               /\ ~Drained(x, phase, stratum, todo) /\ ~Open(x, phase, todo) =>
                      cell[x].f \cap {"kDel", "kAdd"} = {}
               /\ "kExplicit" \in cell[x].f <=> x \in NewFacts
    BY <1>1 DEF Inv, FlagsOk
  <2> QED
    BY <1>1, <1>2, <1>3, <2>1 DEF FlagsOk
<1>7. VectorsOk'
  <2>1. overdeleted = {x \in Row : "kDel" \in cell[x].f} /\ added = {x \in Row : "kAdd" \in cell[x].f}
    BY DEF Inv, VectorsOk
  <2>2. \A x \in Row : x \in netRem' <=> Drained(x, phase', stratum', todo') /\ NetDeleted(cell'[x])
    BY <1>1, <1>2, <2>1 DEF Inv, VectorsOk, NetDeleted
  <2>3. \A x \in Row : x \in netAdd' <=> Drained(x, phase', stratum', todo') /\ NetAdded(cell'[x])
    BY <1>1, <1>2, <2>1 DEF Inv, VectorsOk, NetAdded
  <2>4. netRem' \subseteq Row /\ netAdd' \subseteq Row
    BY <1>1 DEF Inv, VectorsOk, SccRows
  <2> QED
    BY <1>1, <2>1, <2>2, <2>3, <2>4 DEF VectorsOk
<1>8. Count' = Count
  BY <1>1, <1>3, CountSame DEF Count, CountedBy
<1>9. LedgerOk'
  <2>1. Waiting(cell, phase, todo) = {} /\ Waiting(cell', phase', todo') = {}
    BY <1>1 DEF Waiting
  <2>2. Ledger(cell, delQ, addQ, {}, Count, facts)
    BY <2>1 DEF Inv, LedgerOk
  <2>3. GainQueued(cell, addQ \ SccRows(g), {})
    <3>1. ASSUME NEW x \in Row, Total(cell[x]) > 0, ~InNew(cell[x])
          PROVE  x \in addQ \ SccRows(g)
      <4>1. x \in addQ
        BY <2>2, <3>1 DEF Ledger, GainQueued
      <4>2. x \notin SccRows(g)
        BY <1>1, <3>1, <4>1 DEF AddClaims, CanClaimAdd, InNew
      <4> QED
        BY <4>1, <4>2
    <3> QED
      BY <3>1 DEF GainQueued
  <2>4. Ledger(cell, delQ, addQ \ SccRows(g), {}, Count, facts)
    BY <2>2, <2>3 DEF Ledger
  <2> QED
    BY <1>1, <1>8, <2>1, <2>4 DEF LedgerOk
<1>10. ModelsOk'
  <2>1. ASSUME NEW x \in Row, Drained(x, phase', stratum', todo')
        PROVE  x \in Now <=> x \in Target
    <3>1. CASE Drained(x, phase, stratum, todo)
      BY <3>1 DEF Inv, ModelsOk
    <3>2. CASE x \in SccRows(g)
      BY <1>1, <3>2, TargetReached
    <3> QED
      BY <1>2, <2>1, <3>1, <3>2
  <2> QED
    BY <1>1, <1>3, <2>1 DEF Inv, ModelsOk
<1> QED
  BY <1>4, <1>5, <1>6, <1>7, <1>9, <1>10 DEF Inv

-----------------------------------------------------------------------------
(***************************************************************************)
(* The whole epoch: the invariant, and what it gives.                      *)
(***************************************************************************)

(* At the sweeps every table is drained: the rows are those of the new     *)
(* model, the counters count its derivations.                              *)
LEMMA CommitReady ==
    ASSUME Inv, phase = "commit"
    PROVE  /\ Now = Target
           /\ Count = {i \in Inst : Holds(i, Target)}
           /\ \A x \in Row : Total(cell[x]) > 0 <=> x \in Target
<1>1. /\ stratum = LastStratum /\ stratum \in Nat /\ phase \in Settling
      /\ cell \in [Row -> Cell] /\ Count \subseteq Inst /\ Counts(cell, Count)
  BY LastStratumIsLast DEF Inv, WorkOk, LedgerOk, Ledger, Settling
<1>2. ASSUME NEW x \in Row
      PROVE  x \in Now <=> x \in Target
  <2>1. Level(x) \in Nat /\ Level(x) <= stratum
    BY <1>1, LastStratumIsLast, LevelType DEF Level
  <2>2. Drained(x, phase, stratum, todo)
    BY <1>1, <2>1 DEF Drained
  <2> QED
    BY <2>2 DEF Inv, ModelsOk
<1>3. /\ Target \subseteq Row /\ NewFacts \subseteq Target
      /\ \A i \in Inst : Holds(i, Target) => i.head \in Target
      /\ \A x \in Target : x \in NewFacts \/ \E i \in Inst : i.head = x /\ Holds(i, Target)
  BY TargetFacts DEF Inv
<1>4. Now = Target
  BY <1>2, <1>3 DEF Now, NowOf
<1>5. ASSUME NEW i \in Inst
      PROVE  i \in Count <=> Holds(i, Target)
  <2>1. i.at \in Nat /\ i.at <= stratum
    <3>1. /\ i.head \in Row /\ i.at \in Nat /\ i.at <= Stratum[TableOf(i.head)]
          /\ Stratum[TableOf(i.head)] \in Nat
      BY HeadsAndAtoms
    <3>2. Stratum[TableOf(i.head)] <= LastStratum
      BY <3>1, LastStratumIsLast
    <3> QED
      BY <1>1, <3>1, <3>2
  <2> QED
    BY <1>1, <1>4, <2>1, CountSettled DEF Count, CountedBy
<1>6. Count = {i \in Inst : Holds(i, Target)}
  BY <1>1, <1>5
<1>7. ASSUME NEW x \in Row
      PROVE  Total(cell[x]) > 0 <=> x \in Target
  <2>1. "kExplicit" \in cell[x].f <=> x \in NewFacts
    BY <1>1 DEF Inv, FlagsOk
  <2>2. Total(cell[x]) > 0 <=> (\E i \in Count : i.head = x) \/ "kExplicit" \in cell[x].f
    BY <1>1, CountedTotal
  <2> QED
    BY <1>3, <1>5, <1>1, <2>1, <2>2
<1> QED
  BY <1>4, <1>6, <1>7

(* The commit sweeps lead to the invariant between batches.                *)
LEMMA CommitPreserves ==
    ASSUME Inv, CommitSweeps
    PROVE  Inv'
<1>1. /\ phase = "commit" /\ phase' = "idle" /\ todo' = {} /\ stratum' = 0
      /\ facts' = NewFacts /\ batch' = NoBatch
      /\ delQ' = {} /\ addQ' = {} /\ overdeleted' = {} /\ added' = {}
      /\ netRem' = {} /\ netAdd' = {}
      /\ cell' = [x \in Row |-> IF "kTouched" \in cell[x].f THEN CommitRow(cell[x]) ELSE cell[x]]
  BY DEF CommitSweeps, GoTo, NewFacts
<1>2. /\ Now = Target
      /\ Count = {i \in Inst : Holds(i, Target)}
      /\ \A x \in Row : Total(cell[x]) > 0 <=> x \in Target
  BY <1>1, CommitReady
<1>3. /\ cell \in [Row -> Cell] /\ Counts(cell, Count)
      /\ \A x \in Row : FlagsOf(cell[x]) /\ ("kExplicit" \in cell[x].f <=> x \in NewFacts)
  BY <1>1 DEF Inv, LedgerOk, Ledger, FlagsOk
<1>4. /\ NewFacts \subseteq Facts /\ Target = LeastModel(NewFacts) /\ Target \subseteq Row
  BY TargetFacts DEF Inv
<1>5. ASSUME NEW x \in Row
      PROVE  /\ cell'[x] \in Cell /\ cell'[x].nr = cell[x].nr /\ cell'[x].r = cell[x].r
             /\ cell'[x].f \subseteq {"kInI", "kExplicit"}
             /\ "kExplicit" \in cell'[x].f <=> x \in NewFacts
             /\ Explicit(cell'[x]) = Explicit(cell[x])
             /\ InI(cell'[x]) <=> x \in Target
             /\ InNew(cell'[x]) <=> x \in Target
  <2>1. cell[x] \in Cell /\ FlagsOf(cell[x]) /\ (Total(cell[x]) > 0 <=> InNew(cell[x]))
        /\ (InNew(cell[x]) <=> x \in Target)
    BY <1>2, <1>3 DEF Now, NowOf
  <2>2. cell'[x] = IF "kTouched" \in cell[x].f THEN CommitRow(cell[x]) ELSE cell[x]
    BY <1>1
  <2>3. /\ cell'[x] \in Cell /\ cell'[x].nr = cell[x].nr /\ cell'[x].r = cell[x].r
        /\ cell'[x].f \subseteq {"kInI", "kExplicit"}
        /\ "kExplicit" \in cell'[x].f <=> "kExplicit" \in cell[x].f
        /\ InI(cell'[x]) <=> InNew(cell[x])
        /\ InNew(cell'[x]) <=> InNew(cell[x])
    BY <2>1, <2>2, SweepMoves
  <2> QED
    BY <1>3, <2>1, <2>3 DEF Explicit
<1>6. Old' = Target /\ Now' = Target
  BY <1>4, <1>5 DEF Old, OldOf, Now, NowOf
<1>7. /\ \A x \in Row : ~Drained(x, phase', stratum', todo') /\ ~Open(x, phase', todo')
      /\ phase' \notin Rounds
  BY <1>1 DEF Drained, Open, Bands, Settling, Rounds
<1>8. ASSUME NEW i \in Inst
      PROVE  Counted(i, Old', Now', phase', stratum', todo') <=> Holds(i, Target)
  BY <1>6, CountedSteady
<1>9. Count' = {i \in Inst : Holds(i, Target)}
  BY <1>8 DEF Count, CountedBy
<1>10. Typed'
  <2>1. 0 \in 0..LastStratum
    BY LastStratumIsLast
  <2> QED
    BY <1>1, <1>4, <2>1 DEF Typed, NoBatch, Phases
<1>11. WorkOk'
  BY <1>1 DEF WorkOk, Rounds
<1>12. FlagsOk'
  <2>1. ASSUME NEW x \in Row
        PROVE  /\ FlagsOf(cell'[x])
               /\ cell'[x].f \subseteq {"kInI", "kExplicit"}
               /\ cell'[x].f \cap {"kDelNow", "kAddNow"} = {}
               /\ cell'[x].f \cap {"kDel", "kAdd"} = {}
               /\ "kExplicit" \in cell'[x].f <=> x \in facts'
    BY <1>1, <1>5 DEF FlagsOf, ScratchFlags
  <2> QED
    BY <1>1, <1>7, <2>1 DEF FlagsOk
<1>13. VectorsOk'
  <2>1. \A x \in Row : "kDel" \notin cell'[x].f /\ "kAdd" \notin cell'[x].f
    BY <1>5
  <2> QED
    BY <1>1, <1>7, <2>1 DEF VectorsOk
<1>14. LedgerOk'
  <2>1. Waiting(cell', phase', todo') = {}
    BY <1>1 DEF Waiting
  <2>2. cell' \in [Row -> Cell]
    <3>1. cell' = [x \in Row |-> cell'[x]]
      BY <1>1
    <3> QED
      BY <1>5, <3>1
  <2>3. Counts(cell', Count')
    BY <1>2, <1>3, <1>5, <1>9 DEF Counts
  <2>4. LossQueued(cell', delQ', Count', facts')
    <3>1. OldOf(cell') = Target
      BY <1>6 DEF Old
    <3> QED
      BY <1>1, <1>5, <1>9, <3>1 DEF LossQueued
  <2>5. GainQueued(cell', addQ', {})
    <3>1. \A x \in Row : Total(cell'[x]) = Total(cell[x])
      BY <1>5 DEF Total
    <3> QED
      BY <1>2, <1>5, <3>1 DEF GainQueued
  <2>6. Ledger(cell', delQ', addQ', {}, Count', facts')
    BY <1>1, <1>9, <2>2, <2>3, <2>4, <2>5 DEF Ledger
  <2> QED
    BY <1>7, <1>1, <2>1, <2>6 DEF LedgerOk
<1>15. ModelsOk'
  BY <1>1, <1>4, <1>6, <1>7 DEF ModelsOk, Rounds
<1> QED
  BY <1>10, <1>11, <1>12, <1>13, <1>14, <1>15 DEF Inv


-----------------------------------------------------------------------------
(* The invariant holds before the first batch.                             *)
LEMMA InitInv ==
    ASSUME Init
    PROVE  Inv
<1>1. /\ cell = [x \in Row |-> NewCell]
      /\ delQ = {} /\ addQ = {} /\ overdeleted = {} /\ added = {}
      /\ netRem = {} /\ netAdd = {} /\ batch = NoBatch /\ facts = {}
      /\ phase = "idle" /\ stratum = 0 /\ todo = {}
  BY DEF Init
<1>2. ASSUME NEW x \in Row
      PROVE  /\ cell[x] = NewCell /\ cell[x] \in Cell
             /\ cell[x].nr = 0 /\ cell[x].r = 0 /\ cell[x].f = {}
             /\ ~InI(cell[x]) /\ ~InNew(cell[x]) /\ ~SurvivesSoFar(cell[x])
             /\ Explicit(cell[x]) = 0 /\ Total(cell[x]) = 0
             /\ ~Drained(x, phase, stratum, todo) /\ ~Open(x, phase, todo)
  <2>1. cell[x] = NewCell
    BY <1>1
  <2>2. cell[x].nr = 0 /\ cell[x].r = 0 /\ cell[x].f = {}
    BY <2>1 DEF NewCell
  <2>3. cell[x] \in Cell
    BY <2>1 DEF NewCell, Cell
  <2>4. ~Drained(x, phase, stratum, todo) /\ ~Open(x, phase, todo)
    BY <1>1 DEF Drained, Open, Bands, Settling, Rounds
  <2>5. /\ ~InI(cell[x]) /\ ~InNew(cell[x]) /\ ~SurvivesSoFar(cell[x])
        /\ Explicit(cell[x]) = 0 /\ Total(cell[x]) = 0
    BY <2>2 DEF InI, InNew, SurvivesSoFar, Explicit, Total
  <2> QED
    BY <2>1, <2>2, <2>3, <2>4, <2>5
<1>3. Old = {} /\ Now = {}
  BY <1>2 DEF Old, OldOf, Now, NowOf
<1>4. Count = {}
  <2>1. ASSUME NEW i \in Inst
        PROVE  ~Counted(i, Old, Now, phase, stratum, todo)
    <3>1. ~Holds(i, Old)
      BY <1>3, BodyNonEmpty DEF Holds
    <3> QED
      BY <1>3, <3>1, CountedSteady
  <2> QED
    BY <2>1 DEF Count, CountedBy
<1>5. Typed
  <2>1. 0 \in 0..LastStratum
    BY LastStratumIsLast
  <2> QED
    BY <1>1, <2>1 DEF Typed, NoBatch, Phases
<1>6. WorkOk
  BY <1>1 DEF WorkOk, Rounds
<1>7. FlagsOk
  <2>1. \A x \in Row : FlagsOf(cell[x])
    BY <1>2 DEF FlagsOf
  <2> QED
    BY <1>1, <1>2, <2>1 DEF FlagsOk
<1>8. VectorsOk
  BY <1>1, <1>2 DEF VectorsOk
<1>9. LedgerOk
  <2>1. Waiting(cell, phase, todo) = {} /\ phase \notin Rounds
    BY <1>1 DEF Waiting, Rounds
  <2>2. cell \in [Row -> Cell]
    <3>1. NewCell \in Cell
      BY DEF NewCell, Cell
    <3> QED
      BY <1>1, <3>1
  <2>3. Counts(cell, {})
    <3>1. ASSUME NEW x \in Row
          PROVE  /\ cell[x].nr = Cardinality(Into({}, x, "kNonRecursive")) + Explicit(cell[x])
                 /\ cell[x].r = Cardinality(Into({}, x, "kRecursive"))
      <4>1. /\ Cardinality(Into({}, x, "kNonRecursive")) = 0
            /\ Cardinality(Into({}, x, "kRecursive")) = 0
        BY IntoEmpty
      <4> QED
        BY <1>2, <4>1
    <3> QED
      BY <3>1 DEF Counts
  <2>4. LossQueued(cell, delQ, {}, facts) /\ GainQueued(cell, addQ, {})
    BY <1>1, <1>2 DEF LossQueued, GainQueued
  <2>5. Ledger(cell, delQ, addQ, {}, {}, facts)
    BY <1>1, <2>2, <2>3, <2>4 DEF Ledger
  <2> QED
    BY <1>1, <1>4, <2>1, <2>5 DEF LedgerOk
<1>10. ModelsOk
  BY <1>1, <1>2, <1>3, EmptyModel DEF ModelsOk
<1> QED
  BY <1>5, <1>6, <1>7, <1>8, <1>9, <1>10 DEF Inv

-----------------------------------------------------------------------------
(* Every step keeps the invariant.                                         *)
LEMMA StepInv ==
    ASSUME Inv, FreshClaims, [Next]_vars
    PROVE  Inv'
<1>1. CASE SubmitOf(Facts)
  BY <1>1, SubmitPreserves DEF SubmitOf
<1>2. CASE Run
  <2>1. CASE Ingest
    BY <2>1, IngestPreserves
  <2>2. CASE \E b \in todo : Seed(b) \/ Crossover(b)
    BY <2>2, SeedPreserves, CrossPreserves
  <2>3. CASE \E i \in todo : JoinSection(i)
    BY <2>3, JoinPreserves
  <2>4. CASE \E a \in todo : ProductArms(a[1], a[2])
    BY <2>4, ProductPreserves
  <2>5. CASE EndBand
    BY <2>5, EndBandPreserves
  <2>6. CASE Drain
    BY <2>6, DrainPreserves
  <2>7. CASE EndStratum
    BY <2>7, EndStratumPreserves
  <2>8. CASE \E g \in todo : StartScc(g)
    BY <2>8, StartSccPreserves
  <2>9. CASE \E g \in todo : OverdeleteRound(g)
    BY <2>9, OverdeletePreserves
  <2>10. CASE \E g \in todo : Rederive(g)
    BY <2>10, RederivePreserves
  <2>11. CASE \E g \in todo : InsertRound(g)
    BY <2>11, InsertPreserves
  <2>12. CASE \E g \in todo : InsertDone(g)
    BY <2>12, InsertDonePreserves
  <2>13. CASE CommitSweeps
    BY <2>13, CommitPreserves
  <2> QED
    BY <1>2, <2>1, <2>2, <2>3, <2>4, <2>5, <2>6, <2>7, <2>8, <2>9, <2>10, <2>11,
       <2>12, <2>13 DEF Run
<1>3. CASE UNCHANGED vars
  <2>1. /\ UNCHANGED <<cell, delQ, addQ, overdeleted, added, netRem, netAdd>>
        /\ UNCHANGED <<batch, facts, phase, stratum, todo>>
    BY <1>3 DEF vars
  <2>2. Old' = Old /\ Now' = Now /\ NewFacts' = NewFacts /\ Target' = Target
    BY <2>1 DEF Old, Now, NewFacts, Target
  <2>3. Typed' /\ WorkOk' /\ VectorsOk' /\ FlagsOk' /\ ModelsOk'
    <3>1. Typed'
      BY <2>1 DEF Inv, Typed
    <3>2. WorkOk'
      BY <2>1, <2>2 DEF Inv, WorkOk, BranchesAt, NegationsAt, ProductWork, SccsAt
    <3>3. VectorsOk'
      BY <2>1 DEF Inv, VectorsOk
    <3>4. FlagsOk'
      BY <2>1, <2>2 DEF Inv, FlagsOk
    <3>5. ModelsOk'
      BY <2>1, <2>2 DEF Inv, ModelsOk
    <3> QED
      BY <3>1, <3>2, <3>3, <3>4, <3>5
  <2>4. LedgerOk'
    BY <2>1, <2>2 DEF Inv, LedgerOk, Count
  <2> QED
    BY <2>3, <2>4 DEF Inv
<1> QED
  BY <1>1, <1>2, <1>3 DEF Next


(* The invariant holds in every state of every behaviour that keeps to     *)
(* FreshClaims.                                                            *)
LEMMA InvariantIf == Spec /\ []FreshClaims => []Inv
<1>1. Init => Inv
  BY InitInv
<1>2. Inv /\ FreshClaims /\ [Next]_vars => Inv'
  BY StepInv
<1> QED
  BY <1>1, <1>2, PTL DEF Spec

-----------------------------------------------------------------------------
(* With single seeds no INSERT round claims a row that is there.           *)

(* Where no row of an SCC that is there is queued for addition, none is    *)
(* claimed.                                                                *)
LEMMA UnflippedFresh ==
    ASSUME Inv, Unflipped
    PROVE  FreshClaims
<1>1. SUFFICES ASSUME phase = "add", NEW g \in todo, NEW x \in AddClaims(cell, SccRows(g))
               PROVE  ~SurvivesSoFar(cell[x])
  BY DEF FreshClaims
<1>2. g \in SccsAt(stratum)
  BY <1>1 DEF Inv, WorkOk, Rounds
<1>3. x \in addQ /\ Group(x) = g /\ g # 0
  BY <1>1, <1>2, SccShape DEF AddClaims, SccRows, Group
<1> QED
  BY <1>3 DEF Unflipped

(* A row of an SCC that was there and gets its seed back in a band has     *)
(* another derivation, from its own SCC, which no band folds.              *)
LEMMA SeedFold ==
    ASSUME SingleSeed, Inv, phase \in Bands, NEW td \in SUBSET todo,
           NEW C, C = CountedBy(Old, Now, phase, stratum, td),
           NEW x \in Old, Group(x) # 0, NEW i \in C \ Count, i.head = x
    PROVE  \E j \in Count \cap C : j.head = x
<1>1. i \in Inst /\ i \notin Count /\ i \in C /\ stratum \in Nat
  BY LastStratumIsLast DEF CountedBy, Inv, Typed
<1>2. ~Holds(i, Old)
  BY <1>1, CountGrows DEF Count, CountedBy
<1>3. stratum <= Level(x)
  <2>1. ~(i.at < stratum)
    BY <1>1, CountBelow DEF Count, CountedBy
  <2> QED
    BY <1>1, <2>1, HeadsAndAtoms DEF Level
<1>4. x \in LeastModel(facts) /\ x \notin facts /\ facts \subseteq Facts
  BY <1>1, HeadsAndAtoms DEF Inv, ModelsOk, Typed
<1>5. PICK j \in Inst : j.head = x /\ Holds(j, Old)
  BY <1>4, OldSupported DEF Inv, ModelsOk
<1>6. Seeded(i)
  BY <1>1, <1>2, <1>3, UnseededSteady DEF Inv, Count, CountedBy
<1>7. ~Seeded(j)
  BY <1>1, <1>2, <1>5, <1>6 DEF SingleSeed
<1>8. j \in Count /\ j \in C
  BY <1>1, <1>3, <1>5, <1>7, UnseededSteady DEF Inv, Count, CountedBy
<1> QED
  BY <1>5, <1>8

(* A step of a band queues no row of an SCC that is there.                 *)
LEMMA BandUnflipped ==
    ASSUME SingleSeed, Inv, Unflipped, phase \in Bands,
           NEW td \in SUBSET todo, NEW minus, NEW plus, Once(minus), Once(plus),
           Fired(minus) = Count \ CountedBy(Old, Now, phase, stratum, td),
           Fired(plus) = CountedBy(Old, Now, phase, stratum, td) \ Count,
           FoldMinusPlus(minus, plus) \/ FoldPlusMinus(plus, minus)
    PROVE  Unflipped'
<1> DEFINE C == CountedBy(Old, Now, phase, stratum, td)
<1>1. /\ Ledger(cell, delQ, addQ, {}, Count, facts)
      /\ Touched(cell, cell')
  <2>1. Waiting(cell, phase, todo) = {}
    BY DEF Waiting, Bands
  <2> QED
    BY <2>1, BandStep DEF Inv, LedgerOk
<1>2. /\ Count \subseteq Inst /\ C \subseteq Inst
      /\ Fired(minus) \subseteq Count /\ Fired(minus) \subseteq Inst /\ Fired(plus) \subseteq Inst
      /\ Count \cap C = Count \ Fired(minus)
      /\ cell \in [Row -> Cell] /\ Counts(cell, Count) /\ addQ \subseteq Row
  BY <1>1 DEF Count, CountedBy, Ledger
<1>3. \A x \in Heads(plus) : x \in Row /\ \E i \in C \ Count : i.head = x
  BY <1>2, HeadsAndAtoms DEF Heads, Fired
<1>4. ASSUME NEW cells \in [Row -> Cell], NEW D \in SUBSET Inst, Touched(cell, cells),
             Counts(cells, D), Count \cap C \subseteq D,
             NEW x \in Heads(plus), Group(x) # 0, SurvivesSoFar(cells[x])
      PROVE  Total(cells[x]) > 0
  <2>1. x \in Row /\ x \in Old
    BY <1>3, <1>4, TouchReads DEF Touched, Old, OldOf, SurvivesSoFar, InI
  <2>2. PICK i \in C \ Count : i.head = x
    BY <1>3
  <2> HIDE DEF C
  <2>3. \E j \in Count \cap C : j.head = x
    BY <1>4, <2>1, <2>2, SeedFold DEF C
  <2> QED
    BY <1>4, <2>1, <2>3, CountedTotal
<1>5. \A x \in Row : SurvivesSoFar(cell'[x]) <=> SurvivesSoFar(cell[x])
  BY <1>1, TouchReads DEF Touched
<1> HIDE DEF C
<1>6. CASE FoldMinusPlus(minus, plus)
  <2> DEFINE mid == FoldAll(cell, minus, -1)
             end == FoldAll(mid, plus, 1)
  <2>1. Ledger(mid, delQ \cup ParkedDown(cell, mid, minus), addQ, {}, Count \ Fired(minus), facts)
    BY <1>1, <1>2, LedgerDown
  <2>2. Touched(cell, mid)
    BY <1>2, FoldTouches
  <2>3. addQ' = addQ \cup ParkedUp(mid, end, plus)
    BY <1>6 DEF FoldMinusPlus
  <2> HIDE DEF mid
  <2>4. mid \in [Row -> Cell] /\ Counts(mid, Count \cap C) /\ Count \cap C \in SUBSET Inst
    BY <1>2, <2>1 DEF Ledger
  <2>5. ASSUME NEW x \in ParkedUp(mid, end, plus), Group(x) # 0
        PROVE  ~SurvivesSoFar(cell'[x])
    <3>1. x \in Heads(plus) /\ x \in Row /\ Total(mid[x]) <= 0
      BY <1>3 DEF ParkedUp, CrossedUp
    <3>2. Total(mid[x]) \in Int
      BY <2>4, <3>1 DEF Cell, Total
    <3>3. ~SurvivesSoFar(mid[x])
      BY <1>4, <2>2, <2>4, <2>5, <3>1, <3>2
    <3> QED
      BY <1>5, <2>2, <3>1, <3>3, TouchReads DEF Touched
  <2> QED
    BY <1>2, <1>5, <2>3, <2>5 DEF Unflipped
<1>7. CASE FoldPlusMinus(plus, minus)
  <2> DEFINE mid == FoldAll(cell, plus, 1)
  <2>1. addQ' = addQ \cup ParkedUp(cell, mid, plus)
    BY <1>7 DEF FoldPlusMinus
  <2>2. Touched(cell, cell) /\ Count \cap C \subseteq Count
    BY DEF Touched
  <2>3. ASSUME NEW x \in ParkedUp(cell, mid, plus), Group(x) # 0
        PROVE  ~SurvivesSoFar(cell'[x])
    <3>1. x \in Heads(plus) /\ x \in Row /\ Total(cell[x]) <= 0
      BY <1>3 DEF ParkedUp, CrossedUp
    <3>2. Total(cell[x]) \in Int
      BY <1>2, <3>1 DEF Cell, Total
    <3> QED
      BY <1>2, <1>4, <1>5, <2>2, <2>3, <3>1, <3>2
  <2> QED
    BY <1>2, <1>5, <2>1, <2>3 DEF Unflipped
<1> QED
  BY <1>6, <1>7


(* Nor does the ingestion of messages: a row that is there and received is *)
(* explicit already.                                                       *)
LEMMA IngestUnflipped ==
    ASSUME Inv, Ingest
    PROVE  Unflipped'
<1>1. /\ phase = "ingest" /\ addQ = {}
      /\ facts \subseteq Facts /\ batch.adds \subseteq Facts
      /\ cell' = [x \in Row |-> IF x \in batch.adds THEN AddExplicit(cell[x])
                                ELSE IF x \in batch.removes THEN SubExplicit(cell[x])
                                ELSE cell[x]]
      /\ addQ' = addQ \cup {x \in batch.adds : CrossedUp(cell[x], cell'[x])}
  BY DEF Ingest, Inv, WorkOk, Typed
<1>2. /\ cell \in [Row -> Cell] /\ Count \subseteq Inst /\ Counts(cell, Count)
      /\ Old = LeastModel(facts)
  BY DEF Inv, LedgerOk, Ledger, ModelsOk
<1>3. SUFFICES ASSUME NEW x \in batch.adds, CrossedUp(cell[x], cell'[x]),
                      SurvivesSoFar(cell'[x])
               PROVE  FALSE
  BY <1>1 DEF Unflipped
<1>4. x \in Row /\ x \in Facts /\ cell'[x] = AddExplicit(cell[x])
  BY <1>1, <1>3 DEF Facts
<1>5. "kInI" \in cell[x].f
  <2>1. cell[x] \in Cell
    BY <1>2, <1>4
  <2>2. CASE "kExplicit" \in cell[x].f
    BY <1>3, <1>4, <2>2 DEF AddExplicit, SurvivesSoFar
  <2>3. CASE "kExplicit" \notin cell[x].f
    <3>1. cell'[x].f = cell[x].f \cup {"kExplicit", "kTouched"}
      BY <1>4, <2>1, <2>3 DEF AddExplicit, FoldAt, Touch, Cell
    <3> QED
      BY <1>3, <3>1 DEF SurvivesSoFar
  <2> QED
    BY <2>2, <2>3
<1>6. x \in facts
  <2>1. x \in LeastModel(facts)
    BY <1>2, <1>4, <1>5 DEF Old, OldOf, InI
  <2> QED
    BY <1>1, <1>4, <2>1, OldSupported, HeadsAndAtoms
<1>7. "kExplicit" \in cell[x].f
  BY <1>1, <1>4, <1>6 DEF Inv, FlagsOk
<1>8. Total(cell[x]) > 0 /\ Total(cell[x]) \in Int
  BY <1>2, <1>4, <1>7, CountedTotal DEF Cell, Total
<1> QED
  BY <1>3, <1>8 DEF CrossedUp

(* So for the seed loops, sections, crossovers and arms.                   *)
LEMMA BandsUnflipped ==
    ASSUME SingleSeed, Inv, Unflipped
    PROVE  /\ \A b : Seed(b) \/ Crossover(b) => Unflipped'
           /\ \A i : JoinSection(i) => Unflipped'
           /\ \A b, p : ProductArms(b, p) => Unflipped'
<1>1. ASSUME NEW b, Seed(b)
      PROVE  Unflipped'
  <2>1. /\ phase = "seed" /\ b \in todo /\ phase \in Bands /\ todo \ {b} \in SUBSET todo
        /\ FoldMinusPlus(SeedFires(b, netRem), SeedFires(b, netAdd))
    BY <1>1 DEF Seed, Bands
  <2> QED
    BY <2>1, SeedMoves, BandUnflipped
<1>2. ASSUME NEW b, Crossover(b)
      PROVE  Unflipped'
  <2>1. /\ phase = "cross" /\ b \in todo /\ phase \in Bands /\ todo \ {b} \in SUBSET todo
        /\ FoldMinusPlus(CrossFires(b, netAdd), CrossFires(b, netRem))
    BY <1>2 DEF Crossover, Bands
  <2> QED
    BY <2>1, CrossMoves, BandUnflipped
<1>3. ASSUME NEW i, JoinSection(i)
      PROVE  Unflipped'
  <2> DEFINE C == CountedBy(Old, Now, phase, stratum, todo \ {i})
  <2>1. /\ phase = "join" /\ i \in todo /\ phase \in Bands /\ todo \ {i} \in SUBSET todo
        /\ IF InAddedSection(i) THEN FoldPlusMinus({<<i, 1>>}, {})
                                ELSE FoldMinusPlus({<<i, 1>>}, {})
    BY <1>3 DEF JoinSection, Bands
  <2>2. /\ Fired({<<i, 1>>}) = {i} /\ Once({<<i, 1>>})
        /\ Fired({}) = {} /\ Once({})
    BY DEF Fired, Once
  <2>3. CASE InAddedSection(i)
    <3>1. Count \ C = {} /\ C \ Count = {i}
      BY <2>1, <2>3, JoinMoves
    <3>2. FoldPlusMinus({<<i, 1>>}, {})
      BY <2>1, <2>3
    <3> QED
      BY <2>1, <2>2, <3>1, <3>2, BandUnflipped
  <2>4. CASE ~InAddedSection(i)
    <3>1. Count \ C = {i} /\ C \ Count = {}
      BY <2>1, <2>4, JoinMoves
    <3>2. FoldMinusPlus({<<i, 1>>}, {})
      BY <2>1, <2>4
    <3> QED
      BY <2>1, <2>2, <3>1, <3>2, BandUnflipped
  <2> QED
    BY <2>3, <2>4
<1>4. ASSUME NEW b, NEW p, ProductArms(b, p)
      PROVE  Unflipped'
  <2>1. /\ phase = "product" /\ <<b, p>> \in todo /\ phase \in Bands
        /\ todo \ {<<b, p>>} \in SUBSET todo
        /\ \A q \in 1..(p - 1) : <<b, q>> \notin todo
        /\ FoldPlusMinus(ProductFires(b, p, netAdd), ProductFires(b, p, netRem))
    BY <1>4 DEF ProductArms, Bands
  <2> QED
    BY <2>1, ProductMoves, BandUnflipped
<1> QED
  BY <1>1, <1>2, <1>3, <1>4

(* The single-pass drains do not touch the SCCs.                           *)
LEMMA DrainUnflipped ==
    ASSUME Inv, Unflipped, Drain
    PROVE  Unflipped'
<1> DEFINE mine == {x \in Row : Stratum[TableOf(x)] = stratum /\ Scc[TableOf(x)] = 0}
           dels == DelClaims(cell, mine)
           mid  == ClaimedDel(cell, dels)
           adds == AddClaims(mid, mine)
<1>1. cell' = ClaimedAdd(mid, adds) /\ addQ' = addQ /\ addQ \subseteq Row
  BY DEF Drain, Inv, LedgerOk, Ledger
<1>2. ASSUME NEW x \in Row, Group(x) # 0
      PROVE  cell'[x] = cell[x]
  <2>1. x \notin dels /\ x \notin adds
    BY <1>2 DEF DelClaims, AddClaims, Group
  <2> QED
    BY <1>1, <2>1 DEF ClaimedAdd, ClaimedDel
<1> QED
  BY <1>1, <1>2 DEF Unflipped

(* An OVERDELETE round only takes survivors away.                          *)
LEMMA OverdeleteUnflipped ==
    ASSUME Inv, Unflipped, NEW g, OverdeleteRound(g)
    PROVE  Unflipped'
<1> DEFINE delta == DelClaims(cell, SccRows(g))
           mid   == ClaimedDel(cell, delta)
           fires == RoundFires(mid, g, delta, TRUE)
           end   == FoldAll(mid, fires, -1)
<1>1. /\ phase = "del" /\ todo = {g} /\ g \in SccsAt(stratum)
      /\ cell' = Retired(end, delta, TRUE) /\ addQ' = addQ /\ addQ \subseteq Row
  BY DEF OverdeleteRound, Inv, WorkOk, Rounds, LedgerOk, Ledger
<1>2. /\ Marked(cell, mid, delta, {"kTouched", "kDel", "kDelNow"})
      /\ delta \subseteq SccRows(g) /\ delta \subseteq Now
      /\ Reads(mid, g, Now \ delta, Now, TRUE)
  BY <1>1, OverdeleteClaims
<1> HIDE DEF delta, mid
<1>3. Fired(fires) = RoundWork(g, Now \ delta, Now) /\ Once(fires)
  <2>1. Now = (Now \ delta) \cup delta /\ (Now \ delta) \cap delta = {}
    BY <1>2
  <2> QED
    BY <1>1, <1>2, <2>1, RoundFired
<1> HIDE DEF fires
<1>4. Touched(mid, end) /\ end \in [Row -> Cell]
  <2>1. mid \in [Row -> Cell] /\ Fired(fires) \subseteq Inst
    BY <1>2, <1>3 DEF Marked, RoundWork
  <2> QED
    BY <1>3, <2>1, FoldTouches, FoldEffect
<1> HIDE DEF end
<1>5. Unmarked(end, cell', delta, {"kDelNow"})
  BY <1>1, <1>4, RetireMoves
<1>6. ASSUME NEW x \in Row, SurvivesSoFar(cell'[x])
      PROVE  SurvivesSoFar(cell[x])
  <2>1. SurvivesSoFar(end[x])
    BY <1>5, <1>6 DEF Unmarked, SurvivesSoFar
  <2>2. SurvivesSoFar(mid[x])
    BY <1>4, <2>1, TouchReads DEF Touched
  <2> QED
    BY <1>2, <2>2 DEF Marked, SurvivesSoFar
<1> QED
  BY <1>1, <1>6 DEF Unflipped

(* REDERIVE queues deleted rows only.                                      *)
LEMMA RederiveUnflipped ==
    ASSUME Inv, Unflipped, NEW g, Rederive(g)
    PROVE  Unflipped'
<1>1. /\ cell' = cell
      /\ addQ' \subseteq addQ \cup overdeleted
      /\ \A x \in overdeleted : "kDel" \in cell[x].f
  BY DEF Rederive, Inv, VectorsOk
<1> QED
  BY <1>1 DEF Unflipped, SurvivesSoFar

(* A row that is there and gets a derivation in a round has one already.   *)
LEMMA InsertUnflipped ==
    ASSUME Inv, Unflipped, NEW g, InsertRound(g)
    PROVE  Unflipped'
<1> DEFINE delta == AddClaims(cell, SccRows(g))
           mid   == ClaimedAdd(cell, delta)
           fires == RoundFires(mid, g, delta, FALSE)
           end   == FoldAll(mid, fires, 1)
           B     == Now \cup delta
<1>1. /\ phase = "add" /\ todo = {g} /\ g \in SccsAt(stratum) /\ phase \in Rounds
      /\ cell' = Retired(end, delta, FALSE)
      /\ addQ' = (addQ \ SccRows(g)) \cup ParkedUp(mid, end, fires)
      /\ addQ \subseteq Row
  BY DEF InsertRound, Inv, WorkOk, Rounds, LedgerOk, Ledger
<1>2. /\ Marked(cell, mid, delta, {"kTouched", "kAdd", "kAddNow"})
      /\ delta \subseteq SccRows(g) /\ delta \cap Now = {}
      /\ OldOf(mid) = Old
      /\ Reads(mid, g, Now, B, FALSE)
      /\ Ledger(mid, delQ, addQ \ SccRows(g), {}, Count, facts)
  BY <1>1, UnflippedFresh, InsertClaims
<1> HIDE DEF delta, mid
<1>3. Fired(fires) = RoundWork(g, Now, B) /\ Once(fires)
  <2>1. Now \cap delta = {}
    BY <1>2
  <2> QED
    BY <1>1, <1>2, <2>1, RoundFired
<1> HIDE DEF fires, B
<1>4. /\ mid \in [Row -> Cell] /\ Fired(fires) \subseteq Inst
      /\ \A x \in Heads(fires) : x \in Row /\ x \in SccRows(g)
  <2>1. \A i \in Fired(fires) : i \in Inst /\ i.head \in SccRows(g)
    BY <1>3 DEF RoundWork
  <2> QED
    BY <1>2, <2>1 DEF Marked, Fired, Heads, SccRows
<1>5. Touched(mid, end) /\ end \in [Row -> Cell]
  BY <1>3, <1>4, FoldTouches, FoldEffect
<1>6. ASSUME NEW x \in Heads(fires), SurvivesSoFar(mid[x])
      PROVE  ~(Total(mid[x]) <= 0)
  <2>1. x \in Row /\ Open(x, phase, todo)
    BY <1>1, <1>4, RoundShape DEF Inv
  <2>2. x \notin delQ
    BY <1>1, <2>1 DEF Inv, LedgerOk
  <2>3. Typed /\ OldOf(mid) = LeastModel(facts)
    BY <1>2 DEF Inv, ModelsOk
  <2>4. Total(mid[x]) > 0 /\ Total(mid[x]) \in Int
    BY <1>2, <1>4, <1>6, <2>1, <2>2, <2>3, SurvivorSupported DEF Cell, Total
  <2> QED
    BY <2>4
<1>7. \A x \in ParkedUp(mid, end, fires) : x \in Row /\ ~SurvivesSoFar(mid[x])
  BY <1>4, <1>6 DEF ParkedUp, CrossedUp
<1> HIDE DEF end
<1>8. Unmarked(end, cell', delta, {"kAddNow"})
  BY <1>1, <1>5, RetireMoves
<1>9. ASSUME NEW x \in Row
      PROVE  /\ SurvivesSoFar(cell'[x]) => SurvivesSoFar(mid[x])
             /\ SurvivesSoFar(mid[x]) => SurvivesSoFar(cell[x])
  <2>1. SurvivesSoFar(cell'[x]) => SurvivesSoFar(end[x])
    BY <1>8 DEF Unmarked, SurvivesSoFar
  <2>2. SurvivesSoFar(end[x]) => SurvivesSoFar(mid[x])
    BY <1>5, TouchReads DEF Touched
  <2>3. SurvivesSoFar(mid[x]) => SurvivesSoFar(cell[x])
    BY <1>2 DEF Marked, SurvivesSoFar
  <2> QED
    BY <2>1, <2>2, <2>3
<1> QED
  BY <1>1, <1>7, <1>9 DEF Unflipped

(* Every step of a program with single seeds.                              *)
LEMMA StepUnflipped ==
    ASSUME SingleSeed, Inv, Unflipped, [Next]_vars
    PROVE  Unflipped'
<1>1. CASE cell' = cell /\ addQ' \subseteq addQ
  BY <1>1 DEF Unflipped
<1>2. CASE UNCHANGED vars
  BY <1>1, <1>2 DEF vars
<1>3. CASE SubmitOf(Facts)
  BY <1>1, <1>3 DEF SubmitOf, Submit
<1>4. CASE Run
  <2>1. CASE Ingest
    BY <2>1, IngestUnflipped
  <2>2. CASE \E b \in todo : Seed(b) \/ Crossover(b)
    BY <2>2, BandsUnflipped
  <2>3. CASE \E i \in todo : JoinSection(i)
    BY <2>3, BandsUnflipped
  <2>4. CASE \E a \in todo : ProductArms(a[1], a[2])
    BY <2>4, BandsUnflipped
  <2>5. CASE EndBand \/ EndStratum \/ \E g \in todo : StartScc(g)
    BY <1>1, <2>5 DEF EndBand, EndStratum, StartScc
  <2>6. CASE Drain
    BY <2>6, DrainUnflipped
  <2>7. CASE \E g \in todo : OverdeleteRound(g)
    BY <2>7, OverdeleteUnflipped
  <2>8. CASE \E g \in todo : Rederive(g)
    BY <2>8, RederiveUnflipped
  <2>9. CASE \E g \in todo : InsertRound(g)
    BY <2>9, InsertUnflipped
  <2>10. CASE \E g \in todo : InsertDone(g)
    BY <1>1, <2>10 DEF InsertDone
  <2>11. CASE CommitSweeps
    BY <2>11 DEF CommitSweeps, Unflipped
  <2> QED
    BY <1>4, <2>1, <2>2, <2>3, <2>4, <2>5, <2>6, <2>7, <2>8, <2>9, <2>10, <2>11 DEF Run
<1> QED
  BY <1>2, <1>3, <1>4 DEF Next


-----------------------------------------------------------------------------
(* What the invariant says of a state. *)

(* Between batches the counters count the instances that hold in the       *)
(* visible rows.                                                           *)
LEMMA IdleCount ==
    ASSUME Inv, phase = "idle"
    PROVE  /\ Visible = LeastModel(facts)
           /\ Count = {i \in Inst : Holds(i, Visible)}
<1>1. Visible = Old /\ Old = LeastModel(facts)
  BY DEF Visible, Old, OldOf, Inv, ModelsOk
<1>2. \A x \in Row : x \in Now <=> x \in Old
  <2>1. ASSUME NEW x \in Row
        PROVE  InNew(cell[x]) <=> InI(cell[x])
    <3>1. "kDel" \notin cell[x].f /\ "kAdd" \notin cell[x].f
      BY DEF Inv, FlagsOk
    <3> QED
      BY <3>1 DEF InNew, SurvivesSoFar, InI
  <2> QED
    BY <2>1 DEF Now, NowOf, Old, OldOf
<1>3. ASSUME NEW i \in Inst
      PROVE  i \in Count <=> Holds(i, Old)
  <2>1. \A y \in BodyRows(i) \cup i.neg : y \in Now <=> y \in Old
    BY <1>2, HeadsAndAtoms
  <2> QED
    BY <2>1, CountedSteady DEF Count, CountedBy
<1>4. Count \subseteq Inst
  BY DEF Count, CountedBy
<1> QED
  BY <1>1, <1>3, <1>4

(* The invariant makes the counters exact,                                 *)
LEMMA InvCounters ==
    ASSUME Inv
    PROVE  CountersExact
<1>1. SUFFICES ASSUME phase = "idle" PROVE ExactCounts(cell, facts)
  BY DEF CountersExact
<1> DEFINE M == LeastModel(facts)
<1>2. Count = {i \in Inst : Holds(i, M)} /\ Counts(cell, Count)
  BY <1>1, IdleCount DEF Inv, LedgerOk, Ledger
<1> HIDE DEF M
<1>3. ASSUME NEW x \in Row
      PROVE  /\ cell[x].nr = Derivations(x, "kNonRecursive", M) + (IF x \in facts THEN 1 ELSE 0)
             /\ cell[x].r = Derivations(x, "kRecursive", M)
  <2>1. \A k : Into(Count, x, k) = {i \in Inst : i.head = x /\ RuleClass(i) = k /\ Holds(i, M)}
    BY <1>2 DEF Into
  <2>2. \A k : Cardinality(Into(Count, x, k)) = Derivations(x, k, M)
    BY <2>1 DEF Derivations
  <2>3. Explicit(cell[x]) = IF x \in facts THEN 1 ELSE 0
    BY <1>1 DEF Inv, FlagsOk, Explicit
  <2> QED
    BY <1>2, <2>2, <2>3 DEF Counts
<1> QED
  BY <1>3 DEF ExactCounts, M

(* the view,                                                               *)
LEMMA InvView ==
    ASSUME Inv
    PROVE  ViewExact
BY IdleCount DEF ViewExact

(* the lower strata,                                                       *)
LEMMA InvLower ==
    ASSUME Inv
    PROVE  LowerFinal
<1> DEFINE lower == {x \in Row : Stratum[TableOf(x)] < stratum}
           new   == Target
<1>1. SUFFICES ASSUME phase \in Bands
               PROVE  /\ {x \in lower : InNew(cell[x])} = lower \cap new
                      /\ netRem = (lower \cap Visible) \ new
                      /\ netAdd = (lower \cap new) \ Visible
  BY DEF LowerFinal, Bands
<1>2. stratum \in Nat /\ Visible = Old
  BY LastStratumIsLast DEF Inv, Typed, Visible, Old, OldOf
<1>3. \A x \in Row : Drained(x, phase, stratum, todo) <=> x \in lower
  BY <1>1, <1>2, BandDrained DEF Level
<1>4. \A x \in lower : x \in Now <=> x \in new
  BY <1>3 DEF Inv, ModelsOk
<1>5. netRem = Old \ Now /\ netAdd = Now \ Old
  BY <1>1, <1>2, BandFrontiers DEF Inv
<1>6. netRem \subseteq lower /\ netAdd \subseteq lower
  BY <1>3 DEF Inv, VectorsOk
<1>7. {x \in lower : InNew(cell[x])} = lower \cap new
  BY <1>4 DEF Now, NowOf
<1>8. new \subseteq Row
  BY TargetFacts DEF Inv
<1> HIDE DEF lower, new
<1> QED
  BY <1>2, <1>4, <1>5, <1>6, <1>7

(* and the counters that drains and sweeps meet.                           *)
LEMMA InvContract ==
    ASSUME Inv
    PROVE  DrainContract
<1>1. ASSUME NEW x \in Row
      PROVE  Settled(cell[x]) /\ cell[x].nr >= 0 /\ cell[x].r >= 0
  <2>1. /\ cell \in [Row -> Cell] /\ Count \in SUBSET Inst /\ Counts(cell, Count)
    BY DEF Inv, LedgerOk, Ledger
  <2>2. cell[x].nr >= Explicit(cell[x]) /\ cell[x].r >= 0
    BY <2>1, CountedTotal
  <2>3. cell[x].nr \in Int
    BY <2>1 DEF Cell
  <2> QED
    BY <2>2, <2>3 DEF Explicit, Settled
<1> QED
  BY <1>1 DEF DrainContract

(* View maintenance and the procedure mean the same least model.            *)
LEMMA SameModel == \A f : View!LeastModel(f) = LeastModel(f)
BY DEF LeastModel, View!LeastModel, Closure, View!Closure, OneStep, View!OneStep,
   Holds, View!Holds, LastStratum, View!LastStratum, Strata, View!Strata,
   BodyRows, View!BodyRows, TableOf, View!TableOf

(* The initial states are initial states of view maintenance.              *)
LEMMA InitRefines ==
    ASSUME Init
    PROVE  View!AInit
<1>1. Inv /\ facts = {} /\ batch = NoBatch /\ phase = "idle"
  BY InitInv DEF Init
<1>2. Visible = View!LeastModel({})
  BY <1>1, IdleCount, SameModel
<1> QED
  BY <1>1, <1>2 DEF View!AInit, View!NoBatch, NoBatch

(* Each step is a step of view maintenance or none.                        *)
LEMMA StepRefines ==
    ASSUME Inv, Inv', [Next]_vars
    PROVE  [View!ANext]_<<facts, Visible, batch>>
<1>1. Visible = LeastModel(facts) /\ Visible' = LeastModel(facts')
  BY DEF Inv, ModelsOk, Visible, Old, OldOf
<1>2. CASE facts' = facts /\ batch' = batch
  BY <1>1, <1>2
<1>3. CASE SubmitOf(Facts)
  <2>1. /\ phase = "idle" /\ batch = NoBatch /\ facts' = facts
        /\ \E adds \in SUBSET Facts : \E removes \in SUBSET (Facts \ adds) :
               batch' = [adds |-> adds, removes |-> removes, busy |-> TRUE]
    BY <1>3 DEF SubmitOf, Submit, Inv, WorkOk
  <2>2. ~batch.busy
    BY <2>1 DEF NoBatch
  <2>3. View!Facts = Facts
    BY DEF Facts, View!Facts, TableOf, View!TableOf
  <2> QED
    BY <1>1, <2>1, <2>2, <2>3 DEF View!ANext, View!Accept
<1>4. CASE CommitSweeps
  <2>1. batch.busy /\ facts' = (facts \ batch.removes) \cup batch.adds /\ batch' = NoBatch
    BY <1>4 DEF CommitSweeps, Inv, WorkOk
  <2> QED
    BY <1>1, <2>1, SameModel DEF View!ANext, View!Settle, View!Apply, View!NoBatch, NoBatch
<1>5. CASE Run /\ ~CommitSweeps
  <2>1. facts' = facts /\ batch' = batch
    BY <1>5 DEF Run, Ingest, Seed, Crossover, JoinSection, ProductArms, EndBand, Drain,
       EndStratum, StartScc, OverdeleteRound, Rederive, InsertRound, InsertDone
  <2> QED
    BY <1>2, <2>1
<1>6. CASE UNCHANGED vars
  BY <1>2, <1>6 DEF vars
<1> QED
  BY <1>3, <1>4, <1>5, <1>6 DEF Next

-----------------------------------------------------------------------------
(* The results. *)

(* Whatever the program and the batches: as long as no INSERT round claims *)
(* a row that is still there, which TryClaimAdd does not test, every       *)
(* counter is the number of derivations between batches, the visible rows  *)
(* are the least model, lower strata are final when a stratum starts, and  *)
(* drains and sweeps meet no unsettled counter.                            *)
THEOREM ExactIfFresh ==
    Spec /\ []FreshClaims => [](CountersExact /\ ViewExact /\ LowerFinal /\ DrainContract)
<1>1. Inv => CountersExact /\ ViewExact /\ LowerFinal /\ DrainContract
  BY InvCounters, InvView, InvLower, InvContract
<1> QED
  BY <1>1, InvariantIf, PTL

(* Under the same condition the procedure takes the visible rows from      *)
(* model to model in one step per batch.                                   *)
THEOREM RefinesIfFresh == Spec /\ []FreshClaims => RefinesViewMaintenance
<1>1. Init => View!AInit
  BY InitRefines
<1>2. Inv /\ Inv' /\ [Next]_vars => [View!ANext]_<<facts, Visible, batch>>
  BY StepRefines
<1> QED
  BY <1>1, <1>2, InvariantIf, PTL DEF Spec, RefinesViewMaintenance, View!ASpec

(* A program whose recursive tables have one seed per row keeps to the     *)
(* condition whatever the batches.                                         *)
THEOREM SingleSeedFresh ==
    ASSUME SingleSeed
    PROVE  Spec => []FreshClaims
<1>1. Init => Inv /\ Unflipped
  BY InitInv DEF Init, Unflipped
<1>2. Inv /\ Unflipped => FreshClaims
  BY UnflippedFresh
<1>3. Inv /\ Unflipped /\ [Next]_vars => (Inv /\ Unflipped)'
  BY <1>2, StepInv, StepUnflipped
<1> QED
  BY <1>1, <1>2, <1>3, PTL DEF Spec

(* For these programs: between batches the counters are the numbers of     *)
(* derivations of a from-scratch evaluation.                               *)
THEOREM CountersAlwaysExact ==
    ASSUME SingleSeed
    PROVE  Spec => []CountersExact
BY SingleSeedFresh, ExactIfFresh, PTL

(* Between batches the visible rows are the least model of the accepted    *)
(* facts.                                                                  *)
THEOREM ViewAlwaysExact ==
    ASSUME SingleSeed
    PROVE  Spec => []ViewExact
BY SingleSeedFresh, ExactIfFresh, PTL

(* Where the series of a stratum starts, all below it is final and the     *)
(* frontiers are the exact difference of the two models.                   *)
THEOREM LowerAlwaysFinal ==
    ASSUME SingleSeed
    PROVE  Spec => []LowerFinal
BY SingleSeedFresh, ExactIfFresh, PTL

(* Drains find settled counters, sweeps find none negative.                *)
THEOREM ContractAlwaysKept ==
    ASSUME SingleSeed
    PROVE  Spec => []DrainContract
BY SingleSeedFresh, ExactIfFresh, PTL

(* The procedure implements the abstract view maintenance.                 *)
THEOREM ProcedureRefines ==
    ASSUME SingleSeed
    PROVE  Spec => RefinesViewMaintenance
BY SingleSeedFresh, RefinesIfFresh, PTL
=============================================================================
