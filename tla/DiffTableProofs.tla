--------------------------- MODULE DiffTableProofs ---------------------------
(***************************************************************************)
(* Machine-checked proofs about DiffTable, for any finite set of rows, any *)
(* counter width and both kinds of table.                                  *)
(***************************************************************************)
EXTENDS DiffTable, FiniteSetTheorems, TLAPS

(* The counter a fold moves goes by d, the other stays, and of the flags   *)
(* only kTouched changes.                                                  *)
LEMMA FoldAtEffect ==
    ASSUME NEW c \in Cell, NEW k \in DerivClass, NEW d \in {1, -1}
    PROVE  LET e == FoldAt(c, k, d) IN
           /\ e \in Cell
           /\ e.f = c.f \cup {"kTouched"}
           /\ e.nr = IF k = "kNonRecursive" THEN c.nr + d ELSE c.nr
           /\ e.r = IF k = "kNonRecursive" THEN c.r ELSE c.r + d
<1>1. /\ Touch(c) \in Cell
      /\ Touch(c).f = c.f \cup {"kTouched"}
      /\ Touch(c).nr = c.nr /\ Touch(c).r = c.r
  BY DEF Cell, Touch, RowFlags
<1>2. CASE k = "kNonRecursive"
  BY <1>1, <1>2 DEF Cell, FoldAt
<1>3. CASE k # "kNonRecursive"
  BY <1>1, <1>3 DEF Cell, FoldAt
<1> QED
  BY <1>2, <1>3

(* The explicit bit flips, and C_nr follows it. *)
LEMMA ExplicitEffect ==
    ASSUME NEW c \in Cell
    PROVE  /\ "kExplicit" \notin c.f =>
                  /\ AddExplicit(c) \in Cell
                  /\ AddExplicit(c).f = c.f \cup {"kExplicit", "kTouched"}
                  /\ AddExplicit(c).nr = c.nr + 1
                  /\ AddExplicit(c).r = c.r
           /\ "kExplicit" \in c.f =>
                  /\ SubExplicit(c) \in Cell
                  /\ SubExplicit(c).f = (c.f \ {"kExplicit"}) \cup {"kTouched"}
                  /\ SubExplicit(c).nr = c.nr - 1
                  /\ SubExplicit(c).r = c.r
<1>1. ASSUME "kExplicit" \notin c.f
      PROVE  /\ AddExplicit(c) \in Cell
             /\ AddExplicit(c).f = c.f \cup {"kExplicit", "kTouched"}
             /\ AddExplicit(c).nr = c.nr + 1
             /\ AddExplicit(c).r = c.r
  <2> DEFINE b == [c EXCEPT !.f = @ \cup {"kExplicit"}]
  <2>1. /\ b \in Cell
        /\ b.f = c.f \cup {"kExplicit"} /\ b.nr = c.nr /\ b.r = c.r
    BY DEF Cell, RowFlags
  <2>2. AddExplicit(c) = FoldAt(b, "kNonRecursive", 1)
    BY <1>1 DEF AddExplicit
  <2> HIDE DEF b
  <2> QED
    BY <2>1, <2>2, FoldAtEffect DEF DerivClass
<1>2. ASSUME "kExplicit" \in c.f
      PROVE  /\ SubExplicit(c) \in Cell
             /\ SubExplicit(c).f = (c.f \ {"kExplicit"}) \cup {"kTouched"}
             /\ SubExplicit(c).nr = c.nr - 1
             /\ SubExplicit(c).r = c.r
  <2> DEFINE b == [c EXCEPT !.f = @ \ {"kExplicit"}]
  <2>1. /\ b \in Cell
        /\ b.f = c.f \ {"kExplicit"} /\ b.nr = c.nr /\ b.r = c.r
    BY DEF Cell, RowFlags
  <2>2. SubExplicit(c) = FoldAt(b, "kNonRecursive", -1)
    BY <1>2 DEF SubExplicit
  <2> HIDE DEF b
  <2> QED
    BY <2>1, <2>2, FoldAtEffect DEF DerivClass
<1> QED
  BY <1>1, <1>2

LEMMA CellTyped ==
    ASSUME TypeOK, NEW x \in Row
    PROVE  cell[x] \in Cell
BY IntMaxPositive DEF TypeOK, Cell, Counter

(* Claims, retirements and the seal move flags only. *)
LEMMA FlagEffect ==
    ASSUME NEW c \in Cell
    PROVE  /\ ClaimDel(c) \in Cell
           /\ ClaimDel(c).f = c.f \cup {"kTouched", "kDel", "kDelNow"}
           /\ ClaimDel(c).nr = c.nr /\ ClaimDel(c).r = c.r
           /\ ClaimAdd(c) \in Cell
           /\ ClaimAdd(c).f = c.f \cup {"kTouched", "kAdd", "kAddNow"}
           /\ ClaimAdd(c).nr = c.nr /\ ClaimAdd(c).r = c.r
           /\ RetireDel(c) \in Cell
           /\ RetireDel(c).f = c.f \ {"kDelNow"}
           /\ RetireDel(c).nr = c.nr /\ RetireDel(c).r = c.r
           /\ RetireAdd(c) \in Cell
           /\ RetireAdd(c).f = c.f \ {"kAddNow"}
           /\ RetireAdd(c).nr = c.nr /\ RetireAdd(c).r = c.r
<1>1. /\ Touch(c) \in Cell
      /\ Touch(c).f = c.f \cup {"kTouched"}
      /\ Touch(c).nr = c.nr /\ Touch(c).r = c.r
  BY DEF Cell, Touch, RowFlags
<1>2. /\ ClaimDel(c) \in Cell
      /\ ClaimDel(c).f = c.f \cup {"kTouched", "kDel", "kDelNow"}
      /\ ClaimDel(c).nr = c.nr /\ ClaimDel(c).r = c.r
  BY <1>1 DEF Cell, ClaimDel, RowFlags
<1>3. /\ ClaimAdd(c) \in Cell
      /\ ClaimAdd(c).f = c.f \cup {"kTouched", "kAdd", "kAddNow"}
      /\ ClaimAdd(c).nr = c.nr /\ ClaimAdd(c).r = c.r
  BY <1>1 DEF Cell, ClaimAdd, RowFlags
<1>4. /\ RetireDel(c) \in Cell
      /\ RetireDel(c).f = c.f \ {"kDelNow"}
      /\ RetireDel(c).nr = c.nr /\ RetireDel(c).r = c.r
  BY DEF Cell, RetireDel
<1>5. /\ RetireAdd(c) \in Cell
      /\ RetireAdd(c).f = c.f \ {"kAddNow"}
      /\ RetireAdd(c).nr = c.nr /\ RetireAdd(c).r = c.r
  BY DEF Cell, RetireAdd
<1> QED
  BY <1>2, <1>3, <1>4, <1>5

(* A settled touched row is sealed by the sweep. *)
LEMMA CommitRowEffect ==
    ASSUME NEW c \in Cell
    PROVE  LET e == CommitRow(c) IN
           /\ e \in Cell
           /\ e.nr = c.nr /\ e.r = c.r
           /\ "kInI" \in e.f <=> Total(c) > 0
           /\ e.f \cap ScratchFlags = {}
           /\ "kExplicit" \in e.f <=> "kExplicit" \in c.f
<1>1. CommitRow(c) \in Cell /\ CommitRow(c).nr = c.nr /\ CommitRow(c).r = c.r
  BY DEF CommitRow, Cell, RowFlags
<1>2. CommitRow(c).f = (c.f \ (ScratchFlags \cup {"kInI"}))
                       \cup (IF Total(c) > 0 THEN {"kInI"} ELSE {})
  BY DEF CommitRow, Cell
<1> QED
  BY <1>1, <1>2 DEF ScratchFlags

-----------------------------------------------------------------------------
(* A fold preserves the invariant: the cell moves by one in the direction  *)
(* of d, flags stay but for kTouched and kExplicit, and outside the seeds  *)
(* only C_r moves, down in OVERDELETE and up in INSERT.                    *)
LEMMA StoreFoldInv ==
    ASSUME IndInv,
           NEW x \in Row, NEW e \in Cell, NEW d \in {1, -1},
           StoreFold(x, cell[x], e, d),
           e.nr \in (-IntMax - 1)..IntMax, e.r \in (-IntMax - 1)..IntMax,
           "kTouched" \in e.f,
           \A g \in RowFlags \ {"kTouched", "kExplicit"} :
               g \in e.f <=> g \in cell[x].f,
           d = 1 => e.nr >= cell[x].nr /\ e.r >= cell[x].r,
           d = -1 => e.nr <= cell[x].nr /\ e.r <= cell[x].r,
           ~Recursive => e.r = cell[x].r,
           \/ phase = "fold"
           \/ /\ \/ phase = "delFire" /\ d = -1
                 \/ phase = "addFire" /\ d = 1
              /\ e.nr = cell[x].nr
              /\ "kExplicit" \in e.f <=> "kExplicit" \in cell[x].f
    PROVE  IndInv'
<1>1. CASE Overflows(e) /\ phase' = "abort" /\ UNCHANGED <<cell, log, vectors>>
  BY <1>1 DEF IndInv, TypeOK, LogInv, TouchInv, SettledInv, ClaimInv,
              NoLostCrossing, SealedInv, FrontierInv, vectors, Phases, StoreFold
<1>2. CASE ~Overflows(e)
  <2>1. /\ cell' = [cell EXCEPT ![x] = e]
        /\ log' = log \cup {x}
        /\ addQ' = IF d = 1 /\ CrossedUp(cell[x], e) THEN addQ \cup {x} ELSE addQ
        /\ delQ' = IF d = -1 /\ CrossedDown(cell[x], e) THEN delQ \cup {x}
                                                      ELSE delQ
        /\ UNCHANGED <<claimedDel, claimedAdd, frontier, netRemovals,
                       netAdditions, numLive, mirror, phase>>
    BY <1>2 DEF StoreFold
  <2>2. TypeOK
    BY DEF IndInv
  <2>3. cell \in [Row -> Cell] /\ cell' \in [Row -> Cell]
    BY <2>1, <2>2, CellTyped DEF TypeOK
  <2>4. cell'[x] = e /\ \A y \in Row : y # x => cell'[y] = cell[y]
    BY <2>1, <2>3
  <2>5. e \in [nr : Counter, r : Counter, f : SUBSET RowFlags]
    BY <1>2, IntMaxPositive DEF Overflows, Counter, Cell
  <2>6. TypeOK'
    BY <2>1, <2>2, <2>5 DEF TypeOK
  <2>7. LogInv'
    BY <2>1, <2>4 DEF IndInv, LogInv
  <2>8. TouchInv'
    BY <2>1, <2>4 DEF IndInv, TouchInv
  <2>9. SettledInv'
    BY <2>1, <2>4 DEF IndInv, SettledInv, NrSettled
  <2>10. ClaimInv'
    <3> SUFFICES ASSUME NEW y \in Row
                 PROVE  (/\ y \in delQ => InI(cell[y])
                         /\ "kDel" \in cell[y].f <=> y \in claimedDel
                         /\ "kAdd" \in cell[y].f <=> y \in claimedAdd
                         /\ "kDel" \in cell[y].f =>
                                /\ InI(cell[y]) /\ cell[y].nr <= 0
                                /\ phase \notin {"fold", "sealed"}
                         /\ "kAdd" \in cell[y].f =>
                                /\ Present(cell[y])
                                /\ phase \in {"add", "addFire", "filter",
                                             "commit"})'
      BY DEF ClaimInv
    <3>1. phase # "abort"
      OBVIOUS
    <3>2. CASE y # x
      BY <2>1, <2>4, <3>1, <3>2 DEF IndInv, ClaimInv
    <3>3. CASE y = x
      BY <2>1, <2>3, <2>4, <3>1, <3>3
         DEF IndInv, ClaimInv, InI, Present, Total, CrossedDown, RowFlags, Cell
    <3> QED
      BY <3>2, <3>3
  <2>11. NoLostCrossing'
    <3> SUFFICES ASSUME NEW y \in Row
                 PROVE  (/\ InI(cell[y]) /\ cell[y].nr <= 0 /\ cell[y].r <= 0 =>
                                \/ "kDel" \in cell[y].f
                                \/ y \in delQ /\ phase \in {"fold", "del", "delFire"}
                         /\ ~InI(cell[y]) /\ Present(cell[y]) =>
                                \/ "kAdd" \in cell[y].f
                                \/ y \in addQ /\ phase \notin {"filter", "commit", "sealed"}
                         /\ "kDel" \in cell[y].f /\ Present(cell[y]) =>
                                \/ "kAdd" \in cell[y].f
                                \/ y \in addQ /\ phase \in {"add", "addFire"}
                                \/ phase \in {"del", "delFire", "rederive"})'
      BY DEF NoLostCrossing
    <3>1. phase # "abort"
      OBVIOUS
    <3>2. CASE y # x
      BY <2>1, <2>4, <3>1, <3>2 DEF IndInv, NoLostCrossing
    <3>3. CASE y = x
      BY <2>1, <2>3, <2>4, <3>1, <3>3
         DEF IndInv, NoLostCrossing, ClaimInv, InI, Present, Total,
             CrossedDown, CrossedUp, RowFlags, Cell
    <3> QED
      BY <3>2, <3>3
  <2>12. SealedInv' /\ FrontierInv'
    BY <2>1 DEF SealedInv, FrontierInv
  <2> QED
    BY <2>6, <2>7, <2>8, <2>9, <2>10, <2>11, <2>12 DEF IndInv
<1> QED
  BY <1>1, <1>2 DEF StoreFold

(* The folds of the model are folds in the sense of StoreFoldInv. *)
LEMMA FoldInv ==
    ASSUME IndInv, NEW x \in Row, NEW k \in DerivClass, NEW d \in {1, -1},
           Fold(x, k, d),
           ~Recursive => k = "kNonRecursive",
           \/ phase = "fold"
           \/ /\ \/ phase = "delFire" /\ d = -1
                 \/ phase = "addFire" /\ d = 1
              /\ k = "kRecursive"
    PROVE  IndInv'
<1> DEFINE e == FoldAt(cell[x], k, d)
<1>1. cell[x] \in Cell /\ cell[x].nr \in Counter /\ cell[x].r \in Counter
  BY CellTyped DEF IndInv, TypeOK
<1>2. /\ e \in Cell
      /\ e.f = cell[x].f \cup {"kTouched"}
      /\ e.nr = IF k = "kNonRecursive" THEN cell[x].nr + d ELSE cell[x].nr
      /\ e.r = IF k = "kNonRecursive" THEN cell[x].r ELSE cell[x].r + d
  BY <1>1, FoldAtEffect
<1>3. StoreFold(x, cell[x], e, d)
  BY DEF Fold
<1> HIDE DEF e
<1>4. e.nr \in (-IntMax - 1)..IntMax /\ e.r \in (-IntMax - 1)..IntMax
  BY <1>1, <1>2, IntMaxPositive DEF Counter
<1>5. /\ d = 1 => e.nr >= cell[x].nr /\ e.r >= cell[x].r
      /\ d = -1 => e.nr <= cell[x].nr /\ e.r <= cell[x].r
      /\ ~Recursive => e.r = cell[x].r
      /\ k = "kRecursive" => e.nr = cell[x].nr
  BY <1>1, <1>2 DEF Cell
<1> QED
  BY <1>2, <1>3, <1>4, <1>5, StoreFoldInv

LEMMA IngestInv ==
    ASSUME IndInv, NEW x \in Row, IngestAdd(x) \/ IngestRemove(x)
    PROVE  IndInv'
<1>1. cell[x] \in Cell /\ cell[x].nr \in Counter /\ cell[x].r \in Counter
  BY CellTyped DEF IndInv, TypeOK
<1>2. CASE IngestAdd(x) /\ "kExplicit" \notin cell[x].f
  <2> DEFINE e == AddExplicit(cell[x])
  <2>1. /\ e \in Cell
        /\ e.f = cell[x].f \cup {"kExplicit", "kTouched"}
        /\ e.nr = cell[x].nr + 1 /\ e.r = cell[x].r
    BY <1>1, <1>2, ExplicitEffect
  <2>2. StoreFold(x, cell[x], e, 1) /\ phase = "fold"
    BY <1>2 DEF IngestAdd
  <2> HIDE DEF e
  <2>3. e.nr \in (-IntMax - 1)..IntMax /\ e.r \in (-IntMax - 1)..IntMax
    BY <1>1, <2>1, IntMaxPositive DEF Counter
  <2>4. e.nr >= cell[x].nr /\ e.r >= cell[x].r
    BY <1>1, <2>1 DEF Cell
  <2> QED
    BY <2>1, <2>2, <2>3, <2>4, StoreFoldInv
<1>3. CASE IngestRemove(x) /\ x \in log /\ "kExplicit" \in cell[x].f
  <2> DEFINE e == SubExplicit(cell[x])
  <2>1. /\ e \in Cell
        /\ e.f = (cell[x].f \ {"kExplicit"}) \cup {"kTouched"}
        /\ e.nr = cell[x].nr - 1 /\ e.r = cell[x].r
    BY <1>1, <1>3, ExplicitEffect
  <2>2. StoreFold(x, cell[x], e, -1) /\ phase = "fold"
    BY <1>3 DEF IngestRemove
  <2> HIDE DEF e
  <2>3. e.nr \in (-IntMax - 1)..IntMax /\ e.r \in (-IntMax - 1)..IntMax
    BY <1>1, <2>1, IntMaxPositive DEF Counter
  <2>4. e.nr <= cell[x].nr /\ e.r <= cell[x].r
    BY <1>1, <2>1 DEF Cell
  <2> QED
    BY <2>1, <2>2, <2>3, <2>4, StoreFoldInv
<1>4. CASE /\ log' = log \/ log' = log \cup {x}
           /\ UNCHANGED <<cell, vectors, numLive, mirror, phase>>
  BY <1>4 DEF IndInv, TypeOK, LogInv, TouchInv, SettledInv, ClaimInv,
              NoLostCrossing, SealedInv, FrontierInv, vectors
<1> QED
  BY <1>2, <1>3, <1>4 DEF IngestAdd, IngestRemove, vars, vectors

-----------------------------------------------------------------------------
(* A drain of the delete queue, of either form.  From here on an entry of  *)
(* the queue is claimed, was claimed, or was stale.                        *)
LEMMA DelDrainInv ==
    ASSUME IndInv, SinglePassDel \/ \E others \in BOOLEAN : DelRound(others)
    PROVE  IndInv'
<1>1. /\ phase = "del"
      /\ ClaimAllDel
      /\ claimedDel' = claimedDel \cup ClaimableDel
      /\ UNCHANGED <<log, addQ, claimedAdd, netRemovals, netAdditions, numLive,
                     mirror>>
  BY DEF SinglePassDel, DelRound
<1>2. /\ frontier' \subseteq frontier \cup ClaimableDel
      /\ delQ' \subseteq delQ
      /\ phase' \in {"add", "delFire", "rederive"}
      /\ phase' = "add" <=> ~Recursive
  BY DEF SinglePassDel, DelRound
<1>3. \A x \in Row : cell[x] \in Cell
  BY CellTyped DEF IndInv
<1>4. \A x \in Row :
         /\ cell'[x].nr = cell[x].nr /\ cell'[x].r = cell[x].r
         /\ cell'[x].f = IF x \in ClaimableDel
                         THEN cell[x].f \cup {"kTouched", "kDel", "kDelNow"}
                         ELSE cell[x].f
         /\ x \notin ClaimableDel => cell'[x] = cell[x]
  BY <1>1, <1>3, FlagEffect DEF ClaimAllDel
<1>a. \A x \in Row :
         /\ "kInI" \in cell'[x].f <=> "kInI" \in cell[x].f
         /\ "kAdd" \in cell'[x].f <=> "kAdd" \in cell[x].f
         /\ "kExplicit" \in cell'[x].f <=> "kExplicit" \in cell[x].f
         /\ "kDel" \in cell'[x].f <=> "kDel" \in cell[x].f \/ x \in ClaimableDel
  <2> SUFFICES ASSUME NEW x \in Row
               PROVE  /\ "kInI" \in cell'[x].f <=> "kInI" \in cell[x].f
                      /\ "kAdd" \in cell'[x].f <=> "kAdd" \in cell[x].f
                      /\ "kExplicit" \in cell'[x].f <=> "kExplicit" \in cell[x].f
                      /\ "kDel" \in cell'[x].f <=>
                             "kDel" \in cell[x].f \/ x \in ClaimableDel
    OBVIOUS
  <2>1. CASE x \in ClaimableDel
    <3>1. cell'[x].f = cell[x].f \cup {"kTouched", "kDel", "kDelNow"}
      BY <1>4, <2>1
    <3> QED
      BY <2>1, <3>1
  <2>2. CASE x \notin ClaimableDel
    BY <1>4, <2>2
  <2> QED
    BY <2>1, <2>2
<1>5. TypeOK'
  <2>1. TypeOK /\ ClaimableDel \subseteq Row
    BY DEF IndInv, TypeOK, ClaimableDel
  <2>2. \A x \in Row :
           /\ cell'[x] \in Cell
           /\ cell'[x].nr \in Counter /\ cell'[x].r \in Counter
    BY <1>1, <1>3, <1>4, <2>1, FlagEffect DEF ClaimAllDel, TypeOK
  <2>3. cell' \in [Row -> [nr : Counter, r : Counter, f : SUBSET RowFlags]]
    BY <1>1, <2>2 DEF ClaimAllDel, Cell
  <2> QED
    BY <1>1, <1>2, <2>1, <2>3 DEF TypeOK, Phases
<1>6. LogInv'
  <2>1. \A x \in ClaimableDel : x \in log
    <3> SUFFICES ASSUME NEW x \in ClaimableDel, x \notin log PROVE FALSE
      OBVIOUS
    <3>1. x \in Row /\ "kInI" \in cell[x].f
      BY <1>1 DEF IndInv, ClaimInv, ClaimableDel, InI, TypeOK
    <3>2. cell[x].f = {}
      BY <3>1 DEF IndInv, LogInv, NewCell
    <3> QED
      BY <3>1, <3>2
  <2> QED
    BY <1>1, <1>4, <2>1 DEF IndInv, LogInv
<1>7. TouchInv'
  BY <1>4 DEF IndInv, TouchInv
<1>8. SettledInv'
  <2>1. \A x \in Row : NrSettled(cell[x]) => NrSettled(cell'[x])
    <3> SUFFICES ASSUME NEW x \in Row
                 PROVE  NrSettled(cell[x]) => NrSettled(cell'[x])
      OBVIOUS
    <3>1. /\ cell'[x].nr = cell[x].nr
          /\ "kExplicit" \in cell'[x].f <=> "kExplicit" \in cell[x].f
      BY <1>4, <1>a
    <3> QED
      BY <3>1 DEF NrSettled
  <2> QED
    BY <1>1, <1>2, <1>4, <2>1 DEF IndInv, SettledInv
<1>9. ClaimInv'
  <2> SUFFICES ASSUME NEW x \in Row
               PROVE  (/\ x \in delQ => InI(cell[x])
                       /\ "kDel" \in cell[x].f <=> x \in claimedDel
                       /\ "kAdd" \in cell[x].f <=> x \in claimedAdd
                       /\ "kDel" \in cell[x].f =>
                              /\ InI(cell[x]) /\ cell[x].nr <= 0
                              /\ phase \notin {"fold", "sealed"}
                       /\ "kAdd" \in cell[x].f =>
                              /\ Present(cell[x])
                              /\ phase \in {"add", "addFire", "filter",
                                           "commit"})'
    BY DEF ClaimInv
  <2>1. "kAdd" \notin cell[x].f
    <3>1. ~("kAdd" \in cell[x].f /\ phase = "del")
      BY DEF IndInv, ClaimInv
    <3> QED
      BY <1>1, <3>1
  <2>2. x \in ClaimableDel => InI(cell[x]) /\ cell[x].nr <= 0
    BY <1>1 DEF IndInv, ClaimInv, ClaimableDel, CanClaimDel
  <2>3. /\ x \in delQ => InI(cell[x])
        /\ "kDel" \in cell[x].f <=> x \in claimedDel
        /\ "kAdd" \in cell[x].f <=> x \in claimedAdd
        /\ "kDel" \in cell[x].f => InI(cell[x]) /\ cell[x].nr <= 0
    BY <1>1 DEF IndInv, ClaimInv
  <2>4. /\ cell'[x].nr = cell[x].nr
        /\ InI(cell'[x]) <=> InI(cell[x])
        /\ "kAdd" \in cell'[x].f <=> "kAdd" \in cell[x].f
        /\ "kDel" \in cell'[x].f <=> "kDel" \in cell[x].f \/ x \in ClaimableDel
    BY <1>4, <1>a DEF InI
  <2> QED
    BY <1>1, <1>2, <2>1, <2>2, <2>3, <2>4
<1>10. NoLostCrossing'
  <2> SUFFICES ASSUME NEW x \in Row
               PROVE  (/\ InI(cell[x]) /\ cell[x].nr <= 0 /\ cell[x].r <= 0 =>
                            \/ "kDel" \in cell[x].f
                            \/ x \in delQ /\ phase \in {"fold", "del", "delFire"}
                       /\ ~InI(cell[x]) /\ Present(cell[x]) =>
                            \/ "kAdd" \in cell[x].f
                            \/ x \in addQ /\ phase \notin {"filter", "commit", "sealed"}
                       /\ "kDel" \in cell[x].f /\ Present(cell[x]) =>
                            \/ "kAdd" \in cell[x].f
                            \/ x \in addQ /\ phase \in {"add", "addFire"}
                            \/ phase \in {"del", "delFire", "rederive"})'
    BY DEF NoLostCrossing
  <2>1. ~Recursive => cell[x].r = 0
    BY DEF IndInv, SettledInv
  <2>2. "kDel" \in cell'[x].f => cell[x].nr <= 0
    BY <1>1, <1>4 DEF IndInv, ClaimInv, ClaimableDel, CanClaimDel
  <2>3. ~Recursive /\ "kDel" \in cell'[x].f => ~Present(cell'[x])
    <3>1. cell[x].nr \in Int /\ cell[x].r \in Int
      BY <1>3 DEF Cell
    <3>2. cell'[x].nr = cell[x].nr /\ cell'[x].r = cell[x].r
      BY <1>4
    <3> QED
      BY <2>1, <2>2, <3>1, <3>2 DEF Present, Total
  <2> QED
    BY <1>1, <1>2, <1>4, <2>3
       DEF IndInv, NoLostCrossing, ClaimableDel, CanClaimDel, InI, Present, Total
<1>11. SealedInv' /\ FrontierInv'
  BY <1>2 DEF SealedInv, FrontierInv
<1> QED
  BY <1>5, <1>6, <1>7, <1>8, <1>9, <1>10, <1>11 DEF IndInv

(* A drain of the add queue, of either form. *)
LEMMA AddDrainInv ==
    ASSUME IndInv, SinglePassAdd \/ \E others \in BOOLEAN : AddRound(others)
    PROVE  IndInv'
<1>1. /\ phase = "add"
      /\ ClaimAllAdd
      /\ claimedAdd' = claimedAdd \cup ClaimableAdd
      /\ UNCHANGED <<log, delQ, claimedDel, netRemovals, netAdditions, numLive,
                     mirror>>
  BY DEF SinglePassAdd, AddRound
<1>2. /\ frontier' \subseteq frontier \cup ClaimableAdd
      /\ addQ' \subseteq addQ
      /\ phase' \in {"addFire", "filter"}
      /\ ~Recursive => phase' = "filter"
  BY DEF SinglePassAdd, AddRound
<1>3. \A x \in Row : cell[x] \in Cell
  BY CellTyped DEF IndInv
<1>4. \A x \in Row :
         /\ cell'[x].nr = cell[x].nr /\ cell'[x].r = cell[x].r
         /\ x \in ClaimableAdd =>
                cell'[x].f = cell[x].f \cup {"kTouched", "kAdd", "kAddNow"}
         /\ x \notin ClaimableAdd => cell'[x] = cell[x]
  BY <1>1, <1>3, FlagEffect DEF ClaimAllAdd
<1>5. \A x \in Row :
         /\ "kInI" \in cell'[x].f <=> "kInI" \in cell[x].f
         /\ "kDel" \in cell'[x].f <=> "kDel" \in cell[x].f
         /\ "kExplicit" \in cell'[x].f <=> "kExplicit" \in cell[x].f
         /\ "kAdd" \in cell'[x].f <=> "kAdd" \in cell[x].f \/ x \in ClaimableAdd
  <2> SUFFICES ASSUME NEW x \in Row
               PROVE  /\ "kInI" \in cell'[x].f <=> "kInI" \in cell[x].f
                      /\ "kDel" \in cell'[x].f <=> "kDel" \in cell[x].f
                      /\ "kExplicit" \in cell'[x].f <=> "kExplicit" \in cell[x].f
                      /\ "kAdd" \in cell'[x].f <=>
                             "kAdd" \in cell[x].f \/ x \in ClaimableAdd
    OBVIOUS
  <2>1. CASE x \in ClaimableAdd
    <3>1. cell'[x].f = cell[x].f \cup {"kTouched", "kAdd", "kAddNow"}
      BY <1>4, <2>1
    <3> QED
      BY <2>1, <3>1
  <2>2. CASE x \notin ClaimableAdd
    BY <1>4, <2>2
  <2> QED
    BY <2>1, <2>2
<1>6. TypeOK'
  <2>1. TypeOK /\ ClaimableAdd \subseteq Row
    BY DEF IndInv, TypeOK, ClaimableAdd
  <2>2. \A x \in Row :
           /\ cell'[x] \in Cell
           /\ cell'[x].nr \in Counter /\ cell'[x].r \in Counter
    BY <1>1, <1>3, <1>4, <2>1, FlagEffect DEF ClaimAllAdd, TypeOK
  <2>3. cell' \in [Row -> [nr : Counter, r : Counter, f : SUBSET RowFlags]]
    BY <1>1, <2>2 DEF ClaimAllAdd, Cell
  <2> QED
    BY <1>1, <1>2, <2>1, <2>3 DEF TypeOK, Phases
<1>7. LogInv'
  <2>1. \A x \in ClaimableAdd : x \in log
    <3> SUFFICES ASSUME NEW x \in ClaimableAdd, x \notin log PROVE FALSE
      OBVIOUS
    <3>1. x \in Row /\ cell[x].nr + cell[x].r > 0
      BY <1>1 DEF IndInv, ClaimableAdd, CanClaimAdd, Total, TypeOK
    <3>2. cell[x].nr = 0 /\ cell[x].r = 0
      BY <3>1 DEF IndInv, LogInv, NewCell
    <3> QED
      BY <3>1, <3>2
  <2> QED
    BY <1>1, <1>4, <2>1 DEF IndInv, LogInv
<1>8. TouchInv'
  <2> SUFFICES ASSUME NEW x \in Row, "kTouched" \notin cell'[x].f
               PROVE  Sealed(cell'[x])
    BY DEF TouchInv
  <2>1. x \notin ClaimableAdd
    BY <1>4
  <2> QED
    BY <1>4, <2>1 DEF IndInv, TouchInv
<1>9. SettledInv'
  <2>1. \A x \in Row : NrSettled(cell[x]) => NrSettled(cell'[x])
    <3> SUFFICES ASSUME NEW x \in Row
                 PROVE  NrSettled(cell[x]) => NrSettled(cell'[x])
      OBVIOUS
    <3>1. /\ cell'[x].nr = cell[x].nr
          /\ "kExplicit" \in cell'[x].f <=> "kExplicit" \in cell[x].f
      BY <1>4, <1>5
    <3> QED
      BY <3>1 DEF NrSettled
  <2> QED
    BY <1>1, <1>2, <1>4, <2>1 DEF IndInv, SettledInv
<1>10. ClaimInv' /\ NoLostCrossing'
  <2>1. ASSUME NEW x \in Row
        PROVE  /\ InI(cell'[x]) <=> InI(cell[x])
               /\ Present(cell'[x]) <=> Present(cell[x])
               /\ cell'[x].nr = cell[x].nr /\ cell'[x].r = cell[x].r
               /\ "kDel" \in cell'[x].f <=> "kDel" \in cell[x].f
               /\ "kAdd" \in cell'[x].f <=>
                      "kAdd" \in cell[x].f \/ x \in ClaimableAdd
    BY <1>4, <1>5 DEF InI, Present, Total
  <2>2. \A x \in Row :
           x \in ClaimableAdd <=> x \in addQ /\ "kAdd" \notin cell[x].f
                                 /\ Present(cell[x])
    BY DEF ClaimableAdd, CanClaimAdd, Present
  <2>3. ClaimInv'
    BY <1>1, <1>2, <2>1, <2>2 DEF IndInv, ClaimInv
  <2>4. NoLostCrossing'
    BY <1>1, <1>2, <2>1, <2>2 DEF IndInv, NoLostCrossing
  <2> QED
    BY <2>3, <2>4
<1>11. SealedInv' /\ FrontierInv'
  BY <1>2 DEF SealedInv, FrontierInv
<1> QED
  BY <1>6, <1>7, <1>8, <1>9, <1>10, <1>11 DEF IndInv

(* Retiring a frontier clears one bit that no part of the invariant reads. *)
LEMMA RetireInv ==
    ASSUME IndInv, DelRetire \/ AddRetire
    PROVE  IndInv'
<1>1. \A x \in Row : cell[x] \in Cell
  BY CellTyped DEF IndInv
<1>2. \A x \in Row :
         /\ cell'[x] \in Cell
         /\ cell'[x].nr = cell[x].nr /\ cell'[x].r = cell[x].r
         /\ \/ cell'[x].f = cell[x].f
            \/ cell'[x].f = cell[x].f \ {"kDelNow"}
            \/ cell'[x].f = cell[x].f \ {"kAddNow"}
  BY <1>1, FlagEffect DEF DelRetire, AddRetire
<1>3. /\ \/ phase = "delFire" /\ phase' = "del"
         \/ phase = "addFire" /\ phase' = "add"
      /\ UNCHANGED <<log, delQ, addQ, claimedDel, claimedAdd, frontier,
                     netRemovals, netAdditions, numLive, mirror>>
  BY DEF DelRetire, AddRetire, vectors
<1>4. \A x \in Row, g \in {"kInI", "kDel", "kAdd", "kExplicit", "kTouched"} :
         g \in cell'[x].f <=> g \in cell[x].f
  BY <1>2
<1>5. TypeOK'
  <2>1. cell' \in [Row -> [nr : Counter, r : Counter, f : SUBSET RowFlags]]
    <3>1. \A x \in Row : cell[x].nr \in Counter /\ cell[x].r \in Counter
      BY DEF IndInv, TypeOK
    <3>2. cell' = [x \in Row |-> cell'[x]]
      BY DEF DelRetire, AddRetire
    <3> QED
      BY <1>2, <3>1, <3>2 DEF Cell
  <2> QED
    BY <1>3, <2>1 DEF IndInv, TypeOK, Phases
<1>6. LogInv'
  <2>1. \A x \in Row : cell[x] = NewCell => cell'[x] = NewCell
    <3> SUFFICES ASSUME NEW x \in Row, cell[x] = NewCell
                 PROVE  cell'[x] = NewCell
      OBVIOUS
    <3>1. cell'[x].nr = 0 /\ cell'[x].r = 0 /\ cell'[x].f = {}
      BY <1>2 DEF NewCell
    <3> QED
      BY <1>2, <3>1 DEF Cell, NewCell
  <2> QED
    BY <1>3, <2>1 DEF IndInv, LogInv
<1>7. TouchInv'
  <2> SUFFICES ASSUME NEW x \in Row, "kTouched" \notin cell'[x].f
               PROVE  Sealed(cell'[x])
    BY DEF TouchInv
  <2>1. Sealed(cell[x])
    BY <1>4 DEF IndInv, TouchInv
  <2>2. "kDelNow" \notin cell[x].f /\ "kAddNow" \notin cell[x].f
    BY <2>1 DEF Sealed, ScratchFlags
  <2>3. cell'[x].f = cell[x].f
    BY <1>2, <2>2
  <2>4. cell'[x].nr = cell[x].nr /\ cell'[x].r = cell[x].r
    BY <1>2
  <2> QED
    BY <2>1, <2>3, <2>4 DEF Sealed, Total
<1>8. \A x \in Row :
         /\ NrSettled(cell[x]) => NrSettled(cell'[x])
         /\ InI(cell'[x]) <=> InI(cell[x])
         /\ Present(cell'[x]) <=> Present(cell[x])
  BY <1>2, <1>4 DEF NrSettled, InI, Present, Total
<1>9. SettledInv'
  BY <1>2, <1>3, <1>8 DEF IndInv, SettledInv
<1>10. ClaimInv' /\ NoLostCrossing'
  <2>1. ASSUME NEW x \in Row
        PROVE  /\ cell'[x].nr = cell[x].nr /\ cell'[x].r = cell[x].r
               /\ "kDel" \in cell'[x].f <=> "kDel" \in cell[x].f
               /\ "kAdd" \in cell'[x].f <=> "kAdd" \in cell[x].f
    BY <1>2, <1>4
  <2>2. ClaimInv'
    BY <1>3, <1>8, <2>1 DEF IndInv, ClaimInv
  <2>3. NoLostCrossing'
    BY <1>3, <1>8, <2>1 DEF IndInv, NoLostCrossing
  <2> QED
    BY <2>2, <2>3
<1>11. SealedInv' /\ FrontierInv'
  BY <1>3 DEF SealedInv, FrontierInv
<1> QED
  BY <1>5, <1>6, <1>7, <1>9, <1>10, <1>11 DEF IndInv

(* The end of the seeds, REDERIVE and the filters move no cell.  REDERIVE  *)
(* queues every overdeleted row that is still present: its C_nr is zero,   *)
(* so it is C_r that supports it.                                          *)
LEMMA QueueStepInv ==
    ASSUME IndInv, EndSeeds \/ Rederive \/ FrontierFilter \/ CommitAsserts
    PROVE  IndInv'
<1>1. CASE EndSeeds
  BY <1>1 DEF EndSeeds, vectors, IndInv, TypeOK, Phases, LogInv, TouchInv,
              SettledInv, ClaimInv, NoLostCrossing, SealedInv, FrontierInv
<1>2. CASE Rederive
  <2>1. /\ phase = "rederive" /\ phase' = "add"
        /\ addQ' = addQ \cup {x \in claimedDel : RecursivelySupported(cell[x])}
        /\ UNCHANGED <<cell, log, delQ, claimedDel, claimedAdd, frontier,
                       netRemovals, netAdditions, numLive, mirror>>
    BY <1>2 DEF Rederive
  <2>2. \A x \in Row : "kDel" \in cell[x].f /\ Present(cell[x]) => x \in addQ'
    <3> SUFFICES ASSUME NEW x \in Row, "kDel" \in cell[x].f, Present(cell[x])
                 PROVE  x \in addQ'
      OBVIOUS
    <3>1. cell[x].nr \in Int /\ cell[x].r \in Int
      BY CellTyped DEF IndInv, Cell
    <3>2. x \in claimedDel /\ cell[x].nr <= 0
      BY <2>1 DEF IndInv, ClaimInv
    <3>3. cell[x].r > 0
      BY <3>1, <3>2 DEF Present, Total
    <3> QED
      BY <2>1, <3>2, <3>3 DEF RecursivelySupported
  <2>3. TypeOK'
    BY <2>1 DEF IndInv, TypeOK, Phases
  <2>4. LogInv' /\ TouchInv' /\ SettledInv' /\ SealedInv' /\ FrontierInv'
    BY <2>1 DEF IndInv, LogInv, TouchInv, SettledInv, SealedInv, FrontierInv
  <2>5. ClaimInv'
    BY <2>1 DEF IndInv, ClaimInv
  <2>6. NoLostCrossing'
    BY <2>1, <2>2 DEF IndInv, NoLostCrossing
  <2> QED
    BY <2>3, <2>4, <2>5, <2>6 DEF IndInv
<1>3. CASE FrontierFilter
  <2>1. /\ phase = "filter" /\ phase' = "commit"
        /\ netRemovals' = {x \in claimedDel : NetDeleted(cell[x])}
        /\ netAdditions' = {x \in claimedAdd : NetAdded(cell[x])}
        /\ UNCHANGED <<cell, log, delQ, addQ, claimedDel, claimedAdd, frontier,
                       numLive, mirror>>
    BY <1>3 DEF FrontierFilter
  <2>2. /\ \A x \in Row : NetDeleted(cell[x]) => x \in claimedDel
        /\ \A x \in Row : NetAdded(cell[x]) => x \in claimedAdd
    BY <2>1 DEF IndInv, ClaimInv, NetDeleted, NetAdded
  <2>3. FrontierInv'
    BY <2>1, <2>2 DEF IndInv, TypeOK, FrontierInv
  <2>4. TypeOK'
    BY <2>1 DEF IndInv, TypeOK, Phases
  <2>5. LogInv' /\ TouchInv' /\ SettledInv' /\ SealedInv'
    BY <2>1 DEF IndInv, LogInv, TouchInv, SettledInv, SealedInv
  <2>6. ClaimInv' /\ NoLostCrossing'
    BY <2>1 DEF IndInv, ClaimInv, NoLostCrossing
  <2> QED
    BY <2>3, <2>4, <2>5, <2>6 DEF IndInv
<1>4. CASE CommitAsserts
  BY <1>4 DEF CommitAsserts, vectors, IndInv, TypeOK, Phases, LogInv, TouchInv,
              SettledInv, ClaimInv, NoLostCrossing, SealedInv, FrontierInv
<1> QED
  BY <1>1, <1>2, <1>3, <1>4

(* What the sweep makes of a row, touched or not: it is sealed. *)
LEMMA CommitSeals ==
    ASSUME IndInv, Commit, NEW x \in Row
    PROVE  /\ cell'[x] \in Cell
           /\ cell'[x].nr = cell[x].nr /\ cell'[x].r = cell[x].r
           /\ Sealed(cell'[x])
           /\ InI(cell'[x]) <=> Present(cell[x])
           /\ x \notin Touched => cell'[x] = cell[x]
<1>1. cell[x] \in Cell
  BY CellTyped DEF IndInv
<1>2. phase = "commit" /\ NrSettled(cell[x])
  BY DEF Commit, IndInv, SettledInv
<1>3. CASE x \in Touched
  <2>1. cell'[x] = CommitRow(cell[x]) /\ cell[x].nr >= 0 /\ cell[x].r >= 0
    BY <1>3 DEF Commit
  <2>2. /\ cell'[x] \in Cell
        /\ cell'[x].nr = cell[x].nr /\ cell'[x].r = cell[x].r
        /\ "kInI" \in cell'[x].f <=> Total(cell[x]) > 0
        /\ cell'[x].f \cap ScratchFlags = {}
        /\ "kExplicit" \in cell'[x].f <=> "kExplicit" \in cell[x].f
    BY <1>1, <2>1, CommitRowEffect
  <2>3. Total(cell'[x]) = Total(cell[x])
    BY <2>2 DEF Total
  <2>4. "kExplicit" \in cell'[x].f => cell'[x].nr >= 1
    BY <1>2, <2>2 DEF NrSettled
  <2> QED
    BY <1>3, <2>1, <2>2, <2>3, <2>4 DEF Sealed, InI, Present
<1>4. CASE x \notin Touched
  <2>1. cell'[x] = cell[x] /\ "kTouched" \notin cell[x].f
    BY <1>4 DEF Commit, Touched
  <2>2. Sealed(cell[x])
    BY <2>1 DEF IndInv, TouchInv
  <2> QED
    BY <1>1, <2>1, <2>2 DEF Sealed, InI, Present
<1> QED
  BY <1>3, <1>4

LEMMA CommitInv ==
    ASSUME IndInv, Commit
    PROVE  IndInv'
<1>1. /\ phase = "commit" /\ phase' = "sealed" /\ log' = log
      /\ delQ' = {} /\ addQ' = {} /\ claimedDel' = {} /\ claimedAdd' = {}
      /\ frontier' = {} /\ netRemovals' = {} /\ netAdditions' = {}
      /\ mirror' = (mirror \ Vanished) \cup Appeared
      /\ numLive' = numLive + Cardinality(Appeared) - Cardinality(Vanished)
  BY DEF Commit
<1>2. \A x \in Row :
         /\ cell'[x] \in Cell
         /\ cell'[x].nr = cell[x].nr /\ cell'[x].r = cell[x].r
         /\ Sealed(cell'[x])
         /\ x \notin Touched => cell'[x] = cell[x]
  BY CommitSeals
<1>3. \A x \in Row, g \in ScratchFlags : g \notin cell'[x].f
  BY <1>2 DEF Sealed
<1>4. TypeOK'
  <2>1. cell' \in [Row -> [nr : Counter, r : Counter, f : SUBSET RowFlags]]
    <3>1. \A x \in Row : cell[x].nr \in Counter /\ cell[x].r \in Counter
      BY DEF IndInv, TypeOK
    <3>2. cell' = [x \in Row |-> cell'[x]]
      BY DEF Commit
    <3> QED
      BY <1>2, <3>1, <3>2 DEF Cell
  <2>2. Appeared \subseteq Row /\ Vanished \subseteq Row
    BY DEF Appeared, Vanished, Touched
  <2>3. numLive' \in Int
    <3>1. IsFiniteSet(Appeared) /\ IsFiniteSet(Vanished)
      BY <2>2, RowFinite, FS_Subset
    <3>2. Cardinality(Appeared) \in Nat /\ Cardinality(Vanished) \in Nat
      BY <3>1, FS_CardinalityType
    <3> QED
      BY <1>1, <3>2 DEF IndInv, TypeOK
  <2> QED
    BY <1>1, <2>1, <2>2, <2>3 DEF IndInv, TypeOK, Phases
<1>5. LogInv'
  <2>1. \A x \in Row : x \notin log => x \notin Touched
    BY DEF IndInv, LogInv, Touched, NewCell
  <2> QED
    BY <1>1, <1>2, <2>1 DEF IndInv, LogInv
<1>6. TouchInv' /\ SealedInv'
  BY <1>2, <1>3 DEF TouchInv, SealedInv, ScratchFlags
<1>7. SettledInv'
  <2>1. \A x \in Row : NrSettled(cell'[x])
    BY <1>2 DEF Sealed, NrSettled
  <2> QED
    BY <1>1, <1>2, <2>1 DEF IndInv, SettledInv
<1>8. ClaimInv'
  BY <1>1, <1>3 DEF ClaimInv, ScratchFlags
<1>9. NoLostCrossing'
  <2>1. \A x \in Row : InI(cell'[x]) <=> Present(cell'[x])
    BY <1>2 DEF Sealed, InI, Present
  <2>2. \A x \in Row : cell'[x].nr <= 0 /\ cell'[x].r <= 0 => ~Present(cell'[x])
    BY <1>2 DEF Present, Total, Cell
  <2> QED
    BY <1>3, <2>1, <2>2 DEF NoLostCrossing, ScratchFlags
<1>10. FrontierInv'
  BY <1>1 DEF FrontierInv
<1> QED
  BY <1>4, <1>5, <1>6, <1>7, <1>8, <1>9, <1>10 DEF IndInv

(* A dead sealed row is blank, so a compaction changes no cell. *)
LEMMA DeadIsBlank ==
    ASSUME IndInv, phase = "sealed", NEW x \in Dead
    PROVE  cell[x] = NewCell
<1>1. x \in Row /\ Total(cell[x]) <= 0
  BY DEF Dead, IndInv, TypeOK
<1>2. cell[x] \in Cell /\ Sealed(cell[x])
  BY <1>1, CellTyped DEF IndInv, TouchInv, SealedInv
<1>3. cell[x].nr = 0 /\ cell[x].r = 0
  BY <1>1, <1>2 DEF Sealed, Total, Cell
<1>4. cell[x].f = {}
  <2>1. \A g \in RowFlags : g \notin cell[x].f
    <3>1. "kInI" \notin cell[x].f
      BY <1>1, <1>2 DEF Sealed, Total, Cell
    <3>2. "kExplicit" \notin cell[x].f
      BY <1>2, <1>3 DEF Sealed
    <3>3. cell[x].f \cap ScratchFlags = {}
      BY <1>2 DEF Sealed
    <3> QED
      BY <3>1, <3>2, <3>3 DEF ScratchFlags, RowFlags
  <2> QED
    BY <1>2, <2>1 DEF Cell
<1> QED
  BY <1>2, <1>3, <1>4 DEF Cell, NewCell

LEMMA CompactKeepsCells ==
    ASSUME IndInv, CompactDead
    PROVE  cell' = cell
<1>1. \A x \in Dead : cell[x] = NewCell
  BY DeadIsBlank DEF CompactDead
<1> QED
  BY <1>1 DEF CompactDead, IndInv, TypeOK

LEMMA CompactInv ==
    ASSUME IndInv, CompactDead
    PROVE  IndInv'
<1>1. cell' = cell
  BY CompactKeepsCells
<1>2. LogInv'
  <2>1. \A x \in Dead : cell[x] = NewCell
    BY DeadIsBlank DEF CompactDead
  <2> QED
    BY <1>1, <2>1 DEF CompactDead, IndInv, LogInv
<1> QED
  BY <1>1, <1>2 DEF CompactDead, vectors, IndInv, TypeOK, TouchInv,
                    SettledInv, ClaimInv, NoLostCrossing, SealedInv, FrontierInv

(* At the start of a batch all rows are sealed: no row awaits a claim. *)
LEMMA BeginInv ==
    ASSUME IndInv, BeginBatch
    PROVE  IndInv'
<1>1. /\ phase = "sealed" /\ phase' = "fold"
      /\ UNCHANGED <<cell, log, delQ, addQ, claimedDel, claimedAdd, frontier,
                     netRemovals, netAdditions, numLive, mirror>>
  BY DEF BeginBatch, vectors
<1>2. \A x \in Row : cell[x] \in Cell /\ Sealed(cell[x])
  BY <1>1, CellTyped DEF IndInv, SealedInv, TouchInv
<1>3. TypeOK' /\ LogInv' /\ TouchInv' /\ SettledInv' /\ SealedInv' /\ FrontierInv'
  BY <1>1 DEF IndInv, TypeOK, Phases, LogInv, TouchInv, SettledInv, SealedInv,
              FrontierInv
<1>4. ClaimInv'
  BY <1>1 DEF IndInv, ClaimInv
<1>5. NoLostCrossing'
  <2>1. \A x \in Row : /\ InI(cell[x]) <=> Present(cell[x])
                       /\ "kDel" \notin cell[x].f
    BY <1>2 DEF Sealed, InI, Present, ScratchFlags
  <2>2. \A x \in Row : cell[x].nr <= 0 /\ cell[x].r <= 0 => ~Present(cell[x])
    BY <1>2 DEF Present, Total, Cell
  <2> QED
    BY <1>1, <2>1, <2>2 DEF NoLostCrossing
<1> QED
  BY <1>3, <1>4, <1>5 DEF IndInv

-----------------------------------------------------------------------------
LEMMA InitInv == Init => IndInv
<1> SUFFICES ASSUME Init PROVE IndInv
  OBVIOUS
<1>1. \A x \in Row : cell[x] = NewCell
  BY DEF Init
<1>2. \A x \in Row : /\ cell[x].nr = 0 /\ cell[x].r = 0 /\ cell[x].f = {}
                     /\ Sealed(cell[x])
  BY <1>1 DEF NewCell, Sealed, Total
<1>3. TypeOK
  BY IntMaxPositive DEF Init, TypeOK, NewCell, Counter, Phases
<1>4. LogInv /\ TouchInv /\ SettledInv /\ SealedInv /\ FrontierInv
  BY <1>1, <1>2 DEF Init, LogInv, TouchInv, SettledInv, SealedInv, FrontierInv
<1>5. ClaimInv /\ NoLostCrossing
  BY <1>2 DEF Init, ClaimInv, NoLostCrossing, Present, Total, InI
<1> QED
  BY <1>3, <1>4, <1>5 DEF IndInv

LEMMA StepInv == IndInv /\ [Next]_vars => IndInv'
<1> SUFFICES ASSUME IndInv, [Next]_vars PROVE IndInv'
  OBVIOUS
<1>1. ASSUME NEW x \in Row, NEW k \in Classes,
             AddDerivation(x, k) \/ SubDerivation(x, k)
      PROVE  IndInv'
  BY <1>1, FoldInv DEF AddDerivation, SubDerivation, Classes, DerivClass
<1>2. ASSUME NEW x \in Row, IngestAdd(x) \/ IngestRemove(x)
      PROVE  IndInv'
  BY <1>2, IngestInv
<1>3. ASSUME NEW x \in Row, DelFire(x) \/ AddFire(x)
      PROVE  IndInv'
  <2>1. Recursive
    BY <1>3, RecursiveIsBool DEF DelFire, AddFire, IndInv, SettledInv
  <2> QED
    BY <1>3, <2>1, FoldInv DEF DelFire, AddFire, DerivClass
<1>4. CASE SinglePassDel \/ \E others \in BOOLEAN : DelRound(others)
  BY <1>4, DelDrainInv
<1>5. CASE SinglePassAdd \/ \E others \in BOOLEAN : AddRound(others)
  BY <1>5, AddDrainInv
<1>6. CASE DelRetire \/ AddRetire
  BY <1>6, RetireInv
<1>7. CASE EndSeeds \/ Rederive \/ FrontierFilter \/ CommitAsserts
  BY <1>7, QueueStepInv
<1>8. CASE Commit
  BY <1>8, CommitInv
<1>9. CASE CompactDead
  BY <1>9, CompactInv
<1>10. CASE BeginBatch
  BY <1>10, BeginInv
<1>11. CASE UNCHANGED vars
  BY <1>11 DEF vars, IndInv, TypeOK, LogInv, TouchInv, SettledInv, ClaimInv,
               NoLostCrossing, SealedInv, FrontierInv
<1> QED
  BY <1>1, <1>2, <1>3, <1>4, <1>5, <1>6, <1>7, <1>8, <1>9, <1>10, <1>11
     DEF Next, Aborted

(* The inductive invariant holds of every table, batch after batch. *)
THEOREM Inductive == Spec => []IndInv
BY InitInv, StepInv, PTL DEF Spec

(* The counters keep within their 32-bit halves of the packed word, and    *)
(* the vectors within the rows of the table.                               *)
THEOREM TypeCorrect == Spec => []TypeOK
<1>1. IndInv => TypeOK
  BY DEF IndInv
<1> QED
  BY <1>1, Inductive, PTL

(* The frontiers a table hands to later strata are exactly the presence    *)
(* changes that its commit sweep will make, for every order of folds.      *)
THEOREM FrontiersExact == Spec => []FrontierExact
<1>1. IndInv => FrontierExact
  <2> SUFFICES ASSUME IndInv, phase = "commit", \A x \in Row : cell[x].r >= 0
               PROVE  /\ netRemovals = BatchStart \ NowPresent
                      /\ netAdditions = NowPresent \ BatchStart
    BY DEF FrontierExact
  <2>1. \A x \in Row : cell[x].nr \in Int /\ cell[x].r \in Int
    BY CellTyped DEF IndInv, Cell
  <2>2. \A x \in Row : cell[x].nr >= 0 /\ cell[x].r >= 0
    BY <2>1 DEF IndInv, SettledInv, NrSettled
  <2>3. \A x \in Row : ~Present(cell[x]) => cell[x].nr <= 0 /\ cell[x].r <= 0
    BY <2>1, <2>2 DEF Present, Total
  <2>4. ASSUME NEW x \in Row
        PROVE  NetDeleted(cell[x]) <=> InI(cell[x]) /\ ~Present(cell[x])
    BY <2>3 DEF IndInv, ClaimInv, NoLostCrossing, NetDeleted
  <2>5. ASSUME NEW x \in Row
        PROVE  NetAdded(cell[x]) <=> ~InI(cell[x]) /\ Present(cell[x])
    BY DEF IndInv, ClaimInv, NoLostCrossing, NetAdded, InI
  <2> QED
    BY <2>4, <2>5 DEF IndInv, FrontierInv, BatchStart, NowPresent
<1> QED
  BY <1>1, Inductive, PTL

(* After each commit sweep all rows satisfy DebugValidateCounts, although  *)
(* the sweep visits only the touched ones.                                 *)
THEOREM SweepSeals == Spec => []SealedCoherent
<1>1. IndInv => SealedCoherent
  BY DEF IndInv, SealedCoherent, SealedInv, TouchInv
<1> QED
  BY <1>1, Inductive, PTL

(* Compaction changes nothing a predicate can see. *)
THEOREM CompactionSafe == Spec => CompactionInvisible
<1>1. IndInv /\ [Next]_vars =>
          [phase = "sealed" /\ phase' = "sealed" => UNCHANGED cell]_vars
  <2> SUFFICES ASSUME IndInv, Next, phase = "sealed", phase' = "sealed"
               PROVE  cell' = cell
    BY DEF vars
  <2>1. CompactDead \/ UNCHANGED vars
    BY DEF Next, AddDerivation, SubDerivation, IngestAdd, IngestRemove,
           EndSeeds, SinglePassDel, SinglePassAdd, DelRound, AddRound, DelFire,
           AddFire, DelRetire, Rederive, AddRetire, FrontierFilter,
           CommitAsserts, Commit, BeginBatch, Aborted
  <2> QED
    BY <2>1, CompactKeepsCells DEF vars
<1> QED
  BY <1>1, Inductive, PTL DEF Spec, CompactionInvisible

(* No round claims a row that an earlier round of the batch claimed. *)
THEOREM ClaimsAreOnce == Spec => ClaimedOnce
<1>1. IndInv /\ [Next]_vars =>
          [/\ phase = "del" /\ phase' # "del" => ClaimableDel \cap claimedDel = {}
           /\ phase = "add" /\ phase' # "add" =>
                  ClaimableAdd \cap claimedAdd = {}]_vars
  <2> SUFFICES ASSUME IndInv, phase # "abort"
               PROVE  /\ ClaimableDel \cap claimedDel = {}
                      /\ ClaimableAdd \cap claimedAdd = {}
    OBVIOUS
  <2>1. \A x \in claimedDel : "kDel" \in cell[x].f
    BY DEF IndInv, TypeOK, ClaimInv
  <2>2. \A x \in claimedAdd : "kAdd" \in cell[x].f
    BY DEF IndInv, TypeOK, ClaimInv
  <2> QED
    BY <2>1, <2>2 DEF ClaimableDel, ClaimableAdd, CanClaimDel, CanClaimAdd
<1> QED
  BY <1>1, Inductive, PTL DEF Spec, ClaimedOnce

-----------------------------------------------------------------------------
(* kInI is frozen for the length of a batch: only the sweep moves it. *)
LEMMA FoldKeepsInI ==
    ASSUME IndInv, NEW x \in Row, NEW e \in Cell, NEW d \in {1, -1},
           StoreFold(x, cell[x], e, d),
           "kInI" \in e.f <=> "kInI" \in cell[x].f
    PROVE  BatchStart' = BatchStart /\ mirror' = mirror /\ numLive' = numLive
<1>1. \A y \in Row : "kInI" \in cell'[y].f <=> "kInI" \in cell[y].f
  <2>1. cell' = cell \/ cell' = [cell EXCEPT ![x] = e]
    BY DEF StoreFold
  <2> QED
    BY <2>1 DEF IndInv, TypeOK
<1> QED
  BY <1>1 DEF StoreFold, BatchStart, InI

LEMMA BatchStartFrozen ==
    ASSUME IndInv, [Next]_vars
    PROVE  \/ Commit
           \/ BatchStart' = BatchStart /\ mirror' = mirror /\ numLive' = numLive
<1>0. \A x \in Row : cell[x] \in Cell
  BY CellTyped DEF IndInv
<1>1. ASSUME NEW x \in Row, NEW k \in DerivClass, NEW d \in {1, -1},
             Fold(x, k, d)
      PROVE  BatchStart' = BatchStart /\ mirror' = mirror /\ numLive' = numLive
  <2> DEFINE e == FoldAt(cell[x], k, d)
  <2>1. e \in Cell /\ e.f = cell[x].f \cup {"kTouched"}
    BY <1>0, FoldAtEffect
  <2>2. StoreFold(x, cell[x], e, d)
    BY <1>1 DEF Fold
  <2> HIDE DEF e
  <2> QED
    BY <2>1, <2>2, FoldKeepsInI
<1>2. ASSUME NEW x \in Row, IngestAdd(x) \/ IngestRemove(x)
      PROVE  BatchStart' = BatchStart /\ mirror' = mirror /\ numLive' = numLive
  <2>1. CASE "kExplicit" \notin cell[x].f /\ IngestAdd(x)
    <3> DEFINE e == AddExplicit(cell[x])
    <3>1. e \in Cell /\ e.f = cell[x].f \cup {"kExplicit", "kTouched"}
      BY <1>0, <2>1, ExplicitEffect
    <3>2. StoreFold(x, cell[x], e, 1)
      BY <2>1 DEF IngestAdd
    <3> HIDE DEF e
    <3> QED
      BY <3>1, <3>2, FoldKeepsInI
  <2>2. CASE "kExplicit" \in cell[x].f /\ x \in log /\ IngestRemove(x)
    <3> DEFINE e == SubExplicit(cell[x])
    <3>1. e \in Cell /\ e.f = (cell[x].f \ {"kExplicit"}) \cup {"kTouched"}
      BY <1>0, <2>2, ExplicitEffect
    <3>2. StoreFold(x, cell[x], e, -1)
      BY <2>2 DEF IngestRemove
    <3> HIDE DEF e
    <3> QED
      BY <3>1, <3>2, FoldKeepsInI
  <2>3. CASE UNCHANGED <<cell, mirror, numLive>>
    BY <2>3 DEF BatchStart
  <2> QED
    BY <1>2, <2>1, <2>2, <2>3 DEF IngestAdd, IngestRemove, vars
<1>3. ASSUME \/ SinglePassDel \/ SinglePassAdd
             \/ \E others \in BOOLEAN : DelRound(others) \/ AddRound(others)
             \/ DelRetire \/ AddRetire
      PROVE  BatchStart' = BatchStart /\ mirror' = mirror /\ numLive' = numLive
  <2>1. ASSUME NEW x \in Row
        PROVE  cell'[x] \in {cell[x], ClaimDel(cell[x]), ClaimAdd(cell[x]),
                             RetireDel(cell[x]), RetireAdd(cell[x])}
    BY <1>3 DEF SinglePassDel, SinglePassAdd, DelRound, AddRound, DelRetire,
                AddRetire, ClaimAllDel, ClaimAllAdd
  <2>2. ASSUME NEW x \in Row
        PROVE  "kInI" \in cell'[x].f <=> "kInI" \in cell[x].f
    BY <1>0, <2>1, FlagEffect
  <2> QED
    BY <1>3, <2>2 DEF SinglePassDel, SinglePassAdd, DelRound, AddRound,
                      DelRetire, AddRetire, BatchStart, InI
<1>4. CASE CompactDead
  BY <1>4, CompactKeepsCells DEF CompactDead, BatchStart
<1>5. CASE \/ EndSeeds \/ Rederive \/ FrontierFilter \/ CommitAsserts
           \/ BeginBatch \/ UNCHANGED vars
  BY <1>5 DEF EndSeeds, Rederive, FrontierFilter, CommitAsserts, BeginBatch,
              vars, BatchStart
<1>6. CASE Next
  BY <1>1, <1>2, <1>3, <1>4, <1>5, <1>6
     DEF Next, Aborted, AddDerivation, SubDerivation, DelFire, AddFire, Classes,
         DerivClass
<1> QED
  BY <1>5, <1>6

(* What the sweep does to the batch-start set is what it publishes. *)
LEMMA CommitMovesBatchStart ==
    ASSUME IndInv, Commit
    PROVE  BatchStart' = (BatchStart \ Vanished) \cup Appeared
<1>1. \A x \in Row : InI(cell'[x]) <=> Present(cell[x])
  BY CommitSeals
<1>2. \A x \in Row : x \notin Touched => (InI(cell[x]) <=> Present(cell[x]))
  BY DEF IndInv, TouchInv, Touched, Sealed, InI, Present
<1> QED
  BY <1>1, <1>2 DEF BatchStart, Vanished, Appeared, Touched

(* A reader of the published deltas follows the table exactly. *)
THEOREM MirrorFollows == Spec => []MirrorExact
<1>1. Init => MirrorExact
  BY DEF Init, MirrorExact, BatchStart, InI, NewCell
<1>2. IndInv /\ MirrorExact /\ [Next]_vars => MirrorExact'
  <2> SUFFICES ASSUME IndInv, mirror = BatchStart, [Next]_vars
               PROVE  mirror' = BatchStart'
    BY DEF MirrorExact
  <2>1. CASE Commit
    BY <2>1, CommitMovesBatchStart DEF Commit
  <2> QED
    BY <2>1, BatchStartFrozen
<1> QED
  BY <1>1, <1>2, Inductive, PTL DEF Spec

(* num_live counts the live rows, and the compaction keeps that many. *)
THEOREM LiveCounted == Spec => []LiveCount
<1> DEFINE Counted == numLive = Cardinality(BatchStart)
<1>1. Init => Counted
  <2>1. Init => BatchStart = {} /\ numLive = 0
    BY DEF Init, BatchStart, InI, NewCell
  <2> QED
    BY <2>1, FS_EmptySet
<1>2. IndInv /\ Counted /\ [Next]_vars => Counted'
  <2> SUFFICES ASSUME IndInv, Counted, [Next]_vars
               PROVE  numLive' = Cardinality(BatchStart')
    OBVIOUS
  <2>1. CASE Commit
    <3>1. /\ BatchStart \subseteq Row /\ Appeared \subseteq Row
          /\ Vanished \subseteq BatchStart /\ Appeared \cap BatchStart = {}
      BY DEF BatchStart, Appeared, Vanished, Touched
    <3>2. /\ IsFiniteSet(BatchStart) /\ IsFiniteSet(Appeared)
          /\ IsFiniteSet(Vanished) /\ IsFiniteSet(BatchStart \ Vanished)
      BY <3>1, RowFinite, FS_Subset
    <3>3. /\ Cardinality(BatchStart) \in Nat /\ Cardinality(Appeared) \in Nat
          /\ Cardinality(Vanished) \in Nat
      BY <3>2, FS_CardinalityType
    <3>4. Cardinality(BatchStart \ Vanished)
            = Cardinality(BatchStart) - Cardinality(Vanished)
      <4>1. BatchStart \cap Vanished = Vanished
        BY <3>1
      <4> QED
        BY <3>2, <4>1, FS_Difference
    <3>5. (BatchStart \ Vanished) \cap Appeared = {}
      BY <3>1
    <3>6. Cardinality((BatchStart \ Vanished) \cup Appeared)
            = Cardinality(BatchStart \ Vanished) + Cardinality(Appeared)
      <4>1. Cardinality((BatchStart \ Vanished) \cup Appeared)
              = Cardinality(BatchStart \ Vanished) + Cardinality(Appeared)
                - Cardinality((BatchStart \ Vanished) \cap Appeared)
        BY <3>2, FS_Union
      <4>2. Cardinality((BatchStart \ Vanished) \cap Appeared) = 0
        BY <3>5, FS_EmptySet
      <4> QED
        BY <3>3, <3>4, <4>1, <4>2
    <3>7. numLive' = Cardinality((BatchStart \ Vanished) \cup Appeared)
      BY <2>1, <3>3, <3>4, <3>6 DEF Commit
    <3> QED
      BY <2>1, <3>7, CommitMovesBatchStart
  <2>2. CASE BatchStart' = BatchStart /\ numLive' = numLive
    BY <2>2
  <2> QED
    BY <2>1, <2>2, BatchStartFrozen
<1>3. IndInv /\ Counted => LiveCount
  <2> SUFFICES ASSUME IndInv, phase = "sealed"
               PROVE  log \ Dead = BatchStart
    BY DEF LiveCount
  <2>1. \A x \in Row : x \notin log => ~InI(cell[x])
    BY DEF IndInv, LogInv, NewCell, InI
  <2>2. \A x \in Row : InI(cell[x]) <=> Total(cell[x]) > 0
    BY DEF IndInv, SealedInv, TouchInv, Sealed, InI
  <2>3. \A x \in Row : Total(cell[x]) \in Int
    BY CellTyped DEF IndInv, Cell, Total
  <2>4. log \subseteq Row
    BY DEF IndInv, TypeOK
  <2> QED
    BY <2>1, <2>2, <2>3, <2>4 DEF Dead, BatchStart
<1> HIDE DEF Counted
<1> QED
  BY <1>1, <1>2, <1>3, Inductive, PTL DEF Spec
=============================================================================
