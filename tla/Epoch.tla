-------------------------------- MODULE Epoch --------------------------------
(***************************************************************************)
(* The generated entry procedure: one batch of message additions and       *)
(* removals through the differential phases that BuildStratumPhases lowers *)
(* (lib/ControlFlow/Build/Stratum.cpp), over a ground program.             *)
(*                                                                         *)
(*   ingest; then for each stratum: seed loops, join delta sections,       *)
(*   negation crossovers, product arms, single-pass drains and filters of  *)
(*   the acyclic tables, and for each SCC the OVERDELETE rounds, REDERIVE, *)
(*   the INSERT rounds and the deferred filters; then the commit sweeps.   *)
(*                                                                         *)
(* The procedure runs on one thread.  A loop of one sign over a sorted     *)
(* unique frontier is one step: its folds move counters in one direction   *)
(* and its reads are flags that no fold moves.  What the source leaves     *)
(* open is left open: the order of branches, joins and SCCs, and the order *)
(* in which the two sections of a join meet their combinations.            *)
(***************************************************************************)
EXTENDS Derivation

VARIABLES
    cell,             \* counters and flags of every row of every table
    delQ, addQ,       \* the queues of all tables
    overdeleted,      \* kOverdeleteSet of all tables
    added,            \* kAdditionSet of all tables
    netRem, netAdd,   \* kNetRemovals and kNetAdditions of all tables
    batch,            \* the netted message vectors, or NoBatch
    facts,            \* the accepted message tuples (history)
    phase,            \* the band being executed
    stratum,          \* the stratum whose series is being executed
    todo              \* what is left of the band

vars == <<cell, delQ, addQ, overdeleted, added, netRem, netAdd, batch, facts,
          phase, stratum, todo>>

NoBatch == [adds |-> {}, removes |-> {}, busy |-> FALSE]

Init ==
    /\ cell = [x \in Row |-> NewCell]
    /\ delQ = {} /\ addQ = {} /\ overdeleted = {} /\ added = {}
    /\ netRem = {} /\ netAdd = {}
    /\ batch = NoBatch
    /\ facts = {}
    /\ phase = "idle"
    /\ stratum = 0
    /\ todo = {}

-----------------------------------------------------------------------------
(* A minus loop and then a plus loop. *)
FoldMinusPlus(minus, plus) ==
    LET mid == FoldAll(cell, minus, -1)
        end == FoldAll(mid, plus, 1)
    IN  /\ cell' = end
        /\ delQ' = delQ \cup ParkedDown(cell, mid, minus)
        /\ addQ' = addQ \cup ParkedUp(mid, end, plus)

(* A plus loop and then a minus loop. *)
FoldPlusMinus(plus, minus) ==
    LET mid == FoldAll(cell, plus, 1)
        end == FoldAll(mid, minus, -1)
    IN  /\ cell' = end
        /\ addQ' = addQ \cup ParkedUp(cell, mid, plus)
        /\ delQ' = delQ \cup ParkedDown(mid, end, minus)

-----------------------------------------------------------------------------
(* The work of each band at a stratum. *)

Positions(I) == UNION {{i} \X DOMAIN i.body : i \in I}

BranchesAt(s) == {i.rule : i \in {j \in Inst :
                        j.kind = "chain" /\ j.at = s /\ ~RoundsOnly(j)}}
ProductWork(s) == {<<e[1].rule, e[2]>> : e \in
                        Positions({j \in Inst : j.kind = "product" /\ j.at = s})}
NegationsAt(s) == {i.rule : i \in {j \in Inst :
                        j.kind = "chain" /\ j.at = s /\ j.neg # {}}}

(* The delta sections of a join, read per combination on the flags of its  *)
(* sides. *)
InAddedSection(i) ==
    /\ \A y \in BodyRows(i) : InNew(cell[y])
    /\ \E y \in BodyRows(i) : NetAdded(cell[y])
InRemovedSection(i) ==
    /\ \A y \in BodyRows(i) : InI(cell[y])
    /\ \E y \in BodyRows(i) : NetDeleted(cell[y])

JoinWork(s) == {i \in Inst : /\ i.kind = "join" /\ i.at = s
                             /\ ~RoundsOnly(i)
                             /\ InAddedSection(i) \/ InRemovedSection(i)}

SccsAt(s) == {Scc[TableOf(x)] : x \in {y \in Row :
                        Stratum[TableOf(y)] = s /\ Scc[TableOf(y)] # 0}}

GoTo(band, work) == phase' = band /\ todo' = work

(* Leave a band when its work is done. *)
EndBand ==
    /\ todo = {}
    /\ \/ phase = "seed" /\ GoTo("join", JoinWork(stratum))
       \/ phase = "join" /\ GoTo("cross", NegationsAt(stratum))
       \/ phase = "cross" /\ GoTo("product", ProductWork(stratum))
       \/ phase = "product" /\ GoTo("drain", {})
    /\ UNCHANGED <<cell, delQ, addQ, overdeleted, added, netRem, netAdd, batch,
                   facts, stratum>>

EndStratum ==
    /\ phase = "scc"
    /\ todo = {}
    /\ IF stratum = LastStratum
       THEN GoTo("commit", {}) /\ UNCHANGED stratum
       ELSE /\ stratum' = stratum + 1
            /\ GoTo("seed", BranchesAt(stratum + 1))
    /\ UNCHANGED <<cell, delQ, addQ, overdeleted, added, netRem, netAdd, batch,
                   facts>>

-----------------------------------------------------------------------------
(* A caller hands over a batch: message vectors after NetBatch, so no      *)
(* tuple is in both.                                                       *)
Submit(adds, removes) ==
    /\ phase = "idle"
    /\ batch' = [adds |-> adds, removes |-> removes, busy |-> TRUE]
    /\ GoTo("ingest", {})
    /\ UNCHANGED <<cell, delQ, addQ, overdeleted, added, netRem, netAdd, facts,
                   stratum>>

(* The explicit folds of the receive tables. *)
Ingest ==
    /\ phase = "ingest"
    /\ cell' = [x \in Row |->
          IF x \in batch.adds THEN AddExplicit(cell[x])
          ELSE IF x \in batch.removes THEN SubExplicit(cell[x])
          ELSE cell[x]]
    /\ addQ' = addQ \cup {x \in batch.adds : CrossedUp(cell[x], cell'[x])}
    /\ delQ' = delQ \cup {x \in batch.removes :
          "kExplicit" \in cell[x].f /\ CrossedDown(cell[x], cell'[x])}
    /\ stratum' = 0
    /\ GoTo("seed", BranchesAt(0))
    /\ UNCHANGED <<overdeleted, added, netRem, netAdd, batch, facts>>

(* The seed loops of one branch: over the net removals of its source, then *)
(* over the net additions; a negated row is read as of batch start.        *)
SeedGate(i) == \A y \in i.neg : ~InI(cell[y])
SeedFires(b, front) ==
    {<<i, 1>> : i \in {j \in Inst : /\ j.rule = b /\ j.body[1] \in front
                                    /\ SeedGate(j)}}

Seed(b) ==
    /\ phase = "seed"
    /\ b \in todo
    /\ FoldMinusPlus(SeedFires(b, netRem), SeedFires(b, netAdd))
    /\ todo' = todo \ {b}
    /\ UNCHANGED <<overdeleted, added, netRem, netAdd, batch, facts, phase,
                   stratum>>

(* One combination of a delta join. *)
JoinSection(i) ==
    /\ phase = "join"
    /\ i \in todo
    /\ IF InAddedSection(i)
       THEN FoldPlusMinus({<<i, 1>>}, {})
       ELSE FoldMinusPlus({<<i, 1>>}, {})
    /\ todo' = todo \ {i}
    /\ UNCHANGED <<overdeleted, added, netRem, netAdd, batch, facts, phase,
                   stratum>>

(* The crossovers of one negation: a row added to the negated table takes  *)
(* the derivations it blocks, a row removed from it gives them back; the   *)
(* positive row is read as of now.                                         *)
CrossFiresAtStart(b, front) ==
    {<<i, 1>> : i \in {j \in Inst : /\ j.rule = b
                                    /\ j.neg \cap front # {}
                                    /\ InI(cell[j.body[1]])}}
CrossFires(b, front) ==
    {<<i, 1>> : i \in {j \in Inst : /\ j.rule = b
                                    /\ j.neg \cap front # {}
                                    /\ InNew(cell[j.body[1]])}}

Crossover(b) ==
    /\ phase = "cross"
    /\ b \in todo
    /\ FoldMinusPlus(CrossFires(b, netAdd), CrossFires(b, netRem))
    /\ todo' = todo \ {b}
    /\ UNCHANGED <<overdeleted, added, netRem, netAdd, batch, facts, phase,
                   stratum>>

(* The two arms of side p of one product, sides ascending.  They read the  *)
(* earlier sides as of now and the later ones as of batch start, whatever  *)
(* their sign.                                                             *)
ProductRead(q, p, c) == IF q < p THEN InNew(c) ELSE InI(c)
ProductFires(b, p, front) ==
    {e \in Positions({j \in Inst : j.rule = b}) :
        /\ e[2] = p
        /\ e[1].body[p] \in front
        /\ \A q \in DOMAIN e[1].body \ {p} :
               ProductRead(q, p, cell[e[1].body[q]])}

ProductArms(b, p) ==
    /\ phase = "product"
    /\ <<b, p>> \in todo
    /\ \A q \in 1..(p - 1) : <<b, q>> \notin todo
    /\ FoldPlusMinus(ProductFires(b, p, netAdd), ProductFires(b, p, netRem))
    /\ todo' = todo \ {<<b, p>>}
    /\ UNCHANGED <<overdeleted, added, netRem, netAdd, batch, facts, phase,
                   stratum>>

-----------------------------------------------------------------------------
(* Claims. *)

DelClaims(cells, X) == {x \in X \cap delQ : CanClaimDel(cells[x])}
AddClaims(cells, X) == {x \in X \cap addQ : CanClaimAdd(cells[x])}
ClaimedDel(cells, S) ==
    [x \in Row |-> IF x \in S THEN ClaimDel(cells[x]) ELSE cells[x]]
ClaimedAdd(cells, S) ==
    [x \in Row |-> IF x \in S THEN ClaimAdd(cells[x]) ELSE cells[x]]

(* The single-pass drains of the acyclic tables of the stratum, and their  *)
(* immediate filters.                                                      *)
Drain ==
    /\ phase = "drain"
    /\ LET mine == {x \in Row : /\ Stratum[TableOf(x)] = stratum
                                /\ Scc[TableOf(x)] = 0}
           dels == DelClaims(cell, mine)
           mid  == ClaimedDel(cell, dels)
           adds == AddClaims(mid, mine)
           end  == ClaimedAdd(mid, adds)
       IN  /\ cell' = end
           /\ overdeleted' = overdeleted \cup dels
           /\ added' = added \cup adds
           /\ netRem' = netRem \cup {x \in dels : NetDeleted(end[x])}
           /\ netAdd' = netAdd \cup {x \in adds : NetAdded(end[x])}
    /\ GoTo("scc", SccsAt(stratum))
    /\ UNCHANGED <<delQ, addQ, batch, facts, stratum>>

-----------------------------------------------------------------------------
(* The rounds of one recursive SCC, g. *)

SccRows(g) == {x \in Row : Scc[TableOf(x)] = g}

StartScc(g) ==
    /\ phase = "scc"
    /\ g \in todo
    /\ \A h \in todo : g <= h
    /\ phase' = "del"
    /\ todo' = {g}
    /\ UNCHANGED <<cell, delQ, addQ, overdeleted, added, netRem, netAdd, batch,
                   facts, stratum>>

(* EmitJoinFire: the instance fires at position p, whose row is in the     *)
(* round's frontier delta.  The other sides of the SCC are read strictly   *)
(* after p and permissively before it, the lower sides as of now.          *)
SideReadsLowerAtStart(cells, i, p, q, isDel) ==
    LET c == cells[i.body[q]] IN
    IF ~SameScc(i.head, i.body[q]) THEN IF isDel THEN InI(c) ELSE InNew(c)
    ELSE IF isDel THEN IF q < p THEN SurvivesSoFar(c) ELSE AliveAtClaim(c)
    ELSE IF q < p THEN InNewWithFrontier(c) ELSE InNewSansFrontier(c)
SideReads(cells, i, p, q, isDel) ==
    LET c == cells[i.body[q]] IN
    IF ~SameScc(i.head, i.body[q]) THEN InNew(c)
    ELSE IF isDel THEN IF q < p THEN SurvivesSoFar(c) ELSE AliveAtClaim(c)
    ELSE IF q < p THEN InNewWithFrontier(c) ELSE InNewSansFrontier(c)

JoinFires(cells, g, delta, isDel) ==
    {e \in Positions({j \in Inst : j.kind = "join" /\ j.head \in SccRows(g)}) :
        LET i == e[1]  p == e[2] IN
        /\ SameScc(i.head, i.body[p])
        /\ i.body[p] \in delta
        /\ \A q \in DOMAIN i.body \ {p} : SideReads(cells, i, p, q, isDel)}

(* CHAIN_FOLD: the projections inside the SCC; a negated row is read as of *)
(* now.                                                                    *)
ChainFires(cells, g, delta) ==
    {<<i, 1>> : i \in {j \in Inst : /\ j.kind = "chain"
                                    /\ j.head \in SccRows(g)
                                    /\ RoundsOnly(j)
                                    /\ j.body[1] \in delta
                                    /\ \A y \in j.neg : ~InNew(cells[y])}}

RoundFires(cells, g, delta, isDel) ==
    JoinFires(cells, g, delta, isDel) \cup ChainFires(cells, g, delta)

Retired(cells, delta, isDel) ==
    [x \in Row |-> IF x \notin delta THEN cells[x]
                   ELSE IF isDel THEN RetireDel(cells[x])
                   ELSE RetireAdd(cells[x])]

OverdeleteRoundTestsQueue(g) ==
    /\ phase = "del"
    /\ todo = {g}
    /\ LET delta == DelClaims(cell, SccRows(g))
           mid   == ClaimedDel(cell, delta)
           fires == RoundFires(mid, g, delta, TRUE)
           end   == FoldAll(mid, fires, -1)
       IN  /\ cell' = Retired(end, delta, TRUE)
           /\ delQ' = delQ \cup ParkedDown(mid, end, fires)
           /\ overdeleted' = overdeleted \cup delta
           /\ phase' = IF delQ \cap SccRows(g) = {} THEN "rederive" ELSE "del"
    /\ UNCHANGED <<addQ, added, netRem, netAdd, batch, facts, stratum, todo>>

(* One round: rebuild the frontier from the claims of this drain, empty    *)
(* the queue, fire, retire; the loop ends after a round that claimed       *)
(* nothing.                                                                *)
OverdeleteRound(g) ==
    /\ phase = "del"
    /\ todo = {g}
    /\ LET delta == DelClaims(cell, SccRows(g))
           mid   == ClaimedDel(cell, delta)
           fires == RoundFires(mid, g, delta, TRUE)
           end   == FoldAll(mid, fires, -1)
       IN  /\ cell' = Retired(end, delta, TRUE)
           /\ delQ' = (delQ \ SccRows(g)) \cup ParkedDown(mid, end, fires)
           /\ overdeleted' = overdeleted \cup delta
           /\ phase' = IF delta = {} THEN "rederive" ELSE "del"
    /\ UNCHANGED <<addQ, added, netRem, netAdd, batch, facts, stratum, todo>>

RederiveNothing(g) ==
    /\ phase = "rederive"
    /\ todo = {g}
    /\ phase' = "add"
    /\ UNCHANGED <<cell, delQ, addQ, overdeleted, added, netRem, netAdd, batch,
                   facts, stratum, todo>>

RederiveAll(g) ==
    /\ phase = "rederive"
    /\ todo = {g}
    /\ addQ' = addQ \cup {x \in SccRows(g) : cell[x].r > 0}
    /\ phase' = "add"
    /\ UNCHANGED <<cell, delQ, overdeleted, added, netRem, netAdd, batch, facts,
                   stratum, todo>>

Rederive(g) ==
    /\ phase = "rederive"
    /\ todo = {g}
    /\ addQ' = addQ \cup {x \in overdeleted \cap SccRows(g) :
                              RecursivelySupported(cell[x])}
    /\ phase' = "add"
    /\ UNCHANGED <<cell, delQ, overdeleted, added, netRem, netAdd, batch, facts,
                   stratum, todo>>

InsertRound(g) ==
    /\ phase = "add"
    /\ todo = {g}
    /\ LET delta == AddClaims(cell, SccRows(g))
           mid   == ClaimedAdd(cell, delta)
           fires == RoundFires(mid, g, delta, FALSE)
           end   == FoldAll(mid, fires, 1)
       IN  /\ delta # {}
           /\ cell' = Retired(end, delta, FALSE)
           /\ addQ' = (addQ \ SccRows(g)) \cup ParkedUp(mid, end, fires)
           /\ added' = added \cup delta
    /\ UNCHANGED <<delQ, overdeleted, netRem, netAdd, batch, facts, phase,
                   stratum, todo>>

(* The last INSERT round claims nothing; both filters run in its output. *)
InsertDoneUnfiltered(g) ==
    /\ phase = "add"
    /\ todo = {g}
    /\ AddClaims(cell, SccRows(g)) = {}
    /\ addQ' = addQ \ SccRows(g)
    /\ netRem' = netRem \cup (overdeleted \cap SccRows(g))
    /\ netAdd' = netAdd \cup {x \in added \cap SccRows(g) : NetAdded(cell[x])}
    /\ phase' = "scc"
    /\ todo' = {h \in SccsAt(stratum) : h > g}
    /\ UNCHANGED <<cell, delQ, overdeleted, added, batch, facts, stratum>>

InsertDone(g) ==
    /\ phase = "add"
    /\ todo = {g}
    /\ AddClaims(cell, SccRows(g)) = {}
    /\ addQ' = addQ \ SccRows(g)
    /\ netRem' = netRem \cup {x \in overdeleted \cap SccRows(g) :
                                  NetDeleted(cell[x])}
    /\ netAdd' = netAdd \cup {x \in added \cap SccRows(g) : NetAdded(cell[x])}
    /\ phase' = "scc"
    /\ todo' = {h \in SccsAt(stratum) : h > g}
    /\ UNCHANGED <<cell, delQ, overdeleted, added, batch, facts, stratum>>

-----------------------------------------------------------------------------
(* The commit sweeps of all tables.  The vectors die with the procedure. *)
CommitSweeps ==
    /\ phase = "commit"
    /\ cell' = [x \in Row |->
          IF "kTouched" \in cell[x].f THEN CommitRow(cell[x]) ELSE cell[x]]
    /\ facts' = (facts \ batch.removes) \cup batch.adds
    /\ batch' = NoBatch
    /\ delQ' = {} /\ addQ' = {} /\ overdeleted' = {} /\ added' = {}
    /\ netRem' = {} /\ netAdd' = {}
    /\ stratum' = 0
    /\ GoTo("idle", {})

(* The procedure runs to completion once called; nothing obliges a caller  *)
(* to call.                                                                *)
Run ==
    \/ Ingest
    \/ \E b \in todo : Seed(b) \/ Crossover(b)
    \/ \E i \in todo : JoinSection(i)
    \/ phase = "product" /\ \E a \in todo : ProductArms(a[1], a[2])
    \/ EndBand \/ Drain \/ EndStratum
    \/ \E g \in todo : \/ StartScc(g) \/ OverdeleteRound(g) \/ Rederive(g)
                       \/ InsertRound(g) \/ InsertDone(g)
    \/ CommitSweeps

SubmitOf(fs) == /\ phase = "idle"
                /\ \E adds \in SUBSET fs : \E removes \in SUBSET (fs \ adds) :
                       Submit(adds, removes)

Next == SubmitOf(Facts) \/ Run

Spec == Init /\ [][Next]_vars /\ WF_vars(Run)

-----------------------------------------------------------------------------
(* What is sealed, what a query sees between batches, and the model that   *)
(* the running batch moves to.                                             *)
Visible == {x \in Row : InI(cell[x])}
Target  == LeastModel((facts \ batch.removes) \cup batch.adds)

(* Between batches each counter is exactly the number of derivations a     *)
(* from-scratch evaluation of the accepted facts would count, by class,    *)
(* the explicit support included: the batch folded every appearing or      *)
(* disappearing instance once and no other (StackSafeNegation.md, "Final   *)
(* counters therefore equal from-scratch derivation counts").              *)
CountersExact == phase = "idle" => ExactCounts(cell, facts)

(* Between batches the visible rows are the least model of the accepted    *)
(* facts: no spurious tuple survives a retraction on cyclic support alone, *)
(* and none is lost.                                                       *)
ViewExact == phase = "idle" => Visible = LeastModel(facts)

(* When the series of a stratum starts, everything below it is final:      *)
(* kInNew reads of lower tables give the new model, and the frontiers are  *)
(* the exact difference of the two models on them.  All seeds, sections,   *)
(* crossovers and arms rely on it.                                         *)
LowerFinal ==
    phase \in {"seed", "join", "cross", "product"} =>
        LET lower == {x \in Row : Stratum[TableOf(x)] < stratum}
            new   == Target
        IN  /\ {x \in lower : InNew(cell[x])} = lower \cap new
            /\ netRem = (lower \cap Visible) \ new
            /\ netAdd = (lower \cap new) \ Visible

(* The caller's side of the contract of DiffTable: when a table is drained *)
(* its C_nr is settled, however the signed folds of the seeds interleaved, *)
(* and at the sweep no counter is negative (the assertions of Commit).     *)
Settled(c) == c.nr >= IF "kExplicit" \in c.f THEN 1 ELSE 0
DrainContract ==
    /\ phase \in {"drain", "del", "rederive", "add"} =>
           \A x \in Row : Stratum[TableOf(x)] <= stratum => Settled(cell[x])
    /\ phase = "commit" =>
           \A x \in Row : cell[x].nr >= 0 /\ cell[x].r >= 0

(* No INSERT round claims a row that is there already, that is, in the view *)
(* at batch start and not overdeleted: its consequences are counted, and   *)
(* would be folded a second time.  TryClaimAdd has no test for it, so the  *)
(* queue must hold no such row with support when its SCC inserts.          *)
FreshClaims ==
    phase = "add" =>
        \A g \in todo : \A x \in AddClaims(cell, SccRows(g)) : ~SurvivesSoFar(cell[x])

(* A batch that was accepted is committed: the rounds of every SCC come to *)
(* an end, with cyclic data too.                                           *)
BatchSettles == batch.busy ~> ~batch.busy

(* The procedure implements the abstract view maintenance: the visible     *)
(* relations go from model to model in one step per batch.                 *)
View == INSTANCE ViewMaintenance WITH view <- Visible
RefinesViewMaintenance == View!ASpec
=============================================================================
