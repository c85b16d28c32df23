----------------------------- MODULE OracleEpoch -----------------------------
(***************************************************************************)
(* drlojekyll-oracle: the executable specification of differential         *)
(* maintenance (bin/Oracle/Main.cpp), over a ground program.  Unlike the   *)
(* generated procedure it folds the minus seeds of a stratum inside        *)
(* OVERDELETE and the plus seeds inside INSERT, reads every atom of a rule *)
(* by its schema position, claims without re-testing, and after every      *)
(* batch compares itself with a from-scratch evaluation.                   *)
(*                                                                         *)
(* The interpreter is sequential and deterministic; each of its loops of   *)
(* one sign is one step.  Not modelled: rules with no positive atom, which *)
(* fire once at the first batch, and aggregate views (Aggregate.tla).      *)
(***************************************************************************)
EXTENDS Derivation, Sequences

VARIABLES
    cell,                    \* RowState of every row of every view
    pend_del, pend_add,      \* the pending queues of all views
    claimed_del, claimed_add,
    out_del, out_add,        \* the frontiers D\A and A\D
    ops,                     \* the batch: added and removed facts, then netted
    facts,                   \* the accepted facts (history)
    phase, stratum,
    failed                   \* Fail() was called; the process is gone

vars == <<cell, pend_del, pend_add, claimed_del, claimed_add, out_del, out_add,
          ops, facts, phase, stratum, failed>>

queues == <<pend_del, pend_add, claimed_del, claimed_add, out_del, out_add>>

NoOps == [adds |-> {}, removes |-> {}, busy |-> FALSE]

Init ==
    /\ cell = [x \in Row |-> NewCell]
    /\ pend_del = {} /\ pend_add = {}
    /\ claimed_del = {} /\ claimed_add = {}
    /\ out_del = {} /\ out_add = {}
    /\ ops = NoOps
    /\ facts = {}
    /\ phase = "idle"
    /\ stratum = 0
    /\ failed = FALSE

-----------------------------------------------------------------------------
(* FinishRule: the atoms of a rule in syntactic order, the negated one     *)
(* last; a precedes b in schema position order: lower strata first, in     *)
(* stratum order, then the atoms of the head's own stratum.                *)
AtomRow(i, a) ==
    IF a <= Len(i.body) THEN i.body[a] ELSE CHOOSE y \in i.neg : TRUE
Atoms(i) == 1..(Len(i.body) + Cardinality(i.neg))
IsNegated(i, a) == a > Len(i.body)

(* BuildRules: a JOIN or a NEGATE is the only rule of its view, the rules  *)
(* of any other view have one atom; so the instances that derive one row   *)
(* are of one class, unless each of them has a single atom.                *)
ASSUME JoinsAlone ==
    \A i, j \in Inst : /\ i.head = j.head
                        /\ Cardinality(Atoms(i)) > 1
                        => RuleClass(i) = RuleClass(j)

SameStratum(i, a) ==
    Stratum[TableOf(AtomRow(i, a))] = Stratum[TableOf(i.head)]

Precedes(i, a, b) ==
    LET sa == Stratum[TableOf(AtomRow(i, a))]
        sb == Stratum[TableOf(AtomRow(i, b))]
    IN  \/ ~SameStratum(i, a) /\ SameStratum(i, b)
        \/ SameStratum(i, a) = SameStratum(i, b) /\ sa < sb
        \/ SameStratum(i, a) = SameStratum(i, b) /\ sa = sb /\ a < b

(* SeedReads: atoms before the delta position are read as of now, the      *)
(* others as of batch start, whatever the sign.                            *)
SeedReadAllNew(i, p, a) == InNew(cell[AtomRow(i, a)])
SeedRead(i, p, a) ==
    LET c == cell[AtomRow(i, a)] IN
    IF Precedes(i, a, p) THEN InNew(c) ELSE InI(c)

(* FixReads: lower atoms as of now; those of the stratum strictly before   *)
(* the delta position and permissively after it.                           *)
FixReadPermissive(cells, i, p, a, deleting) ==
    LET c == cells[AtomRow(i, a)] IN
    IF ~SameStratum(i, a) THEN InNew(c)
    ELSE IF deleting THEN AliveAtClaim(c) ELSE InNewWithFrontier(c)
FixRead(cells, i, p, a, deleting) ==
    LET c == cells[AtomRow(i, a)] IN
    IF ~SameStratum(i, a) THEN InNew(c)
    ELSE IF Precedes(i, a, p)
         THEN IF deleting THEN SurvivesSoFar(c) ELSE InNewWithFrontier(c)
         ELSE IF deleting THEN AliveAtClaim(c) ELSE InNewSansFrontier(c)

(* The rules of a stratum fired at a lower position, over the frontier of  *)
(* that sign: a negated atom loses where its view gains.                   *)
SeedFires(s, neg, pos) ==
    {e \in UNION {{i} \X Atoms(i) : i \in {j \in Inst :
                        Stratum[TableOf(j.head)] = s}} :
        LET i == e[1]  p == e[2] IN
        /\ ~SameStratum(i, p)
        /\ AtomRow(i, p) \in IF IsNegated(i, p) THEN neg ELSE pos
        /\ \A a \in Atoms(i) \ {p} : SeedRead(i, p, a) # IsNegated(i, a)}

(* The rules of a stratum fired at a position of the stratum itself, over  *)
(* the rows one round claimed.                                             *)
RoundFires(cells, s, round, deleting) ==
    {e \in UNION {{i} \X Atoms(i) : i \in {j \in Inst :
                        Stratum[TableOf(j.head)] = s}} :
        LET i == e[1]  p == e[2] IN
        /\ SameStratum(i, p)
        /\ AtomRow(i, p) \in round
        /\ \A a \in Atoms(i) \ {p} :
               FixRead(cells, i, p, a, deleting) # IsNegated(i, a)}

ViewsByStratum(s) == {x \in Row : Stratum[TableOf(x)] = s}

-----------------------------------------------------------------------------
(* RunBatch.  The batch is received as written: a fact may be both added   *)
(* and removed in it, any number of times.                                 *)
Submit(adds, removes) ==
    /\ phase = "idle"
    /\ ~failed
    /\ ops' = [adds |-> adds, removes |-> removes, busy |-> TRUE]
    /\ phase' = "ingest"
    /\ UNCHANGED <<cell, queues, facts, stratum, failed>>

(* Ingest netting: a fact on both sides annihilates. *)
NettedAdds(o) == o.adds \ o.removes
NettedRemovesAll(o) == o.removes
NettedRemoves(o) == o.removes \ o.adds

Ingest ==
    /\ phase = "ingest"
    /\ cell' = [x \in Row |->
          IF x \in NettedRemoves(ops) THEN SubExplicit(cell[x])
          ELSE IF x \in NettedAdds(ops) THEN AddExplicit(cell[x])
          ELSE cell[x]]
    /\ pend_add' = {x \in NettedAdds(ops) : CrossedUp(cell[x], cell'[x])}
    /\ pend_del' = {x \in NettedRemoves(ops) :
          "kExplicit" \in cell[x].f /\ CrossedDown(cell[x], cell'[x])}
    /\ ops' = [ops EXCEPT !.adds = NettedAdds(ops), !.removes = NettedRemoves(ops)]
    /\ phase' = "delSeed"
    /\ stratum' = 0
    /\ UNCHANGED <<claimed_del, claimed_add, out_del, out_add, facts, failed>>

(* Overdelete: the minus seeds, then the claim rounds.  TryClaimDel fails  *)
(* on a row with C_nr > 0.                                                 *)
DelSeed ==
    /\ phase = "delSeed"
    /\ LET fires == SeedFires(stratum, out_add, out_del)
           end   == FoldAll(cell, fires, -1)
       IN  /\ cell' = end
           /\ pend_del' = pend_del \cup ParkedDown(cell, end, fires)
    /\ phase' = "delRound"
    /\ UNCHANGED <<pend_add, claimed_del, claimed_add, out_del, out_add, ops,
                   facts, stratum, failed>>

DelRound ==
    /\ phase = "delRound"
    /\ ~failed
    /\ LET round == {x \in pend_del \cap ViewsByStratum(stratum) :
                        "kDel" \notin cell[x].f}
           mid   == [x \in Row |->
                        IF x \in round THEN ClaimDel(cell[x]) ELSE cell[x]]
           fires == RoundFires(mid, stratum, round, TRUE)
           end   == FoldAll(mid, fires, -1)
       IN  /\ failed' = (\E x \in round : cell[x].nr > 0)
           /\ cell' = [x \in Row |->
                  IF x \in round THEN RetireDel(end[x]) ELSE end[x]]
           /\ pend_del' = (pend_del \ ViewsByStratum(stratum))
                              \cup ParkedDown(mid, end, fires)
           /\ claimed_del' = claimed_del \cup round
           /\ phase' = IF round = {} THEN "rederive" ELSE "delRound"
    /\ UNCHANGED <<pend_add, claimed_add, out_del, out_add, ops, facts,
                   stratum>>

RederiveAll ==
    /\ phase = "rederive"
    /\ pend_add' = pend_add \cup (claimed_del \cap ViewsByStratum(stratum))
    /\ phase' = "addSeed"
    /\ UNCHANGED <<cell, pend_del, claimed_del, claimed_add, out_del, out_add,
                   ops, facts, stratum, failed>>

Rederive ==
    /\ phase = "rederive"
    /\ pend_add' = pend_add \cup {x \in claimed_del \cap ViewsByStratum(stratum) :
                                      RecursivelySupported(cell[x])}
    /\ phase' = "addSeed"
    /\ UNCHANGED <<cell, pend_del, claimed_del, claimed_add, out_del, out_add,
                   ops, facts, stratum, failed>>

(* InsertPhase. *)
AddSeed ==
    /\ phase = "addSeed"
    /\ LET fires == SeedFires(stratum, out_del, out_add)
           end   == FoldAll(cell, fires, 1)
       IN  /\ cell' = end
           /\ pend_add' = pend_add \cup ParkedUp(cell, end, fires)
    /\ phase' = "addRound"
    /\ UNCHANGED <<pend_del, claimed_del, claimed_add, out_del, out_add, ops,
                   facts, stratum, failed>>

AddRound ==
    /\ phase = "addRound"
    /\ LET round == {x \in pend_add \cap ViewsByStratum(stratum) :
                        "kAdd" \notin cell[x].f}
           mid   == [x \in Row |->
                        IF x \in round THEN ClaimAdd(cell[x]) ELSE cell[x]]
           fires == RoundFires(mid, stratum, round, FALSE)
           end   == FoldAll(mid, fires, 1)
       IN  /\ cell' = [x \in Row |->
                  IF x \in round THEN RetireAdd(end[x]) ELSE end[x]]
           /\ pend_add' = (pend_add \ ViewsByStratum(stratum))
                              \cup ParkedUp(mid, end, fires)
           /\ claimed_add' = claimed_add \cup round
           /\ phase' = IF round = {} THEN "frontiers" ELSE "addRound"
    /\ UNCHANGED <<pend_del, claimed_del, out_del, out_add, ops, facts,
                   stratum, failed>>

BuildFrontiers ==
    /\ phase = "frontiers"
    /\ out_del' = out_del \cup {x \in claimed_del \cap ViewsByStratum(stratum) :
                                    "kAdd" \notin cell[x].f}
    /\ out_add' = out_add \cup {x \in claimed_add \cap ViewsByStratum(stratum) :
                                    "kDel" \notin cell[x].f}
    /\ IF stratum = LastStratum
       THEN phase' = "commit" /\ UNCHANGED stratum
       ELSE phase' = "delSeed" /\ stratum' = stratum + 1
    /\ UNCHANGED <<cell, pend_del, pend_add, claimed_del, claimed_add, ops,
                   facts, failed>>

(* Commit and CheckAgainstScratch, with their assertions. *)
CommitAsserts ==
    /\ pend_del = {} /\ pend_add = {}
    /\ \A x \in Row : "kTouched" \in cell[x].f =>
                          cell[x].nr >= 0 /\ cell[x].r >= 0

CheckAgainstScratch(cells, f) ==
    /\ {x \in Row : InI(cells[x])} = LeastModel(f)
    /\ ExactCounts(cells, f)

Commit ==
    /\ phase = "commit"
    /\ cell' = [x \in Row |->
          IF "kTouched" \in cell[x].f THEN CommitRow(cell[x]) ELSE cell[x]]
    /\ facts' = (facts \ ops.removes) \cup ops.adds
    /\ failed' = ~(CommitAsserts /\ CheckAgainstScratch(cell', facts'))
    /\ pend_del' = {} /\ pend_add' = {}
    /\ claimed_del' = {} /\ claimed_add' = {}
    /\ out_del' = {} /\ out_add' = {}
    /\ ops' = NoOps
    /\ phase' = "idle"
    /\ stratum' = 0

Run == \/ Ingest \/ DelSeed \/ DelRound \/ Rederive \/ AddSeed \/ AddRound
       \/ BuildFrontiers \/ Commit

SubmitOf(fs) == /\ phase = "idle"
                /\ \E adds, removes \in SUBSET fs : Submit(adds, removes)

Next == SubmitOf(Facts) \/ Run

Spec == Init /\ [][Next]_vars

-----------------------------------------------------------------------------
(* The oracle never calls Fail: no deletion is claimed with nonrecursive   *)
(* support left, though its claims do not re-test it; the queues are       *)
(* drained and the counters non-negative at commit; and its incremental    *)
(* path agrees with its from-scratch path on presence and on every counter *)
(* after every batch (the assertions (a), (b) and (c) of its header).      *)
NeverFails == ~failed

(* The oracle implements the abstract view maintenance, the batch taken    *)
(* with its set semantics: a fact both added and removed in a batch keeps  *)
(* the presence it had.                                                    *)
View == INSTANCE ViewMaintenance WITH
            view  <- {x \in Row : InI(cell[x])},
            batch <- [adds |-> ops.adds \ ops.removes,
                      removes |-> ops.removes \ ops.adds, busy |-> ops.busy]
RefinesViewMaintenance == View!ASpec
=============================================================================
