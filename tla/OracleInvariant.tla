-------------------------- MODULE OracleInvariant --------------------------
(***************************************************************************)
(* The inductive invariant of the oracle.                                  *)
(*                                                                         *)
(* The counters of a row are the instances counted less the instances      *)
(* owed.  An instance is owed when OVERDELETE takes away a derivation that *)
(* the row never had - a lower atom of it came in this batch, and another  *)
(* atom left - which InsertPhase then gives back.                          *)
(***************************************************************************)
EXTENDS OracleEpoch, LedgerProofs

(* OVERDELETE after its seeds, and InsertPhase after its seeds. *)
Thinning == {"delRound", "rederive", "addSeed"}
Refilling == {"addRound", "frontiers", "commit"}
Phases == {"idle", "ingest", "delSeed"} \cup Thinning \cup Refilling

Level(x) == Stratum[TableOf(x)]
Now == NowOf(cell)
Old == OldOf(cell)
NewFacts == (facts \ NettedRemoves(ops)) \cup NettedAdds(ops)
Target == LeastModel(NewFacts)

-----------------------------------------------------------------------------
(* Whether atom a of instance i holds in S, and how the seeds read it.     *)
Held(i, a, S) == (AtomRow(i, a) \in S) # IsNegated(i, a)
SeedHeld(i, a, old, now) == Held(i, a, IF SameStratum(i, a) THEN old ELSE now)

(* Every atom that came precedes every atom that left, those of the own    *)
(* stratum being as of batch start: then, and only then, a seed of either  *)
(* sign finds all other atoms where it reads them.                         *)
Ordered(i, old, now) ==
    \A a, b \in Atoms(i) :
        ~Held(i, a, old) /\ ~SeedHeld(i, b, old, now) => Precedes(i, a, b)

(* How far the batch has got with the table of x.                          *)
Thinned(x, ph, st) == Level(x) = st /\ ph \in Thinning
Refilled(x, ph, st) == Level(x) < st \/ (Level(x) = st /\ ph \in Refilling)
Final(x, ph, st) == Level(x) < st \/ (Level(x) = st /\ ph \in {"frontiers", "commit"})

(* The instances that the counters count, and those that they are short of. *)
Counted(i, old, now, ph, st) ==
    /\ ~Refilled(i.head, ph, st) => Holds(i, old)
    /\ Thinned(i.head, ph, st) \/ Refilled(i.head, ph, st) => Holds(i, now)
Owed(i, old, now, ph, st) ==
    /\ Thinned(i.head, ph, st)
    /\ ~Holds(i, old) /\ ~Holds(i, now)
    /\ Ordered(i, old, now)
CountedBy(old, now, ph, st) == {i \in Inst : Counted(i, old, now, ph, st)}
OwedBy(old, now, ph, st) == {i \in Inst : Owed(i, old, now, ph, st)}
Count == CountedBy(Old, Now, phase, stratum)
Debt == OwedBy(Old, Now, phase, stratum)

-----------------------------------------------------------------------------
(* The ledger of LedgerProofs, with debts.                                 *)
Balances(cells, C, D) ==
    \A x \in Row :
        /\ cells[x].nr = Cardinality(Into(C, x, "kNonRecursive"))
                           - Cardinality(Into(D, x, "kNonRecursive"))
                           + Explicit(cells[x])
        /\ cells[x].r = Cardinality(Into(C, x, "kRecursive"))
                           - Cardinality(Into(D, x, "kRecursive"))

(* A row that lost a derivation and has no nonrecursive one left is queued *)
(* or deleted; any other has all it had, and owes none.                    *)
LossParked(cells, dq, C, D, f) ==
    \A x \in Row :
        /\ SurvivesSoFar(cells[x]) /\ cells[x].nr <= 0 /\ x \notin dq
        => /\ \A i \in Inst : i.head = x => i \notin D /\ (Holds(i, OldOf(cells)) => i \in C)
           /\ x \in f => "kExplicit" \in cells[x].f

Balance(cells, dq, aq, waiting, C, D, f) ==
    /\ cells \in [Row -> Cell]
    /\ C \subseteq Inst /\ D \subseteq Inst
    /\ Balances(cells, C, D)
    /\ dq \subseteq OldOf(cells) /\ aq \subseteq Row
    /\ LossParked(cells, dq, C, D, f)
    /\ GainQueued(cells, aq, waiting)

-----------------------------------------------------------------------------
Typed ==
    /\ facts \subseteq Facts
    /\ ops \in [adds : SUBSET Facts, removes : SUBSET Facts, busy : BOOLEAN]
    /\ phase \in Phases
    /\ stratum \in 0..LastStratum
    /\ failed = FALSE

(* The work in hand. *)
WorkOk ==
    /\ phase = "idle" => ops = NoOps
    /\ phase # "idle" => ops.busy
    /\ phase \in {"idle", "ingest"} => stratum = 0 /\ pend_del = {} /\ pend_add = {}
    /\ phase \notin {"idle", "ingest"} => ops.adds \cap ops.removes = {}
    /\ phase = "commit" => stratum = LastStratum

(* The flags. *)
FlagsOk ==
    \A x \in Row :
        /\ FlagsOf(cell[x])
        /\ cell[x].f \cap {"kDelNow", "kAddNow"} = {}
        /\ phase \in {"idle", "ingest"} => cell[x].f \subseteq {"kInI", "kExplicit"}
        /\ "kAdd" \in cell[x].f => /\ "kInI" \in cell[x].f => "kDel" \in cell[x].f
                                   /\ Refilled(x, phase, stratum)
        /\ "kDel" \in cell[x].f => \/ Refilled(x, phase, stratum)
                                   \/ Thinned(x, phase, stratum)
        /\ "kExplicit" \in cell[x].f <=>
               x \in (IF phase \in {"idle", "ingest"} THEN facts ELSE NewFacts)

(* The vectors. *)
Built(x, ph, st) == Level(x) < st \/ ph = "commit"
VectorsOk ==
    /\ claimed_del = {x \in Row : "kDel" \in cell[x].f}
    /\ claimed_add = {x \in Row : "kAdd" \in cell[x].f}
    /\ out_del = {x \in Old \ Now : Built(x, phase, stratum)}
    /\ out_add = {x \in Now \ Old : Built(x, phase, stratum)}

(* The queues.  Nothing in them changes its mind before it is claimed, as  *)
(* the oracle does not re-test it.                                         *)
QueuesOk ==
    /\ \A x \in pend_del :
           /\ cell[x].nr <= 0
           /\ \/ Level(x) > stratum
              \/ Level(x) = stratum /\ phase \in {"delSeed", "delRound"}
    /\ \A x \in pend_add :
           /\ ~SurvivesSoFar(cell[x])
           /\ \/ /\ "kExplicit" \in cell[x].f
                 /\ Level(x) = stratum => phase \notin {"frontiers", "commit"}
                 /\ Level(x) >= stratum
              \/ /\ Level(x) = stratum
                 /\ \/ phase = "addSeed" /\ RecursivelySupported(cell[x])
                    \/ phase = "addRound" /\ Total(cell[x]) > 0
    /\ \A x \in claimed_del :
           Level(x) = stratum /\ phase \in {"delRound", "rederive"} => cell[x].nr <= 0

(* A deleted row waits for Rederive. *)
Waiting(cells, ph, st) ==
    {x \in Row : /\ Level(x) = st /\ ph \in {"delRound", "rederive"}
                 /\ "kDel" \in cells[x].f}

LedgerOk ==
    Balance(cell, pend_del, pend_add, Waiting(cell, phase, stratum), Count, Debt, facts)

(* The models. *)
ModelsOk ==
    /\ Old = LeastModel(facts)
    /\ \A x \in Row : Final(x, phase, stratum) => (x \in Now <=> x \in Target)
    /\ phase \in {"rederive", "addSeed", "addRound"} =>
           \A x \in Now : Level(x) = stratum => x \in Target

Inv == Typed /\ WorkOk /\ FlagsOk /\ VectorsOk /\ QueuesOk /\ LedgerOk /\ ModelsOk
=============================================================================
