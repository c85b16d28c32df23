--------------------------- MODULE EpochInvariant ---------------------------
(***************************************************************************)
(* The inductive invariant of the entry procedure.                         *)
(*                                                                         *)
(* Everything turns on one set: the rule instances that the counters count *)
(* at this point of the batch.  A fold of the procedure is right if it     *)
(* moves a counter for each instance that enters or leaves that set, and   *)
(* for no other.                                                           *)
(***************************************************************************)
EXTENDS Epoch, LedgerProofs

Bands  == {"seed", "join", "cross", "product"}
Rounds == {"del", "rederive", "add"}
(* The bands of a stratum that run after all its folds from below.         *)
Settling == {"drain", "scc", "commit"} \cup Rounds
Phases == {"idle", "ingest"} \cup Bands \cup Settling

Level(x) == Stratum[TableOf(x)]
Group(x) == Scc[TableOf(x)]

(* The rows as of now, and the facts that the batch moves to.              *)
Now == NowOf(cell)
Old == OldOf(cell)
NewFacts == (facts \ batch.removes) \cup batch.adds

-----------------------------------------------------------------------------
(* How far the procedure has got.                                          *)

(* Position p of instance i, resp. its negated row, is counted as of now:  *)
(* the work that folds its change is done.                                 *)
BodyNow(i, p, ph, st, td) ==
    \/ i.at < st
    \/ /\ i.at = st
       /\ \/ ph \in Settling
          \/ i.kind = "chain" /\ ph \in {"join", "cross", "product"}
          \/ i.kind = "chain" /\ ph = "seed" /\ i.rule \notin td
          \/ i.kind = "join" /\ ph \in {"cross", "product"}
          \/ i.kind = "join" /\ ph = "join" /\ i \notin td
          \/ i.kind = "product" /\ ph = "product" /\ <<i.rule, p>> \notin td
NegNow(i, ph, st, td) ==
    \/ i.at < st
    \/ /\ i.at = st
       /\ \/ ph \in Settling \cup {"product"}
          \/ ph = "cross" /\ i.rule \notin td

(* The instances that the counters count.                                  *)
Counted(i, old, now, ph, st, td) ==
    /\ \A p \in DOMAIN i.body :
           i.body[p] \in (IF BodyNow(i, p, ph, st, td) THEN now ELSE old)
    /\ \A y \in i.neg : y \notin (IF NegNow(i, ph, st, td) THEN now ELSE old)
CountedBy(old, now, ph, st, td) ==
    {i \in Inst : Counted(i, old, now, ph, st, td)}
Count == CountedBy(Old, Now, phase, stratum, todo)

(* A row whose table is drained in this batch, and one whose SCC is in its *)
(* rounds.                                                                 *)
Drained(x, ph, st, td) ==
    /\ ph \in Bands \cup Settling
    /\ \/ Level(x) < st
       \/ /\ Level(x) = st
          /\ \/ ph = "commit"
             \/ Group(x) = 0 /\ ph \in {"scc"} \cup Rounds
             \/ Group(x) # 0 /\ ph = "scc" /\ Group(x) \notin td
             \/ Group(x) # 0 /\ ph \in Rounds /\ \A g \in td : Group(x) < g
Open(x, ph, td) == Group(x) # 0 /\ ph \in Rounds /\ Group(x) \in td

-----------------------------------------------------------------------------
Typed ==
    /\ facts \subseteq Facts
    /\ batch \in [adds : SUBSET Facts, removes : SUBSET Facts, busy : BOOLEAN]
    /\ batch.adds \cap batch.removes = {}
    /\ phase \in Phases
    /\ stratum \in 0..LastStratum

(* The work in hand. *)
WorkOk ==
    /\ phase = "idle" => /\ stratum = 0 /\ batch = NoBatch
                         /\ delQ = {} /\ addQ = {}
    /\ phase # "idle" => batch.busy
    /\ phase = "ingest" => stratum = 0 /\ delQ = {} /\ addQ = {}
    /\ phase = "seed" => todo \subseteq BranchesAt(stratum)
    /\ phase = "join" => \A i \in todo : /\ i \in Inst /\ i.kind = "join"
                                         /\ i.at = stratum
                                         /\ (BodyRows(i) \subseteq Now) # (BodyRows(i) \subseteq Old)
    /\ phase = "cross" => todo \subseteq NegationsAt(stratum)
    /\ phase = "product" =>
           /\ todo \subseteq ProductWork(stratum)
           /\ \A a \in todo : \A e \in ProductWork(stratum) :
                  e[1] = a[1] /\ a[2] <= e[2] => e \in todo
    /\ phase = "scc" => /\ todo \subseteq SccsAt(stratum)
                        /\ \A g \in todo : \A h \in SccsAt(stratum) : g <= h => h \in todo
    /\ phase \in Rounds => \E g \in SccsAt(stratum) : todo = {g}
    /\ phase = "commit" => stratum = LastStratum

(* The flags. *)
FlagsOk ==
    \A x \in Row :
        /\ FlagsOf(cell[x])
        /\ phase \in {"idle", "ingest"} => cell[x].f \subseteq {"kInI", "kExplicit"}
        /\ Group(x) # 0 => cell[x].f \cap {"kDelNow", "kAddNow"} = {}
        /\ ~Drained(x, phase, stratum, todo) /\ ~Open(x, phase, todo) =>
               cell[x].f \cap {"kDel", "kAdd"} = {}
        /\ Open(x, phase, todo) /\ phase \in {"del", "rederive"} => "kAdd" \notin cell[x].f
        /\ "kExplicit" \in cell[x].f <=>
               x \in (IF phase \in {"idle", "ingest"} THEN facts ELSE NewFacts)

(* The vectors. *)
VectorsOk ==
    /\ overdeleted = {x \in Row : "kDel" \in cell[x].f}
    /\ added = {x \in Row : "kAdd" \in cell[x].f}
    /\ netRem = {x \in Row : Drained(x, phase, stratum, todo) /\ NetDeleted(cell[x])}
    /\ netAdd = {x \in Row : Drained(x, phase, stratum, todo) /\ NetAdded(cell[x])}

(* A deleted row with recursive support only waits for REDERIVE. *)
Waiting(cells, ph, td) ==
    {x \in Row : /\ ph \in {"del", "rederive"} /\ Open(x, ph, td)
                 /\ "kDel" \in cells[x].f /\ cells[x].nr <= 0}

(* The counters count the instances that hold as far as they are folded,   *)
(* and what they lost or gained is queued.                                 *)
LedgerOk ==
    /\ Ledger(cell, delQ, addQ, Waiting(cell, phase, todo), Count, facts)
    /\ phase \in {"rederive", "add"} => \A x \in delQ : ~Open(x, phase, todo)

(* The models. *)
ModelsOk ==
    /\ Old = LeastModel(facts)
    /\ \A x \in Row : Drained(x, phase, stratum, todo) => (x \in Now <=> x \in Target)
    /\ phase \in {"rederive", "add"} =>
           \A x \in Now : Open(x, phase, todo) => x \in Target

Inv == Typed /\ WorkOk /\ FlagsOk /\ VectorsOk /\ LedgerOk /\ ModelsOk

-----------------------------------------------------------------------------
(* The programs that keep to FreshClaims whatever the batches: at most one *)
(* instance of a row of an SCC is folded before its rounds, so that its    *)
(* table never loses a derivation of a row and gains another.              *)
Seeded(i) == ~RoundsOnly(i) \/ i.neg # {}
SingleSeed ==
    \A i, j \in Inst : /\ i.head = j.head /\ Group(i.head) # 0
                       /\ Seeded(i) /\ Seeded(j)
                       => i = j

(* No row of an SCC is queued for addition that is there.                  *)
Unflipped == \A x \in addQ : Group(x) # 0 => ~SurvivesSoFar(cell[x])
=============================================================================
