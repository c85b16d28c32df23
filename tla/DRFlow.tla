-------------------------------- MODULE DRFlow --------------------------------
(***************************************************************************)
(* The delta-relational flow graph (lib/DR/DR.cpp): the operations that    *)
(* BuildDRInventory makes of a program with their effects, the validators  *)
(* of ValidateDROps, the checked linearization of                          *)
(* LinearizeAndValidateDRFlow, and the order in which LowerDRFlow and      *)
(* LowerDRRounds (lib/ControlFlow/Build/Stratum.cpp) emit the operations.  *)
(* The strata are those that DRStrata derives.                             *)
(*                                                                         *)
(* An operation is identified by its kind, the table it folds into or      *)
(* works on, the table whose changes it handles (0 for none) and its sign. *)
(***************************************************************************)
EXTENDS DRStrata, Sequences, SequencesExt

CONSTANT Addresses    \* orders of the tables in memory: functions of Table to Nat

ASSUME DRFlowAssumption == Table \subseteq Nat \ {0} /\ Addresses \subseteq [Table -> Nat]

VARIABLES
    address,   \* the addresses of the tables, which are part of the band key
    ops,       \* flow.ops, and the effects each operation carries
    deps,      \* flow.dep_edges
    pinned,    \* flow.pinned_order
    failed     \* the validators that aborted the compiler

flowVars == <<address, ops, deps, pinned, failed>>
allVars == <<prog, scc, unitStratum, drain, round, left, changed, flowStage, address, ops, deps,
             pinned, failed>>

-----------------------------------------------------------------------------
(* Effects.  role names a vector of the table, arg the predicate, the      *)
(* class or the sign.                                                      *)
Fx(eff, table, role, arg) == [eff |-> eff, table |-> table, role |-> role, arg |-> arg]

Drain(t, role) == Fx("kVecDrain", t, role, "-")
AppendTo(t, role) == Fx("kVecAppend", t, role, "-")
Clear(t, role) == Fx("kVecClear", t, role, "-")
FlagRead(t, pred) == Fx("kFlagRead", t, "-", pred)
FlagWrite(t) == Fx("kFlagWrite", t, "-", "-")
CrossingRead(t) == Fx("kInIReadFrozen", t, "-", "kInI")
Counter(t, class) == Fx("kCounter", t, "-", class)

Queue(sign) == IF sign < 0 THEN "kDeleteQueue" ELSE "kAddQueue"
ClaimSet(sign) == IF sign < 0 THEN "kOverdeleteSet" ELSE "kAdditionSet"
Frontier(sign) == IF sign < 0 THEN "kNetRemoval" ELSE "kNetAddition"
Claimed(sign) == IF sign < 0 THEN "kClaimedDel" ELSE "kClaimedAdd"

(* A fold into t: the counter, the read that finds the zero crossing, and  *)
(* the queue that a crossing row is parked on.                             *)
Fold(t, sign, class) == {Counter(t, class), CrossingRead(t), AppendTo(t, Queue(sign))}

Differential(t) == t \in prog.phase
Recursive(t) == scc[t] # NoScc

(* RuleClass: recursive iff the head shares its SCC with a table read. *)
RuleClass(t, reads) ==
    IF \E w \in reads : SameScc(t, w) THEN "kRecursive" ELSE "kNonRecursive"

NegateGatePred(ctx, hint) ==
    CASE ctx = "kEager" -> IF hint = "kNever" THEN "kPresent" ELSE "kInI"
      [] ctx = "kSeed" -> "kInI"
      [] OTHER -> "kInNew"

CrossoverArmEffectsOld(o) ==
    {Drain(o.of, Frontier(-o.sign))}
    \cup {FlagRead(w, "kInI") : w \in prog.reads[o.head] \ prog.negated[o.head]}
    \cup Fold(o.head, o.sign, RuleClass(o.head, prog.reads[o.head]))

CrossoverArmEffects(o) ==
    {Drain(o.of, Frontier(-o.sign))}
    \cup {FlagRead(w, "kInNew") : w \in prog.reads[o.head] \ prog.negated[o.head]}
    \cup Fold(o.head, o.sign, RuleClass(o.head, prog.reads[o.head]))

(* The other sides of a product: those before the changed one as of now,   *)
(* those after it as of the start of the batch.                            *)
ArmReads(o) == {FlagRead(w, IF w < o.of THEN "kInNew" ELSE "kInI") :
                    w \in prog.reads[o.head] \ {o.of}}

ProductArmEffects(o) ==
    {Drain(o.of, Frontier(o.sign))} \cup ArmReads(o)
    \cup Fold(o.head, o.sign, "kNonRecursive")

GateReads(o, ctx) == {FlagRead(w, NegateGatePred(ctx, "kNormal")) : w \in prog.negated[o.head]}

(* A seed of a branch that ends at a join appends to the join's pivots     *)
(* and folds nothing.                                                      *)
SeedFoldEffects(o) ==
    {Drain(o.of, Frontier(o.sign))}
    \cup IF o.kind = "kPivotSeed"
         THEN {AppendTo(o.head, "kJoinPivots")}
         ELSE GateReads(o, "kSeed") \cup Fold(o.head, o.sign, RuleClass(o.head, {o.of}))

ChainFoldEffects(o) ==
    {Drain(o.of, Claimed(o.sign))} \cup GateReads(o, "kFixpoint")
    \cup Fold(o.head, o.sign, "kRecursive")

(* The claim-relative reads: an arm reads the same-SCC sides before its    *)
(* delta permissively and those after it strictly.                         *)
FixpointSamePred(j, p, sign) ==
    IF j < p THEN IF sign < 0 THEN "kSurvivesSoFar" ELSE "kInNewWithFrontier"
    ELSE IF sign < 0 THEN "kAliveAtClaim" ELSE "kInNewSansFrontier"

FireDeltas(t) == {p \in prog.reads[t] : SameScc(t, p)}

FixpointFireEffects(o) ==
    (UNION {{Drain(p, Claimed(o.sign))}
            \cup {FlagRead(j, IF SameScc(o.head, j) THEN FixpointSamePred(j, p, o.sign)
                              ELSE "kInNew") : j \in prog.reads[o.head] \ {p}} :
                p \in FireDeltas(o.head)})
    \cup Fold(o.head, o.sign, "kRecursive")
    \cup {Drain(o.head, "kJoinPivots")}

(* The state cell of an aggregate is a resource of the aggregate's table.  *)
GroupUpdateEffects(o) ==
    {Drain(w, Frontier(s)) : w \in prog.reads[o.head], s \in {-1, 1}}
    \cup {Fx("kStateFold", o.head, "-", s) : s \in {"-1", "1"}}
    \cup {Fx("kStateEmit", o.head, "-", "-"), Fx("kStateOld", o.head, "-", "-")}
    \cup Fold(o.head, -1, "kNonRecursive") \cup Fold(o.head, 1, "kNonRecursive")

StateSealEffects(o) == {Fx("kStateFold", o.head, "-", "0")}

(* Only a drain inside a round appends to the round's frontier and clears  *)
(* its queue.                                                              *)
ClaimDrainEffects(o) ==
    {Drain(o.head, Queue(o.sign)), FlagWrite(o.head), AppendTo(o.head, ClaimSet(o.sign))}
    \cup IF Recursive(o.head)
         THEN {AppendTo(o.head, Claimed(o.sign)), Clear(o.head, Queue(o.sign))} ELSE {}

FrontierFilterEffects(o) ==
    {Drain(o.head, ClaimSet(o.sign)),
     FlagRead(o.head, IF o.sign < 0 THEN "kNetDeleted" ELSE "kNetAdded"),
     AppendTo(o.head, Frontier(o.sign))}

RetireEffects(o) == {Drain(o.head, Claimed(o.sign)), FlagWrite(o.head)}

RederiveEffects(o) ==
    {Drain(o.head, "kOverdeleteSet"), FlagRead(o.head, "kRecursivelySupported"),
     AppendTo(o.head, "kAddQueue")}

CommitSweepEffects(o) ==
    {FlagWrite(o.head)} \cup IF Differential(o.head) THEN {CrossingRead(o.head)} ELSE {}

PivotAssembleEffects(o) ==
    {Drain(w, Frontier(s)) : w \in prog.reads[o.head], s \in {-1, 1}}
    \cup {Clear(o.head, "kJoinPivots"), AppendTo(o.head, "kJoinPivots")}

NegateGateEffects(o) ==
    {FlagRead(w, NegateGatePred("kEager",
                                IF prog.kind[o.head] = "never" THEN "kNever" ELSE "kNormal")) :
         w \in prog.negated[o.head]}

(* A table without retraction keeps its additions for the phases when it   *)
(* is negated or read by a table that is phase owned.                      *)
MonotoneIngestRole(t) ==
    IF ~ Differential(t) /\ \E r \in prog.phase : t \in prog.reads[r]
    THEN "kNetAddition" ELSE "kEmpty"

IngestRole(o) == IF Differential(o.head) THEN Queue(o.sign) ELSE MonotoneIngestRole(o.head)

IngestFoldEffects(o) ==
    {Counter(o.head, "kNonRecursive")}
    \cup {AppendTo(o.head, r) : r \in {IngestRole(o)} \ {"kEmpty"}}

Effects(o) ==
    CASE o.kind = "kCrossover" -> CrossoverArmEffects(o)
      [] o.kind = "kProductArm" -> ProductArmEffects(o)
      [] o.kind = "kGroupUpdate" -> GroupUpdateEffects(o)
      [] o.kind = "kStateSeal" -> StateSealEffects(o)
      [] o.kind \in {"kSeedFold", "kPivotSeed"} -> SeedFoldEffects(o)
      [] o.kind = "kChainFold" -> ChainFoldEffects(o)
      [] o.kind = "kFixpointFire" -> FixpointFireEffects(o)
      [] o.kind = "kClaimDrain" -> ClaimDrainEffects(o)
      [] o.kind = "kFrontierFilter" -> FrontierFilterEffects(o)
      [] o.kind = "kRetire" -> RetireEffects(o)
      [] o.kind = "kRederive" -> RederiveEffects(o)
      [] o.kind = "kCommitSweep" -> CommitSweepEffects(o)
      [] o.kind = "kPivotAssemble" -> PivotAssembleEffects(o)
      [] o.kind = "kNegateGate" -> NegateGateEffects(o)
      [] o.kind = "kIngestFold" -> IngestFoldEffects(o)

-----------------------------------------------------------------------------
(* BuildDRInventory. *)
Op(kind, head, of, sign) == [kind |-> kind, head |-> head, of |-> of, sign |-> sign]
Both(kind, head, of) == {Op(kind, head, of, s) : s \in {-1, 1}}

(* The arms of a change of w: without retraction w only grows. *)
SignsOf(w) == IF Differential(w) THEN {-1, 1} ELSE {1}

(* The retraction of a negated table re-derives, so the sign is the dual.  *)
CrossoverOps ==
    UNION {UNION {{Op("kCrossover", u.head, w, -s) : s \in SignsOf(w)} :
                      w \in prog.negated[u.head]} : u \in Crossovers(prog)}

ProductArms ==
    UNION {UNION {{Op("kProductArm", u.head, w, s) : s \in SignsOf(w)} : w \in u.from} :
               u \in Products(prog)}

GroupUpdateOps ==
    {Op(k, u.head, 0, 0) : k \in {"kGroupUpdate", "kStateSeal"}, u \in GroupUpdates(prog)}

AllSidesSameScc(t) == \A w \in prog.reads[t] : SameScc(t, w)

(* A branch inside an SCC fires only in the rounds, and a join with all    *)
(* its sides in its SCC has no seed.                                       *)
InRoundsNever(u) == FALSE
InRounds(u) == u.family = "branch" /\ \A w \in u.from : SameScc(u.head, w)
SeedSuppressed(u) == InRounds(u) \/ (u.family = "toJoin" /\ AllSidesSameScc(u.head))

SeedFolds ==
    UNION {UNION {{Op(IF u.family = "toJoin" THEN "kPivotSeed" ELSE "kSeedFold", u.head, w, s) :
                       s \in SignsOf(w)} : w \in u.from} :
               u \in {b \in Branches(prog) : ~ SeedSuppressed(b)}}

ChainFolds ==
    UNION {UNION {Both("kChainFold", u.head, w) : w \in u.from} :
               u \in {b \in Branches(prog) : InRounds(b)}}

FixpointFires ==
    UNION {Both("kFixpointFire", u.head, 0) : u \in {j \in Joins(prog) : Recursive(j.head)}}

PhaseTableOps ==
    UNION {Both("kClaimDrain", t, 0) \cup Both("kFrontierFilter", t, 0)
           \cup IF Recursive(t)
                THEN Both("kRetire", t, 0) \cup {Op("kRederive", t, 0, 0)} ELSE {} :
               t \in prog.phase}

CommitSweeps ==
    {Op("kCommitSweep", t, 0, 0) :
        t \in {w \in Table : Differential(w) \/ MonotoneIngestRole(w) # "kEmpty"}}

PivotAssembles ==
    {Op("kPivotAssemble", u.head, 0, 0) : u \in {j \in Joins(prog) : Recursive(j.head)}}

NegateGates ==
    {Op("kNegateGate", t, 0, 0) : t \in {w \in Table : prog.kind[w] \in {"negate", "never"}}}

IngestFolds ==
    UNION {{Op("kIngestFold", t, 0, s) : s \in SignsOf(t)} :
               t \in {w \in Table : prog.kind[w] = "receive"}}

Inventory == CrossoverOps \cup ProductArms \cup GroupUpdateOps \cup SeedFolds \cup ChainFolds
             \cup FixpointFires \cup PhaseTableOps \cup CommitSweeps \cup PivotAssembles
             \cup NegateGates \cup IngestFolds

-----------------------------------------------------------------------------
(* The band key.  op_stratum, op_band and op_table_id. *)
UnitOf(o, families) ==
    CHOOSE u \in DOMAIN unitStratum :
        /\ u.family \in families /\ u.head = o.head
        /\ u.family = "branch" => o.of \in u.from

OpStratum(o) ==
    CASE o.kind = "kSeedFold" -> unitStratum[UnitOf(o, {"branch"})]
      [] o.kind \in {"kPivotSeed", "kFixpointFire", "kPivotAssemble"} -> unitStratum[UnitOf(o, {"join"})]
      [] o.kind = "kCrossover" -> unitStratum[UnitOf(o, {"crossover"})]
      [] o.kind = "kProductArm" -> unitStratum[UnitOf(o, {"product"})]
      [] o.kind = "kGroupUpdate" -> unitStratum[UnitOf(o, {"groupUpdate"})]
      [] o.kind \in {"kChainFold", "kClaimDrain", "kRetire", "kRederive", "kFrontierFilter"} ->
             drain[o.head]
      [] OTHER -> 0

OpBandRetireFirst(o) ==
    CASE o.kind = "kFixpointFire" -> 6 [] o.kind = "kRetire" -> 4 [] o.kind = "kClaimDrain" -> 3
      [] o.kind = "kFrontierFilter" -> 8 [] OTHER -> 0

OpBand(o) ==
    CASE o.kind = "kClaimDrain" -> IF Recursive(o.head) THEN 3 ELSE 1
      [] o.kind = "kFrontierFilter" -> IF Recursive(o.head) THEN 8 ELSE 2
      [] o.kind = "kFixpointFire" -> 4
      [] o.kind = "kChainFold" -> 5
      [] o.kind = "kRetire" -> 6
      [] o.kind = "kRederive" -> 7
      [] o.kind = "kCommitSweep" -> 9
      [] o.kind = "kStateSeal" -> 10
      [] OTHER -> 0

OpTableId(o) ==
    IF o.kind \in {"kSeedFold", "kPivotSeed", "kChainFold", "kPivotAssemble", "kNegateGate"}
    THEN 0 ELSE address[o.head]

OpSign(o) == IF o.kind \in {"kSeedFold", "kPivotSeed", "kChainFold"} THEN 0 ELSE o.sign

Lead(o) == CASE o.kind \in {"kNegateGate", "kIngestFold"} -> 0
             [] o.kind \in {"kCommitSweep", "kStateSeal"} -> 2
             [] OTHER -> 1

(* The place of an operation in flow.ops: by the loop that makes it, then  *)
(* by table, and last the sign that is made first.                         *)
Constructed == <<"kCrossover", "kProductArm", "kGroupUpdate", "kStateSeal", "kSeedFold",
                 "kPivotSeed", "kChainFold", "kFixpointFire", "kClaimDrain", "kRetire",
                 "kRederive", "kFrontierFilter", "kCommitSweep", "kPivotAssemble",
                 "kNegateGate", "kIngestFold">>
CtorLoop(o) == CHOOSE i \in DOMAIN Constructed : Constructed[i] = o.kind
CtorSign(o) == IF o.kind \in {"kProductArm", "kIngestFold"} THEN -o.sign ELSE o.sign

(* The key, and key_less: the first position where two keys differ decides. *)
KeyOf(o) ==
    <<Lead(o), IF Lead(o) = 1 THEN OpStratum(o) ELSE 0, OpBand(o), OpTableId(o), OpSign(o),
      CtorLoop(o), o.of, o.head, CtorSign(o)>>

KeyLess(a, b) ==
    \E i \in 1..9 : a[i] < b[i] /\ \A j \in 1..(i - 1) : a[j] = b[j]

-----------------------------------------------------------------------------
(* The dependences.  A resource is a vector, or the flags of a table.  The *)
(* phase vectors exist for differential tables, the claimed frontiers for  *)
(* recursive ones.                                                         *)
Minted(t, role) == \/ role = "kJoinPivots"
                   \/ /\ Differential(t)
                      /\ role \in {"kClaimedDel", "kClaimedAdd"} => Recursive(t)

ResourcesRead(o) ==
    {<<e.table, e.role>> : e \in {x \in ops[o] : x.eff = "kVecDrain" /\ Minted(x.table, x.role)}}
    \cup {<<e.table, "flags">> : e \in {x \in ops[o] : x.eff \in {"kFlagRead", "kStateEmit"}}}

ResourcesWritten(o) ==
    {<<e.table, e.role>> :
        e \in {x \in ops[o] : x.eff \in {"kVecAppend", "kVecClear"} /\ Minted(x.table, x.role)}}
    \cup {<<e.table, "flags">> :
             e \in {x \in ops[o] : x.eff \in {"kCounter", "kFlagWrite", "kStateFold"}}}

Carried == {"kClaimedDel", "kClaimedAdd", "kNetRemoval", "kNetAddition", "kDeleteQueue", "kAddQueue"}

InRound(o) == \/ o.kind \in {"kFixpointFire", "kChainFold", "kRetire"}
              \/ o.kind = "kClaimDrain" /\ Recursive(o.head)
Scope(a, b) == IF InRound(a) /\ InRound(b) THEN "kRound" ELSE "kEpoch"

Dep(a, b, kind, carried) ==
    [from |-> a, to |-> b, kind |-> kind, scope |-> Scope(a, b), carried |-> carried]

(* Every hazard is directed by the key: the operation with the lower key   *)
(* comes first.  A read before a refill of a carried vector is recorded    *)
(* once more as the dependence of the next iteration.                      *)
Hazards(a, b, reads, writes) ==
    (IF writes[a] \cap writes[b] # {} THEN {Dep(a, b, "kWAW", FALSE)} ELSE {})
    \cup (IF writes[a] \cap reads[b] # {} THEN {Dep(a, b, "kRAW", FALSE)} ELSE {})
    \cup (IF reads[a] \cap writes[b] # {} THEN {Dep(a, b, "kWAR", FALSE)} ELSE {})
    \cup (IF \E r \in reads[a] \cap writes[b] : r[2] \in Carried
          THEN {Dep(b, a, "kRAW", TRUE)} ELSE {})

DepEdges(all) ==
    LET key    == [o \in all |-> KeyOf(o)]
        reads  == [o \in all |-> ResourcesRead(o)]
        writes == [o \in all |-> ResourcesWritten(o)]
    IN  UNION {UNION {Hazards(a, b, reads, writes) :
                        b \in {x \in all : KeyLess(key[a], key[x])}} :
                   a \in all}

InPass == {d \in deps : ~ d.carried}

FirstOf(key, S) == CHOOSE o \in S : \A x \in S : ~ KeyLess(key[x], key[o])

(* Kahn's algorithm; of the operations that are ready the one with the     *)
(* least key is next.                                                      *)
TopoSort(all, edges) ==
    LET key   == [o \in all |-> KeyOf(o)]
        preds == [o \in all |-> {d.from : d \in {e \in edges : e.to = o /\ ~ e.carried}}]
        sorted[n \in 0 .. Cardinality(all)] ==
            IF n = 0 THEN <<>>
            ELSE LET sofar == sorted[n - 1]
                     done  == ToSet(sofar)
                     ready == {o \in all \ done : preds[o] \subseteq done}
                 IN  IF ready = {} THEN sofar
                     ELSE Append(sofar, FirstOf(key, ready))
    IN  sorted[Cardinality(all)]

-----------------------------------------------------------------------------
(* ValidateDROps: what every operation must carry, and a census of the     *)
(* operations against a count made from the program.                       *)
OfKind(kinds) == {o \in DOMAIN ops : o.kind \in kinds}
EffectsOf(o, eff) == {e \in ops[o] : e.eff = eff}

(* ValidateDRInventory: the arms of a crossover and of a product. *)
CrossoverChecks(o) ==
    /\ prog.kind[o.head] # "never"
    /\ Op("kCrossover", o.head, o.of, -1) \in DOMAIN ops
    /\ Op("kCrossover", o.head, o.of, 1) \in DOMAIN ops <=> Differential(o.of)
    /\ \A x \in OfKind({"kCrossover"}) : x.head = o.head => x.of = o.of

ProductChecks(o) ==
    /\ \A e \in EffectsOf(o, "kCounter") : e.arg = "kNonRecursive"
    /\ Op("kProductArm", o.head, o.of, 1) \in DOMAIN ops
    /\ Op("kProductArm", o.head, o.of, -1) \in DOMAIN ops <=> Differential(o.of)

GateChecks(o) ==
    IF o.kind = "kRederive" THEN FlagRead(o.head, "kRecursivelySupported") \in ops[o]
    ELSE \A e \in EffectsOf(o, "kFlagRead") :
             e.arg = (IF prog.kind[o.head] = "never" THEN "kPresent" ELSE "kInI")

ClaimDrainChecks(o) ==
    IF Recursive(o.head)
    THEN /\ Clear(o.head, Queue(o.sign)) \in ops[o]
         /\ {AppendTo(o.head, ClaimSet(o.sign)), AppendTo(o.head, Claimed(o.sign))} \subseteq ops[o]
    ELSE EffectsOf(o, "kVecClear") = {}

FoldChecks(o) ==
    /\ Cardinality(EffectsOf(o, "kCounter")) = (IF o.kind = "kPivotSeed" THEN 0 ELSE 1)
    /\ \A e \in EffectsOf(o, "kFlagRead") :
          e.table \in prog.negated[o.head] =>
              e.arg = (IF o.kind = "kSeedFold" THEN "kInI" ELSE "kInNew")

IngestChecks(o) ==
    LET role == IngestRole(o)
    IN  /\ EffectsOf(o, "kCounter") = {Counter(o.head, "kNonRecursive")}
        /\ {e.role : e \in EffectsOf(o, "kVecAppend")} = {role} \ {"kEmpty"}
        /\ ops[o] = EffectsOf(o, "kCounter") \cup EffectsOf(o, "kVecAppend")
        /\ IF o.sign < 0 THEN role = "kDeleteQueue"
           ELSE role \in {"kAddQueue", "kNetAddition", "kEmpty"}
        /\ role \in {"kAddQueue", "kDeleteQueue"} <=> Differential(o.head)

AggChecks(o) ==
    /\ Cardinality(EffectsOf(o, "kStateFold")) = 2
    /\ Cardinality(EffectsOf(o, "kStateEmit")) = 1 /\ Cardinality(EffectsOf(o, "kStateOld")) = 1
    /\ EffectsOf(o, "kCounter") = {Counter(o.head, "kNonRecursive")}
    /\ Cardinality(EffectsOf(o, "kVecAppend")) = 2
    /\ o.head \notin prog.reads[o.head]
    /\ Op("kStateSeal", o.head, 0, 0) \in DOMAIN ops

RetiresExist ==
    \A o \in OfKind({"kFixpointFire", "kChainFold"}) : \A s \in {-1, 1} :
        \E r \in OfKind({"kRetire"}) : scc[r.head] = scc[o.head] /\ r.sign = s

ExpectedSeeds ==
    LET counted == {b \in Branches(prog) :
                       /\ ~ InRounds(b)
                       /\ b.family = "toJoin" => ~ AllSidesSameScc(b.head)}
        seedable == {b \in counted : b.from \subseteq prog.phase}
    IN  Cardinality(counted) + Cardinality(seedable)

Census ==
    LET phase     == prog.phase
        recursive == {t \in phase : Recursive(t)}
        receives  == {t \in Table : prog.kind[t] = "receive"}
        count(k)  == Cardinality(OfKind(k))
    IN  /\ count({"kSeedFold", "kPivotSeed"}) = ExpectedSeeds
        /\ count({"kFixpointFire"}) = 2 * Cardinality({j \in Joins(prog) : j.head \in recursive})
        /\ count({"kClaimDrain"}) = 2 * Cardinality(phase)
        /\ count({"kFrontierFilter"}) = 2 * Cardinality(phase)
        /\ count({"kRetire"}) = 2 * Cardinality(recursive)
        /\ count({"kRederive"}) = Cardinality(recursive)
        /\ count({"kIngestFold"}) = Cardinality(receives) + Cardinality(receives \cap phase)
        /\ count({"kGroupUpdate"}) = Cardinality({t \in Table : prog.kind[t] = "aggregate"})

SeedSupNegative == \A o \in OfKind({"kSeedFold"}) : ~ SameScc(o.head, o.of)

ValidateDROps ==
    {v \in {"V-XOVER-ONE", "V-PROD-MONO", "V-NEG-CTX", "V-QCLEAR", "V-ONE-FOLD", "V-INGEST",
            "V-AGG", "V-RETIRE-AFTER", "V-OLD-EQUIV", "V-SEED-SUP"} :
        ~ CASE v = "V-XOVER-ONE" -> \A o \in OfKind({"kCrossover"}) : CrossoverChecks(o)
            [] v = "V-PROD-MONO" -> \A o \in OfKind({"kProductArm"}) : ProductChecks(o)
            [] v = "V-NEG-CTX" -> \A o \in OfKind({"kNegateGate", "kRederive"}) : GateChecks(o)
            [] v = "V-QCLEAR" -> \A o \in OfKind({"kClaimDrain"}) : ClaimDrainChecks(o)
            [] v = "V-ONE-FOLD" ->
                 \A o \in OfKind({"kSeedFold", "kPivotSeed", "kChainFold"}) : FoldChecks(o)
            [] v = "V-INGEST" -> \A o \in OfKind({"kIngestFold"}) : IngestChecks(o)
            [] v = "V-AGG" -> \A o \in OfKind({"kGroupUpdate"}) : AggChecks(o)
            [] v = "V-RETIRE-AFTER" -> RetiresExist
            [] v = "V-OLD-EQUIV" -> Census
            [] v = "V-SEED-SUP" -> SeedSupNegative}

-----------------------------------------------------------------------------
(* The validators of LinearizeAndValidateDRFlow, over the pinned order. *)
ValidateOrder ==
    LET key == [o \in DOMAIN ops |-> KeyOf(o)]
        pos == [o \in ToSet(pinned) |-> CHOOSE i \in DOMAIN pinned : pinned[i] = o]
        onLattice(o) == Lead(o) = 1
        linear == Len(pinned) = Cardinality(DOMAIN ops) /\ \A d \in InPass : pos[d.from] < pos[d.to]
        loop == \A d \in deps \ InPass :
                   /\ Dep(d.to, d.from, "kWAR", FALSE) \in deps
                   /\ pos[d.to] < pos[d.from]
        retireAfter ==
            \A f \in OfKind({"kFixpointFire"}) :
                LET retires == {r \in OfKind({"kRetire"}) :
                                   scc[r.head] = scc[f.head] /\ r.sign = f.sign}
                IN  retires # {} /\ \A r \in retires : pos[f] < pos[r]
        ready == \A d \in InPass :
                    d.kind = "kRAW" /\ onLattice(d.from) /\ onLattice(d.to)
                        => OpStratum(d.from) <= OpStratum(d.to)
        order == \A i \in 1 .. Len(pinned) - 1 : ~ KeyLess(key[pinned[i + 1]], key[pinned[i]])
    IN  IF Len(pinned) # Cardinality(DOMAIN ops) THEN {"V-LINEAR"}
        ELSE {v \in {"V-LINEAR", "V-LOOP", "V-RETIRE-AFTER", "V-READY", "V-OLD-EQUIV"} :
                 ~ CASE v = "V-LINEAR" -> linear [] v = "V-LOOP" -> loop
                     [] v = "V-RETIRE-AFTER" -> retireAfter [] v = "V-READY" -> ready
                     [] v = "V-OLD-EQUIV" -> order}

-----------------------------------------------------------------------------
FlowInit ==
    /\ LiftInit
    /\ address = [t \in Table |-> 0] /\ ops = <<>> /\ deps = {} /\ pinned = <<>> /\ failed = {}

DeriveStrata == LiftNext /\ UNCHANGED flowVars

BuildDRInventory ==
    /\ flowStage = "done" /\ flowStage' = "inventory"
    /\ address' \in Addresses
    /\ ops' = [o \in Inventory |-> Effects(o)]
    /\ UNCHANGED <<prog, scc, unitStratum, drain, round, left, changed, deps, pinned, failed>>

Validate ==
    /\ flowStage = "inventory" /\ flowStage' = "validated"
    /\ failed' = ValidateDROps
    /\ UNCHANGED <<prog, scc, unitStratum, drain, round, left, changed, address, ops, deps, pinned>>

DeriveDeps ==
    /\ flowStage = "validated" /\ failed = {} /\ flowStage' = "deps"
    /\ deps' = DepEdges(DOMAIN ops)
    /\ UNCHANGED <<prog, scc, unitStratum, drain, round, left, changed, address, ops, pinned, failed>>

Linearize ==
    /\ flowStage = "deps" /\ flowStage' = "linear"
    /\ pinned' = TopoSort(DOMAIN ops, deps)
    /\ UNCHANGED <<prog, scc, unitStratum, drain, round, left, changed, address, ops, deps, failed>>

CheckOrder ==
    /\ flowStage = "linear" /\ flowStage' = "checked"
    /\ failed' = ValidateOrder
    /\ UNCHANGED <<prog, scc, unitStratum, drain, round, left, changed, address, ops, deps, pinned>>

FlowNext == DeriveStrata \/ BuildDRInventory \/ Validate \/ DeriveDeps \/ Linearize \/ CheckOrder

FlowSpec == FlowInit /\ [][FlowNext]_allVars

(* The flow is checked, or a validator has aborted the compiler. *)
Running == flowStage # "checked" /\ (flowStage = "validated" => failed = {})

-----------------------------------------------------------------------------
(* The place where the lowering emits an operation: strata in order, the   *)
(* bands of LowerDRFlow and then the rounds of LowerDRRounds in each; the  *)
(* eager part before them, the sweeps and seals after them.  Pivot         *)
(* assembly is not emitted.                                                *)
FlowBand(o) ==
    CASE o.kind \in {"kSeedFold", "kPivotSeed"} -> 1
      [] o.kind = "kCrossover" -> 3
      [] o.kind = "kProductArm" -> 4
      [] o.kind = "kGroupUpdate" -> 5
      [] o.kind = "kClaimDrain" -> 6
      [] o.kind = "kFrontierFilter" -> 7

RoundSlotFiltersEarly(o) ==
    CASE o.kind = "kClaimDrain" -> IF o.sign < 0 THEN 0 ELSE 5
      [] o.kind = "kFixpointFire" -> IF o.sign < 0 THEN 1 ELSE 6
      [] o.kind = "kChainFold" -> IF o.sign < 0 THEN 2 ELSE 7
      [] o.kind = "kRetire" -> IF o.sign < 0 THEN 3 ELSE 8
      [] o.kind = "kRederive" -> 4
      [] o.kind = "kFrontierFilter" -> IF o.sign < 0 THEN 4 ELSE 9

RoundSlot(o) ==
    CASE o.kind = "kClaimDrain" -> IF o.sign < 0 THEN 0 ELSE 5
      [] o.kind = "kFixpointFire" -> IF o.sign < 0 THEN 1 ELSE 6
      [] o.kind = "kChainFold" -> IF o.sign < 0 THEN 2 ELSE 7
      [] o.kind = "kRetire" -> IF o.sign < 0 THEN 3 ELSE 8
      [] o.kind = "kRederive" -> 4
      [] o.kind = "kFrontierFilter" -> 9

Looped == {"kClaimDrain", "kFixpointFire", "kChainFold", "kRetire", "kRederive", "kFrontierFilter"}

EmittedInRounds(o) == o.kind \in Looped /\ Recursive(o.head)
EmitStratum(o) == IF EmittedInRounds(o) THEN round[scc[o.head]] ELSE OpStratum(o)
EmitBand(o) == IF EmittedInRounds(o) THEN 8 + RoundSlot(o) ELSE FlowBand(o)

Emitted == {o \in DOMAIN ops : o.kind # "kPivotAssemble"}
Before(a, b) ==
    \/ Lead(a) < Lead(b)
    \/ /\ Lead(a) = 1 /\ Lead(b) = 1
       /\ \/ EmitStratum(a) < EmitStratum(b)
          \/ EmitStratum(a) = EmitStratum(b) /\ EmitBand(a) < EmitBand(b)

-----------------------------------------------------------------------------
(* No program the earlier passes let through makes a validator abort the   *)
(* compiler, whatever the order of the tables in memory.                   *)
NeverAborts == failed = {}

(* The emitted operations that see the changes of w with sign s for the    *)
(* head t.  A drain of a frontier sees them only if the frontier is filled *)
(* by then; tables without retraction fill theirs while messages are read. *)
FrontierFilled(w, s, o) == Differential(w) => Before(Op("kFrontierFilter", w, 0, s), o)

Folders(t, w, s) ==
    {o \in Emitted :
        /\ o.head = t
        /\ \/ o.kind \in {"kSeedFold", "kPivotSeed", "kProductArm"} /\ o.of = w /\ o.sign = s
              /\ FrontierFilled(w, s, o)
           \/ o.kind = "kCrossover" /\ o.of = w /\ o.sign = -s /\ FrontierFilled(w, s, o)
           \/ o.kind = "kGroupUpdate" /\ FrontierFilled(w, s, o)
           \/ o.kind = "kChainFold" /\ o.of = w /\ o.sign = s
           \/ o.kind = "kFixpointFire" /\ o.sign = s /\ SameScc(t, w)}

(* A read of w as of the end of the batch, by an operation that comes      *)
(* after everything that changes w.                                        *)
SeesNew(o, w) ==
    /\ FlagRead(w, "kInNew") \in ops[o]
    /\ \A c \in OfKind({"kClaimDrain", "kRetire"}) : c.head = w => Before(c, o)

(* Every change of a table a head reads is folded into the head by exactly *)
(* one operation: a seed before the rounds or a fold inside them, never    *)
(* both and never neither.  A negation hinted @never has no crossover.     *)
(* When both sides of a product or of a negation change, exactly one of    *)
(* the two operations sees the other side as it is after the batch, so     *)
(* the pair counts once.                                                   *)
ChangesFoldedOnce ==
    flowStage = "checked" =>
        \A t \in prog.phase : \A w \in prog.reads[t] : \A s \in SignsOf(w) :
            /\ Cardinality(Folders(t, w, s)) =
                  (IF prog.kind[t] = "never" /\ w \in prog.negated[t] THEN 0 ELSE 1)
            /\ prog.kind[t] \in {"product", "negate"} =>
                  \A v \in prog.reads[t] \ {w} : \A z \in SignsOf(v) :
                      \A a \in Folders(t, w, s), b \in Folders(t, v, z) :
                          SeesNew(a, v) # SeesNew(b, w)

(* Operations of one round loop feed each other from pass to pass. *)
SameLoop(a, b) == InRound(a) /\ InRound(b) /\ SameScc(a.head, b.head) /\ a.sign = b.sign

(* A seed of a join from inside the join's SCC drains a frontier that the  *)
(* rounds have yet to fill; the rounds fire that side.                     *)
DrainsNothing(o, t) == o.kind = "kPivotSeed" /\ SameScc(o.head, t)

(* In the emitted order a vector is complete before anything drains it,    *)
(* except along a loop; a table of another SCC is claimed and retired      *)
(* before it is read as of the end of the batch, a table of the same SCC   *)
(* after it is read outside the rounds; and a table is claimed and retired *)
(* before its net changes are filtered.                                    *)
ReadsSettled ==
    flowStage = "checked" =>
        \A o \in Emitted :
            /\ \A e \in EffectsOf(o, "kVecDrain") : \A a \in Emitted :
                  AppendTo(e.table, e.role) \in ops[a] =>
                      Before(a, o) \/ SameLoop(a, o) \/ DrainsNothing(o, e.table)
            /\ \A e \in EffectsOf(o, "kFlagRead") : \A a \in OfKind({"kClaimDrain", "kRetire"}) :
                  /\ a.head = e.table /\ e.arg = "kInNew" =>
                        IF SameScc(o.head, a.head) THEN Before(o, a) ELSE Before(a, o)
                  /\ a.head = e.table /\ e.arg \in {"kNetDeleted", "kNetAdded"} => Before(a, o)
=============================================================================
