# A TLA+ verification of Dr. Lojekyll

Dr. Lojekyll compiles Datalog into a C++ database that maintains its views
incrementally: messages add and remove facts, and after each batch every
relation equals what a from-scratch evaluation of the surviving facts would
give. This directory models the compiler from the bytes of a source file to the
order of the operations it emits, and the runtime and generated code that carry
out a batch; it checks them with TLC on small instances, and proves with TLAPS
what holds of a differential table for any rows and any order of events, of
the entry procedure and of the oracle for any stratified program and any batches,
of the strata for any graph of views, and of the row log and its index for any rows,
keys and hashes.

## 1. The system

Source text goes through a fixed pipeline.

| Part | Where | State it keeps | Operations | Talks to |
|---|---|---|---|---|
| Display, lexer, string pool | `lib/Display`, `lib/Lex` | character streams, positions, interned strings | read, tokenize, intern | parser |
| Parser | `lib/Parse` | modules, declarations, clauses, error log | one token machine per statement, imports, redeclaration, type inference | data flow |
| Data-flow IR | `lib/DataFlow` | a graph of views with use lists, relations, conditions | build, canonicalize, CSE, dead-flow elimination, link, inductions, differential marking, table sharing, stratify | DR |
| Delta-relational IR | `lib/DR` | inventory of rules by shape, strata, rounds, operations with their effects | inventory, strata lift, validation, linearization | control flow |
| Control-flow IR | `lib/ControlFlow` | regions, vectors, tables | `BuildStratumPhases` and the other builders, region optimizer | code generator |
| Code generator | `lib/CodeGen` | none | emit the C++ of regions, sweeps, indices, group updates | runtime |
| Runtime | `include/drlojekyll/Runtime` | row log, hash set, indices, counters and flags, state cells | `AddDerivation`, `TryClaimDel`, `Commit`, `CompactDead`, `NetBatch`, ... | generated code |
| Oracle | `bin/Oracle` | an interpreter's tables | one batch = one epoch, with a scratch evaluation to compare | differential tests |
| Drivers, benchmarks, fuzzing, vim files | `bin/drlojekyll`, `bench`, `fuzz`, `contrib` | - | - | - |

Nothing here is concurrent: the compiler and the generated database run on one
thread, and nothing is persisted. What is hard is *order*, in two places.

At run time a batch is a long sequence of signed folds, queue drains, claims and
fixpoint rounds over counters that several rules share; a queue entry records a
crossing that may be undone before it is looked at; a rule instance whose
several atoms change in one batch has to be counted exactly once by code that
visits it from every atom; deletions run through cycles and have to be taken
back. The state that goes wrong this way is invisible until a later batch.

At compile time passes rewrite a cyclic graph in place until nothing changes,
each relying on what the others believe of columns, constants and unused views;
declarations change what names mean after they were used; and the order of
evaluation is a fixpoint over strata from which an order of operations is sorted.
A wrong rewrite is a database that answers wrongly for ever.

What makes each part correct:

* **Lexer**: tokens tile the text, each at its true place; names share an id
  exactly when they are equal.
* **Parser**: the hand-written machines accept what `docs/Grammar.md` derives;
  names resolve to one declaration; accepted programs are consistently typed and
  refused ones are untypable; parsing ends.
* **Data flow**: after every pass the graph means what the clauses mean; what
  the optimizer believes is true; views not marked as losing rows never lose
  one; views that share a table hold the same rows; inductions are layered; the
  fixpoints are reached.
* **Strata and flow**: strata are the components in source order, exactly the
  unstratifiable programs are rejected, every unit gets the least stratum after
  what it reads, validators reject no legal program, and in the emitted order each
  change is folded once and read when it is settled.
* **Differential table**: the frontiers it hands to later strata are the exact
  presence change of the batch; the sweep leaves every row as if the batch had
  been loaded from scratch; every change is published once; compaction is
  invisible.
* **Row log and index**: lookups end and are exact across growth, collisions and
  renumbering; a scan is stable.
* **Entry procedure and oracle**: each batch moves the visible relations from
  the least model of the old facts to that of the new ones, in one step, and the
  counters are the derivation counts of that model.
* **Aggregates**: the published rows are the definitional reduction of the
  input, and a batch emits their exact difference.
* **Batch netting**: set semantics with annihilation.

## 2. Modules

```
  Lexer ................. display, reader, tokens, string pool        Display/*, Lexer.cpp, StringPool.cpp
  Statements ............ token machines against the grammar          Clause.cpp, Functor.cpp, Query.cpp, ...
  ParseModules .......... modules, declarations, typing               Parser.cpp, Clause.cpp, Parse.cpp
    ModulePrograms ...... two modules for the runs

  QueryGraph ............ views, columns, replacing uses              Query.h, View.cpp, Column.cpp
    Canonicalize ........ one operator per kind of view               Tuple.cpp, Join.cpp, Compare.cpp, ...
      Optimize .......... CSE, dead flows, deletions, connection      Optimize.cpp, DeadFlowElimination.cpp, ...
      ClauseBuilder ..... from a clause to views                      Build.cpp
      Link .............. proxies, unions in front of inductions      Link.cpp, Constant.cpp
      Induction ......... inductive sets, labels, depths              Induction.cpp
      DataModels ........ table sharing, constant after init          EquivalenceSet.h, Build.cpp
        QueryMeaning .... the rows of a graph, the model of clauses   (reference semantics)
          DataFlow ...... Query::Build as a sequence of passes        Build.cpp, Optimize.cpp
    QueryPrograms ....... programs for the runs
  Stratify .............. strata of views                             Stratify.cpp
    StratifyProofs ...... theorems
  DRStrata .............. SCC map, unit inventory, strata lift        DR.cpp, Stratum.cpp
    DRFlow .............. operations, validators, linearization       DR.cpp, Stratum.cpp
      DRFlowProofs ...... theorems

  DiffRow ............... counters, flags, predicates of one row      Table.h
    DiffTable ........... one table, batch after batch                Table.h, Stratum.cpp, Database.cpp
      DiffTableProofs ... theorems
  GroundProgram ......... grounded program, strata, least model       DR.cpp, Stratum.cpp
    ViewMaintenance ..... the abstract specification
    Derivation .......... folding sets of firings (with DiffRow)
      LedgerProofs ...... theorems: LeastModel, what a loop of folds does
      Epoch ............. the generated entry procedure               Stratum.cpp, Database.cpp
        EpochInvariant .. its inductive invariant
          EpochProofs ... theorems: bands, rounds, sweeps, the refinement
      OracleEpoch ....... the oracle                                  Oracle/Main.cpp
        OracleInvariant . its inductive invariant (over LedgerProofs)
          OracleProofs .. theorems: its loops, the comparison, the refinement
  Programs .............. the ground programs of the runs
  Aggregate ............. StateCell store and GROUP_UPDATE            StateCell.h, Database.cpp
  OpenAddressing
    RowStore ............ row log, hash set, index, compaction        Table.h, Database.cpp
      RowStoreProofs .... theorems
  NetBatch .............. netting of a message's vectors              Vec.h
    ContainerProofs ..... theorems (with Aggregate)
  MC* ................... constants for TLC, and the parts of a run
```

`PROJECT.json` maps every definition to its lines. Where a definition has a
sibling with a longer name that no action uses (`CanClaimAddNoGate` next to
`CanClaimAdd`), the sibling is the definition with a plausible mistake in it,
kept to show that the property listed with it in `PROJECT.json` would notice.

How the parts meet: `ClauseBuilder` starts from what `ParseModules` accepts (a
clause, its parameters and the groups of its body); `Stratify` numbers views like
those `DataFlow` ends with; `DRStrata` starts from tables and their strata;
`DRFlow` establishes what `GroundProgram` assumes (`ProgramWellFormed`), from
which `Epoch` starts; `Epoch` establishes what `DiffTable` assumes of its caller
(`DrainContract`). The modules are checked separately, because the product of two is
out of reach, and each assumption is a property of the run before it.

### Lexer

Bytes become display characters (with tab expansion and waypoints every so many
characters), a reader walks them and may put characters back over line ends and
tabs, `TryGetNextToken` classifies, `InternString` finds or appends a name
in the pool, and `LexAllTokens` repairs or drops invalid tokens and skips lines.
Characters are classes, so `"z"` stands for every letter that begins no form of
number or escape. `Width` is the width of the packed fields of a token.

### Statements

Each machine of `lib/Parse` keeps the numbers of its states; `Refuses` operators
are the conditions on which it logs an error. Beside them stands `docs/Grammar.md` as
productions, recognised top down. One token a step goes to both, and
`GrammarExact` compares the verdicts at the end. `Extra` and `Missing` name the
sentences on which document and code differ, each with its line: they are the
disagreements of section 6, and everything else must agree.

### ParseModules

A stack of modules that import each other, the table of visible declarations,
`AddDecl`, redeclarations and their contexts, clause heads and predicates that look
up or infer declarations, messages received and sent, `HideLocals` at the end
of a module, then `AssignTypes` clause by clause until a pass changes nothing, and
the final checks. The typing reference is the equivalence closure over
`Nodes`.

### QueryGraph, Canonicalize, ClauseBuilder, Optimize, Link, Induction, DataModels

The graph `g` is a record of a sequence of views and of what relations and
conditions hold. A view is replaced and removed as in the code: uses are redirected,
the view is marked dead, constants are copied along. An operator of
`Canonicalize` is one `Canonicalize` method: it gives the graph after the call and
the call's result; `UnlessUnsat` is the early return of a view that can have no row.
A view and its columns cache hashes that few rewritings clear, and `round.history` has those of
the last eight passes. A hash is ideal: structures that the code hashes differently never
collide (the type of a column is left out), and what the code combines by exclusive or is a
symmetric difference. The flags `is_locked` and `valid` are not modelled. Where the code iterates an unordered container or sorts by
address, the Boolean `last` decides, once per compilation. `fault` is a failed
assertion or a reported error.

`DataFlow` runs them: a step builds a clause, canonicalizes one view, or runs a
whole pass. `QueryMeaning` evaluates a graph on a database by rounds of
a least fixed point, and evaluates the clauses themselves; `OutputsPreserved`
compares the two after every pass.

### Stratify, DRStrata, DRFlow

`Stratify` starts from every graph it is given, follows edges in any order, and
ends with owners, straddlers and rejections. The recursion is the code's explicit
frame stack. What a view reads, in any number of edges, is the reference the strata are
compared with: the least set that holds the view and the sources of all it holds
(`Reads`). The debug cross-check against `IdentifyInductions` is left out.

`DRStrata` is `DeriveDRStrata`: a program is chosen in `Init` (what fills each table,
which tables are phase owned, which views of a cycle are anchors, which tables
belong to a later stratum than the view that fills them), `LiftUnit` gives one unit
its turn, `EndPass` pins the SCCs and starts another pass if anything changed, `Stamp`
copies the results to join branches and rounds. Families are lifted in the
code's order, units of a family in any order.

`DRFlow` continues with the operations of that program and their effect sets, the
validators, the dependence edges, the pinned order and the checks on it; and with
the order of the bands and rounds in which the lowering really emits them, over
which `ChangesFoldedOnce` and `ReadsSettled` are stated.

### DiffRow and DiffTable

A row's cell is `[nr, r, f]`: the two counters that the code packs into one
64-bit word, and the set of its flag bits. Every predicate of `Table.h`
(`InI`, `InNew`, `SurvivesSoFar`, `AliveAtClaim`, ..., `NetAdded`) is an operator
on a cell. `DiffTable` drives one table through batches: `fold` (ingest and
seeds of either sign), `del`/`delFire` (OVERDELETE drains and fires),
`rederive`, `add`/`addFire`, `filter`, `commit`, `sealed`. Which rows are folded
is nondeterministic, so the results hold for any rules; the one obligation of the
caller is the contract conjunct of `EndSeeds`, that seeds leave `C_nr` settled,
and `Epoch` checks it as `DrainContract`. Overflow of an int32 half and the
assertions of `Commit` abort, as in the code. The delta vectors are sets: the
generated code sorts and uniques them before every loop. `NeedsCompaction`'s
size thresholds are left open here and are modelled in `RowStore`.

### GroundProgram, Epoch and ViewMaintenance

A program is given ground: rows tagged with their table, and rule instances with
head, body in `JoinedViews()` order, negated rows, and the stratum their
emission sits in. `ProgramWellFormed` is what the DR strata lift guarantees.
`LeastModel` is the reference semantics.

`Epoch` executes one batch: ingest, then per stratum the seed loops, join delta
sections, negation crossovers, product arms (in the order `BuildStratumPhases`
emits the bands), the single-pass drains and filters of acyclic tables, and for
each SCC the OVERDELETE rounds, REDERIVE, INSERT rounds and deferred filters, and
at the end the sweeps. A loop of one sign is one step: its folds move counters
one way and none of the flags it reads moves with them. Two loops of opposite sign
are not merged: a row that goes through zero and back is parked on both
queues, and several of the properties are about exactly that. Orders the source
leaves open (branches, joins, combinations of a join section) are left open.

`ViewMaintenance` has two actions, `Accept` and `Settle`, and `Settle` moves the
whole view at once. `Epoch` and `OracleEpoch` implement it with
`view <- {x : InI(cell[x])}`.

### OracleEpoch

The interpreter the differential tests trust. It differs from the generated
procedure on purpose: minus seeds inside OVERDELETE, plus seeds inside INSERT, all
reads by schema position, no re-test at a claim, and after every batch a
comparison with a scratch evaluation that calls `Fail()`. `NeverFails` is that
comparison. `JoinsAlone` says what `BuildRules` gives the oracle beyond
`ProgramWellFormed` (`Main.cpp:1094-1194`): a view of a join or a negation has one rule, the rules of any other
view have one atom.

### Aggregate, RowStore, OpenAddressing, NetBatch

`Aggregate` is the `StateCellStore` (working value, fold count, sealed value, sealed
occupancy), the two frontier loops, `emit_touched`, the aggregate's own
differential table and `STATE_SEAL`. Each group has its own functor: an
`@invertible` sum, a `@recompute` maximum, or a maximum above a configured
threshold.

`RowStore` is the log, side array, slot array, and one index with its chains. Slots
are functions over `0..capacity-1`, and hashes are a parameter chosen to collide
and to wrap. A probe loop has no exit but the slot it looks for, so "the loop
ends" is the existence of such a slot, and the properties say so. Ids are the
source's plus one. `NetBatch` is a state machine over the loops of the function.

## 3. Runs

| Run | Instance | Shows |
|---|---|---|
| `frontend` | one of: 9 families of texts of up to 8 characters; sentences of 11 kinds of statement; two modules with up to three and one statements | `TokensExact`, `GrammarExact`, `NamesResolve`, `TypesAgree`, `TypingComplete`, `Terminates` |
| `dataflow` | 12 programs and 8 that must be refused, with and without the optimizer, in two orders of its free choices, on up to 3 databases each | `OutputsPreserved`, `KnowledgeTrue`, `DifferentialSound`, `TablesShared`, `InductionsLayered`, `PassesConverge` |
| `dataflow_cycle` | *violation* | see section 6 |
| `strata` | one of: all 4096 loopless digraphs on 4 views, plain and with two negations and an aggregate; programs of 4 tables filled by unions, a join, a product, a negation, an aggregate or receives | `StrataOrdered`, `RejectsUnstratified`, `StrataExact`, `NeverAborts`, `ChangesFoldedOnce`, `ReadsSettled`, `Terminates` |
| `difftable_scc` | 2 symmetric rows, counters in -3..2 before the abort, any number of batches | `IndInv`, `FrontierExact`, `SealedCoherent`, `MirrorExact`, `LiveCount`, `ClaimedOnce`, `CompactionInvisible` |
| `difftable_acyclic` | the same for a table outside any SCC | `FrontierExact` where the same-round bits stay set until the sweep |
| `epoch_tc` | linear reachability, 3 nodes, 4 edges with a cycle and a shortcut, all batches | `CountersExact`, `FreshClaims`, `BatchSettles`, `RefinesViewMaintenance` |
| `epoch_netting` | acyclic program with two base rules, a negation, a join and a 3-way product; beside it nonlinear closure, and recursion through a join and a negated gate over a 2-cycle with a reader above the SCC | `ViewExact`, `LowerFinal`, `DrainContract` |
| `epoch_flip` | *violation* | see section 6 |
| `oracle` | the acyclic and the nonlinear program of `epoch_netting`, and that of `epoch_flip` | `NeverFails`, `RefinesViewMaintenance` |
| `aggregate_gated` | *violation* | see section 6 |
| `containers` | one of: 5 rows of 3 keys with colliding, wrapping hashes, in an empty store and in one holding 13 dead rows; a sum group with values 1, 1, -1 and a max group with 0, 2, 2; vectors of up to 3 operations over 3 rows | `LookupsExact`, `ScanStable`, `AggregateExact`, `SetSemantics` |

Where a run has several parts, the variable `part` says which of them runs in a
behaviour; the variables of the others keep the values they start with.

Why the bounds are enough for what they are about:

* Rows of a table interact only through the rules, so in `DiffTable` two
  rows already show every per-row interleaving next to an indifferent row; the
  theorems remove the bound. `IntMax = 3` lets the counters dip, cross, and reach
  both ends. For `Recursive` tables, another table of the SCC is the flag `others`.
* The ground programs of `Programs` are the smallest ones in which each read rule
  can go wrong: two atoms of an instance changing in one batch (join, product,
  negation), both atoms claimed in one round (nonlinear closure needs a 2-cycle),
  support that leaves and returns (two base rules), overdeletion through a cycle
  that has to be undone (shortcut). All batches over all their facts are explored
  and the state space is closed, so the number of batches is not bounded.
  Where programs stand side by side a batch concerns one of them and another
  takes over only from the empty database; they share no table.
* `RowStore` uses `InitialCapacity = 16` for 64 and `CompactFloor = 2` for 4096.
  With 8 or less the growth test `n + n/8 >= cap` does not leave room for the index,
  which tests before it inserts (hence `CapacityAssumption`); 64 does. The preloaded state puts both growth
  tests within reach of five rows.
* `MaxOps = 3` gives every multiplicity pattern {once, twice, both signs} at least
  one neighbour to be confused with.
* The families of texts of `MCTexts` are all short texts over the characters that
  one group of branches of the lexer tells apart (numbers, escapes, code, names,
  lines, tabs). `WayPoint = 3` for 4096 characters and `TabSpaces = 4` put
  waypoints inside lines, tabs and after every few characters; fields are wide
  enough here (`FieldsFit`), as positions that do not fit them are the
  code's stated limit.
* `MaxArity = 2` and `MaxNesting = 1` bound the lists and the nested groups of a
  statement: a machine has no memory of how many elements it has read, only of
  whether it has read one, and of the group it is in.
* The menu of 14 statements of `ModulePrograms` has each kind of declaration, redeclarations
  with other types, clauses that use, define and connect them, and messages in
  both directions; three of them are enough for a declaration, its use, and a third
  that changes what the use means.
* Each program of `QueryPrograms` exercises a group of rewritings (constants that
  flow through unions, negation, shared subgraphs, functors, grouping, layered
  recursion, ...), and its databases differ in the facts that those rewritings
  could confuse. They avoid the defects listed in section 6.
* `FlowPrograms` has one memory order, as the sets that are sorted by address are
  consumed in an order that the checks do not depend on.

Bounds that stand in guards: `MaxOps` (NetBatch), `MaxArity` and `MaxNesting`
(Statements), `IntMax` (DiffTable, where reaching it is the code's abort). The
caps of the optimizer (`fuel`, `round.left`, `Histories`) are the code's own.

Deadlock is checked except in `frontend`, `containers`, `strata`, `dataflow` and
`dataflow_cycle`, which model functions that return.

**Fairness.** `Epoch` assumes `WF_vars(Run)`: once called, the entry procedure
goes on to its end, as a sequential program does; nothing obliges a caller to
submit a batch. `ParseModules` (`Progress`) and `MCStrata` assume the same of a compiler
that was started; the enabling condition is written out there, so that
the fairness is that of weak fairness of the next-state relation. All other
specifications are safety only; that the optimizer ends follows from its caps, and
`PassesConverge` says that they are not why it ends: no cap of CSE or of the
elimination of dead flows cuts off a change, canonicalization ends neither by its
cap nor by a repeated hash while a view that stays reports a change, and when no
view reports one, another pass changes nothing. What it leaves open is a last pass in
which only views that died reported a change; section 6 has the case.

## 4. Proofs

### A differential table (`DiffTableProofs`)

`DiffTableProofs` proves, for every finite `Row`, every `IntMax > 0` and both
values of `Recursive`, and assuming only the three named `ASSUME`s on the
constants:

| Theorem | States |
|---|---|
| `Inductive` | `IndInv` is invariant |
| `TypeCorrect` | counters stay in their 32 bits |
| `FrontiersExact` | `netRemovals`/`netAdditions` are the presence change of the batch |
| `SweepSeals` | after a sweep every row satisfies `DebugValidateCounts` |
| `MirrorFollows` | the published deltas reproduce the sealed rows |
| `LiveCounted` | `num_live` counts the live rows, before and after compaction |
| `ClaimsAreOnce` | no row is claimed twice per sign and batch |
| `CompactionSafe` | compaction changes no cell |

The argument. `FrontierExact` is not inductive: at the filter one only knows what
was claimed, and a claim is made from a queue whose entries were written by
earlier folds. The invariant therefore follows each row from its crossing to its
claim (`NoLostCrossing`): a batch-start row with no support left is in the delete
queue or claimed, an absent row with support is in the add queue or claimed, and
an overdeleted row with support is waiting for the rederivation, queued, or
claimed; from the drain of each queue on, "or queued" falls away, because what the drain drops
is exactly what no longer needs it. To keep this under later folds one needs that
claims are the flags (`ClaimInv`), that only rows without `C_nr` support are
overdeleted, and that `C_nr` does not move after the seeds (`SettledInv`, from
the contract of `EndSeeds`): that is what excludes a claimed deletion that is
supported again without a rederivation. That the sweep and the compaction may
skip rows rests on `TouchInv` (an untouched row is sealed) and `LogInv` (a row
without an entry is blank). `LiveCount` adds cardinality
arithmetic on top, with the library's facts on finite sets.

Each lemma `...Inv` is one group of actions; under it there is a step for each conjunct
the action can disturb. `FoldAtEffect`, `ExplicitEffect`, `FlagEffect` and
`CommitRowEffect` say once what the cell operators do.

### The entry procedure (`LedgerProofs`, `EpochInvariant`, `EpochProofs`)

| Theorem | States |
|---|---|
| `LeastModelFacts` | `LeastModel` of a set of facts is closed under the rules and, stratum by stratum, the least set that is |
| `ExactIfFresh` | `Spec /\ []FreshClaims` implies `CountersExact`, `ViewExact`, `LowerFinal` and `DrainContract` always |
| `RefinesIfFresh` | `Spec /\ []FreshClaims` implies `RefinesViewMaintenance` |
| `SingleSeedFresh` | if `SingleSeed` then `Spec => []FreshClaims` |
| `CountersAlwaysExact`, `ViewAlwaysExact`, `LowerAlwaysFinal`, `ContractAlwaysKept`, `ProcedureRefines` | if `SingleSeed` then the property holds of `Spec` without further condition |

They hold for every program that satisfies the assumptions of `GroundProgram`:
`ProgramWellFormed` (what the strata lift guarantees, which the run `strata`
checks of `DRStrata` and `DRFlowProofs` proves), `ProgramFinite` (finitely many rows and
instances, numbered strata and SCCs, one stratum per SCC) and `InstancesTyped`
(the shapes of the rules, and that the instances of a rule are emitted together). TLC evaluates
them on the programs of the runs.

*Why there is a condition.* `FreshClaims` says that no INSERT round claims a row that is
there already. `TryClaimAdd` does not test it, and the run `epoch_flip` shows a
program that violates it and ends in a wrong view (section 6). So the properties do not
hold of every program, and the theorems say precisely what is missing: given this one
test, everything else in the procedure is right, whatever the program
and the batches. `SingleSeed` is a condition on the program alone that makes the test
superfluous: no row of a recursive table has two derivations from outside the
rounds of its SCC. Closure over an injective base rule, linear or not, is such a program
(joins and negations have tables of their own, whose rows have one derivation each); a base rule
that projects a column away is not, and is the one of `epoch_flip`. `epoch_tc` and
`epoch_netting` run programs of the first kind; `epoch_tc` checks `FreshClaims` itself.

*The invariant* (`Inv` in `EpochInvariant`). None of the properties is inductive: between
batches they say nothing of the batch in the middle, where counters
are those of no model. `Inv` names what they count there. `Count` is the set of
instances whose negated and positive rows are held by the version, old or new, that the
work done so far has folded for that position (`BodyNow`, `NegNow`); each
counter is the number of its instances in `Count` (`LedgerOk`). A band of the procedure is right if the loop
it runs fires exactly the instances that enter or leave `Count`, each at one position: these
are the lemmas `SeedMoves`, `JoinMoves`, `CrossMoves`, `ProductMoves` and
`RoundFired`, and with them `LedgerDown` and `LedgerUp` give the counters
and the queues after any loop of folds. The other conjuncts tie flags and vectors to how
far the procedure has got, say that a row which lost a derivation is queued or gone,
that a derived row is there, queued or waiting for REDERIVE, and that what is drained
agrees with the new model (`ModelsOk`). The last needs
two arguments about recursion: rows that survive the OVERDELETE rounds are in the new model
(`SurvivorsRight`: otherwise the old model without them would be closed), and when the INSERT
rounds claim nothing more the SCC has reached it (`TargetReached`: the rows derived so far
are closed). TLC checked `Inv` on the programs of `epoch_tc` and `epoch_netting` before it was
proved.

*Induction.* The library's induction rules take an operator and cannot be
instantiated here. Induction is done by least counterexample instead: `WFMin` with the
well-foundedness of `<` on naturals and of strict inclusion on finite sets gives a
least element of the set of counterexamples (`NatLeast`, `FiniteMinimal`). The recursive
functions `grow` and `upTo` inside `LeastModel` are unfolded from their definition
by `CHOOSE`, after a function that solves the equation has been constructed (`GrowEquation`,
`UpToEquation`).

### The oracle (`OracleInvariant`, `OracleProofs`)

| Theorem | States |
|---|---|
| `OracleNeverFails` | `Spec => []NeverFails` |
| `OracleRefines` | `Spec => RefinesViewMaintenance` |

They hold of every program that satisfies the assumptions of `GroundProgram` and
`JoinsAlone`, and need no condition: the comparison with a scratch evaluation that the differential
tests rely on never fails on the oracle's own side, so a difference a test finds is the
generated code's. Set beside `ExactIfFresh` this locates the difference of `epoch_flip`
in the order of the seeds: here the plus seeds come after OVERDELETE.

*The invariant* (`Inv` in `OracleInvariant`) follows the scheme of the entry procedure,
but "counter = instances counted" fails for the oracle. Its seeds
read each atom by its position: those before the delta position as of now,
those after it as of batch start. So OVERDELETE decrements an
instance one of whose atoms came in this batch while a later one left, which the row never
had as a derivation; the counter may even go below zero, and `InsertPhase` gives the
unit back. `Debt` is the set of these instances, those that hold neither before nor
after and whose atoms that came precede those that left (`Ordered`). Each
counter is the number of its instances in `Count` less that in `Debt` (`Balance`).
That every loop moves exactly what it should, each instance at one position, is one lemma
for all loops (`Firing`): one that reads by `U` before the
delta position and by `V` after it fires the instances that `Sorted` describes, at the first
or last position that differs. `BalanceDown` and `BalanceUp` then carry the counters and queues
over a loop.

Debts must not disturb presence. A row that lost a derivation and has no nonrecursive
one left is queued or deleted, and any other row owes nothing (`LossParked`). Were a row
to survive with a nonrecursive derivation and a recursive debt, its total could be zero, and the
repayment in `InsertPhase` would look like an arrival of a row that is there.
That is excluded: a recursive debt has at least two atoms (`DebtHasTwo`), and by
`JoinsAlone` the row has then no nonrecursive rule (`SurvivorSupported`). After the
rounds of OVERDELETE the rows that stayed are in the new model (`OverdeleteSound`), after
those of INSERT all of it is there (`InsertComplete`), by the two arguments about
recursion above; no debt is left from INSERT on (`AddSeedMoves`, `NoDebt`), and `Commit`
finds the counters of that model (`CommitReady`). TLC checked `Inv` on the programs of the run
`oracle` before it was proved.

### Strata (`StratifyProofs`)

| Theorem | States |
|---|---|
| `Ordered` | `Spec => []StrataOrdered`: strata are the strongly connected components, sources first |
| `Rejected` | `Spec => []RejectsUnstratified` |

They hold for any number of views, any edges, seams, negations and aggregates, and any
order in which the edges of a view are followed. The only assumption is the type of the
constants (`StratifyParameters`).

*The invariant* (`Inv`). Neither property is inductive: they speak of strata, and the walk
decides with indices and lowlinks, which mean something only together with the two
stacks. A view is not visited, *open* (on the stack of components) or done, and *active*
while it has a frame. The views on either stack are in the order of their visits
(`StackOk`, `FramesOk`); an active view reads from every open view that came after it, and
every open view reads from an active one that came before (`ReachOk`); the lowlink of an
active view is the index of an open view it reads from, and *no edge followed so far*
from what belongs to it leads to an open view below that (`LowlinkOk`, where `Pending` are the
edges a frame has still to follow). When a view with no edge left has its own index as
lowlink, what came after it on the stack is closed but for edges into finished strata, and
each of them reads from the others: it is a component (`RetreatKeeps`, `Popped`). When
it has not, its parent takes over its views, its lowlink and its debt of edges. That an
edge into a finished component does not lower a lowlink (`LinksBack`) is where
`LowlinkOk` would fail otherwise: the lowlink would be the index of a view that is
not open. TLC checked `Inv` on all digraphs with three views and on all without loops
on one view with four before it was proved.

### The row log and its index (`RowStoreProofs`)

| Theorem | States |
|---|---|
| `Lookups` | `Spec => []LookupsExact` |

For any rows, keys, hashes and projections, any initial capacity above 8 and
any threshold of compaction: every lookup of a row and of a key ends and is exact, across
growth, collisions, wrap-around, compaction and the rebuild. The assumption on the capacity is
what the index needs: it tests its load before the key comes, so a slot array of 8 could
fill up and a lookup of an absent key would not end. The source starts with 64. (That the
source probes with a mask needs a power of two, which does not matter to the order of
the slots and is not assumed.)

*The invariant* (`Inv`). Exactness of lookups is not inductive, since it does not say where
ids are. A slot array *holds* the ids up to `n` when each is in one slot, nothing
else is, and each is *in place*: the slots that a probe for it passes before its own are
taken (`HoldsIds`, `InPlace`). Taking more slots leaves what is in place there
(`StaysInPlace`), and a probe for a free slot puts the next id in place (`ProbeFree`), so
linking, growing and compacting all keep it (`LinkKeeps`, `LinkAllHolds`). The same
holds of the keys of the index (`HoldsKeys`, `MoveKeeps`, `PutKeeps`, `RehashKeeps`). A free slot
exists because the invariant keeps the load below the capacity: `n + n/8 < c` with
`c > 8` for the log, and fewer keys than slots for the index. The chains are
described link by link: `next` leads from a row to the *latest* earlier row of the same key,
and the head of a slot is the latest of all (`Chained`, `Latest`); that a walk then
visits exactly the rows of the key is `ChainIs`. TLC checked `Inv` on the rows part of
`containers` before it was proved.

The recursive functions of the module (`LinkAll`, `IndexRehashed`, `Rebuilt`, `Chain`) are unfolded as
those of `LeastModel`: a solution of the equation is constructed up to each length
(`LinkedExists`, `RehashedExists`, `BuiltExists`), by `Induct`.

### Batch netting (`ContainerProofs`)

| Theorem | States |
|---|---|
| `Netted` | `NetSpec => []SetSemantics` |

For any rows and vectors of any length: when the call returns, each vector holds the
rows that were only in it, each once. The invariant (`Inv`) says of each
stage what the scans have seen: the distinct rows are those passed so far, each
once, and their flags the vectors they were met in (`Seen`, `FoldKeeps`). That
selecting by flags then gives the two differences is `Selected`, over the recursive
function `kept`, unfolded as those below.

### Aggregates (`ContainerProofs`)

| Theorem | States |
|---|---|
| `ExactIfGatesOpen` | `AggSpec /\ []GatesOpen(final) => []AggregateExact` |
| `UngatedExact` | without a `max_above`, `AggSpec => []AggregateExact` |

For any finite set of input rows, any groups, values and thresholds, and any batches. `GatesOpen`
says that every group of the rows a batch ends with has a member its threshold lets through.
It is the condition the run `aggregate_gated` violates (section 6), so the first theorem
says that this is the only way in which the published rows can differ from the reduction;
for sums and plain maxima it always holds, which is the second.

*The invariant* (`Inv`). `AggregateExact` speaks of the time between batches. In a
batch the store is that of the rows folded *so far*, those of the end of the batch less those
still to add and with those still to take away (`Current`): each group's working value and
count are the sum, or the multiplicities, and the number of its current rows, while its
sealed value and occupancy are those of the last batch (`GroupCell`), and only touched groups may
differ in the two (`StoreIs`). A fold moves it by one row (`FoldKeeps`, over `WorkedAdd` and
`WorkedRemove`). When both frontiers are folded, what is emitted is exactly the difference of
the two reductions (`EmitFacts`): a group that no row touched has the same members, and
a touched one is compared with its sealed value, which is its old reduction. From there on the cells of
the rows that go and come are determined to the flag (`HeadIs`, `CellFacts`), the claims
take all of them, and the sweep leaves the new reduction and seals the store at it (`SealIs`).

The sum is the fold of the community modules, whose equation is derived
from its definition (`SumIs`, `SumAdd`), as is that a finite set of numbers has its `Max`
(`MaxFacts`). TLC checked `Inv` on the groups of `containers`, one of them with a
threshold, over the batches that leave every gate open, before it was proved.

### Strata and order of the flow (`DRFlowProofs`)

| Theorem | States |
|---|---|
| `StrataTheorem` | `FlowSpec => []StrataExact`: the lift ends with the least strata that satisfy the reads |
| `SettledTheorem` | `FlowSpec => []ReadsSettled` |
| `FoldedTheorem` | `FlowSpec => []ChangesFoldedOnce` |
| `ValidatorsTheorem` | `FlowSpec => []NeverAborts` |

For any finite set of tables, any legal programs over them and any order of the units within
a family. What is assumed is what the earlier passes leave (`DRStrataAssumption`:
`LegalProgram`), that tables are numbered from 1, as 0 stands for "no table" in an operation,
and that a table has an address, any number, two tables even the same one
(`DRFlowAssumption`). Together with `Ordered` this covers the way from a graph of views to
the order in which a batch is executed, and the conclusion is what the proofs about the entry
procedure assume of the flow.

*The invariant* (`FlowInv`) has a part for the lift and one for what is built from it.
That no stratum is ever above the reference (`NeverOvershoots`) says nothing of when the
lift may stop. `PassOk` adds it: as long as a pass has changed nothing, every unit it has lifted is
where its reads want it and its head drains no earlier (`UnitOk`). So a pass that ends
unchanged ends with strata that satisfy all units, and one that pins an SCC at another
stratum is followed by one more. The reference is the recursive function `Level`, unfolded as
those above (`LevelIs`); that its levels are the least strata is `LevelFacts`, and that
no lift of a unit passes them rests on reads going to lower or equal strata of views
(`ReadyBounded`). `Stamp` then copies the strata of joins and SCCs, and the rest of the
flow reads them.

*The order.* Both other properties are about pairs of operations, of which there are sixteen kinds.
They are reduced to the place at which an operation is emitted: outside rounds the
stratum of its unit (`OuterPlace`), inside them that of the drain of its SCC
(`RoundPlace`, `ClaimPlace`, `FilterPlace`). `VectorComplete` takes each vector with what
appends to it and what drains it, `FlagsSettled` each read of flags as of the end of the
batch with the claims and retirements of the same table. For `ChangesFoldedOnce`, `FolderOf`
names the one operation that must fold a change, by how the table is filled and whether the
two share an SCC; `FolderThere` shows that it exists and finds its frontier filled,
`FolderOnly` that no other does, and `PairOnce` that of two changed sides exactly one
operation sees the other's new state.

*The validators.* `Unfailed` says that no validator has failed yet, that the dependences are
those of the operations, and that after the sort every operation has one place and no
operation comes before one of a lower key (`Laid`). The argument has two halves.
For the inventory (`InventoryPasses`), each group of checks follows from the way the
operations were made, kind by kind; where a validator counts, in the census, the operations
of a kind are brought into bijection with the tables, branches or signs they stand for
(`Numbered`, `SignedCount`, `SeedCensus`), for any number of either. For the order
(`OrderPasses`), the keys are compared as `key_less` does, which is a strict order on
tuples of numbers (`LessFacts`); every dependence within a pass leads to a greater key
(`DepFacts`), so as long as an operation is left one of least key is ready, the sort never
stops early and what it pins is sorted (`TopoSorted`). The checks on positions then are
facts about keys (`KeyStrata`, `RetireLater`). None of it needs the keys of distinct
operations to differ.

### Only model-checked

Liveness (`BatchSettles`, `Terminates`), which this prover does not do. What the recursive
operators compute (`Meaning`, `Reads`, the graph rewriting passes, `PassesConverge` among their
properties), as a module with a RECURSIVE
operator cannot be proved about. Properties whose content is a finite case analysis over a
grammar or a family of texts. `ScanStable`, whose `SelectSeq` would need induction over
sequences. The front end and the passes over the graph, for which see
section 8.

## 5. Hazards

`PROJECT.json` lists them by line with the properties that watch them. They
fall into these groups: stale queue entries and flags (claims, frontier
filters); instances counted at several positions (joins, products, negations); order
of queue clearing, rounds and rederivation; stale ids after compaction and probes
at the load limit; occupancy of aggregate groups; compile-time fixpoints that
must end, and end in order (strata, typing, canonicalization); rewrites that change
what a relation means (merged views, deleted tuples, constants, shared tables);
names whose meaning changes while they are used; and hand-written machines
that accept other sentences than the grammar.

## 6. Where code and documentation disagree

### With a run

**`epoch_flip`** (`Table.h:490`). `TryClaimAdd` asks for `Total > 0` and not `kAdd`,
and not that the row was absent or overdeleted. In a recursive SCC, take
`reach(X) : start(X, _)` and `reach(Y) : reach(X), edge(X, Y)`, and a batch that removes
`start(a, 1)` and adds `start(a, 2)`. The minus fold parks `reach(a)` for
deletion, the plus fold parks it for addition. The delete claim is dropped, rightly, since
`C_nr > 0`. The add claim succeeds, `reach(a)` enters the insert frontier, and
the round adds `C_r` to its consequences a second time. After the batch
`reach(b)` has a count of 2 for one derivation, so when a later batch retracts
everything it keeps `C_r = 1`, is "rederived", and stays. `StackSafeNegation.md`
(lines 352 and 355) excludes both. `NetAdded` has the test (`Table.h:433`), which is why
acyclic tables are not affected: `epoch_netting` checks that. The oracle is not affected
either, because it folds minus seeds in OVERDELETE and plus seeds in INSERT:
`oracle` includes the same program.

**`aggregate_gated`** (`Database.cpp:2159`). The oracle drops a `max_above` group
with no member above the threshold and says that this mirrors the engine. The
generated `emit_touched` asks for the fold count only, and emits a row with the
driver's sentinel.

**`dataflow_cycle`** (`DeadFlowElimination.cpp:331`). `IsTrivialCycle` compares
`incoming_view->columns[i]->Index()` with `tuple->columns[i]->Index()`, which
are both `i`, and so deletes as trivial a tuple that permutes the columns of the
union it feeds. A symmetric closure, `sym(A,B) : e(A,B). sym(A,B) : sym(B,A).`,
loses its second rule.

### Without a run of their own

The models keep what the code does; the programs of the passing runs avoid the
cases in which it is wrong.

Runtime. The comment above `NetBatch` (`Vec.h:170-173`) describes an arithmetic
net count, the body and the comment in it (`Vec.h:200-208`) describe annihilation
of the intersection. They differ for two adds and one remove of a row.
`SetSemantics` is the latter.

Data flow:

* `Build.cpp:2060-2070`: the loop over the groups of a clause stops at a group without
  views, so groups after it are never joined; if the last group is empty,
  `view_groups.back()[0]` reads past its end.
* `Join.cpp:402-443`: the elimination of duplicate outputs drops the other inputs of a
  pivot; `Join.cpp:442` can call itself for ever.
* `View.cpp:1126-1141`: `PullDataFromBeyondTrivialUnions` skips `this` among the merged
  views, and pulls data past a union that adds rows.
* `Build.cpp:869-879`: a negated predicate that repeats a variable
  (`!p(A,A,_)`) indexes past the end.
* `DeadFlowElimination.cpp:208`: a product declared `@product` one of whose columns nobody
  reads crashes.
* `Induction.cpp:362`, `:722`: assertions fail for recursion through a zero-arity
  condition that is read elsewhere, and for layered recursions where a set leaves
  only through a forwarding tuple that joins share. Without the optimizer, layered
  sets get equal depths.
* `Constant.cpp:98` sets `is_const_after_init` to the opposite of what
  `Query.h:508-514` says; its two uses (`ControlFlow/Build/Build.cpp:88`, `:137`)
  are harmless.
* `Parse.cpp:965-969`: `IsDivergent` always returns true, so the error for
  non-linearizable inductions (`Induction.cpp:643-699`) is never reported and
  `@divergent` has no effect.
* `Optimize.cpp:765-804`: the sinking of unions is switched off; most of
  `Merge.cpp` cannot be reached. `TrySinkThroughNegate` does not copy `is_never`.
  Repeated keys of an aggregate are redirected but not dropped.
* `Optimize.cpp:592-605`: canonicalization is said to end when no view reports a change, or
  when the last eight passes have one hash, without progress. The eight hashes are zero at first
  and a view that dies adds nothing (`:658-661`), so a pass in which only
  views that died reported ends it at once, though the graph has changed. The program `late`
  does that, and its compiled graph keeps a tuple that another pass would drop; what the
  graph means is the same.

Delta-relational flow. The edges over which the order is computed are directed
by the keys of the order, so the checks on it (V-READY, V-LOOP, V-LINEAR,
V-OLD-EQUIV) hold whatever the strata, where the comment at `DR.cpp:3960-3968` has
them fail on a perturbation. The pinned order merges both phases of an SCC round, so it is
not the emitted order, though the comment near `DR.cpp:3978` says that it proves equality
with the band walk; the lowering uses neither `pinned_order` nor `body_ops`
(`DR.h:590`). `ReadsSettled` and `ChangesFoldedOnce` are therefore stated over the emitted order.

Parser:

* `Parser.cpp:1355`: `FinalizeDeclAndCheckConsistency` compares a declaration with itself
  (comment at 1465).
* `Parser.cpp:1003`: `TryMatchClauseWithDecl` never refuses a clause for another
  module's export, though its comment wants a redeclaration.
* A clause with a syntax error in its head stays in `module->clauses` without a
  declaration and `AssignTypes` dereferences it. Two `mutable` parameters, and state 12
  of `Clause.cpp`, dereference null.
* A message used with `@first` and then sent is accepted, in the other order it is
  refused; `Grammar.md` gives a message one direction.
* `AssignTypes` does not set `changed` when a typed constant gives a variable its type.
* A clause embedded in an untyped redeclaration types that redeclaration only.
* `#database foo bar.` and `#inline(..) "x"` without a period are accepted; anonymous variables
  in comparisons, and `true` as a predicate, are refused; functor pragmas are not documented;
  a number is accepted for a foreign constant; "Unmatched opening parenthesis" of
  `ReadStatement` cannot be reached.
* An unknown pragma is dropped silently; `#foreign Foo "uint64_t".` is accepted and not
  stored; Python `@inline` code is stored as C++ (`Functor.cpp:542`).

Lexer:

* `Lexer.cpp:265-299`: code literals lose their backquotes; `Grammar.md` says anything.
* `LexAllTokens`: a bad directive as the very first token makes the rest of the file
  ignored; behind a newline the rest of its line is not (comment near `Parser.cpp:170`).
* `Display.cpp`: a waypoint inside an expanded tab has the column of the tab;
  `TryDisplacePosition` behind a final newline gives the old line; positions are packed into
  16-bit fields.

## 7. Not modelled

`PROJECT.json` names every component and the reason.

* *Control-flow IR and its optimizer*: regions, their merging and the builders
  outside `Stratum.cpp`. What they emit for a batch is covered by `Epoch`.
* *Demand*: off unless an option is given.
* *Monotone tables*: the row log is `RowStore`'s; the vectors they feed are not modelled.
* *Union sinking*: cannot be reached.
* *Vectors, allocation, use lists*: memory only.
* *Text generation, printing, drivers*: no state that a property distinguishes.

Inside modelled parts: `Epoch` leaves out monotone and induction-owned tables, the
GROUP_UPDATE bands (see `Aggregate`) and the init procedure; `OracleEpoch` leaves out
rules without positive atoms and aggregate views; `ClauseBuilder` leaves out foreign
constants and inline code; `DRStrata` fills a table in one way only.

## 8. Plan

Done: the differential core with its proofs, the entry procedure with its abstract
specification and its proofs, the oracle with its proofs, aggregates, containers, stratification, strata
lift and the order of the flow with their proofs, the data-flow passes, the parser and the lexer.

Next, in this order:

1. Proofs: that `Lexer` tiles.
2. The region optimizer of `lib/ControlFlow` over a small region language, with
   the effects of a procedure preserved.
3. Monotone tables, init and the entry points of the generated class.
4. `Demand`, as an algorithm over ground programs with answers preserved.
