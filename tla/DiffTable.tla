------------------------------ MODULE DiffTable ------------------------------
(***************************************************************************)
(* The life of one differential table (hyde::rt::DiffTable), batch after   *)
(* batch, as the generated entry procedure drives it:                      *)
(*                                                                         *)
(*   fold      ingest and seed folds of either sign and either class;      *)
(*   del       drain the delete queue into claims (TryClaimDel);           *)
(*   rederive  overdeleted rows with C_r > 0 go to the add queue;          *)
(*   add       drain the add queue into claims (TryClaimAdd);              *)
(*   filter    build the two net frontiers that later strata read;         *)
(*   commit    seal presence, publish presence changes, maybe compact.     *)
(*                                                                         *)
(* A table of a recursive SCC repeats its drains in rounds, and the fires  *)
(* of a round fold C_r with the round's sign.  Which rows the rules fold   *)
(* is the caller's business (Epoch.tla): here the folds are arbitrary.     *)
(* The caller's one obligation is the contract conjunct of EndSeeds, that  *)
(* the seeds leave C_nr non-negative.                                      *)
(***************************************************************************)
EXTENDS DiffRow, FiniteSets

CONSTANTS
    Row,        \* the tuples the table can hold
    IntMax,     \* INT32_MAX
    Recursive   \* whether the table belongs to a recursive SCC

ASSUME RowFinite       == IsFiniteSet(Row)
ASSUME IntMaxPositive  == IntMax \in Nat \ {0}
ASSUME RecursiveIsBool == Recursive \in BOOLEAN

VARIABLES
    cell,         \* the packed counters and the flag byte of every row
    log,          \* the rows that have an entry in the RowStore
    delQ, addQ,   \* kDeleteQueue and kAddQueue
    claimedDel,   \* kOverdeleteSet
    claimedAdd,   \* kAdditionSet
    frontier,     \* the round's kClaimedDeleteFrontier or kClaimedAddFrontier
    netRemovals,  \* kNetRemovals
    netAdditions, \* kNetAdditions
    numLive,      \* num_live
    mirror,       \* what a reader of every published delta holds
    phase

vars == <<cell, log, delQ, addQ, claimedDel, claimedAdd, frontier,
          netRemovals, netAdditions, numLive, mirror, phase>>

vectors == <<delQ, addQ, claimedDel, claimedAdd, frontier,
             netRemovals, netAdditions>>

Phases == {"fold", "del", "delFire", "rederive", "add", "addFire", "filter",
           "commit", "sealed", "abort"}

(* What the rows present at batch start, and the rows present now, are. *)
BatchStart == {x \in Row : InI(cell[x])}
NowPresent == {x \in Row : Present(cell[x])}

Init ==
    /\ cell = [x \in Row |-> NewCell]
    /\ log = {}
    /\ delQ = {} /\ addQ = {}
    /\ claimedDel = {} /\ claimedAdd = {} /\ frontier = {}
    /\ netRemovals = {} /\ netAdditions = {}
    /\ numLive = 0
    /\ mirror = {}
    /\ phase = "fold"

-----------------------------------------------------------------------------
(* Folds.  Both ends of the int32 range abort the process. *)

OverflowsUpOnly(e) == e.nr = IntMax \/ e.r = IntMax
Overflows(e) == \/ e.nr \in {IntMax, -IntMax - 1}
                \/ e.r \in {IntMax, -IntMax - 1}

(* Store the cell e of row x, which a fold of sign d made of cell c, and   *)
(* park the row when the fold crossed zero.                                *)
StoreFold(x, c, e, d) ==
    \/ /\ Overflows(e)
       /\ phase' = "abort"
       /\ UNCHANGED <<cell, log, vectors, numLive, mirror>>
    \/ /\ ~Overflows(e)
       /\ cell' = [cell EXCEPT ![x] = e]
       /\ log' = log \cup {x}
       /\ addQ' = IF d = 1 /\ CrossedUp(c, e) THEN addQ \cup {x} ELSE addQ
       /\ delQ' = IF d = -1 /\ CrossedDown(c, e) THEN delQ \cup {x} ELSE delQ
       /\ UNCHANGED <<claimedDel, claimedAdd, frontier, netRemovals,
                      netAdditions, numLive, mirror, phase>>

Fold(x, k, d) == StoreFold(x, cell[x], FoldAt(cell[x], k, d), d)

(* The derivation folds of the ingest and of the seed loops. *)
AddDerivation(x, k) == phase = "fold" /\ Fold(x, k, 1)
SubDerivation(x, k) == phase = "fold" /\ Fold(x, k, -1)

(* Message support: only the transitions of the kExplicit bit fold.  An    *)
(* addition that is not a transition still leaves a log entry.             *)
IngestAdd(x) ==
    /\ phase = "fold"
    /\ \/ /\ "kExplicit" \notin cell[x].f
          /\ StoreFold(x, cell[x], AddExplicit(cell[x]), 1)
       \/ /\ "kExplicit" \in cell[x].f
          /\ log' = log \cup {x}
          /\ UNCHANGED <<cell, vectors, numLive, mirror, phase>>

IngestRemove(x) ==
    /\ phase = "fold"
    /\ \/ /\ x \in log
          /\ "kExplicit" \in cell[x].f
          /\ StoreFold(x, cell[x], SubExplicit(cell[x]), -1)
       \/ /\ \/ x \notin log
             \/ "kExplicit" \notin cell[x].f
          /\ UNCHANGED vars

(* The seeds are done.  Contract: the nonrecursive counters are settled    *)
(* and count at least the explicit support, whatever dips happened on the  *)
(* way.                                                                    *)
NrSettled(c) == c.nr >= IF "kExplicit" \in c.f THEN 1 ELSE 0

EndSeeds ==
    /\ phase = "fold"
    /\ \A x \in Row : NrSettled(cell[x])
    /\ phase' = "del"
    /\ UNCHANGED <<cell, log, vectors, numLive, mirror>>

-----------------------------------------------------------------------------
(* Claim drains.  A drain visits every entry of the queue, and claims are  *)
(* per row, so one step drains it all. *)

ClaimableDel == {x \in delQ : CanClaimDel(cell[x])}
ClaimableAdd == {x \in addQ : CanClaimAdd(cell[x])}

ClaimAllDel == cell' = [x \in Row |->
    IF x \in ClaimableDel THEN ClaimDel(cell[x]) ELSE cell[x]]
ClaimAllAdd == cell' = [x \in Row |->
    IF x \in ClaimableAdd THEN ClaimAdd(cell[x]) ELSE cell[x]]

(* An acyclic table is drained once per sign; its queues are left alone. *)
SinglePassDel ==
    /\ phase = "del"
    /\ ~Recursive
    /\ ClaimAllDel
    /\ claimedDel' = claimedDel \cup ClaimableDel
    /\ phase' = "add"
    /\ UNCHANGED <<log, delQ, addQ, claimedAdd, frontier, netRemovals,
                   netAdditions, numLive, mirror>>

SinglePassAdd ==
    /\ phase = "add"
    /\ ~Recursive
    /\ ClaimAllAdd
    /\ claimedAdd' = claimedAdd \cup ClaimableAdd
    /\ phase' = "filter"
    /\ UNCHANGED <<log, delQ, addQ, claimedDel, frontier, netRemovals,
                   netAdditions, numLive, mirror>>

(* The head of an OVERDELETE round of an SCC: the round's frontier is      *)
(* rebuilt from the claims of this drain, and the queue is emptied.  The   *)
(* loop goes on while a frontier of some table of the SCC is non-empty;    *)
(* others says whether another table's is.                                 *)
DelRound(others) ==
    /\ phase = "del"
    /\ Recursive
    /\ ClaimAllDel
    /\ claimedDel' = claimedDel \cup ClaimableDel
    /\ frontier' = ClaimableDel
    /\ delQ' = {}
    /\ phase' = IF others \/ ClaimableDel # {} THEN "delFire" ELSE "rederive"
    /\ UNCHANGED <<log, addQ, claimedAdd, netRemovals, netAdditions, numLive,
                   mirror>>

(* The fires of the round fold -C_r; then the frontier is retired. *)
DelFire(x) == phase = "delFire" /\ Fold(x, "kRecursive", -1)

DelRetire ==
    /\ phase = "delFire"
    /\ cell' = [x \in Row |->
          IF x \in frontier THEN RetireDel(cell[x]) ELSE cell[x]]
    /\ phase' = "del"
    /\ UNCHANGED <<log, vectors, numLive, mirror>>

(* The output of the OVERDELETE loop. *)
Rederive ==
    /\ phase = "rederive"
    /\ addQ' = addQ \cup {x \in claimedDel : RecursivelySupported(cell[x])}
    /\ phase' = "add"
    /\ UNCHANGED <<cell, log, delQ, claimedDel, claimedAdd, frontier,
                   netRemovals, netAdditions, numLive, mirror>>

AddRound(others) ==
    /\ phase = "add"
    /\ Recursive
    /\ ClaimAllAdd
    /\ claimedAdd' = claimedAdd \cup ClaimableAdd
    /\ frontier' = ClaimableAdd
    /\ addQ' = {}
    /\ phase' = IF others \/ ClaimableAdd # {} THEN "addFire" ELSE "filter"
    /\ UNCHANGED <<log, delQ, claimedDel, netRemovals, netAdditions, numLive,
                   mirror>>

AddFire(x) == phase = "addFire" /\ Fold(x, "kRecursive", 1)

AddRetire ==
    /\ phase = "addFire"
    /\ cell' = [x \in Row |->
          IF x \in frontier THEN RetireAdd(cell[x]) ELSE cell[x]]
    /\ phase' = "add"
    /\ UNCHANGED <<log, vectors, numLive, mirror>>

-----------------------------------------------------------------------------
(* Frontier filters: immediate for an acyclic table, in the output of the  *)
(* INSERT loop for an SCC table; in both cases after all claims. *)
FrontierFilter ==
    /\ phase = "filter"
    /\ netRemovals' = {x \in claimedDel : NetDeleted(cell[x])}
    /\ netAdditions' = {x \in claimedAdd : NetAdded(cell[x])}
    /\ phase' = "commit"
    /\ UNCHANGED <<cell, log, delQ, addQ, claimedDel, claimedAdd, frontier,
                   numLive, mirror>>

-----------------------------------------------------------------------------
(* The commit sweep, over the touched rows: a negative counter fails its   *)
(* assertion.  The vectors are locals of the entry procedure and die with  *)
(* it.                                                                     *)

Touched == {x \in Row : "kTouched" \in cell[x].f}
AppearedEveryTouched == {x \in Touched : Present(cell[x])}
Appeared == {x \in Touched : ~InI(cell[x]) /\ Present(cell[x])}
Vanished == {x \in Touched : InI(cell[x]) /\ ~Present(cell[x])}

CommitAsserts ==
    /\ phase = "commit"
    /\ \E x \in Touched : cell[x].nr < 0 \/ cell[x].r < 0
    /\ phase' = "abort"
    /\ UNCHANGED <<cell, log, vectors, numLive, mirror>>

Commit ==
    /\ phase = "commit"
    /\ \A x \in Touched : cell[x].nr >= 0 /\ cell[x].r >= 0
    /\ cell' = [x \in Row |->
          IF x \in Touched THEN CommitRow(cell[x]) ELSE cell[x]]
    /\ numLive' = numLive + Cardinality(Appeared) - Cardinality(Vanished)
    /\ mirror' = (mirror \ Vanished) \cup Appeared
    /\ delQ' = {} /\ addQ' = {}
    /\ claimedDel' = {} /\ claimedAdd' = {} /\ frontier' = {}
    /\ netRemovals' = {} /\ netAdditions' = {}
    /\ phase' = "sealed"
    /\ UNCHANGED log

(* Dead rows leave the log, counters and flags with them.  NeedsCompaction *)
(* asks for at least one dead row; its size thresholds decide when, and    *)
(* are left open here.                                                     *)
DeadByNr == {x \in log : cell[x].nr <= 0}
Dead == {x \in log : Total(cell[x]) <= 0}

CompactDead ==
    /\ phase = "sealed"
    /\ Dead # {}
    /\ log' = log \ Dead
    /\ cell' = [x \in Row |-> IF x \in Dead THEN NewCell ELSE cell[x]]
    /\ UNCHANGED <<vectors, numLive, mirror, phase>>

BeginBatch ==
    /\ phase = "sealed"
    /\ phase' = "fold"
    /\ UNCHANGED <<cell, log, vectors, numLive, mirror>>

Aborted == phase = "abort" /\ UNCHANGED vars

-----------------------------------------------------------------------------
Classes == IF Recursive THEN DerivClass ELSE {"kNonRecursive"}

Next ==
    \/ \E x \in Row, k \in Classes : AddDerivation(x, k) \/ SubDerivation(x, k)
    \/ \E x \in Row : IngestAdd(x) \/ IngestRemove(x)
    \/ EndSeeds
    \/ SinglePassDel \/ SinglePassAdd
    \/ \E others \in BOOLEAN : DelRound(others) \/ AddRound(others)
    \/ \E x \in Row : DelFire(x) \/ AddFire(x)
    \/ DelRetire \/ Rederive \/ AddRetire
    \/ FrontierFilter \/ CommitAsserts \/ Commit \/ CompactDead \/ BeginBatch
    \/ Aborted

Spec == Init /\ [][Next]_vars

-----------------------------------------------------------------------------
(* The type of the state.  The two counters of a cell share one 64-bit     *)
(* word, and neither ever leaves its 32 bits.                              *)
Counter == (-IntMax)..(IntMax - 1)

TypeOK ==
    /\ cell \in [Row -> [nr : Counter, r : Counter, f : SUBSET RowFlags]]
    /\ log \subseteq Row
    /\ delQ \subseteq Row /\ addQ \subseteq Row
    /\ claimedDel \subseteq Row /\ claimedAdd \subseteq Row
    /\ frontier \subseteq Row
    /\ netRemovals \subseteq Row /\ netAdditions \subseteq Row
    /\ numLive \in Int
    /\ mirror \subseteq Row
    /\ phase \in Phases

(* When Commit is about to pass its assertions, the frontiers that later   *)
(* strata seeded from are exactly the net presence change of the batch: a  *)
(* batch-start row is in kNetRemovals iff its count fell to zero, an       *)
(* absent row is in kNetAdditions iff its count rose above zero, and       *)
(* nothing else is in either, whatever order the folds came in and however *)
(* often they cancelled each other (the stale-entry gates of TryClaimDel   *)
(* and TryClaimAdd, the REDERIVE pass and the kInI test of NetAdded).      *)
FrontierExact ==
    phase = "commit" /\ (\A x \in Row : cell[x].r >= 0) =>
        /\ netRemovals = BatchStart \ NowPresent
        /\ netAdditions = NowPresent \ BatchStart

(* After the commit sweep every row of the table, not only the touched     *)
(* ones, satisfies what DebugValidateCounts asserts.                       *)
SealedCoherent ==
    phase = "sealed" => \A x \in Row : Sealed(cell[x])

(* A reader that applies the published deltas of every sweep holds the     *)
(* rows sealed in I: each presence change is published, none twice.        *)
MirrorExact == mirror = BatchStart

(* num_live, maintained by increments, counts the rows that hold kInI, and *)
(* after a sweep it is the number of log rows a compaction keeps           *)
(* (assert(w == num_live) in CompactDead).                                 *)
LiveCount ==
    /\ numLive = Cardinality(BatchStart)
    /\ phase = "sealed" => Cardinality(log \ Dead) = numLive

(* A row is in the frontier of at most one round per sign and batch: a     *)
(* round never claims what an earlier round of the batch claimed, however  *)
(* often the row was queued again, so no fire repeats.                     *)
ClaimedOnce ==
    [][/\ phase = "del" /\ phase' # "del" => ClaimableDel \cap claimedDel = {}
       /\ phase = "add" /\ phase' # "add" =>
              ClaimableAdd \cap claimedAdd = {}]_vars

(* A compaction is invisible: no predicate of any row, no counter and no   *)
(* explicit bit changes with it, because a dead sealed row is as blank as  *)
(* a row that was never stored.                                            *)
CompactionInvisible ==
    [][phase = "sealed" /\ phase' = "sealed" => UNCHANGED cell]_vars
-----------------------------------------------------------------------------
(* The inductive invariant, one part per idea.  Each is about a row and    *)
(* holds until the process aborts.                                         *)

(* A row without a log entry is blank, and a row the batch has not touched *)
(* is as the last sweep sealed it, so the sweep may skip it.               *)
LogInv   == \A x \in Row : x \notin log => cell[x] = NewCell
TouchInv == \A x \in Row : "kTouched" \notin cell[x].f => Sealed(cell[x])

(* Once the seeds are done C_nr does not move; an acyclic table has no C_r *)
(* and no rounds.                                                          *)
SettledInv ==
    /\ phase \notin {"fold", "abort"} => \A x \in Row : NrSettled(cell[x])
    /\ ~Recursive => /\ \A x \in Row : cell[x].r = 0
                     /\ phase \notin {"delFire", "rederive", "addFire"}

(* The claim flags are the claimed sets, only batch-start rows without     *)
(* nonrecursive support are overdeleted, and only present rows are added.  *)
ClaimInv == phase # "abort" => \A x \in Row :
    /\ x \in delQ => InI(cell[x])
    /\ "kDel" \in cell[x].f <=> x \in claimedDel
    /\ "kAdd" \in cell[x].f <=> x \in claimedAdd
    /\ "kDel" \in cell[x].f =>
           /\ InI(cell[x]) /\ cell[x].nr <= 0
           /\ phase \notin {"fold", "sealed"}
    /\ "kAdd" \in cell[x].f =>
           /\ Present(cell[x])
           /\ phase \in {"add", "addFire", "filter", "commit"}

(* No crossing is lost: a batch-start row that has lost all support, an    *)
(* absent row that has some, and an overdeleted row that has some again is *)
(* queued or claimed, and from its drain on it is claimed, although queues *)
(* record crossings at fold time and stale entries are dropped.            *)
NoLostCrossing == phase # "abort" => \A x \in Row :
    /\ InI(cell[x]) /\ cell[x].nr <= 0 /\ cell[x].r <= 0 =>
           \/ "kDel" \in cell[x].f
           \/ x \in delQ /\ phase \in {"fold", "del", "delFire"}
    /\ ~InI(cell[x]) /\ Present(cell[x]) =>
           \/ "kAdd" \in cell[x].f
           \/ x \in addQ /\ phase \notin {"filter", "commit", "sealed"}
    /\ "kDel" \in cell[x].f /\ Present(cell[x]) =>
           \/ "kAdd" \in cell[x].f
           \/ x \in addQ /\ phase \in {"add", "addFire"}
           \/ phase \in {"del", "delFire", "rederive"}

(* After a sweep nothing is touched. *)
SealedInv == phase = "sealed" => \A x \in Row : "kTouched" \notin cell[x].f

(* The frontiers are the filtered claims. *)
FrontierInv == phase = "commit" =>
    /\ netRemovals = {x \in Row : NetDeleted(cell[x])}
    /\ netAdditions = {x \in Row : NetAdded(cell[x])}

IndInv ==
    /\ TypeOK /\ LogInv /\ TouchInv /\ SettledInv /\ ClaimInv
    /\ NoLostCrossing /\ SealedInv /\ FrontierInv
=============================================================================
