--------------------------- MODULE ViewMaintenance ---------------------------
(***************************************************************************)
(* What the generated database promises, whatever its internals do: a      *)
(* batch of message additions and removals is either being worked on or    *)
(* has moved the visible relations, all at once, from the least model of   *)
(* the old facts to the least model of the new ones.                       *)
(***************************************************************************)
EXTENDS GroundProgram

VARIABLES
    facts,  \* the message tuples accepted so far
    view,   \* the rows a query sees
    batch   \* the batch being worked on, or NoBatch

NoBatch == [adds |-> {}, removes |-> {}, busy |-> FALSE]

Apply(f, b) == (f \ b.removes) \cup b.adds

AInit ==
    /\ facts = {}
    /\ view = LeastModel({})
    /\ batch = NoBatch

Accept(adds, removes) ==
    /\ ~batch.busy
    /\ batch' = [adds |-> adds, removes |-> removes, busy |-> TRUE]
    /\ UNCHANGED <<facts, view>>

Settle ==
    /\ batch.busy
    /\ facts' = Apply(facts, batch)
    /\ view' = LeastModel(facts')
    /\ batch' = NoBatch

ANext ==
    \/ /\ ~batch.busy
       /\ \E adds \in SUBSET Facts : \E removes \in SUBSET (Facts \ adds) :
              Accept(adds, removes)
    \/ Settle

ASpec == AInit /\ [][ANext]_<<facts, view, batch>>
=============================================================================
