------------------------------ MODULE QueryGraph ------------------------------
(***************************************************************************)
(* The graph of views of the data-flow IR (lib/DataFlow/Query.h, View.cpp, *)
(* Column.cpp) and the rewriting steps that all optimizations share.       *)
(*                                                                         *)
(* A view has columns, which are named by keys so that a rebuilt view only *)
(* loses some; a use of a column is <<view, key>>, and a use of a constant *)
(* is <<0, literal>>.  `konst` is the constant a column is known to hold   *)
(* (referenced_constant).  Use lists are what the views read.              *)
(***************************************************************************)
EXTENDS Integers, Sequences, SequencesExt, FiniteSets, FiniteSetsExt

CONSTANTS
    UniqueLits      \* literals of @unique foreign constants, and tags

NoView == 0
RECURSIVE Ascending(_)
Ascending(S) == IF S = {} THEN <<>> ELSE <<Min(S)>> \o Ascending(S \ {Min(S)})

None == "none"

IsConstant(r) == r[1] = NoView
Lit(l) == <<NoView, l>>

NoColumnHash(n) == [i \in 1 .. n |-> <<>>]
NewView(kind, what, n) ==
    [kind |-> kind, what |-> what, cols |-> [i \in 1 .. n |-> i],
     konst |-> [i \in 1 .. n |-> None],
     ins |-> <<>>, att |-> <<>>,        \* input_columns, attached_columns
     conf |-> <<>>,                     \* config_columns of an aggregate
     srcs |-> <<>>,                     \* merged_views or joined_views (weak uses)
     decl |-> None,                     \* of a select, an insert or a key-value index
     outs |-> <<>>, npiv |-> 0,         \* of a join: out_to_in, num_pivots
     neg |-> NoView,                    \* negated_view
     canon |-> FALSE, dead |-> FALSE, unsat |-> FALSE,
     prod |-> FALSE, recv |-> FALSE,    \* can_produce_deletions, can_receive_deletions
     negated |-> FALSE,                 \* is_used_by_negation
     hash |-> {}, colhash |-> NoColumnHash(n)]

(* The graph: its views, the selects and inserts that the relations and    *)
(* messages hold, which declarations are messages, and `fault`: the error  *)
(* reported, or what the compiler ran into.  `hashed` are the structures    *)
(* that have a hash.                                                       *)
EmptyGraph(decls, messages) ==
    [v |-> <<>>, sels |-> [d \in decls |-> <<>>], inss |-> [d \in decls |-> <<>>], ios |-> messages,
     fault |-> None, hashed |-> <<>>]
(* TLC evaluates a function where it is applied, layer upon layer: it has   *)
(* to evaluate all of a graph to compare it.                               *)
Evaluated(g) == IF g = g THEN g ELSE g
Fault(g, what) == [g EXCEPT !.fault = what]

Add(g, view) == [g EXCEPT !.v = Append(@, view)]
Newest(g) == Len(g.v)
Live(g) == {v \in DOMAIN g.v : ~g.v[v].dead}
Kinds(g, kinds) == {v \in Live(g) : g.v[v].kind \in kinds}
Col(g, v, i) == <<v, g.v[v].cols[i]>>
Cols(g, v) == [i \in DOMAIN g.v[v].cols |-> Col(g, v, i)]
Index(g, r) == CHOOSE i \in DOMAIN g.v[r[1]].cols : g.v[r[1]].cols[i] = r[2]

OutRefs(view) == UNION {Range(view.outs[k]) : k \in DOMAIN view.outs}
Reads(g, v) == Range(g.v[v].ins) \cup Range(g.v[v].att) \cup Range(g.v[v].conf) \cup OutRefs(g.v[v])
ReadViews(g, v) == {r[1] : r \in Reads(g, v)} \ {NoView}

-----------------------------------------------------------------------------
(* Uses. *)

ColUsers(g, r) == {u \in Live(g) : r \in Reads(g, u)}
ColumnUsers(g, v) == {u \in Live(g) : v \in ReadViews(g, u)}
DirectUsers(g, v) ==
    {u \in Live(g) : g.v[u].neg = v \/ (g.v[u].kind = "merge" /\ v \in Range(g.v[u].srcs))}
Users(g, v) == IF g.v[v].cols = <<>> THEN {} ELSE ColumnUsers(g, v) \cup DirectUsers(g, v)
Held(g, v) == \E d \in DOMAIN g.sels : v \in Range(g.sels[d]) \cup Range(g.inss[d])

IsUsedDirectly(g, v) == ~g.v[v].dead /\ (Held(g, v) \/ DirectUsers(g, v) # {})
IsUsed(g, v) == IsUsedDirectly(g, v) \/ (~g.v[v].dead /\ ColumnUsers(g, v) # {})
IsUsedIgnoreMerges(g, r) == ColUsers(g, r) # {}
ColIsUsed(g, r) == IsUsedIgnoreMerges(g, r) \/ IsUsedDirectly(g, r[1])

OnlyUser(g, v) ==
    LET users == ColumnUsers(g, v) \cup DirectUsers(g, v)
    IN IF Cardinality(users) = 1 THEN CHOOSE u \in users : TRUE ELSE NoView

(* Update: a view whose inputs changed is no longer canonical, nor are its *)
(* users if it was.                                                        *)
Update(g, views) ==
    LET woken == views \cup UNION {ColumnUsers(g, v) : v \in {w \in views : g.v[w].canon}}
    IN [g EXCEPT !.v = [v \in DOMAIN @ |-> IF v \in woken THEN [@[v] EXCEPT !.canon = FALSE] ELSE @[v]]]

-----------------------------------------------------------------------------
(* Constants. *)

Konst(g, r) == g.v[r[1]].konst[r[2]]
IsConstantRef(g, r) == ~IsConstant(r) /\ Konst(g, r) # None
IsConstantOrConstantRef(g, r) == IsConstant(r) \/ IsConstantRef(g, r)
AsConstant(g, r) == IF IsConstant(r) \/ ~IsConstantRef(g, r) THEN r ELSE Lit(Konst(g, r))
TryResolveToConstant(g, r) == IF IsConstantRef(g, r) THEN Lit(Konst(g, r)) ELSE r
IsUniqueConstant(r) == IsConstant(r) /\ r[2] \in UniqueLits

CopyConstantToFirst(g, r, from) ==
    IF IsConstant(r) \/ ~IsConstantOrConstantRef(g, from) \/ IsConstantRef(g, r) THEN g
    ELSE [g EXCEPT !.v[r[1]].konst[1] = AsConstant(g, from)[2]]
CopyConstantFrom(g, r, from) ==
    IF IsConstant(r) \/ ~IsConstantOrConstantRef(g, from) \/ IsConstantRef(g, r) THEN g
    ELSE [g EXCEPT !.v = [v \in DOMAIN @ |->
             IF v = r[1] THEN [@[v] EXCEPT !.konst[r[2]] = AsConstant(g, from)[2]]
             ELSE IF r \in Reads(g, v) THEN [@[v] EXCEPT !.canon = FALSE] ELSE @[v]]]

-----------------------------------------------------------------------------
(* Replacement. *)

Subst(s, a, b) == [i \in DOMAIN s |-> IF s[i] = a THEN b ELSE s[i]]
SubstIn(view, a, b) ==
    [view EXCEPT !.ins = Subst(@, a, b), !.att = Subst(@, a, b), !.conf = Subst(@, a, b),
                 !.outs = [k \in DOMAIN @ |-> Subst(@[k], a, b)]]

Renamed(g, a, b) == [g EXCEPT !.v = [v \in DOMAIN @ |-> SubstIn(@[v], a, b)]]
ReplaceUses(g, a, b) == Renamed(Update(g, ColUsers(g, a)), a, b)

(* A column's replacement inherits what is known of it. *)
ReplaceCol(g, a, b) ==
    IF a = b THEN g ELSE ReplaceUses(IF IsConstantRef(g, a) THEN CopyConstantFrom(g, b, a) ELSE g, a, b)

RenamedView(g, v, w) ==
    [g EXCEPT !.v = [u \in DOMAIN @ |-> [@[u] EXCEPT !.srcs = Subst(@, v, w), !.neg = IF @ = v THEN w ELSE @]],
              !.sels = [d \in DOMAIN @ |-> Subst(@[d], v, w)],
              !.inss = [d \in DOMAIN @ |-> Subst(@[d], v, w)]]
ReplaceDirect(g, v, w) == RenamedView(Update(g, DirectUsers(g, v)), v, w)

ReplaceCols(g, v, w) ==
    FoldLeft(LAMBDA x, i : ReplaceCol(x, Col(g, v, i), Col(g, w, i)), g, [i \in DOMAIN g.v[v].cols |-> i])
CopyDifferential(g, v, w) ==
    [g EXCEPT !.v[w].recv = @ \/ g.v[v].recv, !.v[w].prod = @ \/ g.v[v].prod]
SubstituteAllUsesWith(g, v, w) ==
    Evaluated(CopyDifferential(ReplaceDirect(
        ReplaceCols([g EXCEPT !.v[w].negated = @ \/ g.v[v].negated, !.v[v].negated = FALSE], v, w), v, w), v, w))

(* PrepareToDelete: what reads a column of a dying view dies with it, a    *)
(* merge only when nothing is left to merge.                               *)
Dying(g, views) ==
    LET dead[n \in 0 .. Len(g.v)] ==
            IF n = 0 THEN views
            ELSE LET D == dead[n - 1]
                 IN D \cup {u \in Live(g) : \/ g.v[u].kind # "merge" /\ ReadViews(g, u) \cap D # {}
                                            \/ g.v[u].kind = "merge" /\ Range(g.v[u].srcs) \cap D # {}
                                               /\ Range(g.v[u].srcs) \subseteq D}
    IN dead[Len(g.v)]

Alive(s, D) == SelectSeq(s, LAMBDA v : v \notin D)
Deleted(g, D) ==
    [g EXCEPT
          !.v = [u \in DOMAIN @ |->
                   IF u \in D
                   THEN [@[u] EXCEPT !.dead = TRUE, !.canon = TRUE, !.hash = {}, !.ins = <<>>, !.att = <<>>, !.conf = <<>>,
                                     !.srcs = <<>>, !.outs = <<>>, !.npiv = 0, !.neg = NoView]
                   ELSE IF @[u].kind = "merge" /\ Range(@[u].srcs) \cap D # {}
                   THEN [@[u] EXCEPT !.srcs = Alive(@, D), !.canon = FALSE]
                   ELSE @[u]],
          !.sels = [d \in DOMAIN @ |-> Alive(@[d], D)],
          !.inss = [d \in DOMAIN @ |-> Alive(@[d], D)]]
PrepareAllToDelete(g, views) == Evaluated(Deleted(g, Dying(g, {v \in views : ~g.v[v].dead})))
PrepareToDelete(g, v) == PrepareAllToDelete(g, {v})

ReplaceAllUsesWith(g, v, w) == PrepareToDelete(SubstituteAllUsesWith(g, v, w), v)

MarkAsUnsatisfiable(g, v) ==
    [g EXCEPT !.v = [u \in DOMAIN @ |->
        IF u = v THEN [@[u] EXCEPT !.unsat = TRUE]
        ELSE IF u \in DirectUsers(g, v) THEN [@[u] EXCEPT !.canon = FALSE] ELSE @[u]]]

(* A new tuple with the columns of v takes over its uses. *)
Twin(g, v) ==
    LET view == g.v[v]  n == Len(view.cols)
    IN [NewView("tuple", None, n) EXCEPT !.konst = [i \in 1 .. n |-> view.konst[view.cols[i]]]]

(* A tuple, the newest view, that reads what it guards. *)
Guarding(g, v) == SubstituteAllUsesWith(Add(g, Twin(g, v)), v, Newest(g) + 1)
Forwards(g, ins) == [g EXCEPT !.v[Newest(g)].ins = ins]
GuardWithTuple(g, v) == Forwards(Guarding(g, v), Cols(g, v))

(* The guard of a view that is about to lose columns: it forwards, for     *)
(* each, the one column that keeps its input, or its constant.  When all   *)
(* are constant the first is forwarded still, for the rows' presence.      *)
GuardInputs(g, v, first_att, in_to_out) ==
    LET view == g.v[v]  n == Len(view.cols)
        all_const == \A i \in 1 .. n : IsConstantRef(g, Col(g, v, i))
        input(i) == IF i <= first_att THEN view.ins[i] ELSE view.att[i - first_att]
    IN [i \in 1 .. n |->
          IF IsConstantRef(g, Col(g, v, i)) /\ ~(all_const /\ i = 1)
          THEN AsConstant(g, Col(g, v, i))
          ELSE IF i <= first_att /\ view.kind = "map" THEN Col(g, v, i)
          ELSE <<v, in_to_out[input(i)]>>]

OptGuard(g, v, first_att, in_to_out) == Forwards(g, GuardInputs(g, v, first_att, in_to_out))
GuardWithOptimizedTuple(g, v, first_att, in_to_out) == OptGuard(Guarding(g, v), v, first_att, in_to_out)

-----------------------------------------------------------------------------
(* What a view reads. *)

GetIncomingView(cols) ==
    LET vars == SelectSeq(cols, LAMBDA r : ~IsConstant(r)) IN IF vars = <<>> THEN NoView ELSE vars[1][1]
GetIncomingView2(cols1, cols2) == GetIncomingView(cols1 \o cols2)
RetainsEdgeTo(v, cols1, cols2) == \E r \in Range(cols1 \o cols2) : ~IsConstant(r) /\ r[1] = v

(* Reading past tuples that only forward, and merges of one other view. *)
RECURSIVE PullBeyondTuples(_, _, _, _, _, _)
PullBeyondTuples(g, v, visited, incoming, cols1, cols2) ==
    LET stay == [view |-> incoming, c1 |-> cols1, c2 |-> cols2]
        past(cols) == [i \in DOMAIN cols |->
                          IF cols[i][1] = incoming THEN g.v[incoming].ins[Index(g, cols[i])] ELSE cols[i]]
        through(cols, w) == [i \in DOMAIN cols |->
                          IF cols[i][1] = incoming THEN Col(g, w, Index(g, cols[i])) ELSE cols[i]]
    IN IF incoming \in {NoView, v} \cup visited THEN stay
       ELSE IF g.v[incoming].kind = "tuple"
       THEN LET hopped == GetIncomingView2(past(cols1), past(cols2))
            IN IF \/ hopped = v
                  \/ hopped = NoView /\ GetIncomingView(g.v[incoming].ins) # NoView
                  \/ hopped = incoming
               THEN IF hopped = incoming
                    THEN [view |-> hopped, c1 |-> past(cols1), c2 |-> past(cols2)] ELSE stay
               ELSE PullBeyondTuples(g, v, visited \cup {incoming}, hopped, past(cols1), past(cols2))
       ELSE IF g.v[incoming].kind = "merge"
       THEN LET others == Range(g.v[incoming].srcs) \ {v, incoming}
                w == CHOOSE u \in others : TRUE
            IN IF Cardinality(others) # 1 THEN stay
               ELSE PullBeyondTuples(g, v, visited \cup {incoming}, w, through(cols1, w), through(cols2, w))
       ELSE stay

PullDataFromBeyondTrivialTuples(g, v, incoming, cols1, cols2) ==
    PullBeyondTuples(g, v, {}, incoming, cols1, cols2)

-----------------------------------------------------------------------------
(* The scan of a view's columns that precedes its canonicalization: `st`   *)
(* holds the graph, in_to_out and what was discovered.                     *)
Scan(g, v) == [g |-> [g EXCEPT !.v[v].canon = TRUE], map |-> <<>>, has |-> {}]

LearnColumn(g, v, in, out) ==
    IF IsConstantOrConstantRef(g, in) /\ ~IsConstantRef(g, out)
    THEN CopyConstantFrom([g EXCEPT !.v[v].canon = FALSE], out, in) ELSE g

ScanColumn(st, g1, v, in, key, is_attached) ==
    LET out == <<v, key>>
        const == IsConstantRef(g1, out)
        used == IsUsedIgnoreMerges(g1, out)
        unused == ~ColIsUsed(g1, out)
        dup == in \in DOMAIN st.map
        stale(g) == [g EXCEPT !.v[v].canon = FALSE]
    IN [g |-> IF dup /\ used THEN stale(ReplaceCol(stale(g1), out, <<v, st.map[in]>>))
              ELSE IF unused /\ is_attached THEN stale(g1) ELSE g1,
        map |-> IF dup THEN st.map ELSE [r \in DOMAIN st.map \cup {in} |-> IF r = in THEN key ELSE st.map[r]],
        has |-> st.has
            \cup {x \in {"non_local"} : (g1 # st.g /\ const) \/ (dup /\ used)}
            \cup {x \in {"directly_used"} : used}
            \cup {x \in {"unused"} : unused}
            \cup {x \in {"guardable"} : unused /\ const}
            \cup {x \in {"duplicated"} : dup}]
CanonicalizeColumn(st, v, in, key, is_attached) ==
    ScanColumn(st, LearnColumn(st.g, v, in, <<v, key>>), v, in, key, is_attached)

ScanColumns(st, v, ins, keys, is_attached) ==
    FoldLeft(LAMBDA s, i : CanonicalizeColumn(s, v, ins[i], keys[i], is_attached), st,
             [i \in DOMAIN ins |-> i])

(* CanonicalizeColumnPair, for kinds whose columns are rebuilt by hand. *)
CanonicalizeColumnPair(st, v, in, key, opt) ==
    LET out == <<v, key>>
        learns == IsConstantOrConstantRef(st.g, in) /\ ~IsConstantRef(st.g, out)
    IN [st EXCEPT
          !.g = IF learns THEN CopyConstantFrom(@, out, in) ELSE @,
          !.has = @ \cup {x \in {"non_local"} :
                             learns \/ (IsConstantRef(st.g, in) /\ ~learns /\ opt.constants)}
                    \cup {x \in {"can_remove"} : opt.unused /\ ~ColIsUsed(st.g, out)}]

CanonicalizePairs(st, v, ins, keys, opt) ==
    FoldLeft(LAMBDA s, i : CanonicalizeColumnPair(s, v, ins[i], keys[i], opt), st,
             [i \in DOMAIN ins |-> i])
-----------------------------------------------------------------------------
(* Hashes: a view keeps the hash of its structure, a column that of its     *)
(* view and position, until one of the few rewritings that clear it.  No   *)
(* two structures have the same hash, but the hashes of merged and joined  *)
(* views are combined by exclusive or: a hash is a set of structures, and  *)
(* {}, zero, is that of a view that has not been hashed.                   *)

HashInit(view) ==
    <<view.kind, view.recv, view.prod, Len(view.cols), view.decl, view.npiv > 0, view.what>>
ColumnHash(g, r) == IF IsConstant(r) THEN <<{}, r[2]>> ELSE g.v[r[1]].colhash[r[2]]
ViewHashes(g, views) == FoldLeft(LAMBDA x, u : SymDiff(x, g.v[u].hash), {}, views)

Interned(g, v, structure) ==
    LET known == {i \in DOMAIN g.hashed : g.hashed[i] = structure}
    IN IF known # {} THEN [g EXCEPT !.v[v].hash = known]
       ELSE [g EXCEPT !.v[v].hash = {Len(g.hashed) + 1}, !.hashed = Append(@, structure)]

RECURSIVE Hashed(_, _)
HashedColumn(g, r) ==
    IF IsConstant(r) \/ ColumnHash(g, r) # <<>> THEN g
    ELSE LET h == Hashed(g, r[1])
         IN [h EXCEPT !.v[r[1]].colhash[r[2]] = <<h.v[r[1]].hash, Index(h, r)>>]

HashedInputs(g, v) == g.v[v].ins \o g.v[v].conf \o g.v[v].att
Structure(g, v, init) ==
    LET view == g.v[v]
        columns == [i \in DOMAIN HashedInputs(g, v) |-> ColumnHash(g, HashedInputs(g, v)[i])]
    IN CASE view.kind = "join" -> <<init, ViewHashes(g, <<v>> \o view.srcs), Len(view.srcs), view.npiv>>
         [] view.kind = "negate" -> <<init, g.v[view.neg].hash, columns>>
         [] OTHER -> <<init, {}, columns>>

(* The hash of its shape stands for a view while its inputs are hashed.     *)
HashedChildren(g, v) ==
    FoldLeft(HashedColumn, FoldLeft(Hashed, g, IF g.v[v].kind = "negate" THEN <<g.v[v].neg>> ELSE g.v[v].srcs),
             HashedInputs(g, v))
HashedFrom(g, v, init) ==
    LET h == HashedChildren(g, v)
    IN CASE g.v[v].kind = "select" \/ (g.v[v].kind = "join" /\ g.v[v].outs = <<>>) -> g
         [] g.v[v].kind = "merge" -> [h EXCEPT !.v[v].hash = SymDiff(g.v[v].hash, ViewHashes(h, g.v[v].srcs))]
         [] OTHER -> Interned(h, v, Structure(h, v, init))
Hashed(g, v) ==
    IF g.v[v].hash # {} THEN g
    ELSE HashedFrom(Interned(g, v, <<HashInit(g.v[v])>>), v, HashInit(g.v[v]))

ForgetHashes(g) == [g EXCEPT !.v = [v \in DOMAIN @ |-> [@[v] EXCEPT !.hash = {}]]]
=============================================================================
